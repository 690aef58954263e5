----------------------- MODULE ServerConnections_proofs -----------------------
(***************************************************************************)
(* Theorems about ServerConnections, for every set of connections and      *)
(* requests and every bound: identifiers, then what is read and answered,  *)
(* confirmations, and what subscribers are sent.                           *)
(***************************************************************************)
EXTENDS ServerConnections, FiniteSetTheorems, SequenceTheorems,
        WellFoundedInduction, TLAPS

-----------------------------------------------------------------------------
(***************************************************************************)
(* Numbers and sequences.                                                  *)
(***************************************************************************)
\* The order of the natural numbers, as a relation.
Below == {ss \in Nat \X Nat : ss[1] < ss[2]}

\* A nonempty set of natural numbers has a least element.
LEMMA LeastNatural ==
  ASSUME NEW T \in SUBSET Nat, T # {}
  PROVE  \E m \in T : \A n \in T : m <= n
<1>1. IsWellFoundedOn(Below, Nat)
  BY NatLessThanWellFounded DEF OpToRel, Below
<1>2. PICK m \in T : \A n \in T : ~(<<n, m>> \in Below)
  BY <1>1, WFMin
<1>3. ASSUME NEW n \in T PROVE m <= n
  <2>1. n \in Nat /\ m \in Nat
    OBVIOUS
  <2>2. ~(<<n, m>> \in Nat \X Nat /\ <<n, m>>[1] < <<n, m>>[2])
    BY <1>2 DEF Below
  <2>3. ~(n < m)
    BY <2>1, <2>2
  <2>. QED  BY <2>1, <2>3
<1>. QED  BY <1>3

\* A sequence of one element.
LEMMA Singleton ==
  ASSUME NEW S, NEW x \in S
  PROVE  <<x>> \in Seq(S) /\ Len(<<x>>) = 1 /\ <<x>>[1] = x
OBVIOUS

\* Among n and as many numbers above it as S has, one is not in S: the search
\* of ClaimSchemeIdentifier ends, and at the least free identifier.
LEMMA NextAboveIsLeastFree ==
  ASSUME NEW S \in SUBSET Nat, IsFiniteSet(S), NEW n \in Nat
  PROVE  /\ NextAbove(S, n) \in Nat
         /\ NextAbove(S, n) >= n
         /\ NextAbove(S, n) \notin S
         /\ \A k \in Nat : n <= k /\ k < NextAbove(S, n) => k \in S
<1> DEFINE c == Cardinality(S)
<1>1. c \in Nat
  BY FS_CardinalityType
<1>2. FreeAbove(S, n) # {}
  <2>1. SUFFICES ASSUME FreeAbove(S, n) = {} PROVE FALSE
    OBVIOUS
  <2>2. n .. n + c \subseteq S
    BY <2>1 DEF FreeAbove
  <2>3. Cardinality(n .. n + c) <= c
    BY <2>2, FS_Subset
  <2>4. Cardinality(n .. n + c) = c + 1
    <3>1. n \in Int /\ n + c \in Int /\ ~(n > n + c)
      BY <1>1
    <3>2. Cardinality(n .. n + c) = (n + c) - n + 1
      BY <3>1, FS_Interval
    <3>. QED  BY <1>1, <3>2
  <2>. QED  BY <1>1, <2>3, <2>4
<1>3. FreeAbove(S, n) \subseteq Nat
  BY <1>1 DEF FreeAbove
<1>4. \E m \in FreeAbove(S, n) : \A k \in FreeAbove(S, n) : m <= k
  <2> DEFINE F == FreeAbove(S, n)
  <2>1. F \in SUBSET Nat /\ F # {}
    BY <1>2, <1>3
  <2>. HIDE DEF F
  <2>2. \E m \in F : \A k \in F : m <= k
    BY <2>1, LeastNatural
  <2>. QED  BY <2>2 DEF F
<1>5. /\ NextAbove(S, n) \in FreeAbove(S, n)
      /\ \A k \in FreeAbove(S, n) : NextAbove(S, n) <= k
  BY <1>4 DEF NextAbove
<1>6. /\ NextAbove(S, n) \in n .. n + c
      /\ NextAbove(S, n) \notin S
  BY <1>5 DEF FreeAbove
<1>7. ASSUME NEW k \in Nat, n <= k, k < NextAbove(S, n) PROVE k \in S
  <2>1. k \in n .. n + c
    BY <1>1, <1>6, <1>7
  <2>2. k \notin FreeAbove(S, n)
    BY <1>1, <1>5, <1>6, <1>7, <2>1
  <2>. QED  BY <2>1, <2>2 DEF FreeAbove
<1>. QED  BY <1>1, <1>6, <1>7

\* From an inequality to an interval.
LEMMA AllBelow ==
  ASSUME NEW S, NEW m \in Nat, \A i \in Nat : 1 <= i /\ i < m => i \in S
  PROVE  \A i \in 1 .. m - 1 : i \in S
OBVIOUS

-----------------------------------------------------------------------------
(***************************************************************************)
(* The inductive invariant: the identifiers and the pool of connections are*)
(* well typed, the next identifier is the least free one and connected     *)
(* clients hold distinct ones.  Each of the two properties needs the other:*)
(* a release lowers the next identifier to one that was claimed only if the*)
(* disconnecting client's was, and a claim is new only if the next one was *)
(* free.                                                                   *)
(***************************************************************************)
IdentifierTypes ==
  /\ mIdentifierMap \subseteq Nat \ {0}
  /\ IsFiniteSet(mIdentifierMap)
  /\ mNextIdentifier \in Nat \ {0}
  /\ mIdentifier \in [Connections -> Nat]
  /\ mActiveConnections \subseteq Connections

IdentifierInv == IdentifierTypes /\ NextIsLeastFree /\ IdentifiersAreUnique

\* An active connection is accepted, so that it is not accepted again.
ActiveAreAccepted ==
  /\ state \in [Connections -> {"none", "Accepted", "Disconnected", "destroyed"}]
  /\ \A x \in mActiveConnections : x \in Connections /\ state[x] = "Accepted"

Inv == IdentifierInv /\ ActiveAreAccepted

\* A claim keeps identifiers typed and the next one least, and claims an
\* identifier that nobody held.
LEMMA ClaimKeepsLeast ==
  ASSUME IdentifierTypes, NextIsLeastFree,
         NEW x \in Connections, ClaimSchemeIdentifier(x)
  PROVE  /\ mIdentifierMap' \subseteq Nat \ {0}
         /\ IsFiniteSet(mIdentifierMap')
         /\ mNextIdentifier' \in Nat \ {0}
         /\ mIdentifier' \in [Connections -> Nat]
         /\ NextIsLeastFree'
         /\ mIdentifierMap' = mIdentifierMap \cup {mIdentifier'[x]}
         /\ mIdentifier'[x] \notin mIdentifierMap
         /\ \A y \in Connections \ {x} : mIdentifier'[y] = mIdentifier[y]
<1>1. /\ mIdentifierMap' \subseteq Nat \ {0}
      /\ mIdentifierMap' \in SUBSET Nat
      /\ mNextIdentifier + 1 \in Nat
  BY DEF ClaimSchemeIdentifier, IdentifierTypes
<1>2. IsFiniteSet(mIdentifierMap')
  BY FS_AddElement DEF ClaimSchemeIdentifier, IdentifierTypes
<1>3. /\ mIdentifier' \in [Connections -> Nat]
      /\ mIdentifier'[x] = mNextIdentifier
      /\ \A y \in Connections \ {x} : mIdentifier'[y] = mIdentifier[y]
  BY DEF ClaimSchemeIdentifier, IdentifierTypes
<1>4. mNextIdentifier' = NextAbove(mIdentifierMap', mNextIdentifier + 1)
  BY DEF ClaimSchemeIdentifier
<1>5. /\ mNextIdentifier' \in Nat
      /\ mNextIdentifier' >= mNextIdentifier + 1
      /\ mNextIdentifier' \notin mIdentifierMap'
      /\ \A k \in Nat : mNextIdentifier + 1 <= k /\ k < mNextIdentifier'
                       => k \in mIdentifierMap'
  BY <1>1, <1>2, <1>4, NextAboveIsLeastFree
<1>6. ASSUME NEW i \in Nat, 1 <= i, i < mNextIdentifier'
      PROVE  i \in mIdentifierMap'
  <2>1. CASE i < mNextIdentifier
    BY <1>6, <2>1 DEF ClaimSchemeIdentifier, IdentifierTypes, NextIsLeastFree
  <2>2. CASE i = mNextIdentifier
    BY <2>2 DEF ClaimSchemeIdentifier
  <2>3. CASE i > mNextIdentifier
    BY <1>5, <1>6, <2>3 DEF IdentifierTypes
  <2>. QED  BY <2>1, <2>2, <2>3 DEF IdentifierTypes
<1>7. NextIsLeastFree'
  BY <1>5, <1>6, AllBelow DEF NextIsLeastFree
<1>8. mNextIdentifier' \in Nat \ {0}
  BY <1>5 DEF IdentifierTypes
<1>. QED
  BY <1>1, <1>2, <1>3, <1>7, <1>8 DEF ClaimSchemeIdentifier, NextIsLeastFree

\* A release of a claimed identifier keeps the next one least.
LEMMA ReleaseKeepsLeast ==
  ASSUME IdentifierTypes, NextIsLeastFree,
         NEW i \in mIdentifierMap, ReleaseSchemeIdentifier(i)
  PROVE  /\ mIdentifierMap' \subseteq Nat \ {0}
         /\ IsFiniteSet(mIdentifierMap')
         /\ mNextIdentifier' \in Nat \ {0}
         /\ NextIsLeastFree'
         /\ mIdentifierMap' = mIdentifierMap \ {i}
<1>1. i \in Nat \ {0}
  BY DEF IdentifierTypes
<1>2. /\ mIdentifierMap' \subseteq Nat \ {0}
      /\ mIdentifierMap' = mIdentifierMap \ {i}
  BY DEF ReleaseSchemeIdentifier, IdentifierTypes
<1>3. IsFiniteSet(mIdentifierMap')
  BY FS_RemoveElement DEF ReleaseSchemeIdentifier, IdentifierTypes
<1>4. mNextIdentifier' \in Nat \ {0}
  BY <1>1 DEF ReleaseSchemeIdentifier, IdentifierTypes
<1>5. NextIsLeastFree'
  <2>1. CASE i < mNextIdentifier
    BY <1>1, <2>1 DEF ReleaseSchemeIdentifier, IdentifierTypes, NextIsLeastFree
  <2>2. CASE ~(i < mNextIdentifier)
    <3>1. i > mNextIdentifier
      BY <1>1, <2>2 DEF IdentifierTypes, NextIsLeastFree
    <3>. QED
      BY <1>1, <3>1 DEF ReleaseSchemeIdentifier, IdentifierTypes, NextIsLeastFree
  <2>. QED  BY <2>1, <2>2
<1>. QED  BY <1>2, <1>3, <1>4, <1>5

-----------------------------------------------------------------------------
\* The invariant holds initially.
LEMMA InitInv == Init => Inv
<1> SUFFICES ASSUME Init PROVE Inv
  OBVIOUS
<1>1. IdentifierTypes
  BY FS_EmptySet DEF Init, IdentifierTypes
<1>2. NextIsLeastFree /\ IdentifiersAreUnique /\ ActiveAreAccepted
  BY DEF Init, NextIsLeastFree, IdentifiersAreUnique, ActiveAreAccepted
<1>. QED  BY <1>1, <1>2 DEF Inv, IdentifierInv

\* Every step keeps the invariant.
LEMMA NextInv == Inv /\ [Next]_vars => Inv'
<1> SUFFICES ASSUME Inv, [Next]_vars PROVE Inv'
  OBVIOUS
<1> USE DEF Inv, IdentifierInv
<1>1. ASSUME NEW x \in Connections, ListenerDidAccept(x) PROVE Inv'
  <2>1. ClaimSchemeIdentifier(x) /\ mActiveConnections' = mActiveConnections \cup {x}
    BY <1>1 DEF ListenerDidAccept
  <2>2. x \notin mActiveConnections
    BY <1>1 DEF ListenerDidAccept, ActiveAreAccepted
  <2>3. IdentifierTypes' /\ NextIsLeastFree'
    BY <2>1, ClaimKeepsLeast DEF IdentifierTypes
  <2>4. IdentifiersAreUnique'
    <3>1. /\ mIdentifierMap' = mIdentifierMap \cup {mIdentifier'[x]}
          /\ mIdentifier'[x] \notin mIdentifierMap
          /\ \A y \in Connections \ {x} : mIdentifier'[y] = mIdentifier[y]
      BY <2>1, ClaimKeepsLeast
    <3>2. \A y \in mActiveConnections : mIdentifier'[y] = mIdentifier[y]
      BY <2>2, <3>1 DEF IdentifierTypes
    <3>. QED  BY <2>1, <2>2, <3>1, <3>2 DEF IdentifiersAreUnique
  <2>5. ActiveAreAccepted'
    BY <1>1, <2>1 DEF ListenerDidAccept, FlushInactiveConnections, ActiveAreAccepted
  <2>. QED  BY <2>3, <2>4, <2>5
<1>2. ASSUME NEW x \in Connections, ConnectionDidNotAccept(x) PROVE Inv'
  <2>1. ClaimSchemeIdentifier(x) /\ mActiveConnections' = mActiveConnections
    BY <1>2 DEF ConnectionDidNotAccept
  <2>2. x \notin mActiveConnections
    BY <1>2 DEF ConnectionDidNotAccept, ActiveAreAccepted
  <2>3. IdentifierTypes' /\ NextIsLeastFree'
    BY <2>1, ClaimKeepsLeast DEF IdentifierTypes
  <2>4. IdentifiersAreUnique'
    <3>1. /\ mIdentifierMap' = mIdentifierMap \cup {mIdentifier'[x]}
          /\ \A y \in Connections \ {x} : mIdentifier'[y] = mIdentifier[y]
      BY <2>1, ClaimKeepsLeast
    <3>2. \A y \in mActiveConnections : mIdentifier'[y] = mIdentifier[y]
      BY <2>2, <3>1 DEF IdentifierTypes
    <3>. QED  BY <2>1, <3>1, <3>2 DEF IdentifiersAreUnique
  <2>5. ActiveAreAccepted'
    BY <1>2, <2>1, <2>2
       DEF ConnectionDidNotAccept, FlushInactiveConnections, ActiveAreAccepted
  <2>. QED  BY <2>3, <2>4, <2>5
<1>3. ASSUME NEW x \in Connections, ConnectionDidDisconnect(x) PROVE Inv'
  <2>1. /\ x \in mActiveConnections
        /\ ReleaseSchemeIdentifier(mIdentifier[x])
        /\ mActiveConnections' = mActiveConnections \ {x}
        /\ mIdentifier' = mIdentifier
        /\ state' = [state EXCEPT ![x] = "Disconnected"]
    BY <1>3 DEF ConnectionDidDisconnect, DisposeInactiveConnection, IsDisposable
  <2>2. mIdentifier[x] \in mIdentifierMap
    BY <2>1 DEF IdentifiersAreUnique
  <2>3. /\ IdentifierTypes' /\ NextIsLeastFree'
        /\ mIdentifierMap' = mIdentifierMap \ {mIdentifier[x]}
    BY <2>1, <2>2, ReleaseKeepsLeast DEF IdentifierTypes
  <2>4. IdentifiersAreUnique'
    BY <2>1, <2>3 DEF IdentifiersAreUnique
  <2>5. ActiveAreAccepted'
    BY <2>1 DEF ActiveAreAccepted
  <2>. QED  BY <2>3, <2>4, <2>5
<1>4. ASSUME UNCHANGED <<identifierVars, poolVars>> PROVE Inv'
  BY <1>4 DEF identifierVars, poolVars, IdentifierTypes, NextIsLeastFree,
              IdentifiersAreUnique, ActiveAreAccepted
<1>5. ASSUME NEW x \in Connections, CanAcceptBytes(x) PROVE Inv'
  BY <1>4, <1>5 DEF CanAcceptBytes
<1>6. ASSUME NEW x \in Connections, NEW r \in Requests, ClientWrites(x, r) PROVE Inv'
  BY <1>4, <1>6 DEF ClientWrites
<1>7. ASSUME NEW x \in Connections,
             NEW n \in 0 .. Len(inbound[x]), NEW split \in BOOLEAN,
             DidReceiveApplicationData(x, n, split)
      PROVE  Inv'
  BY <1>4, <1>7 DEF DidReceiveApplicationData
<1>8. CASE SendResponse
  BY <1>4, <1>8 DEF SendResponse
<1>9. CASE UNCHANGED vars
  BY <1>4, <1>9 DEF vars
<1>. QED
  BY <1>1, <1>2, <1>3, <1>5, <1>6, <1>7, <1>8, <1>9 DEF Next

\* The invariant holds in every reachable state.
THEOREM InvAlways == Spec => []Inv
BY InitInv, NextInv, PTL DEF Spec

(* In every reachable state the next identifier is the least one nobody    *)
(* holds, however accepts, refused accepts and disconnects are interleaved *)
(* (ConnectionSchemeIdentifierManager).                                    *)
THEOREM NextAlwaysLeastFree == Spec => []NextIsLeastFree
<1>1. Inv => NextIsLeastFree
  BY DEF Inv, IdentifierInv
<1>. QED  BY <1>1, InvAlways, PTL

(* Two connected clients never hold the same identifier, and a connected   *)
(* client's identifier stays claimed.                                      *)
THEOREM IdentifiersAlwaysUnique == Spec => []IdentifiersAreUnique
<1>1. Inv => IdentifiersAreUnique
  BY DEF Inv, IdentifierInv
<1>. QED  BY <1>1, InvAlways, PTL

-----------------------------------------------------------------------------
(***************************************************************************)
(* Reading and sending.                                                    *)
(***************************************************************************)

\* A part of a sequence of fragments.
LEMMA PartOfFragments ==
  ASSUME NEW s \in Seq(Fragments), NEW m \in Nat \ {0}, NEW n \in 0 .. Len(s)
  PROVE  /\ SubSeq(s, m, n) \in Seq(Fragments)
         /\ Len(SubSeq(s, m, n)) = IF m <= n THEN n - m + 1 ELSE 0
         /\ \A i \in 1 .. n - m + 1 : SubSeq(s, m, n)[i] = s[m + i - 1]
<1>1. Len(s) \in Nat
  BY LenProperties
<1>2. \A i \in m .. n : s[i] \in Fragments
  BY <1>1, ElementOfSeq
<1>. QED  BY <1>1, <1>2, SubSeqProperties

(* A read of n whole fragments, and possibly of the head of the next one:  *)
(* the n are those that have an end, and what is not read is the others,   *)
(* the next one possibly without its head.                                 *)
LEMMA ReadShape ==
  ASSUME NEW s \in Seq(Fragments), NEW n \in Nat, NEW split \in BOOLEAN,
         \A i \in 1 .. Len(s) : s[i].part # "head",
         CanRead(s, n, split)
  PROVE  /\ Chunk(s, n, split) \in Seq(Fragments)
         /\ Terminated(Chunk(s, n, split)) \in Seq(Fragments)
         /\ n \in 0 .. Len(s)
         /\ Len(Terminated(Chunk(s, n, split))) = n
         /\ \A i \in 1 .. n : Terminated(Chunk(s, n, split))[i] = s[i]
         /\ Unread(s, n, split) \in Seq(Fragments)
         /\ Len(Unread(s, n, split)) = Len(s) - n
         /\ \A i \in 1 .. Len(s) - n :
              /\ Unread(s, n, split)[i].request = s[n + i].request
              /\ Unread(s, n, split)[i].part # "head"
<1>1. n \in 0 .. Len(s) /\ Len(s) \in Nat /\ n \in Nat
  BY LenProperties DEF CanRead
<1>2. /\ SubSeq(s, 1, n) \in Seq(Fragments)
      /\ Len(SubSeq(s, 1, n)) = n
      /\ \A i \in 1 .. n : SubSeq(s, 1, n)[i] = s[i]
  BY <1>1, PartOfFragments
<1>3. CASE ~ split
  <2>1. Chunk(s, n, split) = SubSeq(s, 1, n) /\ n \in 1 .. Len(s)
    BY <1>1, <1>2, <1>3, ConcatEmptySeq DEF Chunk, CanRead
  <2>2. SubSeq(s, 1, n)[n].part # "head"
    BY <1>2, <2>1
  <2>3. Terminated(Chunk(s, n, split)) = SubSeq(s, 1, n)
    BY <1>2, <2>1, <2>2 DEF Terminated
  <2>4. /\ Unread(s, n, split) = SubSeq(s, n + 1, Len(s))
        /\ Unread(s, n, split) \in Seq(Fragments)
        /\ Len(Unread(s, n, split)) = Len(s) - n
        /\ \A i \in 1 .. Len(s) - n : Unread(s, n, split)[i] = s[n + i]
    BY <1>1, <1>3, <2>1, PartOfFragments DEF Unread
  <2>5. \A i \in 1 .. Len(s) - n :
          /\ Unread(s, n, split)[i].request = s[n + i].request
          /\ Unread(s, n, split)[i].part # "head"
    <3>1. \A i \in 1 .. Len(s) - n : n + i \in 1 .. Len(s)
      BY <1>1
    <3>. QED  BY <2>4, <3>1
  <2>6. /\ Chunk(s, n, split) \in Seq(Fragments)
        /\ Terminated(Chunk(s, n, split)) \in Seq(Fragments)
        /\ Len(Terminated(Chunk(s, n, split))) = n
        /\ \A i \in 1 .. n : Terminated(Chunk(s, n, split))[i] = s[i]
    BY <1>2, <2>1, <2>3
  <2>. QED  BY <1>1, <2>4, <2>5, <2>6
<1>4. CASE split
  <2> DEFINE f == s[n + 1]
             h == [f EXCEPT !.part = "head"]
             t == [f EXCEPT !.part = "tail"]
  <2>1. n + 1 \in 1 .. Len(s) /\ f \in Fragments
    BY <1>1, <1>4, ElementOfSeq DEF CanRead
  <2>2. /\ h \in Fragments /\ h.part = "head"
        /\ t \in Fragments /\ t.part = "tail" /\ t.request = f.request
    BY <2>1 DEF Fragments
  <2>. HIDE DEF f, h, t
  <2>3. /\ <<h>> \in Seq(Fragments) /\ Len(<<h>>) = 1 /\ <<h>>[1] = h
        /\ <<t>> \in Seq(Fragments) /\ Len(<<t>>) = 1 /\ <<t>>[1] = t
    BY <2>2, Singleton
  <2>4. Chunk(s, n, split) = SubSeq(s, 1, n) \o <<h>>
    BY <1>4 DEF Chunk, h, f
  <2>5. /\ Chunk(s, n, split) \in Seq(Fragments)
        /\ Len(Chunk(s, n, split)) = n + 1
        /\ \A i \in 1 .. n : Chunk(s, n, split)[i] = s[i]
        /\ Chunk(s, n, split)[n + 1] = h
    <3>1. \A i \in 1 .. n + 1 : (SubSeq(s, 1, n) \o <<h>>)[i]
                                  = IF i <= n THEN SubSeq(s, 1, n)[i] ELSE <<h>>[i - n]
      BY <1>1, <1>2, <2>3, ConcatProperties
    <3>2. (SubSeq(s, 1, n) \o <<h>>)[n + 1] = h
      BY <1>1, <2>3, <3>1
    <3>3. \A i \in 1 .. n : (SubSeq(s, 1, n) \o <<h>>)[i] = s[i]
      BY <1>1, <1>2, <3>1
    <3>. QED  BY <1>1, <1>2, <2>3, <2>4, <3>2, <3>3, ConcatProperties
  <2>6. Terminated(Chunk(s, n, split)) = SubSeq(Chunk(s, n, split), 1, n)
    <3>1. Chunk(s, n, split) # <<>> /\ Len(Chunk(s, n, split)) - 1 = n
      BY <1>1, <2>5, EmptySeq
    <3>2. Chunk(s, n, split)[Len(Chunk(s, n, split))].part = "head"
      BY <2>2, <2>5
    <3>. QED  BY <3>1, <3>2 DEF Terminated
  <2>7. /\ Terminated(Chunk(s, n, split)) \in Seq(Fragments)
        /\ Len(Terminated(Chunk(s, n, split))) = n
        /\ \A i \in 1 .. n : Terminated(Chunk(s, n, split))[i] = s[i]
    <3>1. n \in 0 .. Len(Chunk(s, n, split))
      BY <1>1, <2>5
    <3>2. /\ SubSeq(Chunk(s, n, split), 1, n) \in Seq(Fragments)
          /\ Len(SubSeq(Chunk(s, n, split), 1, n)) = n
          /\ \A i \in 1 .. n : SubSeq(Chunk(s, n, split), 1, n)[i] = Chunk(s, n, split)[i]
      BY <1>1, <2>5, <3>1, PartOfFragments
    <3>. QED  BY <2>5, <2>6, <3>2
  <2>8. /\ SubSeq(s, n + 2, Len(s)) \in Seq(Fragments)
        /\ Len(SubSeq(s, n + 2, Len(s))) = Len(s) - n - 1
        /\ \A i \in 1 .. Len(s) - n - 1 : SubSeq(s, n + 2, Len(s))[i] = s[n + i + 1]
    <3>1. n + 2 \in Nat \ {0} /\ Len(s) \in 0 .. Len(s)
      BY <1>1
    <3>2. /\ SubSeq(s, n + 2, Len(s)) \in Seq(Fragments)
          /\ Len(SubSeq(s, n + 2, Len(s)))
               = IF n + 2 <= Len(s) THEN Len(s) - (n + 2) + 1 ELSE 0
          /\ \A i \in 1 .. Len(s) - (n + 2) + 1 :
               SubSeq(s, n + 2, Len(s))[i] = s[(n + 2) + i - 1]
      BY <3>1, PartOfFragments
    <3>3. Len(s) - n - 1 \in Nat
      BY <1>1, <2>1
    <3>. QED  BY <1>1, <3>2, <3>3
  <2>9. /\ Unread(s, n, split) = <<t>> \o SubSeq(s, n + 2, Len(s))
        /\ Unread(s, n, split) \in Seq(Fragments)
        /\ Len(Unread(s, n, split)) = Len(s) - n
        /\ \A i \in 1 .. Len(s) - n :
             Unread(s, n, split)[i] = IF i = 1 THEN t ELSE s[n + i]
    <3>1. Unread(s, n, split) = <<t>> \o SubSeq(s, n + 2, Len(s))
      BY <1>4 DEF Unread, t, f
    <3>2. /\ <<t>> \o SubSeq(s, n + 2, Len(s)) \in Seq(Fragments)
          /\ Len(<<t>> \o SubSeq(s, n + 2, Len(s))) = 1 + (Len(s) - n - 1)
          /\ \A i \in 1 .. 1 + (Len(s) - n - 1) :
               (<<t>> \o SubSeq(s, n + 2, Len(s)))[i]
                 = IF i <= 1 THEN <<t>>[i] ELSE SubSeq(s, n + 2, Len(s))[i - 1]
      BY <2>3, <2>8, ConcatProperties
    <3>3. ASSUME NEW i \in 1 .. Len(s) - n, i # 1
          PROVE  SubSeq(s, n + 2, Len(s))[i - 1] = s[n + i]
      <4>1. i - 1 \in 1 .. Len(s) - n - 1 /\ n + (i - 1) + 1 = n + i
        BY <1>1, <3>3
      <4>2. SubSeq(s, n + 2, Len(s))[i - 1] = s[n + (i - 1) + 1]
        BY <2>8, <4>1
      <4>. QED  BY <4>1, <4>2
    <3>4. 1 + (Len(s) - n - 1) = Len(s) - n
      BY <1>1
    <3>5. ASSUME NEW i \in 1 .. Len(s) - n
          PROVE  Unread(s, n, split)[i] = IF i = 1 THEN t ELSE s[n + i]
      <4>1. Unread(s, n, split)[i]
              = IF i <= 1 THEN <<t>>[i] ELSE SubSeq(s, n + 2, Len(s))[i - 1]
        BY <3>1, <3>2, <3>4
      <4>2. i <= 1 <=> i = 1
        BY <1>1
      <4>. QED  BY <2>3, <3>3, <4>1, <4>2
    <3>. QED  BY <3>1, <3>2, <3>4, <3>5
  <2>10. \A i \in 1 .. Len(s) - n :
           /\ Unread(s, n, split)[i].request = s[n + i].request
           /\ Unread(s, n, split)[i].part # "head"
    <3>1. ASSUME NEW i \in 1 .. Len(s) - n
          PROVE  /\ Unread(s, n, split)[i].request = s[n + i].request
                 /\ Unread(s, n, split)[i].part # "head"
      <4>1. CASE i = 1
        BY <2>2, <2>9, <4>1 DEF f
      <4>2. CASE i # 1
        <5>1. n + i \in 1 .. Len(s)
          BY <1>1
        <5>. QED  BY <2>9, <4>2, <5>1
      <4>. QED  BY <4>1, <4>2
    <3>. QED  BY <3>1
  <2>. QED  BY <1>1, <2>5, <2>7, <2>9, <2>10
<1>. QED  BY <1>3, <1>4

\* The answers to a sequence of requests: one for each, in order.
Replies(t) == [i \in 1 .. Len(t) |-> Answer(t[i])]

LEMMA RepliesTyping ==
  ASSUME NEW t \in Seq(Fragments)
  PROVE  /\ Replies(t) \in Seq(Sent)
         /\ Len(Replies(t)) = Len(t)
         /\ \A i \in 1 .. Len(t) : Replies(t)[i] # Notification
                                   /\ Replies(t)[i].for = t[i].request
<1>1. Len(t) \in Nat
  BY LenProperties
<1>2. ASSUME NEW i \in 1 .. Len(t)
      PROVE  /\ Answer(t[i]) \in Sent
             /\ Answer(t[i]) # Notification
             /\ Answer(t[i]).for = t[i].request
  <2>1. t[i] \in Fragments
    BY ElementOfSeq
  <2>2. t[i].request \in Requests
    BY <2>1 DEF Fragments
  <2>3. Answer(t[i]).kind = "answer" /\ Notification.kind = "notification"
    BY DEF Answer, Notification
  <2>. QED  BY <2>2, <2>3 DEF Answer, Sent, Answers
<1>3. Replies(t) \in [1 .. Len(t) -> Sent]
  BY <1>2 DEF Replies
<1>4. Replies(t) \in Seq(Sent)
  BY <1>1, <1>3, SeqDef
<1>5. Len(Replies(t)) = Len(t)
  BY <1>1, <1>3, <1>4, LenProperties DEF Replies
<1>. QED  BY <1>2, <1>4, <1>5 DEF Replies

-----------------------------------------------------------------------------
(***************************************************************************)
(* Type correctness.  What identifiers need is in Inv.                     *)
(***************************************************************************)

\* What a write leaves: everybody's lines, in order, and the bound respected.
LEMMA SendTyping ==
  ASSUME TypeOK, NEW lines \in Seq(Sent),
         NEW D \in SUBSET mActiveConnections, Send(lines, D)
  PROVE  /\ log' \in Seq(Sent)
         /\ delivered' \in [Connections -> Seq(Sent \cup {Confirmation})]
         /\ missed' \subseteq Connections
         /\ drops' \in 0 .. MaxDrops
<1>1. log' \in Seq(Sent)
  BY ConcatProperties DEF Send, TypeOK
<1>2. delivered' \in [Connections -> Seq(Sent \cup {Confirmation})]
  <2>1. lines \in Seq(Sent \cup {Confirmation})
    BY SeqMonotonic
  <2>2. \A x \in Connections : delivered[x] \o lines \in Seq(Sent \cup {Confirmation})
    BY <2>1, ConcatProperties DEF TypeOK
  <2>. QED  BY <2>2 DEF Send, TypeOK
<1>3. missed' \subseteq Connections
  BY DEF Send, TypeOK
<1>4. drops' \in 0 .. MaxDrops
  <2>1. IsFiniteSet(D)
    BY ServerConnectionsAssumption, FS_Subset DEF TypeOK
  <2>2. Cardinality(D) \in Nat
    BY <2>1, FS_CardinalityType
  <2>. QED  BY <2>2, ServerConnectionsAssumption DEF Send, TypeOK
<1>. QED  BY <1>1, <1>2, <1>3, <1>4

\* The variables are typed initially.
LEMMA TypeInit == Init => TypeOK
<1> SUFFICES ASSUME Init PROVE TypeOK
  OBVIOUS
<1>1. /\ <<>> \in Seq(Fragments) /\ <<>> \in Seq(Sent)
      /\ <<>> \in Seq(Sent \cup {Confirmation})
  BY EmptySeq
<1>2. 0 \in 0 .. MaxNotifies /\ 0 \in 0 .. MaxDrops
  BY ServerConnectionsAssumption
<1>. QED  BY <1>1, <1>2 DEF Init, TypeOK

(* Every step keeps the types: identifiers and the pool by Inv, the        *)
(* streams by the lemmas above.                                            *)
StreamTypes ==
  /\ mInactiveConnections \subseteq Connections
  /\ mWaitingForServerConfirmation \in [Connections -> BOOLEAN]
  /\ inbound \in [Connections -> Seq(Fragments)]
  /\ mReceiveBuffer \in [Connections -> Seq(Fragments)]
  /\ delivered \in [Connections -> Seq(Sent \cup {Confirmation})]
  /\ log \in Seq(Sent)
  /\ joined \in [Connections -> Nat]
  /\ missed \subseteq Connections
  /\ asked \subseteq Requests
  /\ notifies \in 0 .. MaxNotifies
  /\ drops \in 0 .. MaxDrops
  /\ verified \in BOOLEAN

LEMMA TypeSplit == Inv' /\ StreamTypes' => TypeOK'
BY DEF Inv, IdentifierInv, IdentifierTypes, ActiveAreAccepted, StreamTypes, TypeOK

(* What is not read is well formed: the buffer is empty between callbacks, *)
(* nothing that waits to be read is only the head of a request, and a      *)
(* request waits in at most one place, having been asked.                  *)
WaitsOnce ==
  /\ \A x \in Connections : mReceiveBuffer[x] = <<>>
  /\ \A x \in Connections : \A i \in 1 .. Len(inbound[x]) :
       inbound[x][i].part # "head" /\ inbound[x][i].request \in asked
  /\ \A x, y \in Connections :
       \A i \in 1 .. Len(inbound[x]), j \in 1 .. Len(inbound[y]) :
         inbound[x][i].request = inbound[y][j].request => x = y /\ i = j

\* The requests that were answered were asked, do not wait any more and were
\* answered once.
AnsweredOnce ==
  /\ \A k \in 1 .. Len(log) : log[k] # Notification =>
       /\ log[k].for \in asked
       /\ \A x \in Connections : \A i \in 1 .. Len(inbound[x]) :
            inbound[x][i].request # log[k].for
  /\ AnsweredAtMostOnce

\* A connection that waits to be confirmed was not, and no other was twice.
ConfirmedOnce ==
  /\ \A x \in Connections :
       state[x] \in {"none", "Accepted"} /\ mWaitingForServerConfirmation[x]
         => \A i \in 1 .. Len(delivered[x]) : delivered[x][i] # Confirmation
  /\ \A x \in Connections : \A i, j \in 1 .. Len(delivered[x]) :
       delivered[x][i] = Confirmation /\ delivered[x][j] = Confirmation => i = j

StreamInv == TypeOK /\ WaitsOnce /\ AnsweredOnce /\ ConfirmedOnce

-----------------------------------------------------------------------------
(***************************************************************************)
(* A read.                                                                 *)
(***************************************************************************)

\* What is buffered with what is read, and what is answered: n requests.
LEMMA ReadAnswers ==
  ASSUME StreamInv, NEW x \in Connections,
         NEW n \in 0 .. Len(inbound[x]), NEW split \in BOOLEAN,
         DidReceiveApplicationData(x, n, split)
  PROVE  /\ inbound'[x] \in Seq(Fragments)
         /\ inbound' = [inbound EXCEPT ![x] = inbound'[x]]
         /\ Len(inbound'[x]) = Len(inbound[x]) - n
         /\ \A i \in 1 .. Len(inbound[x]) - n :
              /\ inbound'[x][i].request = inbound[x][n + i].request
              /\ inbound'[x][i].part # "head"
         /\ \/ \E D \in SUBSET mActiveConnections, t \in Seq(Fragments) :
                 /\ Send(Replies(t), D)
                 /\ Len(t) = n
                 /\ \A i \in 1 .. n : t[i] = inbound[x][i]
            \/ UNCHANGED outVars
<1> DEFINE s == inbound[x]
           c == Chunk(s, n, split)
<1>1. s \in Seq(Fragments) /\ \A i \in 1 .. Len(s) : s[i].part # "head"
  BY DEF StreamInv, TypeOK, WaitsOnce
<1>2. CanRead(s, n, split)
  BY DEF DidReceiveApplicationData
<1>3. /\ c \in Seq(Fragments)
      /\ Terminated(c) \in Seq(Fragments)
      /\ Len(Terminated(c)) = n
      /\ \A i \in 1 .. n : Terminated(c)[i] = s[i]
      /\ Unread(s, n, split) \in Seq(Fragments)
      /\ Len(Unread(s, n, split)) = Len(s) - n
      /\ \A i \in 1 .. Len(s) - n :
           /\ Unread(s, n, split)[i].request = s[n + i].request
           /\ Unread(s, n, split)[i].part # "head"
  <2>. HIDE DEF s, c
  <2>1. n \in Nat /\ split \in BOOLEAN
    BY LenProperties DEF StreamInv, TypeOK
  <2>2. /\ Chunk(s, n, split) \in Seq(Fragments)
        /\ Terminated(Chunk(s, n, split)) \in Seq(Fragments)
        /\ Len(Terminated(Chunk(s, n, split))) = n
        /\ \A i \in 1 .. n : Terminated(Chunk(s, n, split))[i] = s[i]
        /\ Unread(s, n, split) \in Seq(Fragments)
        /\ Len(Unread(s, n, split)) = Len(s) - n
        /\ \A i \in 1 .. Len(s) - n :
             /\ Unread(s, n, split)[i].request = s[n + i].request
             /\ Unread(s, n, split)[i].part # "head"
    BY <1>1, <1>2, <2>1, ReadShape
  <2>. QED  BY <2>2 DEF c
<1>4. mReceiveBuffer[x] \o c = c
  <2>1. mReceiveBuffer[x] = <<>>
    BY DEF StreamInv, WaitsOnce
  <2>. QED  BY <1>3, <2>1, ConcatEmptySeq
<1>5. /\ inbound'[x] = Unread(s, n, split)
      /\ inbound' = [inbound EXCEPT ![x] = Unread(s, n, split)]
  BY DEF DidReceiveApplicationData, StreamInv, TypeOK
<1>6. \/ \E D \in SUBSET mActiveConnections : DispatchRequest(c, D)
      \/ UNCHANGED outVars
  BY <1>4 DEF DidReceiveApplicationData
<1>7. ASSUME NEW D \in SUBSET mActiveConnections, DispatchRequest(c, D)
      PROVE  Send(Replies(Terminated(c)), D)
  BY <1>7 DEF DispatchRequest, Replies
<1>. HIDE DEF s, c
<1>8. \/ \E D \in SUBSET mActiveConnections, t \in Seq(Fragments) :
           /\ Send(Replies(t), D)
           /\ Len(t) = n
           /\ \A i \in 1 .. n : t[i] = s[i]
      \/ UNCHANGED outVars
  BY <1>3, <1>6, <1>7
<1>. QED  BY <1>3, <1>5, <1>8 DEF s

-----------------------------------------------------------------------------
(***************************************************************************)
(* The invariant of the streams.                                           *)
(***************************************************************************)

\* A line sent is not the confirmation of a session.
LEMMA SentIsNotConfirmation == \A l \in Sent : l # Confirmation
<1>1. \A l \in Sent : l.kind \in {"answer", "notification"}
  BY DEF Sent, Answers, Notification
<1>2. Confirmation.kind = "confirmation"
  BY DEF Confirmation
<1>. QED  BY <1>1, <1>2

\* A write does not confirm anybody.
LEMMA SendKeepsConfirmedOnce ==
  ASSUME StreamInv, NEW lines \in Seq(Sent),
         NEW D \in SUBSET mActiveConnections, Send(lines, D),
         UNCHANGED <<state, mWaitingForServerConfirmation>>
  PROVE  ConfirmedOnce'
<1>1. ASSUME NEW x \in Connections, NEW i \in 1 .. Len(delivered'[x]),
             delivered'[x][i] = Confirmation
      PROVE  i \in 1 .. Len(delivered[x]) /\ delivered[x][i] = Confirmation
  <2>1. CASE delivered'[x] = delivered[x]
    BY <1>1, <2>1
  <2>2. CASE delivered'[x] = delivered[x] \o lines
    <3>1. /\ delivered[x] \in Seq(Sent \cup {Confirmation})
          /\ lines \in Seq(Sent \cup {Confirmation})
      BY SeqMonotonic DEF StreamInv, TypeOK
    <3>2. /\ Len(delivered[x]) \in Nat /\ Len(lines) \in Nat
          /\ Len(delivered'[x]) = Len(delivered[x]) + Len(lines)
          /\ delivered'[x][i] = IF i <= Len(delivered[x]) THEN delivered[x][i]
                                ELSE lines[i - Len(delivered[x])]
      BY <2>2, <3>1, ConcatProperties, LenProperties
    <3>3. CASE i > Len(delivered[x])
      <4>1. i - Len(delivered[x]) \in 1 .. Len(lines)
        BY <3>2, <3>3
      <4>2. lines[i - Len(delivered[x])] \in Sent
        BY <4>1, ElementOfSeq
      <4>3. lines[i - Len(delivered[x])] # Confirmation
        BY <4>2, SentIsNotConfirmation
      <4>. QED  BY <1>1, <3>2, <3>3, <4>3
    <3>4. CASE i <= Len(delivered[x])
      BY <1>1, <3>2, <3>4
    <3>. QED  BY <3>2, <3>3, <3>4
  <2>3. delivered'[x] = delivered[x] \/ delivered'[x] = delivered[x] \o lines
    BY DEF Send
  <2>. QED  BY <2>1, <2>2, <2>3
<1>. QED  BY <1>1 DEF StreamInv, ConfirmedOnce

\* The streams are empty initially.
LEMMA StreamInit == Init => StreamInv
<1> SUFFICES ASSUME Init PROVE StreamInv
  OBVIOUS
<1>1. TypeOK
  BY TypeInit
<1>2. /\ \A x \in Connections : Len(inbound[x]) = 0 /\ Len(delivered[x]) = 0
      /\ Len(log) = 0
  BY EmptySeq DEF Init
<1>3. WaitsOnce /\ AnsweredOnce /\ ConfirmedOnce
  BY <1>2 DEF Init, WaitsOnce, AnsweredOnce, AnsweredAtMostOnce, ConfirmedOnce
<1>. QED  BY <1>1, <1>3 DEF StreamInv

\* A connection is accepted, or not: nothing was or is written.
LEMMA AcceptKeepsStreams ==
  ASSUME Inv', StreamInv, NEW x \in Connections,
         ListenerDidAccept(x) \/ ConnectionDidNotAccept(x)
  PROVE  StreamInv'
<1>1. /\ UNCHANGED <<mWaitingForServerConfirmation, inVars, outVars, notifies>>
      /\ mInactiveConnections' = {}
      /\ joined' = joined \/ joined' = [joined EXCEPT ![x] = Len(log)]
      /\ \A y \in Connections :
           state'[y] \in {"none", "Accepted"} => state[y] \in {"none", "Accepted"}
      /\ verified' \in BOOLEAN
  <2>1. CASE ListenerDidAccept(x)
    BY <2>1 DEF ListenerDidAccept, FlushInactiveConnections, StreamInv, TypeOK
  <2>2. CASE ConnectionDidNotAccept(x)
    BY <2>2 DEF ConnectionDidNotAccept, FlushInactiveConnections, IsDisposable,
                StreamInv, TypeOK
  <2>. QED  BY <2>1, <2>2
<1>2. Len(log) \in Nat
  BY LenProperties DEF StreamInv, TypeOK
<1>3. StreamTypes'
  BY <1>1, <1>2 DEF inVars, outVars, StreamInv, TypeOK, StreamTypes
<1>4. TypeOK'
  BY <1>3, TypeSplit
<1>5. WaitsOnce' /\ AnsweredOnce'
  <2>1. UNCHANGED <<inbound, mReceiveBuffer, asked, log>>
    BY <1>1 DEF inVars, outVars
  <2>. QED
    BY <2>1 DEF StreamInv, WaitsOnce, AnsweredOnce, AnsweredAtMostOnce
<1>6. ConfirmedOnce'
  BY <1>1 DEF outVars, StreamInv, ConfirmedOnce
<1>. QED  BY <1>4, <1>5, <1>6 DEF StreamInv

\* A session is confirmed: it waited for it, and does not any more.
LEMMA ConfirmKeepsStreams ==
  ASSUME Inv', StreamInv, NEW x \in Connections, CanAcceptBytes(x)
  PROVE  StreamInv'
<1> DEFINE d == delivered[x]
<1>1. /\ state[x] = "Accepted" /\ mWaitingForServerConfirmation[x]
      /\ mWaitingForServerConfirmation'
           = [mWaitingForServerConfirmation EXCEPT ![x] = FALSE]
      /\ delivered' = [delivered EXCEPT ![x] = Append(d, Confirmation)]
      /\ UNCHANGED <<poolVars, inVars, log, joined, missed, drops, notifies, verified>>
  BY DEF CanAcceptBytes
<1>2. /\ d \in Seq(Sent \cup {Confirmation}) /\ Len(d) \in Nat
      /\ Append(d, Confirmation) \in Seq(Sent \cup {Confirmation})
      /\ Len(Append(d, Confirmation)) = Len(d) + 1
      /\ \A i \in 1 .. Len(d) : Append(d, Confirmation)[i] = d[i]
  BY AppendProperties, LenProperties DEF StreamInv, TypeOK
<1>3. \A i \in 1 .. Len(d) : d[i] # Confirmation
  BY <1>1 DEF StreamInv, ConfirmedOnce
<1>4. delivered'[x] = Append(d, Confirmation)
      /\ \A y \in Connections \ {x} : delivered'[y] = delivered[y]
  BY <1>1 DEF StreamInv, TypeOK
<1>. HIDE DEF d
<1>5. StreamTypes'
  BY <1>1, <1>2 DEF poolVars, inVars, StreamInv, TypeOK, StreamTypes
<1>6. TypeOK'
  BY <1>5, TypeSplit
<1>7. WaitsOnce' /\ AnsweredOnce'
  BY <1>1 DEF inVars, StreamInv, WaitsOnce, AnsweredOnce, AnsweredAtMostOnce
<1>8. ConfirmedOnce'
  <2>1. \A y \in Connections : mWaitingForServerConfirmation'[y]
          => y # x /\ mWaitingForServerConfirmation[y]
    BY <1>1 DEF StreamInv, TypeOK
  <2>2. \A y \in Connections :
          state'[y] \in {"none", "Accepted"} /\ mWaitingForServerConfirmation'[y]
            => \A i \in 1 .. Len(delivered'[y]) : delivered'[y][i] # Confirmation
    BY <1>1, <1>4, <2>1 DEF poolVars, StreamInv, ConfirmedOnce
  <2>3. ASSUME NEW i \in 1 .. Len(delivered'[x]), delivered'[x][i] = Confirmation
        PROVE  i = Len(d) + 1
    BY <1>2, <1>3, <1>4, <2>3
  <2>4. \A y \in Connections : \A i, j \in 1 .. Len(delivered'[y]) :
          delivered'[y][i] = Confirmation /\ delivered'[y][j] = Confirmation => i = j
    BY <1>4, <2>3 DEF StreamInv, ConfirmedOnce
  <2>. QED  BY <2>2, <2>4 DEF ConfirmedOnce
<1>. QED  BY <1>6, <1>7, <1>8 DEF StreamInv

\* A connection ends: what it had not read is gone.
LEMMA DisconnectKeepsStreams ==
  ASSUME Inv', StreamInv, NEW x \in Connections, ConnectionDidDisconnect(x)
  PROVE  StreamInv'
<1>1. /\ state' = [state EXCEPT ![x] = "Disconnected"]
      /\ mInactiveConnections' = mInactiveConnections \cup {x}
      /\ mWaitingForServerConfirmation'
           = [mWaitingForServerConfirmation EXCEPT ![x] = TRUE]
      /\ mReceiveBuffer' = [mReceiveBuffer EXCEPT ![x] = <<>>]
      /\ inbound' = [inbound EXCEPT ![x] = <<>>]
      /\ UNCHANGED <<outVars, joined, asked, notifies, verified>>
  BY DEF ConnectionDidDisconnect, DisposeInactiveConnection
<1>2. <<>> \in Seq(Fragments) /\ Len(<<>>) = 0
  BY EmptySeq
<1>3. StreamTypes'
  BY <1>1, <1>2 DEF outVars, StreamInv, TypeOK, StreamTypes
<1>4. TypeOK'
  BY <1>3, TypeSplit
<1>5. /\ Len(inbound'[x]) = 0
      /\ \A y \in Connections \ {x} : inbound'[y] = inbound[y]
      /\ \A y \in Connections : mReceiveBuffer'[y] = <<>>
  BY <1>1, <1>2 DEF StreamInv, TypeOK, WaitsOnce
<1>6. \A y \in Connections : \A i \in 1 .. Len(inbound'[y]) :
        y # x /\ inbound'[y] = inbound[y]
  BY <1>5
<1>7. WaitsOnce'
  BY <1>1, <1>5, <1>6 DEF StreamInv, WaitsOnce
<1>8. AnsweredOnce'
  BY <1>1, <1>6 DEF outVars, StreamInv, AnsweredOnce, AnsweredAtMostOnce
<1>9. ConfirmedOnce'
  BY <1>1 DEF outVars, StreamInv, TypeOK, ConfirmedOnce
<1>. QED  BY <1>4, <1>7, <1>8, <1>9 DEF StreamInv

\* A client writes a request that nobody wrote: it waits in one place.
LEMMA WriteKeepsStreams ==
  ASSUME Inv', StreamInv, NEW x \in Connections, NEW r \in Requests,
         ClientWrites(x, r)
  PROVE  StreamInv'
<1> DEFINE s == inbound[x]
<1>1. /\ r \notin asked /\ asked' = asked \cup {r}
      /\ inbound' = [inbound EXCEPT ![x] = Append(s, Whole(r))]
      /\ UNCHANGED <<poolVars, mWaitingForServerConfirmation, mReceiveBuffer,
                     outVars, joined, notifies, verified>>
  BY DEF ClientWrites
<1>2. Whole(r) \in Fragments /\ Whole(r).request = r /\ Whole(r).part # "head"
  BY DEF Whole, Fragments
<1>3. /\ s \in Seq(Fragments) /\ Len(s) \in Nat
      /\ Append(s, Whole(r)) \in Seq(Fragments)
      /\ Len(Append(s, Whole(r))) = Len(s) + 1
      /\ \A i \in 1 .. Len(s) : Append(s, Whole(r))[i] = s[i]
      /\ Append(s, Whole(r))[Len(s) + 1] = Whole(r)
  BY <1>2, AppendProperties, LenProperties DEF StreamInv, TypeOK
<1>4. /\ inbound'[x] = Append(s, Whole(r))
      /\ \A y \in Connections \ {x} : inbound'[y] = inbound[y]
  BY <1>1 DEF StreamInv, TypeOK
<1>. HIDE DEF s
<1>5. StreamTypes'
  BY <1>1, <1>3 DEF poolVars, outVars, StreamInv, TypeOK, StreamTypes
<1>6. TypeOK'
  BY <1>5, TypeSplit
<1>7. ASSUME NEW y \in Connections, NEW i \in 1 .. Len(inbound'[y])
      PROVE  \/ y = x /\ i = Len(s) + 1 /\ inbound'[y][i] = Whole(r)
             \/ i \in 1 .. Len(inbound[y]) /\ inbound'[y][i] = inbound[y][i]
  <2>1. CASE y = x
    <3>1. i \in 1 .. Len(s) + 1
      BY <1>3, <1>4, <2>1
    <3>2. CASE i = Len(s) + 1
      BY <1>3, <1>4, <2>1, <3>2
    <3>3. CASE i # Len(s) + 1
      <4>1. i \in 1 .. Len(s)
        BY <1>3, <3>1, <3>3
      <4>. QED  BY <1>3, <1>4, <2>1, <4>1 DEF s
    <3>. QED  BY <3>2, <3>3
  <2>2. CASE y # x
    BY <1>4, <2>2
  <2>. QED  BY <2>1, <2>2
<1>8. WaitsOnce'
  <2>1. \A y \in Connections : mReceiveBuffer'[y] = <<>>
    BY <1>1 DEF StreamInv, WaitsOnce
  <2>2. ASSUME NEW y \in Connections, NEW i \in 1 .. Len(inbound'[y])
        PROVE  inbound'[y][i].part # "head" /\ inbound'[y][i].request \in asked'
    BY <1>1, <1>2, <1>7 DEF StreamInv, WaitsOnce
  <2>3. ASSUME NEW y \in Connections, NEW z \in Connections,
               NEW i \in 1 .. Len(inbound'[y]), NEW j \in 1 .. Len(inbound'[z]),
               inbound'[y][i].request = inbound'[z][j].request
        PROVE  y = z /\ i = j
    <3>1. \/ y = x /\ i = Len(s) + 1 /\ inbound'[y][i].request = r
          \/ /\ i \in 1 .. Len(inbound[y]) /\ inbound'[y][i] = inbound[y][i]
             /\ inbound'[y][i].request # r
      BY <1>1, <1>2, <1>7 DEF StreamInv, WaitsOnce
    <3>2. \/ z = x /\ j = Len(s) + 1 /\ inbound'[z][j].request = r
          \/ /\ j \in 1 .. Len(inbound[z]) /\ inbound'[z][j] = inbound[z][j]
             /\ inbound'[z][j].request # r
      BY <1>1, <1>2, <1>7 DEF StreamInv, WaitsOnce
    <3>3. CASE inbound'[y][i].request = r
      BY <2>3, <3>1, <3>2, <3>3
    <3>4. CASE inbound'[y][i].request # r
      <4>1. /\ i \in 1 .. Len(inbound[y]) /\ inbound'[y][i] = inbound[y][i]
            /\ j \in 1 .. Len(inbound[z]) /\ inbound'[z][j] = inbound[z][j]
        BY <2>3, <3>1, <3>2, <3>4
      <4>2. inbound[y][i].request = inbound[z][j].request
        BY <2>3, <4>1
      <4>. QED  BY <4>1, <4>2 DEF StreamInv, WaitsOnce
    <3>. QED  BY <3>3, <3>4
  <2>. QED  BY <2>1, <2>2, <2>3 DEF WaitsOnce
<1>9. AnsweredOnce'
  <2>1. log' = log
    BY <1>1 DEF outVars
  <2>2. \A k \in 1 .. Len(log') : log'[k] # Notification =>
          /\ log'[k].for \in asked'
          /\ \A y \in Connections : \A i \in 1 .. Len(inbound'[y]) :
               inbound'[y][i].request # log'[k].for
    BY <1>1, <1>2, <1>7, <2>1 DEF StreamInv, AnsweredOnce
  <2>3. AnsweredAtMostOnce'
    BY <2>1 DEF StreamInv, AnsweredOnce, AnsweredAtMostOnce
  <2>. QED  BY <2>2, <2>3 DEF AnsweredOnce
<1>10. ConfirmedOnce'
  <2>1. UNCHANGED <<delivered, state, mWaitingForServerConfirmation>>
    BY <1>1 DEF outVars, poolVars
  <2>. QED  BY <2>1 DEF StreamInv, ConfirmedOnce
<1>. QED  BY <1>6, <1>8, <1>9, <1>10 DEF StreamInv

(* A read answers the first n requests that waited and leaves the others:  *)
(* what is answered was not before, and does not wait any more.            *)
LEMMA ReadKeepsStreams ==
  ASSUME Inv', StreamInv, NEW x \in Connections,
         NEW n \in 0 .. Len(inbound[x]), NEW split \in BOOLEAN,
         DidReceiveApplicationData(x, n, split)
  PROVE  StreamInv'
<1> DEFINE s == inbound[x]
<1>1. /\ mReceiveBuffer' = [mReceiveBuffer EXCEPT ![x] = <<>>]
      /\ UNCHANGED <<poolVars, mWaitingForServerConfirmation, asked, joined,
                     notifies, verified>>
  BY DEF DidReceiveApplicationData
<1>2. /\ inbound'[x] \in Seq(Fragments)
      /\ inbound' = [inbound EXCEPT ![x] = inbound'[x]]
      /\ Len(inbound'[x]) = Len(s) - n
      /\ \A i \in 1 .. Len(s) - n :
           /\ inbound'[x][i].request = s[n + i].request
           /\ inbound'[x][i].part # "head"
      /\ \/ \E D \in SUBSET mActiveConnections, t \in Seq(Fragments) :
              /\ Send(Replies(t), D)
              /\ Len(t) = n
              /\ \A i \in 1 .. n : t[i] = s[i]
         \/ UNCHANGED outVars
  BY ReadAnswers
<1>3. n \in Nat /\ Len(s) \in Nat /\ n <= Len(s)
  BY LenProperties DEF StreamInv, TypeOK
<1>4. \A y \in Connections \ {x} : inbound'[y] = inbound[y]
  BY <1>2 DEF StreamInv, TypeOK
<1>0. \A y, z \in Connections :
        \A i \in 1 .. Len(inbound[y]), j \in 1 .. Len(inbound[z]) :
          inbound[y][i].request = inbound[z][j].request => y = z /\ i = j
  BY DEF StreamInv, WaitsOnce
<1>. HIDE DEF s
\* Where what waits now waited.
<1> DEFINE was(y, i) == IF y = x THEN n + i ELSE i
<1>5. ASSUME NEW y \in Connections, NEW i \in 1 .. Len(inbound'[y])
      PROVE  /\ was(y, i) \in 1 .. Len(inbound[y])
             /\ y = x => was(y, i) > n
             /\ inbound'[y][i].request = inbound[y][was(y, i)].request
             /\ inbound'[y][i].part # "head"
  <2>1. CASE y = x
    <3>1. i \in 1 .. Len(s) - n /\ was(y, i) = n + i
      BY <1>2, <2>1
    <3>2. n + i \in 1 .. Len(s) /\ n + i > n
      BY <1>3, <3>1
    <3>. QED  BY <1>2, <2>1, <3>1, <3>2 DEF s
  <2>2. CASE y # x
    BY <1>4, <2>2 DEF StreamInv, WaitsOnce
  <2>. QED  BY <2>1, <2>2
<1>6. ASSUME NEW y \in Connections, NEW z \in Connections,
             NEW i \in 1 .. Len(inbound'[y]), NEW j \in 1 .. Len(inbound'[z]),
             inbound'[y][i].request = inbound'[z][j].request
      PROVE  y = z /\ i = j
  <2>1. y = z /\ was(y, i) = was(z, j)
    <3> DEFINE a == was(y, i)
               b == was(z, j)
    <3>1. /\ a \in 1 .. Len(inbound[y])
          /\ inbound'[y][i].request = inbound[y][a].request
      BY <1>5
    <3>2. /\ b \in 1 .. Len(inbound[z])
          /\ inbound'[z][j].request = inbound[z][b].request
      BY <1>5
    <3>. HIDE DEF a, b
    <3>3. inbound[y][a].request = inbound[z][b].request
      BY <1>6, <3>1, <3>2
    <3>4. y = z /\ a = b
      BY <1>0, <3>1, <3>2, <3>3
    <3>. QED  BY <3>4 DEF a, b
  <2>2. i \in Int /\ j \in Int
    OBVIOUS
  <2>. QED  BY <1>3, <2>1, <2>2
<1>7. WaitsOnce'
  <2>1. \A y \in Connections : mReceiveBuffer'[y] = <<>>
    BY <1>1 DEF StreamInv, TypeOK, WaitsOnce
  <2>2. \A y \in Connections : \A i \in 1 .. Len(inbound'[y]) :
          inbound'[y][i].part # "head" /\ inbound'[y][i].request \in asked'
    <3>1. \A y \in Connections : \A i \in 1 .. Len(inbound[y]) :
            inbound[y][i].request \in asked'
      BY <1>1 DEF StreamInv, WaitsOnce
    <3>. HIDE DEF was
    <3>. SUFFICES ASSUME NEW y \in Connections,
                         NEW i \in 1 .. Len(inbound'[y])
                  PROVE  /\ inbound'[y][i].part # "head"
                         /\ inbound'[y][i].request \in asked'
      OBVIOUS
    <3>. QED  BY <3>1, <1>5
  <2>. QED  BY <1>6, <2>1, <2>2 DEF WaitsOnce
<1>8. CASE UNCHANGED outVars
  <2>1. UNCHANGED <<log, delivered, missed, drops>>
    BY <1>8 DEF outVars
  <2>2. StreamTypes'
    BY <1>1, <1>2, <2>1, EmptySeq DEF poolVars, StreamInv, TypeOK, StreamTypes
  <2>3. AnsweredOnce'
    <3>1. AnsweredAtMostOnce'
      BY <2>1 DEF StreamInv, AnsweredOnce, AnsweredAtMostOnce
    <3>. HIDE DEF was
    <3>. QED  BY <1>1, <1>5, <2>1, <3>1 DEF StreamInv, AnsweredOnce
  <2>4. ConfirmedOnce'
    BY <1>1, <2>1 DEF poolVars, StreamInv, ConfirmedOnce
  <2>. QED  BY <1>7, <2>2, <2>3, <2>4, TypeSplit DEF StreamInv
<1>9. ASSUME NEW D \in SUBSET mActiveConnections, NEW t \in Seq(Fragments),
             Send(Replies(t), D), Len(t) = n, \A i \in 1 .. n : t[i] = s[i]
      PROVE  StreamInv'
  <2> DEFINE a == Replies(t)
  <2>1. /\ a \in Seq(Sent) /\ Len(a) = n
        /\ \A i \in 1 .. n : a[i] # Notification /\ a[i].for = s[i].request
    BY <1>9, RepliesTyping
  <2>2. Send(a, D)
    BY <1>9
  <2>. HIDE DEF a
  <2>3. StreamTypes'
    <3>1. /\ log' \in Seq(Sent)
          /\ delivered' \in [Connections -> Seq(Sent \cup {Confirmation})]
          /\ missed' \subseteq Connections
          /\ drops' \in 0 .. MaxDrops
      BY <2>1, <2>2, SendTyping DEF StreamInv
    <3>. QED
      BY <1>1, <1>2, <3>1, EmptySeq DEF poolVars, StreamInv, TypeOK, StreamTypes
  <2>4. ConfirmedOnce'
    <3>1. UNCHANGED <<state, mWaitingForServerConfirmation>>
      BY <1>1 DEF poolVars
    <3>. QED  BY <2>1, <2>2, <3>1, SendKeepsConfirmedOnce
  <2>5. /\ Len(log) \in Nat
        /\ Len(log') = Len(log) + n
        /\ \A k \in 1 .. Len(log) + n :
             log'[k] = IF k <= Len(log) THEN log[k] ELSE a[k - Len(log)]
    <3>1. log \in Seq(Sent) /\ log' = log \o a
      BY <2>2 DEF Send, StreamInv, TypeOK
    <3>. QED  BY <2>1, <3>1, ConcatProperties, LenProperties
  \* A line of the log is an earlier one, or answers the request at its place.
  <2>6. ASSUME NEW k \in 1 .. Len(log')
        PROVE  \/ k \in 1 .. Len(log) /\ log'[k] = log[k]
               \/ /\ k - Len(log) \in 1 .. n
                  /\ log'[k] # Notification
                  /\ log'[k].for = inbound[x][k - Len(log)].request
    <3>1. CASE k <= Len(log)
      BY <2>5, <3>1
    <3>2. CASE k > Len(log)
      <4>1. k - Len(log) \in 1 .. n
        BY <1>3, <2>5, <3>2
      <4>2. log'[k] = a[k - Len(log)]
        BY <2>5, <3>2
      <4>. QED  BY <2>1, <4>1, <4>2 DEF s
    <3>. QED  BY <2>5, <3>1, <3>2
  <2>7. \A i \in 1 .. n : i \in 1 .. Len(inbound[x])
    BY <1>3 DEF s
  <2>8. AnsweredAtMostOnce'
    <3>1. ASSUME NEW k \in 1 .. Len(log'), NEW l \in 1 .. Len(log'),
                 log'[k] # Notification, log'[l] # Notification,
                 log'[k].for = log'[l].for
          PROVE  k = l
      <4>1. CASE k \in 1 .. Len(log) /\ log'[k] = log[k]
                 /\ l \in 1 .. Len(log) /\ log'[l] = log[l]
        BY <3>1, <4>1 DEF StreamInv, AnsweredOnce, AnsweredAtMostOnce
      <4>2. CASE /\ k - Len(log) \in 1 .. n
                 /\ log'[k].for = inbound[x][k - Len(log)].request
                 /\ l - Len(log) \in 1 .. n
                 /\ log'[l].for = inbound[x][l - Len(log)].request
        <5>1. k - Len(log) = l - Len(log)
          <6> DEFINE i == k - Len(log)
                     j == l - Len(log)
          <6>1. i \in 1 .. Len(inbound[x]) /\ j \in 1 .. Len(inbound[x])
            BY <2>7, <4>2
          <6>2. inbound[x][i].request = inbound[x][j].request
            BY <3>1, <4>2
          <6>. HIDE DEF i, j
          <6>3. i = j
            BY <1>0, <6>1, <6>2
          <6>. QED  BY <6>3 DEF i, j
        <5>. QED  BY <2>5, <5>1
      <4>3. CASE /\ k \in 1 .. Len(log) /\ log'[k] = log[k]
                 /\ l - Len(log) \in 1 .. n
                 /\ log'[l].for = inbound[x][l - Len(log)].request
        BY <2>7, <3>1, <4>3 DEF StreamInv, AnsweredOnce
      <4>4. CASE /\ l \in 1 .. Len(log) /\ log'[l] = log[l]
                 /\ k - Len(log) \in 1 .. n
                 /\ log'[k].for = inbound[x][k - Len(log)].request
        BY <2>7, <3>1, <4>4 DEF StreamInv, AnsweredOnce
      <4>. QED  BY <2>6, <4>1, <4>2, <4>3, <4>4
    <3>. QED  BY <3>1 DEF AnsweredAtMostOnce
  <2>9. ASSUME NEW k \in 1 .. Len(log'), log'[k] # Notification
        PROVE  /\ log'[k].for \in asked'
               /\ \A y \in Connections : \A i \in 1 .. Len(inbound'[y]) :
                    inbound'[y][i].request # log'[k].for
    <3>1. CASE k \in 1 .. Len(log) /\ log'[k] = log[k]
      <4>. HIDE DEF was
      <4>. QED  BY <1>1, <1>5, <2>9, <3>1 DEF StreamInv, AnsweredOnce
    <3>2. CASE /\ k - Len(log) \in 1 .. n
               /\ log'[k].for = inbound[x][k - Len(log)].request
      <4>1. log'[k].for \in asked'
        BY <1>1, <2>7, <3>2 DEF StreamInv, WaitsOnce
      <4>2. ASSUME NEW y \in Connections, NEW i \in 1 .. Len(inbound'[y]),
                   inbound'[y][i].request = log'[k].for
            PROVE  FALSE
        <5>1. y = x /\ was(y, i) = k - Len(log)
          <6> DEFINE p == was(y, i)
                     q == k - Len(log)
          <6>1. /\ p \in 1 .. Len(inbound[y])
                /\ inbound'[y][i].request = inbound[y][p].request
            BY <1>5
          <6>2. q \in 1 .. Len(inbound[x]) /\ log'[k].for = inbound[x][q].request
            BY <2>7, <3>2
          <6>. HIDE DEF p, q
          <6>3. inbound[y][p].request = inbound[x][q].request
            BY <4>2, <6>1, <6>2
          <6>4. y = x /\ p = q
            BY <1>0, <6>1, <6>2, <6>3
          <6>. QED  BY <6>4 DEF p, q
        <5>. QED  BY <1>3, <1>5, <3>2, <5>1
      <4>. QED  BY <4>1, <4>2
    <3>. QED  BY <2>6, <3>1, <3>2
  <2>10. AnsweredOnce'
    BY <2>8, <2>9 DEF AnsweredOnce
  <2>. QED  BY <1>7, <2>3, <2>4, <2>10, TypeSplit DEF StreamInv
<1>. QED  BY <1>2, <1>8, <1>9

\* A change is announced: a line that answers nobody.
LEMMA NotifyKeepsStreams ==
  ASSUME Inv', StreamInv, SendResponse
  PROVE  StreamInv'
<1>1. PICK D \in SUBSET mActiveConnections : Send(<<Notification>>, D)
  BY DEF SendResponse
<1>2. /\ notifies < MaxNotifies /\ notifies' = notifies + 1
      /\ UNCHANGED <<poolVars, mWaitingForServerConfirmation, inVars, joined, verified>>
  BY DEF SendResponse
<1>3. /\ <<Notification>> \in Seq(Sent) /\ Len(<<Notification>>) = 1
      /\ <<Notification>>[1] = Notification
  BY Singleton DEF Sent
<1>4. /\ log' \in Seq(Sent)
      /\ delivered' \in [Connections -> Seq(Sent \cup {Confirmation})]
      /\ missed' \subseteq Connections
      /\ drops' \in 0 .. MaxDrops
  BY <1>1, <1>3, SendTyping DEF StreamInv
<1>5. notifies' \in 0 .. MaxNotifies
  BY <1>2, ServerConnectionsAssumption DEF StreamInv, TypeOK
<1>6. StreamTypes'
  BY <1>2, <1>4, <1>5 DEF poolVars, inVars, StreamInv, TypeOK, StreamTypes
<1>7. TypeOK'
  BY <1>6, TypeSplit
<1>8. ConfirmedOnce'
  <2>1. UNCHANGED <<state, mWaitingForServerConfirmation>>
    BY <1>2 DEF poolVars
  <2>. QED  BY <1>1, <1>3, <2>1, SendKeepsConfirmedOnce
<1>9. UNCHANGED <<inbound, mReceiveBuffer, asked>>
  BY <1>2 DEF inVars
<1>10. WaitsOnce'
  BY <1>9 DEF StreamInv, WaitsOnce
<1>11. ASSUME NEW k \in 1 .. Len(log'), log'[k] # Notification
       PROVE  k \in 1 .. Len(log) /\ log'[k] = log[k]
  <2>1. log \in Seq(Sent) /\ log' = log \o <<Notification>>
    BY <1>1 DEF Send, StreamInv, TypeOK
  <2>2. /\ Len(log) \in Nat
        /\ Len(log') = Len(log) + 1
        /\ log'[k] = IF k <= Len(log) THEN log[k]
                     ELSE <<Notification>>[k - Len(log)]
    BY <1>3, <2>1, ConcatProperties, LenProperties
  <2>3. CASE k <= Len(log)
    BY <2>2, <2>3
  <2>4. CASE k > Len(log)
    <3>1. k - Len(log) = 1
      BY <2>2, <2>4
    <3>. QED  BY <1>3, <1>11, <2>2, <2>4, <3>1
  <2>. QED  BY <2>2, <2>3, <2>4
<1>12. AnsweredOnce'
  <2>1. AnsweredAtMostOnce'
    BY <1>11 DEF StreamInv, AnsweredOnce, AnsweredAtMostOnce
  <2>. QED  BY <1>9, <1>11, <2>1 DEF StreamInv, AnsweredOnce
<1>. QED  BY <1>7, <1>8, <1>10, <1>12 DEF StreamInv

\* Every step keeps the invariant of the streams.
LEMMA StreamNext == Inv' /\ StreamInv /\ [Next]_vars => StreamInv'
<1> SUFFICES ASSUME Inv', StreamInv, [Next]_vars PROVE StreamInv'
  OBVIOUS
<1>1. ASSUME NEW x \in Connections, ListenerDidAccept(x) \/ ConnectionDidNotAccept(x)
      PROVE  StreamInv'
  BY <1>1, AcceptKeepsStreams
<1>2. ASSUME NEW x \in Connections, CanAcceptBytes(x) PROVE StreamInv'
  BY <1>2, ConfirmKeepsStreams
<1>3. ASSUME NEW x \in Connections, ConnectionDidDisconnect(x) PROVE StreamInv'
  BY <1>3, DisconnectKeepsStreams
<1>4. ASSUME NEW x \in Connections, NEW r \in Requests, ClientWrites(x, r)
      PROVE  StreamInv'
  BY <1>4, WriteKeepsStreams
<1>5. ASSUME NEW x \in Connections,
             NEW n \in 0 .. Len(inbound[x]), NEW split \in BOOLEAN,
             DidReceiveApplicationData(x, n, split)
      PROVE  StreamInv'
  BY <1>5, ReadKeepsStreams
<1>6. CASE SendResponse
  BY <1>6, NotifyKeepsStreams
<1>7. CASE UNCHANGED vars
  <2>1. /\ UNCHANGED <<mInactiveConnections, mWaitingForServerConfirmation, joined,
                       notifies, verified, state>>
        /\ UNCHANGED <<inbound, mReceiveBuffer, asked>>
        /\ UNCHANGED <<delivered, log, missed, drops>>
    BY <1>7 DEF vars, poolVars, inVars, outVars
  <2>2. StreamTypes'
    BY <2>1 DEF StreamInv, TypeOK, StreamTypes
  <2>3. WaitsOnce'
    BY <2>1 DEF StreamInv, WaitsOnce
  <2>4. AnsweredOnce' /\ ConfirmedOnce'
    BY <2>1 DEF StreamInv, AnsweredOnce, AnsweredAtMostOnce, ConfirmedOnce
  <2>. QED  BY <2>2, <2>3, <2>4, TypeSplit DEF StreamInv
<1>. QED
  BY <1>1, <1>2, <1>3, <1>4, <1>5, <1>6, <1>7 DEF Next

\* The invariant of the streams holds in every reachable state.
LEMMA StreamInvAlways == Spec => []StreamInv
BY StreamInit, StreamNext, InvAlways, PTL DEF Spec

\* Every variable has its type in every reachable state.
THEOREM TypeCorrect == Spec => []TypeOK
<1>1. StreamInv => TypeOK
  BY DEF StreamInv
<1>. QED  BY <1>1, StreamInvAlways, PTL

(* No request is answered twice, however the stream cuts it, whoever else  *)
(* writes or disconnects and whatever is announced in between              *)
(* (CommandManager::ConnectionManagerDidReceiveApplicationData).           *)
THEOREM AlwaysAnsweredAtMostOnce == Spec => []AnsweredAtMostOnce
<1>1. StreamInv => AnsweredAtMostOnce
  BY DEF StreamInv, AnsweredOnce
<1>. QED  BY <1>1, StreamInvAlways, PTL

(* A session is confirmed at most once, however often its stream becomes   *)
(* writable (ConnectionTelnet).                                            *)
THEOREM AlwaysConfirmedAtMostOnce == Spec => []ConfirmedAtMostOnce
<1>1. ASSUME StreamInv, NEW x \in Connections
      PROVE  Cardinality({i \in 1 .. Len(delivered[x]) : delivered[x][i] = Confirmation})
               <= 1
  <2> DEFINE S == {i \in 1 .. Len(delivered[x]) : delivered[x][i] = Confirmation}
  <2>1. \A i, j \in S : i = j
    BY <1>1 DEF StreamInv, ConfirmedOnce
  <2>. HIDE DEF S
  <2>2. CASE S = {}
    <3>1. Cardinality(S) = 0
      BY <2>2, FS_EmptySet
    <3>. QED  BY <3>1 DEF S
  <2>3. CASE S # {}
    <3>1. PICK i \in S : TRUE
      BY <2>3
    <3>2. S = {i}
      BY <2>1, <3>1
    <3>3. Cardinality(S) = 1
      BY <3>2, FS_Singleton
    <3>. QED  BY <3>3 DEF S
  <2>. QED  BY <2>2, <2>3
<1>2. StreamInv => ConfirmedAtMostOnce
  BY <1>1 DEF ConfirmedAtMostOnce
<1>. QED  BY <1>2, StreamInvAlways, PTL

-----------------------------------------------------------------------------
(***************************************************************************)
(* Subscriptions.                                                          *)
(***************************************************************************)

\* What follows a place grows with what is appended.
LEMMA SuffixGrows ==
  ASSUME NEW S, NEW s \in Seq(S), NEW t \in Seq(S), NEW m \in 0 .. Len(s)
  PROVE  SubSeq(s \o t, m + 1, Len(s \o t)) = SubSeq(s, m + 1, Len(s)) \o t
<1> DEFINE u == SubSeq(s \o t, m + 1, Len(s \o t))
           v == SubSeq(s, m + 1, Len(s))
<1>1. Len(s) \in Nat /\ Len(t) \in Nat /\ m \in Nat
  BY LenProperties
<1>2. /\ s \o t \in Seq(S) /\ Len(s \o t) = Len(s) + Len(t)
      /\ \A i \in 1 .. Len(s) + Len(t) :
           (s \o t)[i] = IF i <= Len(s) THEN s[i] ELSE t[i - Len(s)]
  BY ConcatProperties
<1>3. /\ u \in Seq(S) /\ Len(u) = Len(s) + Len(t) - m
      /\ \A i \in 1 .. Len(s) + Len(t) - m : u[i] = (s \o t)[m + i]
  <2>1. \A i \in m + 1 .. Len(s \o t) : (s \o t)[i] \in S
    BY <1>1, <1>2, ElementOfSeq
  <2>. QED  BY <1>1, <1>2, <2>1, SubSeqProperties
<1>4. /\ v \in Seq(S) /\ Len(v) = Len(s) - m
      /\ \A i \in 1 .. Len(s) - m : v[i] = s[m + i]
  <2>1. \A i \in m + 1 .. Len(s) : s[i] \in S
    BY <1>1, ElementOfSeq
  <2>. QED  BY <1>1, <2>1, SubSeqProperties
<1>. HIDE DEF u, v
<1>5. /\ v \o t \in Seq(S) /\ Len(v \o t) = Len(s) - m + Len(t)
      /\ \A i \in 1 .. Len(s) - m + Len(t) :
           (v \o t)[i] = IF i <= Len(s) - m THEN v[i] ELSE t[i - (Len(s) - m)]
  <2>1. /\ v \o t \in Seq(S) /\ Len(v \o t) = Len(v) + Len(t)
        /\ \A i \in 1 .. Len(v) + Len(t) :
             (v \o t)[i] = IF i <= Len(v) THEN v[i] ELSE t[i - Len(v)]
    BY <1>4, ConcatProperties
  <2>. QED  BY <1>4, <2>1
<1>6. ASSUME NEW i \in 1 .. Len(u) PROVE u[i] = (v \o t)[i]
  <2>1. /\ m + i \in 1 .. Len(s) + Len(t) /\ i \in Nat
        /\ i \in 1 .. Len(s) + Len(t) - m
        /\ i \in 1 .. Len(s) - m + Len(t)
    BY <1>1, <1>3
  <2>2. u[i] = (s \o t)[m + i]
    BY <1>3, <2>1
  <2>3. CASE i <= Len(s) - m
    <3>1. m + i <= Len(s) /\ i \in 1 .. Len(s) - m
      BY <1>1, <2>1, <2>3
    <3>. QED  BY <1>2, <1>4, <1>5, <2>1, <2>2, <2>3, <3>1
  <2>4. CASE ~(i <= Len(s) - m)
    <3>1. ~(m + i <= Len(s)) /\ (m + i) - Len(s) = i - (Len(s) - m)
      BY <1>1, <2>1, <2>4
    <3>. QED  BY <1>2, <1>5, <2>1, <2>2, <2>4, <3>1
  <2>. QED  BY <2>3, <2>4
<1>7. Len(u) = Len(v \o t)
  BY <1>1, <1>3, <1>5
<1>8. u = v \o t
  BY <1>3, <1>5, <1>6, <1>7, SeqEqual
<1>. QED  BY <1>8 DEF u, v

\* What precedes a place does not change when something is appended.
LEMMA PrefixStays ==
  ASSUME NEW S, NEW s \in Seq(S), NEW t \in Seq(S), NEW k \in 0 .. Len(s)
  PROVE  SubSeq(s \o t, 1, k) = SubSeq(s, 1, k)
<1>1. Len(s) \in Nat /\ Len(t) \in Nat /\ k \in Nat
  BY LenProperties
<1>2. /\ s \o t \in Seq(S) /\ Len(s \o t) = Len(s) + Len(t)
      /\ \A i \in 1 .. Len(s) + Len(t) :
           (s \o t)[i] = IF i <= Len(s) THEN s[i] ELSE t[i - Len(s)]
  BY ConcatProperties
<1>3. \A i \in 1 .. k : s[i] \in S /\ (s \o t)[i] = s[i]
  BY <1>1, <1>2, ElementOfSeq
<1>4. /\ SubSeq(s \o t, 1, k) \in Seq(S) /\ Len(SubSeq(s \o t, 1, k)) = k
      /\ \A i \in 1 .. k : SubSeq(s \o t, 1, k)[i] = s[i]
  BY <1>1, <1>3, SubSeqProperties
<1>5. /\ SubSeq(s, 1, k) \in Seq(S) /\ Len(SubSeq(s, 1, k)) = k
      /\ \A i \in 1 .. k : SubSeq(s, 1, k)[i] = s[i]
  BY <1>1, <1>3, SubSeqProperties
<1>. QED  BY <1>4, <1>5, SeqEqual

Lines == Sent \cup {Confirmation}

\* The confirmation stays where it is when lines follow.
LEMMA ConfirmedStays ==
  ASSUME NEW s \in Seq(Lines), NEW t \in Seq(Lines), NEW k \in 0 .. Len(s)
  PROVE  /\ k \in 0 .. Len(s \o t)
         /\ ConfirmedAfter(s, k) \o t = ConfirmedAfter(s \o t, k)
<1> DEFINE c == <<Confirmation>>
           a == SubSeq(s, 1, k)
           b == SubSeq(s, k + 1, Len(s))
<1>1. Len(s) \in Nat /\ Len(t) \in Nat /\ Len(s \o t) = Len(s) + Len(t)
  BY LenProperties, ConcatProperties
<1>2. c \in Seq(Lines)
  BY Singleton DEF Lines
<1>3. a \in Seq(Lines) /\ b \in Seq(Lines)
  <2>1. /\ \A i \in 1 .. k : s[i] \in Lines
        /\ \A i \in k + 1 .. Len(s) : s[i] \in Lines
    BY <1>1, ElementOfSeq
  <2>. QED  BY <1>1, <2>1, SubSeqProperties
<1>4. SubSeq(s \o t, 1, k) = a /\ SubSeq(s \o t, k + 1, Len(s \o t)) = b \o t
  BY PrefixStays, SuffixGrows
<1>. HIDE DEF a, b, c
<1>5. (a \o c \o b) \o t = a \o c \o (b \o t)
  <2> DEFINE d == a \o c
  <2>1. d \in Seq(Lines)
    BY <1>2, <1>3, ConcatProperties
  <2>. HIDE DEF d
  <2>2. (d \o b) \o t = d \o (b \o t)
    BY <1>3, <2>1, ConcatAssociative
  <2>. QED  BY <2>2 DEF d
<1>6. ConfirmedAfter(s, k) \o t = ConfirmedAfter(s \o t, k)
  <2>1. ConfirmedAfter(s, k) = a \o c \o b
    BY DEF ConfirmedAfter, a, b, c
  <2>2. ConfirmedAfter(s \o t, k) = a \o c \o (b \o t)
    BY <1>4 DEF ConfirmedAfter, c
  <2>. QED  BY <1>5, <2>1, <2>2
<1>. QED  BY <1>1, <1>6

(* Besides what subscribers see: no connection was accepted after a line   *)
(* that was not sent, and one that was not accepted has been sent nothing. *)
Subscribed ==
  /\ SubscribersSeeEverything
  /\ \A x \in Connections : joined[x] <= Len(log)
  /\ \A x \in Connections : state[x] = "none" => delivered[x] = <<>>

\* A write reaches every subscriber whose stream takes it.
LEMMA SendKeepsSubscribed ==
  ASSUME Inv, StreamInv, Subscribed, NEW lines \in Seq(Sent),
         NEW D \in SUBSET mActiveConnections, Send(lines, D),
         UNCHANGED <<poolVars, joined>>
  PROVE  Subscribed'
<1>1. UNCHANGED <<mActiveConnections, state, joined>>
  BY DEF poolVars
<1>2. log \in Seq(Lines) /\ lines \in Seq(Lines) /\ log' = log \o lines
  BY SeqMonotonic DEF Send, StreamInv, TypeOK, Lines
<1>3. Len(log') = Len(log) + Len(lines) /\ Len(log) \in Nat /\ Len(lines) \in Nat
  BY <1>2, ConcatProperties, LenProperties
<1>4. ASSUME NEW x \in mActiveConnections' \ missed'
      PROVE  IsWhole(delivered'[x], Subscription(x)')
  <2> DEFINE s == Subscription(x)
  <2>1. /\ x \in Connections /\ x \in mActiveConnections \ missed
        /\ delivered'[x] = delivered[x] \o lines
    BY <1>1 DEF Send, StreamInv, TypeOK
  <2>2. joined[x] \in 0 .. Len(log)
    BY <1>3, <2>1 DEF Subscribed, StreamInv, TypeOK
  <2>3. s \in Seq(Lines)
    <3>1. \A i \in joined[x] + 1 .. Len(log) : log[i] \in Lines
      BY <1>2, <1>3, <2>2, ElementOfSeq
    <3>. QED  BY <1>3, <2>2, <3>1, SubSeqProperties DEF Subscription
  <2>4. Subscription(x)' = s \o lines
    <3>1. Subscription(x)' = SubSeq(log \o lines, joined[x] + 1, Len(log \o lines))
      BY <1>1, <1>2 DEF Subscription
    <3>2. SubSeq(log \o lines, joined[x] + 1, Len(log \o lines))
            = SubSeq(log, joined[x] + 1, Len(log)) \o lines
      BY <1>2, <2>2, SuffixGrows
    <3>. QED  BY <3>1, <3>2 DEF Subscription
  <2>5. \/ delivered[x] = s
        \/ \E k \in 0 .. Len(s) : delivered[x] = ConfirmedAfter(s, k)
    BY <2>1 DEF Subscribed, SubscribersSeeEverything, IsWhole
  <2>. HIDE DEF s
  <2>6. CASE delivered[x] = s
    BY <2>1, <2>4, <2>6 DEF IsWhole
  <2>7. ASSUME NEW k \in 0 .. Len(s), delivered[x] = ConfirmedAfter(s, k)
        PROVE  \E j \in 0 .. Len(s \o lines) :
                 delivered'[x] = ConfirmedAfter(s \o lines, j)
    <3>1. /\ k \in 0 .. Len(s \o lines)
          /\ ConfirmedAfter(s, k) \o lines = ConfirmedAfter(s \o lines, k)
      BY <1>2, <2>3, ConfirmedStays
    <3>2. delivered'[x] = ConfirmedAfter(s \o lines, k)
      BY <2>1, <2>7, <3>1
    <3>. QED  BY <3>1, <3>2
  <2>. QED  BY <2>4, <2>5, <2>6, <2>7 DEF IsWhole
<1>5. SubscribersSeeEverything'
  BY <1>4 DEF SubscribersSeeEverything
<1>6. \A x \in Connections : joined'[x] <= Len(log')
  <2>1. ASSUME NEW x \in Connections PROVE joined'[x] <= Len(log')
    <3>1. joined[x] \in Nat /\ joined[x] <= Len(log)
      BY DEF Subscribed, StreamInv, TypeOK
    <3>. QED  BY <1>1, <1>3, <3>1
  <2>. QED  BY <2>1
<1>7. \A x \in Connections : state'[x] = "none" => delivered'[x] = <<>>
  <2>1. \A x \in Connections : state[x] = "none" => x \notin mActiveConnections
    BY DEF Inv, ActiveAreAccepted
  <2>. QED  BY <1>1, <2>1 DEF Send, Subscribed
<1>. QED  BY <1>5, <1>6, <1>7 DEF Subscribed

\* Nothing is sent initially.
LEMMA SubscribedInit == Init => Subscribed
<1> SUFFICES ASSUME Init PROVE Subscribed
  OBVIOUS
<1>1. Len(log) = 0
  BY EmptySeq DEF Init
<1>. QED  BY <1>1 DEF Init, Subscribed, SubscribersSeeEverything

\* An accepted connection has been sent all of nothing.
LEMMA AcceptKeepsSubscribed ==
  ASSUME Inv, StreamInv, Subscribed, NEW x \in Connections,
         ListenerDidAccept(x) \/ ConnectionDidNotAccept(x)
  PROVE  Subscribed'
<1>1. /\ UNCHANGED <<log, delivered, missed>>
      /\ state[x] = "none"
      /\ \A y \in Connections : state'[y] = "none" => state[y] = "none"
  BY DEF ListenerDidAccept, ConnectionDidNotAccept, FlushInactiveConnections,
         outVars, StreamInv, TypeOK
<1>2. Len(log) \in Nat
  BY LenProperties DEF StreamInv, TypeOK
<1>3. \A y \in Connections : state'[y] = "none" => delivered'[y] = <<>>
  BY <1>1 DEF Subscribed
<1>4. x \notin mActiveConnections
  BY <1>1 DEF Inv, ActiveAreAccepted
<1>5. CASE ListenerDidAccept(x)
  <2>1. /\ mActiveConnections' = mActiveConnections \cup {x}
        /\ joined' = [joined EXCEPT ![x] = Len(log)]
    BY <1>5 DEF ListenerDidAccept
  <2>2. joined'[x] = Len(log) /\ \A y \in Connections \ {x} : joined'[y] = joined[y]
    BY <2>1 DEF StreamInv, TypeOK
  <2>3. \A y \in Connections : joined'[y] <= Len(log')
    BY <1>1, <1>2, <2>2 DEF Subscribed
  <2>4. IsWhole(delivered'[x], Subscription(x)')
    <3>1. Subscription(x)' = SubSeq(log, Len(log) + 1, Len(log))
      BY <1>1, <2>2 DEF Subscription
    <3>2. SubSeq(log, Len(log) + 1, Len(log)) = <<>>
      BY <1>2, SubSeqEmpty
    <3>3. delivered'[x] = <<>>
      BY <1>1 DEF Subscribed
    <3>. QED  BY <3>1, <3>2, <3>3 DEF IsWhole
  <2>5. ASSUME NEW y \in mActiveConnections' \ missed', y # x
        PROVE  IsWhole(delivered'[y], Subscription(y)')
    <3>1. y \in mActiveConnections \ missed /\ y \in Connections
      BY <1>1, <2>1, <2>5 DEF StreamInv, TypeOK
    <3>2. Subscription(y)' = Subscription(y)
      BY <1>1, <2>2, <2>5, <3>1 DEF Subscription
    <3>. QED  BY <1>1, <3>1, <3>2 DEF Subscribed, SubscribersSeeEverything
  <2>6. SubscribersSeeEverything'
    BY <2>4, <2>5 DEF SubscribersSeeEverything
  <2>. QED  BY <1>3, <2>3, <2>6 DEF Subscribed
<1>6. CASE ConnectionDidNotAccept(x)
  <2>1. UNCHANGED <<mActiveConnections, joined>>
    BY <1>6 DEF ConnectionDidNotAccept
  <2>. QED
    BY <1>1, <1>3, <2>1 DEF Subscribed, SubscribersSeeEverything, Subscription
<1>. QED  BY <1>5, <1>6

\* A confirmation comes after all that was sent so far.
LEMMA ConfirmKeepsSubscribed ==
  ASSUME Inv, StreamInv, Subscribed, NEW x \in Connections, CanAcceptBytes(x)
  PROVE  Subscribed'
<1>1. /\ state[x] = "Accepted" /\ mWaitingForServerConfirmation[x]
      /\ delivered' = [delivered EXCEPT ![x] = Append(delivered[x], Confirmation)]
      /\ UNCHANGED <<state, mActiveConnections, log, joined, missed>>
  BY DEF CanAcceptBytes, poolVars
<1>2. /\ delivered'[x] = Append(delivered[x], Confirmation)
      /\ \A y \in Connections \ {x} : delivered'[y] = delivered[y]
  BY <1>1 DEF StreamInv, TypeOK
<1>3. ASSUME NEW y \in mActiveConnections' \ missed'
      PROVE  IsWhole(delivered'[y], Subscription(y)')
  <2> DEFINE s == Subscription(y)
  <2>1. /\ y \in Connections /\ IsWhole(delivered[y], s)
        /\ Subscription(y)' = s
    BY <1>1 DEF StreamInv, TypeOK, Subscribed, SubscribersSeeEverything, Subscription
  <2>2. CASE y # x
    BY <1>2, <2>1, <2>2
  <2>3. CASE y = x
    <3>1. s \in Seq(Lines)
      <4>1. /\ Len(log) \in Nat /\ joined[y] \in Nat /\ joined[y] <= Len(log)
            /\ log \in Seq(Lines)
        BY <2>1, LenProperties, SeqMonotonic DEF Subscribed, StreamInv, TypeOK, Lines
      <4>2. \A i \in joined[y] + 1 .. Len(log) : log[i] \in Lines
        BY <4>1, ElementOfSeq
      <4>. QED  BY <4>1, <4>2, SubSeqProperties DEF Subscription
    <3>. HIDE DEF s
    <3>2. Len(s) \in Nat
      BY <3>1, LenProperties
    <3>3. ASSUME NEW k \in 0 .. Len(s) PROVE delivered[x] # ConfirmedAfter(s, k)
      <4> DEFINE c == <<Confirmation>>
                 a == SubSeq(s, 1, k)
                 b == SubSeq(s, k + 1, Len(s))
      <4>1. /\ \A i \in 1 .. k : s[i] \in Lines
            /\ \A i \in k + 1 .. Len(s) : s[i] \in Lines
        BY <3>1, <3>2, ElementOfSeq
      <4>2. a \in Seq(Lines) /\ Len(a) = k /\ b \in Seq(Lines)
        BY <3>2, <4>1, SubSeqProperties
      <4>3. c \in Seq(Lines) /\ Len(c) = 1 /\ c[1] = Confirmation
        BY Singleton DEF Lines
      <4>. HIDE DEF a, b, c
      <4>4. a \o c \in Seq(Lines) /\ Len(a \o c) = k + 1 /\ (a \o c)[k + 1] = Confirmation
        <5>1. /\ a \o c \in Seq(Lines) /\ Len(a \o c) = Len(a) + Len(c)
              /\ \A i \in 1 .. Len(a) + Len(c) :
                   (a \o c)[i] = IF i <= Len(a) THEN a[i] ELSE c[i - Len(a)]
          BY <4>2, <4>3, ConcatProperties
        <5>2. (a \o c)[k + 1] = c[(k + 1) - k]
          BY <4>2, <4>3, <5>1
        <5>3. (k + 1) - k = 1
          OBVIOUS
        <5>. QED  BY <4>2, <4>3, <5>1, <5>2, <5>3
      <4> DEFINE d == a \o c
      <4>5. k + 1 \in 1 .. Len(d \o b) /\ (d \o b)[k + 1] = Confirmation
        <5>1. d \in Seq(Lines) /\ Len(d) = k + 1 /\ d[k + 1] = Confirmation
          BY <4>4
        <5>. HIDE DEF d
        <5>2. Len(b) \in Nat
          BY <4>2, LenProperties
        <5>3. /\ Len(d \o b) = Len(d) + Len(b)
              /\ \A i \in 1 .. Len(d) + Len(b) :
                   (d \o b)[i] = IF i <= Len(d) THEN d[i] ELSE b[i - Len(d)]
          BY <4>2, <5>1, ConcatProperties
        <5>. QED  BY <5>1, <5>2, <5>3
      <4>6. \A i \in 1 .. Len(delivered[x]) : delivered[x][i] # Confirmation
        BY <1>1 DEF StreamInv, ConfirmedOnce
      <4>7. delivered[x] # a \o c \o b
        BY <4>5, <4>6
      <4>. QED  BY <4>7 DEF ConfirmedAfter, a, b, c
    <3>4. delivered[x] = s
      BY <2>1, <2>3, <3>3 DEF IsWhole
    <3>5. Append(s, Confirmation) = s \o <<Confirmation>>
      BY <3>1, AppendIsConcat DEF Lines
    <3>6. ConfirmedAfter(s, Len(s)) = s \o <<Confirmation>>
      <4>1. SubSeq(s, 1, Len(s)) = s /\ SubSeq(s, Len(s) + 1, Len(s)) = <<>>
        BY <3>1, <3>2, SubSeqFull, SubSeqEmpty
      <4>2. s \o <<Confirmation>> \in Seq(Lines)
        BY <3>1, Singleton, ConcatProperties DEF Lines
      <4>. QED  BY <4>1, <4>2, ConcatEmptySeq DEF ConfirmedAfter
    <3>7. delivered'[y] = ConfirmedAfter(s, Len(s)) /\ Len(s) \in 0 .. Len(s)
      BY <1>2, <2>3, <3>2, <3>4, <3>5, <3>6
    <3>. QED  BY <2>1, <3>7 DEF IsWhole
  <2>. QED  BY <2>2, <2>3
<1>4. SubscribersSeeEverything'
  BY <1>3 DEF SubscribersSeeEverything
<1>. QED  BY <1>1, <1>2, <1>4 DEF Subscribed

\* What is not written to or accepted is as it was.
LEMMA OthersKeepSubscribed ==
  ASSUME StreamInv, Subscribed, UNCHANGED <<log, delivered, joined, missed>>,
         mActiveConnections' \subseteq mActiveConnections,
         \A x \in Connections : state'[x] = "none" => state[x] = "none"
  PROVE  Subscribed'
BY DEF StreamInv, TypeOK, Subscribed, SubscribersSeeEverything, Subscription

\* Every step keeps subscribers told.
LEMMA SubscribedNext == Inv /\ StreamInv /\ Subscribed /\ [Next]_vars => Subscribed'
<1> SUFFICES ASSUME Inv, StreamInv, Subscribed, [Next]_vars PROVE Subscribed'
  OBVIOUS
<1>1. ASSUME NEW x \in Connections, ListenerDidAccept(x) \/ ConnectionDidNotAccept(x)
      PROVE  Subscribed'
  BY <1>1, AcceptKeepsSubscribed
<1>2. ASSUME NEW x \in Connections, CanAcceptBytes(x) PROVE Subscribed'
  BY <1>2, ConfirmKeepsSubscribed
<1>3. ASSUME NEW x \in Connections, ConnectionDidDisconnect(x) PROVE Subscribed'
  <2>1. /\ UNCHANGED <<log, delivered, joined, missed>>
        /\ mActiveConnections' \subseteq mActiveConnections
        /\ state' = [state EXCEPT ![x] = "Disconnected"]
    BY <1>3 DEF ConnectionDidDisconnect, DisposeInactiveConnection, outVars
  <2>2. \A y \in Connections : state'[y] = "none" => state[y] = "none"
    BY <2>1 DEF StreamInv, TypeOK
  <2>. QED  BY <2>1, <2>2, OthersKeepSubscribed
<1>4. ASSUME NEW x \in Connections, NEW r \in Requests, ClientWrites(x, r)
      PROVE  Subscribed'
  BY <1>4, OthersKeepSubscribed DEF ClientWrites, outVars, poolVars
<1>5. ASSUME NEW x \in Connections,
             NEW n \in 0 .. Len(inbound[x]), NEW split \in BOOLEAN,
             DidReceiveApplicationData(x, n, split)
      PROVE  Subscribed'
  <2>1. UNCHANGED <<poolVars, joined>>
    BY <1>5 DEF DidReceiveApplicationData
  <2>2. \/ \E D \in SUBSET mActiveConnections, t \in Seq(Fragments) :
              Send(Replies(t), D)
        \/ UNCHANGED outVars
    BY <1>5, ReadAnswers
  <2>3. ASSUME NEW D \in SUBSET mActiveConnections, NEW t \in Seq(Fragments),
               Send(Replies(t), D)
        PROVE  Subscribed'
    <3>1. Replies(t) \in Seq(Sent)
      BY RepliesTyping
    <3>. QED  BY <2>1, <2>3, <3>1, SendKeepsSubscribed
  <2>4. CASE UNCHANGED outVars
    BY <2>1, <2>4, OthersKeepSubscribed DEF outVars, poolVars
  <2>. QED  BY <2>2, <2>3, <2>4
<1>6. CASE SendResponse
  <2>1. PICK D \in SUBSET mActiveConnections : Send(<<Notification>>, D)
    BY <1>6 DEF SendResponse
  <2>2. UNCHANGED <<poolVars, joined>>
    BY <1>6 DEF SendResponse
  <2>3. <<Notification>> \in Seq(Sent)
    BY Singleton DEF Sent
  <2>. QED  BY <2>1, <2>2, <2>3, SendKeepsSubscribed
<1>7. CASE UNCHANGED vars
  BY <1>7, OthersKeepSubscribed DEF vars, outVars, poolVars
<1>. QED
  BY <1>1, <1>2, <1>3, <1>4, <1>5, <1>6, <1>7 DEF Next

(* A connected client has been sent every line the server sent since it was*)
(* accepted, in order, unless its own stream refused one: whoever asked,   *)
(* whatever was announced and whoever came or went in between              *)
(* (ConnectionManager::SendResponse and Send).                             *)
THEOREM SubscribersAlwaysSeeEverything == Spec => []SubscribersSeeEverything
<1>1. Init => Subscribed
  BY SubscribedInit
<1>2. Subscribed => SubscribersSeeEverything
  BY DEF Subscribed
<1>. QED
  BY <1>1, <1>2, SubscribedNext, InvAlways, StreamInvAlways, PTL DEF Spec

=============================================================================

----------------------------- MODULE Proxy_proofs -----------------------------
(***************************************************************************)
(* The proxy, for every set of connections, items and values and every     *)
(* bound: first the requests, of which it forgets none, then types, then   *)
(* what the proxy and its clients come to know.                            *)
(***************************************************************************)
EXTENDS Proxy, FiniteSetTheorems, SequenceTheorems, WellFoundedInduction,
        TLAPS

-----------------------------------------------------------------------------
(***************************************************************************)
(* Numbers and sequences.                                                  *)
(***************************************************************************)
\* The order of the natural numbers, as a relation.
Below == {ss \in Nat \X Nat : ss[1] < ss[2]}

\* A nonempty set of natural numbers has a least element.
LEMMA LeastNatural ==
  ASSUME NEW T \in SUBSET Nat, T # {}
  PROVE  \E m \in T : \A n \in T : m <= n
<1>1. IsWellFoundedOn(Below, Nat)
  BY NatLessThanWellFounded DEF OpToRel, Below
<1>2. PICK m \in T : \A n \in T : ~(<<n, m>> \in Below)
  BY <1>1, WFMin
<1>3. ASSUME NEW n \in T PROVE m <= n
  <2>1. n \in Nat /\ m \in Nat
    OBVIOUS
  <2>2. ~(<<n, m>> \in Nat \X Nat /\ <<n, m>>[1] < <<n, m>>[2])
    BY <1>2 DEF Below
  <2>3. ~(n < m)
    BY <2>1, <2>2
  <2>. QED  BY <2>1, <2>3
<1>. QED  BY <1>3

\* A nonempty set of natural numbers up to N has a greatest element.
LEMMA GreatestNatural ==
  ASSUME NEW N \in Nat, NEW T \in SUBSET (0 .. N), T # {}
  PROVE  \E m \in T : \A n \in T : n <= m
<1> DEFINE U == {N - t : t \in T}
<1>1. U \in SUBSET Nat /\ U # {}
  <2>1. \A t \in T : N - t \in Nat
    OBVIOUS
  <2>. QED  BY <2>1
<1>2. PICK u \in U : \A w \in U : u <= w
  <2>. HIDE DEF U
  <2>. QED  BY <1>1, LeastNatural
<1>3. PICK m \in T : u = N - m
  BY <1>2
<1>4. ASSUME NEW n \in T PROVE n <= m
  <2>1. N - n \in U
    OBVIOUS
  <2>2. u <= N - n
    BY <2>1, <1>2
  <2>3. n \in Int /\ m \in Int
    OBVIOUS
  <2>. HIDE DEF U
  <2>. QED  BY <2>2, <2>3, <1>3
<1>. QED  BY <1>4

\* A sequence of one element.
LEMMA Singleton ==
  ASSUME NEW S, NEW x \in S
  PROVE  <<x>> \in Seq(S) /\ Len(<<x>>) = 1 /\ <<x>>[1] = x
OBVIOUS

-----------------------------------------------------------------------------
(***************************************************************************)
(* Whoever asked was answered or has a context that waits for the answer.  *)
(***************************************************************************)

\* A context, of whatever request its connection's buffer held.
Kept ==
  [conn : Connections, op : {"query", "set"}, asked : Items,
   request : Requests \cup {Null}]

Of(s, x) == {i \in 1 .. Len(s) : s[i].conn = x}

-----------------------------------------------------------------------------
(***************************************************************************)
(* How many contexts wait for a connection.                                *)
(***************************************************************************)

\* They are finitely many.
LEMMA OfIsFinite ==
  ASSUME NEW s \in Seq(Kept), NEW x
  PROVE  IsFiniteSet(Of(s, x)) /\ Cardinality(Of(s, x)) \in Nat
<1>1. Len(s) \in Nat
  BY LenProperties
<1>2. IsFiniteSet(1 .. Len(s))
  BY <1>1, FS_Interval
<1>3. IsFiniteSet(Of(s, x))
  BY <1>2, FS_Subset DEF Of
<1>. QED  BY <1>3, FS_CardinalityType

\* One more for the connection of a context that is queued.
LEMMA OneMore ==
  ASSUME NEW s \in Seq(Kept), NEW c \in Kept, NEW x
  PROVE  Cardinality(Of(Append(s, c), x))
           = IF c.conn = x THEN Cardinality(Of(s, x)) + 1 ELSE Cardinality(Of(s, x))
<1> DEFINE n == Len(s)
           a == Append(s, c)
<1>1. /\ n \in Nat
      /\ Len(a) = n + 1
      /\ \A i \in 1 .. n : a[i] = s[i]
      /\ a[n + 1] = c
  BY AppendProperties, LenProperties
<1>2. IsFiniteSet(Of(s, x)) /\ Cardinality(Of(s, x)) \in Nat
  BY OfIsFinite
<1>3. Of(s, x) = {i \in 1 .. n : s[i].conn = x}
  BY DEF Of
<1>4. Of(a, x) = {i \in 1 .. n + 1 : a[i].conn = x}
  BY <1>1 DEF Of
<1>. HIDE DEF n, a
<1>5. n + 1 \notin Of(s, x)
  BY <1>1, <1>3
<1>6. CASE c.conn = x
  <2>1. Of(a, x) = Of(s, x) \cup {n + 1}
    BY <1>1, <1>3, <1>4, <1>6
  <2>2. Cardinality(Of(s, x) \cup {n + 1}) = Cardinality(Of(s, x)) + 1
    BY <1>2, <1>5, FS_AddElement
  <2>. QED  BY <1>6, <2>1, <2>2 DEF a
<1>7. CASE c.conn # x
  <2>1. Of(a, x) = Of(s, x)
    BY <1>1, <1>3, <1>4, <1>7
  <2>. QED  BY <1>7, <2>1 DEF a
<1>. QED  BY <1>6, <1>7

\* One less for that of the first one when it is taken from the queue.
LEMMA OneLess ==
  ASSUME NEW s \in Seq(Kept), s # <<>>, NEW x
  PROVE  /\ Tail(s) \in Seq(Kept)
         /\ Head(s) \in Kept
         /\ Cardinality(Of(s, x))
              = IF Head(s).conn = x THEN Cardinality(Of(Tail(s), x)) + 1
                ELSE Cardinality(Of(Tail(s), x))
<1> DEFINE n == Len(s)
           t == Tail(s)
           R == Of(s, x) \ {1}
           f == [i \in R |-> i - 1]
<1>1. /\ Head(s) \in Kept /\ t \in Seq(Kept) /\ Len(t) = n - 1
      /\ \A i \in 1 .. Len(t) : t[i] = s[i + 1]
  BY HeadTailProperties
<1>2. n \in Nat \ {0} /\ Head(s) = s[1]
  BY EmptySeq
<1>. HIDE DEF t
<1>3. IsFiniteSet(Of(s, x)) /\ IsFiniteSet(R) /\ Cardinality(R) \in Nat
  BY OfIsFinite, FS_RemoveElement, FS_CardinalityType
<1>4. R \subseteq 2 .. n /\ \A i \in R : s[i].conn = x
  BY <1>2 DEF Of
<1>5. \A i \in R : f[i] \in Of(t, x)
  <2>1. ASSUME NEW i \in R PROVE i - 1 \in Of(t, x)
    <3>1. i - 1 \in 1 .. Len(t) /\ (i - 1) + 1 = i
      BY <1>1, <1>2, <1>4
    <3>2. t[i - 1] = s[(i - 1) + 1]
      BY <1>1, <3>1
    <3>. QED  BY <1>4, <3>1, <3>2 DEF Of
  <2>. QED  BY <2>1
<1>6. \A j \in Of(t, x) : j + 1 \in R /\ f[j + 1] = j
  <2>1. ASSUME NEW j \in Of(t, x) PROVE j + 1 \in R
    <3>1. j \in 1 .. Len(t) /\ t[j].conn = x
      BY DEF Of
    <3>2. j + 1 \in 1 .. n /\ j + 1 # 1 /\ t[j] = s[j + 1]
      BY <1>1, <1>2, <3>1
    <3>. QED  BY <3>1, <3>2 DEF Of
  <2>2. \A j \in Of(t, x) : (j + 1) - 1 = j
    BY DEF Of
  <2>. QED  BY <2>1, <2>2
<1>7. f \in Surjection(R, Of(t, x))
  <2>1. f \in [R -> Of(t, x)]
    BY <1>5
  <2>2. \A j \in Of(t, x) : \E i \in R : f[i] = j
    BY <1>6
  <2>. QED  BY <2>1, <2>2 DEF Surjection
<1>8. f \in Injection(R, Of(t, x))
  <2>1. f \in [R -> Of(t, x)]
    BY <1>5
  <2>2. \A i, j \in R : f[i] = f[j] => i = j
    BY <1>2, <1>4
  <2>. QED  BY <2>1, <2>2 DEF Injection, IsInjective
<1>9. Cardinality(Of(t, x)) = Cardinality(R)
  <2>. HIDE DEF f, R
  <2>. QED  BY <1>3, <1>7, <1>8, FS_Surjection
<1>10. Cardinality(R) = IF s[1].conn = x THEN Cardinality(Of(s, x)) - 1
                        ELSE Cardinality(Of(s, x))
  <2>1. 1 \in Of(s, x) <=> s[1].conn = x
    BY <1>2 DEF Of
  <2>. QED  BY <1>3, <2>1, FS_RemoveElement
<1>11. Cardinality(Of(s, x)) \in Nat
  BY OfIsFinite
<1>. QED  BY <1>1, <1>2, <1>9, <1>10, <1>11 DEF t

-----------------------------------------------------------------------------
(***************************************************************************)
(* The inductive invariant.  The exchange with the server is that of the   *)
(* first context, so that none is taken from an empty queue.               *)
(***************************************************************************)
Counted == \A x \in Connections : asks[x] = answers[x] + Cardinality(Of(pending, x))

Inv ==
  status = "running" =>
    /\ pending \in Seq(Kept)
    /\ memory \in [Connections -> Requests \cup {Null}]
    /\ asks \in [Connections -> Nat]
    /\ answers \in [Connections -> Nat]
    /\ active => pending # <<>>
    /\ Counted

\* Initially nobody asked.
LEMMA InitInv == Init => Inv
<1> SUFFICES ASSUME Init PROVE Inv
  OBVIOUS
<1>1. pending = <<>> /\ <<>> \in Seq(Kept) /\ Len(<<>>) = 0
  BY EmptySeq DEF Init
<1>2. \A x \in Connections : Of(pending, x) = {}
  BY <1>1 DEF Of
<1>3. \A x \in Connections : Cardinality(Of(pending, x)) = 0
  BY <1>2, FS_EmptySet
<1>4. Counted
  BY <1>3 DEF Init, Counted
<1>. QED  BY <1>1, <1>4 DEF Init, Inv

\* An answer that is sent is counted, and none is sent to whoever is gone.
LEMMA SendCounts ==
  ASSUME Inv, status = "running", NEW x \in Connections, NEW seen, NEW l,
         SendResponse(x, seen, l), status' = "running"
  PROVE  answers' = [answers EXCEPT ![x] = @ + 1]
BY DEF SendResponse, Answered

\* One more request of x is answered or queued than those in a queue "rest".
OneMoreThan(x, rest) ==
  /\ pending' \in Seq(Kept)
  /\ answers' \in [Connections -> Nat]
  /\ \A y \in Connections :
       answers'[y] + Cardinality(Of(pending', y))
         = answers[y] + Cardinality(Of(rest, y)) + (IF y = x THEN 1 ELSE 0)

(* A query is answered, or queued once more: either way one more is counted*)
(* than before it was taken from the queue, if it was there.               *)
LEMMA QueryCounts ==
  ASSUME Inv, status = "running", NEW x \in Connections, NEW item,
         NEW asked \in Items, NEW rest \in Seq(Kept), NEW values, NEW seen,
         memory' \in [Connections -> Requests \cup {Null}],
         QueryRequestReceivedHandler(x, item, asked, rest, values, seen),
         status' = "running"
  PROVE  OneMoreThan(x, rest)
<1>1. \A y \in Connections : answers[y] \in Nat /\ Cardinality(Of(rest, y)) \in Nat
  BY OfIsFinite DEF Inv
<1>2. CASE values[item] = Null
  <2> DEFINE c == [conn |-> x, op |-> "query", asked |-> asked, request |-> memory'[x]]
  <2>1. c \in Kept /\ c.conn = x
    BY DEF Kept
  <2>2. pending' = Append(rest, c) /\ answers' = answers
    BY <1>2 DEF QueryRequestReceivedHandler
  <2>. HIDE DEF c
  <2>3. pending' \in Seq(Kept)
    BY <2>1, <2>2, AppendProperties
  <2>4. \A y \in Connections :
          Cardinality(Of(pending', y)) = IF y = x THEN Cardinality(Of(rest, y)) + 1
                                         ELSE Cardinality(Of(rest, y))
    BY <2>1, <2>2, OneMore
  <2>. QED  BY <1>1, <2>2, <2>3, <2>4 DEF Inv, OneMoreThan
<1>3. CASE values[item] # Null
  <2>1. pending' = rest /\ SendResponse(x, seen, <<item, values[item]>>)
    BY <1>3 DEF QueryRequestReceivedHandler
  <2>2. answers' = [answers EXCEPT ![x] = @ + 1]
    BY <2>1, SendCounts
  <2>. QED  BY <1>1, <2>1, <2>2 DEF Inv, OneMoreThan
<1>. QED  BY <1>2, <1>3

\* A request is received: it is answered or queued.
LEMMA RequestKeeps ==
  ASSUME Inv, NEW x \in Connections, NEW r \in Requests, RequestReceived(x, r)
  PROVE  Inv'
<1> SUFFICES ASSUME status' = "running" PROVE Inv'
  BY DEF Inv
<1>1. /\ status = "running"
      /\ asks' = [asks EXCEPT ![x] = @ + 1]
      /\ memory' = [memory EXCEPT ![x] = r]
      /\ active' = active
  BY DEF RequestReceived
<1>2. /\ memory' \in [Connections -> Requests \cup {Null}]
      /\ asks' \in [Connections -> Nat]
      /\ r.item \in Items /\ r \in Requests \cup {Null}
  BY <1>1 DEF Inv, Requests
<1>3. \A y \in Connections : answers[y] \in Nat /\ Cardinality(Of(pending, y)) \in Nat
  BY <1>1, OfIsFinite DEF Inv
<1>4. /\ OneMoreThan(x, pending)
      /\ active => pending' # <<>>
  <2>1. CASE /\ r.op = "query"
             /\ QueryRequestReceivedHandler(x, r.item, r.item, pending, cache, view)
    <3>1. active => pending' # <<>>
      <4>1. pending \in Seq(Kept) /\ (active => pending # <<>>)
        BY <1>1 DEF Inv
      <4>2. CASE cache[r.item] = Null
        <5> DEFINE c == [conn |-> x, op |-> "query", asked |-> r.item,
                         request |-> memory'[x]]
        <5>1. c \in Kept
          BY <1>2 DEF Kept
        <5>2. pending' = Append(pending, c)
          BY <2>1, <4>2 DEF QueryRequestReceivedHandler
        <5>. QED  BY <4>1, <5>1, <5>2, AppendProperties
      <4>3. CASE cache[r.item] # Null
        BY <2>1, <4>1, <4>3 DEF QueryRequestReceivedHandler
      <4>. QED  BY <4>2, <4>3
    <3>2. pending \in Seq(Kept)
      BY <1>1 DEF Inv
    <3>3. OneMoreThan(x, pending)
      <4> DEFINE item == r.item
      <4>1. QueryRequestReceivedHandler(x, item, item, pending, cache, view)
        BY <2>1
      <4>2. item \in Items /\ status = "running"
        BY <1>1, <1>2
      <4>3. memory' \in [Connections -> Requests \cup {Null}]
        BY <1>2
      <4>. HIDE DEF item
      <4>. QED  BY <3>2, <4>1, <4>2, <4>3, QueryCounts
    <3>. QED  BY <3>1, <3>3
  <2>2. CASE r.op = "set" /\ ProxyMutationCommand(x, r)
    <3> DEFINE c == [conn |-> x, op |-> "set", asked |-> r.item, request |-> r]
    <3>1. c \in Kept /\ c.conn = x
      BY <1>2 DEF Kept
    <3>2. pending' = Append(pending, c) /\ answers' = answers
      BY <2>2 DEF ProxyMutationCommand
    <3>. HIDE DEF c
    <3>3. pending' \in Seq(Kept) /\ pending' # <<>>
      BY <1>1, <3>1, <3>2, AppendProperties DEF Inv
    <3>4. \A y \in Connections :
            Cardinality(Of(pending', y))
              = IF y = x THEN Cardinality(Of(pending, y)) + 1
                ELSE Cardinality(Of(pending, y))
      BY <1>1, <3>1, <3>2, OneMore DEF Inv
    <3>5. answers' \in [Connections -> Nat]
      BY <1>1, <3>2 DEF Inv
    <3>6. \A y \in Connections :
            answers'[y] + Cardinality(Of(pending', y))
              = answers[y] + Cardinality(Of(pending, y)) + (IF y = x THEN 1 ELSE 0)
      BY <1>3, <3>2, <3>4
    <3>. QED  BY <3>3, <3>5, <3>6 DEF OneMoreThan
  <2>. QED  BY <2>1, <2>2 DEF RequestReceived
<1>5. Counted'
  <2>1. ASSUME NEW y \in Connections
        PROVE  asks'[y] = answers'[y] + Cardinality(Of(pending', y))
    <3>1. /\ asks[y] = answers[y] + Cardinality(Of(pending, y))
          /\ asks'[y] = asks[y] + (IF y = x THEN 1 ELSE 0)
      BY <1>1 DEF Inv, Counted
    <3>. QED  BY <1>3, <1>4, <3>1 DEF OneMoreThan
  <2>. QED  BY <2>1 DEF Counted
<1>. QED  BY <1>1, <1>2, <1>4, <1>5 DEF Inv, OneMoreThan

\* What is queued, asked and answered is as it was.
LEMMA OthersKeep ==
  ASSUME Inv, UNCHANGED <<status, memory, pending, asks, answers>>,
         active' => active \/ pending # <<>>
  PROVE  Inv'
BY DEF Inv, Counted, Of

\* The exchange is over: its context is answered, or queued once more.
LEMMA EndKeeps ==
  ASSUME Inv, status = "running", active, UNCHANGED <<memory, asks>>, ~active',
         NEW seen, NEW l, NEW values,
         \/ ProxyMutationCompleteHandler(Head(pending).conn, seen, l)
         \/ ProxyObservationCompleteHandler(Head(pending).conn, Head(pending).asked,
                                            values, seen)
         \/ /\ SendResponse(Head(pending).conn, seen, l)
            /\ pending' = Tail(pending)
  PROVE  Inv'
<1> SUFFICES ASSUME status' = "running" PROVE Inv'
  BY DEF Inv
<1> DEFINE x == Head(pending).conn
           rest == Tail(pending)
<1>1. /\ pending \in Seq(Kept) /\ pending # <<>> /\ Counted
      /\ memory' \in [Connections -> Requests \cup {Null}]
      /\ asks' \in [Connections -> Nat]
  BY DEF Inv
<1>2. /\ rest \in Seq(Kept) /\ x \in Connections /\ Head(pending).asked \in Items
  BY <1>1, OneLess DEF Kept
<1>3. \A y \in Connections :
        Cardinality(Of(pending, y))
          = Cardinality(Of(rest, y)) + (IF y = x THEN 1 ELSE 0)
  <2>1. \A y \in Connections :
          /\ Cardinality(Of(pending, y)) = IF x = y THEN Cardinality(Of(rest, y)) + 1
                                           ELSE Cardinality(Of(rest, y))
          /\ Cardinality(Of(rest, y)) \in Nat
    BY <1>1, <1>2, OneLess, OfIsFinite
  <2>. QED  BY <2>1
<1>4. \A y \in Connections : answers[y] \in Nat /\ Cardinality(Of(rest, y)) \in Nat
  BY <1>2, OfIsFinite DEF Inv
<1>. HIDE DEF x, rest
<1>5. OneMoreThan(x, rest)
  <2>1. CASE SendResponse(x, seen, l) /\ pending' = rest
    <3>1. answers' = [answers EXCEPT ![x] = @ + 1]
      BY <1>2, <2>1, SendCounts
    <3>2. answers' \in [Connections -> Nat]
      BY <1>2, <3>1 DEF Inv
    <3>3. \A y \in Connections : answers'[y] = answers[y] + (IF y = x THEN 1 ELSE 0)
      BY <1>4, <3>1 DEF Inv
    <3>. QED  BY <1>2, <1>4, <2>1, <3>2, <3>3 DEF OneMoreThan
  <2>2. CASE ProxyObservationCompleteHandler(x, Head(pending).asked, values, seen)
    <3> DEFINE item == memory[x].item
               asked == Head(pending).asked
    <3>1. QueryRequestReceivedHandler(x, item, asked, rest, values, seen)
      BY <2>2 DEF ProxyObservationCompleteHandler, rest
    <3>2. asked \in Items /\ memory' \in [Connections -> Requests \cup {Null}]
      BY <1>1, <1>2
    <3>. HIDE DEF item, asked
    <3>. QED  BY <1>2, <3>1, <3>2, QueryCounts
  <2>. QED  BY <2>1, <2>2 DEF ProxyMutationCompleteHandler, x, rest
<1>6. Counted'
  <2>1. ASSUME NEW y \in Connections
        PROVE  asks'[y] = answers'[y] + Cardinality(Of(pending', y))
    <3>1. asks'[y] = answers[y] + Cardinality(Of(pending, y))
      BY <1>1 DEF Counted
    <3>. QED  BY <1>3, <1>4, <1>5, <3>1 DEF OneMoreThan
  <2>. QED  BY <2>1 DEF Counted
<1>. QED  BY <1>1, <1>5, <1>6 DEF Inv, OneMoreThan

\* A read keeps the queue, or ends the exchange of the first context.
LEMMA ReadKeeps ==
  ASSUME Inv, NEW n \in 1 .. Len(toProxy),
         \/ ReceiveNotifications(n) \/ ReceiveAwaiting(n)
         \/ ReceiveCompletion(n) \/ ReceiveError(n)
  PROVE  Inv'
<1>1. CASE ReceiveNotifications(n) \/ ReceiveAwaiting(n)
  <2>1. UNCHANGED <<status, memory, pending, asks, answers, active>>
    BY <1>1 DEF ReceiveNotifications, ReceiveAwaiting, Reads
  <2>. QED  BY <2>1, OthersKeep
<1>2. CASE ReceiveCompletion(n)
  <2>1. /\ status = "running" /\ active /\ ~active'
        /\ UNCHANGED <<memory, asks>>
    BY <1>2 DEF ReceiveCompletion, Reads
  <2> DEFINE l == Last(Buffered(n))
             seen == ToldAll(view, Front(Buffered(n)))
  <2>2. \/ ProxyMutationCompleteHandler(Head(pending).conn, seen, l)
        \/ ProxyObservationCompleteHandler(Head(pending).conn, Head(pending).asked,
                                           cache', seen)
    <3>1. CASE ProxyMutationCompleteHandler(Head(pending).conn, seen, l)
      BY <3>1
    <3>2. CASE ProxyObservationCompleteHandler(Head(pending).conn,
                                               Head(pending).asked, cache', seen)
      BY <3>2
    <3>. QED  BY <1>2, <3>1, <3>2 DEF ReceiveCompletion
  <2>. HIDE DEF l, seen
  <2>. QED  BY <2>1, <2>2, EndKeeps
<1>3. CASE ReceiveError(n)
  <2>1. /\ status = "running" /\ active /\ ~active'
        /\ UNCHANGED <<memory, asks>>
        /\ SendResponse(Head(pending).conn, view, Error)
        /\ pending' = Tail(pending)
    BY <1>3 DEF ReceiveError, Reads
  <2>. QED  BY <2>1, EndKeeps
<1>. QED  BY <1>1, <1>2, <1>3

\* Every step keeps the count.
LEMMA NextInv == Inv /\ [Next]_vars => Inv'
<1> SUFFICES ASSUME Inv, [Next]_vars PROVE Inv'
  OBVIOUS
<1>1. ASSUME NEW x \in Connections, NEW r \in Requests, RequestReceived(x, r)
      PROVE  Inv'
  BY <1>1, RequestKeeps
<1>2. ASSUME NEW x \in Connections, ListenerDidAccept(x) \/ ConnectionDidDisconnect(x)
      PROVE  Inv'
  <2>1. UNCHANGED <<status, memory, pending, asks, answers, active>>
    BY <1>2 DEF ListenerDidAccept, ConnectionDidDisconnect, historyVars
  <2>. QED  BY <2>1, OthersKeep
<1>3. CASE Stop
  BY <1>3 DEF Stop, Inv
<1>4. CASE ServerAnswers \/ ServerChangesOther
           \/ \E i \in Items, v \in Values : ServerChanges(i, v)
  <2>1. UNCHANGED <<status, memory, pending, asks, answers, active>>
    BY <1>4 DEF ServerAnswers, ServerChangesOther, ServerChanges, clientVars, historyVars
  <2>. QED  BY <2>1, OthersKeep
<1>5. CASE ServiceCommandQueue
  <2>1. UNCHANGED <<status, memory, pending, asks, answers>> /\ pending # <<>>
    BY <1>5 DEF ServiceCommandQueue, clientVars, historyVars
  <2>. QED  BY <2>1, OthersKeep
<1>6. CASE ConnectionManagerDidReceiveApplicationData
  BY <1>6, ReadKeeps DEF ConnectionManagerDidReceiveApplicationData
<1>7. CASE UNCHANGED vars
  BY <1>7, OthersKeep DEF vars, clientVars, historyVars
<1>. QED
  BY <1>1, <1>2, <1>3, <1>4, <1>5, <1>6, <1>7 DEF Next

(* Every request the proxy received was answered or waits for its answer,  *)
(* with errors, observations that are repeated and connections that end    *)
(* while it runs (ObjectControllerBasis::ProxyMutationCommand,             *)
(* ProxyObservationCommand and what completes them).                       *)
THEOREM NeverForgotten == Spec => []NoRequestForgotten
<1>1. ASSUME Inv, status = "running", NEW x \in Connections
      PROVE  asks[x] = answers[x] + Cardinality(Waiting(x))
  <2>1. DOMAIN pending = 1 .. Len(pending)
    BY <1>1, LenProperties DEF Inv
  <2>2. Waiting(x) = Of(pending, x)
    BY <2>1 DEF Waiting, Of
  <2>. QED  BY <1>1, <2>2 DEF Inv, Counted
<1>2. Inv => NoRequestForgotten
  BY <1>1 DEF NoRequestForgotten
<1>. QED  BY <1>2, InitInv, NextInv, PTL DEF Spec

-----------------------------------------------------------------------------
(***************************************************************************)
(* The models of the proxy and of its clients follow the server, and a     *)
(* client that asks for one thing at a time is answered what it asked for. *)
(***************************************************************************)
AnyLine == Lines \cup {Error, Other}

Models == [Items -> Values \cup {Null}]

-----------------------------------------------------------------------------
(***************************************************************************)
(* Lines and sequences of them.                                            *)
(***************************************************************************)

\* A line that tells something, tells it of an item.
LEMMA LineTells ==
  ASSUME NEW line \in Lines
  PROVE  line[1] \in Items /\ line[2] \in Values /\ line = <<line[1], line[2]>>
BY DEF Lines

\* A line of a pair, and no other.
LEMMA PairIsLine ==
  ASSUME NEW i \in Items, NEW v \in Values
  PROVE  <<i, v>> \in Lines /\ <<i, v>>[1] = i /\ <<i, v>>[2] = v
BY DEF Lines

\* Neither the error line nor one of another kind tells anything.
LEMMA OthersTellNothing == Error \notin Lines /\ Other \notin Lines
BY DEF Error, Other, Lines

\* What is read and what is left of it.
LEMMA ReadSplits ==
  ASSUME received \in Seq(AnyLine), toProxy \in Seq(AnyLine),
         NEW n \in 1 .. Len(toProxy), Reads(n)
  PROVE  /\ toProxy' \in Seq(AnyLine)
         /\ Buffered(n) \in Seq(AnyLine) /\ Len(Buffered(n)) \in Nat \ {0}
         /\ Buffered(n) \o toProxy' = received \o toProxy
<1> DEFINE a == SubSeq(toProxy, 1, n)
           b == SubSeq(toProxy, n + 1, Len(toProxy))
<1>1. Len(toProxy) \in Nat /\ n \in Nat \ {0} /\ n <= Len(toProxy)
  BY LenProperties
<1>2. \A i \in 1 .. Len(toProxy) : toProxy[i] \in AnyLine
  BY ElementOfSeq
<1>3. a \in Seq(AnyLine) /\ Len(a) = n
  <2>1. \A i \in 1 .. n : toProxy[i] \in AnyLine
    BY <1>1, <1>2
  <2>. QED  BY <1>1, <2>1, SubSeqProperties
<1>4. b \in Seq(AnyLine)
  <2>1. \A i \in n + 1 .. Len(toProxy) : toProxy[i] \in AnyLine
    BY <1>1, <1>2
  <2>2. n + 1 \in Int /\ Len(toProxy) \in Int
    BY <1>1
  <2>. QED  BY <2>1, <2>2, SubSeqProperties
<1>5. a \o b = toProxy
  <2>1. a \o b = SubSeq(toProxy, 1, Len(toProxy))
    <3>1. 1 \in 1 .. Len(toProxy) + 1 /\ n \in 1 - 1 .. Len(toProxy)
          /\ Len(toProxy) \in n .. Len(toProxy)
      BY <1>1
    <3>. QED  BY <3>1, ConcatAdjacentSubSeq
  <2>. QED  BY <2>1, SubSeqFull
<1>6. toProxy' = b /\ Buffered(n) = received \o a
  BY DEF Reads, Buffered
<1>. HIDE DEF a, b
<1>7. received \o a \in Seq(AnyLine) /\ Len(received \o a) = Len(received) + n
  BY <1>3, ConcatProperties
<1>8. Len(received) \in Nat
  BY LenProperties
<1>9. (received \o a) \o b = received \o (a \o b)
  <2>1. received \in Seq(AnyLine) /\ a \in Seq(AnyLine) /\ b \in Seq(AnyLine)
    BY <1>3, <1>4
  <2>. QED  BY ONLY <2>1, ConcatAssociative
<1>. QED  BY <1>1, <1>4, <1>5, <1>6, <1>7, <1>8, <1>9

\* A sequence that is not empty is its front followed by its last element.
LEMMA FrontThenLast ==
  ASSUME NEW S, NEW s \in Seq(S), Len(s) # 0
  PROVE  /\ Front(s) \in Seq(S) /\ Last(s) \in S
         /\ <<Last(s)>> \in Seq(S)
         /\ Front(s) \o <<Last(s)>> = s
<1>1. Len(s) \in Nat \ {0}
  BY LenProperties
<1>2. Len(s) \in 1 .. Len(s) /\ 1 \in 1 .. Len(s)
  BY <1>1
<1>3. Last(s) \in S
  BY <1>2, ElementOfSeq DEF Last
<1>4. <<Last(s)>> \in Seq(S)
  BY <1>3, Singleton
<1>5. Front(s) \in Seq(S)
  <2>1. \A i \in 1 .. Len(s) - 1 : s[i] \in S
    BY <1>1, ElementOfSeq
  <2>. QED  BY <1>1, <2>1, SubSeqProperties DEF Front
<1>6. SubSeq(s, 1, Len(s)) = SubSeq(s, 1, Len(s) - 1) \o <<s[Len(s)]>>
  BY <1>2, SubSeqRecursiveSecond
<1>. QED  BY <1>3, <1>4, <1>5, <1>6, SubSeqFull DEF Front, Last

-----------------------------------------------------------------------------
(***************************************************************************)
(* What lines tell.                                                        *)
(***************************************************************************)

\* The line k is the last among lines that tells something of item i.
IsLastAbout(lines, i, k) ==
  k \in About(lines, i) /\ \A j \in About(lines, i) : j <= k

\* If a line tells something of an item, one is the last.
LEMMA LastAboutExists ==
  ASSUME NEW lines \in Seq(AnyLine), NEW i
  PROVE  /\ About(lines, i) \subseteq 1 .. Len(lines)
         /\ About(lines, i) # {} => \E k : IsLastAbout(lines, i, k)
<1>1. Len(lines) \in Nat /\ DOMAIN lines = 1 .. Len(lines)
  BY LenProperties
<1>2. About(lines, i) \subseteq 1 .. Len(lines)
  BY <1>1 DEF About
<1>3. About(lines, i) \in SUBSET (0 .. Len(lines))
  BY <1>1, <1>2
<1> DEFINE T == About(lines, i)
<1>4. T # {} => \E k \in T : \A j \in T : j <= k
  <2>. HIDE DEF T
  <2>. QED  BY <1>1, <1>3, GreatestNatural DEF T
<1>. QED  BY <1>2, <1>4 DEF IsLastAbout

\* The last line about an item is what is heard of it.
LEMMA HeardLast ==
  ASSUME NEW values, NEW lines \in Seq(AnyLine), NEW i \in Items, NEW k,
         IsLastAbout(lines, i, k)
  PROVE  Heard(values, lines)[i] = lines[k][2] /\ lines[k] \in Lines
<1> DEFINE T == About(lines, i)
<1>1. T \subseteq Int /\ k \in T /\ \A j \in T : j <= k
  BY LastAboutExists DEF IsLastAbout
<1>2. Max(T) = k
  <2>. HIDE DEF T
  <2>1. k \in T /\ \A y \in T : k >= y
    BY <1>1
  <2>2. \A x \in T : (\A y \in T : x >= y) => x = k
    BY <1>1
  <2>. QED  BY <2>1, <2>2 DEF Max
<1>3. T # {}
  BY <1>1
<1>4. Heard(values, lines)[i] = lines[Max(T)][2]
  BY <1>3 DEF Heard
<1>. QED  BY <1>1, <1>2, <1>4 DEF About

\* Nothing is heard of an item no line is about.
LEMMA HeardNothing ==
  ASSUME NEW values, NEW lines, NEW i \in Items, About(lines, i) = {}
  PROVE  Heard(values, lines)[i] = values[i]
BY DEF Heard

\* What is heard are values.
LEMMA HeardTyped ==
  ASSUME NEW values \in Models, NEW lines \in Seq(AnyLine)
  PROVE  Heard(values, lines) \in Models
<1>1. ASSUME NEW i \in Items PROVE Heard(values, lines)[i] \in Values \cup {Null}
  <2>1. CASE About(lines, i) = {}
    BY <2>1, HeardNothing DEF Models
  <2>2. CASE About(lines, i) # {}
    <3>1. PICK k : IsLastAbout(lines, i, k)
      BY <2>2, LastAboutExists
    <3>. QED  BY <3>1, HeardLast, LineTells
  <2>. QED  BY <2>1, <2>2
<1>2. Heard(values, lines) = [i \in Items |-> Heard(values, lines)[i]]
  BY DEF Heard
<1>. QED  BY <1>1, <1>2 DEF Models

\* What is heard of an item depends on what was known of that item alone.
LEMMA HeardOfItem ==
  ASSUME NEW values, NEW other, NEW lines, NEW i \in Items, values[i] = other[i]
  PROVE  Heard(values, lines)[i] = Heard(other, lines)[i]
BY DEF Heard

\* Whoever knew nothing of an item hears what others come to, or nothing.
LEMMA HeardUnknown ==
  ASSUME NEW values, NEW other, NEW lines, NEW i \in Items, values[i] = Null,
         NEW v, Heard(other, lines)[i] \in {Null, v}
  PROVE  Heard(values, lines)[i] \in {Null, v}
BY DEF Heard

\* Lines that tell nothing leave all as it was.
LEMMA NothingHeard ==
  ASSUME NEW values \in Models, NEW lines \in Seq(AnyLine),
         \A k \in DOMAIN lines : lines[k] \notin Lines
  PROVE  Heard(values, lines) = values
<1>1. \A i \in Items : About(lines, i) = {}
  BY DEF About
<1>2. Heard(values, lines) = [i \in Items |-> values[i]]
  BY <1>1 DEF Heard
<1>. QED  BY <1>2 DEF Models

\* Which lines of two sequences, one behind the other, are about an item.
BothAbout(s, t, i) ==
  /\ \A k \in Int : k \in About(s \o t, i)
       <=> k \in About(s, i) \/ k - Len(s) \in About(t, i)
  /\ \A k \in About(s, i) : (s \o t)[k] = s[k]
  /\ \A k \in About(t, i) : (s \o t)[k + Len(s)] = t[k]

\* Those of the first and, further on, those of the second.
LEMMA AboutBoth ==
  ASSUME NEW s \in Seq(AnyLine), NEW t \in Seq(AnyLine), NEW i
  PROVE  /\ s \o t \in Seq(AnyLine) /\ Len(s) \in Nat /\ Len(t) \in Nat
         /\ BothAbout(s, t, i)
<1> DEFINE u == s \o t
           m == Len(s)
           l == Len(t)
<1>1. /\ u \in Seq(AnyLine) /\ Len(u) = m + l
      /\ \A k \in 1 .. m + l : u[k] = IF k <= m THEN s[k] ELSE t[k - m]
  BY ConcatProperties
<1>2. /\ m \in Nat /\ l \in Nat /\ DOMAIN s = 1 .. m /\ DOMAIN t = 1 .. l
      /\ DOMAIN u = 1 .. m + l
  BY <1>1, LenProperties
<1>. HIDE DEF u, m, l
<1>3. /\ About(s, i) \subseteq 1 .. m /\ About(t, i) \subseteq 1 .. l
      /\ About(u, i) \subseteq 1 .. m + l
  BY <1>2 DEF About
<1>4. \A k \in 1 .. m : u[k] = s[k]
  BY <1>1, <1>2
<1>5. \A k \in 1 .. l : u[k + m] = t[k]
  <2>1. ASSUME NEW k \in 1 .. l PROVE u[k + m] = t[k]
    <3>1. k + m \in 1 .. m + l /\ ~(k + m <= m) /\ (k + m) - m = k
      BY <1>2
    <3>. QED  BY <1>1, <3>1
  <2>. QED  BY <2>1
<1>6. ASSUME NEW k \in Int
      PROVE  k \in About(u, i) <=> k \in About(s, i) \/ k - m \in About(t, i)
  <2>1. CASE k \in 1 .. m
    <3>1. k - m \notin 1 .. l /\ k \in 1 .. m + l
      BY <2>1, <1>2
    <3>. QED  BY <1>2, <1>3, <1>4, <2>1, <3>1 DEF About
  <2>2. CASE k - m \in 1 .. l
    <3>1. k \notin 1 .. m /\ k \in 1 .. m + l /\ (k - m) + m = k
      BY <2>2, <1>2
    <3>2. u[k] = t[k - m]
      BY <1>5, <2>2, <3>1
    <3>3. k \notin About(s, i)
      BY <1>3, <3>1
    <3>. QED  BY <1>2, <2>2, <3>1, <3>2, <3>3 DEF About
  <2>3. CASE k \notin 1 .. m /\ k - m \notin 1 .. l
    <3>1. k \notin 1 .. m + l
      BY <2>3, <1>2
    <3>. QED  BY <1>3, <2>3, <3>1
  <2>. QED  BY <2>1, <2>2, <2>3
<1>. QED  BY <1>1, <1>2, <1>3, <1>4, <1>5, <1>6 DEF u, m, l, BothAbout

\* What is heard from one and then the other is heard from both.
LEMMA HeardBoth ==
  ASSUME NEW values \in Models, NEW s \in Seq(AnyLine), NEW t \in Seq(AnyLine)
  PROVE  Heard(Heard(values, s), t) = Heard(values, s \o t)
<1> DEFINE u == s \o t
           m == Len(s)
<1>1. u \in Seq(AnyLine) /\ m \in Nat
  BY AboutBoth
<1>2. ASSUME NEW i \in Items
      PROVE  Heard(Heard(values, s), t)[i] = Heard(values, u)[i]
  <2>1. /\ \A k \in Int : k \in About(u, i) <=> k \in About(s, i) \/ k - m \in About(t, i)
        /\ \A k \in About(s, i) : u[k] = s[k]
        /\ \A k \in About(t, i) : u[k + m] = t[k]
    <3>1. BothAbout(s, t, i)
      BY AboutBoth
    <3>. QED  BY <3>1 DEF BothAbout
  <2>2. /\ About(s, i) \subseteq Int /\ About(t, i) \subseteq Int /\ About(u, i) \subseteq Int
        /\ \A k \in About(s, i) : k <= m
        /\ \A k \in About(t, i) : k >= 1
    <3>. HIDE DEF u
    <3>1. /\ About(s, i) \subseteq 1 .. Len(s) /\ About(t, i) \subseteq 1 .. Len(t)
          /\ About(u, i) \subseteq 1 .. Len(u)
      BY <1>1, LastAboutExists
    <3>. QED  BY <3>1
  <2>. HIDE DEF u, m
  <2>3. CASE About(t, i) # {}
    <3>1. PICK k : IsLastAbout(t, i, k)
      BY <2>3, LastAboutExists
    <3>2. k \in Int /\ k \in About(t, i) /\ (k + m) - m = k /\ k >= 1
      BY <1>1, <2>2, <3>1 DEF IsLastAbout
    <3>3. k + m \in About(u, i)
      BY <1>1, <2>1, <3>2
    <3>4. ASSUME NEW j \in About(u, i) PROVE j <= k + m
      <4>1. j \in Int /\ (j \in About(s, i) \/ j - m \in About(t, i))
        BY <2>1, <2>2
      <4>2. CASE j \in About(s, i)
        BY <1>1, <2>2, <3>2, <4>1, <4>2
      <4>3. CASE j - m \in About(t, i)
        <5>1. j - m <= k
          BY <3>1, <4>3 DEF IsLastAbout
        <5>. QED  BY <1>1, <3>2, <4>1, <5>1
      <4>. QED  BY <4>1, <4>2, <4>3
    <3>5. IsLastAbout(u, i, k + m)
      BY <3>3, <3>4 DEF IsLastAbout
    <3>6. Heard(values, u)[i] = u[k + m][2]
      BY <1>1, <3>5, HeardLast
    <3>7. Heard(Heard(values, s), t)[i] = t[k][2]
      BY <3>1, HeardLast
    <3>. QED  BY <2>1, <3>2, <3>6, <3>7
  <2>4. CASE About(t, i) = {} /\ About(s, i) # {}
    <3>1. PICK k : IsLastAbout(s, i, k)
      BY <2>4, LastAboutExists
    <3>2. k \in Int /\ k \in About(s, i)
      BY <2>2, <3>1 DEF IsLastAbout
    <3>3. IsLastAbout(u, i, k)
      BY <2>1, <2>2, <2>4, <3>1, <3>2 DEF IsLastAbout
    <3>4. Heard(values, u)[i] = u[k][2]
      BY <1>1, <3>3, HeardLast
    <3>5. Heard(Heard(values, s), t)[i] = Heard(values, s)[i]
      BY <2>4, HeardNothing
    <3>6. Heard(values, s)[i] = s[k][2]
      BY <3>1, HeardLast
    <3>. QED  BY <2>1, <3>2, <3>4, <3>5, <3>6
  <2>5. CASE About(t, i) = {} /\ About(s, i) = {}
    <3>1. About(u, i) = {}
      BY <2>1, <2>2, <2>5
    <3>2. Heard(values, u)[i] = values[i] /\ Heard(values, s)[i] = values[i]
      BY <2>5, <3>1, HeardNothing
    <3>3. Heard(Heard(values, s), t)[i] = Heard(values, s)[i]
      BY <2>5, HeardNothing
    <3>. QED  BY <3>2, <3>3
  <2>. QED  BY <2>3, <2>4, <2>5 DEF u
<1>3. /\ Heard(Heard(values, s), t) = [i \in Items |-> Heard(Heard(values, s), t)[i]]
      /\ Heard(values, u) = [i \in Items |-> Heard(values, u)[i]]
  BY DEF Heard
<1>. HIDE DEF u
<1>4. [i \in Items |-> Heard(Heard(values, s), t)[i]] = [i \in Items |-> Heard(values, u)[i]]
  BY <1>2
<1>. QED  BY <1>3, <1>4 DEF u

\* One line more about an item is what is heard of that; the others stay.
LEMMA HeardOne ==
  ASSUME NEW values \in Models, NEW line \in AnyLine, NEW i \in Items
  PROVE  Heard(values, <<line>>)[i]
           = IF line \in Lines /\ line[1] = i THEN line[2] ELSE values[i]
<1>1. <<line>> \in Seq(AnyLine) /\ Len(<<line>>) = 1 /\ <<line>>[1] = line
  BY Singleton
<1>2. DOMAIN <<line>> = {1}
  OBVIOUS
<1>3. About(<<line>>, i) = IF line \in Lines /\ line[1] = i THEN {1} ELSE {}
  BY <1>1, <1>2 DEF About
<1>4. CASE line \in Lines /\ line[1] = i
  <2>1. IsLastAbout(<<line>>, i, 1)
    BY <1>3, <1>4 DEF IsLastAbout
  <2>2. Heard(values, <<line>>)[i] = <<line>>[1][2]
    BY <1>1, <2>1, HeardLast
  <2>. QED  BY <1>1, <1>4, <2>2
<1>5. CASE ~(line \in Lines /\ line[1] = i)
  <2>1. About(<<line>>, i) = {}
    BY <1>3, <1>5
  <2>. QED  BY <1>5, <2>1, HeardNothing
<1>. QED  BY <1>4, <1>5

-----------------------------------------------------------------------------
(***************************************************************************)
(* Types.  A context is kept for a connection whose receive buffer holds a *)
(* request: that is what is passed on.                                     *)
(***************************************************************************)
Views == [Connections -> Models]

Statuses == {"none", "accepted", "disconnected", "destroyed"}

Asking(requests) == {c \in Contexts : requests[c.conn] \in Requests}

Typed ==
  /\ status \in {"running", "crashed", "stopped"}
  /\ conn \in [Connections -> Statuses]
  /\ memory \in [Connections -> Requests \cup {Null}]
  /\ pending \in Seq(Asking(memory))
  /\ active \in BOOLEAN /\ (active => pending # <<>>)
  /\ toServer \in Seq(Requests)
  /\ toProxy \in Seq(AnyLine)
  /\ received \in Seq(AnyLine)
  /\ server \in [Items -> Values]
  /\ cache \in Models
  /\ view \in Views
  /\ asks \in [Connections -> Nat] /\ answers \in [Connections -> Nat]
  /\ flushed \in BOOLEAN /\ overlapped \in BOOLEAN /\ mistaken \in BOOLEAN
  /\ swallowed \subseteq Items
  /\ disturbances \in Nat

\* The types of what the model is about follow.
LEMMA TypedIsTypeOK == Typed => TypeOK
<1> SUFFICES ASSUME Typed PROVE TypeOK
  OBVIOUS
<1>1. Asking(memory) \subseteq Contexts
  BY DEF Asking
<1>2. pending \in Seq(Contexts)
  BY <1>1, SeqMonotonic DEF Typed
<1>3. /\ toProxy \in Seq(Lines \cup {Error, Other})
      /\ received \in Seq(Lines \cup {Error, Other})
      /\ cache \in [Items -> Values \cup {Null}]
      /\ view \in [Connections -> [Items -> Values \cup {Null}]]
  BY DEF Typed, AnyLine, Models, Views
<1>. QED  BY <1>2, <1>3 DEF Typed, TypeOK, Statuses

\* What the clients were told are models, whatever they are told.
LEMMA ToldTyped ==
  ASSUME NEW seen \in Views, NEW line
  PROVE  Told(seen, line) \in Views
<1>1. ASSUME NEW x \in Connections, conn[x] = "accepted", line \in Lines
      PROVE  [seen[x] EXCEPT ![line[1]] = line[2]] \in Models
  BY <1>1, LineTells DEF Models, Views
<1>. QED  BY <1>1 DEF Told, Views

\* So are they after what was heard.
LEMMA ToldAllTyped ==
  ASSUME NEW seen \in Views, NEW lines \in Seq(AnyLine)
  PROVE  ToldAll(seen, lines) \in Views
<1>1. \A x \in Connections : Heard(seen[x], lines) \in Models
  BY HeardTyped DEF Views
<1>. QED  BY <1>1 DEF ToldAll, Views

\* What an answer may change, and that it ends the process or tells the clients.
LEMMA SendTyped ==
  ASSUME Typed, status = "running", NEW x \in Connections, NEW seen \in Views, NEW line,
         SendResponse(x, seen, line)
  PROVE  /\ status' \in {"running", "crashed"}
         /\ view' \in Views
         /\ answers' \in [Connections -> Nat]
         /\ status' = "running" => conn[x] = "accepted" /\ view' = Told(seen, line)
<1>1. CASE conn[x] = "accepted"
  <2>1. view' = Told(seen, line) /\ answers' = [answers EXCEPT ![x] = @ + 1]
        /\ UNCHANGED status
    BY <1>1 DEF SendResponse, Answered
  <2>2. view' \in Views
    BY <2>1, ToldTyped
  <2>3. answers' \in [Connections -> Nat]
    BY <2>1 DEF Typed
  <2>. QED  BY <1>1, <2>1, <2>2, <2>3
<1>2. CASE conn[x] # "accepted"
  BY <1>2 DEF SendResponse, Typed
<1>. QED  BY <1>1, <1>2

\* What handling a query may change.
Queried(rest) ==
  /\ status' \in {"running", "crashed"}
  /\ pending' \in Seq(Asking(memory'))
  /\ rest # <<>> => pending' # <<>>
  /\ view' \in Views
  /\ answers' \in [Connections -> Nat]
  /\ mistaken' \in BOOLEAN

\* A query is answered or passed on.
LEMMA QueryTyped ==
  ASSUME Typed, status = "running", NEW x \in Connections, NEW item, NEW asked \in Items,
         NEW rest \in Seq(Asking(memory')), NEW values, NEW seen \in Views,
         memory'[x] \in Requests,
         QueryRequestReceivedHandler(x, item, asked, rest, values, seen)
  PROVE  Queried(rest)
<1>1. CASE values[item] = Null
  <2> DEFINE c == [conn |-> x, op |-> "query", asked |-> asked, request |-> memory'[x]]
  <2>1. c \in Contexts /\ c.conn = x
    BY DEF Contexts
  <2>2. /\ pending' = Append(rest, c) /\ view' = seen
        /\ UNCHANGED <<status, answers, mistaken>>
    BY <1>1 DEF QueryRequestReceivedHandler
  <2>. HIDE DEF c
  <2>3. c \in Asking(memory')
    BY <2>1 DEF Asking
  <2>4. pending' \in Seq(Asking(memory')) /\ pending' # <<>>
    BY <2>2, <2>3, AppendProperties
  <2>. QED  BY <2>2, <2>4 DEF Typed, Queried
<1>2. CASE values[item] # Null
  <2>1. /\ pending' = rest
        /\ mistaken' = (mistaken \/ (conn[x] = "accepted" /\ item # asked))
        /\ SendResponse(x, seen, <<item, values[item]>>)
    BY <1>2 DEF QueryRequestReceivedHandler
  <2> DEFINE line == <<item, values[item]>>
  <2>2. SendResponse(x, seen, line)
    BY <2>1
  <2>. HIDE DEF line
  <2>3. /\ status' \in {"running", "crashed"} /\ view' \in Views
        /\ answers' \in [Connections -> Nat]
    BY <2>2, SendTyped
  <2>4. mistaken' \in BOOLEAN
    BY <2>1 DEF Typed
  <2>. QED  BY <2>1, <2>3, <2>4 DEF Queried
<1>. QED  BY <1>1, <1>2

\* Initially nothing was asked or told.
LEMMA InitTyped == Init => Typed
<1> SUFFICES ASSUME Init PROVE Typed
  OBVIOUS
<1>1. server \in [Items -> Values] /\ cache \in {server, [i \in Items |-> Null]}
  BY DEF Init
<1>2. cache \in Models
  BY <1>1 DEF Models
<1>3. [i \in Items |-> Null] \in Models
  BY DEF Models
<1>4. view \in Views
  BY <1>3 DEF Init, Views
<1>5. /\ pending \in Seq(Asking(memory)) /\ toServer \in Seq(Requests)
      /\ toProxy \in Seq(AnyLine) /\ received \in Seq(AnyLine)
  BY EmptySeq DEF Init
<1>6. /\ memory \in [Connections -> Requests \cup {Null}]
      /\ conn \in [Connections -> Statuses]
      /\ asks \in [Connections -> Nat] /\ answers \in [Connections -> Nat]
  BY DEF Init, Statuses
<1>. QED  BY <1>1, <1>2, <1>4, <1>5, <1>6 DEF Init, Typed

\* A request is kept at the head of the buffer of whoever asked.
LEMMA RequestTyped ==
  ASSUME Typed, NEW x \in Connections, NEW r \in Requests, RequestReceived(x, r)
  PROVE  Typed'
<1>1. /\ status = "running"
      /\ asks' = [asks EXCEPT ![x] = @ + 1]
      /\ overlapped' = (overlapped \/ \E i \in DOMAIN pending : pending[i].conn = x)
      /\ memory' = [memory EXCEPT ![x] = r]
      /\ UNCHANGED <<conn, active, received, serverVars, cache, flushed, swallowed>>
  BY DEF RequestReceived
<1>2. /\ memory' \in [Connections -> Requests \cup {Null}] /\ memory'[x] = r
      /\ asks' \in [Connections -> Nat] /\ overlapped' \in BOOLEAN
      /\ r.item \in Items
  BY <1>1 DEF Typed, Requests
<1>3. Asking(memory) \subseteq Asking(memory')
  BY <1>1 DEF Asking, Typed, Contexts
<1>4. pending \in Seq(Asking(memory'))
  BY <1>3, SeqMonotonic DEF Typed
<1>5. Queried(pending)
  <2>1. CASE r.op = "query"
             /\ QueryRequestReceivedHandler(x, r.item, r.item, pending, cache, view)
    <3> DEFINE item == r.item
    <3>1. QueryRequestReceivedHandler(x, item, item, pending, cache, view)
      BY <2>1
    <3>2. item \in Items /\ memory'[x] \in Requests /\ view \in Views
      BY <1>2 DEF Typed
    <3>. HIDE DEF item
    <3>. QED  BY <1>1, <1>4, <3>1, <3>2, QueryTyped
  <2>2. CASE r.op = "set" /\ ProxyMutationCommand(x, r)
    <3> DEFINE c == [conn |-> x, op |-> "set", asked |-> r.item, request |-> r]
    <3>1. c \in Contexts /\ c.conn = x
      BY <1>2 DEF Contexts
    <3>2. pending' = Append(pending, c) /\ UNCHANGED <<status, view, answers, mistaken>>
      BY <2>2 DEF ProxyMutationCommand
    <3>. HIDE DEF c
    <3>3. c \in Asking(memory')
      BY <1>2, <3>1 DEF Asking
    <3>4. pending' \in Seq(Asking(memory')) /\ pending' # <<>>
      BY <1>4, <3>2, <3>3, AppendProperties
    <3>. QED  BY <1>1, <3>2, <3>4 DEF Typed, Queried
  <2>. QED  BY <2>1, <2>2 DEF RequestReceived
<1>. QED  BY <1>1, <1>2, <1>5 DEF Typed, Queried, serverVars

\* What the server sent is a sequence of lines, and one more is another.
LEMMA SentTyped ==
  ASSUME Typed, NEW line \in AnyLine
  PROVE  Append(toProxy, line) \in Seq(AnyLine)
BY AppendProperties DEF Typed

\* The server answers what was passed on, or something changes there.
LEMMA ServerTyped ==
  ASSUME Typed,
         \/ ServerAnswers \/ ServerChangesOther
         \/ \E i \in Items, v \in Values : ServerChanges(i, v)
  PROVE  Typed'
<1>1. CASE ServerAnswers
  <2> DEFINE r == Head(toServer)
  <2>1. toServer \in Seq(Requests) /\ toServer # <<>>
    BY <1>1 DEF ServerAnswers, Typed
  <2>2. r \in Requests /\ Tail(toServer) \in Seq(Requests)
    BY <2>1, HeadTailProperties
  <2>3. r.item \in Items /\ (r.op = "set" => r.value \in Values)
    BY <2>2 DEF Requests
  <2>4. CASE /\ server' = IF r.op = "set" THEN [server EXCEPT ![r.item] = r.value]
                          ELSE server
             /\ toProxy' = Append(toProxy, <<r.item, server'[r.item]>>)
             /\ UNCHANGED disturbances
    <3>1. server' \in [Items -> Values]
      BY <2>3, <2>4 DEF Typed
    <3>2. <<r.item, server'[r.item]>> \in AnyLine
      BY <2>3, <3>1, PairIsLine DEF AnyLine
    <3>3. toProxy' \in Seq(AnyLine)
      BY <2>4, <3>2, SentTyped
    <3>. QED
      BY <1>1, <2>2, <2>4, <3>1, <3>3 DEF ServerAnswers, Typed, clientVars, historyVars
  <2>5. CASE /\ disturbances < MaxDisturbances
             /\ disturbances' = disturbances + 1
             /\ toProxy' = Append(toProxy, Error)
             /\ UNCHANGED server
    <3>1. toProxy' \in Seq(AnyLine)
      BY <2>5, SentTyped DEF AnyLine
    <3>. QED
      BY <1>1, <2>2, <2>5, <3>1 DEF ServerAnswers, Typed, clientVars, historyVars
  <2>. QED  BY <1>1, <2>4, <2>5 DEF ServerAnswers
<1>2. CASE ServerChangesOther
  <2>1. toProxy' \in Seq(AnyLine)
    BY <1>2, SentTyped DEF ServerChangesOther, AnyLine
  <2>. QED  BY <1>2, <2>1 DEF ServerChangesOther, Typed, clientVars, historyVars
<1>3. ASSUME NEW i \in Items, NEW v \in Values, ServerChanges(i, v)
      PROVE  Typed'
  <2>1. <<i, v>> \in AnyLine
    BY PairIsLine DEF AnyLine
  <2>2. toProxy' \in Seq(AnyLine)
    BY <1>3, <2>1, SentTyped DEF ServerChanges
  <2>3. server' \in [Items -> Values]
    BY <1>3 DEF ServerChanges, Typed
  <2>. QED  BY <1>3, <2>2, <2>3 DEF ServerChanges, Typed, clientVars, historyVars
<1>. QED  BY <1>1, <1>2, <1>3

\* A read takes lines off the way, and what comes of it is typed.
LEMMA ReadTyped ==
  ASSUME Typed, NEW n \in 1 .. Len(toProxy),
         \/ ReceiveNotifications(n) \/ ReceiveAwaiting(n)
         \/ ReceiveCompletion(n) \/ ReceiveError(n)
  PROVE  Typed'
<1>1. Reads(n) /\ status = "running"
  BY DEF ReceiveNotifications, ReceiveAwaiting, ReceiveCompletion, ReceiveError, Reads
<1>2. received \in Seq(AnyLine) /\ toProxy \in Seq(AnyLine)
  BY DEF Typed
<1>3. /\ toProxy' \in Seq(AnyLine) /\ Buffered(n) \in Seq(AnyLine)
      /\ Len(Buffered(n)) \in Nat \ {0}
  BY <1>1, <1>2, ReadSplits
<1>4. Heard(cache, Buffered(n)) \in Models /\ view \in Views
  BY <1>3, HeardTyped DEF Typed
<1>5. /\ UNCHANGED <<conn, memory, toServer, server, disturbances, asks, overlapped>>
      /\ Asking(memory') = Asking(memory)
  BY <1>1 DEF Reads, Asking
<1>6. CASE ReceiveNotifications(n)
  <2>1. ToldAll(view, Buffered(n)) \in Views
    BY <1>3, <1>4, ToldAllTyped
  <2>. QED  BY <1>3, <1>4, <1>5, <1>6, <2>1 DEF ReceiveNotifications, Typed
<1>7. CASE ReceiveAwaiting(n)
  BY <1>3, <1>5, <1>7 DEF ReceiveAwaiting, Typed
<1>8. ASSUME active
      PROVE  /\ Head(pending).conn \in Connections /\ Head(pending).asked \in Items
             /\ memory[Head(pending).conn] \in Requests
             /\ Tail(pending) \in Seq(Asking(memory'))
  <2>1. pending \in Seq(Asking(memory)) /\ pending # <<>>
    BY <1>8 DEF Typed
  <2>2. Head(pending) \in Asking(memory) /\ Tail(pending) \in Seq(Asking(memory))
    BY <2>1, HeadTailProperties
  <2>. QED  BY <1>5, <2>2 DEF Asking, Contexts
<1>9. CASE ReceiveCompletion(n)
  <2> DEFINE line == Last(Buffered(n))
             seen == ToldAll(view, Front(Buffered(n)))
             x == Head(pending).conn
             asked == Head(pending).asked
             rest == Tail(pending)
  <2>1. /\ active /\ active' = FALSE /\ received' = <<>> /\ flushed' = flushed
        /\ line \in Lines
        /\ cache' = Heard(cache, Buffered(n))
    BY <1>9 DEF ReceiveCompletion, HasCompletion
  <2>2. \/ /\ ProxyMutationCompleteHandler(x, seen, line)
           /\ UNCHANGED swallowed
        \/ /\ ProxyObservationCompleteHandler(x, asked, cache', seen)
           /\ swallowed' = IF line[1] = memory[x].item THEN swallowed
                           ELSE swallowed \cup {line[1]}
    BY <1>9 DEF ReceiveCompletion
  <2>3. seen \in Views
    <3>1. Front(Buffered(n)) \in Seq(AnyLine)
      BY <1>3, FrontThenLast
    <3>. QED  BY <1>4, <3>1, ToldAllTyped
  <2>4. /\ x \in Connections /\ asked \in Items /\ memory[x] \in Requests
        /\ rest \in Seq(Asking(memory'))
    BY <1>8, <2>1
  <2>5. swallowed' \subseteq Items
    BY <2>1, <2>2, LineTells DEF Typed
  <2>6. received' \in Seq(AnyLine)
    BY <2>1, EmptySeq
  <2>. HIDE DEF line, seen, x, asked, rest
  <2>7. /\ status' \in {"running", "crashed"} /\ pending' \in Seq(Asking(memory'))
        /\ view' \in Views /\ answers' \in [Connections -> Nat] /\ mistaken' \in BOOLEAN
    <3>1. CASE ProxyMutationCompleteHandler(x, seen, line)
      <4>1. /\ SendResponse(x, seen, line) /\ pending' = rest /\ UNCHANGED mistaken
        BY <3>1 DEF ProxyMutationCompleteHandler, rest
      <4>2. /\ status' \in {"running", "crashed"} /\ view' \in Views
            /\ answers' \in [Connections -> Nat]
        BY <1>1, <2>3, <2>4, <4>1, SendTyped
      <4>. QED  BY <2>4, <4>1, <4>2 DEF Typed
    <3>2. CASE ProxyObservationCompleteHandler(x, asked, cache', seen)
      <4>1. CASE conn[x] = "destroyed"
        BY <2>3, <2>4, <3>2, <4>1 DEF ProxyObservationCompleteHandler, Typed, rest
      <4>2. CASE conn[x] # "destroyed"
        <5> DEFINE item == memory[x].item
        <5>1. QueryRequestReceivedHandler(x, item, asked, rest, cache', seen)
          BY <3>2, <4>2 DEF ProxyObservationCompleteHandler, rest
        <5>2. memory'[x] \in Requests
          BY <1>5, <2>4
        <5>. HIDE DEF item
        <5>3. Queried(rest)
          BY <1>1, <2>3, <2>4, <5>1, <5>2, QueryTyped
        <5>. QED  BY <5>3 DEF Queried
      <4>. QED  BY <4>1, <4>2
    <3>. QED  BY <2>2, <3>1, <3>2
  <2>. QED  BY <1>3, <1>4, <1>5, <2>1, <2>5, <2>6, <2>7 DEF Typed
<1>10. CASE ReceiveError(n)
  <2> DEFINE x == Head(pending).conn
  <2>1. /\ active /\ active' = FALSE /\ received' = <<>>
        /\ flushed' = (flushed \/ \E i \in DOMAIN Buffered(n) : Buffered(n)[i] \in Lines)
        /\ SendResponse(x, view, Error)
        /\ pending' = Tail(pending)
        /\ UNCHANGED <<cache, swallowed, mistaken>>
    BY <1>10 DEF ReceiveError
  <2>2. x \in Connections /\ pending' \in Seq(Asking(memory'))
    BY <1>8, <2>1
  <2>. HIDE DEF x
  <2>3. /\ status' \in {"running", "crashed"} /\ view' \in Views
        /\ answers' \in [Connections -> Nat]
    BY <1>1, <1>4, <2>1, <2>2, SendTyped
  <2>4. received' \in Seq(AnyLine) /\ flushed' \in BOOLEAN
    BY <2>1, EmptySeq DEF Typed
  <2>. QED  BY <1>3, <1>5, <2>1, <2>2, <2>3, <2>4 DEF Typed
<1>. QED  BY <1>6, <1>7, <1>9, <1>10

\* Every step keeps the types.
LEMMA NextTyped == Typed /\ [Next]_vars => Typed'
<1> SUFFICES ASSUME Typed, [Next]_vars PROVE Typed'
  OBVIOUS
<1>1. ASSUME NEW x \in Connections, NEW r \in Requests, RequestReceived(x, r)
      PROVE  Typed'
  BY <1>1, RequestTyped
<1>2. ASSUME NEW x \in Connections, ListenerDidAccept(x) \/ ConnectionDidDisconnect(x)
      PROVE  Typed'
  <2>1. conn' \in [Connections -> Statuses]
    BY <1>2 DEF ListenerDidAccept, ConnectionDidDisconnect, Typed, Statuses
  <2>2. /\ UNCHANGED <<status, memory, view, pending, active, received, serverVars, cache>>
        /\ UNCHANGED historyVars
    BY <1>2 DEF ListenerDidAccept, ConnectionDidDisconnect
  <2>3. Asking(memory') = Asking(memory)
    BY <2>2 DEF Asking
  <2>. QED  BY <2>1, <2>2, <2>3 DEF Typed, serverVars, historyVars
<1>3. CASE Stop
  <2>1. /\ status' = "stopped" /\ pending' = <<>> /\ active' = FALSE
        /\ toServer' = <<>> /\ toProxy' = <<>> /\ received' = <<>>
        /\ cache' = [i \in Items |-> Null] /\ view' = [x \in Connections |-> cache']
        /\ conn' = [x \in Connections |-> "none"]
        /\ memory' = [x \in Connections |-> Null]
        /\ UNCHANGED <<server, disturbances, historyVars>>
    BY <1>3 DEF Stop
  <2>2. cache' \in Models
    BY <2>1 DEF Models
  <2>3. view' \in Views
    BY <2>1, <2>2 DEF Views
  <2>4. /\ pending' \in Seq(Asking(memory')) /\ toServer' \in Seq(Requests)
        /\ toProxy' \in Seq(AnyLine) /\ received' \in Seq(AnyLine)
    BY <2>1, EmptySeq
  <2>5. conn' \in [Connections -> Statuses]
        /\ memory' \in [Connections -> Requests \cup {Null}]
    BY <2>1 DEF Statuses
  <2>. QED  BY <2>1, <2>2, <2>3, <2>4, <2>5 DEF Typed, historyVars
<1>4. CASE ServerAnswers \/ ServerChangesOther
           \/ \E i \in Items, v \in Values : ServerChanges(i, v)
  BY <1>4, ServerTyped
<1>5. CASE ServiceCommandQueue
  <2>1. pending \in Seq(Asking(memory)) /\ pending # <<>> /\ toServer \in Seq(Requests)
    BY <1>5 DEF ServiceCommandQueue, Typed
  <2>2. Head(pending).request \in Requests
    BY <2>1, HeadTailProperties DEF Asking, Contexts
  <2>3. toServer' \in Seq(Requests)
    BY <1>5, <2>1, <2>2, AppendProperties DEF ServiceCommandQueue
  <2>4. Asking(memory') = Asking(memory)
    BY <1>5 DEF ServiceCommandQueue, clientVars, Asking
  <2>. QED
    BY <1>5, <2>1, <2>3, <2>4 DEF ServiceCommandQueue, Typed, clientVars, historyVars
<1>6. CASE ConnectionManagerDidReceiveApplicationData
  BY <1>6, ReadTyped DEF ConnectionManagerDidReceiveApplicationData
<1>7. CASE UNCHANGED vars
  <2>1. Asking(memory') = Asking(memory)
    BY <1>7 DEF vars, clientVars, Asking
  <2>. QED  BY <1>7, <2>1 DEF vars, clientVars, serverVars, historyVars, Typed
<1>. QED
  BY <1>1, <1>2, <1>3, <1>4, <1>5, <1>6, <1>7 DEF Next

(* The proxy and its clients keep values of the items or know none, lines  *)
(* and requests are what they look like, and contexts are of connections   *)
(* there are (ProxyContext, ObjectControllerBasis of hlxproxyd).           *)
THEOREM AlwaysTyped == Spec => []TypeOK
BY InitTyped, NextTyped, TypedIsTypeOK, PTL DEF Spec

-----------------------------------------------------------------------------
(***************************************************************************)
(* Clients that ask for one thing at a time.  As long as none asked before *)
(* it was answered, no connection has two contexts, and what a query asked *)
(* for is still at the head of the buffer the context points at.           *)
(***************************************************************************)
Sequential(s, requests) ==
  /\ \A i, j \in 1 .. Len(s) : s[i].conn = s[j].conn => i = j
  /\ \A i \in 1 .. Len(s) : s[i].op = "query" => requests[s[i].conn].item = s[i].asked

InTurn ==
  /\ mistaken => overlapped
  /\ status = "running" /\ ~overlapped => Sequential(pending, memory)

\* The rest of the queue is as it was, and no longer has the connection of the
\* first.
LEMMA TailInTurn ==
  ASSUME NEW s \in Seq(Contexts), s # <<>>, NEW requests, Sequential(s, requests)
  PROVE  /\ Tail(s) \in Seq(Contexts)
         /\ Sequential(Tail(s), requests)
         /\ \A i \in 1 .. Len(Tail(s)) : Tail(s)[i].conn # Head(s).conn
         /\ Head(s).op = "query" => requests[Head(s).conn].item = Head(s).asked
<1> DEFINE t == Tail(s)
<1>1. /\ t \in Seq(Contexts) /\ Len(t) = Len(s) - 1
      /\ \A i \in 1 .. Len(t) : t[i] = s[i + 1]
  BY HeadTailProperties
<1>2. Len(s) \in Nat \ {0} /\ Head(s) = s[1]
  BY EmptySeq
<1>. HIDE DEF t
<1>3. \A i \in 1 .. Len(t) : i + 1 \in 1 .. Len(s) /\ i + 1 # 1
  BY <1>1, <1>2
<1>4. 1 \in 1 .. Len(s)
  BY <1>2
<1>5. ASSUME NEW i \in 1 .. Len(t), NEW j \in 1 .. Len(t), t[i].conn = t[j].conn
      PROVE  i = j
  <2>1. s[i + 1].conn = s[j + 1].conn
    BY <1>1, <1>5
  <2>2. i + 1 = j + 1
    BY <1>3, <2>1 DEF Sequential
  <2>. QED  BY <2>2
<1>6. ASSUME NEW i \in 1 .. Len(t), t[i].op = "query"
      PROVE  requests[t[i].conn].item = t[i].asked
  <2>1. s[i + 1] = t[i]
    BY <1>1
  <2>. QED  BY <1>3, <1>6, <2>1 DEF Sequential
<1>7. ASSUME NEW i \in 1 .. Len(t), t[i].conn = s[1].conn
      PROVE  FALSE
  <2>1. s[i + 1].conn = s[1].conn
    BY <1>1, <1>7
  <2>. QED  BY <1>3, <1>4, <2>1 DEF Sequential
<1>8. s[1].op = "query" => requests[s[1].conn].item = s[1].asked
  BY <1>4 DEF Sequential
<1>. QED  BY <1>1, <1>2, <1>5, <1>6, <1>7, <1>8 DEF Sequential, t

\* One more context, of a connection that has none, for what its buffer holds.
LEMMA AppendInTurn ==
  ASSUME NEW s \in Seq(Contexts), NEW requests, NEW c \in Contexts, NEW asked,
         Sequential(s, asked),
         \A i \in 1 .. Len(s) : s[i].conn # c.conn /\ requests[s[i].conn] = asked[s[i].conn],
         c.op = "query" => requests[c.conn].item = c.asked
  PROVE  Sequential(Append(s, c), requests)
<1> DEFINE a == Append(s, c)
           n == Len(s)
<1>1. /\ n \in Nat /\ Len(a) = n + 1 /\ a[n + 1] = c
      /\ \A i \in 1 .. n : a[i] = s[i]
  BY AppendProperties, LenProperties
<1>. HIDE DEF a
<1>2. \A i \in 1 .. n + 1 : i \in 1 .. n \/ i = n + 1
  BY <1>1
<1>3. ASSUME NEW i \in 1 .. n + 1, NEW j \in 1 .. n + 1, a[i].conn = a[j].conn
      PROVE  i = j
  <2>1. CASE i \in 1 .. n /\ j \in 1 .. n
    BY <1>1, <1>3, <2>1 DEF Sequential
  <2>2. CASE i = n + 1 \/ j = n + 1
    BY <1>1, <1>2, <1>3, <2>2
  <2>. QED  BY <1>2, <2>1, <2>2
<1>4. ASSUME NEW i \in 1 .. n + 1, a[i].op = "query"
      PROVE  requests[a[i].conn].item = a[i].asked
  <2>1. CASE i \in 1 .. n
    <3>1. a[i] = s[i] /\ asked[s[i].conn].item = s[i].asked
      BY <1>1, <1>4, <2>1 DEF Sequential
    <3>. QED  BY <2>1, <3>1
  <2>2. CASE i = n + 1
    BY <1>1, <1>4, <2>2
  <2>. QED  BY <1>2, <2>1, <2>2
<1>5. Len(a) = n + 1
  BY <1>1
<1>6. Sequential(a, requests)
  <2>. HIDE DEF n
  <2>. QED  BY <1>3, <1>4, <1>5 DEF Sequential
<1>. QED  BY <1>6 DEF a

\* What a query of an item that was asked for does, is in turn: it is answered
\* with that item, or queued.
LEMMA QueryInTurn ==
  ASSUME Typed, NEW x \in Connections, NEW item \in Items,
         NEW rest \in Seq(Contexts), NEW values, NEW seen,
         memory'[x] \in Requests, memory'[x].item = item,
         Sequential(rest, memory),
         \A i \in 1 .. Len(rest) : rest[i].conn # x /\ memory'[rest[i].conn] = memory[rest[i].conn],
         QueryRequestReceivedHandler(x, item, item, rest, values, seen)
  PROVE  Sequential(pending', memory') /\ (mistaken' => mistaken)
<1>1. CASE values[item] = Null
  <2> DEFINE c == [conn |-> x, op |-> "query", asked |-> item, request |-> memory'[x]]
  <2>1. /\ c \in Contexts /\ c.conn = x /\ c.asked = item
    BY DEF Contexts
  <2>2. pending' = Append(rest, c) /\ mistaken' = mistaken
    BY <1>1 DEF QueryRequestReceivedHandler
  <2>. HIDE DEF c
  <2>3. /\ \A i \in 1 .. Len(rest) :
             rest[i].conn # c.conn /\ memory'[rest[i].conn] = memory[rest[i].conn]
        /\ c.op = "query" => memory'[c.conn].item = c.asked
    BY <2>1
  <2> DEFINE requests == memory'
  <2>4. /\ \A i \in 1 .. Len(rest) :
             rest[i].conn # c.conn /\ requests[rest[i].conn] = memory[rest[i].conn]
        /\ c.op = "query" => requests[c.conn].item = c.asked
    BY <2>3
  <2>. HIDE DEF requests
  <2>5. Sequential(Append(rest, c), requests)
    BY <2>1, <2>4, AppendInTurn
  <2>. QED  BY <2>2, <2>5 DEF requests
<1>2. CASE values[item] # Null
  <2>1. pending' = rest /\ (mistaken' => mistaken)
    BY <1>2 DEF QueryRequestReceivedHandler
  <2>2. Sequential(rest, memory')
    BY DEF Sequential
  <2>. QED  BY <2>1, <2>2
<1>. QED  BY <1>1, <1>2

\* Contexts of the queue are contexts.
LEMMA QueueTyped ==
  ASSUME Typed
  PROVE  /\ pending \in Seq(Contexts) /\ DOMAIN pending = 1 .. Len(pending)
         /\ active => pending # <<>>
<1>1. Asking(memory) \subseteq Contexts
  BY DEF Asking
<1>. QED  BY <1>1, SeqMonotonic, LenProperties DEF Typed

\* Whoever asks in turn has no context, and its buffer is no other's.
LEMMA RequestInTurn ==
  ASSUME Typed, InTurn, NEW x \in Connections, NEW r \in Requests, RequestReceived(x, r)
  PROVE  InTurn'
<1>1. /\ status = "running"
      /\ overlapped' = (overlapped \/ \E i \in DOMAIN pending : pending[i].conn = x)
      /\ memory' = [memory EXCEPT ![x] = r]
      /\ memory \in [Connections -> Requests \cup {Null}]
  BY DEF RequestReceived, Typed
<1>2. pending \in Seq(Contexts) /\ DOMAIN pending = 1 .. Len(pending)
  BY QueueTyped
<1>3. r.item \in Items
  BY DEF Requests
<1>4. CASE overlapped'
  BY <1>4 DEF InTurn
<1>5. CASE ~overlapped'
  <2>1. ~overlapped /\ Sequential(pending, memory) /\ ~mistaken
    BY <1>1, <1>5 DEF InTurn
  <2>2. \A i \in 1 .. Len(pending) :
          pending[i].conn # x /\ memory'[pending[i].conn] = memory[pending[i].conn]
    <3>1. ASSUME NEW i \in 1 .. Len(pending)
          PROVE  pending[i].conn # x /\ pending[i].conn \in Connections
      <4>1. pending[i] \in Contexts
        BY <1>2, ElementOfSeq
      <4>. QED  BY <1>1, <1>2, <1>5, <4>1 DEF Contexts
    <3>. QED  BY <1>1, <3>1
  <2>3. Sequential(pending', memory') /\ (mistaken' => mistaken)
    <3>1. CASE QueryRequestReceivedHandler(x, r.item, r.item, pending, cache, view)
      <4> DEFINE item == r.item
      <4>1. QueryRequestReceivedHandler(x, item, item, pending, cache, view)
        BY <3>1
      <4>2. item \in Items /\ memory'[x] \in Requests /\ memory'[x].item = item
        BY <1>1, <1>3
      <4>. HIDE DEF item
      <4>. QED  BY <1>2, <2>1, <2>2, <4>1, <4>2, QueryInTurn
    <3>2. CASE r.op = "set" /\ ProxyMutationCommand(x, r)
      <4> DEFINE c == [conn |-> x, op |-> "set", asked |-> r.item, request |-> r]
                 requests == memory'
      <4>1. c \in Contexts /\ c.conn = x /\ c.op # "query"
        BY <1>3 DEF Contexts
      <4>2. pending' = Append(pending, c) /\ mistaken' = mistaken
        BY <3>2 DEF ProxyMutationCommand
      <4>3. \A i \in 1 .. Len(pending) :
              pending[i].conn # x /\ requests[pending[i].conn] = memory[pending[i].conn]
        BY <2>2
      <4>. HIDE DEF c, requests
      <4>4. Sequential(Append(pending, c), requests)
        BY <1>2, <2>1, <4>1, <4>3, AppendInTurn
      <4>. QED  BY <4>2, <4>4 DEF requests
    <3>. QED  BY <3>1, <3>2 DEF RequestReceived
  <2>. QED  BY <2>1, <2>3 DEF InTurn
<1>. QED  BY <1>4, <1>5

\* The query that is handled once more is that of what the context asked for.
LEMMA CompletionInTurn ==
  ASSUME Typed, InTurn, NEW n \in 1 .. Len(toProxy), ReceiveCompletion(n)
  PROVE  InTurn'
<1> DEFINE line == Last(Buffered(n))
           seen == ToldAll(view, Front(Buffered(n)))
           context == Head(pending)
           rest == Tail(pending)
<1>1. /\ status = "running" /\ active /\ memory' = memory /\ overlapped' = overlapped
  BY DEF ReceiveCompletion, Reads
<1>2. pending \in Seq(Contexts) /\ pending # <<>>
  BY <1>1, QueueTyped
<1>3. \/ /\ context.op = "set"
         /\ ProxyMutationCompleteHandler(context.conn, seen, line)
      \/ /\ context.op = "query"
         /\ ProxyObservationCompleteHandler(context.conn, context.asked, cache', seen)
  BY DEF ReceiveCompletion
<1>4. CASE overlapped'
  BY <1>4 DEF InTurn
<1>5. CASE ~overlapped'
  <2>1. ~overlapped /\ Sequential(pending, memory) /\ ~mistaken
    BY <1>1, <1>5 DEF InTurn
  <2>2. /\ rest \in Seq(Contexts) /\ Sequential(rest, memory)
        /\ \A i \in 1 .. Len(rest) : rest[i].conn # context.conn
        /\ context.op = "query" => memory[context.conn].item = context.asked
        /\ context \in Contexts
    BY <1>2, <2>1, TailInTurn, HeadTailProperties
  <2>3. memory[context.conn] \in Requests
    BY <1>2, HeadTailProperties DEF Typed, Asking
  <2> DEFINE x == context.conn
             item == memory[x].item
             asked == context.asked
  <2>4. /\ x \in Connections /\ item \in Items
        /\ memory'[x] \in Requests /\ memory'[x].item = item
        /\ \A i \in 1 .. Len(rest) :
             rest[i].conn # x /\ memory'[rest[i].conn] = memory[rest[i].conn]
    BY <1>1, <2>2, <2>3 DEF Contexts, Requests
  <2>. HIDE DEF line, seen, rest
  <2>5. Sequential(pending', memory') /\ (mistaken' => mistaken)
    <3>1. CASE ProxyMutationCompleteHandler(x, seen, line)
      BY <1>1, <2>2, <3>1 DEF ProxyMutationCompleteHandler, rest
    <3>2. CASE context.op = "query" /\ ProxyObservationCompleteHandler(x, asked, cache', seen)
      <4>1. CASE conn[x] = "destroyed"
        BY <1>1, <2>2, <3>2, <4>1 DEF ProxyObservationCompleteHandler, rest
      <4>2. CASE conn[x] # "destroyed"
        <5>1. QueryRequestReceivedHandler(x, item, asked, rest, cache', seen)
              /\ asked = item
          BY <2>2, <3>2, <4>2 DEF ProxyObservationCompleteHandler, rest
        <5>. HIDE DEF x, item, asked
        <5>2. QueryRequestReceivedHandler(x, item, item, rest, cache', seen)
          BY <5>1
        <5>. QED  BY <2>2, <2>4, <5>2, QueryInTurn
      <4>. QED  BY <4>1, <4>2
    <3>. QED  BY <1>3, <3>1, <3>2
  <2>. QED  BY <2>1, <2>5 DEF InTurn
<1>. QED  BY <1>4, <1>5

\* Every step keeps the turns.
LEMMA NextInTurn == Typed /\ InTurn /\ [Next]_vars => InTurn'
<1> SUFFICES ASSUME Typed, InTurn, [Next]_vars PROVE InTurn'
  OBVIOUS
<1>1. ASSUME NEW x \in Connections, NEW r \in Requests, RequestReceived(x, r)
      PROVE  InTurn'
  BY <1>1, RequestInTurn
<1>2. ASSUME UNCHANGED <<status, memory, pending, overlapped, mistaken>>
      PROVE  InTurn'
  BY <1>2 DEF InTurn, Sequential
<1>3. ASSUME NEW x \in Connections, ListenerDidAccept(x) \/ ConnectionDidDisconnect(x)
      PROVE  InTurn'
  BY <1>2, <1>3 DEF ListenerDidAccept, ConnectionDidDisconnect, historyVars
<1>4. CASE Stop
  BY <1>4 DEF Stop, InTurn, historyVars
<1>5. CASE ServerAnswers \/ ServerChangesOther
           \/ \E i \in Items, v \in Values : ServerChanges(i, v)
  BY <1>2, <1>5 DEF ServerAnswers, ServerChangesOther, ServerChanges, clientVars, historyVars
<1>6. CASE ServiceCommandQueue
  BY <1>2, <1>6 DEF ServiceCommandQueue, clientVars, historyVars
<1>7. ASSUME NEW n \in 1 .. Len(toProxy), ReceiveNotifications(n) \/ ReceiveAwaiting(n)
      PROVE  InTurn'
  BY <1>2, <1>7 DEF ReceiveNotifications, ReceiveAwaiting, Reads
<1>8. ASSUME NEW n \in 1 .. Len(toProxy), ReceiveError(n)
      PROVE  InTurn'
  <2>1. /\ status = "running" /\ active /\ pending' = Tail(pending)
        /\ UNCHANGED <<memory, overlapped, mistaken>>
    BY <1>8 DEF ReceiveError, Reads
  <2>2. CASE overlapped
    BY <2>1, <2>2 DEF InTurn
  <2>3. CASE ~overlapped
    <3>1. pending \in Seq(Contexts) /\ pending # <<>> /\ Sequential(pending, memory)
      BY <2>1, <2>3, QueueTyped DEF InTurn
    <3>2. Sequential(Tail(pending), memory)
      BY <3>1, TailInTurn
    <3>. QED  BY <2>1, <2>3, <3>2 DEF InTurn
  <2>. QED  BY <2>2, <2>3
<1>9. CASE ConnectionManagerDidReceiveApplicationData
  BY <1>7, <1>8, <1>9, CompletionInTurn DEF ConnectionManagerDidReceiveApplicationData
<1>10. CASE UNCHANGED vars
  BY <1>2, <1>10 DEF vars, clientVars, historyVars
<1>. QED
  BY <1>1, <1>3, <1>4, <1>5, <1>6, <1>9, <1>10 DEF Next

(* A client that waits for its answer before it asks again is answered what*)
(* it asked for, however the requests of others come between, connections  *)
(* end and the server refuses (ProxyContext::mRequestBuffer,               *)
(* ObjectControllerBasis::ProxyObservationCompleteHandler).                *)
THEOREM AnsweredInTurn == Spec => []SequentialClientsAreAnswered
<1>1. Init => InTurn
  <2> SUFFICES ASSUME Init PROVE InTurn
    OBVIOUS
  <2>1. pending = <<>> /\ Len(<<>>) = 0 /\ mistaken = FALSE
    BY EmptySeq DEF Init
  <2>2. 1 .. Len(pending) = {}
    BY <2>1
  <2>. QED  BY <2>1, <2>2 DEF InTurn, Sequential
<1>2. InTurn => SequentialClientsAreAnswered
  BY DEF InTurn, SequentialClientsAreAnswered
<1>. QED  BY <1>1, <1>2, InitTyped, NextTyped, NextInTurn, PTL DEF Spec

-----------------------------------------------------------------------------
(***************************************************************************)
(* The models of the proxy follow the server: with the lines that are still*)
(* to be read, in the receive buffer and behind it, they come to what the  *)
(* server has.  Nothing is kept in the buffer but while an exchange is     *)
(* active.                                                                 *)
(***************************************************************************)
ToRead == received \o toProxy

Follows(values) ==
  \A i \in Items : Heard(values, ToRead)[i] \in {Null, server[i]}

Following ==
  status = "running" =>
    /\ ~active => received = <<>>
    /\ ~flushed => Follows(cache)

\* What is to be read are lines, and what is not known is not a value.
LEMMA ToReadTyped ==
  ASSUME Typed
  PROVE  ToRead \in Seq(AnyLine) /\ Null \notin Values
BY ConcatProperties, ProxyAssumption DEF Typed, ToRead

\* One more line on its way is the last of what is to be read.
LEMMA OneMoreToRead ==
  ASSUME Typed, NEW line \in AnyLine, toProxy' = Append(toProxy, line), received' = received
  PROVE  ToRead' = ToRead \o <<line>>
<1>1. received \in Seq(AnyLine) /\ toProxy \in Seq(AnyLine) /\ <<line>> \in Seq(AnyLine)
  BY Singleton DEF Typed
<1>2. Append(toProxy, line) = toProxy \o <<line>>
  BY <1>1, AppendIsConcat
<1>3. (received \o toProxy) \o <<line>> = received \o (toProxy \o <<line>>)
  BY ONLY <1>1, ConcatAssociative
<1>. QED  BY <1>2, <1>3 DEF ToRead

\* What is heard once one more line is to be read.
LEMMA HeardOneMore ==
  ASSUME Typed, NEW line \in AnyLine, toProxy' = Append(toProxy, line), received' = received,
         NEW values \in Models, NEW i \in Items
  PROVE  Heard(values, ToRead')[i]
           = IF line \in Lines /\ line[1] = i THEN line[2] ELSE Heard(values, ToRead)[i]
<1>1. ToRead \in Seq(AnyLine) /\ <<line>> \in Seq(AnyLine)
  BY ToReadTyped, Singleton
<1>2. Heard(values, ToRead) \in Models
  BY <1>1, HeardTyped
<1> DEFINE w == Heard(values, ToRead)
<1>3. Heard(w, <<line>>) = Heard(values, ToRead \o <<line>>)
  BY <1>1, HeardBoth
<1>4. ToRead' = ToRead \o <<line>>
  BY OneMoreToRead
<1>. HIDE DEF w
<1>5. w \in Models
  BY <1>2 DEF w
<1>6. Heard(w, <<line>>)[i]
        = IF line \in Lines /\ line[1] = i THEN line[2] ELSE w[i]
  BY <1>5, HeardOne
<1>. QED  BY <1>3, <1>4, <1>6 DEF w

\* What the server sends when it changes keeps up whoever followed.
LEMMA ServerKeepsUp ==
  ASSUME Typed, NEW values \in Models, NEW i \in Items,
         Heard(values, ToRead)[i] \in {Null, server[i]},
         \/ ServerAnswers \/ ServerChangesOther
         \/ \E k \in Items, v \in Values : ServerChanges(k, v)
  PROVE  Heard(values, ToRead')[i] \in {Null, server'[i]}
<1>1. Heard(values, ToRead)[i] \in {Null, server[i]}
  OBVIOUS
<1>2. ASSUME NEW line \in AnyLine, line \notin Lines,
             toProxy' = Append(toProxy, line), received' = received, server' = server
      PROVE  Heard(values, ToRead')[i] \in {Null, server'[i]}
  BY <1>1, <1>2, HeardOneMore
<1>3. ASSUME NEW k \in Items, NEW v \in Values,
             toProxy' = Append(toProxy, <<k, v>>), received' = received,
             server' = [server EXCEPT ![k] = v]
      PROVE  Heard(values, ToRead')[i] \in {Null, server'[i]}
  <2> DEFINE line == <<k, v>>
  <2>1. line \in AnyLine /\ line \in Lines /\ line[1] = k /\ line[2] = v
    BY PairIsLine DEF AnyLine
  <2>2. toProxy' = Append(toProxy, line)
    BY <1>3
  <2>. HIDE DEF line
  <2>3. Heard(values, ToRead')[i] = IF k = i THEN v ELSE Heard(values, ToRead)[i]
    BY <1>3, <2>1, <2>2, HeardOneMore
  <2>4. server'[i] = IF k = i THEN v ELSE server[i]
    BY <1>3 DEF Typed
  <2>. QED  BY <1>1, <2>3, <2>4
<1>4. CASE ServerAnswers
  <2> DEFINE r == Head(toServer)
  <2>1. r \in Requests
    BY <1>4, HeadTailProperties DEF ServerAnswers, Typed
  <2>2. r.item \in Items /\ (r.op = "set" => r.value \in Values)
    BY <2>1 DEF Requests
  <2>3. CASE /\ server' = IF r.op = "set" THEN [server EXCEPT ![r.item] = r.value]
                          ELSE server
             /\ toProxy' = Append(toProxy, <<r.item, server'[r.item]>>)
    <3> DEFINE k == r.item
               v == server'[r.item]
    <3>1. server' = [server EXCEPT ![k] = v] /\ v \in Values /\ k \in Items
      BY <2>2, <2>3 DEF Typed
    <3>2. toProxy' = Append(toProxy, <<k, v>>) /\ received' = received
      BY <1>4, <2>3 DEF ServerAnswers
    <3>. HIDE DEF k, v
    <3>. QED  BY <1>3, <3>1, <3>2
  <2>4. CASE toProxy' = Append(toProxy, Error) /\ UNCHANGED server
    <3>1. received' = received
      BY <1>4 DEF ServerAnswers
    <3>2. Error \in AnyLine /\ Error \notin Lines
      BY OthersTellNothing DEF AnyLine
    <3>. QED  BY <1>2, <2>4, <3>1, <3>2
  <2>. QED  BY <1>4, <2>3, <2>4 DEF ServerAnswers
<1>5. CASE ServerChangesOther
  <2>1. Other \in AnyLine /\ Other \notin Lines
    BY OthersTellNothing DEF AnyLine
  <2>. QED  BY <1>2, <1>5, <2>1 DEF ServerChangesOther
<1>6. ASSUME NEW k \in Items, NEW v \in Values, ServerChanges(k, v)
      PROVE  Heard(values, ToRead')[i] \in {Null, server'[i]}
  BY <1>3, <1>6 DEF ServerChanges
<1>. QED  BY <1>4, <1>5, <1>6

\* What was in the buffer and what was read, and then what is left on the way,
\* is all there was to read.
LEMMA ReadOn ==
  ASSUME Typed, NEW n \in 1 .. Len(toProxy), Reads(n)
  PROVE  /\ Buffered(n) \in Seq(AnyLine) /\ toProxy' \in Seq(AnyLine)
         /\ Buffered(n) \o toProxy' = ToRead
         /\ received' = Buffered(n) => ToRead' = ToRead
         /\ received' = <<>> => ToRead' = toProxy'
<1>1. received \in Seq(AnyLine) /\ toProxy \in Seq(AnyLine)
  BY DEF Typed
<1>2. /\ Buffered(n) \in Seq(AnyLine) /\ toProxy' \in Seq(AnyLine)
      /\ Buffered(n) \o toProxy' = ToRead
  BY <1>1, ReadSplits DEF ToRead
<1>3. <<>> \o toProxy' = toProxy'
  BY <1>2, ConcatEmptySeq
<1>. QED  BY <1>2, <1>3 DEF ToRead

\* What models hear of what is read, and then of what is left, is what they
\* would have come to.
LEMMA HeardOn ==
  ASSUME Typed, NEW n \in 1 .. Len(toProxy), Reads(n), NEW values \in Models
  PROVE  Heard(Heard(values, Buffered(n)), toProxy') = Heard(values, ToRead)
<1> DEFINE s == Buffered(n)
           rest == toProxy'
<1>1. s \in Seq(AnyLine) /\ rest \in Seq(AnyLine) /\ s \o rest = ToRead
  BY ReadOn
<1>. HIDE DEF s, rest
<1>2. Heard(Heard(values, s), rest) = Heard(values, ToRead)
  BY <1>1, HeardBoth
<1>. QED  BY <1>2 DEF s, rest

\* The models take what is read, whether it ends an exchange or not; what an
\* error line flushes was flushed.
LEMMA ReadKeepsUp ==
  ASSUME Typed, Following, NEW n \in 1 .. Len(toProxy), status' = "running",
         \/ ReceiveNotifications(n) \/ ReceiveAwaiting(n)
         \/ ReceiveCompletion(n) \/ ReceiveError(n)
  PROVE  Following'
<1>1. Reads(n) /\ status = "running" /\ server' = server
  BY DEF ReceiveNotifications, ReceiveAwaiting, ReceiveCompletion, ReceiveError, Reads
<1>2. /\ Buffered(n) \in Seq(AnyLine) /\ toProxy' \in Seq(AnyLine)
      /\ received' = Buffered(n) => ToRead' = ToRead
      /\ received' = <<>> => ToRead' = toProxy'
  BY <1>1, ReadOn
<1>3. cache \in Models
  BY DEF Typed
<1>4. Heard(Heard(cache, Buffered(n)), toProxy') = Heard(cache, ToRead)
  BY <1>1, <1>3, HeardOn
<1>5. /\ ~active => received = <<>>
      /\ ~flushed => \A i \in Items : Heard(cache, ToRead)[i] \in {Null, server[i]}
  BY <1>1 DEF Following, Follows
<1>6. ASSUME received' = <<>>, flushed' = flushed, cache' = Heard(cache, Buffered(n))
      PROVE  Following'
  <2>1. Heard(cache', ToRead') = Heard(cache, ToRead)
    BY <1>2, <1>4, <1>6
  <2>. QED  BY <1>1, <1>5, <1>6, <2>1 DEF Following, Follows
<1>7. CASE ReceiveNotifications(n)
  BY <1>5, <1>6, <1>7 DEF ReceiveNotifications
<1>8. CASE ReceiveAwaiting(n)
  <2>1. /\ ToRead' = ToRead /\ cache' = cache /\ flushed' = flushed
        /\ active' = active /\ active
    BY <1>2, <1>8 DEF ReceiveAwaiting
  <2>. QED  BY <1>1, <1>5, <2>1 DEF Following, Follows
<1>9. CASE ReceiveCompletion(n)
  BY <1>6, <1>9 DEF ReceiveCompletion
<1>10. CASE ReceiveError(n)
  <2>1. /\ received' = <<>> /\ cache' = cache
        /\ flushed' = (flushed \/ \E i \in DOMAIN Buffered(n) : Buffered(n)[i] \in Lines)
    BY <1>10 DEF ReceiveError
  <2>2. CASE flushed'
    BY <2>1, <2>2 DEF Following
  <2>3. CASE ~flushed'
    <3>1. ~flushed /\ \A i \in DOMAIN Buffered(n) : Buffered(n)[i] \notin Lines
      BY <2>1, <2>3
    <3>2. Heard(cache, Buffered(n)) = cache
      BY <1>2, <1>3, <3>1, NothingHeard
    <3>3. Heard(cache', ToRead') = Heard(cache, ToRead)
      BY <1>2, <1>4, <2>1, <3>2
    <3>. QED  BY <1>1, <1>5, <2>1, <3>1, <3>3 DEF Following, Follows
  <2>. QED  BY <2>2, <2>3
<1>. QED  BY <1>7, <1>8, <1>9, <1>10

\* Every step keeps the models of the proxy up with the server.
LEMMA NextFollowing == Typed /\ Following /\ [Next]_vars => Following'
<1> SUFFICES ASSUME Typed, Following, [Next]_vars, status' = "running" PROVE Following'
  BY DEF Following
<1>1. ASSUME UNCHANGED <<status, received, toProxy, server, cache, flushed>>,
             active' = active \/ active'
      PROVE  Following'
  BY <1>1 DEF Following, Follows, ToRead
<1>2. ASSUME NEW x \in Connections, NEW r \in Requests, RequestReceived(x, r)
      PROVE  Following'
  <2>1. /\ UNCHANGED <<received, toProxy, server, cache, flushed, active>>
        /\ status = "running"
    BY <1>2 DEF RequestReceived, serverVars
  <2>. QED  BY <1>1, <2>1
<1>3. ASSUME NEW x \in Connections, ListenerDidAccept(x) \/ ConnectionDidDisconnect(x)
      PROVE  Following'
  BY <1>1, <1>3 DEF ListenerDidAccept, ConnectionDidDisconnect, serverVars, historyVars
<1>4. CASE Stop
  BY <1>4 DEF Stop
<1>5. CASE ServerAnswers \/ ServerChangesOther
           \/ \E i \in Items, v \in Values : ServerChanges(i, v)
  <2>1. UNCHANGED <<status, active, received, cache, flushed>>
    BY <1>5 DEF ServerAnswers, ServerChangesOther, ServerChanges, historyVars
  <2>2. ASSUME Follows(cache), NEW i \in Items
        PROVE  Heard(cache, ToRead')[i] \in {Null, server'[i]}
    BY <1>5, <2>2, ServerKeepsUp DEF Typed, Follows
  <2>. QED  BY <2>1, <2>2 DEF Following, Follows
<1>6. CASE ServiceCommandQueue
  BY <1>1, <1>6 DEF ServiceCommandQueue, historyVars
<1>7. CASE ConnectionManagerDidReceiveApplicationData
  BY <1>7, ReadKeepsUp DEF ConnectionManagerDidReceiveApplicationData
<1>8. CASE UNCHANGED vars
  BY <1>1, <1>8 DEF vars, serverVars, historyVars
<1>. QED
  BY <1>2, <1>3, <1>4, <1>5, <1>6, <1>7, <1>8 DEF Next

\* Initially the proxy knows what the server has, or nothing.
LEMMA InitFollowing == Init => Following
<1> SUFFICES ASSUME Init PROVE Following
  OBVIOUS
<1>1. received = <<>> /\ toProxy = <<>> /\ cache \in {server, [i \in Items |-> Null]}
  BY DEF Init
<1>2. ToRead = <<>>
  BY <1>1, EmptySeq, ConcatEmptySeq DEF ToRead
<1>3. \A i \in Items : About(<<>>, i) = {}
  BY EmptySeq DEF About
<1>4. \A i \in Items : Heard(cache, ToRead)[i] = cache[i]
  BY <1>2, <1>3, HeardNothing
<1>. QED  BY <1>1, <1>4 DEF Following, Follows

(* Whatever passes through the proxy and whenever it is read, with what is *)
(* still to be read its models come to what the server has, unless an error*)
(* line flushed some of it (ObjectControllerBasis::ProxyNotification,      *)
(* CommandManager::ConnectionManagerDidReceiveApplicationData).            *)
THEOREM CacheFollows == Spec => []CacheFollowsServer
<1>1. Following => CacheFollowsServer
  BY DEF Following, Follows, ToRead, CacheFollowsServer
<1>. QED  BY <1>1, InitTyped, NextTyped, InitFollowing, NextFollowing, PTL DEF Spec

-----------------------------------------------------------------------------
(***************************************************************************)
(* The clients follow the server, but for items of which a line was kept   *)
(* from them.  Whoever is accepted was told nothing before; whoever is     *)
(* answered from the models follows as they do.                            *)
(***************************************************************************)
FollowsBut(values, items) ==
  \A i \in Items \ items : Heard(values, ToRead)[i] \in {Null, server[i]}

ClientsFollowing ==
  status = "running" =>
    /\ \A x \in Connections : conn[x] = "none" => view[x] = [i \in Items |-> Null]
    /\ ~flushed => \A x \in Connections :
                     conn[x] = "accepted" => FollowsBut(view[x], swallowed)

\* What clients are told with a line.
ToldOf(seen, line) ==
  \A y \in Connections :
    IF conn[y] = "accepted"
    THEN \A i \in Items :
           view'[y][i] = IF line \in Lines /\ line[1] = i THEN line[2] ELSE seen[y][i]
    ELSE view'[y] = seen[y]

\* An answer that does not end the process is told to all.
LEMMA SendTells ==
  ASSUME Typed, NEW x \in Connections, NEW seen \in Views, NEW line,
         SendResponse(x, seen, line), status = "running", status' = "running"
  PROVE  ToldOf(seen, line)
<1>1. view' = Told(seen, line)
  BY SendTyped
<1>2. \A y \in Connections : seen[y] \in [Items -> Values \cup {Null}]
  BY DEF Views, Models
<1>3. ASSUME NEW y \in Connections, conn[y] = "accepted", NEW i \in Items
      PROVE  view'[y][i] = IF line \in Lines /\ line[1] = i THEN line[2] ELSE seen[y][i]
  BY <1>1, <1>2, <1>3 DEF Told
<1>4. ASSUME NEW y \in Connections, conn[y] # "accepted"
      PROVE  view'[y] = seen[y]
  BY <1>1, <1>4 DEF Told
<1>. QED  BY <1>3, <1>4 DEF ToldOf

\* What handling a query tells clients: of the item, if it is known.
QueryTold(seen, item, values) ==
  \A y \in Connections :
    IF conn[y] = "accepted"
    THEN \A i \in Items :
           view'[y][i] = IF i = item /\ values[item] # Null THEN values[item] ELSE seen[y][i]
    ELSE view'[y] = seen[y]

\* From what is known.
LEMMA QueryTells ==
  ASSUME Typed, status = "running", status' = "running", NEW x \in Connections,
         NEW item \in Items, NEW asked, NEW rest, NEW values \in Models, NEW seen \in Views,
         QueryRequestReceivedHandler(x, item, asked, rest, values, seen)
  PROVE  QueryTold(seen, item, values)
<1>1. CASE values[item] = Null
  BY <1>1 DEF QueryRequestReceivedHandler, QueryTold
<1>2. CASE values[item] # Null
  <2> DEFINE line == <<item, values[item]>>
  <2>1. SendResponse(x, seen, line)
    BY <1>2 DEF QueryRequestReceivedHandler
  <2>2. values[item] \in Values
    BY <1>2 DEF Models
  <2>3. line \in Lines /\ line[1] = item /\ line[2] = values[item]
    BY <2>2, PairIsLine
  <2>. HIDE DEF line
  <2>4. ToldOf(seen, line)
    BY <2>1, SendTells
  <2>. QED  BY <1>2, <2>3, <2>4 DEF ToldOf, QueryTold
<1>. QED  BY <1>1, <1>2

\* A request is answered with what the proxy knows, or tells nothing yet.
LEMMA RequestFollows ==
  ASSUME Typed, Following, ClientsFollowing, NEW x \in Connections, NEW r \in Requests,
         RequestReceived(x, r), status' = "running"
  PROVE  ClientsFollowing'
<1>1. /\ status = "running"
      /\ UNCHANGED <<conn, received, toProxy, server, cache, flushed, swallowed>>
  BY DEF RequestReceived, serverVars
<1>2. r.item \in Items /\ cache \in Models /\ view \in Views
  BY DEF Requests, Typed
<1>3. QueryTold(view, r.item, cache) \/ view' = view
  <2>1. CASE QueryRequestReceivedHandler(x, r.item, r.item, pending, cache, view)
    <3> DEFINE item == r.item
    <3>1. QueryRequestReceivedHandler(x, item, item, pending, cache, view) /\ item \in Items
      BY <1>2, <2>1
    <3>. HIDE DEF item
    <3>2. QueryTold(view, item, cache)
      BY <1>1, <1>2, <3>1, QueryTells
    <3>. QED  BY <3>2 DEF item
  <2>2. CASE ProxyMutationCommand(x, r)
    BY <2>2 DEF ProxyMutationCommand
  <2>. QED  BY <2>1, <2>2 DEF RequestReceived
<1>4. ToRead' = ToRead
  BY <1>1 DEF ToRead
<1>5. ASSUME NEW y \in Connections, conn[y] = "none"
      PROVE  view'[y] = [i \in Items |-> Null]
  BY <1>1, <1>3, <1>5 DEF QueryTold, ClientsFollowing
<1>6. ASSUME NEW y \in Connections, conn[y] = "accepted", ~flushed,
             NEW i \in Items \ swallowed
      PROVE  Heard(view'[y], ToRead)[i] \in {Null, server[i]}
  <2>1. /\ Heard(view[y], ToRead)[i] \in {Null, server[i]}
        /\ Heard(cache, ToRead)[i] \in {Null, server[i]}
    BY <1>1, <1>6 DEF ClientsFollowing, FollowsBut, Following, Follows
  <2>2. view'[y][i] = view[y][i] \/ view'[y][i] = cache[i]
    BY <1>3, <1>6 DEF QueryTold
  <2>. QED  BY <2>1, <2>2, HeardOfItem
<1>. QED  BY <1>1, <1>4, <1>5, <1>6 DEF ClientsFollowing, FollowsBut

\* Whoever is accepted knows nothing yet.
LEMMA ConnectionsFollow ==
  ASSUME Typed, Following, ClientsFollowing, NEW x \in Connections,
         ListenerDidAccept(x) \/ ConnectionDidDisconnect(x)
  PROVE  ClientsFollowing'
<1>1. /\ status = "running"
      /\ UNCHANGED <<status, view, received, toProxy, server, cache, flushed, swallowed>>
  BY DEF ListenerDidAccept, ConnectionDidDisconnect, serverVars, historyVars
<1>2. \A y \in Connections :
        /\ conn'[y] = "none" => conn[y] = "none"
        /\ conn'[y] = "accepted" => conn[y] \in {"none", "accepted"}
  BY DEF ListenerDidAccept, ConnectionDidDisconnect, Typed
<1>3. ToRead' = ToRead
  BY <1>1 DEF ToRead
<1>4. ASSUME NEW y \in Connections, conn[y] \in {"none", "accepted"}, ~flushed,
             NEW i \in Items \ swallowed
      PROVE  Heard(view[y], ToRead)[i] \in {Null, server[i]}
  <2>1. CASE conn[y] = "accepted"
    BY <1>1, <1>4, <2>1 DEF ClientsFollowing, FollowsBut
  <2>2. CASE conn[y] = "none"
    <3>1. view[y][i] = Null /\ Heard(cache, ToRead)[i] \in {Null, server[i]}
      BY <1>1, <1>4, <2>2 DEF ClientsFollowing, Following, Follows
    <3> DEFINE v == server[i]
    <3>2. Heard(cache, ToRead)[i] \in {Null, v}
      BY <3>1
    <3>. HIDE DEF v
    <3>3. Heard(view[y], ToRead)[i] \in {Null, v}
      BY <3>1, <3>2, HeardUnknown
    <3>. QED  BY <3>3 DEF v
  <2>. QED  BY <1>4, <2>1, <2>2
<1>. QED  BY <1>1, <1>2, <1>3, <1>4 DEF ClientsFollowing, FollowsBut

\* The last line of the buffer is told last.
LEMMA LastTold ==
  ASSUME Typed, NEW n \in 1 .. Len(toProxy), Reads(n), NEW values \in Models, NEW i \in Items
  PROVE  Heard(values, Buffered(n))[i]
           = IF Last(Buffered(n)) \in Lines /\ Last(Buffered(n))[1] = i
             THEN Last(Buffered(n))[2]
             ELSE Heard(values, Front(Buffered(n)))[i]
<1> DEFINE s == Buffered(n)
           f == Front(s)
           line == Last(s)
<1>1. s \in Seq(AnyLine) /\ Len(s) # 0
  BY ReadSplits DEF Typed
<1>2. f \in Seq(AnyLine) /\ line \in AnyLine /\ <<line>> \in Seq(AnyLine) /\ f \o <<line>> = s
  <2>. HIDE DEF s
  <2>. QED  BY <1>1, FrontThenLast
<1>. HIDE DEF s, f, line
<1>3. Heard(Heard(values, f), <<line>>) = Heard(values, s)
  BY <1>2, HeardBoth
<1> DEFINE w == Heard(values, f)
<1>4. w \in Models
  BY <1>2, HeardTyped
<1>. HIDE DEF w
<1>5. Heard(w, <<line>>)[i] = IF line \in Lines /\ line[1] = i THEN line[2] ELSE w[i]
  BY <1>2, <1>4, HeardOne
<1>. QED  BY <1>3, <1>5 DEF w, s, f, line

\* Whoever came to what the server has by what was read, and hears the rest.
LEMMA CaughtUp ==
  ASSUME Typed, NEW n \in 1 .. Len(toProxy), Reads(n), NEW values \in Models,
         NEW i \in Items, Heard(values, ToRead)[i] \in {Null, server[i]},
         NEW other, other[i] = Heard(values, Buffered(n))[i]
  PROVE  Heard(other, toProxy')[i] \in {Null, server[i]}
<1> DEFINE w == Heard(values, Buffered(n))
           rest == toProxy'
<1>1. Heard(w, rest) = Heard(values, ToRead)
  BY HeardOn
<1>2. other[i] = w[i]
  OBVIOUS
<1>. HIDE DEF w, rest
<1>3. Heard(other, rest)[i] = Heard(w, rest)[i]
  BY <1>2, HeardOfItem
<1>. QED  BY <1>1, <1>3 DEF rest

\* The answer to a change is told to all; a query that completes is told, after
\* what came before the line that completed it, what the models have.
LEMMA CompletionFollows ==
  ASSUME Typed, Following, ClientsFollowing, NEW n \in 1 .. Len(toProxy),
         ReceiveCompletion(n), status' = "running"
  PROVE  ClientsFollowing'
<1> DEFINE line == Last(Buffered(n))
           seen == ToldAll(view, Front(Buffered(n)))
           x == Head(pending).conn
           asked == Head(pending).asked
           item == memory[x].item
           rest == Tail(pending)
<1>1. /\ Reads(n) /\ status = "running" /\ received' = <<>> /\ flushed' = flushed
      /\ UNCHANGED <<conn, memory, server>>
      /\ cache' = Heard(cache, Buffered(n))
      /\ line \in Lines
  BY DEF ReceiveCompletion, Reads, HasCompletion
<1>2. \/ /\ SendResponse(x, seen, line)
         /\ swallowed' = swallowed
      \/ /\ conn[x] # "destroyed"
         /\ QueryRequestReceivedHandler(x, item, asked, rest, cache', seen)
         /\ swallowed' = IF line[1] = item THEN swallowed ELSE swallowed \cup {line[1]}
  BY <1>1 DEF ReceiveCompletion, ProxyMutationCompleteHandler,
              ProxyObservationCompleteHandler
<1>3. /\ Buffered(n) \in Seq(AnyLine) /\ Len(Buffered(n)) # 0
      /\ Front(Buffered(n)) \in Seq(AnyLine)
      /\ ToRead' = toProxy'
  <2>1. /\ Buffered(n) \in Seq(AnyLine) /\ Len(Buffered(n)) # 0
    BY <1>1, ReadSplits DEF Typed
  <2>. QED  BY <1>1, <2>1, ReadOn, FrontThenLast
<1>4. seen \in Views /\ cache \in Models /\ \A y \in Connections : view[y] \in Models
  BY <1>3, ToldAllTyped DEF Typed, Views
<1>5. x \in Connections /\ asked \in Items /\ item \in Items
  <2>1. Head(pending) \in Asking(memory)
    BY HeadTailProperties DEF ReceiveCompletion, Typed
  <2>. QED  BY <2>1 DEF Asking, Contexts, Requests
<1>6. \A y \in Connections :
        /\ conn[y] = "accepted" => seen[y] = Heard(view[y], Front(Buffered(n)))
        /\ conn[y] # "accepted" => seen[y] = view[y]
  BY DEF ToldAll
<1>7. cache' \in Models
  BY <1>1, <1>3, <1>4, HeardTyped
<1>. HIDE DEF line, seen, x, asked, item, rest
<1>8. ASSUME NEW y \in Connections, NEW i \in Items
      PROVE  /\ Heard(view[y], Buffered(n))[i]
                  = IF line[1] = i THEN line[2]
                    ELSE Heard(view[y], Front(Buffered(n)))[i]
             /\ line[1] = i => cache'[i] = line[2]
  <2>1. view[y] \in Models
    BY <1>4
  <2>. QED  BY <1>1, <1>4, <2>1, LastTold DEF line
<1>9. line[2] \in Values /\ Null \notin Values
  BY <1>1, LineTells, ProxyAssumption
<1>10. \/ ToldOf(seen, line) /\ swallowed' = swallowed
       \/ /\ QueryTold(seen, item, cache')
          /\ swallowed' = IF line[1] = item THEN swallowed ELSE swallowed \cup {line[1]}
  <2>1. CASE SendResponse(x, seen, line) /\ swallowed' = swallowed
    BY <1>1, <1>4, <1>5, <2>1, SendTells
  <2>2. CASE /\ QueryRequestReceivedHandler(x, item, asked, rest, cache', seen)
             /\ swallowed' = IF line[1] = item THEN swallowed ELSE swallowed \cup {line[1]}
    <3> DEFINE values == cache'
    <3>1. QueryRequestReceivedHandler(x, item, asked, rest, values, seen) /\ values \in Models
      BY <1>7, <2>2
    <3>. HIDE DEF values
    <3>2. QueryTold(seen, item, values)
      BY <1>1, <1>4, <1>5, <3>1, QueryTells
    <3>. QED  BY <2>2, <3>2 DEF values
  <2>. QED  BY <1>2, <2>1, <2>2
<1>11. ASSUME NEW y \in Connections, conn[y] = "none"
       PROVE  view'[y] = [i \in Items |-> Null]
  BY <1>1, <1>6, <1>10, <1>11 DEF ToldOf, QueryTold, ClientsFollowing
<1>12. ASSUME NEW y \in Connections, conn[y] = "accepted", NEW i \in Items \ swallowed'
       PROVE  \/ view'[y][i] = Heard(view[y], Buffered(n))[i]
              \/ view'[y][i] = cache'[i]
  <2>1. CASE ToldOf(seen, line)
    BY <1>1, <1>6, <1>8, <1>12, <2>1 DEF ToldOf
  <2>2. CASE /\ QueryTold(seen, item, cache')
             /\ swallowed' = IF line[1] = item THEN swallowed ELSE swallowed \cup {line[1]}
    <3>1. view'[y][i] = IF i = item /\ cache'[item] # Null THEN cache'[item] ELSE seen[y][i]
      BY <1>12, <2>2 DEF QueryTold
    <3>2. CASE line[1] = i
      <4>1. i = item
        BY <1>12, <2>2, <3>2
      <4>2. cache'[i] # Null
        BY <1>8, <1>9, <3>2
      <4>. QED  BY <3>1, <4>1, <4>2
    <3>3. CASE line[1] # i
      BY <1>6, <1>8, <1>12, <3>1, <3>3
    <3>. QED  BY <3>2, <3>3
  <2>. QED  BY <1>10, <2>1, <2>2
<1>13. ASSUME NEW y \in Connections, conn[y] = "accepted", ~flushed,
              NEW i \in Items \ swallowed'
       PROVE  Heard(view'[y], toProxy')[i] \in {Null, server[i]}
  <2>1. i \in Items \ swallowed
    BY <1>10, <1>13
  <2>2. /\ Heard(view[y], ToRead)[i] \in {Null, server[i]}
        /\ Heard(cache, ToRead)[i] \in {Null, server[i]}
    BY <1>1, <1>13, <2>1 DEF ClientsFollowing, FollowsBut, Following, Follows
  <2> DEFINE new == view'[y]
  <2>3. new[i] = Heard(view[y], Buffered(n))[i] \/ new[i] = Heard(cache, Buffered(n))[i]
    BY <1>1, <1>12, <1>13
  <2>4. i \in Items /\ view[y] \in Models
    BY <1>4
  <2>. HIDE DEF new
  <2>5. CASE new[i] = Heard(view[y], Buffered(n))[i]
    <3>1. Heard(new, toProxy')[i] \in {Null, server[i]}
      BY <1>1, <2>2, <2>4, <2>5, CaughtUp
    <3>. QED  BY <3>1 DEF new
  <2>6. CASE new[i] = Heard(cache, Buffered(n))[i]
    <3>1. Heard(new, toProxy')[i] \in {Null, server[i]}
      BY <1>1, <1>4, <2>2, <2>4, <2>6, CaughtUp
    <3>. QED  BY <3>1 DEF new
  <2>. QED  BY <2>3, <2>5, <2>6
<1>. QED  BY <1>1, <1>3, <1>11, <1>13 DEF ClientsFollowing, FollowsBut

\* Notifications are told to all; an error line tells nothing.
LEMMA ReadFollows ==
  ASSUME Typed, Following, ClientsFollowing, NEW n \in 1 .. Len(toProxy),
         status' = "running",
         ReceiveNotifications(n) \/ ReceiveAwaiting(n) \/ ReceiveError(n)
  PROVE  ClientsFollowing'
<1>1. /\ Reads(n) /\ status = "running" /\ swallowed' = swallowed
      /\ UNCHANGED <<conn, server>>
  BY DEF ReceiveNotifications, ReceiveAwaiting, ReceiveError, Reads
<1>2. /\ Buffered(n) \in Seq(AnyLine)
      /\ received' = Buffered(n) => ToRead' = ToRead
      /\ received' = <<>> => ToRead' = toProxy'
  BY <1>1, ReadOn
<1>3. \A y \in Connections : view[y] \in Models
  BY DEF Typed, Views
<1>4. \A y \in Connections :
        Heard(Heard(view[y], Buffered(n)), toProxy') = Heard(view[y], ToRead)
  BY <1>1, <1>3, HeardOn
<1>5. /\ ~active => received = <<>>
      /\ \A y \in Connections : conn[y] = "none" => view[y] = [i \in Items |-> Null]
      /\ ~flushed => \A y \in Connections :
                       conn[y] = "accepted" => FollowsBut(view[y], swallowed)
  BY <1>1 DEF Following, ClientsFollowing
<1>6. CASE ReceiveNotifications(n)
  <2>1. /\ view' = ToldAll(view, Buffered(n)) /\ flushed' = flushed
        /\ received' = <<>>
    BY <1>5, <1>6 DEF ReceiveNotifications
  <2>2. \A y \in Connections :
          view'[y] = IF conn[y] = "accepted" THEN Heard(view[y], Buffered(n)) ELSE view[y]
    BY <2>1 DEF ToldAll
  <2>3. \A y \in Connections :
          conn[y] = "accepted" => Heard(view'[y], ToRead') = Heard(view[y], ToRead)
    BY <1>2, <1>4, <2>1, <2>2
  <2>. QED  BY <1>1, <1>5, <2>1, <2>2, <2>3 DEF ClientsFollowing, FollowsBut
<1>7. CASE ReceiveAwaiting(n)
  <2>1. view' = view /\ flushed' = flushed /\ ToRead' = ToRead
    BY <1>2, <1>7 DEF ReceiveAwaiting
  <2>. QED  BY <1>1, <1>5, <2>1 DEF ClientsFollowing, FollowsBut
<1>8. CASE ReceiveError(n)
  <2>1. /\ received' = <<>> /\ active
        /\ flushed' = (flushed \/ \E i \in DOMAIN Buffered(n) : Buffered(n)[i] \in Lines)
        /\ SendResponse(Head(pending).conn, view, Error)
    BY <1>8 DEF ReceiveError
  <2>2. view' = view
    <3> DEFINE x == Head(pending).conn
    <3>1. Head(pending) \in Asking(memory)
      BY <2>1, HeadTailProperties DEF Typed
    <3>2. x \in Connections /\ SendResponse(x, view, Error) /\ view \in Views
      BY <2>1, <3>1 DEF Asking, Contexts, Typed
    <3>. HIDE DEF x
    <3>3. view' = Told(view, Error)
      BY <1>1, <3>2, SendTyped
    <3>4. Told(view, Error) = [y \in Connections |-> view[y]]
      BY OthersTellNothing DEF Told
    <3>. QED  BY <3>2, <3>3, <3>4 DEF Views
  <2>3. CASE flushed'
    BY <1>1, <1>5, <2>2, <2>3 DEF ClientsFollowing
  <2>4. CASE ~flushed'
    <3>1. ~flushed /\ \A i \in DOMAIN Buffered(n) : Buffered(n)[i] \notin Lines
      BY <2>1, <2>4
    <3>2. \A y \in Connections : Heard(view[y], Buffered(n)) = view[y]
      BY <1>2, <1>3, <3>1, NothingHeard
    <3>3. \A y \in Connections : Heard(view'[y], ToRead') = Heard(view[y], ToRead)
      BY <1>2, <1>4, <2>1, <2>2, <3>2
    <3>. QED  BY <1>1, <1>5, <2>2, <3>1, <3>3 DEF ClientsFollowing, FollowsBut
  <2>. QED  BY <2>3, <2>4
<1>. QED  BY <1>6, <1>7, <1>8

\* Every step keeps the clients up with the server.
LEMMA NextClients == Typed /\ Following /\ ClientsFollowing /\ [Next]_vars => ClientsFollowing'
<1> SUFFICES ASSUME Typed, Following, ClientsFollowing, [Next]_vars, status' = "running"
             PROVE  ClientsFollowing'
  BY DEF ClientsFollowing
<1>1. ASSUME UNCHANGED <<status, conn, view, received, toProxy, server, flushed, swallowed>>
      PROVE  ClientsFollowing'
  BY <1>1 DEF ClientsFollowing, FollowsBut, ToRead
<1>2. ASSUME NEW x \in Connections, NEW r \in Requests, RequestReceived(x, r)
      PROVE  ClientsFollowing'
  BY <1>2, RequestFollows
<1>3. ASSUME NEW x \in Connections, ListenerDidAccept(x) \/ ConnectionDidDisconnect(x)
      PROVE  ClientsFollowing'
  BY <1>3, ConnectionsFollow
<1>4. CASE Stop
  BY <1>4 DEF Stop
<1>5. CASE ServerAnswers \/ ServerChangesOther
           \/ \E i \in Items, v \in Values : ServerChanges(i, v)
  <2>1. UNCHANGED <<status, conn, view, received, flushed, swallowed>>
    BY <1>5 DEF ServerAnswers, ServerChangesOther, ServerChanges, clientVars, historyVars
  <2>2. ASSUME NEW x \in Connections, FollowsBut(view[x], swallowed),
               NEW i \in Items \ swallowed
        PROVE  Heard(view[x], ToRead')[i] \in {Null, server'[i]}
    BY <1>5, <2>2, ServerKeepsUp DEF Typed, Views, FollowsBut
  <2>. QED  BY <2>1, <2>2 DEF ClientsFollowing, FollowsBut
<1>6. CASE ServiceCommandQueue
  BY <1>1, <1>6 DEF ServiceCommandQueue, clientVars, historyVars
<1>7. CASE ConnectionManagerDidReceiveApplicationData
  BY <1>7, ReadFollows, CompletionFollows DEF ConnectionManagerDidReceiveApplicationData
<1>8. CASE UNCHANGED vars
  BY <1>1, <1>8 DEF vars, clientVars, serverVars, historyVars
<1>. QED
  BY <1>2, <1>3, <1>4, <1>5, <1>6, <1>7, <1>8 DEF Next

(* Connected clients follow as well, whoever asked and whenever they were  *)
(* accepted, but for items of which a line that ended an observation of    *)
(* another was kept from them                                              *)
(* (ObjectControllerBasis::ProxyObservationCompleteHandler,                *)
(* ConnectionManager::SendResponse).                                       *)
THEOREM ClientsFollow == Spec => []ClientsFollowServer
<1>1. Init => ClientsFollowing
  BY DEF Init, ClientsFollowing
<1>2. ClientsFollowing => ClientsFollowServer
  <2>1. ASSUME NEW x \in Connections, conn[x] = "accepted", NEW i \in Items
        PROVE  ToldAll(view, ToRead)[x][i] = Heard(view[x], ToRead)[i]
    BY <2>1 DEF ToldAll
  <2>. QED  BY <2>1 DEF ClientsFollowing, FollowsBut, ToRead, ClientsFollowServer
<1>. QED
  BY <1>1, <1>2, InitTyped, NextTyped, InitFollowing, NextFollowing, NextClients, PTL DEF Spec

=============================================================================

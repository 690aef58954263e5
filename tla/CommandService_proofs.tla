------------------------ MODULE CommandService_proofs ------------------------
(***************************************************************************)
(* What the order of CommandService implies, for every instance of it.     *)
(***************************************************************************)
EXTENDS CommandService, SequenceTheorems, TLAPS

\* Types of the three variables.
ServiceTypeOK ==
  /\ submitted \subseteq Commands
  /\ pending \in [Clients -> Seq(Commands)]
  /\ calls \in [Commands -> Seq(Results)]

(* A pending command belongs to the client, was submitted, occurs once and *)
(* has not been answered; no other command has been answered twice.        *)
PendingOK ==
  \A k \in Clients : \A i \in 1 .. Len(pending[k]) :
    /\ Owner[pending[k][i]] = k
    /\ pending[k][i] \in submitted
    /\ calls[pending[k][i]] = <<>>
    /\ \A j \in 1 .. Len(pending[k]) : pending[k][i] = pending[k][j] => i = j

FreshOK == \A c \in Commands \ submitted : calls[c] = <<>>

CalledOnce == \A c \in Commands : Len(calls[c]) <= 1

Inv == ServiceTypeOK /\ PendingOK /\ FreshOK /\ CalledOnce

LEMMA ServiceInit == Init => Inv
BY DEF Init, Inv, ServiceTypeOK, PendingOK, FreshOK, CalledOnce

LEMMA ServiceNext == Inv /\ [Next]_vars => Inv'
<1> SUFFICES ASSUME Inv, [Next]_vars PROVE Inv'
  OBVIOUS
<1>u. CASE UNCHANGED vars
  BY <1>u DEF vars, Inv, ServiceTypeOK, PendingOK, FreshOK, CalledOnce
<1>t. \A k \in Clients : pending[k] \in Seq(Commands) /\ Len(pending[k]) \in Nat
  BY LenProperties DEF Inv, ServiceTypeOK
<1>1. ASSUME NEW k \in Clients, NEW c \in Commands, Submit(k, c) PROVE Inv'
  <2>1. /\ Append(pending[k], c) \in Seq(Commands)
        /\ Len(Append(pending[k], c)) = Len(pending[k]) + 1
        /\ \A i \in 1 .. Len(pending[k]) : Append(pending[k], c)[i] = pending[k][i]
        /\ Append(pending[k], c)[Len(pending[k]) + 1] = c
    BY <1>t, AppendProperties
  <2>2. ServiceTypeOK'
    BY <1>1, <2>1 DEF Submit, Inv, ServiceTypeOK
  <2>3. \A i \in 1 .. Len(pending[k]) : pending[k][i] # c
    BY <1>1 DEF Submit, Inv, PendingOK
  <2>4. calls[c] = <<>> /\ calls' = calls /\ submitted' = submitted \cup {c} /\ Owner[c] = k
    BY <1>1 DEF Submit, Inv, FreshOK
  <2>5. PendingOK'
    <3> SUFFICES ASSUME NEW l \in Clients, NEW i \in 1 .. Len(pending'[l])
                 PROVE  /\ Owner[pending'[l][i]] = l
                        /\ pending'[l][i] \in submitted'
                        /\ calls'[pending'[l][i]] = <<>>
                        /\ \A j \in 1 .. Len(pending'[l]) :
                             pending'[l][i] = pending'[l][j] => i = j
      BY DEF PendingOK
    <3>1. CASE l # k
      <4>1. pending'[l] = pending[l]
        BY <1>1, <3>1 DEF Submit, Inv, ServiceTypeOK
      <4>. QED  BY <4>1, <2>4 DEF Inv, PendingOK
    <3>2. CASE l = k
      <4>1. pending'[l] = Append(pending[k], c)
        BY <1>1, <3>2 DEF Submit, Inv, ServiceTypeOK
      <4>. QED  BY <1>t, <2>1, <2>3, <2>4, <3>2, <4>1 DEF Inv, PendingOK
    <3>. QED  BY <3>1, <3>2
  <2>. QED  BY <2>2, <2>4, <2>5 DEF Inv, FreshOK, CalledOnce
<1>2. ASSUME NEW k \in Clients, NEW r \in Results, Answer(k, r) PROVE Inv'
  <2> DEFINE h == Head(pending[k])
  <2>1. /\ pending[k] \in Seq(Commands) /\ pending[k] # <<>>
        /\ Len(pending[k]) \in Nat \ {0}
        /\ h = pending[k][1] /\ h \in Commands
        /\ Tail(pending[k]) \in Seq(Commands)
        /\ Len(Tail(pending[k])) = Len(pending[k]) - 1
        /\ \A i \in 1 .. Len(Tail(pending[k])) : Tail(pending[k])[i] = pending[k][i + 1]
    BY <1>2, <1>t, HeadTailProperties, EmptySeq DEF Answer
  <2>2. calls[h] = <<>> /\ h \in submitted /\ Owner[h] = k
    BY <2>1 DEF Inv, PendingOK
  <2>3. /\ calls' = [calls EXCEPT ![h] = Append(calls[h], r)]
        /\ Append(calls[h], r) \in Seq(Results) /\ Len(Append(calls[h], r)) = 1
    <3>1. calls[h] \in Seq(Results) /\ Len(calls[h]) = 0
      BY <2>1, <2>2 DEF Inv, ServiceTypeOK
    <3>. QED  BY <1>2, <3>1, AppendProperties DEF Answer
  <2>4. submitted' = submitted
    BY <1>2 DEF Answer
  <2>5. \/ pending' = [pending EXCEPT ![k] = Tail(pending[k])]
        \/ pending' = [pending EXCEPT ![k] = <<>>]
    BY <1>2 DEF Answer
  <2>6. ServiceTypeOK'
    <3>1. <<>> \in Seq(Commands)
      OBVIOUS
    <3>. QED  BY <2>1, <2>3, <2>4, <2>5, <3>1 DEF Inv, ServiceTypeOK
  <2>7. \A c \in Commands : c # h => calls'[c] = calls[c]
    BY <2>3 DEF Inv, ServiceTypeOK
  <2>8. FreshOK' /\ CalledOnce'
    <3>1. calls'[h] = Append(calls[h], r)
      BY <2>1, <2>3 DEF Inv, ServiceTypeOK
    <3>. HIDE DEF h
    <3>. QED  BY <2>2, <2>3, <2>4, <2>7, <3>1 DEF Inv, FreshOK, CalledOnce
  <2>9. PendingOK'
    <3> SUFFICES ASSUME NEW l \in Clients, NEW i \in 1 .. Len(pending'[l])
                 PROVE  /\ Owner[pending'[l][i]] = l
                        /\ pending'[l][i] \in submitted
                        /\ calls'[pending'[l][i]] = <<>>
                        /\ \A j \in 1 .. Len(pending'[l]) :
                             pending'[l][i] = pending'[l][j] => i = j
      BY <2>4 DEF PendingOK
    <3>1. CASE l # k
      <4>1. pending'[l] = pending[l]
        BY <2>5, <3>1 DEF Inv, ServiceTypeOK
      <4>2. pending[l][i] \in Commands /\ Owner[pending[l][i]] = l
        BY <1>t, <4>1, ElementOfSeq DEF Inv, PendingOK
      <4>3. pending[l][i] # h
        BY <2>2, <3>1, <4>2
      <4>. QED  BY <2>7, <4>1, <4>2, <4>3 DEF Inv, PendingOK
    <3>2. CASE l = k /\ pending'[l] = Tail(pending[k])
      <4>1. /\ i + 1 \in 1 .. Len(pending[k]) /\ i + 1 # 1
            /\ pending'[l][i] = pending[k][i + 1]
        BY <2>1, <3>2
      <4>2. pending[k][i + 1] # h /\ pending[k][i + 1] \in Commands
        BY <2>1, <4>1, ElementOfSeq DEF Inv, PendingOK
      <4>3. \A j \in 1 .. Len(pending'[l]) :
              /\ j + 1 \in 1 .. Len(pending[k])
              /\ pending'[l][j] = pending[k][j + 1]
        BY <2>1, <3>2
      <4>4. \A j \in 1 .. Len(pending'[l]) :
              pending'[l][i] = pending'[l][j] => i + 1 = j + 1
        BY <4>1, <4>3 DEF Inv, PendingOK
      <4>5. i \in Int /\ \A j \in 1 .. Len(pending'[l]) : j \in Int
        OBVIOUS
      <4>6. \A j \in 1 .. Len(pending'[l]) : pending'[l][i] = pending'[l][j] => i = j
        BY <4>4, <4>5
      <4>. QED  BY <2>7, <3>2, <4>1, <4>2, <4>6 DEF Inv, PendingOK
    <3>3. CASE l = k /\ pending'[l] = <<>>
      BY <3>3
    <3>. QED  BY <2>5, <3>1, <3>2, <3>3 DEF Inv, ServiceTypeOK
  <2>. QED  BY <2>6, <2>8, <2>9 DEF Inv
<1>3. ASSUME NEW k \in Clients, Abandon(k) PROVE Inv'
  <2>1. <<>> \in Seq(Commands)
    OBVIOUS
  <2>2. ServiceTypeOK'
    BY <1>3, <2>1 DEF Abandon, Inv, ServiceTypeOK
  <2>3. \A l \in Clients : pending'[l] = <<>> \/ pending'[l] = pending[l]
    BY <1>3 DEF Abandon, Inv, ServiceTypeOK
  <2>. QED  BY <1>3, <2>2, <2>3 DEF Abandon, Inv, PendingOK, FreshOK, CalledOnce
<1>. QED  BY <1>u, <1>1, <1>2, <1>3 DEF Next

\* Whatever implements the service keeps the invariant.
LEMMA ServiceKeepsInv == Spec => []Inv
BY ServiceInit, ServiceNext, PTL DEF Spec

(* Whatever implements the service calls at most one handler of a command, *)
(* once.                                                                   *)
THEOREM ServiceCallsOnce == Spec => []CalledOnce
<1>1. Inv => CalledOnce
  BY DEF Inv
<1>. QED  BY <1>1, ServiceKeepsInv, PTL

=============================================================================

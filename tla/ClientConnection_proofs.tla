----------------------- MODULE ClientConnection_proofs ------------------------
(***************************************************************************)
(* Theorems about ClientConnection, for every number of attempts and lines.*)
(***************************************************************************)
EXTENDS ClientConnection, SequenceTheorems, TLAPS

-----------------------------------------------------------------------------
(***************************************************************************)
(* Type correctness.                                                       *)
(***************************************************************************)

\* A part of a sequence of lines is a sequence of lines.
LEMMA LinesPart ==
  ASSUME NEW s \in Seq(Lines), NEW n \in 1 .. Len(s)
  PROVE  SubSeq(s, 1, n) \in Seq(Lines) /\ SubSeq(s, n + 1, Len(s)) \in Seq(Lines)
<1>1. \A i \in 1 .. Len(s) : s[i] \in Lines
  BY ElementOfSeq
<1>2. Len(s) \in Nat /\ n \in Nat /\ n <= Len(s)
  OBVIOUS
<1>3. (\A i \in 1 .. n : s[i] \in Lines) /\ (\A i \in n + 1 .. Len(s) : s[i] \in Lines)
  BY <1>1, <1>2
<1>. QED  BY <1>2, <1>3, SubSeqProperties

\* The types hold initially.
LEMMA InitTypes == Init => TypeOK
<1> SUFFICES ASSUME Init PROVE TypeOK
  OBVIOUS
<1>1. <<>> \in Seq(Lines)
  OBVIOUS
<1>2. 0 \in 0 .. MaxAttempts /\ 0 \in 0 .. MaxLines
  BY ClientConnectionAssumption
<1>3. /\ mReceiveBuffer \in Seq(Lines)
      /\ inbound \in [Attempts -> Seq(Lines)]
  BY <1>1 DEF Init
<1>4. /\ peer \in [Attempts -> {"none", "up", "failed"}]
      /\ failing \in [Attempts -> SUBSET Streams]
  BY DEF Init
<1>5. scheduled \subseteq 1 .. attempts /\ writable \subseteq Attempts /\ confirmed \subseteq Attempts
  BY DEF Init
<1>. QED
  BY <1>2, <1>3, <1>4, <1>5 DEF Init, TypeOK

\* Every step keeps the types.
LEMMA NextTypes == TypeOK /\ [Next]_vars => TypeOK'
<1> SUFFICES ASSUME TypeOK, [Next]_vars PROVE TypeOK'
  OBVIOUS
<1> USE ClientConnectionAssumption
<1>1. CASE ConnectRefused
  BY <1>1 DEF ConnectRefused, TypeOK, streamVars, timerVars, networkVars
<1>2. CASE ConnectWithoutDelegate
  BY <1>2 DEF ConnectWithoutDelegate, ForgetTimer, TypeOK, streamVars, networkVars
<1>3. ASSUME NEW timed \in BOOLEAN, Connect(timed) PROVE TypeOK'
  <2>1. /\ attempts' = attempts + 1 /\ attempts' \in 0 .. MaxAttempts
        /\ mStreams' = attempts' /\ scheduled' = scheduled \cup {attempts'}
    BY <1>3 DEF Connect, TypeOK
  <2>2. mStreams' \in 0 .. MaxAttempts /\ scheduled' \subseteq 1 .. attempts'
    BY <2>1 DEF TypeOK
  <2>3. /\ mTimerRef' \in {"none", "idle", "running"}
        /\ mTimerDelegate' \in BOOLEAN /\ strays' \in BOOLEAN
    BY <1>3 DEF Connect, ForgetTimer, TypeOK, timerVars
  <2>. QED
    BY <1>3, <2>1, <2>2, <2>3 DEF Connect, TypeOK, streamVars, networkVars
<1>4. ASSUME NEW timed \in BOOLEAN, ConnectFails(timed) \/ ConnectFailsLate(timed)
      PROVE  TypeOK'
  <2>1. AttemptFails(timed)
    BY <1>4 DEF ConnectFails, ConnectFailsLate
  <2>2. /\ strays' \in BOOLEAN
        /\ mConnection' \in BOOLEAN /\ mTimerDelegate' \in BOOLEAN
        /\ mTimerRef' \in {"none", "idle", "running"}
        /\ outcome' \in {"none", "connected", "notConnected", "disconnected"}
    BY <2>1 DEF AttemptFails, ForgetTimer, TypeOK
  <2>3. /\ attempts' \in {attempts, attempts + 1} /\ attempts' \in 0 .. MaxAttempts
        /\ mStreams' \in {0, attempts'}
        /\ scheduled' \subseteq scheduled \cup {attempts'}
        /\ scheduled' # scheduled => attempts' = attempts + 1
    BY <1>4 DEF ConnectFails, ConnectFailsLate, TypeOK
  <2>4. mStreams' \in 0 .. MaxAttempts /\ scheduled' \subseteq 1 .. attempts'
    BY <2>3 DEF TypeOK
  <2>5. /\ peer' \in [Attempts -> {"none", "up", "failed"}]
        /\ failing' \in [Attempts -> SUBSET Streams]
        /\ status' \in {"ECONNREFUSED", "EINVAL", "EIO"}
    BY <1>4 DEF ConnectFails, ConnectFailsLate, TypeOK
  <2>. QED
    BY <2>1, <2>2, <2>3, <2>4, <2>5 DEF AttemptFails, TypeOK, streamVars
<1>5. ASSUME DidDisconnect
      PROVE  /\ scheduled' \subseteq 1 .. attempts
             /\ mStreams' \in 0 .. MaxAttempts
             /\ mReadStreamReady' \in BOOLEAN /\ mWriteStreamReady' \in BOOLEAN
             /\ mReceiveBuffer' \in Seq(Lines)
             /\ mWaitingForClientConfirmation' \in BOOLEAN
             /\ state' \in {"Disconnected", "Connecting", "Connected"}
             /\ outcome' \in {"none", "connected", "notConnected", "disconnected"}
  BY <1>5 DEF DidDisconnect, CloseStreams, Told, TypeOK
<1>6. CASE Disconnect
  BY <1>5, <1>6 DEF Disconnect, TypeOK, timerVars, networkVars
<1>7. CASE TimerDidFire
  BY <1>5, <1>7 DEF TimerDidFire, TypeOK, timerVars, networkVars
<1>8. ASSUME DidConnect \/ DidNotConnect \/ UNCHANGED <<state, outcome, timerVars>>
      PROVE  /\ state' \in {"Disconnected", "Connecting", "Connected"}
             /\ outcome' \in {"none", "connected", "notConnected", "disconnected"}
             /\ mTimerRef' \in {"none", "idle", "running"}
             /\ mTimerDelegate' \in BOOLEAN /\ strays' \in BOOLEAN
  BY <1>8 DEF DidConnect, DidNotConnect, Told, DestroyTimer, TypeOK, timerVars
<1>9. ASSUME NEW a \in Attempts, NEW n \in 1 .. Len(inbound[a]), BytesAvailable(a, n)
      PROVE  TypeOK'
  <2>1. /\ SubSeq(inbound[a], 1, n) \in Seq(Lines)
        /\ SubSeq(inbound[a], n + 1, Len(inbound[a])) \in Seq(Lines)
    BY LinesPart DEF TypeOK
  <2>2. inbound' \in [Attempts -> Seq(Lines)]
    BY <1>9, <2>1 DEF BytesAvailable, TypeOK
  <2>3. mReceiveBuffer' \in Seq(Lines)
    <3>1. mReceiveBuffer \o SubSeq(inbound[a], 1, n) \in Seq(Lines)
      BY <2>1, ConcatProperties DEF TypeOK
    <3>. QED  BY <1>9, <3>1 DEF BytesAvailable
  <2>4. DidConnect \/ UNCHANGED <<state, outcome, timerVars>>
    BY <1>9 DEF BytesAvailable
  <2>5. /\ mReadStreamReady' \in BOOLEAN
        /\ mWaitingForClientConfirmation' \in BOOLEAN
        /\ stale' \in BOOLEAN
    BY <1>9 DEF BytesAvailable, NotesStale, TypeOK
  <2>. QED
    BY <1>8, <1>9, <2>2, <2>3, <2>4, <2>5 DEF BytesAvailable, TypeOK
<1>10. ASSUME NEW a \in Attempts, CanAcceptBytes(a) PROVE TypeOK'
  <2>1. DidConnect \/ UNCHANGED <<state, outcome, timerVars>>
    BY <1>10 DEF CanAcceptBytes
  <2>. QED  BY <1>8, <1>10, <2>1 DEF CanAcceptBytes, NotesStale, TypeOK
<1>11. ASSUME NEW a \in Attempts, NEW s \in Streams, HandleStreamError(a, s)
       PROVE  TypeOK'
  <2>1. failing' \in [Attempts -> SUBSET Streams] /\ stale' \in BOOLEAN
    BY <1>11 DEF HandleStreamError, NotesStale, TypeOK
  <2>2. CASE DidDisconnect /\ UNCHANGED timerVars
    BY <1>5, <1>11, <2>1, <2>2 DEF HandleStreamError, TypeOK, timerVars
  <2>3. CASE /\ DidNotConnect \/ UNCHANGED <<state, outcome, timerVars>>
             /\ UNCHANGED <<mStreams, streamVars, scheduled>>
    BY <1>8, <1>11, <2>1, <2>3 DEF HandleStreamError, TypeOK, streamVars
  <2>. QED  BY <1>11, <2>2, <2>3 DEF HandleStreamError
<1>12. ASSUME NEW a \in Attempts,
              PeerAccepts(a) \/ PeerFails(a) \/ ServerConfirms(a) \/ ServerSends(a)
       PROVE  TypeOK'
  <2>1. UNCHANGED localVars
    BY <1>12 DEF PeerAccepts, PeerFails, ServerConfirms, ServerSends
  <2>2. inbound' \in [Attempts -> Seq(Lines)]
    <3>1. /\ Append(inbound[a], "confirmation") \in Seq(Lines)
          /\ Append(inbound[a], "line") \in Seq(Lines)
      BY AppendProperties DEF TypeOK, Lines
    <3>2. <<>> \in Seq(Lines)
      OBVIOUS
    <3>. QED
      BY <1>12, <3>1, <3>2
         DEF PeerAccepts, PeerFails, ServerConfirms, ServerSends, TypeOK
  <2>3. /\ peer' \in [Attempts -> {"none", "up", "failed"}]
        /\ writable' \subseteq Attempts
        /\ failing' \in [Attempts -> SUBSET Streams]
        /\ confirmed' \subseteq Attempts
        /\ lines' \in 0 .. MaxLines
    <3>1. CASE PeerAccepts(a)
      BY <3>1 DEF PeerAccepts, TypeOK
    <3>2. CASE PeerFails(a)
      BY <3>2 DEF PeerFails, TypeOK
    <3>3. CASE ServerConfirms(a)
      BY <3>3 DEF ServerConfirms, TypeOK
    <3>4. CASE ServerSends(a)
      BY <3>4 DEF ServerSends, TypeOK
    <3>. QED  BY <1>12, <3>1, <3>2, <3>3, <3>4
  <2>. QED
    BY <2>1, <2>2, <2>3 DEF TypeOK, localVars, streamVars, timerVars
<1>13. CASE UNCHANGED vars
  BY <1>13 DEF vars, TypeOK, streamVars, timerVars, networkVars
<1>. QED
  BY <1>1, <1>2, <1>3, <1>4, <1>6, <1>7, <1>9, <1>10, <1>11, <1>12, <1>13 DEF Next

\* Every reachable state is well typed.
THEOREM TypeCorrect == Spec => []TypeOK
BY InitTypes, NextTypes, PTL DEF Spec

-----------------------------------------------------------------------------
(***************************************************************************)
(* The three safety properties, which speak of a connection that no stale  *)
(* stream has called back.  What they need besides is that such a          *)
(* connection is idle, without streams, once the application has let go of *)
(* it: Connect does not look at its state then.                            *)
(***************************************************************************)
IdleWhenLetGo ==
  ~ stale /\ ~ mConnection =>
    state = "Disconnected" /\ mStreams = 0 /\ outcome # "connected"

Inv ==
  /\ TypeOK
  /\ IdleWhenLetGo
  /\ NoTimeoutWhenConnected
  /\ NoMissedConnect
  /\ ToldAsItIs

\* The invariant holds initially.
LEMMA InitInv == Init => Inv
BY InitTypes
   DEF Init, Inv, IdleWhenLetGo, NoTimeoutWhenConnected, NoMissedConnect, ToldAsItIs

\* Every step keeps the invariant.
LEMMA NextInv == Inv /\ [Next]_vars => Inv'
<1> SUFFICES ASSUME Inv, [Next]_vars
             PROVE  (IdleWhenLetGo /\ NoTimeoutWhenConnected /\ NoMissedConnect /\ ToldAsItIs)'
  BY NextTypes DEF Inv
<1> DEFINE Goal == IdleWhenLetGo /\ NoTimeoutWhenConnected /\ NoMissedConnect /\ ToldAsItIs
<1> USE DEF Inv, TypeOK, IdleWhenLetGo, NoTimeoutWhenConnected, NoMissedConnect, ToldAsItIs
<1>1. CASE ConnectRefused
  BY <1>1 DEF ConnectRefused, streamVars, timerVars
<1>2. CASE ConnectWithoutDelegate
  BY <1>2 DEF ConnectWithoutDelegate, MayConnect, streamVars
<1>3. ASSUME NEW timed \in BOOLEAN, Connect(timed) PROVE Goal'
  BY <1>3 DEF Connect, MayConnect, streamVars
<1>4. ASSUME NEW timed \in BOOLEAN, ConnectFails(timed) \/ ConnectFailsLate(timed)
      PROVE  Goal'
  BY <1>4 DEF ConnectFails, ConnectFailsLate, AttemptFails, MayConnect, streamVars
<1>5. CASE Disconnect
  BY <1>5 DEF Disconnect, DidDisconnect, CloseStreams, Told
<1>6. CASE TimerDidFire
  BY <1>6 DEF TimerDidFire, DidDisconnect, CloseStreams, Told
<1>7. ASSUME NEW a \in Attempts, NEW n \in 1 .. Len(inbound[a]), BytesAvailable(a, n)
      PROVE  Goal'
  <2>1. a # 0
    BY ClientConnectionAssumption DEF Attempts
  <2>2. mConnection' = mConnection /\ mStreams' = mStreams
    BY <1>7 DEF BytesAvailable
  <2>3. CASE ~ mConnection
    BY <1>7, <2>1, <2>2, <2>3 DEF BytesAvailable, NotesStale
  <2>4. CASE mConnection /\ DidConnect
    BY <2>2, <2>4 DEF DidConnect, Told, DestroyTimer
  <2>5. CASE mConnection /\ ~ DidConnect
    <3>1. UNCHANGED <<state, outcome, mTimerDelegate>>
      BY <1>7, <2>5 DEF BytesAvailable, timerVars
    <3>2. stale' = FALSE => stale = FALSE
      BY <1>7 DEF BytesAvailable, NotesStale
    <3>3. NoMissedConnect'
      BY <1>7, <2>5, <3>1, <3>2 DEF BytesAvailable, NotesStale
    <3>. QED  BY <2>2, <2>5, <3>1, <3>2, <3>3
  <2>. QED  BY <2>3, <2>4, <2>5
<1>8. ASSUME NEW a \in Attempts, CanAcceptBytes(a) PROVE Goal'
  <2>1. a # 0
    BY ClientConnectionAssumption DEF Attempts
  <2>2. CASE ~ mConnection
    BY <1>8, <2>1, <2>2 DEF CanAcceptBytes, NotesStale
  <2>3. CASE mConnection /\ DidConnect
    BY <1>8, <2>3 DEF CanAcceptBytes, DidConnect, Told, DestroyTimer
  <2>4. CASE mConnection /\ ~ DidConnect
    BY <1>8, <2>4 DEF CanAcceptBytes, NotesStale, timerVars
  <2>. QED  BY <2>2, <2>3, <2>4
<1>9. ASSUME NEW a \in Attempts, NEW s \in Streams, HandleStreamError(a, s)
      PROVE  Goal'
  <2>1. a # 0
    BY ClientConnectionAssumption DEF Attempts
  <2>2. mConnection' = mConnection /\ (stale' = FALSE => stale = FALSE /\ a = mStreams)
    BY <1>9 DEF HandleStreamError, NotesStale
  <2>3. CASE state = "Connecting" /\ DidNotConnect /\ UNCHANGED <<mStreams, streamVars>>
    BY <2>1, <2>2, <2>3 DEF DidNotConnect, Told, DestroyTimer, streamVars
  <2>4. CASE DidDisconnect
    BY <2>1, <2>2, <2>4 DEF DidDisconnect, CloseStreams, Told
  <2>5. CASE UNCHANGED <<state, outcome, mStreams, streamVars, timerVars>>
    BY <2>2, <2>5 DEF streamVars, timerVars
  <2>. QED  BY <1>9, <2>3, <2>4, <2>5 DEF HandleStreamError
<1>10. ASSUME UNCHANGED localVars PROVE Goal'
  BY <1>10 DEF localVars, streamVars, timerVars
<1>11. ASSUME NEW a \in Attempts,
              PeerAccepts(a) \/ PeerFails(a) \/ ServerConfirms(a) \/ ServerSends(a)
       PROVE  Goal'
  BY <1>10, <1>11 DEF PeerAccepts, PeerFails, ServerConfirms, ServerSends
<1>12. CASE UNCHANGED vars
  BY <1>10, <1>12 DEF vars, localVars
<1>. QED
  BY <1>1, <1>2, <1>3, <1>4, <1>5, <1>6, <1>7, <1>8, <1>9, <1>11, <1>12 DEF Next

\* The invariant holds in every reachable state.
LEMMA InvAlways == Spec => []Inv
BY InitInv, NextInv, PTL DEF Spec

(* No timer, the manager's or a forgotten one, can end an established      *)
(* connection (ConnectionManager::TimerDidFire looks at no state).         *)
THEOREM TimerNeverEndsConnection == Spec => []NoTimeoutWhenConnected
<1>1. Inv => NoTimeoutWhenConnected
  BY DEF Inv
<1>. QED  BY <1>1, InvAlways, PTL

(* Whichever of read readiness, write readiness and the confirmation comes *)
(* last connects the connection.                                           *)
THEOREM LastEventConnects == Spec => []NoMissedConnect
<1>1. Inv => NoMissedConnect
  BY DEF Inv
<1>. QED  BY <1>1, InvAlways, PTL

(* The delegates were last told that the connection is connected exactly   *)
(* when it is.                                                             *)
THEOREM DelegatesToldAsItIs == Spec => []ToldAsItIs
<1>1. Inv => ToldAsItIs
  BY DEF Inv
<1>. QED  BY <1>1, InvAlways, PTL

-----------------------------------------------------------------------------
(***************************************************************************)
(* A confirmation that was read.  As long as the server sends nothing else *)
(* and no stale stream calls back, the buffer is empty between callbacks,  *)
(* and whatever flags an earlier attempt left, those of the streams in use *)
(* say at least what happened to these streams.                            *)
(***************************************************************************)
OnlyConfirmations ==
  \A a \in Attempts : \/ inbound[a] = <<>>
                      \/ inbound[a] = <<"confirmation">> /\ a \in confirmed

\* An attempt nothing happened to; those to come are.
Untouched ==
  \A a \in Attempts : /\ a > attempts => peer[a] = "none"
                      /\ peer[a] = "none" => a \notin confirmed

FlagsOf(a) ==
  /\ a \notin writable => mWriteStreamReady
  /\ a \in confirmed /\ inbound[a] = <<>>
       => mReadStreamReady /\ ~ mWaitingForClientConfirmation

FlagsFollow == mStreams # 0 /\ peer[mStreams] = "up" => FlagsOf(mStreams)

Confirming ==
  ~ stale /\ lines = 0 => mReceiveBuffer = <<>> /\ OnlyConfirmations /\ FlagsFollow

\* What happened to an attempt happened to one that was made.
LEMMA NextUntouched == TypeOK /\ Untouched /\ [Next]_vars => Untouched'
<1> SUFFICES ASSUME TypeOK, Untouched, [Next]_vars PROVE Untouched'
  OBVIOUS
<1>1. CASE UNCHANGED <<peer, confirmed>> /\ attempts' \in {attempts, attempts + 1}
  BY <1>1 DEF Untouched, TypeOK, Attempts
<1>2. ASSUME NEW a \in Attempts,
             PeerAccepts(a) \/ PeerFails(a) \/ ServerConfirms(a) \/ ServerSends(a)
      PROVE  Untouched'
  <2>1. a \in scheduled /\ a \in 1 .. attempts /\ attempts' = attempts /\ attempts \in Int
    <3>1. a \in scheduled /\ attempts' = attempts
      BY <1>2 DEF PeerAccepts, PeerFails, ServerConfirms, ServerSends, localVars
    <3>. QED  BY <3>1 DEF TypeOK
  <2>2. ~ (a > attempts)
    BY <2>1
  <2>3. CASE PeerAccepts(a) \/ PeerFails(a)
    BY <2>1, <2>2, <2>3 DEF PeerAccepts, PeerFails, Untouched, TypeOK
  <2>4. CASE ServerConfirms(a) \/ ServerSends(a)
    BY <2>1, <2>2, <2>4 DEF ServerConfirms, ServerSends, Untouched, TypeOK
  <2>. QED  BY <1>2, <2>3, <2>4
<1>3. CASE ConnectRefused \/ ConnectWithoutDelegate \/ Disconnect \/ TimerDidFire
  BY <1>1, <1>3 DEF ConnectRefused, ConnectWithoutDelegate, Disconnect, TimerDidFire, networkVars
<1>4. ASSUME NEW timed \in BOOLEAN, Connect(timed) \/ ConnectFails(timed) PROVE Untouched'
  BY <1>1, <1>4 DEF Connect, ConnectFails, AttemptFails, networkVars
<1>7. ASSUME NEW timed \in BOOLEAN, ConnectFailsLate(timed) PROVE Untouched'
  <2>1. /\ attempts' = attempts + 1 /\ attempts \in Int /\ confirmed' = confirmed
        /\ peer' \in {peer, [peer EXCEPT ![attempts + 1] = "failed"]}
    BY <1>7 DEF ConnectFailsLate, AttemptFails, TypeOK
  <2>2. \A a \in Attempts : peer'[a] = peer[a] \/ (a = attempts + 1 /\ peer'[a] = "failed")
    BY <2>1 DEF TypeOK
  <2>3. \A a \in Attempts : a \in Int /\ (a > attempts' => a > attempts /\ a # attempts + 1)
    BY <2>1 DEF Attempts
  <2>. QED  BY <2>1, <2>2, <2>3 DEF Untouched
<1>5. ASSUME NEW a \in Attempts,
             \/ \E n \in 1 .. Len(inbound[a]) : BytesAvailable(a, n)
             \/ CanAcceptBytes(a)
             \/ \E s \in Streams : HandleStreamError(a, s)
      PROVE  Untouched'
  BY <1>1, <1>5 DEF BytesAvailable, CanAcceptBytes, HandleStreamError
<1>6. CASE UNCHANGED vars
  BY <1>1, <1>6 DEF vars, networkVars
<1>. QED  BY <1>2, <1>3, <1>4, <1>5, <1>6, <1>7 DEF Next

\* Without streams the flags are nobody's, and a disconnect clears the buffer.
LEMMA ConfirmingWhenClosed ==
  ASSUME Confirming, lines' = lines, stale' = stale, UNCHANGED <<inbound, confirmed>>,
         mStreams' = 0, mReceiveBuffer' \in {mReceiveBuffer, <<>>}
  PROVE  Confirming'
BY DEF Confirming, OnlyConfirmations, FlagsFollow

\* Every step keeps the flags, the buffer and the streams as they are said to be.
LEMMA NextConfirming ==
  Inv /\ Untouched /\ Confirming /\ [Next]_vars => Confirming'
<1> SUFFICES ASSUME Inv, Untouched, Confirming, [Next]_vars,
                    ~ stale', lines' = 0
             PROVE  Confirming'
  BY DEF Confirming
<1>0. TypeOK /\ TypeOK'
  BY NextTypes DEF Inv
<1>1. CASE UNCHANGED <<mReceiveBuffer, inbound, confirmed, mStreams, peer, writable,
                       mReadStreamReady, mWriteStreamReady,
                       mWaitingForClientConfirmation, stale, lines>>
  BY <1>1 DEF Confirming, OnlyConfirmations, FlagsFollow, FlagsOf
<1>2. CASE ConnectRefused \/ ConnectWithoutDelegate \/ UNCHANGED vars
  BY <1>1, <1>2 DEF ConnectRefused, ConnectWithoutDelegate, vars, streamVars, networkVars
<1>3. ASSUME NEW timed \in BOOLEAN, Connect(timed) PROVE Confirming'
  <2>1. /\ UNCHANGED <<mReceiveBuffer, inbound, confirmed, peer, stale, lines>>
        /\ mStreams' = attempts + 1 /\ attempts < MaxAttempts
    BY <1>3 DEF Connect, streamVars, networkVars
  <2>2. attempts + 1 \in Attempts /\ attempts + 1 > attempts
    BY <2>1, <1>0, ClientConnectionAssumption DEF TypeOK, Attempts, ClientConnectionAssumption
  <2>3. peer'[mStreams'] = "none"
    BY <2>1, <2>2 DEF Untouched
  <2>. QED  BY <2>1, <2>3 DEF Confirming, OnlyConfirmations, FlagsFollow
<1>4. ASSUME NEW timed \in BOOLEAN, ConnectFails(timed) PROVE Confirming'
  BY <1>4, ConfirmingWhenClosed DEF ConnectFails, AttemptFails, streamVars
<1>13. ASSUME NEW timed \in BOOLEAN, ConnectFailsLate(timed) PROVE Confirming'
  <2>1. /\ UNCHANGED <<mReceiveBuffer, inbound, confirmed, stale, lines>>
        /\ mStreams' = attempts + 1 /\ attempts < MaxAttempts
        /\ peer' \in {peer, [peer EXCEPT ![attempts + 1] = "failed"]}
    BY <1>13 DEF ConnectFailsLate, AttemptFails, streamVars
  <2>2. attempts + 1 \in Attempts /\ attempts + 1 > attempts
    BY <2>1, <1>0, ClientConnectionAssumption DEF TypeOK, Attempts, ClientConnectionAssumption
  <2>3. peer[attempts + 1] = "none"
    BY <2>2 DEF Untouched
  <2>4. peer'[mStreams'] # "up"
    BY <1>0, <2>1, <2>2, <2>3 DEF TypeOK
  <2>. QED  BY <2>1, <2>4 DEF Confirming, OnlyConfirmations, FlagsFollow
<1>5. CASE Disconnect \/ TimerDidFire
  BY <1>5, ConfirmingWhenClosed
     DEF Disconnect, TimerDidFire, DidDisconnect, CloseStreams, networkVars
<1>6. ASSUME NEW a \in Attempts, NEW n \in 1 .. Len(inbound[a]), BytesAvailable(a, n)
      PROVE  Confirming'
  <2> DEFINE b == mReceiveBuffer \o SubSeq(inbound[a], 1, n)
             confirms == mWaitingForClientConfirmation /\ IsConfirmation(b)
  <2>1. ~ stale /\ a = mStreams /\ lines = 0 /\ a # 0
    <3>1. NotesStale(a) /\ lines' = lines
      BY <1>6 DEF BytesAvailable
    <3>2. ~ stale /\ a = mStreams
      BY <3>1, Zenon DEF NotesStale
    <3>3. a # 0
      BY ClientConnectionAssumption DEF Attempts
    <3>. QED  BY <3>1, <3>2, <3>3
  <2>2. mConnection
    BY <2>1 DEF Inv, IdleWhenLetGo
  <2>3. mReceiveBuffer = <<>> /\ OnlyConfirmations
    BY <2>1 DEF Confirming
  <2>4. inbound[a] = <<"confirmation">> /\ a \in confirmed /\ n = 1
    <3>1. inbound[a] # <<>>
      <4> SUFFICES ASSUME inbound[a] = <<>> PROVE FALSE
        OBVIOUS
      <4>1. Len(inbound[a]) = 0
        BY EmptySeq
      <4>. QED  BY <4>1
    <3>2. inbound[a] = <<"confirmation">> /\ a \in confirmed
      BY <2>3, <3>1 DEF OnlyConfirmations
    <3>3. Len(inbound[a]) = 1
      BY <3>2
    <3>. QED  BY <3>2, <3>3
  <2>5. b = <<"confirmation">> /\ inbound'[a] = <<>>
    <3> DEFINE c == <<"confirmation">>
    <3>1. c \in Seq(Lines) /\ Len(c) = 1
      BY DEF Lines
    <3>2. inbound[a] = c
      BY <2>4
    <3>. HIDE DEF c
    <3>3. SubSeq(inbound[a], 1, n) = c
      <4>1. SubSeq(c, 1, Len(c)) = c
        BY <3>1, SubSeqFull
      <4>. QED  BY <2>4, <3>1, <3>2, <4>1
    <3>4. <<>> \o c = c
      BY <3>1, ConcatEmptySeq
    <3>5. inbound'[a] = SubSeq(inbound[a], 2, 1)
      <4>1. inbound'[a] = SubSeq(inbound[a], n + 1, Len(inbound[a]))
        BY <1>0, <1>6 DEF BytesAvailable, TypeOK
      <4>2. n + 1 = 2 /\ Len(inbound[a]) = 1
        BY <2>4, <3>1, <3>2
      <4>. QED  BY <4>1, <4>2
    <3>6. SubSeq(inbound[a], 2, 1) = <<>>
      BY SubSeqEmpty
    <3>. QED  BY <2>3, <3>3, <3>4, <3>5, <3>6 DEF c
  <2>6. /\ mReadStreamReady' = TRUE
        /\ mWaitingForClientConfirmation' = (mWaitingForClientConfirmation /\ ~ confirms)
        /\ mReceiveBuffer' =
             IF confirms \/ (~ mWaitingForClientConfirmation /\ mConnection) THEN <<>> ELSE b
        /\ inbound' = [inbound EXCEPT ![a] = inbound'[a]]
        /\ UNCHANGED <<mStreams, mWriteStreamReady, peer, writable, confirmed>>
    BY <1>0, <1>6 DEF BytesAvailable, TypeOK
  <2>7. confirms <=> mWaitingForClientConfirmation
    BY <2>5 DEF IsConfirmation
  <2>. HIDE DEF b, confirms
  <2>8. mReceiveBuffer' = <<>> /\ ~ mWaitingForClientConfirmation'
    BY <2>2, <2>6, <2>7
  <2>9. OnlyConfirmations'
    BY <1>0, <2>3, <2>5, <2>6 DEF OnlyConfirmations, TypeOK
  <2>10. FlagsFollow'
    BY <2>1, <2>6, <2>8 DEF Confirming, FlagsFollow, FlagsOf
  <2>. QED  BY <2>8, <2>9, <2>10 DEF Confirming
<1>7. ASSUME NEW a \in Attempts, CanAcceptBytes(a) PROVE Confirming'
  <2>1. ~ stale /\ a = mStreams
    BY <1>0, <1>7, ClientConnectionAssumption DEF CanAcceptBytes, NotesStale, TypeOK, Attempts
  <2>2. /\ mWriteStreamReady' = TRUE
        /\ UNCHANGED <<mReceiveBuffer, inbound, confirmed, mStreams, peer,
                       mReadStreamReady, mWaitingForClientConfirmation, lines>>
    BY <1>7 DEF CanAcceptBytes
  <2>. QED  BY <2>1, <2>2 DEF Confirming, OnlyConfirmations, FlagsFollow, FlagsOf,
                               CanAcceptBytes
<1>8. ASSUME NEW a \in Attempts, NEW s \in Streams, HandleStreamError(a, s)
      PROVE  Confirming'
  <2>1. stale' = stale
    BY <1>0, <1>8 DEF HandleStreamError, NotesStale, TypeOK
  <2>2. UNCHANGED <<inbound, confirmed, peer, writable, lines>>
    BY <1>8 DEF HandleStreamError
  <2>3. CASE UNCHANGED <<mStreams, streamVars>>
    BY <1>1, <2>1, <2>2, <2>3 DEF streamVars
  <2>4. CASE DidDisconnect
    BY <2>1, <2>2, <2>4, ConfirmingWhenClosed DEF DidDisconnect, CloseStreams
  <2>. QED  BY <1>8, <2>3, <2>4 DEF HandleStreamError
<1>9. ASSUME NEW a \in Attempts, PeerAccepts(a) PROVE Confirming'
  <2>1. /\ UNCHANGED <<mReceiveBuffer, inbound, confirmed, mStreams, mReadStreamReady,
                       mWriteStreamReady, mWaitingForClientConfirmation, stale, lines>>
        /\ peer[a] = "none" /\ peer' = [peer EXCEPT ![a] = "up"]
        /\ writable' = writable \cup {a}
    BY <1>9 DEF PeerAccepts, localVars, streamVars
  <2>2. a \notin confirmed
    BY <2>1 DEF Untouched
  <2>3. mStreams # 0 => mStreams \in Attempts
    BY <1>0 DEF TypeOK, Attempts
  <2>. QED  BY <1>0, <2>1, <2>2, <2>3
            DEF Confirming, OnlyConfirmations, FlagsFollow, FlagsOf, TypeOK
<1>10. ASSUME NEW a \in Attempts, PeerFails(a) PROVE Confirming'
  <2>1. /\ UNCHANGED <<mReceiveBuffer, confirmed, mStreams, mReadStreamReady,
                       mWriteStreamReady, mWaitingForClientConfirmation, stale, lines>>
        /\ peer' = [peer EXCEPT ![a] = "failed"]
        /\ inbound' = [inbound EXCEPT ![a] = <<>>]
        /\ writable' = writable \ {a}
    BY <1>10 DEF PeerFails, localVars, streamVars
  <2>2. mStreams # 0 => mStreams \in Attempts
    BY <1>0 DEF TypeOK, Attempts
  <2>. QED  BY <1>0, <2>1, <2>2
            DEF Confirming, OnlyConfirmations, FlagsFollow, FlagsOf, TypeOK
<1>11. ASSUME NEW a \in Attempts, ServerConfirms(a) PROVE Confirming'
  <2>1. /\ UNCHANGED <<mReceiveBuffer, mStreams, mReadStreamReady, mWriteStreamReady, peer,
                       writable, mWaitingForClientConfirmation, stale, lines>>
        /\ a \notin confirmed /\ confirmed' = confirmed \cup {a}
        /\ inbound' = [inbound EXCEPT ![a] = Append(@, "confirmation")]
    BY <1>11 DEF ServerConfirms, localVars, streamVars
  <2>2. OnlyConfirmations /\ FlagsFollow /\ mReceiveBuffer = <<>>
    BY <2>1 DEF Confirming
  <2>3. inbound[a] = <<>>
    BY <2>1, <2>2 DEF OnlyConfirmations
  <2>4. inbound'[a] = <<"confirmation">>
    <3>1. inbound'[a] = Append(inbound[a], "confirmation")
      BY <1>0, <2>1 DEF TypeOK
    <3>2. Append(<<>>, "confirmation") = <<"confirmation">>
      OBVIOUS
    <3>. QED  BY <2>3, <3>1, <3>2
  <2>5. inbound'[a] # <<>>
    BY <2>4
  <2>6. \A c \in Attempts \ {a} : inbound'[c] = inbound[c]
    BY <1>0, <2>1 DEF TypeOK
  <2>7. mStreams # 0 => mStreams \in Attempts
    BY <1>0 DEF TypeOK, Attempts
  <2>8. OnlyConfirmations'
    BY <2>1, <2>2, <2>4, <2>6 DEF OnlyConfirmations
  <2>9. FlagsFollow'
    BY <2>1, <2>2, <2>5, <2>6, <2>7 DEF FlagsFollow, FlagsOf
  <2>. QED  BY <2>1, <2>2, <2>8, <2>9 DEF Confirming
<1>12. ASSUME NEW a \in Attempts, ServerSends(a) PROVE FALSE
  BY <1>0, <1>12 DEF ServerSends, TypeOK
<1>. QED
  BY <1>2, <1>3, <1>4, <1>5, <1>6, <1>7, <1>8, <1>9, <1>10, <1>11, <1>12, <1>13 DEF Next

(* A client whose server confirms and says nothing else connects once both *)
(* streams were ready and the confirmation was read, whatever flags,       *)
(* streams and buffer earlier attempts left behind (ConnectionTelnet::     *)
(* TryClientConfirmationDataReceived).                                     *)
THEOREM ConfirmationConnects == Spec => []ConfirmedClientConnects
<1>1. Init => Untouched /\ Confirming
  BY DEF Init, Untouched, Confirming, OnlyConfirmations, FlagsFollow
<1>2. Inv /\ Confirming => ConfirmedClientConnects
  <2> SUFFICES ASSUME Inv, Confirming, state = "Connecting", ~ stale, lines = 0,
                      mStreams \in confirmed, peer[mStreams] = "up",
                      mStreams \notin writable, inbound[mStreams] = <<>>
               PROVE  FALSE
    BY DEF ConfirmedClientConnects
  <2>1. mStreams # 0
    BY DEF Inv, TypeOK, Attempts
  <2>2. FlagsOf(mStreams)
    BY <2>1 DEF Confirming, FlagsFollow
  <2>3. mReadStreamReady /\ mWriteStreamReady /\ ~ mWaitingForClientConfirmation
    BY <2>2 DEF FlagsOf
  <2>. QED  BY <2>3 DEF Inv, NoMissedConnect
<1>3. Inv => TypeOK
  BY DEF Inv
<1>. QED  BY <1>1, <1>2, <1>3, InitInv, NextInv, NextUntouched, NextConfirming, PTL DEF Spec

=============================================================================

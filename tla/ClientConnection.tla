--------------------------- MODULE ClientConnection ---------------------------
(***************************************************************************)
(* How a client connects: the connection manager, its telnet connection and*)
(* the timer of an attempt (ConnectionManager.cpp, ConnectionTelnet.cpp and*)
(* ConnectionFactory.cpp under src/src/lib/client, Timer.cpp under         *)
(* src/src/lib/common).  There is one connection object, which the factory *)
(* hands out again and again; every attempt to connect it creates a pair of*)
(* streams of its own.  Everything runs on one run loop: an action is a    *)
(* call of the application or one callback.                                *)
(*                                                                         *)
(* What the server sends is a sequence of lines: the confirmation of the   *)
(* session, and lines it sends to all its clients (ServerConnections).     *)
(***************************************************************************)
EXTENDS Integers, Sequences, FiniteSets

CONSTANTS
  MaxAttempts,  \* bound: attempts that reach the network
  MaxLines      \* bound: lines sent to a client that are not confirmations

ASSUME ClientConnectionAssumption == MaxAttempts \in Nat \ {0} /\ MaxLines \in Nat

VARIABLES
  mConnection,        \* the manager has the connection and is its delegate
  state,              \* of the connection; Ready and Disconnected are one
  mStreams,           \* attempt whose streams the connection refers to, or 0
  mReadStreamReady, mWriteStreamReady, mWaitingForClientConfirmation,
  mReceiveBuffer,
  mTimerRef,          \* the manager's timer
  mTimerDelegate,     \* the manager is the timer's delegate
  strays,             \* a timer the manager lost still repeats
  attempts,           \* attempts so far
  scheduled,          \* attempts whose streams are on the run loop
  peer,               \* what became of each attempt at the network
  writable,           \* attempts whose streams did not say that they accept bytes
  failing,            \* streams that have yet to report a failure
  inbound,            \* lines of each attempt that were not read
  confirmed,          \* attempts the server has confirmed
  lines,              \* how much of MaxLines is used
  outcome,            \* what the delegates were last told of the last attempt
  status,             \* what the last Connect returned
  stale               \* streams of an earlier attempt called back

streamVars  == <<mReadStreamReady, mWriteStreamReady, mWaitingForClientConfirmation,
                 mReceiveBuffer>>
timerVars   == <<mTimerRef, mTimerDelegate, strays>>
networkVars == <<peer, writable, failing, inbound, confirmed, lines>>
vars == <<mConnection, state, mStreams, streamVars, timerVars, attempts, scheduled,
          networkVars, outcome, status, stale>>

Attempts == 1 .. MaxAttempts
Lines    == {"confirmation", "line"}
Streams  == {"read", "write"}

-----------------------------------------------------------------------------
Init ==
  /\ mConnection = FALSE
  /\ state = "Disconnected"
  /\ mStreams = 0
  /\ mReadStreamReady = FALSE
  /\ mWriteStreamReady = FALSE
  /\ mWaitingForClientConfirmation = TRUE
  /\ mReceiveBuffer = <<>>
  /\ mTimerRef = "none"
  /\ mTimerDelegate = FALSE
  /\ strays = FALSE
  /\ attempts = 0
  /\ scheduled = {}
  /\ peer = [a \in Attempts |-> "none"]
  /\ writable = {}
  /\ failing = [a \in Attempts |-> {}]
  /\ inbound = [a \in Attempts |-> <<>>]
  /\ confirmed = {}
  /\ lines = 0
  /\ outcome = "none"
  /\ status = "Success"
  /\ stale = FALSE

(***************************************************************************)
(* Delegations.  The connection has no delegate once the application has   *)
(* disconnected it; the manager destroys its timer when an attempt ends, by*)
(* connecting or not, and leaves it when the connection is disconnected.   *)
(***************************************************************************)
DestroyTimerDelegateKept ==
  /\ mTimerRef' = IF mConnection THEN "none" ELSE mTimerRef
  /\ UNCHANGED <<mTimerDelegate, strays>>

DestroyTimer ==
  /\ mTimerRef' = IF mConnection THEN "none" ELSE mTimerRef
  /\ mTimerDelegate' = (mTimerDelegate /\ ~ mConnection)
  /\ UNCHANGED strays

Told(what) == outcome' = IF mConnection THEN what ELSE outcome

DidConnectUntold == state' = "Connected" /\ UNCHANGED outcome /\ DestroyTimer

DidConnect    == state' = "Connected"    /\ Told("connected")    /\ DestroyTimer
DidNotConnect == state' = "Disconnected" /\ Told("notConnected") /\ DestroyTimer

\* A callback comes from streams that the connection no longer refers to.
NotesStale(a) == stale' = (stale \/ a # mStreams)

-----------------------------------------------------------------------------
(***************************************************************************)
(* Connect.  It is refused while the connection is connected or connecting.*)
(* With a timeout the timer is made anew, which forgets the one before it, *)
(* and the manager becomes its delegate, which fails if it already was.    *)
(***************************************************************************)
ConnectRefused ==
  /\ mConnection /\ state # "Disconnected"
  /\ status' = IF state = "Connected" THEN "EALREADY" ELSE "EINPROGRESS"
  /\ UNCHANGED <<mConnection, state, mStreams, streamVars, timerVars, attempts,
                 scheduled, networkVars, outcome, stale>>

MayConnect == ~ mConnection \/ state = "Disconnected"

\* Timer::Init forgets a timer that may still be on the run loop.
ForgetTimer == strays' = (strays \/ mTimerRef = "running")

ConnectWithoutDelegate ==
  /\ MayConnect /\ mTimerDelegate
  /\ status' = "ValueAlreadySet"
  /\ mConnection' = TRUE
  /\ ForgetTimer
  /\ mTimerRef' = "idle"
  /\ UNCHANGED <<state, mStreams, streamVars, mTimerDelegate, attempts, scheduled,
                 networkVars, outcome, stale>>

\* ConnectionTelnet::Connect: only the streams are new.
ConnectUncounted(timed) ==
  /\ MayConnect
  /\ timed => ~ mTimerDelegate
  /\ attempts < MaxAttempts
  /\ UNCHANGED attempts
  /\ mConnection' = TRUE
  /\ state' = "Connecting"
  /\ mStreams' = attempts + 1
  /\ scheduled' = scheduled \cup {attempts + 1}
  /\ IF timed THEN ForgetTimer /\ mTimerRef' = "running" /\ mTimerDelegate' = TRUE
              ELSE UNCHANGED timerVars
  /\ outcome' = "none"
  /\ status' = "Success"
  /\ UNCHANGED <<streamVars, networkVars, stale>>

Connect(timed) ==
  /\ MayConnect
  /\ timed => ~ mTimerDelegate
  /\ attempts < MaxAttempts
  /\ attempts' = attempts + 1
  /\ mConnection' = TRUE
  /\ state' = "Connecting"
  /\ mStreams' = attempts'
  /\ scheduled' = scheduled \cup {attempts'}
  /\ IF timed THEN ForgetTimer /\ mTimerRef' = "running" /\ mTimerDelegate' = TRUE
              ELSE UNCHANGED timerVars
  /\ outcome' = "none"
  /\ status' = "Success"
  /\ UNCHANGED <<streamVars, networkVars, stale>>

\* Connecting fails before Connect returns: the state is the one before the
\* call, and the manager destroys its timer.
AttemptFails(timed) ==
  /\ MayConnect
  /\ timed => ~ mTimerDelegate
  /\ mConnection' = TRUE
  /\ outcome' = "notConnected"
  /\ IF timed THEN ForgetTimer ELSE UNCHANGED strays
  /\ mTimerRef' = "none"
  /\ mTimerDelegate' = FALSE
  /\ UNCHANGED <<state, streamVars, writable, inbound, confirmed, lines, stale>>

\* The streams cannot be created.
ConnectFails(timed) ==
  /\ AttemptFails(timed)
  /\ mStreams' = 0
  /\ status' = "ECONNREFUSED"
  /\ UNCHANGED <<attempts, scheduled, peer, failing>>

\* The streams were created, and the connection goes on referring to them: one
\* cannot be given its client, and then none is open, or one cannot be opened,
\* because the socket both share has failed, which either may still report.
ConnectFailsLate(timed) ==
  /\ AttemptFails(timed)
  /\ attempts < MaxAttempts
  /\ attempts' = attempts + 1
  /\ mStreams' = attempts'
  /\ \/ /\ status' = "EINVAL"
        /\ UNCHANGED <<scheduled, peer, failing>>
     \/ /\ status' = "EIO"
        /\ scheduled' = scheduled \cup {attempts'}
        /\ peer' = [peer EXCEPT ![attempts'] = "failed"]
        /\ \E S \in SUBSET Streams : failing' = [failing EXCEPT ![attempts'] = S]

-----------------------------------------------------------------------------
(***************************************************************************)
(* Closing.  CloseStreams resets the two flags only if there are streams.  *)
(***************************************************************************)
CloseStreams ==
  /\ scheduled' = scheduled \ {mStreams}
  /\ mStreams' = 0
  /\ mReadStreamReady'  = (mReadStreamReady /\ mStreams = 0)
  /\ mWriteStreamReady' = (mWriteStreamReady /\ mStreams = 0)

DidDisconnect ==
  /\ CloseStreams
  /\ mReceiveBuffer' = <<>>
  /\ mWaitingForClientConfirmation' = TRUE
  /\ state' = "Disconnected"
  /\ Told("disconnected")

\* The application disconnects: the manager lets go of the connection.
Disconnect ==
  /\ mConnection /\ state # "Disconnected"
  /\ DidDisconnect
  /\ mConnection' = FALSE
  /\ UNCHANGED <<timerVars, attempts, networkVars, status, stale>>

\* The manager's timer fires, or one it forgot: both call the same object,
\* and nothing looks at the state of the connection.
TimerDidFireUnlessConnecting ==
  /\ mTimerRef = "running" \/ strays
  /\ mTimerDelegate /\ mConnection
  /\ state # "Connecting"
  /\ DidDisconnect
  /\ UNCHANGED <<mConnection, timerVars, attempts, networkVars, status, stale>>

TimerDidFire ==
  /\ mTimerRef = "running" \/ strays
  /\ mTimerDelegate /\ mConnection
  /\ DidDisconnect
  /\ UNCHANGED <<mConnection, timerVars, attempts, networkVars, status, stale>>

-----------------------------------------------------------------------------
(***************************************************************************)
(* CFReadStreamCallback: bytes are available on the streams of attempt a,  *)
(* and n lines are read.  The session is established when both streams are *)
(* ready and the confirmation was received, whichever comes last.          *)
(***************************************************************************)
IsConfirmation(buffer) == buffer = <<"confirmation">>

\* What was read is appended after the confirmation was looked for.
BytesAvailableAppendedLate(a, n) ==
  LET b         == mReceiveBuffer \o SubSeq(inbound[a], 1, n)
      confirms  == mWaitingForClientConfirmation /\ IsConfirmation(mReceiveBuffer)
      completes == /\ mWriteStreamReady
                   /\ confirms \/ ~ (mReadStreamReady \/ mWaitingForClientConfirmation)
  IN /\ a \in scheduled
     /\ n \in 1 .. Len(inbound[a])
     /\ mReadStreamReady' = TRUE
     /\ mWaitingForClientConfirmation' = (mWaitingForClientConfirmation /\ ~ confirms)
     /\ mReceiveBuffer' =
          IF confirms \/ (~ mWaitingForClientConfirmation /\ mConnection) THEN <<>> ELSE b
     /\ IF completes THEN DidConnect ELSE UNCHANGED <<state, outcome, timerVars>>
     /\ NotesStale(a)
     /\ inbound' = [inbound EXCEPT ![a] = SubSeq(@, n + 1, Len(@))]
     /\ UNCHANGED <<mConnection, mStreams, mWriteStreamReady, attempts, scheduled,
                    peer, writable, failing, confirmed, lines, status>>

BytesAvailable(a, n) ==
  LET b         == mReceiveBuffer \o SubSeq(inbound[a], 1, n)
      confirms  == mWaitingForClientConfirmation /\ IsConfirmation(b)
      completes == /\ mWriteStreamReady
                   /\ confirms \/ ~ (mReadStreamReady \/ mWaitingForClientConfirmation)
  IN /\ a \in scheduled
     /\ n \in 1 .. Len(inbound[a])
     /\ mReadStreamReady' = TRUE
     /\ mWaitingForClientConfirmation' = (mWaitingForClientConfirmation /\ ~ confirms)
     /\ mReceiveBuffer' =
          IF confirms \/ (~ mWaitingForClientConfirmation /\ mConnection) THEN <<>> ELSE b
     /\ IF completes THEN DidConnect ELSE UNCHANGED <<state, outcome, timerVars>>
     /\ NotesStale(a)
     /\ inbound' = [inbound EXCEPT ![a] = SubSeq(@, n + 1, Len(@))]
     /\ UNCHANGED <<mConnection, mStreams, mWriteStreamReady, attempts, scheduled,
                    peer, writable, failing, confirmed, lines, status>>

\* CFWriteStreamCallback: the streams of attempt a can accept bytes.
CanAcceptBytesUnheeded(a) ==
  /\ a \in scheduled /\ a \in writable
  /\ writable' = writable \ {a}
  /\ mWriteStreamReady' = TRUE
  /\ UNCHANGED <<state, outcome, timerVars>>
  /\ NotesStale(a)
  /\ UNCHANGED <<mConnection, mStreams, mReadStreamReady, mWaitingForClientConfirmation,
                 mReceiveBuffer, attempts, scheduled, peer, failing, inbound, confirmed,
                 lines, status>>

CanAcceptBytes(a) ==
  /\ a \in scheduled /\ a \in writable
  /\ writable' = writable \ {a}
  /\ mWriteStreamReady' = TRUE
  /\ IF ~ mWriteStreamReady /\ mReadStreamReady /\ ~ mWaitingForClientConfirmation
     THEN DidConnect ELSE UNCHANGED <<state, outcome, timerVars>>
  /\ NotesStale(a)
  /\ UNCHANGED <<mConnection, mStreams, mReadStreamReady, mWaitingForClientConfirmation,
                 mReceiveBuffer, attempts, scheduled, peer, failing, inbound, confirmed,
                 lines, status>>

(***************************************************************************)
(* HandleStreamError: one of the streams of attempt a reports an error or  *)
(* its end.  While connecting nothing but the state changes; the streams   *)
(* stay on the run loop.  What is closed are the connection's streams,     *)
(* whichever reported.                                                     *)
(***************************************************************************)
HandleStreamError(a, s) ==
  /\ a \in scheduled /\ s \in failing[a]
  /\ failing' = [failing EXCEPT ![a] = @ \ {s}]
  /\ \/ /\ state = "Connecting"
        /\ DidNotConnect
        /\ UNCHANGED <<mStreams, streamVars, scheduled>>
     \/ /\ state = "Connected"
        /\ DidDisconnect
        /\ UNCHANGED timerVars
     \/ /\ state = "Disconnected"
        /\ UNCHANGED <<state, outcome, mStreams, streamVars, timerVars, scheduled>>
  /\ NotesStale(a)
  /\ UNCHANGED <<mConnection, attempts, peer, writable, inbound, confirmed, lines, status>>

-----------------------------------------------------------------------------
(***************************************************************************)
(* The network and the server.  A failure is reported by one stream or by  *)
(* both, each in a callback of its own; what was not read is lost.         *)
(***************************************************************************)
localVars == <<mConnection, state, mStreams, streamVars, timerVars, attempts,
               scheduled, outcome, status, stale>>

PeerAccepts(a) ==
  /\ a \in scheduled /\ peer[a] = "none"
  /\ peer' = [peer EXCEPT ![a] = "up"]
  /\ writable' = writable \cup {a}
  /\ UNCHANGED <<localVars, failing, inbound, confirmed, lines>>

PeerFails(a) ==
  /\ a \in scheduled /\ peer[a] # "failed"
  /\ peer' = [peer EXCEPT ![a] = "failed"]
  /\ \E S \in SUBSET Streams \ {{}} : failing' = [failing EXCEPT ![a] = S]
  /\ writable' = writable \ {a}
  /\ inbound' = [inbound EXCEPT ![a] = <<>>]
  /\ UNCHANGED <<localVars, confirmed, lines>>

ServerConfirms(a) ==
  /\ a \in scheduled /\ peer[a] = "up" /\ a \notin confirmed
  /\ confirmed' = confirmed \cup {a}
  /\ inbound' = [inbound EXCEPT ![a] = Append(@, "confirmation")]
  /\ UNCHANGED <<localVars, peer, writable, failing, lines>>

ServerSends(a) ==
  /\ a \in scheduled /\ peer[a] = "up"
  /\ lines < MaxLines
  /\ lines' = lines + 1
  /\ inbound' = [inbound EXCEPT ![a] = Append(@, "line")]
  /\ UNCHANGED <<localVars, peer, writable, failing, confirmed>>

-----------------------------------------------------------------------------
Next ==
  \/ ConnectRefused
  \/ ConnectWithoutDelegate
  \/ \E timed \in BOOLEAN :
       Connect(timed) \/ ConnectFails(timed) \/ ConnectFailsLate(timed)
  \/ Disconnect
  \/ TimerDidFire
  \/ \E a \in Attempts :
       \/ \E n \in 1 .. Len(inbound[a]) : BytesAvailable(a, n)
       \/ CanAcceptBytes(a)
       \/ \E s \in Streams : HandleStreamError(a, s)
       \/ PeerAccepts(a) \/ PeerFails(a) \/ ServerConfirms(a) \/ ServerSends(a)

Spec == Init /\ [][Next]_vars

\* The run loop fires a timer whose date has passed.
FairSpec == Spec /\ WF_vars(TimerDidFire)

-----------------------------------------------------------------------------
(***************************************************************************)
(* Properties.                                                             *)
(***************************************************************************)

\* Every variable has its type.
TypeOK ==
  /\ mConnection \in BOOLEAN
  /\ state \in {"Disconnected", "Connecting", "Connected"}
  /\ mStreams \in 0 .. MaxAttempts
  /\ mReadStreamReady \in BOOLEAN /\ mWriteStreamReady \in BOOLEAN
  /\ mWaitingForClientConfirmation \in BOOLEAN
  /\ mReceiveBuffer \in Seq(Lines)
  /\ mTimerRef \in {"none", "idle", "running"}
  /\ mTimerDelegate \in BOOLEAN /\ strays \in BOOLEAN
  /\ attempts \in 0 .. MaxAttempts
  /\ scheduled \subseteq 1 .. attempts
  /\ peer \in [Attempts -> {"none", "up", "failed"}]
  /\ writable \subseteq Attempts
  /\ failing \in [Attempts -> SUBSET Streams]
  /\ inbound \in [Attempts -> Seq(Lines)]
  /\ confirmed \subseteq Attempts
  /\ lines \in 0 .. MaxLines
  /\ outcome \in {"none", "connected", "notConnected", "disconnected"}
  /\ status \in {"Success", "EALREADY", "EINPROGRESS", "ValueAlreadySet", "ECONNREFUSED",
                "EINVAL", "EIO"}
  /\ stale \in BOOLEAN

(* No timer, not even one the manager forgot on the run loop, can end an   *)
(* established connection: the timer has no delegate then.                 *)
NoTimeoutWhenConnected ==
  ~ stale /\ mConnection /\ state = "Connected" => ~ mTimerDelegate

(* The three events that establish a session may come in any order, and    *)
(* after any number of failed attempts: the last of them connects, and the *)
(* connection never keeps connecting with all three behind it.             *)
NoMissedConnect ==
  ~ stale /\ mReadStreamReady /\ mWriteStreamReady /\ ~ mWaitingForClientConfirmation
    => state = "Connected"

(* The delegates' view is the connection's: what they were last told of an *)
(* attempt is that it connected exactly when the connection is connected.  *)
ToldAsItIs ==
  ~ stale /\ mConnection => (state = "Connected" <=> outcome = "connected")

(* An attempt with a timeout ends: it connects, fails or times out, however*)
(* the server behaves.                                                     *)
TimedAttemptsConclude ==
  state = "Connecting" /\ mTimerRef = "running" ~> state # "Connecting"

(* Connect lists its refusals: the connection is already connected, or a   *)
(* connect is in progress.  Otherwise an attempt is made.                  *)
IdleConnectIsAttempted ==
  status # "ValueAlreadySet"

(* A server that sends nothing but its confirmation connects its client,   *)
(* after whatever failed attempts: what they left of flags, streams and    *)
(* buffer does not keep a client that has read the confirmation, and whose *)
(* streams are ready, connecting (ConnectionTelnet::                       *)
(* TryClientConfirmationDataReceived).                                     *)
ConfirmedClientConnects ==
  state = "Connecting" /\ ~ stale /\ lines = 0
    => ~ /\ mStreams \in confirmed /\ peer[mStreams] = "up"
         /\ mStreams \notin writable /\ inbound[mStreams] = <<>>

(* "Consume the data to a local buffer and wait until we have received     *)
(* session layer confirmation": no confirmation is in the buffer of a      *)
(* connection that still waits for one.  Not so when other lines come      *)
(* along: see the README.                                                  *)
ConfirmationIsRecognized ==
  mWaitingForClientConfirmation =>
    \A i \in 1 .. Len(mReceiveBuffer) : mReceiveBuffer[i] # "confirmation"

(* An attempt is reported as not connected for a failure of its own.  Not  *)
(* so when a stream of an earlier one calls back: see the README.          *)
FailuresAreItsOwn ==
  outcome = "notConnected" /\ mStreams # 0 => peer[mStreams] = "failed"

=============================================================================

-------------------------- MODULE ServerConnections --------------------------
(***************************************************************************)
(* The connections of a server: the connection manager, the identifiers it *)
(* hands out, the telnet connections it accepts and the dispatch of the    *)
(* requests they carry (ConnectionManager.cpp, ConnectionTelnet.cpp,       *)
(* ConnectionSchemeIdentifierManager.cpp and CommandManager.cpp under      *)
(* src/src/lib/server).  A server is one process and one run loop: every   *)
(* action is one callback.  "telnet" is the only scheme that is supported, *)
(* so there is one set of identifiers.                                     *)
(***************************************************************************)
EXTENDS Integers, Sequences, FiniteSets

CONSTANTS
  Connections,  \* connection objects, each accepted once
  Requests,     \* requests clients may write, each once
  MaxNotifies,  \* bound: changes announced that no request asked for
  MaxDrops      \* bound: writes a stream did not take

ASSUME ServerConnectionsAssumption ==
  /\ IsFiniteSet(Connections)
  /\ MaxNotifies \in Nat
  /\ MaxDrops \in Nat

VARIABLES
  mIdentifierMap,        \* claimed identifiers
  mNextIdentifier,       \* the one the next claim returns
  mIdentifier,           \* identifier of each connection
  mActiveConnections,    \* accepted, and not disconnected
  mInactiveConnections,  \* disconnected and not yet destroyed
  state,                 \* state of each connection
  mWaitingForServerConfirmation,
  inbound,               \* what each client wrote and was not read
  mReceiveBuffer,        \* what was read and not flushed
  delivered,             \* what was written to each client
  log,                   \* every line the server sent, in order
  joined,                \* how many lines were sent before each was accepted
  missed,                \* connections whose stream refused a write
  asked,                 \* requests written so far
  notifies, drops,       \* how much of the bounds is used
  verified               \* no nlVERIFY_SUCCESS has failed

identifierVars == <<mIdentifierMap, mNextIdentifier, mIdentifier>>
poolVars       == <<mActiveConnections, mInactiveConnections, state>>
inVars         == <<inbound, mReceiveBuffer, asked>>
outVars        == <<delivered, log, missed, drops>>
vars == <<identifierVars, poolVars, mWaitingForServerConfirmation, inVars,
          outVars, joined, notifies, verified>>

Confirmation == [kind |-> "confirmation"]
Answers      == [kind : {"answer"}, for : Requests]  \* a response or an error
Notification == [kind |-> "notification"]
Sent         == Answers \cup {Notification}
Fragments    == [request : Requests, part : {"whole", "head", "tail"}]
Whole(r)     == [request |-> r, part |-> "whole"]

-----------------------------------------------------------------------------
(***************************************************************************)
(* Identifiers.  A claim takes the next identifier and skips the claimed   *)
(* ones above it; a release makes a smaller identifier the next one.       *)
(***************************************************************************)
FreeAbove(S, n) == {m \in n .. n + Cardinality(S) : m \notin S}
NextAbove(S, n) == CHOOSE m \in FreeAbove(S, n) : \A k \in FreeAbove(S, n) : m <= k

ClaimSchemeIdentifierUnmarked(x) ==
  /\ mIdentifier'     = [mIdentifier EXCEPT ![x] = mNextIdentifier]
  /\ mIdentifierMap'  = mIdentifierMap \ {mNextIdentifier}
  /\ mNextIdentifier' = NextAbove(mIdentifierMap', mNextIdentifier + 1)

ClaimSchemeIdentifier(x) ==
  /\ mIdentifier'     = [mIdentifier EXCEPT ![x] = mNextIdentifier]
  /\ mIdentifierMap'  = mIdentifierMap \cup {mNextIdentifier}
  /\ mNextIdentifier' = NextAbove(mIdentifierMap', mNextIdentifier + 1)

ReleaseSchemeIdentifierOnlyLast(i) ==
  /\ mIdentifierMap'  = mIdentifierMap \ {i}
  /\ mNextIdentifier' = IF i + 1 = mNextIdentifier THEN i ELSE mNextIdentifier

ReleaseSchemeIdentifierBelow(i) ==
  /\ mIdentifierMap'  = mIdentifierMap \ {i}
  /\ mNextIdentifier' = IF i < mNextIdentifier THEN i - 1 ELSE mNextIdentifier

ReleaseSchemeIdentifier(i) ==
  /\ mIdentifierMap'  = mIdentifierMap \ {i}
  /\ mNextIdentifier' = IF i < mNextIdentifier THEN i ELSE mNextIdentifier

-----------------------------------------------------------------------------
(***************************************************************************)
(* Writing to clients.  A connection whose stream cannot accept bytes      *)
(* drops the line and nobody is told.                                      *)
(***************************************************************************)
\* Send(aBuffer) and Send(aConnection, aBuffer): the lines reach everybody.
SendNotBeforeConfirmation(lines, D) ==
  /\ D \subseteq mActiveConnections
  /\ drops + Cardinality(D) <= MaxDrops
  /\ log'       = log \o lines
  /\ delivered' = [x \in Connections |->
                     IF x \in mActiveConnections \ D /\ ~ mWaitingForServerConfirmation[x]
                     THEN delivered[x] \o lines ELSE delivered[x]]
  /\ missed'    = missed \cup D
  /\ drops'     = drops + Cardinality(D)

Send(lines, D) ==
  /\ D \subseteq mActiveConnections
  /\ drops + Cardinality(D) <= MaxDrops
  /\ log'       = log \o lines
  /\ delivered' = [x \in Connections |->
                     IF x \in mActiveConnections \ D THEN delivered[x] \o lines ELSE delivered[x]]
  /\ missed'    = missed \cup D
  /\ drops'     = drops + Cardinality(D)

-----------------------------------------------------------------------------
Init ==
  /\ mIdentifierMap = {}
  /\ mNextIdentifier = 1
  /\ mIdentifier = [x \in Connections |-> 0]
  /\ mActiveConnections = {}
  /\ mInactiveConnections = {}
  /\ state = [x \in Connections |-> "none"]
  /\ mWaitingForServerConfirmation = [x \in Connections |-> TRUE]
  /\ inbound = [x \in Connections |-> <<>>]
  /\ mReceiveBuffer = [x \in Connections |-> <<>>]
  /\ delivered = [x \in Connections |-> <<>>]
  /\ log = <<>>
  /\ joined = [x \in Connections |-> 0]
  /\ missed = {}
  /\ asked = {}
  /\ notifies = 0
  /\ drops = 0
  /\ verified = TRUE

\* DisposeInactiveConnection looks for the connection among the active ones
\* and fails with -ENOENT, which nlVERIFY_SUCCESS reports, if it is not there.
IsDisposable(x) == x \in mActiveConnections

DisposeInactiveConnection(x) ==
  /\ IsDisposable(x)
  /\ ReleaseSchemeIdentifier(mIdentifier[x])
  /\ mInactiveConnections' = mInactiveConnections \cup {x}
  /\ mActiveConnections'   = mActiveConnections \ {x}

(***************************************************************************)
(* ListenerDidAccept: inactive connections are destroyed, an identifier is *)
(* claimed and the connection connected to the socket.                     *)
(***************************************************************************)
FlushInactiveConnections(x, s) ==
  /\ mInactiveConnections' = {}
  /\ state' = [y \in Connections |->
                 IF y = x THEN s
                 ELSE IF state[y] = "Disconnected" THEN "destroyed" ELSE state[y]]

ListenerDidAccept(x) ==
  /\ state[x] = "none"
  /\ FlushInactiveConnections(x, "Accepted")
  /\ ClaimSchemeIdentifier(x)
  /\ mActiveConnections' = mActiveConnections \cup {x}
  /\ joined' = [joined EXCEPT ![x] = Len(log)]
  /\ UNCHANGED <<mWaitingForServerConfirmation, inVars, outVars, notifies, verified>>

(***************************************************************************)
(* The same when the socket cannot be made into streams: the connection is *)
(* disposed of before it is among the active ones, so that it is not found *)
(* and its identifier stays claimed.  CreateConnection destroys it.        *)
(***************************************************************************)
ConnectionDidNotAccept(x) ==
  /\ state[x] = "none"
  /\ FlushInactiveConnections(x, "destroyed")
  /\ ClaimSchemeIdentifier(x)
  /\ verified' = (verified /\ IsDisposable(x))
  /\ UNCHANGED <<mActiveConnections, mWaitingForServerConfirmation, inVars,
                 outVars, joined, notifies>>

\* The write stream can accept bytes: the session is confirmed, once.
CanAcceptBytesRepeatedly(x) ==
  /\ state[x] = "Accepted"
  /\ delivered' = [delivered EXCEPT ![x] = Append(@, Confirmation)]
  /\ Len(delivered[x]) < 5
  /\ UNCHANGED <<mWaitingForServerConfirmation, identifierVars, poolVars, inVars,
                 log, joined, missed, drops, notifies, verified>>

CanAcceptBytes(x) ==
  /\ state[x] = "Accepted"
  /\ mWaitingForServerConfirmation[x]
  /\ mWaitingForServerConfirmation' = [mWaitingForServerConfirmation EXCEPT ![x] = FALSE]
  /\ delivered' = [delivered EXCEPT ![x] = Append(@, Confirmation)]
  /\ UNCHANGED <<identifierVars, poolVars, inVars, log, joined, missed, drops,
                 notifies, verified>>

(***************************************************************************)
(* A stream reports an error or its end: ConnectionDidDisconnect disposes  *)
(* of the connection but must not destroy it yet.                          *)
(***************************************************************************)
ConnectionDidDisconnect(x) ==
  /\ state[x] = "Accepted"
  /\ state' = [state EXCEPT ![x] = "Disconnected"]
  /\ DisposeInactiveConnection(x)
  /\ mWaitingForServerConfirmation' = [mWaitingForServerConfirmation EXCEPT ![x] = TRUE]
  /\ mReceiveBuffer' = [mReceiveBuffer EXCEPT ![x] = <<>>]
  /\ inbound' = [inbound EXCEPT ![x] = <<>>]
  /\ UNCHANGED <<mIdentifier, outVars, joined, asked, notifies, verified>>

\* A client writes a request.
ClientWrites(x, r) ==
  /\ state[x] = "Accepted"
  /\ r \notin asked
  /\ asked' = asked \cup {r}
  /\ inbound' = [inbound EXCEPT ![x] = Append(@, Whole(r))]
  /\ UNCHANGED <<identifierVars, poolVars, mWaitingForServerConfirmation,
                 mReceiveBuffer, outVars, joined, notifies, verified>>

-----------------------------------------------------------------------------
(***************************************************************************)
(* CommandManager::ConnectionManagerDidReceiveApplicationData: n fragments *)
(* are read, the last one possibly only in part.  Requests with an end are *)
(* dispatched; then the buffer is flushed, with any request that was still *)
(* incomplete.  What comes of it later matches no handler.                 *)
(***************************************************************************)
CanRead(s, n, split) ==
  /\ n \in 0 .. Len(s)
  /\ split => n < Len(s) /\ s[n + 1].part = "whole"
  /\ n > 0 \/ split

Chunk(s, n, split) ==
  SubSeq(s, 1, n) \o (IF split THEN <<[s[n + 1] EXCEPT !.part = "head"]>> ELSE <<>>)

Unread(s, n, split) ==
  IF split
  THEN <<[s[n + 1] EXCEPT !.part = "tail"]>> \o SubSeq(s, n + 2, Len(s))
  ELSE SubSeq(s, n + 1, Len(s))

\* Each request with an end is answered; the end of one that was cut is
\* refused, which answers it too.  Only the last one may lack its end.
Terminated(b) ==
  IF b # <<>> /\ b[Len(b)].part = "head" THEN SubSeq(b, 1, Len(b) - 1) ELSE b
Answer(f)     == [kind |-> "answer", for |-> f.request]

DispatchRequest(b, D) ==
  LET t == Terminated(b) IN Send([i \in 1 .. Len(t) |-> Answer(t[i])], D)

\* Fewer than three bytes are not looked at, and flushed.
TooShort(b) == Len(b) = 1 /\ b[1].part # "whole"

DidReceiveApplicationDataNotFlushed(x, n, split) ==
  /\ state[x] = "Accepted"
  /\ CanRead(inbound[x], n, split)
  /\ LET b == mReceiveBuffer[x] \o Chunk(inbound[x], n, split)
     IN \E D \in SUBSET mActiveConnections :
          /\ DispatchRequest(b, D)
          /\ mReceiveBuffer' = [mReceiveBuffer EXCEPT ![x] = b]
  /\ inbound' = [inbound EXCEPT ![x] = Unread(@, n, split)]
  /\ UNCHANGED <<identifierVars, poolVars, mWaitingForServerConfirmation, asked,
                 joined, notifies, verified>>

DidReceiveApplicationData(x, n, split) ==
  /\ state[x] = "Accepted"
  /\ CanRead(inbound[x], n, split)
  /\ LET b == mReceiveBuffer[x] \o Chunk(inbound[x], n, split)
     IN \/ \E D \in SUBSET mActiveConnections : DispatchRequest(b, D)
        \/ TooShort(b) /\ UNCHANGED outVars
  /\ mReceiveBuffer' = [mReceiveBuffer EXCEPT ![x] = <<>>]
  /\ inbound' = [inbound EXCEPT ![x] = Unread(@, n, split)]
  /\ UNCHANGED <<identifierVars, poolVars, mWaitingForServerConfirmation, asked,
                 joined, notifies, verified>>

\* SendResponse(aBuffer): a change that none of these connections asked for.
SendResponse ==
  /\ notifies < MaxNotifies
  /\ notifies' = notifies + 1
  /\ \E D \in SUBSET mActiveConnections : Send(<<Notification>>, D)
  /\ UNCHANGED <<identifierVars, poolVars, mWaitingForServerConfirmation, inVars,
                 joined, verified>>

Next ==
  \/ \E x \in Connections :
       \/ ListenerDidAccept(x)
       \/ ConnectionDidNotAccept(x)
       \/ CanAcceptBytes(x)
       \/ ConnectionDidDisconnect(x)
       \/ \E r \in Requests : ClientWrites(x, r)
       \/ \E n \in 0 .. Len(inbound[x]), split \in BOOLEAN :
            DidReceiveApplicationData(x, n, split)
  \/ SendResponse

Spec == Init /\ [][Next]_vars

-----------------------------------------------------------------------------
(***************************************************************************)
(* Properties.                                                             *)
(***************************************************************************)

\* Every variable has its type.
TypeOK ==
  /\ mIdentifierMap \subseteq Nat \ {0}
  /\ mNextIdentifier \in Nat \ {0}
  /\ mIdentifier \in [Connections -> Nat]
  /\ mActiveConnections \subseteq Connections
  /\ mInactiveConnections \subseteq Connections
  /\ state \in [Connections -> {"none", "Accepted", "Disconnected", "destroyed"}]
  /\ mWaitingForServerConfirmation \in [Connections -> BOOLEAN]
  /\ inbound \in [Connections -> Seq(Fragments)]
  /\ mReceiveBuffer \in [Connections -> Seq(Fragments)]
  /\ delivered \in [Connections -> Seq(Sent \cup {Confirmation})]
  /\ log \in Seq(Sent)
  /\ joined \in [Connections -> Nat]
  /\ missed \subseteq Connections
  /\ asked \subseteq Requests
  /\ notifies \in 0 .. MaxNotifies
  /\ drops \in 0 .. MaxDrops
  /\ verified \in BOOLEAN

(* The identifier a claim returns is the least that nobody holds, whatever *)
(* the order in which identifiers were claimed and released: the cached    *)
(* mNextIdentifier is never stale.                                         *)
NextIsLeastFree ==
  /\ mNextIdentifier \notin mIdentifierMap
  /\ \A i \in 1 .. mNextIdentifier - 1 : i \in mIdentifierMap

(* Two connected clients never have the same identifier, and a connected   *)
(* client's identifier is claimed until it disconnects.                    *)
IdentifiersAreUnique ==
  \A x, y \in mActiveConnections :
    /\ mIdentifier[x] \in mIdentifierMap
    /\ mIdentifier[x] = mIdentifier[y] => x = y

(* "A connection serves as a proxy for an active subscription to server    *)
(* state changes": whatever the order of accepts, disconnects, requests and*)
(* notifications, a connected client has been sent every line sent since it*)
(* was accepted, in order, unless its stream refused one.  All it was sent *)
(* besides is the confirmation of its session, somewhere among them.       *)
Subscription(x) == SubSeq(log, joined[x] + 1, Len(log))

ConfirmedAfter(s, k) ==
  SubSeq(s, 1, k) \o <<Confirmation>> \o SubSeq(s, k + 1, Len(s))

IsWhole(d, s) ==
  d = s \/ \E k \in 0 .. Len(s) : d = ConfirmedAfter(s, k)

SubscribersSeeEverything ==
  \A x \in mActiveConnections \ missed : IsWhole(delivered[x], Subscription(x))

(* No client is told twice that its session is established: a second line  *)
(* would reach the client as application data.                             *)
ConfirmedAtMostOnce ==
  \A x \in Connections :
    Cardinality({i \in 1 .. Len(delivered[x]) : delivered[x][i] = Confirmation}) <= 1

(* No request is answered twice, however it was cut by reads.              *)
AnsweredAtMostOnce ==
  \A i, j \in 1 .. Len(log) :
    log[i] # Notification /\ log[j] # Notification /\ log[i].for = log[j].for => i = j

(* A connection that was not accepted is disposed of: the assertion        *)
(* nlVERIFY_SUCCESS in ConnectionDidNotAccept never fails.                 *)
DisposalVerified == verified

=============================================================================

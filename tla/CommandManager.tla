--------------------------- MODULE CommandManager ---------------------------
(***************************************************************************)
(* The client command manager (src/src/lib/client/CommandManager.cpp) with *)
(* the run loop queue it is built on (src/src/lib/common/RunLoopQueue.cpp).*)
(*                                                                         *)
(* Every client is a single-threaded process driven by a run loop.  An     *)
(* application queues commands; the run loop source of the queue and that  *)
(* of the manager wake each other up; the manager sends one request at a   *)
(* time and recognises the answer by searching whatever the connection has *)
(* received for the expected pattern, since the protocol carries no        *)
(* request identifiers.  Each action below is one run loop callback, or    *)
(* one call of the application, and runs to its end.                       *)
(*                                                                         *)
(* What the pattern matching tells apart is kept: a line received is a     *)
(* message of some pattern, the error line, or part of a line.  The bytes  *)
(* are not.  The request a line answers is a history field: no code reads  *)
(* it, since the protocol does not carry it.                               *)
(***************************************************************************)
EXTENDS Naturals, Sequences

CONSTANTS
  Clients,        \* processes that each run a command manager
  Commands,       \* exchanges the applications may send, each once
  Owner,          \* Owner[c]: the client whose application sends c
  Patterns,       \* the regular expressions of responses and notifications
  Messages,       \* lines a server sends, other than the error line
  PatternOf,      \* PatternOf[m]: the regular expression line m matches
  ResponsePattern,\* ResponsePattern[c]: the one that completes command c
  Leading,        \* Leading[c]: the lines a response to c may begin with
  Surplus,        \* Surplus[c]: the lines sent behind the answer to c, for
                  \* what follows an end of the request within a name
  Error,          \* the line "ERROR"
  NoMessage,      \* nothing known yet
  NoCommand,      \* the null exchange
  MaxConnects,    \* bound: connections made by all clients together
  MaxBroadcasts,  \* bound: lines sent because of what others do
  MaxDrops        \* bound: requests that never reach a server

ASSUME CommandManagerAssumption ==
  /\ Owner \in [Commands -> Clients]
  /\ PatternOf \in [Messages -> Patterns]
  /\ ResponsePattern \in [Commands -> Patterns]
  /\ Leading \in [Commands -> SUBSET Seq(Messages)]
  /\ \A c \in Commands : \A lines \in Leading[c] : \A i \in 1 .. Len(lines) :
       PatternOf[lines[i]] # ResponsePattern[c]
  /\ Surplus \in [Commands -> SUBSET Seq(Messages \cup {Error})]
  /\ Error \notin Messages
  /\ NoMessage \notin Messages
  /\ NoCommand \notin Commands
  /\ MaxConnects \in Nat
  /\ MaxBroadcasts \in Nat
  /\ MaxDrops \in Nat

VARIABLES
  mCommandQueue,        \* RunLoopQueue::mQueue of each client
  mActiveExchangeState, \* the exchange that was sent last, or null
  mCurrentSendContext,  \* the exchange whose patterns are searched for
  queueSignaled,        \* the run loop source of the queue is signaled
  sourceSignaled,       \* the run loop source of the manager is signaled
  mReceiveBuffer,       \* lines received and not yet consumed
  connected,            \* mConnectionManager->IsConnected()
  toServer,             \* requests written and not yet read by the server
  toClient,             \* lines sent by the server and not yet read
  view,                 \* last message of each pattern that was acted upon
  sent,                 \* last message of each pattern sent to the client
  submitted,            \* commands given to SendCommand
  calls,                \* handler invocations of each command, in order
  crashed,              \* the process has dereferenced the null exchange
  connects, broadcasts, drops  \* how much of the bounds is used

managerVars == <<mCommandQueue, mActiveExchangeState, mCurrentSendContext>>
signalVars  == <<queueSignaled, sourceSignaled>>
wireVars    == <<toServer, toClient>>
boundVars   == <<connects, broadcasts, drops>>
vars == <<managerVars, signalVars, mReceiveBuffer, connected, wireVars, view,
          sent, submitted, calls, crashed, boundVars>>

Lines      == Messages \cup {Error}
NoMessages == [p \in Patterns |-> NoMessage]
Fragments  == [line : Lines, for : Commands \cup {NoCommand},
               part : {"whole", "head", "tail"}]
Results    == [result : {"complete", "error"}, for : Commands \cup {NoCommand}]

-----------------------------------------------------------------------------
(***************************************************************************)
(* The stream from the server.  One read returns n lines and, when split,  *)
(* the beginning of the next one, whose end is then what comes next.       *)
(***************************************************************************)
CanRead(s, n, split) ==
  /\ n \in 0 .. Len(s)
  /\ split => n < Len(s) /\ s[n + 1].part = "whole"
  /\ n > 0 \/ split

ChunkRead(s, n, split) ==
  SubSeq(s, 1, n) \o
    (IF split THEN <<[s[n + 1] EXCEPT !.part = "head"]>> ELSE <<>>)

LeftUnread(s, n, split) ==
  IF split
  THEN <<[s[n + 1] EXCEPT !.part = "tail"]>> \o SubSeq(s, n + 2, Len(s))
  ELSE SubSeq(s, n + 1, Len(s))

\* Bytes are appended: the end of a line completes the beginning already held.
Join(b, chunk) ==
  IF b # <<>> /\ chunk # <<>> /\ b[Len(b)].part = "head" /\ chunk[1].part = "tail"
  THEN SubSeq(b, 1, Len(b) - 1) \o <<[b[Len(b)] EXCEPT !.part = "whole"]>>
         \o SubSeq(chunk, 2, Len(chunk))
  ELSE b \o chunk

Buffered(k, n, split) ==
  Join(mReceiveBuffer[k], ChunkRead(toClient[k], n, split))

-----------------------------------------------------------------------------
(***************************************************************************)
(* Pattern matching over the whole receive buffer.                         *)
(***************************************************************************)
Completes(f, c) ==
  /\ f.part = "whole"
  /\ f.line \in Messages
  /\ PatternOf[f.line] = ResponsePattern[c]

\* A pattern of a line ends with an anchor, and is compiled without
\* REG_NEWLINE: it is found in the last line or not at all.
HasCompletion(b, c) == b # <<>> /\ Completes(b[Len(b)], c)

IsError(f)  == f.part = "whole" /\ f.line = Error
HasError(b) == b # <<>> /\ IsError(b[Len(b)])

\* The lines DispatchNotifications can consume, and what it leaves.
CompleteLines(b) ==
  IF b # <<>> /\ b[Len(b)].part = "head" THEN SubSeq(b, 1, Len(b) - 1) ELSE b
RemainderFlushed(b) == <<>>
Remainder(b) ==
  IF b # <<>> /\ b[Len(b)].part = "head" THEN <<b[Len(b)]>> ELSE <<>>

NotificationsAndErrors(b, p) ==
  {i \in 1 .. Len(b) : /\ b[i].part = "whole"
                       /\ b[i].line \in Messages => PatternOf[b[i].line] = p}

\* Positions in b of the lines a notification handler of pattern p accepts.
NotificationsOf(b, p) ==
  {i \in 1 .. Len(b) : /\ b[i].part = "whole"
                       /\ b[i].line \in Messages
                       /\ PatternOf[b[i].line] = p}

\* The application's copy of the state after the lines of b were dispatched.
DispatchNotifications(v, b) ==
  [p \in Patterns |->
     LET N == NotificationsOf(b, p)
     IN IF N = {} THEN v[p] ELSE b[CHOOSE i \in N : \A j \in N : j <= i].line]

\* Some handler runs, so the application gets the control.
Notifies(b) == \E p \in Patterns : NotificationsOf(b, p) # {}

-----------------------------------------------------------------------------
Init ==
  /\ mCommandQueue        = [k \in Clients |-> <<>>]
  /\ mActiveExchangeState = [k \in Clients |-> NoCommand]
  /\ mCurrentSendContext  = [k \in Clients |-> NoCommand]
  /\ queueSignaled        = [k \in Clients |-> FALSE]
  /\ sourceSignaled       = [k \in Clients |-> FALSE]
  /\ mReceiveBuffer       = [k \in Clients |-> <<>>]
  /\ connected            = [k \in Clients |-> FALSE]
  /\ toServer             = [k \in Clients |-> <<>>]
  /\ toClient             = [k \in Clients |-> <<>>]
  /\ view                 = [k \in Clients |-> NoMessages]
  /\ sent                 = [k \in Clients |-> NoMessages]
  /\ submitted            = {}
  /\ calls                = [c \in Commands |-> <<>>]
  /\ crashed              = [k \in Clients |-> FALSE]
  /\ connects   = 0
  /\ broadcasts = 0
  /\ drops      = 0

-----------------------------------------------------------------------------
(***************************************************************************)
(* A definition whose name says how it departs from the one it stands next *)
(* to is a slip somebody might make in the code: replacing the definition  *)
(* by it must violate one of the properties at the end.                    *)
(***************************************************************************)
SendCommandPushedInFront(k, c) ==
  /\ ~ crashed[k]
  /\ Owner[c] = k
  /\ c \notin submitted
  /\ submitted'     = submitted \cup {c}
  /\ mCommandQueue' = [mCommandQueue EXCEPT ![k] = <<c>> \o @]
  /\ queueSignaled' = [queueSignaled EXCEPT ![k] = TRUE]
  /\ UNCHANGED <<mActiveExchangeState, mCurrentSendContext, sourceSignaled,
                 mReceiveBuffer, connected, wireVars, view, sent, calls,
                 crashed, boundVars>>

(***************************************************************************)
(* The application sends a command, connected or not.                      *)
(***************************************************************************)
SendCommand(k, c) ==
  /\ ~ crashed[k]
  /\ Owner[c] = k
  /\ c \notin submitted
  /\ submitted'     = submitted \cup {c}
  /\ mCommandQueue' = [mCommandQueue EXCEPT ![k] = Append(@, c)]
  /\ queueSignaled' = [queueSignaled EXCEPT ![k] = TRUE]
  /\ UNCHANGED <<mActiveExchangeState, mCurrentSendContext, sourceSignaled,
                 mReceiveBuffer, connected, wireVars, view, sent, calls,
                 crashed, boundVars>>

(***************************************************************************)
(* RunLoopQueue::Perform, the source of the queue: QueueIsNotEmpty signals *)
(* the source of the manager, QueueIsEmpty does nothing.                   *)
(***************************************************************************)
QueuePerform(k) ==
  /\ ~ crashed[k]
  /\ queueSignaled[k]
  /\ queueSignaled'  = [queueSignaled EXCEPT ![k] = FALSE]
  /\ sourceSignaled' = [sourceSignaled EXCEPT ![k] = @ \/ mCommandQueue[k] # <<>>]
  /\ UNCHANGED <<managerVars, mReceiveBuffer, connected, wireVars, view, sent,
                 submitted, calls, crashed, boundVars>>

(***************************************************************************)
(* CommandManager::Perform, the source of the manager: ServiceCommandQueue *)
(* sends the next request once the one before has been dealt with.  When a *)
(* send context is still in use nothing is written, although the exchange  *)
(* has become the active one.  A write the stream does not take is dropped.*)
(***************************************************************************)
CanSendPipelined(k) == connected[k] /\ mCommandQueue[k] # <<>>

CanSend(k) ==
  connected[k] /\ mCommandQueue[k] # <<>> /\ mActiveExchangeState[k] = NoCommand

Written(k, c) == toServer' = [toServer EXCEPT ![k] = Append(@, c)] /\ UNCHANGED drops

Dropped == drops < MaxDrops /\ drops' = drops + 1 /\ UNCHANGED toServer

PerformSendNotPopped(k) ==
  /\ ~ crashed[k]
  /\ sourceSignaled[k]
  /\ CanSend(k)
  /\ sourceSignaled' = [sourceSignaled EXCEPT ![k] = FALSE]
  /\ LET c == Head(mCommandQueue[k])
     IN /\ queueSignaled'        = [queueSignaled EXCEPT ![k] = TRUE]
        /\ mActiveExchangeState' = [mActiveExchangeState EXCEPT ![k] = c]
        /\ mCurrentSendContext'  = [mCurrentSendContext EXCEPT ![k] = c]
        /\ Written(k, c)
  /\ UNCHANGED <<mCommandQueue, mReceiveBuffer, connected, toClient, view,
                 sent, submitted, calls, crashed, connects, broadcasts>>

PerformSend(k) ==
  /\ ~ crashed[k]
  /\ sourceSignaled[k]
  /\ CanSend(k)
  /\ sourceSignaled' = [sourceSignaled EXCEPT ![k] = FALSE]
  /\ LET c == Head(mCommandQueue[k])
     IN /\ mCommandQueue'        = [mCommandQueue EXCEPT ![k] = Tail(@)]
        /\ queueSignaled'        = [queueSignaled EXCEPT ![k] = TRUE]
        /\ mActiveExchangeState' = [mActiveExchangeState EXCEPT ![k] = c]
        /\ IF mCurrentSendContext[k] = NoCommand
           THEN /\ mCurrentSendContext' = [mCurrentSendContext EXCEPT ![k] = c]
                /\ Written(k, c) \/ Dropped
           ELSE UNCHANGED <<mCurrentSendContext, toServer, drops>>
  /\ UNCHANGED <<mReceiveBuffer, connected, toClient, view, sent, submitted,
                 calls, crashed, connects, broadcasts>>

PerformIdle(k) ==
  /\ ~ crashed[k]
  /\ sourceSignaled[k]
  /\ ~ CanSend(k)
  /\ sourceSignaled' = [sourceSignaled EXCEPT ![k] = FALSE]
  /\ UNCHANGED <<managerVars, queueSignaled, mReceiveBuffer, connected,
                 wireVars, view, sent, submitted, calls, crashed, boundVars>>

-----------------------------------------------------------------------------
(***************************************************************************)
(* The connection comes and goes.                                          *)
(***************************************************************************)
ConnectionManagerDidConnectSilently(k) ==
  /\ ~ crashed[k]
  /\ ~ connected[k]
  /\ connects < MaxConnects
  /\ connects'  = connects + 1
  /\ connected' = [connected EXCEPT ![k] = TRUE]
  /\ UNCHANGED <<managerVars, signalVars, mReceiveBuffer, wireVars, view,
                 sent, submitted, calls, crashed, broadcasts, drops>>

ConnectionManagerDidConnect(k) ==
  /\ ~ crashed[k]
  /\ ~ connected[k]
  /\ connects < MaxConnects
  /\ connects'       = connects + 1
  /\ connected'      = [connected EXCEPT ![k] = TRUE]
  /\ sourceSignaled' = [sourceSignaled EXCEPT ![k] = TRUE]
  /\ UNCHANGED <<managerVars, queueSignaled, mReceiveBuffer, wireVars, view,
                 sent, submitted, calls, crashed, broadcasts, drops>>

(***************************************************************************)
(* What a disconnect leaves behind, and what else remains when a callback  *)
(* that read up to left returns without one.  A callback may disconnect:   *)
(* DidDisconnect is delivered before Disconnect returns.  The exchanges    *)
(* queued and active are forgotten; none of their handlers is called.      *)
(***************************************************************************)
Hangup(k) ==
  /\ connected'     = [connected EXCEPT ![k] = FALSE]
  /\ mCommandQueue' = [mCommandQueue EXCEPT ![k] = <<>>]
  /\ toServer'      = [toServer EXCEPT ![k] = <<>>]
  /\ toClient'      = [toClient EXCEPT ![k] = <<>>]
  /\ sent'          = [sent EXCEPT ![k] = NoMessages]

ReadOn(k, left) ==
  /\ toClient' = [toClient EXCEPT ![k] = left]
  /\ UNCHANGED <<connected, mCommandQueue, toServer, sent>>

EndExchange(k) ==
  /\ mActiveExchangeState' = [mActiveExchangeState EXCEPT ![k] = NoCommand]
  /\ mCurrentSendContext'  = [mCurrentSendContext EXCEPT ![k] = NoCommand]

ConnectionManagerDidDisconnectContextKept(k) ==
  /\ ~ crashed[k]
  /\ connected[k]
  /\ Hangup(k)
  /\ mActiveExchangeState' = [mActiveExchangeState EXCEPT ![k] = NoCommand]
  /\ mReceiveBuffer' = [mReceiveBuffer EXCEPT ![k] = <<>>]
  /\ UNCHANGED <<mCurrentSendContext, signalVars, view, submitted, calls,
                 crashed, boundVars>>

ConnectionManagerDidDisconnect(k) ==
  /\ ~ crashed[k]
  /\ connected[k]
  /\ Hangup(k)
  /\ EndExchange(k)
  /\ mReceiveBuffer' = [mReceiveBuffer EXCEPT ![k] = <<>>]
  /\ UNCHANGED <<signalVars, view, submitted, calls, crashed, boundVars>>

-----------------------------------------------------------------------------
(***************************************************************************)
(* ConnectionManagerDidReceiveApplicationData, once the connection has     *)
(* appended what it read, by which pattern is found first.                 *)
(***************************************************************************)
Reads(k, n, split) == ~ crashed[k] /\ connected[k] /\ CanRead(toClient[k], n, split)

Calls(k, r, f) ==
  [c \in Commands |-> IF c = mActiveExchangeState[k]
                      THEN Append(calls[c], [result |-> r, for |-> f.for])
                      ELSE calls[c]]

(* OnResponseCompleteHandler: the lines before the response are dispatched *)
(* to the notification handlers, the response to the active exchange.  A   *)
(* response that other lines follow is not recognised: see ReceiveAwaiting.*)
ReceiveCompletion(k, n, split) ==
  /\ Reads(k, n, split)
  /\ mCurrentSendContext[k] # NoCommand
  /\ LET b == Buffered(k, n, split)
     IN /\ HasCompletion(b, mCurrentSendContext[k])
        /\ view'  = [view EXCEPT ![k] = DispatchNotifications(@, b)]
        /\ calls' = Calls(k, "complete", b[Len(b)])
  /\ mReceiveBuffer' = [mReceiveBuffer EXCEPT ![k] = <<>>]
  /\ EndExchange(k)
  /\ sourceSignaled' = [sourceSignaled EXCEPT ![k] = TRUE]
  /\ Hangup(k) \/ ReadOn(k, LeftUnread(toClient[k], n, split))
  /\ UNCHANGED <<queueSignaled, submitted, crashed, boundVars>>

(* The handler of a notification before the response disconnects, as hlxc  *)
(* does when the state change it waits for is reported: the active exchange*)
(* is gone when DispatchResponse dereferences it.                          *)
ReceiveCompletionAfterStop(k, n, split) ==
  /\ Reads(k, n, split)
  /\ mCurrentSendContext[k] # NoCommand
  /\ LET b == Buffered(k, n, split)
         notifications == SubSeq(b, 1, Len(b) - 1)
     IN /\ HasCompletion(b, mCurrentSendContext[k])
        /\ Notifies(notifications)
        /\ view' = [view EXCEPT ![k] = DispatchNotifications(@, notifications)]
  /\ mReceiveBuffer' = [mReceiveBuffer EXCEPT ![k] = <<>>]
  /\ EndExchange(k)
  /\ Hangup(k)
  /\ crashed' = [crashed EXCEPT ![k] = TRUE]
  /\ UNCHANGED <<signalVars, submitted, calls, boundVars>>

ReceiveErrorNotSignaled(k, n, split) ==
  /\ Reads(k, n, split)
  /\ mCurrentSendContext[k] # NoCommand
  /\ LET b == Buffered(k, n, split)
     IN /\ ~ HasCompletion(b, mCurrentSendContext[k])
        /\ HasError(b)
        /\ calls' = Calls(k, "error", b[Len(b)])
  /\ mReceiveBuffer' = [mReceiveBuffer EXCEPT ![k] = <<>>]
  /\ EndExchange(k)
  /\ Hangup(k) \/ ReadOn(k, LeftUnread(toClient[k], n, split))
  /\ UNCHANGED <<signalVars, view, submitted, crashed, boundVars>>

(* OnResponseErrorHandler: everything received is flushed, including the   *)
(* notifications before the error.                                         *)
ReceiveError(k, n, split) ==
  /\ Reads(k, n, split)
  /\ mCurrentSendContext[k] # NoCommand
  /\ LET b == Buffered(k, n, split)
     IN /\ ~ HasCompletion(b, mCurrentSendContext[k])
        /\ HasError(b)
        /\ calls' = Calls(k, "error", b[Len(b)])
  /\ mReceiveBuffer' = [mReceiveBuffer EXCEPT ![k] = <<>>]
  /\ EndExchange(k)
  /\ sourceSignaled' = [sourceSignaled EXCEPT ![k] = TRUE]
  /\ Hangup(k) \/ ReadOn(k, LeftUnread(toClient[k], n, split))
  /\ UNCHANGED <<queueSignaled, view, submitted, crashed, boundVars>>

\* The response is not there yet, or not last: wait for more, dispatching
\* nothing.
ReceiveAwaiting(k, n, split) ==
  /\ Reads(k, n, split)
  /\ mCurrentSendContext[k] # NoCommand
  /\ LET b == Buffered(k, n, split)
     IN /\ ~ HasCompletion(b, mCurrentSendContext[k])
        /\ ~ HasError(b)
        /\ mReceiveBuffer' = [mReceiveBuffer EXCEPT ![k] = b]
  /\ ReadOn(k, LeftUnread(toClient[k], n, split))
  /\ UNCHANGED <<mActiveExchangeState, mCurrentSendContext, signalVars, view,
                 submitted, calls, crashed, boundVars>>

\* No request is outstanding: complete lines are notifications.
ReceiveNotifications(k, n, split) ==
  /\ Reads(k, n, split)
  /\ mCurrentSendContext[k] = NoCommand
  /\ LET b == Buffered(k, n, split)
     IN /\ view' = [view EXCEPT ![k] = DispatchNotifications(@, CompleteLines(b))]
        /\ \/ /\ mReceiveBuffer' = [mReceiveBuffer EXCEPT ![k] = Remainder(b)]
              /\ ReadOn(k, LeftUnread(toClient[k], n, split))
              /\ UNCHANGED mActiveExchangeState
           \/ /\ Notifies(CompleteLines(b))
              /\ mReceiveBuffer' = [mReceiveBuffer EXCEPT ![k] = <<>>]
              /\ Hangup(k)
              /\ mActiveExchangeState' = [mActiveExchangeState EXCEPT ![k] = NoCommand]
  /\ UNCHANGED <<mCurrentSendContext, signalVars, submitted, calls, crashed,
                 boundVars>>

ConnectionManagerDidReceiveApplicationData(k) ==
  \E n \in 0 .. Len(toClient[k]), split \in BOOLEAN :
     \/ ReceiveCompletion(k, n, split)
     \/ ReceiveCompletionAfterStop(k, n, split)
     \/ ReceiveError(k, n, split)
     \/ ReceiveAwaiting(k, n, split)
     \/ ReceiveNotifications(k, n, split)

-----------------------------------------------------------------------------
(***************************************************************************)
(* The server, as far as a client can tell: it answers the requests of a   *)
(* connection in order, and every line it sends to one client, errors      *)
(* included, it sends to all of them.  A request is what ends with "]": a  *)
(* name that holds one makes two requests, each with an answer.            *)
(***************************************************************************)
Responses(c) == {m \in Messages : PatternOf[m] = ResponsePattern[c]}

Answers(c) ==
  {<<Error>>} \cup UNION {{lines \o <<m>> : m \in Responses(c)} : lines \in Leading[c]}

PositionsOf(lines, p) ==
  {i \in 1 .. Len(lines) : lines[i] \in Messages /\ PatternOf[lines[i]] = p}

SentAfterAll(k, lines) ==
  [p \in Patterns |->
     LET N == PositionsOf(lines, p)
     IN IF N = {} THEN sent[k][p]
                  ELSE lines[CHOOSE i \in N : \A j \in N : j <= i]]

SendAll(k, lines, c) ==
  /\ toClient' =
       [toClient EXCEPT
          ![k] = @ \o [i \in 1 .. Len(lines) |->
                        [line |-> lines[i], for |-> c, part |-> "whole"]]]
  /\ sent' = [sent EXCEPT ![k] = SentAfterAll(k, lines)]

SentAfter(k, l) ==
  [p \in Patterns |-> IF l \in Messages /\ PatternOf[l] = p THEN l ELSE sent[k][p]]

Send(k, l, c) ==
  /\ toClient' = [toClient EXCEPT
                    ![k] = Append(@, [line |-> l, for |-> c, part |-> "whole"])]
  /\ sent'     = [sent EXCEPT ![k] = SentAfter(k, l)]

ServerAnswers(k) ==
  /\ connected[k]
  /\ toServer[k] # <<>>
  /\ LET c == Head(toServer[k])
     IN \E answer \in Answers(c), surplus \in Surplus[c] :
          SendAll(k, answer \o surplus, c)
  /\ toServer' = [toServer EXCEPT ![k] = Tail(@)]
  /\ UNCHANGED <<managerVars, signalVars, mReceiveBuffer, connected, view,
                 submitted, calls, crashed, boundVars>>

\* The error line, or a response, to a request of someone else.
Broadcast(k, l) ==
  /\ connected[k]
  /\ broadcasts < MaxBroadcasts
  /\ broadcasts' = broadcasts + 1
  /\ Send(k, l, NoCommand)
  /\ UNCHANGED <<managerVars, signalVars, mReceiveBuffer, connected, toServer,
                 view, submitted, calls, crashed, connects, drops>>

-----------------------------------------------------------------------------
Client(k) ==
  \/ \E c \in Commands : SendCommand(k, c)
  \/ QueuePerform(k)
  \/ PerformSend(k)
  \/ PerformIdle(k)
  \/ ConnectionManagerDidConnect(k)
  \/ ConnectionManagerDidDisconnect(k)
  \/ ConnectionManagerDidReceiveApplicationData(k)

Server(k) ==
  \/ ServerAnswers(k)
  \/ \E l \in Lines : Broadcast(k, l)

Next == \E k \in Clients : Client(k) \/ Server(k)

Spec == Init /\ [][Next]_vars

(***************************************************************************)
(* The run loop services every source that is signaled and reads every     *)
(* stream that has data, and the server answers.  Nothing makes an         *)
(* application send, connect or disconnect, nor another client act.        *)
(***************************************************************************)
Fairness ==
  \A k \in Clients :
    /\ WF_vars(QueuePerform(k))
    /\ WF_vars(PerformSend(k) \/ PerformIdle(k))
    /\ WF_vars(ConnectionManagerDidReceiveApplicationData(k))
    /\ WF_vars(ServerAnswers(k))

FairSpec == Spec /\ Fairness

-----------------------------------------------------------------------------
(***************************************************************************)
(* Properties.                                                             *)
(***************************************************************************)

\* Every variable of the manager, the wire and the application has its type.
TypeOK ==
  /\ mCommandQueue \in [Clients -> Seq(Commands)]
  /\ mActiveExchangeState \in [Clients -> Commands \cup {NoCommand}]
  /\ mCurrentSendContext \in [Clients -> Commands \cup {NoCommand}]
  /\ queueSignaled \in [Clients -> BOOLEAN]
  /\ sourceSignaled \in [Clients -> BOOLEAN]
  /\ mReceiveBuffer \in [Clients -> Seq(Fragments)]
  /\ connected \in [Clients -> BOOLEAN]
  /\ toServer \in [Clients -> Seq(Commands)]
  /\ toClient \in [Clients -> Seq(Fragments)]
  /\ view \in [Clients -> [Patterns -> Messages \cup {NoMessage}]]
  /\ sent \in [Clients -> [Patterns -> Messages \cup {NoMessage}]]
  /\ submitted \subseteq Commands
  /\ calls \in [Commands -> Seq(Results)]
  /\ crashed \in [Clients -> BOOLEAN]
  /\ connects \in 0 .. MaxConnects
  /\ broadcasts \in 0 .. MaxBroadcasts
  /\ drops \in 0 .. MaxDrops

(* The exchange that waits for an answer is the one whose patterns are     *)
(* searched for: the two fields are set and cleared by different functions *)
(* (ServiceCommandQueue, OnResponse*Handler, ...DidReceiveApplicationData, *)
(* ...DidDisconnect) and a mismatch would dereference the null exchange.   *)
ExchangeMatchesContext ==
  \A k \in Clients : mActiveExchangeState[k] = mCurrentSendContext[k]

(* Whenever a command could be sent, one of the two run loop sources is    *)
(* signaled, so that the queue is looked at again: no wakeup is lost       *)
(* between Push, Pop, the two Perform functions, the response handlers and *)
(* a connection that comes late.                                           *)
NoLostWakeup ==
  \A k \in Clients :
    connected[k] /\ mCommandQueue[k] # <<>> /\ mActiveExchangeState[k] = NoCommand
      => queueSignaled[k] \/ sourceSignaled[k]

(* A command manager concludes commands in the order they were sent, calls *)
(* at most one handler of each and never one it has abandoned.             *)
Pending ==
  [k \in Clients |-> IF mActiveExchangeState[k] = NoCommand
                     THEN mCommandQueue[k]
                     ELSE <<mActiveExchangeState[k]>> \o mCommandQueue[k]]

Service == INSTANCE CommandService WITH pending <- Pending

ServiceSpec == Service!Spec

(* No command ever has two of its handlers called, or one called twice:    *)
(* the exchange of a command is freed after the first call.                *)
AtMostOneCall == \A c \in Commands : Len(calls[c]) <= 1

(* A handler is called for the answer to the very request of its command.  *)
(* OnResponseErrorHandler is "invoked when a prior client command request  *)
(* receives an error response".  It is so until a line is on its way that  *)
(* answers none of the client's requests, since the protocol cannot tell   *)
(* them apart: one for the request of another client, or one for the rest  *)
(* of a name that ended an earlier request of its own, once the first      *)
(* answer has concluded that.                                              *)
AnswersOwnRequest(c) == \A i \in 1 .. Len(calls[c]) : calls[c][i].for = c

Disturbs(d) == \E surplus \in Surplus[d] : surplus # <<>>

Disturbed(c) ==
  \/ broadcasts > 0
  \/ \E d \in Commands \ {c} :
       Owner[d] = Owner[c] /\ Disturbs(d) /\ calls[d] # <<>>

UndisturbedAnswersOwnRequest ==
  \A c \in Commands : AnswersOwnRequest(c) \/ Disturbed(c)

(* A client that has read everything sent to it on its connection has acted*)
(* upon the last line of each pattern: no notification is lost, whether it *)
(* was solicited, unsolicited, or received in pieces.  It is so as long as *)
(* the client sends nothing itself: see OnResponseCompleteHandler.         *)
ViewFollowsServer ==
  \A k \in Clients :
    connected[k] /\ toClient[k] = <<>> /\ mCurrentSendContext[k] = NoCommand
      => \A p \in Patterns : sent[k][p] \in {NoMessage, view[k][p]}

IdleViewFollowsServer == submitted = {} => ViewFollowsServer

(* No callback reaches DispatchResponse without an active exchange.        *)
NoNullDispatch == \A k \in Clients : ~ crashed[k]

(* A command that was sent while connected is in the end answered, or      *)
(* abandoned by a disconnect: SendCommand takes "the timeout by which the  *)
(* response should be received".                                           *)
IsPending(c) ==
  \/ mActiveExchangeState[Owner[c]] = c
  \/ \E i \in 1 .. Len(mCommandQueue[Owner[c]]) : mCommandQueue[Owner[c]][i] = c

CommandsConclude ==
  \A c \in Commands : connected[Owner[c]] /\ IsPending(c) ~> ~ IsPending(c)

(* OnResponseCompleteHandler is "invoked when a prior client command       *)
(* request receives a successful command response", OnResponseErrorHandler *)
(* when it "receives an error response": no response stays in the receive  *)
(* buffer.  One does when a line of another pattern was read with it: the  *)
(* response is not the last line then, nor ever again.                     *)
IsAnswer(f) ==
  /\ f.for \in Commands /\ f.part = "whole"
  /\ f.line \in Messages => PatternOf[f.line] = ResponsePattern[f.for]

IsBuried(k) ==
  \E i \in 1 .. Len(mReceiveBuffer[k]) : IsAnswer(mReceiveBuffer[k][i])

ResponsesAreNotBuried == \A k \in Clients : IsBuried(k) ~> ~ IsBuried(k)

(* A server that receives and answers every request leaves nothing pending *)
(* but behind a buried answer.                                             *)
ServedCommandsConclude ==
  \A c \in Commands :
    connected[Owner[c]] /\ IsPending(c)
      ~> ~ IsPending(c) \/ drops > 0 \/ IsBuried(Owner[c])

=============================================================================

------------------------------- MODULE Proxy -------------------------------
(***************************************************************************)
(* The proxy daemon hlxproxyd: a server to its clients and a client of the *)
(* HLX server.  A query is answered from the models the proxy fills with   *)
(* what passes through it (its cache); what is not known, and whatever     *)
(* changes something, is passed on, the asking connection and its request  *)
(* kept, by address, in a context until the server has answered.           *)
(*                                                                         *)
(* Requests are for items of one kind, say the mutes of zones; the pattern *)
(* an answer is recognised by is that of the kind, for any item and value. *)
(***************************************************************************)
EXTENDS Integers, SequencesExt, FiniteSetsExt

CONSTANTS
  Connections,     \* connections of clients to the proxy
  Items, Values,   \* what the server keeps: a value for each item
  Null,            \* a value that is not known, or not given
  MaxAsks,         \* bound on requests
  MaxDisturbances  \* bound on values that change at the server by themselves
                   \* and requests it refuses

ASSUME ProxyAssumption ==
  /\ Null \notin Values
  /\ {MaxAsks, MaxDisturbances} \subseteq Nat

VARIABLES
  status,          \* of the process: running, crashed or stopped
  conn,            \* of each connection: none, accepted, disconnected, destroyed
  memory,          \* the request at the head of each receive buffer
  pending,         \* contexts, in the order of the command queue
  active,          \* the first of them is the active exchange
  toServer,        \* requests on their way to the server
  toProxy,         \* lines on their way back
  received,        \* lines kept in the receive buffer while the proxy waits
  server,          \* the values at the server
  cache,           \* the models of the proxy
  view,            \* what each client was told
  asks, answers,   \* history: requests received from, and answered to, each
  flushed,         \* history: a line was dropped unread
  swallowed,       \* history: items of which a line was kept from the clients
  overlapped,      \* history: a client asked before it was answered
  mistaken,        \* history: a query was answered for another item
  disturbances     \* how often the server changed or refused

clientVars == <<conn, memory, view>>

serverVars == <<toServer, toProxy, server, disturbances>>

historyVars == <<asks, answers, flushed, swallowed, overlapped, mistaken>>

vars == <<status, clientVars, pending, active, received, serverVars, cache,
          historyVars>>

Requests ==
  [op : {"query"}, item : Items, value : {Null}]
    \cup [op : {"set"}, item : Items, value : Values]

\* A line that tells a value, the error line, and a line of another kind.
Lines == Items \X Values

Error == <<>>

Other == <<"other">>

\* The proxy starts to listen when it has refreshed its models, or, if it is
\* told not to, at once.
Init ==
  /\ status = "running"
  /\ conn = [x \in Connections |-> "none"]
  /\ memory = [x \in Connections |-> Null]
  /\ pending = <<>> /\ active = FALSE
  /\ toServer = <<>> /\ toProxy = <<>> /\ received = <<>>
  /\ server \in [Items -> Values]
  /\ cache \in {server, [i \in Items |-> Null]}
  /\ view = [x \in Connections |-> [i \in Items |-> Null]]
  /\ asks = [x \in Connections |-> 0]
  /\ answers = [x \in Connections |-> 0]
  /\ flushed = FALSE /\ swallowed = {} /\ overlapped = FALSE /\ mistaken = FALSE
  /\ disturbances = 0

(***************************************************************************)
(* Lines to clients                                                        *)
(***************************************************************************)
\* Whoever asked, all connected clients are told.
Told(seen, line) ==
  [x \in Connections |->
     IF conn[x] = "accepted" /\ line \in Lines
     THEN [seen[x] EXCEPT ![line[1]] = line[2]]
     ELSE seen[x]]

\* Which of the lines tell something of item i.
About(lines, i) == {k \in DOMAIN lines : lines[k] \in Lines /\ lines[k][1] = i}

\* Lines that are no answers: the models take one after the other, so that
\* the last one about an item counts, and then the clients.
Heard(values, lines) ==
  [i \in Items |-> IF About(lines, i) = {}
                   THEN values[i]
                   ELSE lines[Max(About(lines, i))][2]]

ToldAll(seen, lines) ==
  [x \in Connections |-> IF conn[x] = "accepted"
                         THEN Heard(seen[x], lines)
                         ELSE seen[x]]

Answered(x) == [answers EXCEPT ![x] = @ + 1]

\* An answer starts with the asking connection, in whatever state it is:
\* without a write stream, or destroyed, that is the end of the process.
SendResponse(x, seen, line) ==
  IF conn[x] = "accepted"
  THEN /\ view' = Told(seen, line)
       /\ answers' = Answered(x)
       /\ UNCHANGED status
  ELSE /\ status' = "crashed"
       /\ UNCHANGED <<view, answers>>

(***************************************************************************)
(* Requests of clients                                                     *)
(***************************************************************************)
\* A query of what is known is answered at once; one of what is not known is
\* passed on, as whatever the receive buffer now holds.
QueryRequestReceivedHandler(x, item, asked, rest, values, seen) ==
  IF values[item] = Null
  THEN /\ pending' = Append(rest, [conn |-> x, op |-> "query", asked |-> asked,
                                   request |-> memory'[x]])
       /\ view' = seen
       /\ UNCHANGED <<status, answers, mistaken>>
  ELSE /\ pending' = rest
       /\ mistaken' = (mistaken \/ (conn[x] = "accepted" /\ item # asked))
       /\ SendResponse(x, seen, <<item, values[item]>>)

ProxyMutationCommand(x, r) ==
  /\ pending' = Append(pending, [conn |-> x, op |-> "set", asked |-> r.item,
                                 request |-> r])
  /\ UNCHANGED <<status, view, answers, mistaken>>

AsksUpTo == MapThenSumSet(LAMBDA y : asks[y], Connections)

\* One receive buffer for all connections.
RequestReceivedInSharedBuffer(x, r) ==
  /\ status = "running" /\ conn[x] = "accepted"
  /\ AsksUpTo < MaxAsks
  /\ asks' = [asks EXCEPT ![x] = @ + 1]
  /\ overlapped' = (overlapped \/ \E i \in DOMAIN pending : pending[i].conn = x)
  /\ memory' = [y \in Connections |-> r]
  /\ \/ /\ r.op = "query"
        /\ QueryRequestReceivedHandler(x, r.item, r.item, pending, cache, view)
     \/ /\ r.op = "set"
        /\ ProxyMutationCommand(x, r)
  /\ UNCHANGED <<conn, active, received, serverVars, cache, flushed, swallowed>>

\* The receive buffer is flushed when the handler has returned: its storage
\* stays, and takes the next request.
RequestReceived(x, r) ==
  /\ status = "running" /\ conn[x] = "accepted"
  /\ AsksUpTo < MaxAsks
  /\ asks' = [asks EXCEPT ![x] = @ + 1]
  /\ overlapped' = (overlapped \/ \E i \in DOMAIN pending : pending[i].conn = x)
  /\ memory' = [memory EXCEPT ![x] = r]
  /\ \/ /\ r.op = "query"
        /\ QueryRequestReceivedHandler(x, r.item, r.item, pending, cache, view)
     \/ /\ r.op = "set"
        /\ ProxyMutationCommand(x, r)
  /\ UNCHANGED <<conn, active, received, serverVars, cache, flushed, swallowed>>

(***************************************************************************)
(* Connections of clients                                                  *)
(***************************************************************************)
\* Connections that ended are destroyed when the next one is made.
ListenerDidAccept(x) ==
  /\ status = "running" /\ conn[x] = "none"
  /\ conn' = [y \in Connections |->
                CASE y = x -> "accepted"
                  [] conn[y] = "disconnected" -> "destroyed"
                  [] OTHER -> conn[y]]
  /\ UNCHANGED <<status, memory, view, pending, active, received, serverVars,
                 cache, historyVars>>

\* What waits for an answer is left as it is.
ConnectionDidDisconnect(x) ==
  /\ status = "running" /\ conn[x] = "accepted"
  /\ conn' = [conn EXCEPT ![x] = "disconnected"]
  /\ UNCHANGED <<status, memory, view, pending, active, received, serverVars,
                 cache, historyVars>>

\* The server disconnects, or a connection ends with any error but a reset:
\* all that the process kept goes with it.
Stop ==
  /\ status = "running"
  /\ status' = "stopped"
  /\ conn' = [x \in Connections |-> "none"]
  /\ memory' = [x \in Connections |-> Null]
  /\ pending' = <<>> /\ active' = FALSE
  /\ toServer' = <<>> /\ toProxy' = <<>> /\ received' = <<>>
  /\ cache' = [i \in Items |-> Null]
  /\ view' = [x \in Connections |-> cache']
  /\ UNCHANGED <<server, disturbances, historyVars>>

(***************************************************************************)
(* The server                                                              *)
(***************************************************************************)
\* It answers requests in turn; a query with a line, a change with the line
\* that tells it, and what it refuses with the error line.  What it does when
\* the proxy is gone is left out.
ServerAnswers ==
  /\ status = "running" /\ toServer # <<>>
  /\ toServer' = Tail(toServer)
  /\ LET r == Head(toServer)
     IN \/ /\ server' = IF r.op = "set"
                        THEN [server EXCEPT ![r.item] = r.value]
                        ELSE server
           /\ toProxy' = Append(toProxy, <<r.item, server'[r.item]>>)
           /\ UNCHANGED disturbances
        \/ /\ disturbances < MaxDisturbances
           /\ disturbances' = disturbances + 1
           /\ toProxy' = Append(toProxy, Error)
           /\ UNCHANGED server
  /\ UNCHANGED <<status, clientVars, pending, active, received, cache,
                 historyVars>>

ServerChanges(i, v) ==
  /\ status = "running" /\ disturbances < MaxDisturbances /\ server[i] # v
  /\ disturbances' = disturbances + 1
  /\ server' = [server EXCEPT ![i] = v]
  /\ toProxy' = Append(toProxy, <<i, v>>)
  /\ UNCHANGED <<status, clientVars, pending, active, received, toServer,
                 cache, historyVars>>

\* Something changes that is not of the kind.
ServerChangesOther ==
  /\ status = "running" /\ disturbances < MaxDisturbances
  /\ disturbances' = disturbances + 1
  /\ toProxy' = Append(toProxy, Other)
  /\ UNCHANGED <<status, clientVars, pending, active, received, toServer,
                 server, cache, historyVars>>

(***************************************************************************)
(* The command manager towards the server (CommandManager)                 *)
(***************************************************************************)
\* The request is not written.
ServiceCommandQueueUnwritten ==
  /\ status = "running" /\ ~active /\ pending # <<>>
  /\ active' = TRUE
  /\ UNCHANGED <<status, clientVars, pending, received, serverVars, cache,
                 historyVars>>

ServiceCommandQueue ==
  /\ status = "running" /\ ~active /\ pending # <<>>
  /\ active' = TRUE
  /\ toServer' = Append(toServer, Head(pending).request)
  /\ UNCHANGED <<status, clientVars, pending, received, toProxy, server,
                 disturbances, cache, historyVars>>

\* What is read at once: the first n lines.
Reads(n) ==
  /\ status = "running" /\ n \in 1..Len(toProxy)
  /\ toProxy' = SubSeq(toProxy, n + 1, Len(toProxy))
  /\ UNCHANGED <<conn, memory, toServer, server, disturbances, asks,
                 overlapped>>

\* What the receive buffer then holds.
Buffered(n) == received \o SubSeq(toProxy, 1, n)

\* The models are not told.
ReceiveNotificationsUncached(n) ==
  /\ Reads(n) /\ ~active
  /\ view' = ToldAll(view, Buffered(n))
  /\ UNCHANGED <<status, pending, active, received, cache, answers, flushed,
                 swallowed, mistaken>>

\* The clients are not told.
ReceiveNotificationsUntold(n) ==
  /\ Reads(n) /\ ~active
  /\ cache' = Heard(cache, Buffered(n))
  /\ UNCHANGED <<status, pending, active, received, view, answers, flushed,
                 swallowed, mistaken>>

ReceiveNotifications(n) ==
  /\ Reads(n) /\ ~active
  /\ cache' = Heard(cache, Buffered(n))
  /\ view' = ToldAll(view, Buffered(n))
  /\ UNCHANGED <<status, pending, active, received, answers, flushed,
                 swallowed, mistaken>>

\* The patterns end at the end of the buffer: the answer, for whichever item,
\* and the error line are recognised where they are the last line of it.
HasCompletion(n) == Last(Buffered(n)) \in Lines

HasError(n) == Last(Buffered(n)) = Error

\* The change is answered with the line that completed it.
ProxyMutationCompleteHandler(x, seen, line) ==
  /\ SendResponse(x, seen, line)
  /\ pending' = Tail(pending)
  /\ UNCHANGED mistaken

\* The query is handled once more, from the receive buffer as it is now; the
\* models have taken the line, the clients are told by what comes of it.
ProxyObservationCompleteHandler(x, asked, values, seen) ==
  IF conn[x] = "destroyed"
  THEN /\ status' = "crashed"
       /\ pending' = Tail(pending)
       /\ view' = seen
       /\ UNCHANGED <<answers, mistaken>>
  ELSE QueryRequestReceivedHandler(x, memory[x].item, asked, Tail(pending),
                                   values, seen)

\* Lines before the answer are notifications.
ReceiveCompletion(n) ==
  /\ Reads(n) /\ active /\ HasCompletion(n)
  /\ LET line == Last(Buffered(n))
         seen == ToldAll(view, Front(Buffered(n)))
         context == Head(pending)
     IN /\ cache' = Heard(cache, Buffered(n))
        /\ \/ /\ context.op = "set"
              /\ ProxyMutationCompleteHandler(context.conn, seen, line)
              /\ UNCHANGED swallowed
           \/ /\ context.op = "query"
              /\ ProxyObservationCompleteHandler(context.conn, context.asked,
                                                 cache', seen)
              /\ swallowed' = IF line[1] = memory[context.conn].item
                              THEN swallowed
                              ELSE swallowed \cup {line[1]}
  /\ received' = <<>> /\ active' = FALSE
  /\ UNCHANGED flushed

\* The context is dropped without an answer.
ReceiveErrorUnanswered(n) ==
  /\ Reads(n) /\ active /\ HasError(n)
  /\ flushed' = (flushed \/ \E i \in DOMAIN Buffered(n) : Buffered(n)[i] \in Lines)
  /\ pending' = Tail(pending)
  /\ received' = <<>> /\ active' = FALSE
  /\ UNCHANGED <<status, view, answers, cache, swallowed, mistaken>>

\* Lines before the error line are flushed with it.
ReceiveError(n) ==
  /\ Reads(n) /\ active /\ HasError(n)
  /\ flushed' = (flushed \/ \E i \in DOMAIN Buffered(n) : Buffered(n)[i] \in Lines)
  /\ SendResponse(Head(pending).conn, view, Error)
  /\ pending' = Tail(pending)
  /\ received' = <<>> /\ active' = FALSE
  /\ UNCHANGED <<cache, swallowed, mistaken>>

\* Neither: nothing is dispatched, and all stays in the buffer.
ReceiveAwaiting(n) ==
  /\ Reads(n) /\ active /\ ~HasCompletion(n) /\ ~HasError(n)
  /\ received' = Buffered(n)
  /\ UNCHANGED <<status, view, pending, active, cache, answers, flushed,
                 swallowed, mistaken>>

ConnectionManagerDidReceiveApplicationData ==
  \E n \in 1..Len(toProxy) :
    \/ ReceiveNotifications(n) \/ ReceiveAwaiting(n)
    \/ ReceiveCompletion(n) \/ ReceiveError(n)

(***************************************************************************)
(* Specification                                                           *)
(***************************************************************************)
Next ==
  \/ \E x \in Connections :
       \/ ListenerDidAccept(x) \/ ConnectionDidDisconnect(x)
       \/ \E r \in Requests : RequestReceived(x, r)
  \/ Stop
  \/ ServerAnswers
  \/ \E i \in Items, v \in Values : ServerChanges(i, v)
  \/ ServerChangesOther
  \/ ServiceCommandQueue
  \/ ConnectionManagerDidReceiveApplicationData

Spec == Init /\ [][Next]_vars

\* The run loop of a running process gets round to its sources, and the
\* server answers.
FairSpec ==
  /\ Spec
  /\ WF_vars(ServiceCommandQueue)
  /\ WF_vars(ConnectionManagerDidReceiveApplicationData)
  /\ WF_vars(ServerAnswers)

(***************************************************************************)
(* Properties                                                              *)
(***************************************************************************)
Contexts ==
  [conn : Connections, op : {"query", "set"}, asked : Items,
   request : Requests]

TypeOK ==
  /\ status \in {"running", "crashed", "stopped"}
  /\ conn \in [Connections ->
                {"none", "accepted", "disconnected", "destroyed"}]
  /\ memory \in [Connections -> Requests \cup {Null}]
  /\ pending \in Seq(Contexts) /\ active \in BOOLEAN
  /\ toServer \in Seq(Requests)
  /\ {toProxy, received} \subseteq Seq(Lines \cup {Error, Other})
  /\ server \in [Items -> Values]
  /\ cache \in [Items -> Values \cup {Null}]
  /\ view \in [Connections -> [Items -> Values \cup {Null}]]
  /\ asks \in [Connections -> Nat] /\ answers \in [Connections -> Nat]
  /\ {flushed, overlapped, mistaken} \subseteq BOOLEAN
  /\ swallowed \subseteq Items
  /\ disturbances \in Nat

Waiting(x) == {i \in DOMAIN pending : pending[i].conn = x}

\* Every request received was answered or has a context that waits for the
\* answer, errors and repeated observations included
\* (ObjectControllerBasis::ProxyMutationCommand, ProxyObservationCommand).
NoRequestForgotten ==
  status = "running" =>
    \A x \in Connections : asks[x] = answers[x] + Cardinality(Waiting(x))

\* With what is still to be read the models of the proxy come to what the
\* server has, or do not know it (ObjectControllerBasis::ProxyNotification).
CacheFollowsServer ==
  status = "running" /\ ~flushed =>
    \A i \in Items : Heard(cache, received \o toProxy)[i] \in {Null, server[i]}

\* And so do those of its clients, but for the line that ends an observation
\* of another item: it stays with the proxy
\* (ObjectControllerBasis::ProxyObservationCompleteHandler).
ClientsFollowServer ==
  status = "running" /\ ~flushed =>
    \A x \in Connections, i \in Items \ swallowed :
      conn[x] = "accepted" => ToldAll(view, received \o toProxy)[x][i] \in {Null, server[i]}

\* A client that waits for its answer before it asks again is answered what
\* it asked for: the kept address of its request still holds the request
\* (Detail::ProxyContext::mRequestBuffer).
SequentialClientsAreAnswered == ~overlapped => ~mistaken

\* The answer was read, but a line of another kind came behind it with the
\* same read: it is not recognised.
IsBuried ==
  active /\ \E i \in DOMAIN received : received[i] \in Lines \cup {Error}

\* Whoever asked is answered, while the process runs, unless the answer of
\* whoever is first in the queue is buried: that one, and all behind, wait
\* until a line of the kind comes last
\* (CommandManager::ConnectionManagerDidReceiveApplicationData).
RequestsAreAnswered ==
  \A x \in Connections :
    (status = "running" /\ Waiting(x) # {})
      ~> (status # "running" \/ Waiting(x) = {} \/ IsBuried)

\* The manual says that the proxy "allows for concurrent client sessions that
\* do not corrupt one another" (doc/man/hlxproxyd.txt:106): one that ends
\* while its request is with the server does not end the others.
NoDanglingAnswer == status # "crashed"
=============================================================================

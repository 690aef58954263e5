# OpenHLX in TLA+

OpenHLX controls HLX audio matrix receivers over a line-oriented telnet protocol.
Its library has a client side and a server side; three programs use them: the
command line client `hlxc`, the simulator daemon `hlxsimd` (a server) and the proxy
daemon `hlxproxyd` (a server to many clients and a client of one server). This
directory holds TLA+ modules of the library and of the three programs, TLC
configurations for small instances, and theorems checked by TLAPS.
Source paths below are relative to the repository's `src/lib` unless they start with
`hlxc`, `hlxproxyd` or `hlxsimd` (which are under its `src`).

Contents: 1 inventory, 2 modules, 3 runs, 4 theorems, 5 where code and comments
disagree, 6 what is not modelled.

## 1. Inventory

Every program is a single thread around a Core Foundation run loop. Concurrency is
therefore that of callbacks (each runs to its end, but any may run next, and one may
call another before it returns) and of processes that talk over TCP.

| Component | State | Operations | Correct when |
|---|---|---|---|
| Client command manager (`client/CommandManager.cpp`) and run loop queue (`common/RunLoopQueue.cpp`) | queue of exchanges, active exchange, send context, two run loop sources, notification handlers | `SendCommand`, the `Perform` of both sources, receipt of data, connect, disconnect | commands are concluded in order, each once, by their own answer; no wakeup is lost; every notification reaches its handler |
| Client connection (`client/ConnectionManager.cpp`, `client/ConnectionTelnet.cpp`, `client/ConnectionFactory.cpp`, `common/Timer.cpp`) | connection state, streams and their readiness, confirmation, receive buffer, timer | `Connect`, `Disconnect`, stream callbacks, timer | an attempt ends; delegates are told what happened; a timer never ends a connection that is up; an attempt is judged by its own events |
| Server connections (`server/ConnectionManager.cpp`, `server/ConnectionSchemeIdentifierManager.cpp`, `server/ConnectionTelnet.cpp`, listener) | active and inactive connections, identifiers, confirmation | accept, failed accept, disconnect, `Send` to one or all | identifiers are unique and reused from the least; every subscriber sees every line, in order |
| Server command manager (`server/CommandManager.cpp`) | request handlers, receive buffers | `DispatchRequest`, `SendResponse`, `SendErrorResponse` | each request is answered at most once |
| Client controllers (`client/*Controller*.cpp`) | models of zones, groups, sources, ...; refresh count | `Refresh`, setters, handlers of responses and notifications, `DeriveGroupState` | a refresh ends; models follow the server; the state of groups follows that of their zones |
| Server controllers (`server/*Controller*.cpp`), `hlxsimd` | models, saved configuration, dirty flag | request handlers; save, load, reset | the response and the notification say what the model says; what is not dirty is saved; a restart restores |
| `hlxproxyd` | one client and one server side, a context for each pending request, models as a cache | proxy a mutation, proxy an observation, forward a notification | the asking client is answered and still exists then; the cache follows the server |
| `hlxc` | options, expected completion event | connect, refresh, one command, stop | it stops when its command is done |
| Models (`model/`) | values with limits | setters, increments, identifier collections | limits hold, "already set" is reported |
| Command buffers, patterns (`common/Command*`) | none | composition and recognition of lines | the other side takes a line for what was said |
| `common/ConnectionBuffer.cpp` | storage, head, tail, capacity | `Put`, `Get`, `Flush`, `Reserve` | what was put is got, capacity suffices |
| Addresses, URLs, percentages | none | conversions | formats round trip |

How they interact: controllers call `CommandManager::SendCommand` and are called back
by completion, error and notification handlers; the command manager is a delegate of
the connection manager, which is the delegate of the connection, whose callbacks come
from streams; the connection manager is also the delegate of its timer. On the server
a listener hands sockets to the connection manager, connections hand what they read to
the command manager, which looks up a handler and answers through the connection
manager to *every* active connection. The proxy's controllers are both.

What is hard here:

- the protocol has no request identifiers: the client recognises an answer by searching
  what it received for a pattern, generic over identifiers and levels, while the server
  sends every line, errors included, to every client;
- data arrives in any pieces, and both sides flush whole buffers;
- handlers call back into the object that called them (a notification handler may
  disconnect);
- two run loop sources wake each other up, and a wakeup while not connected is consumed;
- a connection object is used for many attempts, but each attempt has streams of its
  own and a timer that may outlive it;
- identifiers are handed out from a cached next value and come back in any order;
- objects are destroyed later than they are disconnected, and the proxy keeps
  references to them across a round trip;
- a change is made, announced, marked dirty and told to the asking client by separate
  calls in each of some eighty request handlers, and repeated at each client from lines
  that differ with who asked;
- each side's patterns are written apart from the code of the other that composes the
  lines they must match, and they overlap.

`PROJECT.json` lists each hazard with its line and the properties about it.

## 2. Modules

| Module | Stands for |
|---|---|
| `CommandService` | what a command manager promises: abstract specification |
| `CommandManager` | client command manager with its queue, and the stream to a server |
| `ClientConnection` | client connection manager, telnet connection, timer |
| `ServerConnections` | server connections, identifiers, dispatch and broadcast |
| `Models`, `ElementModels` | the data models: values with limits; zones, groups, ... made of them |
| `SimulatorZones`, `SimulatorGroups` | the request handlers of `hlxsimd`, as operators |
| `Commands`, `ClientRequests` | the calls of the client library and the kinds of line that end them |
| `ClientModels` | a client's handlers of lines; derivation of groups |
| `ProxyRequests` | which requests the proxy forwards and which lines it passes on |
| `Simulator` | the composition: `hlxsimd` with its backup, clients, telnet users, a proxy and clients behind it |
| `Proxy` | `hlxproxyd`: contexts, cache, connections, errors |
| `Lines`, `Patterns`, `ClientCommands`, `ServerCommands` | lines as tokens, and the patterns of both sides |
| `Protocol` | the composition: every command sent, dispatched, answered, heard |
| `Hlxc` | `hlxc` over the client's application controller, a server and other clients |
| `MC...` | instances for TLC |
| `..._proofs` | theorems about the module of that name |
| `SimulatorClients_proofs` | theorems about the clients of `Simulator`, on top of `Simulator_proofs` |

How they build on each other:

    Models <- ElementModels <- SimulatorZones <- SimulatorGroups <-+
                        ^----- ClientModels <----------------------+- Simulator
    Commands <- ClientRequests  (instance C of Simulator) <--------+
             <- ProxyRequests   (instance P of Simulator) <--------+
    Lines <- Patterns <- ClientCommands (instance Client of Protocol)
                      <- ServerCommands (instance Server of Protocol)
    CommandService   (instance Service of CommandManager: the refinement)

Where components meet, each of two modules has a simple form of the other: `CommandManager`
has a server that sends its answers to everybody, which is what `ServerConnections`
does; `ClientConnection` lets a line come before the confirmation, which
`ServerConnections` allows; `Simulator` has clients that read the lines of one answer
together, while `CommandManager` cuts streams anywhere; `Proxy` has one kind of
request, while `Simulator` has a proxy that relays them all; `Protocol` says that the
tuples the other modules exchange are what the two sides make of the lines.

In the modules that are run, a definition such as `PerformSendNotPopped`, placed just
before `PerformSend`, is a slip somebody might make in that function. It is used by no
action; substituting it breaks a property, and `PROJECT.json` ("mutants") says which.

### CommandManager

One client process per member of `Clients`. `mCommandQueue`, `mActiveExchangeState` and
`mCurrentSendContext` are the members of these names; `queueSignaled` and
`sourceSignaled` say that the run loop source of the queue and of the manager are
signaled; `mReceiveBuffer`, `toServer` and `toClient` are what is in the buffer and in
the two directions of the connection.

| Action | Code |
|---|---|
| `SendCommand` | `CommandManager::SendCommand`, `RunLoopQueue::Push` |
| `QueuePerform` | `RunLoopQueue::Perform`, `QueueIsNotEmpty`, `QueueIsEmpty` |
| `PerformSend`, `PerformIdle` | `CommandManager::Perform`, `ServiceCommandQueue`, `RunLoopQueue::Pop`, `SendRequest` |
| `ConnectionManagerDidConnect`, `ConnectionManagerDidDisconnect` | the delegations of these names |
| `ReceiveCompletion`, `ReceiveCompletionAfterStop` | `OnResponseCompleteHandler`, `DispatchNotifications`, `DispatchResponse` |
| `ReceiveError` | `OnResponseErrorHandler` |
| `ReceiveAwaiting`, `ReceiveNotifications` | the remaining branches of `ConnectionManagerDidReceiveApplicationData` |
| `ServerAnswers`, `Broadcast` | the server and the other clients |

A line is a message with the pattern it matches, the error line, or a piece of either
(`part` is `"head"` or `"tail"`): a read takes any number of whole lines and possibly the
beginning of one more. The response and error patterns end with `(\r\n)*$`, so an answer
is recognised only at the end of the buffer. The server answers a request with all its
lines at once: some of other patterns, perhaps (`Leading`, as a query is answered with many),
and the response, or the error; and behind them with what it makes of the rest of a name
that ended the request early (`Surplus`: `DispatchRequest` takes the first `]` for the end,
`server/CommandManager.cpp:464-531`, and answers what follows with a line, an error
mostly, of its own). The field `for` of a line is the request it
answers; only properties read it. `view` is what the application was told last, per
pattern; `sent` what the server sent last on this connection. A handler may disconnect:
both response actions and `ReceiveNotifications` have that alternative, and
`ReceiveCompletionAfterStop` is the case in which the response handler then finds no
active exchange. The alternative of `PerformSend` in which the context is in use is in
the code; theorem `ExchangeAlwaysMatchesContext` shows that it is never taken.

Abstracted: the bytes; the memory of exchanges; the handlers of single controllers.
A request is either written or lost as a whole.

`CommandService` has the pending commands of each client in order. A command is
submitted at the end; the oldest is answered, by one call; all are abandoned together.
`CommandManager` implements it with `pending` mapped to the active exchange followed by
the queue (`Pending`). `ServiceSpec` is checked by TLC and proved.

### ClientConnection

One connection object and one manager, as in a client program. `mConnection` says that
the manager refers to the connection (and is its delegate); `state` is the connection's
state; `mStreams` is the attempt whose streams the connection refers to, or 0;
`scheduled` are the attempts whose streams are still on the run loop. `mTimerRef` and
`mTimerDelegate` are the manager's timer and whether its delegate is set; `strays` says
that `Timer::Init` replaced a timer that was still repeating. `stale` becomes true when a
callback comes from streams the connection no longer refers to.

| Action | Code |
|---|---|
| `ConnectRefused`, `ConnectWithoutDelegate`, `Connect`, `ConnectFails`, `ConnectFailsLate` | `ConnectionManager::Connect`, by its early returns; `ConnectionTelnet::Connect`, `Timer::Init`, `SetDelegate`, `Start` |
| `Disconnect` | `ConnectionManager::Disconnect`, `ConnectionTelnet::Disconnect`, `CloseStreams` |
| `TimerDidFire` | `Timer::TimerFiredCallBack`, `ConnectionManager::TimerDidFire` |
| `BytesAvailable` | `CFReadStreamCallback`, `DidReceiveDataHandler` |
| `CanAcceptBytes` | `CFWriteStreamCallback` |
| `HandleStreamError` | `ConnectionTelnet::HandleStreamError` |
| `PeerAccepts`, `PeerFails`, `ServerConfirms`, `ServerSends` | the network and the server |

`ConnectFails` is the streams that cannot be created; `ConnectFailsLate` what may fail
once they are (`client/ConnectionTelnet.cpp:255-331`): the connection then goes on
referring to them, and if it got as far as opening them they may yet report why.
A failure is reported by one stream or by both, in callbacks of their own. Durations are
abstracted from: the timer may fire at any time once it runs. (Its interval is computed
in whole seconds, `common/Timer.cpp:108`; a timer with interval 0 fires once, which is one
of these behaviours for safety.)

### ServerConnections

One server process. `mActiveConnections`, `mInactiveConnections`, `mIdentifierMap`,
`mNextIdentifier`, `mIdentifier` and `mWaitingForServerConfirmation` are the members of
these names; `inbound` and `delivered` are the streams to and from each client; `log` is
every line the server sent.

| Action | Code |
|---|---|
| `ListenerDidAccept`, `ConnectionDidNotAccept` | `ListenerDidAccept`, `CreateConnection`, `FlushInactiveConnections`, `ClaimSchemeIdentifier`, `ConnectionTelnet::Connect` |
| `CanAcceptBytes` | `CFWriteStreamCallback` |
| `ConnectionDidDisconnect` | `HandleStreamError`, `ConnectionDidDisconnect`, `DisposeInactiveConnection`, `ReleaseSchemeIdentifier` |
| `DidReceiveApplicationData` | `CommandManager::ConnectionManagerDidReceiveApplicationData`, `DispatchRequest`, the answer through `ConnectionManager::Send` |
| `SendResponse` | `SendResponse(aBuffer)`: a change nobody asked for |
| `ClientWrites` | a client |

`Send` has an argument for the connections whose streams refuse the write: the line is
lost there and nobody is told (`ShouldTransmitDataHandler`). Connections that were
refused a line are remembered in `missed`. An identifier is claimed from the cached next
value; the code's loop that skips claimed identifiers is "the least free one above".

### Models, Simulator and what they are made of

`Models` has each value of `model/` (volume, balance, tone, crossover, band, name,
identifier collection, ...) as operators from an old value and an argument to an
*outcome*: a status (`"success"`, `"already"`, an error) and a value. `ElementModels`
puts them together to zones, groups, presets, favorites and sources.

`SimulatorZones` and `SimulatorGroups` have every request handler of `hlxsimd` as an
operator to an outcome with the lines of the answer and whether the configuration became
dirty, on every path of the code: refused, already set, changed. They also have the
backup (`SaveZone`, `LoadGroup` and their like). `ClientModels` has the handlers by which a
client applies a line, and `DeriveGroupState`. `ClientRequests` has, for each call of the
client library, the validation that keeps it from the wire, the request, and the
kinds of line that end its exchange; `ProxyRequests` what the proxy makes of a request
and of a line.

| Action of `Simulator` | Code |
|---|---|
| `Start`, `Stop` | `hlxsimd/ApplicationController.cpp`: `InitConfiguration`, start and end of the process |
| `TimerDidFire` | the 30 s timer: saves the backup if dirty |
| `Refresh`, `RefreshFromProxy` | `client/ApplicationController::Refresh` of a client of the server, or of one behind the proxy |
| `Request`, `QueryZone`, `QueryProxy`, `RequestBass`, `RequestTreble` | a call of the library, the handler, the lines of the answer at every client, the proxy included |
| `TelnetRequest` | what no call of the library sends: identifiers out of range, names too long, network settings, clearing a group |

`views` are the clients; a client that waits (`expects`) keeps lines it cannot conclude
with in its `buffer`, as the command manager does. `unsaid` remembers what the code
changes without announcing it (a load or reset; a zone unmuted by a refused volume; the
other zones of a group whose last zone already had the value) or leaves out of a refresh (the
names of the sources are told up to the first that is not known), `adrift` the clients
whose groups are not derived again (a line that adds or removes a zone, be it from a request,
a query or somebody's refresh, or an adjustment of a group's volume that a waiting client takes
for the answer to its own: it moves zones and group apart), `toggled` the zones whose mute was toggled, which marks
nothing dirty. These are facts of the code; the properties say that nothing else goes wrong.

A request is applied, answered and heard in one step: the lines of one answer are read
at once. That a client refreshes only while no other waits is a bound.

### Proxy

`hlxproxyd` between `Connections` and one server, for requests about `Items` of one kind.

| Action | Code |
|---|---|
| `ListenerDidAccept`, `ConnectionDidDisconnect` | server side connections, destruction of the disconnected at the next accept |
| `RequestReceived` | `ProxyMutationCommand`, `ProxyObservationCommand` of `ObjectControllerBasis.cpp` and a controller's request handlers |
| `ServiceCommandQueue`, `ConnectionManagerDidReceiveApplicationData` | the client side's command manager with the proxy's completion, error and notification handlers |
| `ServerAnswers`, `ServerChanges`, `ServerChangesOther` | the server |
| `Stop` | the server disconnects, or a connection ends with an error other than a reset (`hlxproxyd.cpp:664-706`) |

A context has the connection that asked and the *address* of its request: `memory` is what
is at that address when it is used again, since the server's command manager flushes the
receive buffer once the handler returns. `conn` has a state `"destroyed"`; an answer sent
to such a connection, or to one whose streams are closed, makes `status` `"crashed"`.
`overlapped`, `mistaken`, `swallowed` and `flushed` are history: a client that asked before
it was answered, a query answered for another item, a line that ended another item's
observation and was told to nobody, a line an error flushed.

### Lines and Protocol

A line is a sequence of tokens (a run of letters, a number, a name); a pattern is a sequence
of sets of tokens, some captured. `Patterns` has those both sides share, `ClientCommands` and
`ServerCommands` those of one. A request and a line mean a tuple, `means`; what the
other side takes them for is `as`: any handler whose pattern matches may take it, and
makes of its captures what the code does. Names are cut by the composer and may contain `]`, the
end of a request: a chunk that no pattern matches is an error. A number is parsed from as many
characters as the handler passes on (`Leading`), which four handlers take from the wrong capture
(`Parsed`): see section 5.

`ZonesAsk`, `GroupsAsk`, `OthersAsk` are the calls of the library; `DispatchRequest` is
`server/CommandManager.cpp` with the handlers `hlxsimd` registers and the lines they
compose; `DidReceiveApplicationData` is the client's command manager with its
notification handlers.

### Hlxc

The options in order (`DecodeOptions`), the connection, the refresh of every controller
over a queue of queries, name lookup, the dispatch of one command, the change that ends
the process, signals, errors, a reset of the connection, and other clients that change,
query and are refused meanwhile. `app` is the client library's application controller:
what is queued, what is waited for, how many controllers are refreshed, the view.

What a server keeps are the settings `Stored`: of a group, its zones and its name. A command
about a group reaches the zones it has (`Reached`, `Obeyed`), and the state of the group
is what a client derives from its zones (`Derived`: muted if all are, the set of their sources,
the mean of their volumes), at the end of its refresh (`DeriveGroupState`) and whenever it hears
of one of them or of a change of its zones. A client tells its delegate only what came to differ
(`Changes`), where a group may pass through values while its zones are set one by one
(`Passing`). The response to a toggle or an adjustment of a group carries no value: the client whose exchange
it ends works it out from its own models (`ToggleMuteCompleteHandler`,
`AdjustVolumeCompleteHandler`), and no other client understands it. `handled` says whether the setting that the command was about changed,
or the zones did while the group stayed what it was (`"shifted"`). `regrouped` says that others
have changed a group since the connection was made.

## 3. Runs

`pass` runs check all the properties of their configuration; a `violation` run checks
one statement of a manual, a comment or an assertion that the code does not keep.

| Run | Instance | Result |
|---|---|---|
| `manager` | 1 client, a name that ends its own request and a query answered with two lines, 2 connects, 2 foreign lines, 1 lost request; fairness | safety of the command manager, the refinement and `ServedCommandsConclude` hold |
| `manager_buried` | 1 command, 1 foreign line; fairness | `ResponsesAreNotBuried` violated |
| `client` | 3 attempts, 1 line besides confirmations; fairness | safety of the connection and `TimedAttemptsConclude` hold |
| `client_retry` | 2 attempts | `IdleConnectIsAttempted` violated |
| `server` | 3 connections, 2 requests, 1 notification, 1 refused write; symmetry | safety of the server's connections holds |
| `simulator` | 1 client, 1 telnet user, 1 zone with 1 band, 1 group, all requests, 2 of them in a row, 2 starts; fairness | limits, clients, backup and restart hold |
| `simulator_clients` | a client, the proxy, a client behind it, a telnet user; 2 zones in 1 group; volumes, mutes, groups, queries, 2 requests | clients follow the server, groups follow zones, nobody waits for a real change |
| `simulator_lost` | 2 zones, 2 starts, sound requests | `SavedIsComplete` violated |
| `proxy` | 2 connections, 2 items, 2 values, 2 requests between them, 1 disturbance; fairness | safety of the proxy and `RequestsAreAnswered` hold |
| `proxy_dangling` | 1 request, no disturbance; symmetry | `NoDanglingAnswer` violated |
| `protocol` | every command, 2 identifiers (of one digit and of two), 2 to 3 levels, names with and without `]`; deadlock checked | both sides understand each other |
| `hlxc` | 33 command lines, 2 zones that differ in volume, their group, a preset, a source, 1 disturbance (2 of one command line); fairness | `hlxc` succeeds only after its dispatch, and ends once what it was asked to change has changed |

What the properties say, beyond types:

- `ExchangeMatchesContext`, `NoLostWakeup`, `AtMostOneCall`, `ServiceSpec`: section 4.
- `UndisturbedAnswersOwnRequest`: a handler gets the answer to its own request as long as no
  line answers the request of another client, and none is left over from an earlier request
  of its own, one that was answered twice because a name held `]` and that its first answer has
  concluded (`Disturbed`). The two conditions are the limits of the protocol: with either
  line the statement is false, and its second condition is needed even of a client that is alone.
- `IdleViewFollowsServer`: a client that never sends anything and has read everything
  has acted upon the last line of each pattern, however the lines were cut.
- `ServedCommandsConclude`: a command pending on a connection is in the end answered or
  abandoned, if no request was lost and no response buried.
- `NoTimeoutWhenConnected`, `NoMissedConnect`, `ToldAsItIs`: section 4. They are about
  connections that no streams of an earlier attempt have called back (`stale`).
- `ConfirmedClientConnects`: what failed attempts left of flags, streams and buffer does
  not keep a client from connecting to a server that confirms.
- `TimedAttemptsConclude`: an attempt with a timeout ends, whatever the server does.
- `SubscribersSeeEverything`: a connected client was sent exactly the lines sent since it
  was accepted, in order, but for confirmations.
- `ConfirmedAtMostOnce`, `AnsweredAtMostOnce`: no second confirmation; no request is
  answered twice, even if it was cut by reads.
- `ClientsFollowServer` (`Simulator`): after every request of anybody, a refreshed client has
  what the server has, although the lines it heard were the end of its own exchange, a
  notification, or relayed by the proxy.
- `GroupsFollowZones`: the group state a client derived is what its zones make of it,
  whichever of group and zones a change came to first.
- `LeftWaitingWhenAlreadySet`: only a request for what is set already leaves its client
  waiting.
- `SavedUnlessDirty`, `RestartRestores`, `DirtyIsSaved`: what is not dirty is on disk, a
  start brings it back through setters that validate and derive, and what is dirty is
  saved in the end.
- `BassKeepsTreble`: setting one of two values that are sent together leaves the other.
- `TypeOK` of `Simulator` is no mere typing: it bounds every level after every request,
  one beyond each limit included.
- `NoRequestForgotten`: section 4. `CacheFollowsServer`, `ClientsFollowServer` (`Proxy`): the
  models of the proxy, and what its clients were told, come to what the server has once all
  under way is read. `SequentialClientsAreAnswered`: a client that waits for its answers
  gets those of the items it asked for. `RequestsAreAnswered`: whoever asked is answered,
  unless an answer is buried.
- `HandledAsAsked`, `HeardAsSaid`: a request and a line are taken by the one handler meant,
  as what was meant, but for the requests of which a handler loses digits (`LosesDigits`,
  section 5). `EndsWithTheAnswer`: no line but the last, or an error, ends an
  exchange. `AnswerIsOnTheWay`: whoever waits has a request or a line under way.
- `SuccessFollowsDispatch`: no success out of the refresh. `EndsOnceDone`: whatever object and
  operation the options name, in that order, once the server has changed that setting
  `hlxc` ends. A setting of a group is what its zones come to: a command that changes the zones
  but not the mean of their volumes does not change it, and `hlxc` waits for ever (section 5).
  Others may do meanwhile what they like to zones, but nothing to a group: an adjustment of
  a group by somebody else is told without a value, so that what the client derives from
  then on is not what the server's zones make of it.

Bounds, and why they suffice. Commands interact through the one active exchange and the
queue behind it: two show one active and one waiting, with different patterns. Two
connects give one reconnect with everything a first connection left behind; two foreign
lines give one before and one after a response in the same read. A third attempt of the
connection meets what is left by a failure and by a timer together. Three connections
release an identifier below, between and above others; two requests give one cut request
among whole ones. A lost write is a rare event whose effect does not depend on how many
there were. In `Simulator` two requests in a row give the states a second one meets: set,
set to the same, beyond a limit, set by somebody else; two starts give one restart; two
zones of one group differ in what they hold and give a group both a last zone and
another; levels have a lowest, a highest and one in between, or these alone. Which requests a run
tries is its `Families`: the two runs between them try all. Names are sequences with a
prefix, a longer one and one too long (`NameLengthMax` is 2 for 16). In `Proxy` two requests,
of one connection or of two, for one item or for two, meet in the queue and at one address. In `Protocol` a name
with a `]` at each place gives a chunk too many, one too few and one garbled; an identifier of two
digits where there may be one of one digit tells their lengths apart. In `Hlxc` the two zones start
at the maximum and one below it, so that adjusting their group moves both, one or neither, and
its mean or not; a second disturbance is tried with the command line that adjusts zones in both ways.
The counters that bound the environment (`MaxConnects`, `MaxBroadcasts`, `MaxDrops`,
`MaxAttempts`, `MaxLines`, `MaxNotifies`, `MaxRequests`, `MaxStarts`, `MaxAsks`,
`MaxDisturbances`) appear in the guards of environment actions and of calls of an
application only, and in `Dropped` and `Send` for lost writes. Symmetry is used for
connections, requests, items and values where no liveness is checked.

All configurations but `Protocol.cfg` say `CHECK_DEADLOCK FALSE`: a client that has nothing
to send, a server without clients and a process that ended wait, and with a bounded
environment they may do so for ever. The client of `Protocol` asks again and again, so a
deadlock there would be an exchange without an end.

Fairness. `CommandManager!FairSpec`: the run loop performs every signaled source and
reads every stream that has data (weak fairness of `QueuePerform`, of the two `Perform`
actions together, and of receipt), and the server answers what it read. Nothing obliges
an application to send, connect or disconnect, or another client to act.
`ClientConnection!FairSpec`: a repeating timer on the run loop fires (hence timeouts of
a second or more). `Simulator!FairSpec`: the repeating 30 s timer fires, and a write does not
fail for ever. `Proxy!FairSpec` and `Hlxc!Spec`: the run loop services the command queue and
reads what arrived, the server handles requests and answers them, and a process that
decided to exit does.

## 4. Theorems

All theorems hold for every value of the constants allowed by the assumptions of
their module (finite sets where cardinalities are taken, natural bounds, null values
distinct from real ones).

- `CommandManager_proofs`. `TypeCorrect`; from `TypeOK` alone,
  `ExchangeAlwaysMatchesContext` and `WakeupNeverLost`, which are inductive relative to
  it. `ManagerImplementsService`: initial states map to initial states; steps that
  leave queue and active exchange alone stutter (`StutterStep`), a disconnect is
  `Abandon` (`AbandonStep`), both response handlers are `Answer` (`AnswerStep`). The last
  needs `ExchangeMatchesContext`: a handler is called because the *context* matched but is
  that of the *active exchange*. `CalledAtMostOnce` follows from the refinement and
  `CommandService_proofs!ServiceCallsOnce`.

  `AnswersOwnUntilDisturbed` needs `OwnAnswers`: a client that is not disturbed has nothing under
  way without an active exchange (`Quiet`), and with one either its request alone (`Asked`)
  or lines and pieces that all answer it (`Answered`). No more than that is so of a request
  that is answered twice, whose second answer stays behind when the first one has concluded it:
  from then on the client is disturbed. Of any other, the line that ends the exchange is the last
  of the answer (`EndsLast`): once it is in the receive buffer, at most the end of a line that was
  cut is still to be read, so that nothing stays behind. What makes it hard is that an error
  line ends an exchange whoever it answers, that the lines of an answer are read in any pieces,
  and that a cut leaves a piece whose rest is at the head of the stream.

  `IdleClientFollows` needs `IdleFollows`: what is in the receive buffer and what is
  still to be read are, put together again, whole lines `u` (`InPieces`), and acting upon
  all of `u` leads from what the application was told to what was sent (`Follows`). A
  read splits `u` anywhere (`ReadOfPieces`); dispatching a part of it and then the rest
  is dispatching all of it (`DispatchBoth`), which is where the induction over the lines
  would be: `DispatchNotifications` is a condition on each pattern, not a fold, so that none
  is needed.
- `CommandService_proofs`. `ServiceCallsOnce`: pending commands were submitted, are
  distinct, belong to their client and have had no call; all others at most one.
- `ClientConnection_proofs`. The three safety properties are proved together with
  `IdleWhenLetGo`: a connection the application has let go of is disconnected and has no
  streams. Without it the invariant is not inductive, since `Connect` looks at the
  state only of a connection the manager refers to. Theorems `TypeCorrect`,
  `TimerNeverEndsConnection`, `LastEventConnects`, `DelegatesToldAsItIs`.
  `ConfirmationConnects` is of a client that was sent confirmations only: the receive buffer
  is then empty between callbacks, what is under way is of the attempt it belongs to, and
  the flags of the attempt whose streams the connection has say what its peer did
  (`Confirming`, with `Untouched`: attempts that were not made have no traffic).
- `ServerConnections_proofs`. `NextAlwaysLeastFree` and `IdentifiersAlwaysUnique`: the
  first is inductive with the types of the identifiers and their finiteness (the search
  for the next one ends within the number of claimed ones); the second needs that the
  next identifier is free, and that connections not active yet hold none.
  `AlwaysAnsweredAtMostOnce` and `AlwaysConfirmedAtMostOnce` follow from `StreamInv`: a receive
  buffer is empty between callbacks, an unread request waits in one place only, none that
  waits was answered, and a connection that waits for its confirmation got none. The type
  invariant, `TypeCorrect`, is a part of it: a fragment or a line keeps its type through
  `Terminated`, `Flushed` and `Send`. `SubscribersAlwaysSeeEverything` follows from
  `Subscribed`: what was delivered, confirmations left out, is the log since the accept.
- `Proxy_proofs`. `NeverForgotten`: with a typed queue, and a nonempty one while an exchange
  is active, requests are answers plus waiting contexts. Each handler takes as many
  contexts from the queue as it answers: one for a completion or an error (`OneLess`), none
  for an answer from the cache; a request passed on adds one (`OneMore`). The case to doubt
  is the completion of a query, whose handler reads the request anew: if it is by then for
  an item the proxy does not know, the context that was taken off is put behind the others
  (`QueryCounts`).
  `AlwaysTyped` is not a formality: a context's address is of a
  connection that is there or was. `AnsweredInTurn`: as long as no client asked twice
  (`overlapped`), a connection has one context at most and the request it is for is still
  what its address holds (`InTurn`). `CacheFollows`: the models of the proxy, acted upon by the
  receive buffer and by the stream behind it, are the server's (`Following`), and nothing is
  kept in the buffer but while an exchange is active. `ClientsFollow`: the same of each
  client, along what it was passed on (`ClientsFollowing`), but for items of which a line that
  ended another's observation was kept from it. Both follow lines by the value of the last
  line for an item, not by a fold; that of a concatenation is that of its second part, or
  else of its first.

- `Simulator_proofs`, for any counts of zones, groups and other elements that are at least
  one, and any limits. Assumed: names are strings of characters, the factory
  configuration has a value within the limits for everything, and a file found at the first
  start is one that `hlxsimd` wrote, complete or not. Nothing is assumed of what clients
  and telnet users send. `ServerIsTyped`: every value of the server's models is unknown or
  within its limits, and what is on disk can be loaded. `AlwaysSavedUnlessDirty`: one lemma
  for each setter, handler and controller says that its outcome is typed and *honest*, that
  is, either dirty or one that leaves what a save would write as it was. `StartRestores`.

  Neither saving property is inductive. Together they follow from `Kept`: the types, and
  that a clean backup is the `Same` as what a save would write, part by part and zone by zone
  but for the mutes of zones that were toggled (`CleanIsSaved`). Three cases need it so. A
  load keeps a name that begins with the saved one, so only because the names are the same
  already does a load that makes nothing dirty leave what the backup holds (`CleanLoad`). A
  load sets tones without making dirty, so that they, too, must have been the same. And a
  start restores everything only because a process that does not run has null models
  (`ServerTyped`), which a part that is not in the backup leaves null (`BackupRestored`).

- `SimulatorClients_proofs`, from the same assumptions. `TypesHold` is about the clients
  as well. It follows from `Known`: to `Kept` it adds that every client has typed models
  *and a buffer of lines that can be heard* (`Fine`). What a line can be is no type of the
  model: `GoodLine` demands of a line only what the setters of the clients do not check
  themselves, so that the theorem has two halves. Whatever can be heard leaves a client
  typed (`LineHeard`, `LinesHeard`, `HearFine`): one lemma for the zone handlers, one for
  each way a client passes what it is told of a group on to its zones, one for the others.
  And everything the server tells can be heard: one lemma for each kind of request, query,
  configuration and refresh (`ZoneStepsTell`, `GroupStepsTell`, `OtherStepsTell`,
  `TelnetQueryTells`, `ToldRefresh`), and for what the proxy passes on (`PassedOnTold`). A
  client hears the lines of an answer along a function over them; `SetInduction` (from the
  least element of a set of numbers) does the induction over the lines, over the zones of
  a request for all, and over answers put together, each time for a function that is
  written out.

  `GroupsFollow` is about what clients derive. That groups follow from zones is not inductive:
  a client that waits for the end of its exchange keeps the lines it reads and acts upon them
  later, against models that may by then be others, and what the proxy keeps reaches the clients
  behind it later still. `Anchored` adds to it that who does not wait keeps nothing, and that
  the lines a client keeps, and those the proxy keeps for it, neither add nor remove a zone of a
  group that is not `adrift`, nor hold an adjustment that the client would take for its own. A
  line heard then leaves each group `Derived`, for one of four reasons: what it changes is not
  derived from; the client derives all groups of the zones that changed (`ChangesRederive`);
  the group gave its own mute, source or volume to all its zones, of which it is then the mean
  (`EqualLevels`, about the sums and quotients of the code's integer mean); or it is another
  group whose adjustment the client completes by itself, and the groups of the zones moved are
  derived from where these came to be (`AdjustRederives`). A refresh derives all groups, and
  derives nothing else when done twice (`DerivedOnce`).

  `LeftWaiting` is the action property `LeftWaitingWhenAlreadySet`, from the same `Anchored`:
  who does not wait keeps nothing, so that only the client that asks, and the proxy it asks by
  way of, can be left waiting by a request (`SaysWait`). Both wait for the same lines, whatever
  the call (`AskAwaits` and the lemmas named `...Pairs`, of `Simulator_proofs`); an answer whose
  last line is one of these, or the error, ends the exchange, also where the proxy passes it on
  (`HearEnds`, `PassedOnEnds`). What is left is one lemma for each request: its outcome fails or
  ends in such a line (`Concludes`), whatever it sets on the way, or it is a volume or a group
  request that leaves the zone, or the last zone of the group, as it was (`ZoneSettles`,
  `GroupConcludesOrKeeps`, of which `GroupStatus` shows that the status of a group request is
  that of its last zone).

- `Hlxc_proofs`, for any command lines, settings, zones of groups, numbers of elements and
  disturbances. `SuccessAlwaysFollowsDispatch` is an action property that says of every step
  but a signal that it ends `hlxc` with success only with all settings known and, if there was
  anything to do, by a change of the expected kind read after the dispatch. That a command is
  dispatched only when everything is known is not inductive: the count of refreshed
  controllers says nothing of which they are, and answers to the queries of others are
  counted as its own. What saves it is `ConfigurationComesFirst`: as long as anything the server
  keeps is not known, at most the sources count as refreshed, and the query of the configuration,
  whose answer tells everything, is still at the head of the queue, which only its own kind of
  answer, or an error that stops `hlxc`, takes off. What groups come to is known one step
  later, when the last controller is done and the groups are derived (`Complete`): the
  invariant has it that no command is dispatched before (`GroupsDerivedAnew`), and that what
  was derived stays known, whatever is heard of zones, groups or others' adjustments
  (`CommandKeepsValues`, `LineHeard`). Assumed (named `ASSUME`s of `Hlxc`): options and lines are
  made of words that differ from "nothing" (`WordsAssumption`), stepping a level and the mean of
  levels give words (`LevelsAssumption`), a setting that is derived for a group has its zones, its
  mute and the same setting of every zone beside it (`GroupsAssumption`), the server has values of
  the right kind for all it keeps (`InitiallyAssumption`), and it has a setting for every
  object of the type a command can be about (`SettingsAssumption`).

Only model-checked: liveness (`ServedCommandsConclude`, `TimedAttemptsConclude`,
`DirtyIsSaved`, `RequestsAreAnswered`, `EndsOnceDone`; it needs fairness and `ENABLED`,
which the prover does not handle). Of `Simulator`, `ClientsFollowServer` and
`BassKeepsTreble`, which needs that a client has the treble of the server: for every request
they need not only that its lines can be heard, or what the last of them is, but what each of
them makes of a client that was up to date. The properties of `Protocol` check concrete
tables.

## 5. Where code and comments disagree

`PROJECT.json` ("findings") quotes the lines of these four:

- `manager_buried`. A response followed by another line in the same read is never
  recognised, and the timeout of a command is stored and never used: the queue is stuck.
- `client_retry`. After an attempt with a timeout was disconnected, `Connect` with a timeout
  returns "already set" from the *timer* and makes no attempt.
- `simulator_lost`. One element that cannot be saved leaves its whole container out of the
  backup, and the dirty flag is cleared: after a restart and a change of sound mode, a
  backup has no zones.
- `proxy_dangling`. A client that disconnects while its request is with the server is
  answered all the same, through a stream that is null or an object that is gone.

Other statements TLC refutes are definitions of their modules, each with the lines that
make it; they are checked by no run, and a configuration that names one shows its
counterexample:

- `CommandManager!CommandsConclude`: a request the server did not get is waited for
  without end. `ViewFollowsServer`: once a client sends, notifications before an error are
  flushed with it. `NoNullDispatch`: after a notification handler that disconnects, the
  response handler dereferences an exchange that is gone.
- `ClientConnection!ConfirmationIsRecognized`: a confirmation read behind another line
  stays in the buffer. `FailuresAreItsOwn`: the second stream of a failed attempt ends the
  next one.
- `ServerConnections!DisposalVerified`: `ConnectionDidNotAccept`
  (`server/ConnectionManager.cpp:652`, 960-965) disposes of a connection that is not among
  the active ones yet (they get it at 708), so that disposal reports `-ENOENT`, and the
  identifier it claimed at 691 is never released.
- `Simulator!GroupMuteReachesZones`: a mute set for a group does not reach its zones in
  the simulator (`hlxsimd/GroupsController.cpp:300`), though it does at the clients.
- `Hlxc!SuccessMeansDone`: any change of the expected kind, made by anybody after the
  dispatch, ends `hlxc` with status 0, even before its own command was sent, and a signal
  may find `errno` 0.

Two more are conditions of properties that hold otherwise:

- `LosesDigits` (`Protocol`, a condition of `HandledAsAsked`). Four handlers of `hlxsimd` parse the
  second capture of their request with the length of the first
  (`hlxsimd/ZonesController.cpp:2651-2653`, `hlxsimd/GroupsController.cpp:642-644`, 928-930,
  1048-1050). `[VMO12]` mutes zone 1, since "M" is one character long, while `[VUMO12]` unmutes
  zone 12; muting a group and adding a zone to a group or removing it lose digits in the same
  way. The manual says of `--set-mute` and `--add-zone` (`doc/man/hlxc.txt:182-184`, 146-147)
  that they are about the group or zone specified.
- A mean that stays (`Hlxc`, `"shifted"`, a condition of `EndsOnceDone`). A client derives the volume
  of a group as the integer mean of its zones and tells nobody when that is what it was
  (`client/GroupsControllerBasis.cpp:471`). With zones at 0 and -80, `--group 1 --set-volume -40`
  sets both zones to -40 and `hlxc` waits for ever; so it does with zones at 0 and -1 after
  an increase of the group. `doc/man/hlxc.txt:262-267` (KNOWN BUGS) and `TODO.md:6` say that it
  waits for a request that is already satisfied, which these are not.

## 6. Not modelled, and plan

What remains could be added in this order:

1. Proofs that the clients of `Simulator` follow its server, from `Known`: that each answer
   leads a client from the models before to those after the request.
2. The refresh of the proxy as a client that an error leaves without end: in `Simulator` it
   is a client that is never refreshed.
3. A property of `ClientConnection` about attempts without a timeout, which a stray timer
   ends.
4. `ConnectionBuffer`: capacity and positions as operators against a sequence of bytes.

Partly modelled, with what is left out: registration of handlers and delegates, which
happens once before a run loop runs (`Protocol` has which pattern leads to which handler);
the life cycle of listeners; percentages of the progress of a refresh; options of the
daemons.

Left out for good: name resolution and URLs, formatting and parsing of bytes within a
token, the POSIX matcher itself, logging, configuration files as text, the Core Foundation
and telnet libraries (environment of the modules), allocation failures, build and packaging.
`hlxproxyd` passes no network requests on and has its handler that clears a group compiled
out (`hlxproxyd/GroupsController.cpp:689-721`); the library has no call that clears a group
or sets DHCP or SDDP, so telnet users do.

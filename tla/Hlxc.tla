-------------------------------- MODULE Hlxc --------------------------------
(***************************************************************************)
(* The command line client (src/src/hlxc/hlxc.cpp) over the application    *)
(* controller of the client library                                        *)
(* (src/src/lib/client/ApplicationController.cpp,                          *)
(* ApplicationControllerBasis.cpp and ObjectControllerBasis.cpp).          *)
(*                                                                         *)
(* It decodes its options, connects, refreshes every object controller,    *)
(* sends the one command it was asked for and waits for a change of the    *)
(* kind it expects of that command.  Other clients change, query and are   *)
(* refused meanwhile, and the server tells everybody of everything.        *)
(*                                                                         *)
(* A setting is <<type, kind, identifier>>; values, identifiers and        *)
(* arguments are words, so that what is read as a number is a matter of    *)
(* membership in Numerals; only the zones and the sources of a group are   *)
(* sets of them.  The mute, the source and the volume of a group are what  *)
(* its zones make of them, at the server and at the client, which hears of *)
(* no other.  A line is a read of its own here; what becomes of lines read *)
(* together is CommandManager's matter.                                    *)
(***************************************************************************)
EXTENDS Naturals, Sequences, SequencesExt

CONSTANTS
  CommandLines,    \* the sequences of options it is started with
  Settings,        \* the settings the server has
  Initially,       \* their values
  Elements,        \* the identifiers of each type of object, and of the bands
  Words,           \* what options and lines are made of
  Numerals,        \* the words that parse as a number
  Levels,          \* those that are a level within the limits
  Stepped,         \* what one step makes of a level, beyond the limits too
  Mean(_),         \* the level of a group of zones of these levels
  None,            \* nothing
  MaxDisturbances  \* bound on what others and signals do, by the options

Types == {"equalizer preset", "group", "source", "zone"}

Identifiers(type) == {Elements[type][i] : i \in 1 .. Len(Elements[type])}

ASSUME WordsAssumption ==
  /\ {"0", "1"} \cup Numerals \cup Levels \subseteq Words
  /\ None \notin Words \cup Types
  /\ \A words \in SUBSET Words : None # words

ASSUME ElementsAssumption ==
  Elements \in [Types \cup {"favorite", "equalizer band"} -> Seq(Words)]

ASSUME LevelsAssumption ==
  /\ Stepped \in [{"increase", "decrease"} -> [Words -> Words]]
  /\ \A zones \in SUBSET Identifiers("zone") :
       \A values \in [zones -> Words] : Mean(values) \in Words

\* What a client derives from the zones of a group.
DerivedKinds == {"mute", "source", "volume"}

IsDerived(s) == s[1] = "group" /\ s[2] \in DerivedKinds

\* What the server keeps, and tells.
Stored == {s \in Settings : ~IsDerived(s)}

ValuesOf(s) ==
  CASE <<s[1], s[2]>> = <<"group", "zones">> -> SUBSET Identifiers("zone")
    [] <<s[1], s[2]>> = <<"group", "source">> -> SUBSET Words
    [] OTHER -> Words

ASSUME GroupsAssumption ==
  \A s \in Settings :
    /\ DOMAIN s = 1 .. 3
    /\ s[2] = "zones" => s[1] = "group"
    /\ IsDerived(s) =>
         /\ {<<"group", "zones", s[3]>>, <<"group", "mute", s[3]>>} \subseteq Settings
         /\ \A z \in Identifiers("zone") : <<"zone", s[2], z>> \in Settings

ASSUME InitiallyAssumption ==
  /\ Initially = [s \in Stored |-> Initially[s]]
  /\ \A s \in Stored : Initially[s] \in ValuesOf(s)

VARIABLES
  line,       \* the options it was started with
  decoded,    \* how many of them are decoded
  asked,      \* sClientArgument and sOptFlags
  process,    \* what the process is doing
  app,        \* the client of the library, its application controller and below
  requests,   \* on their way to the server
  lines,      \* on their way to hlxc
  server,     \* the models of the server
  handled,    \* what became of the command at the server
  regrouped,  \* whether others changed a group while it was connected
  disturbances

options == <<line, decoded, asked>>
wire == <<requests, lines>>
outcome == <<handled, regrouped>>
vars == <<options, process, app, wire, server, outcome, disturbances>>

-----------------------------------------------------------------------------
(* Options.                                                                *)

\* The types of object whose command and event depend on the object.
Bearers ==
  [band |-> {"equalizer preset", "zone"}, mute |-> {"group", "zone"},
   name |-> Types, source |-> {"group", "zone"}, volume |-> {"group", "zone"}]

\* The others are of zones, or of groups, whatever the object.
Owner(kind) == IF kind = "zones" THEN "group" ELSE "zone"

\* A get option establishes no event, nor does an object of no such kind.
ExpectedEvent(option, object, before) ==
  CASE option.does = "get" -> before
    [] option.does # "get" /\ option.kind \notin DOMAIN Bearers ->
         <<Owner(option.kind), option.kind>>
    [] OTHER -> IF object \in Bearers[option.kind]
                THEN <<object, option.kind>> ELSE before

Options ==
  [is : {"object"}, type : Types, argument : Words]
  \cup [is : {"operation"}, does : {"get", "set", "toggle", "increase", "decrease"},
         kind : STRING \ {"zones"}, argument : Words]
  \cup [is : {"operation"}, does : {"add", "remove"}, kind : {"zones"}, argument : Words]
  \cup [is : {"band", "version", "timeout", "host"}, argument : Words]

ASSUME CommandLinesAssumption == CommandLines \subseteq Seq(Options)

\* The types of object that a command of these options can be about.
TypesAddressed(given, kind) ==
  IF kind \in DOMAIN Bearers
  THEN {type \in Bearers[kind] :
          \E i \in 1 .. Len(given) :
            given[i].is = "object" /\ given[i].type = type}
  ELSE {Owner(kind)}

\* What a command can be about the server has.
ASSUME SettingsAssumption ==
  \A given \in CommandLines : \A j \in 1 .. Len(given) :
    given[j].is = "operation" =>
      \A type \in TypesAddressed(given, given[j].kind) :
        \A i \in Identifiers(type) : <<type, given[j].kind, i>> \in Settings

NothingAsked ==
  [object |-> None, objectArgument |-> None, band |-> None, operation |-> None,
   expected |-> None, versions |-> {}, timeout |-> None, hosts |-> 0]

SetObjectOption(a, option) ==
  [a EXCEPT !.object = option.type, !.objectArgument = option.argument]

SetSubobjectOption(a, option) == [a EXCEPT !.band = option.argument]

\* The event is that of a zone, whatever the object.
SetOperationOptionOfZone(a, option) ==
  [a EXCEPT !.operation = option,
            !.expected = ExpectedEvent(option, "zone", @)]

SetOperationOption(a, option) ==
  [a EXCEPT !.operation = option,
            !.expected = ExpectedEvent(option, a.object, @)]

DecodeOption(a, option) ==
  CASE option.is = "object" -> SetObjectOption(a, option)
    [] option.is = "band" -> SetSubobjectOption(a, option)
    [] option.is = "operation" -> SetOperationOption(a, option)
    [] option.is = "version" -> [a EXCEPT !.versions = @ \cup {option.argument}]
    [] option.is = "timeout" -> [a EXCEPT !.timeout = option.argument]
    [] option.is = "host" -> [a EXCEPT !.hosts = @ + 1]

\* IPv4 only excludes IPv6 only, and a timeout is a number.
OptionIsValid(a, option) ==
  /\ option.is = "version" => a.versions \subseteq {option.argument}
  /\ option.is = "timeout" => option.argument \in Numerals

\* Exactly one host, and a timeout greater than zero.
OptionsAreValid(a) == a.hosts = 1 /\ a.timeout # "0"

PrintUsage == process' = "exited" /\ app' = [app EXCEPT !.status = 1]

DecodeOptions ==
  /\ process = "decoding" /\ decoded < Len(line)
  /\ decoded' = decoded + 1
  /\ asked' = DecodeOption(asked, line[decoded + 1])
  /\ IF OptionIsValid(asked, line[decoded + 1])
     THEN UNCHANGED <<process, app>>
     ELSE PrintUsage
  /\ UNCHANGED <<line, wire, server, outcome, disturbances>>

-----------------------------------------------------------------------------
(* The delegate of the application controller.                             *)

\* The controllers that are queried an element at a time, and the others.
Counting == {"zones", "groups", "favorites", "equalizer presets"}

Controllers ==
  Counting \cup {"configuration", "sources", "infrared", "front panel", "network"}

NoApp ==
  [connected |-> FALSE, delegate |-> FALSE, stopped |-> FALSE, status |-> 0,
   refreshed |-> [c \in Counting |-> 0], didRefresh |-> 0, pending |-> <<>>,
   active |-> FALSE, didDispatch |-> FALSE,
   view |-> [s \in Settings |-> None]]

\* Nobody is told of anything any more.
SetDelegate(a, delegate) == [a EXCEPT !.delegate = delegate]

\* hlxc stops when its run loop's callback returns.
StopRunLoop(a, status) == [a EXCEPT !.status = status, !.stopped = TRUE]

\* hlxc disconnected itself, unless there is an error.
ControllerDidDisconnect(a, error) ==
  LET silent == SetDelegate(a, FALSE)
  IN  IF error THEN StopRunLoop(silent, 1) ELSE silent

ConnectionManagerDidDisconnect(a, error) ==
  IF a.delegate THEN ControllerDidDisconnect(a, error) ELSE a

\* The connection is closed and the command manager forgets its exchanges.
Closed(a) == [a EXCEPT !.connected = FALSE, !.pending = <<>>, !.active = FALSE]

Disconnect(a) == ConnectionManagerDidDisconnect(Closed(a), FALSE)

Stop(a, status) ==
  StopRunLoop(IF a.connected THEN Disconnect(a) ELSE a, status)

ControllerError(a) == Stop(a, 1)

\* What a refused command, or the connection, comes to.
OnCommandError(a) == IF a.delegate THEN ControllerError(a) ELSE a

ConnectionManagerError(a) == IF a.delegate THEN ControllerError(a) ELSE a

\* A change before the command is dispatched counts as well.
ControllerStateDidChangeUndispatched(a, type) ==
  IF asked.expected = type THEN Stop(a, 0) ELSE a

ControllerStateDidChange(a, type) ==
  IF a.didDispatch /\ asked.expected = type THEN Stop(a, 0) ELSE a

OnStateDidChange(a, type) ==
  IF a.delegate THEN ControllerStateDidChange(a, type) ELSE a

-----------------------------------------------------------------------------
(* The command.                                                            *)

LookupIdentifier(a, type, name) ==
  {i \in Identifiers(type) : /\ <<type, "name", i>> \in Settings
                             /\ a.view[<<type, "name", i>>] = name}

\* By name first, then by identifier.
Lookup(a, type, argument) ==
  LET named == LookupIdentifier(a, type, argument)
  IN  IF named # {} THEN CHOOSE i \in named : TRUE ELSE argument

ParseIdentifier(a, type, argument) == Lookup(a, type, argument) \in Numerals

ParseObjectOption(a) ==
  asked.object # None => ParseIdentifier(a, asked.object, asked.objectArgument)

ParseSubobjectOption == asked.band # None => asked.band \in Numerals

Referred == [source |-> "source", preset |-> "equalizer preset", zones |-> "zone"]

\* What names another object is looked up; a name is taken as it is.
ParseOperationOption(a) ==
  LET o == asked.operation
  IN  \/ o.does \notin {"set", "add", "remove"}
      \/ o.kind \in DOMAIN Referred /\ ParseIdentifier(a, Referred[o.kind], o.argument)
      \/ o.kind \notin DOMAIN Referred
         /\ (o.kind = "name" \/ o.argument \in Numerals)

Argument(a) ==
  LET o == asked.operation
  IN  IF o.kind \in DOMAIN Referred
      THEN Lookup(a, Referred[o.kind], o.argument) ELSE o.argument

\* The type of the object that the command is about; the identifier is the
\* one given, of whatever type it was.
Addressed ==
  LET kind == asked.operation.kind
  IN  IF kind \in DOMAIN Bearers THEN asked.object ELSE Owner(kind)

Identifier(a) ==
  IF asked.object = None THEN "0"
  ELSE Lookup(a, asked.object, asked.objectArgument)

\* Getting is not implemented, the object must bear what is set, and the
\* library validates the identifier.
MayDispatch(a) ==
  /\ asked.operation # None /\ asked.operation.does # "get"
  /\ asked.operation.kind \in DOMAIN Bearers =>
       asked.object \in Bearers[asked.operation.kind]
  /\ Identifier(a) \in Identifiers(Addressed)
  /\ asked.operation.kind = "band" => asked.band \in Identifiers("equalizer band")
  /\ asked.operation.kind \in DOMAIN Referred =>
       Argument(a) \in Identifiers(Referred[asked.operation.kind])

Command(a) ==
  [is |-> "command", does |-> asked.operation.does, argument |-> Argument(a),
   setting |-> <<Addressed, asked.operation.kind, Identifier(a)>>]

DispatchCommand(a) ==
  IF /\ ParseObjectOption(a) /\ ParseSubobjectOption
     /\ asked.operation # None => ParseOperationOption(a)
     /\ MayDispatch(a)
  THEN [a EXCEPT !.pending = Append(@, Command(a)), !.didDispatch = TRUE]
  ELSE Stop(a, 1)

\* With neither an object nor an operation there is nothing left to do.
ControllerDidRefresh(a) ==
  IF asked.object # None \/ asked.operation # None
  THEN DispatchCommand(a) ELSE Stop(a, 0)

-----------------------------------------------------------------------------
(* Groups.                                                                 *)

Members(models, g) ==
  LET zones == models[<<"group", "zones", g>>]
  IN  IF zones = None THEN {} ELSE zones

\* Muted when every zone is, all the sources, the mean of the levels.
Derived(models, s) ==
  LET values == [z \in Members(models, s[3]) |-> models[<<"zone", s[2], z>>]]
  IN  CASE s[2] = "mute" -> IF \A z \in DOMAIN values : values[z] = "1" THEN "1" ELSE "0"
        [] s[2] = "source" -> {values[z] : z \in DOMAIN values}
        [] s[2] = "volume" -> Mean(values)

DeriveGroupState(a) ==
  [a EXCEPT !.view = [s \in Settings |-> IF IsDerived(s) THEN Derived(@, s) ELSE @[s]]]

IsRefreshing(a) == a.didRefresh # Cardinality(Controllers)

ZoneChanged(before, after, z) ==
  \E kind \in DerivedKinds :
    LET s == <<"zone", kind, z>>
    IN  s \in Settings /\ after[s] # before[s]

\* A change of a zone derives the groups that include it anew.
DeriveGroupStateForGroupsIncludingZone(a, view) ==
  [s \in Settings |->
     IF /\ IsDerived(s) /\ ~IsRefreshing(a)
        /\ \E z \in Members(view, s[3]) : ZoneChanged(a.view, view, z)
     THEN Derived(view, s) ELSE view[s]]

\* A change of a group is one of its zones; with no change nothing is done.
HandleChange(view, g, kind, value) ==
  LET group == <<"group", kind, g>>
      whole == IF kind = "source" THEN {value} ELSE value
  IN  IF view[group] = whole THEN view
      ELSE [s \in Settings |->
              CASE s = group -> whole
                [] s \in {<<"zone", kind, z>> : z \in Members(view, g)} -> value
                [] OTHER -> view[s]]

HandleUnmuteChange(view, g) == HandleChange(view, g, "mute", "0")

\* A group is unmuted by a change of its volume.
HandleVolumeChange(view, g, level) ==
  IF view[<<"group", "volume", g>>] = level THEN view
  ELSE HandleChange(HandleUnmuteChange(view, g), g, "volume", level)

NotificationReceivedHandler(view, said) ==
  LET kind == said.setting[2]
      g == said.setting[3]
  IN  IF kind = "volume" THEN HandleVolumeChange(view, g, said.value)
      ELSE HandleChange(view, g, kind, said.value)

Opposite(mute) == IF mute = "0" THEN "1" ELSE "0"

\* The answer to a toggle does not say what came of it.
ToggleMuteCompleteHandler(view, g) ==
  HandleChange(view, g, "mute", Opposite(view[<<"group", "mute", g>>]))

\* Nor does the answer to an adjustment: a zone beyond the limit stays, and
\* yet counts as beyond it in the mean, which is not set beyond it.
AdjustVolumeCompleteHandler(a, g, does) ==
  LET unmuted == HandleUnmuteChange(a.view, g)
      aimed == [z \in Members(unmuted, g) |-> Stepped[does][unmuted[<<"zone", "volume", z>>]]]
      reached == {<<"zone", "volume", z>> : z \in {y \in DOMAIN aimed : aimed[y] \in Levels}}
      view == DeriveGroupStateForGroupsIncludingZone(a,
                [s \in Settings |-> IF s \in reached THEN aimed[s[3]] ELSE unmuted[s]])
  IN  IF DOMAIN aimed # {} /\ Mean(aimed) \in Levels
      THEN [view EXCEPT ![<<"group", "volume", g>>] = Mean(aimed)] ELSE view

-----------------------------------------------------------------------------
(* Refreshing.                                                             *)

\* What a query of a controller is answered with.
Query(controller, about) ==
  [is |-> "query", controller |-> controller, about |-> about]

About(type) == {s \in Stored : s[1] = type}

Each(controller, type) ==
  [i \in 1 .. Len(Elements[type]) |->
     Query(controller, {s \in About(type) : s[3] = Elements[type][i]})]

ConfigurationQuery == <<Query("configuration", Stored)>>
ZonesQuery == Each("zones", "zone")
GroupsQuery == Each("groups", "group")
FavoritesQuery == Each("favorites", "favorite")
EqualizerPresetsQuery == Each("equalizer presets", "equalizer preset")
InfraredQuery == <<Query("infrared", About("infrared"))>>
FrontPanelQuery == <<Query("front panel", About("front panel"))>>
NetworkQuery == <<Query("network", About("network"))>>

Queries ==
  ConfigurationQuery \o ZonesQuery \o GroupsQuery \o FavoritesQuery
    \o EqualizerPresetsQuery \o InfraredQuery \o FrontPanelQuery \o NetworkQuery

\* One controller more has refreshed; the last one makes the whole refreshed,
\* once the groups are derived.
OnDidRefresh(a) ==
  LET counted == [a EXCEPT !.didRefresh = @ + 1]
      derived == DeriveGroupState(counted)
  IN  CASE IsRefreshing(counted) -> counted
        [] ~IsRefreshing(counted) /\ ~a.delegate -> derived
        [] ~IsRefreshing(counted) /\ a.delegate -> ControllerDidRefresh(derived)

Ask(a, queries) == [a EXCEPT !.pending = @ \o queries]

AskEach(a, controller, queries) ==
  Ask([a EXCEPT !.refreshed[controller] = 0], queries)

ConfigurationRefresh(a) == Ask(a, ConfigurationQuery)
ZonesRefresh(a) == AskEach(a, "zones", ZonesQuery)
GroupsRefresh(a) == AskEach(a, "groups", GroupsQuery)
FavoritesRefresh(a) == AskEach(a, "favorites", FavoritesQuery)
EqualizerPresetsRefresh(a) == AskEach(a, "equalizer presets", EqualizerPresetsQuery)
InfraredRefresh(a) == Ask(a, InfraredQuery)
FrontPanelRefresh(a) == Ask(a, FrontPanelQuery)
NetworkRefresh(a) == Ask(a, NetworkQuery)

\* There is no query of sources: they come with the configuration.
SourcesRefresh(a) == OnDidRefresh(a)

\* In the order in which the controllers were added.
Refresh(a) ==
  LET begun == SourcesRefresh(ConfigurationRefresh([a EXCEPT !.didRefresh = 0]))
      elements == EqualizerPresetsRefresh(FavoritesRefresh(GroupsRefresh(ZonesRefresh(begun))))
  IN  NetworkRefresh(FrontPanelRefresh(InfraredRefresh(elements)))

MaybeUpdateRefreshIfRefreshWasRequested(a, numerator, denominator) ==
  IF numerator = denominator THEN OnDidRefresh(a) ELSE a

\* Any answer of the kind counts as that of the next element.
EachQueryCompleteHandler(a, controller, type) ==
  MaybeUpdateRefreshIfRefreshWasRequested(
    [a EXCEPT !.refreshed[controller] = @ + 1],
    a.refreshed[controller] + 1, Len(Elements[type]))

ConfigurationQueryCompleteHandler(a) == OnDidRefresh(a)
ZonesQueryCompleteHandler(a) == EachQueryCompleteHandler(a, "zones", "zone")
GroupsQueryCompleteHandler(a) == EachQueryCompleteHandler(a, "groups", "group")
FavoritesQueryCompleteHandler(a) == EachQueryCompleteHandler(a, "favorites", "favorite")
EqualizerPresetsQueryCompleteHandler(a) ==
  EachQueryCompleteHandler(a, "equalizer presets", "equalizer preset")
InfraredQueryCompleteHandler(a) == OnDidRefresh(a)
FrontPanelQueryCompleteHandler(a) == OnDidRefresh(a)
NetworkQueryCompleteHandler(a) == OnDidRefresh(a)

QueryCompleteHandler(a, controller) ==
  CASE controller = "configuration" -> ConfigurationQueryCompleteHandler(a)
    [] controller = "zones" -> ZonesQueryCompleteHandler(a)
    [] controller = "groups" -> GroupsQueryCompleteHandler(a)
    [] controller = "favorites" -> FavoritesQueryCompleteHandler(a)
    [] controller = "equalizer presets" -> EqualizerPresetsQueryCompleteHandler(a)
    [] controller = "infrared" -> InfraredQueryCompleteHandler(a)
    [] controller = "front panel" -> FrontPanelQueryCompleteHandler(a)
    [] controller = "network" -> NetworkQueryCompleteHandler(a)

-----------------------------------------------------------------------------
(* Connecting.                                                             *)

\* The application controller is made, with hlxc for a delegate, and asked to
\* connect: its connection manager resolves the host.
Start ==
  /\ process = "decoding" /\ decoded = Len(line)
  /\ \/ ~OptionsAreValid(asked) /\ PrintUsage
     \/ /\ OptionsAreValid(asked)
        /\ process' = "resolving" /\ app' = SetDelegate(app, TRUE)
  /\ UNCHANGED <<options, wire, server, outcome, disturbances>>

ConnectionManagerDidResolve ==
  /\ process = "resolving" /\ process' = "connecting"
  /\ UNCHANGED <<options, app, wire, server, outcome, disturbances>>

\* The delegate only logs it: the call to connect returns the error.
ConnectionManagerDidNotResolve ==
  /\ process = "resolving" /\ process' = "exited"
  /\ app' = [app EXCEPT !.status = 1]
  /\ UNCHANGED <<options, wire, server, outcome, disturbances>>

ControllerDidConnect(a) == Refresh(a)

ConnectionManagerDidConnect ==
  /\ process = "connecting" /\ ~app.stopped
  /\ process' = "running"
  /\ app' = ControllerDidConnect([app EXCEPT !.connected = TRUE])
  /\ UNCHANGED <<options, wire, server, outcome, disturbances>>

ControllerDidNotConnect(a) == Stop(a, 1)

\* The error follows.
ConnectionManagerDidNotConnect ==
  /\ process = "connecting" /\ ~app.stopped
  /\ app' = ConnectionManagerError(ControllerDidNotConnect(app))
  /\ UNCHANGED <<options, process, wire, server, outcome, disturbances>>

\* The run loop has returned.
Exit ==
  /\ process \in {"connecting", "running"} /\ app.stopped
  /\ process' = "exited"
  /\ UNCHANGED <<options, app, wire, server, outcome, disturbances>>

-----------------------------------------------------------------------------
(* The exchanges.                                                          *)

ServiceCommandQueue ==
  /\ app.pending # <<>> /\ ~app.active /\ ~app.stopped
  /\ app' = [app EXCEPT !.active = TRUE]
  /\ requests' = Append(requests, Head(app.pending))
  /\ UNCHANGED <<options, process, lines, server, outcome, disturbances>>

\* The lines that end an exchange are those of its kind, whatever the object.
Ends(exchange, said) ==
  \/ said.is = "error"
  \/ exchange.is = "query" /\ said.is = "answer"
     /\ said.controller = exchange.controller
  \/ /\ exchange.is = "command" /\ said.is = "change"
     /\ \A i \in 1 .. 2 : said.setting[i] = exchange.setting[i]
     /\ IsDerived(exchange.setting) => said.does = exchange.does

EndsItsExchange(a, said) == a.active /\ Ends(Head(a.pending), said)

\* What a line makes of the models.  The toggles and adjustments of groups of
\* others are understood by nobody.
Heard(a, said) ==
  LET Taken(values) ==
        [s \in Settings |-> IF s \in DOMAIN values THEN values[s] ELSE a.view[s]]
      g == said.setting[3]
  IN  CASE said.is = "error" -> a.view
        [] said.is = "answer" ->
             DeriveGroupStateForGroupsIncludingZone(a, Taken(said.values))
        [] said.is = "change" /\ ~IsDerived(said.setting) ->
             DeriveGroupStateForGroupsIncludingZone(
               a, Taken([s \in {said.setting} |-> said.value]))
        [] said.is = "change" /\ IsDerived(said.setting) /\ said.does = "set" ->
             DeriveGroupStateForGroupsIncludingZone(
               a, NotificationReceivedHandler(a.view, said))
        [] OTHER ->
             CASE ~EndsItsExchange(a, said) -> a.view
               [] EndsItsExchange(a, said) /\ said.does = "toggle" ->
                    DeriveGroupStateForGroupsIncludingZone(
                      a, ToggleMuteCompleteHandler(a.view, g))
               [] EndsItsExchange(a, said) /\ said.does # "toggle" ->
                    AdjustVolumeCompleteHandler(a, g, said.does)

Changes(before, after) ==
  {<<s[1], s[2]>> : s \in {t \in Settings : after[t] # before[t]}}

\* The zones change one after the other, and each derives its groups: these
\* may pass through values that the last of the zones takes back, if it is
\* not the first that changes what they derive.
Passing(before, after) ==
  LET zones == {s \in Settings : s[1] = "zone" /\ s[2] \in DerivedKinds /\ after[s] # before[s]}
      Underived(kind) ==
        \E s \in Settings \ Stored : s[2] = kind /\ before[s] # Derived(before, s)
  IN  {<<"group", s[2]>> : s \in {t \in zones : \E u \in zones \ {t} :
                                    u[2] = t[2] \/ Underived(t[2])}}

\* What a line tells goes into the models, and every change to the delegate.
Told(a, said, passing) ==
  LET seen == [a EXCEPT !.view = Heard(a, said)]
  IN  IF asked.expected \in Changes(a.view, seen.view) \cup passing
      THEN OnStateDidChange(seen, asked.expected) ELSE seen

Completed(a, exchange, said) ==
  LET ended == [a EXCEPT !.pending = Tail(@), !.active = FALSE]
  IN  CASE said.is = "error" -> OnCommandError(ended)
        [] said.is # "error" /\ exchange.is = "query" ->
             QueryCompleteHandler(ended, exchange.controller)
        [] OTHER -> ended

\* Nothing is left to complete when the line made hlxc stop.
DidReceiveApplicationData(a, said, passing) ==
  LET told == Told(a, said, passing)
  IN  IF EndsItsExchange(told, said)
      THEN Completed(told, Head(told.pending), said) ELSE told

ReceiveLine ==
  /\ app.connected /\ ~app.stopped /\ lines # <<>>
  /\ \E passing \in SUBSET Passing(app.view, Heard(app, Head(lines))) :
       app' = DidReceiveApplicationData(app, Head(lines), passing)
  /\ lines' = Tail(lines)
  /\ UNCHANGED <<options, process, requests, server, outcome, disturbances>>

-----------------------------------------------------------------------------
(* The server, which tells every client of everything.                     *)

Answer(query) ==
  [is |-> "answer", controller |-> query.controller,
   values |-> [s \in query.about |-> server[s]]]

Error == [is |-> "error"]

Say(said) == lines' = IF app.connected THEN Append(lines, said) ELSE lines

ServerAnswers ==
  /\ requests # <<>> /\ Head(requests).is = "query"
  /\ requests' = Tail(requests)
  /\ Say(Answer(Head(requests)))
  /\ UNCHANGED <<options, process, app, server, outcome, disturbances>>

\* A command about a group is one about its zones.
Reached(command) ==
  IF IsDerived(command.setting)
  THEN {<<"zone", command.setting[2], z>> : z \in Members(server, command.setting[3])}
  ELSE {command.setting}

\* What a command makes of a value; a level at the limit stays.
Becomes(command, value) ==
  CASE command.does = "toggle" -> Opposite(value)
    [] command.does \in {"increase", "decrease"} ->
         IF Stepped[command.does][value] \in Levels THEN Stepped[command.does][value]
         ELSE value
    [] command.does = "add" -> value \cup {command.argument}
    [] command.does = "remove" -> value \ {command.argument}
    [] OTHER -> command.argument

Obeyed(command) ==
  [s \in Stored |->
     IF s \in Reached(command) THEN Becomes(command, server[s]) ELSE server[s]]

\* hlxsimd mutes a group without its zones.
Outcomes(command) ==
  {Obeyed(command)}
  \cup IF IsDerived(command.setting) /\ command.does = "set" /\ command.setting[2] = "mute"
       THEN {server} ELSE {}

\* The response to a toggle or an adjustment of a group carries no value.
Change(command, after) ==
  [is |-> "change", setting |-> command.setting, does |-> command.does,
   value |-> CASE ~IsDerived(command.setting) -> after[command.setting]
               [] IsDerived(command.setting) /\ command.does = "set" -> command.argument
               [] IsDerived(command.setting) /\ command.does # "set" -> None]

\* What changes nothing, be it a zone of a group, may be answered with nothing.
MayBeSilent(command, after) ==
  \/ Reached(command) = {}
  \/ \E s \in Reached(command) : after[s] = server[s]

\* The library validates no level: the server does.
Refused(command) ==
  \/ /\ command.does = "set" /\ command.setting[2] \notin DOMAIN Referred \cup {"name"}
     /\ command.argument \notin Levels
  \/ /\ command.does \in {"increase", "decrease"} /\ ~IsDerived(command.setting)
     /\ Stepped[command.does][server[command.setting]] \notin Levels

\* What the setting that the command was about is, or comes to.
Value(models, s) == IF IsDerived(s) THEN Derived(models, s) ELSE models[s]

HandledAs(command, after) ==
  CASE after = server -> "unchanged"
    [] Value(after, command.setting) # Value(server, command.setting) -> "changed"
    [] OTHER -> "shifted"

ServerHandles ==
  /\ requests # <<>> /\ Head(requests).is = "command"
  /\ LET command == Head(requests)
     IN  \/ /\ Refused(command)
            /\ Say(Error) /\ handled' = "refused" /\ UNCHANGED server
         \/ /\ ~Refused(command) /\ server' \in Outcomes(command)
            /\ Say(Change(command, server')) /\ handled' = HandledAs(command, server')
         \/ /\ ~Refused(command) /\ server' \in Outcomes(command)
            /\ MayBeSilent(command, server') /\ UNCHANGED lines
            /\ handled' = IF server' = server THEN "unchanged" ELSE "shifted"
  /\ requests' = Tail(requests)
  /\ UNCHANGED <<options, process, app, regrouped, disturbances>>

-----------------------------------------------------------------------------
(* What others do.                                                         *)

Disturb ==
  /\ process \in {"connecting", "running"} /\ ~app.stopped
  /\ disturbances < MaxDisturbances[line]
  /\ disturbances' = disturbances + 1
  /\ UNCHANGED <<options, process, requests, handled>>

\* The commands of others that are about a setting.
OthersCommands(setting) ==
  LET Commands(does, arguments) ==
        [does : does, argument : arguments, setting : {setting}]
  IN  CASE setting[2] = "zones" -> Commands({"add", "remove"}, Identifiers("zone"))
        [] IsDerived(setting) /\ setting[2] = "mute" ->
             Commands({"set", "toggle"}, {"0", "1"})
        [] IsDerived(setting) /\ setting[2] = "volume" ->
             Commands({"set", "increase", "decrease"}, Levels)
        [] OTHER -> Commands({"set"}, Levels)

OthersChange(setting) ==
  /\ Disturb /\ setting[2] # "name"
  /\ \E command \in OthersCommands(setting) :
       /\ server' \in Outcomes(command) \ {server}
       /\ Say(Change(command, server')) \/ (MayBeSilent(command, server') /\ UNCHANGED lines)
  /\ regrouped' = (regrouped \/ (app.connected /\ setting[1] = "group"))
  /\ UNCHANGED app

OthersQuery ==
  /\ Disturb /\ app.connected
  /\ \E i \in 1 .. Len(Queries) : Say(Answer(Queries[i]))
  /\ UNCHANGED <<app, server, regrouped>>

OthersError ==
  /\ Disturb /\ app.connected /\ Say(Error)
  /\ UNCHANGED <<app, server, regrouped>>

\* The peer closes the connection: a reset, told of as a disconnection and then
\* as an error.  What the server has not read yet it still reads.
ConnectionReset ==
  /\ Disturb /\ app.connected
  /\ app' = ConnectionManagerError(ConnectionManagerDidDisconnect(Closed(app), TRUE))
  /\ UNCHANGED <<lines, server, regrouped>>

\* A signal stops it with whatever errno is, success included.
OnSignal ==
  /\ Disturb
  /\ \E errno \in 0 .. 1 : app' = Stop(app, errno)
  /\ UNCHANGED <<lines, server, regrouped>>

-----------------------------------------------------------------------------
Init ==
  /\ line \in CommandLines /\ decoded = 0 /\ asked = NothingAsked
  /\ process = "decoding" /\ app = NoApp
  /\ requests = <<>> /\ lines = <<>>
  /\ server = Initially /\ handled = "not" /\ regrouped = FALSE
  /\ disturbances = 0

Next ==
  \/ DecodeOptions \/ Start \/ ConnectionManagerDidResolve
  \/ ConnectionManagerDidNotResolve \/ ConnectionManagerDidConnect
  \/ ConnectionManagerDidNotConnect \/ Exit \/ ServiceCommandQueue \/ ReceiveLine
  \/ ServerAnswers \/ ServerHandles
  \/ \E setting \in Settings : OthersChange(setting)
  \/ OthersQuery \/ OthersError \/ ConnectionReset \/ OnSignal

\* What hlxc and the server are asked to do they do, in the end.
Spec ==
  /\ Init /\ [][Next]_vars
  /\ WF_vars(ServiceCommandQueue) /\ WF_vars(ReceiveLine) /\ WF_vars(Exit)
  /\ WF_vars(ServerAnswers) /\ WF_vars(ServerHandles)

-----------------------------------------------------------------------------
(* Properties.                                                             *)

(* Unless a signal stops it, hlxc ends successfully only when it knows of  *)
(* every setting and, if it was asked for anything, when its models        *)
(* changed in the way it expects after its command was dispatched: not     *)
(* upon a change its refresh told it of, nor with a part of the models     *)
(* missing since others' answers completed its queries.                    *)
SuccessFollowsDispatch ==
  [][~app.stopped /\ app'.stopped /\ app'.status = 0 /\ ~OnSignal =>
       /\ \A s \in Settings : app'.view[s] # None
       /\ asked.object # None \/ asked.operation # None =>
            /\ app.didDispatch
            /\ asked.expected \in Changes(app.view, app'.view)
                                \cup Passing(app.view, app'.view)]_vars

(* Objects come before what is done to them.                               *)
InOrder ==
  \A i, j \in 1 .. Len(line) :
    line[i].is = "object" /\ line[j].is = "operation" => i < j

(* A command that changed what it is about at the server, and was answered,*)
(* ends the process if the options name the object first: whatever other   *)
(* clients do to the zones, as long as they do nothing to a group.  What a *)
(* command about a group changes is what its zones come to: hlxc waits for *)
(* ever when their mean stays, and when others' commands about a group     *)
(* left it with models that differ from the server's.                      *)
EndsOnceDone ==
  (handled = "changed" /\ InOrder /\ ~regrouped) ~> (process = "exited")

(* Exit status 0, "The requested operation completed successfully"         *)
(* (src/doc/man/hlxc.txt): refuted.  A change of the kind that another     *)
(* client makes ends hlxc before its command is sent, and a signal may     *)
(* find errno 0.                                                           *)
SuccessMeansDone ==
  process = "exited" /\ app.status = 0 /\ asked.operation # None =>
    handled \in {"changed", "unchanged"}

=============================================================================

----------------------------- MODULE Hlxc_proofs -----------------------------
(***************************************************************************)
(* hlxc succeeds only by what it did, for every command line, every set of *)
(* settings and any number of elements.                                    *)
(***************************************************************************)
EXTENDS Hlxc, FiniteSetTheorems, TLAPS

-----------------------------------------------------------------------------
(***************************************************************************)
(* Types                                                                   *)
(***************************************************************************)
ObjectsOf(given) == {given[i].type : i \in {n \in 1 .. Len(given) : given[n].is = "object"}}

OperationsOf(given) == {given[i] : i \in {n \in 1 .. Len(given) : given[n].is = "operation"}}

KindsOf(given) == {o.kind : o \in OperationsOf(given)}

\* What the options of a command line come to.
Askings(given) ==
  [object : ObjectsOf(given) \cup {None}, objectArgument : Words \cup {None},
   band : Words \cup {None}, operation : OperationsOf(given) \cup {None},
   expected : (Types \X KindsOf(given)) \cup {None}, versions : SUBSET Words,
   timeout : Words \cup {None}, hosts : Nat]

\* The sources come with the configuration, which is queried, and answered,
\* as a whole.
Queried == Controllers \ {"sources"}

QueriesSent ==
  {q \in [is : {"query"}, controller : Queried, about : SUBSET Stored] :
     q.controller = "configuration" => q.about = Stored}

Doings == {"get", "set", "toggle", "increase", "decrease", "add", "remove"}

\* A command about the zones of a group adds or removes one.
PutWell(c) ==
  /\ c.setting \in Settings /\ c.argument \in Words /\ c.does \in Doings
  /\ IF <<c.setting[1], c.setting[2]>> = <<"group", "zones">>
     THEN c.does \in {"add", "remove"} /\ c.argument \in Identifiers("zone")
     ELSE c.does \notin {"add", "remove"}

CommandsSent ==
  {c \in [is : {"command"}, does : Doings, argument : Words, setting : Settings] :
     PutWell(c)}

Sent == QueriesSent \cup CommandsSent

Values(S) ==
  {v \in [S -> Words \cup SUBSET Words] : \A s \in S : v[s] \in ValuesOf(s)}

AnswersSaid ==
  {l \in [is : {"answer"}, controller : Queried,
          values : UNION {Values(S) : S \in SUBSET Stored}] :
     l.controller = "configuration" => l.values \in Values(Stored)}

ChangesSaid ==
  {l \in [is : {"change"}, setting : Settings, does : Doings,
          value : Words \cup {None} \cup SUBSET Words] :
     /\ ~ IsDerived(l.setting) => l.value \in ValuesOf(l.setting)
     /\ IsDerived(l.setting) /\ l.does = "set" => l.value \in Words}

Said == AnswersSaid \cup ChangesSaid \cup {Error}

Views ==
  {v \in [Settings -> Words \cup {None} \cup SUBSET Words] :
     \A s \in Settings : v[s] \in ValuesOf(s) \cup {None}}

Apps ==
  [connected : BOOLEAN, delegate : BOOLEAN, stopped : BOOLEAN, status : 0 .. 1,
   refreshed : [Counting -> Nat], didRefresh : Nat, pending : Seq(Sent),
   active : BOOLEAN, didDispatch : BOOLEAN, view : Views]

LEMMA AppFields ==
  ASSUME NEW a \in Apps, NEW v
  PROVE  /\ v \in BOOLEAN => [a EXCEPT !.connected = v] \in Apps
         /\ v \in BOOLEAN => [a EXCEPT !.delegate = v] \in Apps
         /\ v \in BOOLEAN => [a EXCEPT !.stopped = v] \in Apps
         /\ v \in 0 .. 1 => [a EXCEPT !.status = v] \in Apps
         /\ v \in Nat => [a EXCEPT !.didRefresh = v] \in Apps
         /\ v \in Seq(Sent) => [a EXCEPT !.pending = v] \in Apps
         /\ v \in BOOLEAN => [a EXCEPT !.active = v] \in Apps
         /\ v \in BOOLEAN => [a EXCEPT !.didDispatch = v] \in Apps
         /\ v \in Views => [a EXCEPT !.view = v] \in Apps
         /\ v \in [Counting -> Nat] => [a EXCEPT !.refreshed = v] \in Apps
BY DEF Apps

LEMMA ManyControllers ==
  Cardinality(Controllers) \in Nat /\ 2 <= Cardinality(Controllers)
<1>1. IsFiniteSet({}) /\ Cardinality({}) = 0
  BY FS_EmptySet
<1>2. IsFiniteSet({} \cup {"zones"}) /\ Cardinality({} \cup {"zones"}) = 1
  BY <1>1, FS_AddElement
<1>3. /\ IsFiniteSet(({} \cup {"zones"}) \cup {"groups"})
      /\ Cardinality(({} \cup {"zones"}) \cup {"groups"}) = 2
  BY <1>2, FS_AddElement
<1>4. ({} \cup {"zones"}) \cup {"groups"} \subseteq Controllers
  BY DEF Controllers, Counting
<1>5. IsFiniteSet(Controllers)
  <2>1. IsFiniteSet({"zones", "groups"})
    BY <1>3, Zenon
  <2>2. IsFiniteSet({"zones", "groups"} \cup {"favorites"})
    BY <2>1, FS_AddElement
  <2>3. IsFiniteSet(({"zones", "groups"} \cup {"favorites"}) \cup {"equalizer presets"})
    BY <2>2, FS_AddElement
  <2>4. IsFiniteSet(Counting \cup {"configuration"})
    <3>1. ({"zones", "groups"} \cup {"favorites"}) \cup {"equalizer presets"} = Counting
      BY DEF Counting
    <3>. QED  BY <2>3, <3>1, FS_AddElement
  <2>5. IsFiniteSet((Counting \cup {"configuration"}) \cup {"sources"})
    BY <2>4, FS_AddElement
  <2>6. IsFiniteSet(((Counting \cup {"configuration"}) \cup {"sources"}) \cup {"infrared"})
    BY <2>5, FS_AddElement
  <2>7. IsFiniteSet((((Counting \cup {"configuration"}) \cup {"sources"}) \cup {"infrared"})
                      \cup {"front panel"})
    BY <2>6, FS_AddElement
  <2>8. IsFiniteSet(((((Counting \cup {"configuration"}) \cup {"sources"}) \cup {"infrared"})
                       \cup {"front panel"}) \cup {"network"})
    BY <2>7, FS_AddElement
  <2>9. ((((Counting \cup {"configuration"}) \cup {"sources"}) \cup {"infrared"})
           \cup {"front panel"}) \cup {"network"} = Controllers
    BY DEF Controllers
  <2>. QED  BY <2>8, <2>9
<1>6. 2 <= Cardinality(Controllers)
  BY <1>3, <1>4, <1>5, FS_Subset
<1>7. Cardinality(Controllers) \in Nat
  BY <1>5, FS_CardinalityType
<1>. QED  BY <1>6, <1>7

-----------------------------------------------------------------------------
(***************************************************************************)
(* The invariant of the application.  As long as something is not known no *)
(* controller but that of the sources has refreshed, no command has been   *)
(* dispatched, and the next exchange to end is the query of the            *)
(* configuration, whose answer tells everything: the queue keeps it first, *)
(* and an error line, which alone would end it otherwise, stops hlxc.      *)
(***************************************************************************)
Known(a) == \A s \in Stored : a.view[s] # None

Complete(a) == \A s \in Settings : a.view[s] # None

\* An application that is not connected has no exchange.
Idle(a) == ~ a.connected => a.pending = <<>> /\ ~ a.active

Refreshing(a) ==
  /\ ~ Known(a) => a.didRefresh <= 1 /\ ~ a.didDispatch
  /\ ~ Complete(a) => ~ a.didDispatch

ConfigurationIsFirst(a) ==
  ~ Known(a) /\ a.connected =>
    a.pending # <<>> /\ Head(a.pending) = Query("configuration", Stored)

Sound(a) ==
  /\ a \in Apps /\ Idle(a) /\ Refreshing(a) /\ ConfigurationIsFirst(a)
  /\ a.connected => a.delegate /\ ~ a.stopped
  /\ a.active => a.pending # <<>>

LEMMA Stopped ==
  ASSUME NEW a \in Apps, Idle(a), Refreshing(a), NEW status \in 0 .. 1
  PROVE  /\ Sound(Stop(a, status))
         /\ Stop(a, status).stopped /\ Stop(a, status).status = status
         /\ ~ Stop(a, status).active /\ ~ Stop(a, status).connected
         /\ Stop(a, status).view = a.view
         /\ ~ a.connected => Stop(a, status).delegate = a.delegate
<1> DEFINE b == IF a.connected THEN Disconnect(a) ELSE a
<1>1. /\ b \in Apps /\ ~ b.connected /\ ~ b.active /\ b.pending = <<>> /\ b.view = a.view
      /\ b.didRefresh = a.didRefresh /\ b.didDispatch = a.didDispatch
      /\ ~ a.connected => b.delegate = a.delegate
  <2>1. CASE ~ a.connected
    BY <2>1 DEF Idle, Apps
  <2>2. CASE a.connected
    <3> DEFINE c == Closed(a)
    <3>1. <<>> \in Seq(Sent)
      OBVIOUS
    <3>2. /\ c \in Apps /\ ~ c.connected /\ ~ c.active /\ c.pending = <<>> /\ c.view = a.view
          /\ c.didRefresh = a.didRefresh /\ c.didDispatch = a.didDispatch
      <4>1. c \in Apps
        <5>1. [a EXCEPT !.connected = FALSE] \in Apps
          BY AppFields
        <5>2. [[a EXCEPT !.connected = FALSE] EXCEPT !.pending = <<>>] \in Apps
          BY <3>1, <5>1, AppFields
        <5>3. c = [[[a EXCEPT !.connected = FALSE] EXCEPT !.pending = <<>>]
                     EXCEPT !.active = FALSE]
          BY DEF Closed
        <5>. HIDE DEF c
        <5>. QED  BY <5>2, <5>3, AppFields
      <4>2. /\ c.connected = FALSE /\ c.active = FALSE /\ c.pending = <<>>
            /\ c.view = a.view
            /\ c.didRefresh = a.didRefresh /\ c.didDispatch = a.didDispatch
        BY DEF Closed, Apps
      <4>. HIDE DEF c
      <4>. QED  BY <4>1, <4>2
    <3>. HIDE DEF c
    <3>3. b = IF c.delegate THEN [c EXCEPT !.delegate = FALSE] ELSE c
      BY <2>2 DEF Disconnect, ConnectionManagerDidDisconnect, ControllerDidDisconnect,
                  SetDelegate, c
    <3>. QED  BY <2>2, <3>2, <3>3 DEF Apps
  <2>. QED  BY <2>1, <2>2
<1>. HIDE DEF b
<1>2. Stop(a, status) = [b EXCEPT !.status = status, !.stopped = TRUE]
  BY DEF Stop, StopRunLoop, b
<1> DEFINE d == Stop(a, status)
<1>3. /\ d \in Apps /\ ~ d.connected /\ ~ d.active /\ d.pending = <<>> /\ d.view = a.view
      /\ d.didRefresh = a.didRefresh /\ d.didDispatch = a.didDispatch
      /\ d.stopped /\ d.status = status /\ d.delegate = b.delegate
  BY <1>1, <1>2 DEF Apps
<1>. HIDE DEF d
<1>4. Sound(d) /\ (~ a.connected => d.delegate = a.delegate)
  BY <1>1, <1>3 DEF Sound, Idle, Refreshing, ConfigurationIsFirst, Known, Complete
<1>. QED  BY <1>3, <1>4 DEF d

-----------------------------------------------------------------------------
(***************************************************************************)
(* What lines make of the models: of the right kind, and what was known    *)
(* stays known.                                                            *)
(***************************************************************************)
Keeps(before, after) ==
  after \in Views /\ \A s \in Settings : before[s] # None => after[s] # None

LEMMA IdentifiersAreWords ==
  ASSUME NEW type \in Types
  PROVE  Identifiers(type) \subseteq Words
<1>1. Elements[type] \in Seq(Words)
  BY ElementsAssumption
<1>. QED  BY <1>1 DEF Identifiers

LEMMA NoneIsNoValue == \A s : None \notin ValuesOf(s)
<1> SUFFICES ASSUME NEW s PROVE None \notin ValuesOf(s)
  OBVIOUS
<1>1. Identifiers("zone") \subseteq Words
  <2>1. "zone" \in Types
    BY DEF Types
  <2>. QED  BY <2>1, IdentifiersAreWords
<1>2. \A words \in SUBSET Words : None # words
  BY WordsAssumption
<1>3. None \notin SUBSET Identifiers("zone") /\ None \notin SUBSET Words /\ None \notin Words
  BY <1>1, <1>2, WordsAssumption
<1>. QED  BY <1>3 DEF ValuesOf

LEMMA ValuesAreValues == \A s : ValuesOf(s) \subseteq Words \cup SUBSET Words
<1>1. "zone" \in Types
  BY DEF Types
<1>2. Identifiers("zone") \subseteq Words
  BY <1>1, IdentifiersAreWords
<1>. QED  BY <1>2 DEF ValuesOf

\* A function on the settings is a view if each value is one of its setting.
LEMMA ViewByPoints ==
  ASSUME NEW v, v = [s \in Settings |-> v[s]],
         \A s \in Settings : v[s] \in ValuesOf(s) \cup {None}
  PROVE  v \in Views
BY ValuesAreValues DEF Views

LEMMA KeepsFollows ==
  ASSUME NEW u, NEW v, NEW w, Keeps(u, v), Keeps(v, w)
  PROVE  Keeps(u, w)
BY DEF Keeps

LEMMA MembersAreZones ==
  ASSUME NEW v \in Views, NEW g, <<"group", "zones", g>> \in Settings
  PROVE  Members(v, g) \subseteq Identifiers("zone")
<1> DEFINE s == <<"group", "zones", g>>
<1>1. ValuesOf(s) = SUBSET Identifiers("zone")
  BY DEF ValuesOf
<1>2. v[s] \in ValuesOf(s) \cup {None}
  BY DEF Views
<1>. QED  BY <1>1, <1>2 DEF Members

LEMMA DerivedIsValue ==
  ASSUME NEW v \in Views, \A s \in Stored : v[s] # None, NEW s \in Settings, IsDerived(s)
  PROVE  Derived(v, s) \in ValuesOf(s)
<1> DEFINE zones == Members(v, s[3])
           values == [z \in zones |-> v[<<"zone", s[2], z>>]]
<1>1. zones \subseteq Identifiers("zone")
  <2>1. <<"group", "zones", s[3]>> \in Settings
    BY GroupsAssumption
  <2>. QED  BY <2>1, MembersAreZones
<1>2. \A z \in zones : values[z] \in Words
  <2> SUFFICES ASSUME NEW z \in zones PROVE values[z] \in Words
    OBVIOUS
  <2> DEFINE t == <<"zone", s[2], z>>
  <2>1. t \in Settings
    BY <1>1, GroupsAssumption
  <2>2. ~ IsDerived(t)
    BY DEF IsDerived
  <2>3. t \in Stored
    BY <2>1, <2>2 DEF Stored
  <2>4. ValuesOf(t) = Words
    BY DEF ValuesOf
  <2>5. v[t] \in ValuesOf(t) \cup {None}
    BY <2>1 DEF Views
  <2>6. v[t] # None
    BY <2>3
  <2>. QED  BY <2>4, <2>5, <2>6
<1>3. values \in [zones -> Words]
  BY <1>2
<1>4. CASE s[2] = "mute"
  <2>1. ValuesOf(s) = Words /\ Derived(v, s) \in {"0", "1"}
    BY <1>4 DEF ValuesOf, Derived
  <2>. QED  BY <2>1, WordsAssumption
<1>5. CASE s[2] = "source"
  <2>1. s[1] = "group"
    BY DEF IsDerived
  <2>2. ValuesOf(s) = SUBSET Words
    BY <1>5, <2>1 DEF ValuesOf
  <2>3. Derived(v, s) = {values[z] : z \in DOMAIN values}
    BY <1>5 DEF Derived
  <2>4. DOMAIN values = zones
    OBVIOUS
  <2>. HIDE DEF values, zones
  <2>5. {values[z] : z \in DOMAIN values} \in SUBSET Words
    BY <1>2, <2>4
  <2>. QED  BY <2>2, <2>3, <2>5
<1>6. CASE s[2] = "volume"
  <2>1. ValuesOf(s) = Words /\ Derived(v, s) = Mean(values)
    BY <1>6 DEF ValuesOf, Derived
  <2>. HIDE DEF values, zones
  <2>2. zones \in SUBSET Identifiers("zone")
    BY <1>1
  <2>3. Mean(values) \in Words
    BY <1>3, <2>2, LevelsAssumption
  <2>. QED  BY <2>1, <2>3
<1>7. s[2] \in {"mute", "source", "volume"}
  BY DEF IsDerived, DerivedKinds
<1>. QED  BY <1>4, <1>5, <1>6, <1>7

LEMMA GroupsDerived ==
  ASSUME NEW a \in Apps, Known(a)
  PROVE  LET b == DeriveGroupState(a)
         IN  /\ b \in Apps /\ Complete(b)
             /\ b.connected = a.connected /\ b.delegate = a.delegate
             /\ b.stopped = a.stopped /\ b.active = a.active /\ b.pending = a.pending
<1> DEFINE b == DeriveGroupState(a)
           view == [s \in Settings |->
                      IF IsDerived(s) THEN Derived(a.view, s) ELSE a.view[s]]
<1>1. a.view \in Views /\ \A s \in Stored : a.view[s] # None
  BY DEF Apps, Known
<1>2. \A s \in Settings : view[s] \in ValuesOf(s)
  <2> SUFFICES ASSUME NEW s \in Settings PROVE view[s] \in ValuesOf(s)
    OBVIOUS
  <2>1. CASE IsDerived(s)
    BY <1>1, <2>1, DerivedIsValue
  <2>2. CASE ~ IsDerived(s)
    <3>1. s \in Stored
      BY <2>2 DEF Stored
    <3>. QED  BY <1>1, <2>2, <3>1 DEF Views
  <2>. QED  BY <2>1, <2>2
<1>3. view \in Views
  BY <1>2, ViewByPoints
<1>4. \A s \in Settings : view[s] # None
  BY <1>2, NoneIsNoValue
<1>5. b = [a EXCEPT !.view = view]
  BY DEF DeriveGroupState
<1>. HIDE DEF view
<1>6. b \in Apps
  BY <1>3, <1>5, AppFields
<1>7. /\ b.view = view /\ b.connected = a.connected /\ b.delegate = a.delegate
      /\ b.stopped = a.stopped /\ b.active = a.active /\ b.pending = a.pending
  BY <1>5 DEF Apps
<1>. QED  BY <1>4, <1>6, <1>7 DEF Complete

LEMMA GroupsDerivedAnew ==
  ASSUME NEW a \in Apps, Refreshing(a), NEW v \in Views, Keeps(a.view, v)
  PROVE  Keeps(v, DeriveGroupStateForGroupsIncludingZone(a, v))
<1> DEFINE w == DeriveGroupStateForGroupsIncludingZone(a, v)
<1>1. ~ IsRefreshing(a) => \A s \in Stored : v[s] # None
  <2> SUFFICES ASSUME ~ IsRefreshing(a) PROVE \A s \in Stored : v[s] # None
    OBVIOUS
  <2>1. a.didRefresh = Cardinality(Controllers)
    BY DEF IsRefreshing
  <2>2. Known(a)
    BY <2>1, ManyControllers DEF Refreshing
  <2>. QED  BY <2>2 DEF Known, Keeps, Stored
<1>2. ASSUME NEW s \in Settings
      PROVE  /\ w[s] \in ValuesOf(s) \cup {None}
             /\ v[s] # None => w[s] # None
  <2>1. CASE w[s] = v[s]
    BY <2>1 DEF Views
  <2>2. CASE ~ IsRefreshing(a) /\ IsDerived(s) /\ w[s] = Derived(v, s)
    <3>1. Derived(v, s) \in ValuesOf(s)
      BY <1>1, <2>2, DerivedIsValue
    <3>. QED  BY <2>2, <3>1, NoneIsNoValue
  <2>3. \/ w[s] = v[s]
        \/ ~ IsRefreshing(a) /\ IsDerived(s) /\ w[s] = Derived(v, s)
    BY DEF DeriveGroupStateForGroupsIncludingZone
  <2>. QED  BY <2>1, <2>2, <2>3
<1>3. w = [s \in Settings |-> w[s]]
  BY DEF DeriveGroupStateForGroupsIncludingZone
<1>. HIDE DEF w
<1>4. w \in Views
  BY <1>2, <1>3, ViewByPoints
<1>. QED  BY <1>2, <1>4 DEF Keeps, w

LEMMA ChangeHandled ==
  ASSUME NEW v \in Views, NEW g, NEW kind \in DerivedKinds, NEW value \in Words
  PROVE  Keeps(v, HandleChange(v, g, kind, value))
<1> DEFINE group == <<"group", kind, g>>
           whole == IF kind = "source" THEN {value} ELSE value
           w == HandleChange(v, g, kind, value)
<1>1. CASE v[group] = whole
  BY <1>1 DEF HandleChange, Keeps
<1>2. CASE v[group] # whole
  <2>1. w = [s \in Settings |->
              CASE s = group -> whole
                [] s \in {<<"zone", kind, z>> : z \in Members(v, g)} -> value
                [] OTHER -> v[s]]
    BY <1>2 DEF HandleChange
  <2>2. whole \in ValuesOf(group)
    BY DEF ValuesOf, DerivedKinds
  <2>3. \A z : value \in ValuesOf(<<"zone", kind, z>>)
    BY DEF ValuesOf
  <2>4. ASSUME NEW s \in Settings
        PROVE  w[s] = v[s] \/ w[s] \in ValuesOf(s)
    <3>1. CASE s = group
      BY <2>1, <2>2, <3>1
    <3>2. CASE s # group /\ s \in {<<"zone", kind, z>> : z \in Members(v, g)}
      BY <2>1, <2>3, <3>2
    <3>3. CASE s # group /\ s \notin {<<"zone", kind, z>> : z \in Members(v, g)}
      BY <2>1, <3>3
    <3>. QED  BY <3>1, <3>2, <3>3
  <2>5. w = [s \in Settings |-> w[s]]
    BY <2>1
  <2>. HIDE DEF w
  <2>6. \A s \in Settings : w[s] \in ValuesOf(s) \cup {None}
    BY <2>4 DEF Views
  <2>7. w \in Views
    BY <2>5, <2>6, ViewByPoints
  <2>8. \A s \in Settings : v[s] # None => w[s] # None
    BY <2>4, NoneIsNoValue
  <2>. QED  BY <2>7, <2>8 DEF Keeps, w
<1>. QED  BY <1>1, <1>2

LEMMA Unmuted ==
  ASSUME NEW v \in Views, NEW g
  PROVE  Keeps(v, HandleUnmuteChange(v, g))
<1>1. "mute" \in DerivedKinds /\ "0" \in Words
  BY WordsAssumption DEF DerivedKinds
<1>. QED  BY <1>1, ChangeHandled DEF HandleUnmuteChange

LEMMA NotificationReceived ==
  ASSUME NEW v \in Views, NEW said, IsDerived(said.setting), said.value \in Words
  PROVE  Keeps(v, NotificationReceivedHandler(v, said))
<1> DEFINE kind == said.setting[2]
           g == said.setting[3]
           u == HandleUnmuteChange(v, g)
<1>1. kind \in DerivedKinds
  BY DEF IsDerived
<1>2. u \in Views /\ Keeps(v, u)
  BY Unmuted DEF Keeps
<1>. HIDE DEF u
<1>3. CASE kind = "volume"
  <2>1. Keeps(u, HandleChange(u, g, "volume", said.value))
    BY <1>1, <1>2, <1>3, ChangeHandled
  <2>2. Keeps(v, HandleChange(u, g, "volume", said.value))
    BY <1>2, <2>1, KeepsFollows
  <2>3. Keeps(v, v)
    BY DEF Keeps
  <2>. QED  BY <1>3, <2>2, <2>3 DEF NotificationReceivedHandler, HandleVolumeChange, u
<1>4. CASE kind # "volume"
  BY <1>1, <1>4, ChangeHandled DEF NotificationReceivedHandler
<1>. QED  BY <1>3, <1>4

LEMMA VolumeAdjusted ==
  ASSUME NEW a \in Apps, Refreshing(a), NEW g, NEW does
  PROVE  Keeps(a.view, AdjustVolumeCompleteHandler(a, g, does))
<1> DEFINE unmuted == HandleUnmuteChange(a.view, g)
           aimed == [z \in Members(unmuted, g) |->
                       Stepped[does][unmuted[<<"zone", "volume", z>>]]]
           reached == {<<"zone", "volume", z>> : z \in {y \in DOMAIN aimed : aimed[y] \in Levels}}
           w == [s \in Settings |-> IF s \in reached THEN aimed[s[3]] ELSE unmuted[s]]
           view == DeriveGroupStateForGroupsIncludingZone(a, w)
           group == <<"group", "volume", g>>
           mean == Mean(aimed)
<1>1. a.view \in Views
  BY DEF Apps
<1>2. unmuted \in Views /\ Keeps(a.view, unmuted)
  BY <1>1, Unmuted DEF Keeps
<1>3. Levels \subseteq Words
  BY WordsAssumption
<1>. HIDE DEF unmuted
<1>4. ASSUME NEW s \in Settings
      PROVE  w[s] = unmuted[s] \/ w[s] \in ValuesOf(s)
  <2>1. CASE s \in reached
    <3>1. PICK z \in DOMAIN aimed : s = <<"zone", "volume", z>> /\ aimed[z] \in Levels
      BY <2>1
    <3>. HIDE DEF aimed
    <3>2. s[3] = z /\ ValuesOf(s) = Words
      BY <3>1 DEF ValuesOf
    <3>. QED  BY <1>3, <2>1, <3>1, <3>2
  <2>2. CASE s \notin reached
    BY <2>2
  <2>. QED  BY <2>1, <2>2
<1>5. w = [s \in Settings |-> w[s]]
  OBVIOUS
<1>. HIDE DEF w
<1>6. \A s \in Settings : w[s] \in ValuesOf(s) \cup {None}
  BY <1>2, <1>4 DEF Views
<1>7. w \in Views
  BY <1>5, <1>6, ViewByPoints
<1>8. Keeps(a.view, w)
  <2>1. Keeps(unmuted, w)
    BY <1>4, <1>7, NoneIsNoValue DEF Keeps
  <2>. QED  BY <1>2, <2>1, KeepsFollows
<1>9. Keeps(a.view, view)
  <2>1. Keeps(w, view)
    BY <1>7, <1>8, GroupsDerivedAnew
  <2>. QED  BY <1>8, <2>1, KeepsFollows
<1>10. view \in Views
  BY <1>9 DEF Keeps
<1>11. \/ AdjustVolumeCompleteHandler(a, g, does) = view
       \/ /\ mean \in Levels
          /\ AdjustVolumeCompleteHandler(a, g, does) = [view EXCEPT ![group] = mean]
  BY DEF AdjustVolumeCompleteHandler, unmuted, w
<1>. HIDE DEF view, mean, aimed, reached
<1>12. ASSUME mean \in Levels PROVE Keeps(a.view, [view EXCEPT ![group] = mean])
  <2> DEFINE x == [view EXCEPT ![group] = mean]
  <2>1. mean \in ValuesOf(group)
    BY <1>3, <1>12 DEF ValuesOf
  <2>2. x = [s \in Settings |-> x[s]] /\ \A s \in Settings : x[s] = IF s = group THEN mean ELSE view[s]
    BY <1>10 DEF Views
  <2>3. \A s \in Settings : x[s] \in ValuesOf(s) \cup {None}
    BY <1>10, <2>1, <2>2 DEF Views
  <2>. HIDE DEF x
  <2>4. x \in Views
    BY <2>2, <2>3, ViewByPoints
  <2>5. \A s \in Settings : view[s] # None => x[s] # None
    BY <2>1, <2>2, NoneIsNoValue
  <2>6. Keeps(a.view, x)
    BY <1>9, <2>4, <2>5 DEF Keeps
  <2>. QED  BY <2>6 DEF x
<1>. QED  BY <1>9, <1>11, <1>12

LEMMA LineHeard ==
  ASSUME NEW a \in Apps, Refreshing(a), NEW said \in Said
  PROVE  /\ Keeps(a.view, Heard(a, said))
         /\ said.is = "answer" =>
              \A s \in DOMAIN said.values : Heard(a, said)[s] # None
<1>1. a.view \in Views /\ Keeps(a.view, a.view)
  BY DEF Apps, Keeps
<1>2. ASSUME NEW S \in SUBSET Stored, NEW values \in Values(S)
      PROVE  LET v == [s \in Settings |-> IF s \in DOMAIN values THEN values[s] ELSE a.view[s]]
                 w == DeriveGroupStateForGroupsIncludingZone(a, v)
             IN  Keeps(a.view, w) /\ \A s \in S : w[s] # None
  <2> DEFINE v == [s \in Settings |-> IF s \in DOMAIN values THEN values[s] ELSE a.view[s]]
             w == DeriveGroupStateForGroupsIncludingZone(a, v)
  <2>1. DOMAIN values = S /\ \A s \in S : values[s] \in ValuesOf(s)
    BY DEF Values
  <2>2. \A s \in Settings : v[s] = IF s \in S THEN values[s] ELSE a.view[s]
    BY <2>1
  <2>3. v = [s \in Settings |-> v[s]]
    OBVIOUS
  <2>. HIDE DEF v
  <2>4. \A s \in Settings : v[s] \in ValuesOf(s) \cup {None}
    BY <1>1, <2>1, <2>2 DEF Views
  <2>5. v \in Views
    BY <2>3, <2>4, ViewByPoints
  <2>6. \A s \in S : s \in Settings /\ v[s] # None
    BY <2>1, <2>2, NoneIsNoValue DEF Stored
  <2>7. Keeps(a.view, v)
    BY <2>2, <2>5, <2>6 DEF Keeps
  <2>8. Keeps(v, w)
    BY <2>5, <2>7, GroupsDerivedAnew
  <2>9. Keeps(a.view, w) /\ \A s \in S : w[s] # None
    <3>1. Keeps(a.view, w)
      BY <2>7, <2>8, KeepsFollows
    <3>. QED  BY <2>6, <2>8, <3>1 DEF Keeps
  <2>. QED  BY <2>9 DEF v
<1>3. CASE said \in AnswersSaid
  <2>1. PICK S \in SUBSET Stored : said.values \in Values(S)
    BY <1>3 DEF AnswersSaid
  <2>2. said.is = "answer" /\ DOMAIN said.values = S
    BY <1>3, <2>1 DEF AnswersSaid, Values
  <2>3. Heard(a, said) = DeriveGroupStateForGroupsIncludingZone(a,
          [s \in Settings |-> IF s \in DOMAIN said.values THEN said.values[s] ELSE a.view[s]])
    BY <2>2 DEF Heard
  <2>. QED  BY <1>2, <2>1, <2>2, <2>3
<1>4. CASE said \in ChangesSaid
  <2>1. said.is = "change" /\ said.setting \in Settings
    BY <1>4 DEF ChangesSaid
  <2>2. CASE ~ IsDerived(said.setting)
    <3> DEFINE S == {said.setting}
               values == [s \in S |-> said.value]
    <3>1. S \in SUBSET Stored
      BY <2>1, <2>2 DEF Stored
    <3>2. values \in Values(S)
      <4>1. said.value \in ValuesOf(said.setting)
        BY <1>4, <2>2 DEF ChangesSaid
      <4>2. said.value \in Words \cup SUBSET Words
        BY <4>1, ValuesAreValues
      <4>. QED  BY <4>1, <4>2 DEF Values
    <3>3. Heard(a, said) = DeriveGroupStateForGroupsIncludingZone(a,
            [s \in Settings |-> IF s \in DOMAIN values THEN values[s] ELSE a.view[s]])
      BY <2>1, <2>2 DEF Heard
    <3>. HIDE DEF values, S
    <3>. QED  BY <1>2, <2>1, <3>1, <3>2, <3>3
  <2>3. CASE IsDerived(said.setting) /\ said.does = "set"
    <3> DEFINE v == NotificationReceivedHandler(a.view, said)
    <3>1. said.value \in Words
      BY <1>4, <2>3 DEF ChangesSaid
    <3>2. Keeps(a.view, v)
      BY <1>1, <2>3, <3>1, NotificationReceived
    <3>3. Heard(a, said) = DeriveGroupStateForGroupsIncludingZone(a, v)
      BY <2>1, <2>3 DEF Heard
    <3>. HIDE DEF v
    <3>4. Keeps(v, Heard(a, said))
      BY <3>2, <3>3, GroupsDerivedAnew DEF Keeps
    <3>. QED  BY <2>1, <3>2, <3>4, KeepsFollows
  <2>4. CASE IsDerived(said.setting) /\ said.does # "set"
    <3> DEFINE g == said.setting[3]
               v == ToggleMuteCompleteHandler(a.view, g)
    <3>1. "mute" \in DerivedKinds /\ \A mute : Opposite(mute) \in Words
      BY WordsAssumption DEF DerivedKinds, Opposite
    <3>2. Keeps(a.view, v)
      BY <1>1, <3>1, ChangeHandled DEF ToggleMuteCompleteHandler
    <3>3. Keeps(a.view, AdjustVolumeCompleteHandler(a, g, said.does))
      BY VolumeAdjusted
    <3>4. Heard(a, said) \in {a.view, DeriveGroupStateForGroupsIncludingZone(a, v),
                              AdjustVolumeCompleteHandler(a, g, said.does)}
      BY <2>1, <2>4 DEF Heard
    <3>. HIDE DEF v, g
    <3>5. Keeps(a.view, DeriveGroupStateForGroupsIncludingZone(a, v))
      <4>1. Keeps(v, DeriveGroupStateForGroupsIncludingZone(a, v))
        BY <3>2, GroupsDerivedAnew DEF Keeps
      <4>. QED  BY <3>2, <4>1, KeepsFollows
    <3>. QED  BY <1>1, <2>1, <3>3, <3>4, <3>5
  <2>. QED  BY <2>2, <2>3, <2>4
<1>5. CASE said = Error
  BY <1>1, <1>5 DEF Error, Heard
<1>. QED  BY <1>3, <1>4, <1>5 DEF Said

-----------------------------------------------------------------------------
(***************************************************************************)
(* Refreshing                                                              *)
(***************************************************************************)
LEMMA QueriesAreQueries ==
  /\ ConfigurationQuery \in Seq(QueriesSent) /\ ConfigurationQuery # <<>>
  /\ Head(ConfigurationQuery) = Query("configuration", Stored)
  /\ ZonesQuery \in Seq(QueriesSent) /\ GroupsQuery \in Seq(QueriesSent) /\ FavoritesQuery \in Seq(QueriesSent)
  /\ EqualizerPresetsQuery \in Seq(QueriesSent) /\ InfraredQuery \in Seq(QueriesSent)
  /\ FrontPanelQuery \in Seq(QueriesSent) /\ NetworkQuery \in Seq(QueriesSent)
<1>1. Query("configuration", Stored) \in QueriesSent
  BY DEF Query, QueriesSent, Queried, Controllers, Counting
<1>2. ASSUME NEW controller \in Queried \ {"configuration"}, NEW S \in SUBSET Stored
      PROVE  Query(controller, S) \in QueriesSent
  BY DEF Query, QueriesSent
<1>3. ASSUME NEW controller \in Counting, NEW type \in Types \cup {"favorite"}
      PROVE  Each(controller, type) \in Seq(QueriesSent)
  <2>1. Len(Elements[type]) \in Nat
    <3>1. Elements[type] \in Seq(Words)
      BY ElementsAssumption
    <3>. QED  BY <3>1
  <2>2. controller \in Queried \ {"configuration"}
    BY DEF Queried, Controllers, Counting
  <2>3. \A i \in 1 .. Len(Elements[type]) :
          Query(controller, {s \in About(type) : s[3] = Elements[type][i]}) \in QueriesSent
    BY <1>2, <2>2 DEF About
  <2>. QED  BY <2>1, <2>3 DEF Each
<1>4. /\ "infrared" \in Queried \ {"configuration"}
      /\ "front panel" \in Queried \ {"configuration"}
      /\ "network" \in Queried \ {"configuration"}
      /\ {"zones", "groups", "favorites", "equalizer presets"} \subseteq Counting
      /\ {"zone", "group", "equalizer preset"} \subseteq Types
  BY DEF Queried, Controllers, Counting, Types
<1>5. ZonesQuery \in Seq(QueriesSent) /\ GroupsQuery \in Seq(QueriesSent)
  BY <1>3, <1>4 DEF ZonesQuery, GroupsQuery
<1>6. FavoritesQuery \in Seq(QueriesSent) /\ EqualizerPresetsQuery \in Seq(QueriesSent)
  BY <1>3, <1>4 DEF FavoritesQuery, EqualizerPresetsQuery
<1>7. InfraredQuery \in Seq(QueriesSent) /\ FrontPanelQuery \in Seq(QueriesSent) /\ NetworkQuery \in Seq(QueriesSent)
  <2>1. \A type : About(type) \in SUBSET Stored
    BY DEF About
  <2>2. /\ Query("infrared", About("infrared")) \in QueriesSent
        /\ Query("front panel", About("front panel")) \in QueriesSent
        /\ Query("network", About("network")) \in QueriesSent
    BY <1>2, <1>4, <2>1
  <2>3. \A query \in QueriesSent : <<query>> \in Seq(QueriesSent)
    OBVIOUS
  <2>. QED  BY <2>2, <2>3 DEF InfraredQuery, FrontPanelQuery, NetworkQuery
<1>8. /\ ConfigurationQuery \in Seq(QueriesSent) /\ ConfigurationQuery # <<>>
      /\ Head(ConfigurationQuery) = Query("configuration", Stored)
  BY <1>1 DEF ConfigurationQuery
<1>. QED  BY <1>5, <1>6, <1>7, <1>8

LEMMA QueriesAreSent ==
  /\ ConfigurationQuery \in Seq(Sent) /\ ConfigurationQuery # <<>>
  /\ Head(ConfigurationQuery) = Query("configuration", Stored)
  /\ ZonesQuery \in Seq(Sent) /\ GroupsQuery \in Seq(Sent) /\ FavoritesQuery \in Seq(Sent)
  /\ EqualizerPresetsQuery \in Seq(Sent) /\ InfraredQuery \in Seq(Sent)
  /\ FrontPanelQuery \in Seq(Sent) /\ NetworkQuery \in Seq(Sent)
<1>1. \A queries \in Seq(QueriesSent) : queries \in Seq(Sent)
  BY DEF Sent
<1>. QED  BY <1>1, QueriesAreQueries

\* An application that has asked for more, after what it asked for first.
AsksMore(a, b) ==
  /\ b \in Apps /\ b.pending # <<>> /\ Head(b.pending) = Head(a.pending)
  /\ b.connected = a.connected /\ b.delegate = a.delegate /\ b.stopped = a.stopped
  /\ b.active = a.active /\ b.didRefresh = a.didRefresh
  /\ b.didDispatch = a.didDispatch /\ b.view = a.view

LEMMA Asked ==
  ASSUME NEW a \in Apps, a.pending # <<>>, NEW queries \in Seq(Sent),
         NEW controller \in Counting
  PROVE  /\ AsksMore(a, Ask(a, queries))
         /\ AsksMore(a, AskEach(a, controller, queries))
<1>1. /\ a.pending \o queries \in Seq(Sent) /\ a.pending \o queries # <<>>
      /\ Head(a.pending \o queries) = Head(a.pending)
  BY DEF Apps
<1>2. ASSUME NEW b \in Apps, b = [a EXCEPT !.refreshed = b.refreshed]
      PROVE  AsksMore(a, Ask(b, queries))
  <2>1. b.pending = a.pending
    BY <1>2 DEF Apps
  <2>. QED  BY <1>1, <1>2, <2>1 DEF AsksMore, Ask, Apps
<1>3. a = [a EXCEPT !.refreshed = a.refreshed]
  BY DEF Apps
<1> DEFINE b == [a EXCEPT !.refreshed[controller] = 0]
<1>4. b \in Apps /\ b = [a EXCEPT !.refreshed = b.refreshed]
  BY DEF Apps
<1>. QED  BY <1>2, <1>3, <1>4 DEF AskEach

LEMMA RefreshAsks ==
  ASSUME NEW a \in Apps, a.connected, a.delegate, ~ a.stopped, a.pending = <<>>,
         ~ a.active, Refreshing(a)
  PROVE  Sound(Refresh(a)) /\ ~ Refresh(a).stopped
<1> DEFINE c == ConfigurationRefresh([a EXCEPT !.didRefresh = 0])
           begun == SourcesRefresh(c)
           d == ZonesRefresh(begun)
           e == GroupsRefresh(d)
           f == FavoritesRefresh(e)
           g == EqualizerPresetsRefresh(f)
           h == InfraredRefresh(g)
           i == FrontPanelRefresh(h)
           j == NetworkRefresh(i)
<1>1. Refresh(a) = j
  BY DEF Refresh
<1>2. <<>> \o ConfigurationQuery = ConfigurationQuery
  BY QueriesAreSent
<1>3. c = [a EXCEPT !.didRefresh = 0, !.pending = ConfigurationQuery]
  BY <1>2 DEF ConfigurationRefresh, Ask, Apps
<1>4. /\ c \in Apps /\ c.pending = ConfigurationQuery /\ c.didRefresh = 0
      /\ c.connected /\ c.delegate /\ ~ c.stopped /\ ~ c.active
      /\ c.didDispatch = a.didDispatch /\ c.view = a.view
  <2>1. c \in Apps
    <3>1. ConfigurationQuery \in Seq(Sent)
      BY QueriesAreSent
    <3>2. 0 \in Nat /\ [a EXCEPT !.didRefresh = 0] \in Apps
      BY AppFields
    <3>3. c = [[a EXCEPT !.didRefresh = 0] EXCEPT !.pending = ConfigurationQuery]
      BY <1>3
    <3>. HIDE DEF c
    <3>. QED  BY <3>1, <3>2, <3>3, AppFields
  <2>2. /\ c.pending = ConfigurationQuery /\ c.didRefresh = 0 /\ c.connected = a.connected
        /\ c.delegate = a.delegate /\ c.stopped = a.stopped /\ c.active = a.active
        /\ c.didDispatch = a.didDispatch /\ c.view = a.view
    BY <1>3 DEF Apps
  <2>. QED  BY <2>1, <2>2
<1>. HIDE DEF c
<1>5. begun = [c EXCEPT !.didRefresh = 1]
  BY <1>4, ManyControllers DEF SourcesRefresh, OnDidRefresh, IsRefreshing, Apps
<1>6. /\ begun \in Apps /\ begun.pending = ConfigurationQuery /\ begun.didRefresh = 1
      /\ begun.connected /\ begun.delegate /\ ~ begun.stopped /\ ~ begun.active
      /\ begun.didDispatch = a.didDispatch /\ begun.view = a.view
  <2>1. begun \in Apps
    <3>1. 1 \in Nat /\ [c EXCEPT !.didRefresh = 1] \in Apps
      BY <1>4, AppFields
    <3>. HIDE DEF begun
    <3>. QED  BY <1>5, <3>1
  <2>2. /\ begun.pending = c.pending /\ begun.connected = c.connected
        /\ begun.delegate = c.delegate /\ begun.stopped = c.stopped
        /\ begun.active = c.active /\ begun.didDispatch = c.didDispatch
        /\ begun.didRefresh = 1 /\ begun.view = c.view
    BY <1>4, <1>5 DEF Apps
  <2>. HIDE DEF begun
  <2>. QED  BY <1>4, <2>1, <2>2
<1>. HIDE DEF begun, d, e, f, g, h, i, j
<1>7. /\ "zones" \in Counting /\ "groups" \in Counting /\ "favorites" \in Counting
      /\ "equalizer presets" \in Counting
  BY DEF Counting
<1>8. AsksMore(begun, d)
  BY <1>6, <1>7, QueriesAreSent, Asked DEF ZonesRefresh, d
<1>9. AsksMore(begun, e)
  <2>1. AsksMore(d, e)
    <3>1. d \in Apps /\ d.pending # <<>>
      BY <1>8 DEF AsksMore
    <3>. QED  BY <1>7, <3>1, QueriesAreSent, Asked DEF GroupsRefresh, e
  <2>. QED  BY <1>8, <2>1 DEF AsksMore
<1>10. AsksMore(begun, f)
  <2>1. AsksMore(e, f)
    <3>1. e \in Apps /\ e.pending # <<>>
      BY <1>9 DEF AsksMore
    <3>. QED  BY <1>7, <3>1, QueriesAreSent, Asked DEF FavoritesRefresh, f
  <2>. QED  BY <1>9, <2>1 DEF AsksMore
<1>11. AsksMore(begun, g)
  <2>1. AsksMore(f, g)
    <3>1. f \in Apps /\ f.pending # <<>>
      BY <1>10 DEF AsksMore
    <3>. QED  BY <1>7, <3>1, QueriesAreSent, Asked DEF EqualizerPresetsRefresh, g
  <2>. QED  BY <1>10, <2>1 DEF AsksMore
<1>12. AsksMore(begun, h)
  <2>1. AsksMore(g, h)
    <3>1. g \in Apps /\ g.pending # <<>>
      BY <1>11 DEF AsksMore
    <3>. QED  BY <1>7, <3>1, QueriesAreSent, Asked DEF InfraredRefresh, h
  <2>. QED  BY <1>11, <2>1 DEF AsksMore
<1>13. AsksMore(begun, i)
  <2>1. AsksMore(h, i)
    <3>1. h \in Apps /\ h.pending # <<>>
      BY <1>12 DEF AsksMore
    <3>. QED  BY <1>7, <3>1, QueriesAreSent, Asked DEF FrontPanelRefresh, i
  <2>. QED  BY <1>12, <2>1 DEF AsksMore
<1>14. AsksMore(begun, j)
  <2>1. AsksMore(i, j)
    <3>1. i \in Apps /\ i.pending # <<>>
      BY <1>13 DEF AsksMore
    <3>. QED  BY <1>7, <3>1, QueriesAreSent, Asked DEF NetworkRefresh, j
  <2>. QED  BY <1>13, <2>1 DEF AsksMore
<1>15. /\ j \in Apps /\ j.pending # <<>> /\ Head(j.pending) = Head(ConfigurationQuery)
       /\ j.connected /\ j.delegate /\ ~ j.stopped /\ ~ j.active /\ j.didRefresh = 1
       /\ j.didDispatch = a.didDispatch /\ j.view = a.view
  BY <1>6, <1>14 DEF AsksMore
<1>16. Sound(j)
  BY <1>15, QueriesAreSent DEF Sound, Idle, Refreshing, ConfigurationIsFirst, Known, Complete
<1>. QED  BY <1>1, <1>15, <1>16

-----------------------------------------------------------------------------
(***************************************************************************)
(* The command                                                             *)
(***************************************************************************)
AskedWell == line \in CommandLines /\ asked \in Askings(line)

LEMMA BearersAreTypes ==
  ASSUME NEW kind \in DOMAIN Bearers
  PROVE  Bearers[kind] \subseteq Types
<1>1. kind \in {"band", "mute", "name", "source", "volume"}
  BY DEF Bearers
<1>2. Bearers["band"] \subseteq Types /\ Bearers["mute"] \subseteq Types
  BY DEF Bearers, Types
<1>3. Bearers["source"] \subseteq Types /\ Bearers["volume"] \subseteq Types
  BY DEF Bearers, Types
<1>4. Bearers["name"] = Types
  BY DEF Bearers
<1>. QED  BY <1>1, <1>2, <1>3, <1>4

LEMMA OperationsAreOperations ==
  ASSUME NEW o \in Options, o.is = "operation"
  PROVE  /\ o.does \in Doings /\ o.argument \in Words
         /\ IF o.kind = "zones" THEN o.does \in {"add", "remove"}
            ELSE o.does \notin {"add", "remove"}
<1> DEFINE Kinds == STRING \ {"zones"}
           Does == {"get", "set", "toggle", "increase", "decrease"}
<1>1. CASE o \in [is : {"operation"}, does : Does, kind : Kinds, argument : Words]
  <2>1. o.kind \in Kinds /\ o.does \in Does /\ o.argument \in Words
    BY <1>1
  <2>2. o.kind # "zones"
    BY <2>1
  <2>. QED  BY <2>1, <2>2 DEF Doings
<1>2. CASE o \in [is : {"operation"}, does : {"add", "remove"}, kind : {"zones"},
                  argument : Words]
  <2>1. o.kind = "zones" /\ o.does \in {"add", "remove"} /\ o.argument \in Words
    BY <1>2
  <2>. QED  BY <2>1 DEF Doings
<1>3. CASE o \in [is : {"object"}, type : Types, argument : Words]
  BY <1>3
<1>4. CASE o \in [is : {"band", "version", "timeout", "host"}, argument : Words]
  BY <1>4
<1>. QED  BY <1>1, <1>2, <1>3, <1>4 DEF Options

LEMMA CommandIsSent ==
  ASSUME NEW a \in Apps, AskedWell, MayDispatch(a)
  PROVE  Command(a) \in CommandsSent
<1> DEFINE o == asked.operation
<1>1. PICK n \in 1 .. Len(line) : line[n].is = "operation" /\ o = line[n]
  BY DEF AskedWell, Askings, OperationsOf, MayDispatch
<1>2. o \in Options /\ o.is = "operation"
  BY <1>1, CommandLinesAssumption DEF AskedWell
<1>3. /\ o.does \in Doings /\ o.argument \in Words
      /\ IF o.kind = "zones" THEN o.does \in {"add", "remove"}
         ELSE o.does \notin {"add", "remove"}
  BY <1>2, OperationsAreOperations
<1>. HIDE DEF o
<1>4. Argument(a) \in Words
  <2>1. CASE o.kind \in DOMAIN Referred
    <3>1. Referred[o.kind] \in Types
      <4>1. o.kind \in {"source", "preset", "zones"}
        BY <2>1 DEF Referred
      <4>2. /\ Referred["source"] = "source" /\ Referred["preset"] = "equalizer preset"
            /\ Referred["zones"] = "zone"
        BY DEF Referred
      <4>3. "source" \in Types /\ "equalizer preset" \in Types /\ "zone" \in Types
        BY DEF Types
      <4>. QED  BY <4>1, <4>2, <4>3
    <3>2. Argument(a) \in Identifiers(Referred[o.kind])
      BY <2>1 DEF MayDispatch, o
    <3>. QED  BY <3>1, <3>2, IdentifiersAreWords
  <2>2. CASE o.kind \notin DOMAIN Referred
    BY <1>3, <2>2 DEF Argument, o
  <2>. QED  BY <2>1, <2>2
<1>5. Addressed \in TypesAddressed(line, o.kind)
  <2>1. CASE o.kind \in DOMAIN Bearers
    <3>1. Addressed = asked.object /\ asked.object \in Bearers[o.kind]
      BY <2>1 DEF Addressed, MayDispatch, o
    <3>2. Bearers[o.kind] \subseteq Types
      BY <2>1, BearersAreTypes
    <3>3. asked.object \in ObjectsOf(line)
      BY <3>1, <3>2, WordsAssumption DEF AskedWell, Askings
    <3>. QED  BY <2>1, <3>1, <3>3 DEF TypesAddressed, ObjectsOf
  <2>2. CASE o.kind \notin DOMAIN Bearers
    BY <2>2 DEF Addressed, TypesAddressed, o
  <2>. QED  BY <2>1, <2>2
<1>6. Identifier(a) \in Identifiers(Addressed)
  BY DEF MayDispatch
<1>7. <<Addressed, o.kind, Identifier(a)>> \in Settings
  BY <1>1, <1>5, <1>6, SettingsAssumption DEF AskedWell
<1>8. o.kind = "zones" => Addressed = "group" /\ Argument(a) \in Identifiers("zone")
  <2>1. /\ "zones" \notin DOMAIN Bearers /\ Owner("zones") = "group"
        /\ "zones" \in DOMAIN Referred /\ Referred["zones"] = "zone"
    BY DEF Bearers, Owner, Referred
  <2>. QED  BY <2>1 DEF Addressed, MayDispatch, o
<1> DEFINE c == Command(a)
<1>9. /\ c.setting = <<Addressed, o.kind, Identifier(a)>> /\ c.argument = Argument(a)
      /\ c.does = o.does
  BY DEF Command, o
<1>10. PutWell(c)
  BY <1>3, <1>4, <1>7, <1>8, <1>9 DEF PutWell
<1>. QED  BY <1>3, <1>4, <1>7, <1>10 DEF Command, CommandsSent, o

\* Once everything is known a refresh ends with success only if there is
\* nothing to do.
LEMMA Refreshed ==
  ASSUME NEW a \in Apps, Known(a), Refreshing(a), AskedWell,
         a.connected, a.delegate, ~ a.stopped, ~ a.active
  PROVE  LET b == OnDidRefresh(a)
         IN  /\ Sound(b)
             /\ b.stopped /\ b.status = 0 =>
                  asked.object = None /\ asked.operation = None /\ Complete(b)
<1> DEFINE c == [a EXCEPT !.didRefresh = @ + 1]
           d == DeriveGroupState(c)
           b == OnDidRefresh(a)
<1>1. /\ c \in Apps /\ c.view = a.view /\ c.connected /\ c.delegate /\ ~ c.stopped /\ ~ c.active
      /\ c.pending = a.pending /\ c.didDispatch = a.didDispatch
  <2>1. a.didRefresh + 1 \in Nat
    BY DEF Apps
  <2>2. c \in Apps
    BY <2>1, AppFields
  <2>3. /\ c.view = a.view /\ c.connected = a.connected
        /\ c.delegate = a.delegate /\ c.stopped = a.stopped /\ c.active = a.active
        /\ c.pending = a.pending /\ c.didDispatch = a.didDispatch
    BY DEF Apps
  <2>. HIDE DEF c
  <2>. QED  BY <2>2, <2>3
<1>2. b = CASE IsRefreshing(c) -> c
            [] ~ IsRefreshing(c) /\ ~ a.delegate -> d
            [] ~ IsRefreshing(c) /\ a.delegate -> ControllerDidRefresh(d)
  BY DEF OnDidRefresh
<1>. HIDE DEF c, b
<1>3. Known(c) /\ (Complete(c) <=> Complete(a))
  BY <1>1 DEF Known, Complete
<1>4. Sound(c) /\ Idle(c) /\ Refreshing(c)
  BY <1>1, <1>3 DEF Sound, Idle, Refreshing, ConfigurationIsFirst
<1>5. /\ d \in Apps /\ Complete(d) /\ d.connected /\ d.delegate /\ ~ d.stopped /\ ~ d.active
      /\ d.pending = c.pending
  BY <1>1, <1>3, GroupsDerived
<1>. HIDE DEF d
<1>6. Known(d) /\ Sound(d) /\ Idle(d) /\ Refreshing(d)
  BY <1>5 DEF Known, Complete, Stored, Sound, Idle, Refreshing, ConfigurationIsFirst
<1>7. CASE b = c
  BY <1>1, <1>4, <1>7 DEF b
<1>8. CASE b = Stop(d, 0) /\ asked.object = None /\ asked.operation = None
  BY <1>5, <1>6, <1>8, Stopped DEF Complete, b
<1>9. CASE b = DispatchCommand(d)
  <2>1. CASE b = Stop(d, 1)
    BY <1>5, <1>6, <2>1, Stopped DEF b
  <2>2. CASE /\ MayDispatch(d)
             /\ b = [d EXCEPT !.pending = Append(@, Command(d)), !.didDispatch = TRUE]
    <3>1. Command(d) \in Sent
      BY <1>5, <2>2, CommandIsSent DEF Sent
    <3>2. Append(d.pending, Command(d)) \in Seq(Sent)
      BY <1>5, <3>1 DEF Apps
    <3>3. /\ b \in Apps /\ b.view = d.view /\ b.connected = d.connected
          /\ b.delegate = d.delegate /\ b.stopped = d.stopped /\ b.active = d.active
      BY <1>5, <2>2, <3>2 DEF Apps
    <3>4. Known(b) /\ Complete(b)
      BY <1>5, <1>6, <3>3 DEF Known, Complete
    <3>. QED  BY <1>5, <3>3, <3>4 DEF Sound, Idle, Refreshing, ConfigurationIsFirst, b
  <2>. QED  BY <1>9, <2>1, <2>2 DEF DispatchCommand
<1>10. \/ b = c \/ b = DispatchCommand(d)
       \/ b = Stop(d, 0) /\ asked.object = None /\ asked.operation = None
  BY <1>2 DEF ControllerDidRefresh
<1>. QED  BY <1>7, <1>8, <1>9, <1>10

LEMMA QueryCompleted ==
  ASSUME NEW a \in Apps, Known(a), Refreshing(a), AskedWell,
         a.connected, a.delegate, ~ a.stopped, ~ a.active,
         NEW controller \in Queried
  PROVE  LET b == QueryCompleteHandler(a, controller)
         IN  /\ Sound(b)
             /\ b.stopped /\ b.status = 0 =>
                  asked.object = None /\ asked.operation = None /\ Complete(b)
<1> DEFINE b == QueryCompleteHandler(a, controller)
           c == [a EXCEPT !.refreshed[controller] = @ + 1]
<1>1. CASE controller \in Counting
  <2>1. b = OnDidRefresh(c) \/ b = c
    BY <1>1 DEF QueryCompleteHandler, ZonesQueryCompleteHandler, GroupsQueryCompleteHandler,
                FavoritesQueryCompleteHandler, EqualizerPresetsQueryCompleteHandler,
                EachQueryCompleteHandler, MaybeUpdateRefreshIfRefreshWasRequested, Counting
  <2>2. /\ c \in Apps /\ c.view = a.view /\ c.connected /\ c.delegate /\ ~ c.stopped
        /\ ~ c.active /\ c.didRefresh = a.didRefresh /\ c.didDispatch = a.didDispatch
    <3>1. /\ c.view = a.view /\ c.connected = a.connected
          /\ c.delegate = a.delegate /\ c.stopped = a.stopped /\ c.active = a.active
          /\ c.didRefresh = a.didRefresh /\ c.didDispatch = a.didDispatch
      BY DEF Apps
    <3>2. c \in Apps
      <4>1. a.refreshed \in [Counting -> Nat]
        BY DEF Apps
      <4>2. [a.refreshed EXCEPT ![controller] = @ + 1] \in [Counting -> Nat]
        BY <1>1, <4>1
      <4>3. c = [a EXCEPT !.refreshed = [a.refreshed EXCEPT ![controller] = @ + 1]]
        BY DEF Apps
      <4>. HIDE DEF c
      <4>. QED  BY <4>2, <4>3, AppFields
    <3>. HIDE DEF c
    <3>. QED  BY <3>1, <3>2
  <2>. HIDE DEF b, c
  <2>3. Known(c) /\ Refreshing(c)
    BY <2>2 DEF Known, Complete, Refreshing
  <2>4. CASE b = OnDidRefresh(c)
    BY <2>2, <2>3, <2>4, Refreshed DEF b
  <2>5. CASE b = c
    BY <2>2, <2>3, <2>5 DEF Sound, Idle, ConfigurationIsFirst, b
  <2>. QED  BY <2>1, <2>4, <2>5
<1>2. CASE controller \notin Counting
  <2>1. b = OnDidRefresh(a)
    BY <1>2 DEF QueryCompleteHandler, Queried, Controllers, Counting,
                ConfigurationQueryCompleteHandler, InfraredQueryCompleteHandler,
                FrontPanelQueryCompleteHandler, NetworkQueryCompleteHandler
  <2>. HIDE DEF b
  <2>. QED  BY <2>1, Refreshed DEF b
<1>. QED  BY <1>1, <1>2

-----------------------------------------------------------------------------
(***************************************************************************)
(* A line is read                                                          *)
(***************************************************************************)
\* The application b, stopped by what a was told, did what was asked for.
Did(a, b) ==
  /\ Complete(b)
  /\ asked.object # None \/ asked.operation # None =>
       /\ a.didDispatch
       /\ asked.expected \in Changes(a.view, b.view) \cup Passing(a.view, b.view)

LEMMA Received ==
  ASSUME NEW a \in Apps, Sound(a), AskedWell, a.connected, NEW said \in Said,
         NEW passing \in SUBSET Passing(a.view, Heard(a, said))
  PROVE  LET b == DidReceiveApplicationData(a, said, passing)
         IN  Sound(b) /\ (b.stopped /\ b.status = 0 => Did(a, b))
<1> DEFINE view == Heard(a, said)
           seen == [a EXCEPT !.view = view]
           told == Told(a, said, passing)
           b == DidReceiveApplicationData(a, said, passing)
<1>1. /\ Keeps(a.view, view)
      /\ said.is = "answer" => \A s \in DOMAIN said.values : view[s] # None
  BY LineHeard DEF Sound
<1>2. told = IF asked.expected \in Changes(a.view, seen.view) \cup passing
             THEN OnStateDidChange(seen, asked.expected) ELSE seen
  BY DEF Told
<1>3. b = IF told.active /\ Ends(Head(told.pending), said)
          THEN Completed(told, Head(told.pending), said) ELSE told
  BY DEF DidReceiveApplicationData, EndsItsExchange
<1>4. passing \subseteq Passing(a.view, view)
  OBVIOUS
<1>. HIDE DEF view
<1>5. /\ seen \in Apps /\ seen.connected /\ seen.delegate /\ ~ seen.stopped
      /\ seen.active = a.active /\ seen.pending = a.pending
      /\ seen.didRefresh = a.didRefresh /\ seen.didDispatch = a.didDispatch
      /\ seen.view = view
  <2>1. view \in Views
    BY <1>1 DEF Keeps
  <2>2. seen \in Apps
    BY <2>1, AppFields
  <2>3. /\ seen.connected = a.connected /\ seen.delegate = a.delegate
        /\ seen.stopped = a.stopped /\ seen.active = a.active /\ seen.pending = a.pending
        /\ seen.didRefresh = a.didRefresh /\ seen.didDispatch = a.didDispatch
        /\ seen.view = view
    BY DEF Apps
  <2>. HIDE DEF seen
  <2>. QED  BY <2>2, <2>3 DEF Sound
<1>. HIDE DEF b, told, seen
<1>6. (Known(a) => Known(seen)) /\ (Complete(a) => Complete(seen))
  BY <1>1, <1>5 DEF Known, Complete, Keeps, Stored
<1>7. Idle(seen) /\ Refreshing(seen)
  BY <1>5, <1>6 DEF Sound, Idle, Refreshing
<1>8. CASE /\ told = Stop(seen, 0) /\ seen.didDispatch
           /\ asked.expected \in Changes(a.view, seen.view) \cup passing
  <2>1. b = told
    BY <1>3, <1>5, <1>7, <1>8, Stopped
  <2>2. Sound(b) /\ b.view = seen.view
    BY <1>5, <1>7, <1>8, <2>1, Stopped
  <2>3. Complete(b)
    BY <1>5, <1>6, <1>8, <2>2 DEF Sound, Refreshing, Complete
  <2>4. Did(a, b)
    BY <1>4, <1>5, <1>8, <2>2, <2>3 DEF Did
  <2>. QED  BY <2>2, <2>4 DEF b
<1>9. CASE told = seen
  <2>1. CASE ~ (a.active /\ Ends(Head(a.pending), said))
    <3>1. b = seen
      BY <1>3, <1>5, <1>9, <2>1
    <3>2. Sound(seen)
      BY <1>5, <1>6, <1>7 DEF Sound, ConfigurationIsFirst
    <3>. QED  BY <1>5, <3>1, <3>2 DEF b
  <2>2. CASE a.active /\ Ends(Head(a.pending), said)
    <3> DEFINE exchange == Head(a.pending)
               ended == [seen EXCEPT !.pending = Tail(@), !.active = FALSE]
    <3>1. /\ exchange \in Sent /\ Tail(a.pending) \in Seq(Sent) /\ a.pending # <<>>
      BY <2>2 DEF Sound, Apps
    <3>2. /\ ended \in Apps /\ ended.connected /\ ended.delegate /\ ~ ended.stopped
          /\ ~ ended.active /\ ended.didRefresh = a.didRefresh
          /\ ended.didDispatch = a.didDispatch /\ ended.view = seen.view
      BY <1>5, <3>1 DEF Apps
    <3>3. b = Completed(seen, exchange, said)
      BY <1>3, <1>5, <1>9, <2>2
    <3>4. b = CASE said.is = "error" -> OnCommandError(ended)
                [] said.is # "error" /\ exchange.is = "query" ->
                     QueryCompleteHandler(ended, exchange.controller)
                [] OTHER -> ended
      BY <3>3 DEF Completed
    <3>5. Ends(exchange, said)
      BY <2>2
    <3>. HIDE DEF ended, exchange
    <3>6. Idle(ended) /\ Refreshing(ended)
      BY <1>5, <1>7, <3>2 DEF Idle, Refreshing, Known, Complete
    <3>7. CASE said.is = "error"
      <4>1. b = Stop(ended, 1)
        BY <3>2, <3>4, <3>7 DEF OnCommandError, ControllerError
      <4>. QED  BY <3>2, <3>6, <4>1, Stopped DEF b
    <3>8. CASE said.is # "error" /\ exchange.is = "query"
      <4>1. exchange \in QueriesSent
        BY <3>1, <3>8 DEF Sent, CommandsSent
      <4>2. said \in AnswersSaid /\ said.controller = exchange.controller
        BY <3>5, <3>8 DEF Ends, Said, ChangesSaid, Error
      <4>3. Known(seen)
        <5>1. CASE Known(a)
          BY <1>6, <5>1
        <5>2. CASE ~ Known(a)
          <6>1. exchange = Query("configuration", Stored)
            BY <5>2 DEF Sound, ConfigurationIsFirst, exchange
          <6>2. exchange.controller = "configuration"
            BY <6>1 DEF Query
          <6>3. said.is = "answer" /\ DOMAIN said.values = Stored
            BY <4>2, <6>2 DEF AnswersSaid, Values
          <6>. QED  BY <1>1, <1>5, <6>3 DEF Known
        <5>. QED  BY <5>1, <5>2
      <4>4. Known(ended)
        BY <3>2, <4>3 DEF Known
      <4>5. b = QueryCompleteHandler(ended, exchange.controller)
        BY <3>4, <3>8
      <4>6. exchange.controller \in Queried
        BY <4>1 DEF QueriesSent
      <4>7. /\ Sound(b)
            /\ b.stopped /\ b.status = 0 =>
                 asked.object = None /\ asked.operation = None /\ Complete(b)
        BY <3>2, <3>6, <4>4, <4>5, <4>6, QueryCompleted
      <4>. QED  BY <4>7 DEF Did, b
    <3>9. CASE said.is # "error" /\ exchange.is # "query"
      <4>1. Known(a)
        BY <3>9 DEF Sound, ConfigurationIsFirst, Query, exchange
      <4>2. Known(ended)
        BY <1>6, <3>2, <4>1 DEF Known
      <4>3. b = ended
        BY <3>4, <3>9
      <4>4. Sound(ended)
        BY <3>2, <3>6, <4>2 DEF Sound, ConfigurationIsFirst
      <4>. QED  BY <3>2, <4>3, <4>4 DEF b
    <3>. QED  BY <3>7, <3>8, <3>9
  <2>. QED  BY <2>1, <2>2
<1>10. \/ /\ told = Stop(seen, 0) /\ seen.didDispatch
          /\ asked.expected \in Changes(a.view, seen.view) \cup passing
       \/ told = seen
  BY <1>2, <1>5 DEF OnStateDidChange, ControllerStateDidChange
<1>. QED  BY <1>8, <1>9, <1>10

-----------------------------------------------------------------------------
(***************************************************************************)
(* The invariant of the whole                                              *)
(***************************************************************************)
Inv ==
  /\ AskedWell /\ decoded \in 0 .. Len(line)
  /\ requests \in Seq(Sent) /\ lines \in Seq(Said) /\ server \in Values(Stored)
  /\ Sound(app)
  /\ process \in {"decoding", "resolving", "connecting"} => ~ app.connected
  /\ process \in {"resolving", "connecting"} => app.delegate

LEMMA InvInit == Init => Inv
<1> SUFFICES ASSUME Init PROVE Inv
  OBVIOUS
<1>1. line \in Seq(Options) /\ Len(line) \in Nat
  BY CommandLinesAssumption DEF Init
<1>2. AskedWell
  BY DEF Init, AskedWell, NothingAsked, Askings
<1>3. <<>> \in Seq(Sent) /\ <<>> \in Seq(Said)
  OBVIOUS
<1>4. NoApp \in Apps
  <2> DEFINE view == [s \in Settings |-> None]
  <2>1. view \in Views
    BY DEF Views
  <2>. HIDE DEF view
  <2>2. NoApp.view = view
    BY DEF NoApp, view
  <2>. QED  BY <1>3, <2>1, <2>2 DEF NoApp, Apps
<1>5. Sound(NoApp)
  BY <1>4 DEF NoApp, Sound, Idle, Refreshing, ConfigurationIsFirst
<1>6. server \in Values(Stored)
  BY InitiallyAssumption, ValuesAreValues DEF Init, Values
<1>7. ~ NoApp.connected
  BY DEF NoApp
<1>. QED  BY <1>1, <1>2, <1>3, <1>5, <1>6, <1>7 DEF Init, Inv

LEMMA OptionDecoded ==
  ASSUME NEW a, NEW given, given \in CommandLines, a \in Askings(given),
         NEW i \in 1 .. Len(given)
  PROVE  DecodeOption(a, given[i]) \in Askings(given)
<1> DEFINE o == given[i]
<1>1. o \in Options
  BY CommandLinesAssumption
<1>2. CASE o.is = "object"
  <2>1. o.type \in ObjectsOf(given) /\ o.argument \in Words
    BY <1>1, <1>2 DEF Options, ObjectsOf
  <2>. QED  BY <1>2, <2>1 DEF DecodeOption, SetObjectOption, Askings
<1>3. CASE o.is = "band"
  <2>1. o.argument \in Words
    BY <1>1 DEF Options
  <2>. QED  BY <1>3, <2>1 DEF DecodeOption, SetSubobjectOption, Askings
<1>4. CASE o.is = "operation"
  <2>1. o \in OperationsOf(given) /\ o.kind \in KindsOf(given)
    BY <1>4 DEF OperationsOf, KindsOf
  <2>2. ExpectedEvent(o, a.object, a.expected) \in (Types \X KindsOf(given)) \cup {None}
    <3>1. Owner(o.kind) \in Types
      BY DEF Owner, Types
    <3>2. o.kind \in DOMAIN Bearers => Bearers[o.kind] \subseteq Types
      BY BearersAreTypes
    <3>3. a.expected \in (Types \X KindsOf(given)) \cup {None}
      BY DEF Askings
    <3>. HIDE DEF o
    <3>. QED  BY <2>1, <3>1, <3>2, <3>3 DEF ExpectedEvent
  <2>. QED  BY <1>4, <2>1, <2>2 DEF DecodeOption, SetOperationOption, Askings
<1>5. CASE o.is = "version"
  <2>1. o.argument \in Words
    BY <1>1 DEF Options
  <2>. QED  BY <1>5, <2>1 DEF DecodeOption, Askings
<1>6. CASE o.is = "timeout"
  <2>1. o.argument \in Words
    BY <1>1 DEF Options
  <2>. QED  BY <1>6, <2>1 DEF DecodeOption, Askings
<1>7. CASE o.is = "host"
  BY <1>7 DEF DecodeOption, Askings
<1>8. o.is \in {"object", "band", "operation", "version", "timeout", "host"}
  BY <1>1 DEF Options
<1>. QED  BY <1>2, <1>3, <1>4, <1>5, <1>6, <1>7, <1>8

-----------------------------------------------------------------------------
(***************************************************************************)
(* Every step keeps the invariant, and ends hlxc with success only by what *)
(* it read, or by a signal.                                                *)
(***************************************************************************)
Succeeds(a, b) == ~ a.stopped /\ b.stopped /\ b.status = 0

LEMMA Resounds ==
  ASSUME Sound(app), NEW b,
         b \in {app, [app EXCEPT !.status = 1], [app EXCEPT !.delegate = TRUE]}
  PROVE  Sound(b) /\ b.connected = app.connected /\ b.stopped = app.stopped
<1>1. app \in Apps
  BY DEF Sound
<1>2. [app EXCEPT !.status = 1] \in Apps /\ [app EXCEPT !.delegate = TRUE] \in Apps
  <2>1. 1 \in 0 .. 1 /\ TRUE \in BOOLEAN
    OBVIOUS
  <2>. QED  BY <1>1, <2>1, AppFields
<1>3. b \in Apps
  BY <1>1, <1>2
<1>4. /\ b.connected = app.connected /\ b.stopped = app.stopped /\ b.pending = app.pending
      /\ b.active = app.active /\ b.view = app.view /\ b.didRefresh = app.didRefresh
      /\ b.didDispatch = app.didDispatch /\ (app.delegate => b.delegate)
  BY <1>1 DEF Apps
<1>. QED
  BY <1>3, <1>4 DEF Sound, Idle, Refreshing, ConfigurationIsFirst, Known, Complete

LEMMA OptionsStep == Inv /\ (DecodeOptions \/ Start) => Inv' /\ ~ Succeeds(app, app')
<1> SUFFICES ASSUME Inv, DecodeOptions \/ Start PROVE Inv' /\ ~ Succeeds(app, app')
  OBVIOUS
<1>1. process = "decoding" /\ ~ app.connected /\ Sound(app) /\ app \in Apps
  BY DEF Inv, Sound, DecodeOptions, Start
<1>2. CASE DecodeOptions
  <2>1. Len(line) \in Nat
    BY CommandLinesAssumption DEF Inv, AskedWell
  <2>2. /\ decoded' \in 0 .. Len(line) /\ decoded + 1 \in 1 .. Len(line)
    BY <1>2, <2>1 DEF Inv, DecodeOptions
  <2>3. AskedWell'
    BY <1>2, <2>2, OptionDecoded DEF Inv, AskedWell, DecodeOptions
  <2>4. /\ app' \in {app, [app EXCEPT !.status = 1], [app EXCEPT !.delegate = TRUE]}
        /\ process' \in {"decoding", "exited"}
    BY <1>1, <1>2 DEF DecodeOptions, PrintUsage
  <2>5. Sound(app') /\ ~ app'.connected /\ ~ Succeeds(app, app')
    BY <1>1, <2>4, Resounds DEF Succeeds
  <2>6. UNCHANGED <<line, requests, lines, server>>
    BY <1>2 DEF DecodeOptions, wire
  <2>. QED  BY <2>2, <2>3, <2>4, <2>5, <2>6 DEF Inv, AskedWell, Sound
<1>3. CASE Start
  <2>1. /\ app' \in {app, [app EXCEPT !.status = 1], [app EXCEPT !.delegate = TRUE]}
        /\ process' \in {"exited", "resolving"}
        /\ process' = "resolving" => app' = [app EXCEPT !.delegate = TRUE]
    BY <1>3 DEF Start, PrintUsage, SetDelegate
  <2>2. Sound(app') /\ ~ app'.connected /\ ~ Succeeds(app, app')
    BY <1>1, <2>1, Resounds DEF Succeeds
  <2>3. process' = "resolving" => app'.delegate
    BY <1>1, <2>1 DEF Apps
  <2>4. UNCHANGED <<line, decoded, asked, requests, lines, server>>
    BY <1>3 DEF Start, options, wire
  <2>. QED  BY <2>1, <2>2, <2>3, <2>4 DEF Inv, AskedWell
<1>. QED  BY <1>2, <1>3

LEMMA ConnectStep ==
  /\ Inv
  /\ \/ ConnectionManagerDidResolve \/ ConnectionManagerDidNotResolve
     \/ ConnectionManagerDidConnect \/ ConnectionManagerDidNotConnect
  => Inv' /\ ~ Succeeds(app, app')
<1> SUFFICES ASSUME Inv,
                    \/ ConnectionManagerDidResolve \/ ConnectionManagerDidNotResolve
                    \/ ConnectionManagerDidConnect \/ ConnectionManagerDidNotConnect
             PROVE  Inv' /\ ~ Succeeds(app, app')
  OBVIOUS
<1>1. /\ UNCHANGED <<line, decoded, asked, requests, lines, server>>
      /\ process \in {"resolving", "connecting"}
  BY DEF ConnectionManagerDidResolve, ConnectionManagerDidNotResolve,
         ConnectionManagerDidConnect, ConnectionManagerDidNotConnect, options, wire
<1>2. Sound(app) /\ app \in Apps /\ ~ app.connected /\ app.delegate
  BY <1>1 DEF Inv, Sound
<1>3. CASE ConnectionManagerDidResolve
  BY <1>1, <1>2, <1>3
     DEF ConnectionManagerDidResolve, Inv, AskedWell, Succeeds
<1>4. CASE ConnectionManagerDidNotResolve
  <2>1. app' = [app EXCEPT !.status = 1] /\ process' = "exited"
    BY <1>4 DEF ConnectionManagerDidNotResolve
  <2>2. Sound(app') /\ ~ Succeeds(app, app')
    BY <1>2, <2>1, Resounds DEF Succeeds
  <2>. QED  BY <1>1, <2>1, <2>2 DEF Inv, AskedWell
<1>5. CASE ConnectionManagerDidConnect
  <2> DEFINE a == [app EXCEPT !.connected = TRUE]
  <2>1. a \in Apps
    <3>1. TRUE \in BOOLEAN
      OBVIOUS
    <3>. QED  BY <1>2, <3>1, AppFields
  <2>2. /\ a.connected = TRUE /\ a.delegate = app.delegate /\ a.stopped = app.stopped
        /\ a.pending = app.pending /\ a.active = app.active /\ a.view = app.view
        /\ a.didDispatch = app.didDispatch /\ a.didRefresh = app.didRefresh
    BY <1>2 DEF Apps
  <2>3. app' = Refresh(a) /\ ~ app.stopped /\ process' = "running"
    BY <1>5 DEF ConnectionManagerDidConnect, ControllerDidConnect
  <2>. HIDE DEF a
  <2>4. a.connected /\ a.delegate /\ ~ a.stopped /\ a.pending = <<>> /\ ~ a.active
    BY <1>2, <2>2, <2>3 DEF Sound, Idle
  <2>. Refreshing(a)
    BY <1>2, <2>2 DEF Sound, Refreshing, Known, Complete
  <2>5. Sound(app') /\ ~ app'.stopped
    BY <2>1, <2>3, <2>4, RefreshAsks
  <2>. QED  BY <1>1, <2>3, <2>5 DEF Inv, AskedWell, Succeeds
<1>6. CASE ConnectionManagerDidNotConnect
  <2> DEFINE a == Stop(app, 1)
  <2>1. 1 \in 0 .. 1
    OBVIOUS
  <2>2. /\ Sound(a) /\ ~ a.connected /\ a.delegate = app.delegate
    BY <1>2, <2>1, Stopped DEF Sound
  <2>3. app' = Stop(a, 1) /\ process' = process
    BY <1>2, <1>6, <2>2
       DEF ConnectionManagerDidNotConnect, ControllerDidNotConnect, ConnectionManagerError,
           ControllerError
  <2>. HIDE DEF a
  <2>4. Sound(app') /\ ~ app'.connected /\ app'.delegate = a.delegate /\ app'.status = 1
    BY <2>1, <2>2, <2>3, Stopped DEF Sound
  <2>5. app'.delegate
    BY <1>2, <2>2, <2>4
  <2>. QED  BY <1>1, <2>3, <2>4, <2>5 DEF Inv, AskedWell, Succeeds
<1>. QED  BY <1>3, <1>4, <1>5, <1>6

LEMMA ExchangeStep ==
  Inv /\ (Exit \/ ServiceCommandQueue) => Inv' /\ ~ Succeeds(app, app')
<1> SUFFICES ASSUME Inv, Exit \/ ServiceCommandQueue
             PROVE  Inv' /\ ~ Succeeds(app, app')
  OBVIOUS
<1>1. Sound(app) /\ app \in Apps
  BY DEF Inv, Sound
<1>2. CASE Exit
  BY <1>2 DEF Exit, options, wire, Inv, AskedWell, Succeeds
<1>3. CASE ServiceCommandQueue
  <2>1. /\ UNCHANGED <<line, decoded, asked, process, lines, server>>
        /\ app.pending # <<>> /\ app' = [app EXCEPT !.active = TRUE]
        /\ requests' = Append(requests, Head(app.pending))
    BY <1>3 DEF ServiceCommandQueue, options
  <2>2. Head(app.pending) \in Sent
    BY <1>1, <2>1 DEF Apps
  <2>3. requests' \in Seq(Sent)
    BY <2>1, <2>2 DEF Inv
  <2>4. app' \in Apps
    <3>1. TRUE \in BOOLEAN
      OBVIOUS
    <3>. QED  BY <1>1, <2>1, <3>1, AppFields
  <2>5. /\ app'.connected = app.connected /\ app'.delegate = app.delegate
        /\ app'.stopped = app.stopped /\ app'.pending = app.pending
        /\ app'.view = app.view /\ app'.didRefresh = app.didRefresh
        /\ app'.didDispatch = app.didDispatch
    BY <1>1, <2>1 DEF Apps
  <2>6. Sound(app')
    BY <1>1, <2>1, <2>4, <2>5
       DEF Sound, Idle, Refreshing, ConfigurationIsFirst, Known, Complete
  <2>. QED  BY <2>1, <2>3, <2>5, <2>6 DEF Inv, AskedWell, Succeeds
<1>. QED  BY <1>2, <1>3

\* A process that is connected runs.
LEMMA ConnectedRuns ==
  ASSUME Inv, app.connected
  PROVE  process \notin {"decoding", "resolving", "connecting"}
BY DEF Inv

LEMMA ReceiveStep ==
  ASSUME Inv, ReceiveLine
  PROVE  Inv' /\ (Succeeds(app, app') => Did(app, app'))
<1>1. /\ UNCHANGED <<line, decoded, asked, process, requests, server>>
      /\ app.connected /\ lines # <<>> /\ lines' = Tail(lines)
  BY DEF ReceiveLine, options
<1>2. Head(lines) \in Said /\ lines' \in Seq(Said)
  BY <1>1 DEF Inv
<1>3. Sound(app') /\ (app'.stopped /\ app'.status = 0 => Did(app, app'))
  <2>1. PICK passing \in SUBSET Passing(app.view, Heard(app, Head(lines))) :
          app' = DidReceiveApplicationData(app, Head(lines), passing)
    BY DEF ReceiveLine
  <2>. QED  BY <1>1, <1>2, <2>1, Received DEF Inv, Sound
<1>4. process' \notin {"resolving", "connecting", "decoding"}
  BY <1>1, ConnectedRuns
<1>. QED  BY <1>1, <1>2, <1>3, <1>4 DEF Inv, AskedWell, Succeeds

LEMMA SaidIsHeard ==
  ASSUME lines \in Seq(Said), NEW said \in Said, Say(said)
  PROVE  lines' \in Seq(Said)
BY DEF Say

LEMMA AnswerIsSaid ==
  ASSUME server \in Values(Stored), NEW query \in QueriesSent
  PROVE  Answer(query) \in Said
<1>1. /\ query.about \in SUBSET Stored /\ query.controller \in Queried
      /\ query.controller = "configuration" => query.about = Stored
  BY DEF QueriesSent
<1> DEFINE values == [s \in query.about |-> server[s]]
<1>2. values \in Values(query.about)
  BY <1>1 DEF Values
<1>3. Answer(query) = [is |-> "answer", controller |-> query.controller, values |-> values]
  BY DEF Answer
<1>. HIDE DEF values
<1>4. values \in UNION {Values(S) : S \in SUBSET Stored}
  BY <1>1, <1>2
<1>5. query.controller = "configuration" => values \in Values(Stored)
  BY <1>1, <1>2
<1>. QED  BY <1>1, <1>3, <1>4, <1>5 DEF AnswersSaid, Said

LEMMA CommandKeepsValues ==
  ASSUME server \in Values(Stored), NEW command, PutWell(command)
  PROVE  Outcomes(command) \subseteq Values(Stored)
<1> DEFINE after == Obeyed(command)
<1>1. ASSUME NEW s \in Stored
      PROVE  after[s] \in ValuesOf(s)
  <2>1. server[s] \in ValuesOf(s) /\ after[s] \in {server[s], Becomes(command, server[s])}
    BY DEF Values, Obeyed
  <2>2. CASE s \in Reached(command)
    <3>1. CASE <<s[1], s[2]>> = <<"group", "zones">>
      <4>1. ~ IsDerived(command.setting) /\ command.setting = s
        BY <2>2, <3>1 DEF Reached
      <4>2. command.does \in {"add", "remove"} /\ command.argument \in Identifiers("zone")
        BY <3>1, <4>1 DEF PutWell
      <4>3. ValuesOf(s) = SUBSET Identifiers("zone")
        BY <3>1 DEF ValuesOf
      <4>. QED  BY <2>1, <4>2, <4>3 DEF Becomes
    <3>2. CASE <<s[1], s[2]>> # <<"group", "zones">>
      <4>1. ValuesOf(s) = Words
        BY <3>2 DEF ValuesOf, Stored, IsDerived, DerivedKinds
      <4>2. command.does \notin {"add", "remove"} /\ command.argument \in Words
        <5>1. <<command.setting[1], command.setting[2]>> # <<"group", "zones">>
          BY <2>2, <3>2 DEF Reached, IsDerived, DerivedKinds
        <5>. QED  BY <5>1 DEF PutWell
      <4>3. Becomes(command, server[s]) \in Words
        <5>1. Levels \subseteq Words /\ {"0", "1"} \subseteq Words
          BY WordsAssumption
        <5>. QED  BY <2>1, <4>1, <4>2, <5>1 DEF Becomes, Opposite
      <4>. QED  BY <2>1, <4>1, <4>3
    <3>. QED  BY <3>1, <3>2
  <2>3. CASE s \notin Reached(command)
    BY <2>1, <2>3 DEF Obeyed
  <2>. QED  BY <2>2, <2>3
<1>2. after = [s \in Stored |-> after[s]]
  BY DEF Obeyed
<1>. HIDE DEF after
<1>3. after \in Values(Stored)
  BY <1>1, <1>2, ValuesAreValues DEF Values
<1>. QED  BY <1>3 DEF Outcomes, after

LEMMA ChangeIsSaid ==
  ASSUME NEW command, PutWell(command), NEW after \in Values(Stored)
  PROVE  Change(command, after) \in Said
<1> DEFINE l == Change(command, after)
           value == CASE ~ IsDerived(command.setting) -> after[command.setting]
                      [] IsDerived(command.setting) /\ command.does = "set" -> command.argument
                      [] IsDerived(command.setting) /\ command.does # "set" -> None
<1>1. command.setting \in Settings /\ command.does \in Doings /\ command.argument \in Words
  BY DEF PutWell
<1>2. ~ IsDerived(command.setting) => value \in ValuesOf(command.setting)
  BY <1>1 DEF Stored, Values
<1>3. IsDerived(command.setting) /\ command.does = "set" => value \in Words
  BY <1>1
<1>4. value \in Words \cup {None} \cup SUBSET Words
  BY <1>1, <1>2, ValuesAreValues
<1>5. l = [is |-> "change", setting |-> command.setting, does |-> command.does, value |-> value]
  BY DEF Change
<1>. HIDE DEF value
<1>. QED  BY <1>1, <1>2, <1>3, <1>4, <1>5 DEF ChangesSaid, Said

LEMMA ServerStep ==
  Inv /\ (ServerAnswers \/ ServerHandles) => Inv' /\ ~ Succeeds(app, app')
<1> SUFFICES ASSUME Inv, ServerAnswers \/ ServerHandles
             PROVE  Inv' /\ ~ Succeeds(app, app')
  OBVIOUS
<1>1. /\ UNCHANGED <<line, decoded, asked, process, app>>
      /\ requests # <<>> /\ requests' = Tail(requests)
  BY DEF ServerAnswers, ServerHandles, options
<1>2. Head(requests) \in Sent /\ requests' \in Seq(Sent)
  BY <1>1 DEF Inv
<1>3. lines \in Seq(Said) /\ server \in Values(Stored)
  BY DEF Inv
<1>4. lines' \in Seq(Said) /\ server' \in Values(Stored)
  <2>1. CASE ServerAnswers
    <3>1. Head(requests) \in QueriesSent
      BY <1>2, <2>1 DEF ServerAnswers, Sent, CommandsSent
    <3>2. Say(Answer(Head(requests))) /\ server' = server
      BY <2>1 DEF ServerAnswers
    <3>. QED  BY <1>3, <3>1, <3>2, AnswerIsSaid, SaidIsHeard
  <2>2. CASE ServerHandles
    <3> DEFINE command == Head(requests)
    <3>1. PutWell(command)
      BY <1>2, <2>2 DEF ServerHandles, Sent, QueriesSent, CommandsSent
    <3>2. /\ server' \in {server} \cup Outcomes(command)
          /\ Say(Error) \/ UNCHANGED lines
             \/ (server' \in Outcomes(command) /\ Say(Change(command, server')))
      BY <2>2 DEF ServerHandles
    <3>. HIDE DEF command
    <3>3. server' \in Values(Stored)
      BY <1>3, <3>1, <3>2, CommandKeepsValues
    <3>4. Error \in Said /\ Change(command, server') \in Said
      BY <3>1, <3>3, ChangeIsSaid DEF Said
    <3>5. lines' \in Seq(Said)
      BY <1>3, <3>2, <3>4, SaidIsHeard
    <3>. QED  BY <3>3, <3>5
  <2>. QED  BY <2>1, <2>2
<1>. QED  BY <1>1, <1>2, <1>4 DEF Inv, AskedWell, Sound, Succeeds

\* What others ask for is asked for well.
LEMMA OthersPutWell ==
  ASSUME NEW setting \in Settings, NEW command \in OthersCommands(setting)
  PROVE  PutWell(command)
<1>1. "0" \in Words /\ "1" \in Words /\ Levels \subseteq Words
  BY WordsAssumption
<1>2. Identifiers("zone") \subseteq Words
  <2>1. "zone" \in Types
    BY DEF Types
  <2>. QED  BY <2>1, IdentifiersAreWords
<1>3. CASE setting[2] = "zones"
  <2>1. /\ command.setting = setting /\ command.does \in {"add", "remove"}
        /\ command.argument \in Identifiers("zone")
    BY <1>3 DEF OthersCommands
  <2>2. setting[1] = "group"
    BY <1>3, GroupsAssumption
  <2>3. <<command.setting[1], command.setting[2]>> = <<"group", "zones">>
    BY <1>3, <2>1, <2>2
  <2>4. command.does \in Doings /\ command.setting \in Settings /\ command.argument \in Words
    BY <1>2, <2>1 DEF Doings
  <2>. QED  BY <2>1, <2>3, <2>4 DEF PutWell
<1>4. CASE setting[2] # "zones"
  <2>1. /\ command.setting = setting
        /\ command.does \in {"set", "toggle", "increase", "decrease"}
        /\ command.argument \in {"0", "1"} \cup Levels
    BY <1>4 DEF OthersCommands
  <2>2. <<command.setting[1], command.setting[2]>> # <<"group", "zones">>
    BY <1>4, <2>1
  <2>3. /\ command.does \in Doings /\ command.setting \in Settings
        /\ command.argument \in Words /\ command.does \notin {"add", "remove"}
    BY <1>1, <2>1 DEF Doings
  <2>. QED  BY <2>2, <2>3 DEF PutWell
<1>. QED  BY <1>3, <1>4

LEMMA OthersStep ==
  /\ Inv
  /\ (\E setting \in Settings : OthersChange(setting)) \/ OthersQuery \/ OthersError
  => Inv' /\ ~ Succeeds(app, app')
<1> SUFFICES ASSUME Inv,
                    \/ \E setting \in Settings : OthersChange(setting)
                    \/ OthersQuery \/ OthersError
             PROVE  Inv' /\ ~ Succeeds(app, app')
  OBVIOUS
<1>1. UNCHANGED <<line, decoded, asked, process, requests, app>>
  BY DEF OthersChange, OthersQuery, OthersError, Disturb, options
<1>2. lines \in Seq(Said) /\ server \in Values(Stored)
  BY DEF Inv
<1>3. CASE \E setting \in Settings : OthersChange(setting)
  <2>0. PICK setting \in Settings : OthersChange(setting)
    BY <1>3
  <2>1. PICK command \in OthersCommands(setting) :
          /\ server' \in Outcomes(command)
          /\ Say(Change(command, server')) \/ UNCHANGED lines
    BY <2>0 DEF OthersChange
  <2>2. PutWell(command)
    BY OthersPutWell
  <2>3. server' \in Values(Stored)
    BY <1>2, <2>1, <2>2, CommandKeepsValues
  <2>4. lines' \in Seq(Said)
    BY <1>2, <2>1, <2>2, <2>3, ChangeIsSaid, SaidIsHeard
  <2>. QED  BY <1>1, <2>3, <2>4 DEF Inv, AskedWell, Sound, Succeeds
<1>4. CASE OthersQuery
  <2>1. PICK i \in 1 .. Len(Queries) : Say(Answer(Queries[i]))
    BY <1>4 DEF OthersQuery
  <2>2. Queries \in Seq(QueriesSent)
    BY QueriesAreQueries DEF Queries
  <2>3. Queries[i] \in QueriesSent
    BY <2>2
  <2>4. lines' \in Seq(Said) /\ server' = server
    BY <1>2, <1>4, <2>1, <2>3, AnswerIsSaid, SaidIsHeard DEF OthersQuery
  <2>. QED  BY <1>1, <1>2, <2>4 DEF Inv, AskedWell, Sound, Succeeds
<1>5. CASE OthersError
  <2>1. Say(Error) /\ server' = server /\ Error \in Said
    BY <1>5 DEF OthersError, Said
  <2>2. lines' \in Seq(Said)
    BY <1>2, <2>1, SaidIsHeard
  <2>. QED  BY <1>1, <1>2, <2>1, <2>2 DEF Inv, AskedWell, Sound, Succeeds
<1>. QED  BY <1>3, <1>4, <1>5

LEMMA ResetStep == Inv /\ ConnectionReset => Inv' /\ ~ Succeeds(app, app')
<1> SUFFICES ASSUME Inv, ConnectionReset PROVE Inv' /\ ~ Succeeds(app, app')
  OBVIOUS
<1> DEFINE a == Closed(app)
           b == SetDelegate(a, FALSE)
<1>1. /\ UNCHANGED <<line, decoded, asked, process, requests, lines, server>>
      /\ app.connected
      /\ app' = ConnectionManagerError(ConnectionManagerDidDisconnect(a, TRUE))
  BY DEF ConnectionReset, Disturb, options
<1>2. Sound(app) /\ app \in Apps /\ app.delegate
  BY <1>1 DEF Inv, Sound
<1>3. <<>> \in Seq(Sent)
  OBVIOUS
<1>4. /\ a \in Apps /\ ~ a.connected /\ ~ a.active /\ a.pending = <<>>
      /\ a.view = app.view /\ a.didRefresh = app.didRefresh
      /\ a.didDispatch = app.didDispatch /\ a.delegate = app.delegate
  BY <1>2, <1>3 DEF Closed, Apps
<1>. HIDE DEF a
<1>5. /\ b \in Apps /\ b.delegate = FALSE /\ b.connected = a.connected
      /\ b.active = a.active /\ b.pending = a.pending /\ b.view = a.view
      /\ b.didRefresh = a.didRefresh /\ b.didDispatch = a.didDispatch
  BY <1>4 DEF SetDelegate, Apps
<1> DEFINE c == [b EXCEPT !.status = 1, !.stopped = TRUE]
<1>6. ConnectionManagerDidDisconnect(a, TRUE) = c
  BY <1>2, <1>4
     DEF ConnectionManagerDidDisconnect, ControllerDidDisconnect, StopRunLoop
<1>. HIDE DEF b
<1>7. /\ c \in Apps /\ c.delegate = FALSE /\ c.connected = a.connected
      /\ c.active = a.active /\ c.pending = a.pending /\ c.view = a.view
      /\ c.didRefresh = a.didRefresh /\ c.didDispatch = a.didDispatch /\ c.status = 1
  <2>1. c \in Apps
    <3>1. 1 \in 0 .. 1 /\ TRUE \in BOOLEAN
      OBVIOUS
    <3>2. [b EXCEPT !.status = 1] \in Apps
      BY <1>5, <3>1, AppFields
    <3>3. c = [[b EXCEPT !.status = 1] EXCEPT !.stopped = TRUE]
      OBVIOUS
    <3>. HIDE DEF c
    <3>. QED  BY <3>1, <3>2, <3>3, AppFields
  <2>2. /\ c.delegate = b.delegate /\ c.connected = b.connected
        /\ c.active = b.active /\ c.pending = b.pending /\ c.view = b.view
        /\ c.didRefresh = b.didRefresh /\ c.didDispatch = b.didDispatch /\ c.status = 1
    BY <1>5 DEF Apps
  <2>. HIDE DEF c
  <2>. QED  BY <1>5, <2>1, <2>2
<1>. HIDE DEF c
<1>8. app' = c
  BY <1>1, <1>6, <1>7 DEF ConnectionManagerError
<1>9. Sound(app') /\ ~ Succeeds(app, app') /\ ~ app'.connected
  BY <1>2, <1>4, <1>7, <1>8
     DEF Sound, Idle, Refreshing, ConfigurationIsFirst, Known, Complete, Succeeds
<1>10. process' \notin {"resolving", "connecting", "decoding"}
  BY <1>1, ConnectedRuns
<1>. QED  BY <1>1, <1>9, <1>10 DEF Inv, AskedWell

LEMMA SignalStep == Inv /\ OnSignal => Inv'
<1> SUFFICES ASSUME Inv, OnSignal PROVE Inv'
  OBVIOUS
<1>1. UNCHANGED <<line, decoded, asked, process, requests, lines, server>>
  BY DEF OnSignal, Disturb, options
<1>2. PICK errno \in 0 .. 1 : app' = Stop(app, errno)
  BY DEF OnSignal
<1>3. Sound(app) /\ app \in Apps /\ Idle(app) /\ Refreshing(app)
  BY DEF Inv, Sound
<1>4. /\ Sound(app') /\ ~ app'.connected
      /\ ~ app.connected => app'.delegate = app.delegate
  BY <1>2, <1>3, Stopped
<1>. QED  BY <1>1, <1>4, ConnectedRuns DEF Inv, AskedWell

LEMMA InvNext == Inv /\ [Next]_vars => Inv'
<1> SUFFICES ASSUME Inv, [Next]_vars PROVE Inv'
  OBVIOUS
<1>1. CASE Next
  BY <1>1, OptionsStep, ConnectStep, ExchangeStep, ReceiveStep, ServerStep, OthersStep,
     ResetStep, SignalStep DEF Next
<1>2. CASE UNCHANGED vars
  BY <1>2 DEF vars, options, wire, Inv, AskedWell
<1>. QED  BY <1>1, <1>2

-----------------------------------------------------------------------------
(***************************************************************************)
(* Theorems                                                                *)
(***************************************************************************)
\* Whatever others do meanwhile, as long as hlxc does not know everything the
\* server keeps it has dispatched no command, and while it is connected the
\* query of the configuration is still the first to be answered
\* (ApplicationControllerBasis::Refresh adds that controller first).
THEOREM ConfigurationComesFirst ==
  Spec => [](Refreshing(app) /\ ConfigurationIsFirst(app))
<1>1. Inv => Refreshing(app) /\ ConfigurationIsFirst(app)
  BY DEF Inv, Sound
<1>. QED  BY InvInit, InvNext, <1>1, PTL DEF Spec

\* Unless a signal stops it, hlxc ends successfully only when it knows of
\* every setting and, if it was asked for anything, upon a change of the kind
\* it expects, or one that a group passes through as its zones change, read
\* after its command was dispatched
\* (HLXClient::ControllerStateDidChange, ControllerDidRefresh).
THEOREM SuccessAlwaysFollowsDispatch == Spec => SuccessFollowsDispatch
<1> DEFINE A == ~ app.stopped /\ app'.stopped /\ app'.status = 0 /\ ~ OnSignal =>
                  /\ \A s \in Settings : app'.view[s] # None
                  /\ asked.object # None \/ asked.operation # None =>
                       /\ app.didDispatch
                       /\ asked.expected \in Changes(app.view, app'.view)
                                           \cup Passing(app.view, app'.view)
<1>1. Inv /\ [Next]_vars => [A]_vars
  <2> SUFFICES ASSUME Inv, Next, ~ OnSignal, Succeeds(app, app')
               PROVE  Did(app, app')
    BY DEF Succeeds, Did, Known, Complete
  <2>. QED  BY OptionsStep, ConnectStep, ExchangeStep, ReceiveStep, ServerStep, OthersStep,
               ResetStep DEF Next
<1>. QED  BY InvInit, InvNext, <1>1, PTL DEF Spec, SuccessFollowsDispatch
=============================================================================

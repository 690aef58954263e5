----------------------------- MODULE Simulator -----------------------------
(***************************************************************************)
(* The simulator daemon hlxsimd with the clients connected to it: requests *)
(* that change its models and are answered to every client, the backup of  *)
(* its configuration (saved by a timer when dirty, saved, loaded and reset *)
(* by request), and its start and end.  A client hears the lines of an     *)
(* answer in order (ServerConnections, CommandManager); here it reads them *)
(* at once, and before anything else happens.  A client asks by way of its *)
(* library (ClientRequests), one request at a time, and waits for the      *)
(* answer without limit, since no request carries a timeout; what the      *)
(* library does not send comes from telnet users.                          *)
(***************************************************************************)
EXTENDS SimulatorGroups, ClientModels

CONSTANTS
  Clients,         \* the clients, which listen
  Proxy,           \* the one that is the proxy, if any is
  Behind,          \* those that are connected to the proxy
  Askers,          \* those that ask
  Telnets,         \* the telnet users
  Families,        \* the controllers they send requests to
  Names,           \* the names they send
  Backups,         \* the backups, or none, that the first start finds
  Missing,         \* a part of the backup that is not there, or no backup
  MaxRequests,     \* bound on requests
  MaxStarts        \* bound on starts of the process

ASSUME ClientsAssumption ==
  /\ Askers \cup Behind \subseteq Clients /\ Telnets \cap Clients = {}
  /\ Proxy \notin Askers \cup Behind
  /\ Behind # {} => Proxy \in Clients

ASSUME BoundsAssumption == MaxRequests \in Nat /\ MaxStarts \in Nat

(***************************************************************************)
(* What models hold.  A value that is not known is one of unknown, which is*)
(* {Null}, or {} where all values are known.                               *)
(***************************************************************************)
KeptNames == {name \in Names : Len(name) <= NameLengthMax}

ZonesWith(unknown) ==
  [name : KeptNames \cup unknown, source : 1..SourcesMax \cup unknown,
   volume : Volumes \cup unknown, mute : BOOLEAN \cup unknown,
   fixed : BOOLEAN \cup unknown, balance : Balances \cup unknown,
   mode : SoundModes \cup unknown, bands : [Bands -> BandLevels \cup unknown],
   preset : 1..EqualizerPresetsMax \cup unknown,
   tone : [bass : Tones \cup unknown, treble : Tones \cup unknown],
   lowpass : Lowpasses \cup unknown, highpass : Highpasses \cup unknown]

PresetsWith(unknown) ==
  [name : KeptNames \cup unknown, bands : [Bands -> BandLevels \cup unknown]]

PanelsWith(unknown) ==
  [brightness : Brightnesses \cup unknown, locked : BOOLEAN \cup unknown]

InfraredsWith(unknown) == [disabled : BOOLEAN \cup unknown]

NetworksWith(unknown) ==
  [dhcp : BOOLEAN \cup unknown, sddp : BOOLEAN \cup unknown]

\* Only the name and the zones of a group are saved.
SavedGroups == [name : KeptNames, zones : SUBSET (1..ZonesMax)]

ASSUME NamesAssumption == Names \subseteq Seq(STRING) /\ Null \notin Names

\* The factory configuration has a value for everything.
ASSUME FactoryAssumption ==
  /\ \A z \in 1..ZonesMax : ZoneDefaults[z] \in ZonesWith({})
  /\ \A g \in 1..GroupsMax : GroupDefaults[g].name \in KeptNames
  /\ \A p \in 1..EqualizerPresetsMax : PresetDefaults[p] \in PresetsWith({})
  /\ \A f \in 1..FavoritesMax : NameDefaults.favorites[f] \in KeptNames
  /\ \A s \in 1..SourcesMax : NameDefaults.sources[s] \in KeptNames
  /\ PanelDefaults \in PanelsWith({}) /\ InfraredDefaults \in InfraredsWith({})
  /\ NetworkDefaults \in NetworksWith({})

P == INSTANCE ProxyRequests

C == INSTANCE ClientRequests WITH Unknown <- Null

VARIABLES
  up,              \* the process is running
  m,               \* its models
  dirty,           \* mConfigurationIsDirty
  file,            \* the backup on disk
  views,           \* the models of the clients
  unsaid,          \* history: what changed, or is, without a word
  adrift,          \* history: which clients need not have derived a group
  toggled,         \* history: zones toggled since the last save or load
  requests, starts

history == <<unsaid, adrift, toggled>>

vars == <<up, m, dirty, file, views, history, requests, starts>>

ServerNulls == [ClientNulls EXCEPT !.refreshed = TRUE]

Everything ==
  ({"zone"} \X (1..ZonesMax)) \cup ({"group"} \X (1..GroupsMax))
    \cup {<<"sources">>, <<"rest">>}

Init ==
  /\ up = FALSE
  /\ m = ServerNulls
  /\ dirty = FALSE
  /\ file \in Backups
  /\ views = [k \in Clients |-> ClientNulls]
  /\ unsaid = {} /\ adrift = {} /\ toggled = {}
  /\ requests = 0 /\ starts = 0

(***************************************************************************)
(* The backup                                                              *)
(***************************************************************************)
\* The elements of a container are written all or not at all.
SaveZones(zones) ==
  IF \A z \in DOMAIN zones : CanSaveZone(zones[z])
  THEN [z \in DOMAIN zones |-> SaveZone(zones[z])]
  ELSE Missing

SaveGroups(groups) ==
  IF \A g \in DOMAIN groups : CanSaveGroup(groups[g])
  THEN [g \in DOMAIN groups |-> SaveGroup(groups[g])]
  ELSE Missing

SavePresets(presets) ==
  IF \A p \in DOMAIN presets : CanSavePreset(presets[p])
  THEN presets
  ELSE Missing

SaveNames(names) == IF HasNull(names) THEN Missing ELSE names

SaveToBackupConfiguration(models) ==
  [zones |-> SaveZones(models.zones), groups |-> SaveGroups(models.groups),
   presets |-> SavePresets(models.presets),
   favorites |-> SaveNames(models.favorites),
   sources |-> SaveNames(models.sources),
   panel |-> models.panel, infrared |-> models.infrared,
   network |-> models.network]

\* A backup has a container for each kind of element, or none.
SavedZones == {SaveZone(zone) : zone \in ZonesWith({})}

SavedContainers ==
  [zones |-> [1..ZonesMax -> SavedZones],
   groups |-> [1..GroupsMax -> SavedGroups],
   presets |-> [1..EqualizerPresetsMax -> PresetsWith({})],
   favorites |-> [1..FavoritesMax -> KeptNames],
   sources |-> [1..SourcesMax -> KeptNames]]

SavedBackups ==
  [zones : SavedContainers.zones \cup {Missing},
   groups : SavedContainers.groups \cup {Missing},
   presets : SavedContainers.presets \cup {Missing},
   favorites : SavedContainers.favorites \cup {Missing},
   sources : SavedContainers.sources \cup {Missing},
   panel : PanelsWith({Null}), infrared : InfraredsWith({Null}),
   network : NetworksWith({Null})]

ASSUME BackupsAssumption ==
  /\ Backups \subseteq SavedBackups \cup {Missing}
  /\ \A part \in DOMAIN SavedContainers : Missing \notin SavedContainers[part]

\* A container that is not there is no error: its models stay.
LoadZones(zones, saved) ==
  IF saved = Missing
  THEN zones
  ELSE [z \in DOMAIN zones |-> LoadZone(zones[z], saved[z]).zone]

LoadGroups(groups, saved) ==
  IF saved = Missing
  THEN groups
  ELSE [g \in DOMAIN groups |-> LoadGroup(groups[g], {}, saved[g]).group]

LoadPresets(presets, saved) ==
  IF saved = Missing
  THEN presets
  ELSE [p \in DOMAIN presets |-> LoadPreset(presets[p], saved[p]).preset]

LoadFavorites(names, saved) ==
  IF saved = Missing
  THEN names
  ELSE [f \in DOMAIN names |-> LoadFavorite(names[f], saved[f]).item]

LoadSources(names, saved) ==
  IF saved = Missing
  THEN names
  ELSE [s \in DOMAIN names |-> LoadSource(names[s], saved[s]).item]

LoadFromBackupConfiguration(models, saved) ==
  [models EXCEPT
     !.network = LoadNetwork(@, saved.network).model,
     !.favorites = LoadFavorites(@, saved.favorites),
     !.groups = LoadGroups(@, saved.groups),
     !.panel = LoadPanel(@, saved.panel).model,
     !.infrared = LoadInfrared(@, saved.infrared).model,
     !.presets = LoadPresets(@, saved.presets),
     !.sources = LoadSources(@, saved.sources),
     !.zones = LoadZones(@, saved.zones)]

\* Whether a load changed a value whose change makes dirty: any but a tone.
LoadMakesDirty(models, saved) ==
  LET left == LoadFromBackupConfiguration(models, saved)
  IN \/ [left EXCEPT !.zones = models.zones] # models
     \/ \E z \in DOMAIN models.zones :
          saved.zones # Missing /\ LoadZone(models.zones[z], saved.zones[z]).dirty

ResetToDefaultConfiguration(models) ==
  [models EXCEPT
     !.network = ResetNetwork(@).model,
     !.favorites = [f \in DOMAIN @ |-> ResetFavorite(@[f], f).item],
     !.groups = [g \in DOMAIN @ |-> ResetGroup(@[g], {}, g).group],
     !.panel = ResetPanel(@).model,
     !.infrared = ResetInfrared(@).model,
     !.presets = ResetPresets(@).presets,
     !.sources = [s \in DOMAIN @ |-> ResetSource(@[s], s).item],
     !.zones = [z \in DOMAIN @ |-> ResetZone(@[z], z).zone]]

(***************************************************************************)
(* Answers                                                                 *)
(***************************************************************************)
\* An error is answered by the error line alone.
AnswerLines(o) == IF Failed(o) THEN << <<"error">> >> ELSE o.lines

\* What clients of the proxy hear of the lines it reads: nothing before it
\* has refreshed, when it does not listen yet, and nothing while it waits.
PassedOn(proxy, lines) ==
  LET b == Buffered(proxy, lines)
      passed == P!Passed([i \in DOMAIN b |-> b[i][1]], proxy.expects)
  IN IF proxy.refreshed /\ lines # <<>>
     THEN FlattenSeq([i \in DOMAIN b |-> IF i \in passed THEN <<b[i]>> ELSE <<>>])
     ELSE <<>>

\* Every client reads the lines the server sends, those of the proxy what that
\* passes on.
HeardByAll(waiting, lines) ==
  [c \in Clients |->
     Hear(waiting[c],
          IF c \in Behind THEN PassedOn(waiting[Proxy], lines) ELSE lines)]

\* A request: the call of the library that sends it, what the proxy makes of
\* it when it comes by way of the proxy, and its outcome.
Ask(call, forward, does) ==
  [call |-> call, forward |-> forward, does |-> does]

\* A client waits for the end of one exchange before it begins the next; so
\* does the proxy.  A telnet user sends what no client would.
MayAsk(k, r) ==
  /\ k \in Telnets => ~r.call.valid
  /\ k \in Clients => r.call.valid /\ views[k].expects = {}
  /\ k \in Behind => /\ r.forward.valid
                     /\ views[Proxy].refreshed /\ views[Proxy].expects = {}

\* Zones that join or leave do not make a client derive a group again, and an
\* adjustment leaves a client that takes it for its own with a mean of its own
\* making.
Drifting(listening, waiting, lines) ==
  {d \in listening \X (1..GroupsMax) :
     LET c == waiting[d[1]]
         g == d[2]
     IN c.refreshed /\ \E i \in DOMAIN lines :
          LET l == lines[i]
          IN \/ l[1] = "group zone added" /\ l[2] = g /\ l[3] \notin c.groups[g].zones
             \/ l[1] = "group zone removed" /\ l[2] = g /\ l[3] \in c.groups[g].zones
             \/ l[1] \in c.expects \cap {"group volume up", "group volume down"}
                /\ l[2] = g}

\* An answer without lines is not sent.
Respond(k, r) ==
  LET lines == AnswerLines(r.does)
      waiting ==
        [c \in Clients |->
           CASE c = k -> [views[c] EXCEPT !.expects = r.call.expects]
             [] k \in Behind /\ c = Proxy ->
                  [views[c] EXCEPT !.expects = r.forward.expects]
             [] OTHER -> views[c]]
  IN /\ views' = HeardByAll(waiting, lines)
     /\ adrift' = adrift \cup Drifting(Clients, waiting, lines)

\* A request that changes models, or none, and may make dirty.
Answer(k, r) ==
  /\ up /\ requests < MaxRequests
  /\ MayAsk(k, r)
  /\ Respond(k, r)
  /\ dirty' = (dirty \/ r.does.dirty)
  /\ requests' = requests + 1
  /\ UNCHANGED <<up, file, starts>>

\* What a failed request changed before it failed is not announced.
AnswerZone(k, z, r) ==
  LET o == r.does
  IN /\ Answer(k, r)
     /\ m' = [m EXCEPT !.zones[z] = o.zone]
     /\ unsaid' = IF Failed(o) /\ o.zone # m.zones[z]
                  THEN unsaid \cup {<<"zone", z>>}
                  ELSE unsaid

AnswerZones(k, r) ==
  /\ Answer(k, r)
  /\ m' = [m EXCEPT !.zones = r.does.zones]
  /\ unsaid' = IF Failed(r.does)
               THEN unsaid \cup {<<"zone", z>> : z \in DOMAIN m.zones}
               ELSE unsaid
  /\ UNCHANGED toggled

\* What a request to a group does to zones is announced for the group only.
GroupZones(g) ==
  m.groups[g].zones
    \cup UNION {CaughtUp(views[c]).groups[g].zones : c \in Clients}

AnswerGroup(k, g, r) ==
  /\ Answer(k, r)
  /\ m' = [m EXCEPT !.groups[g] = r.does.group, !.zones = r.does.zones]
  /\ unsaid' = unsaid \cup {<<"zone", z>> : z \in GroupZones(g)}

AnswerGroupItself(k, g, r) ==
  /\ Answer(k, r)
  /\ m' = [m EXCEPT !.groups[g] = r.does.group]
  /\ UNCHANGED <<unsaid, toggled>>

AnswerPreset(k, p, r) ==
  /\ Answer(k, r)
  /\ m' = [m EXCEPT !.presets[p] = r.does.preset]
  /\ UNCHANGED <<unsaid, toggled>>

AnswerItem(k, name, i, r) ==
  /\ Answer(k, r)
  /\ m' = [m EXCEPT ![name][i] = r.does.item]
  /\ UNCHANGED <<unsaid, toggled>>

AnswerModel(k, name, r) ==
  /\ Answer(k, r)
  /\ m' = [m EXCEPT ![name] = r.does.model]
  /\ UNCHANGED <<unsaid, toggled>>

(***************************************************************************)
(* Requests.  A level or an identifier may be the first beyond its limits. *)
(***************************************************************************)
Tried(S) == S \cup {1 + CHOOSE v \in S : \A w \in S : w <= v}

TriedBands == 1..EqualizerBandsMax + 1

BandRequests(zone, z) ==
  (UNION {{Ask(C!DecreaseEqualizerBand(z, b),
               P!ZoneLevelRequests.DecreaseEqualizerBand,
               DecreaseEqualizerBandRequest(zone, z, b)),
           Ask(C!IncreaseEqualizerBand(z, b),
               P!ZoneLevelRequests.IncreaseEqualizerBand,
               IncreaseEqualizerBandRequest(zone, z, b))} : b \in TriedBands})
  \cup {Ask(C!SetEqualizerBand(z, b), P!ZoneEqualizerRequests.SetEqualizerBand,
            SetEqualizerBandRequest(zone, z, b, level)) :
          b \in TriedBands, level \in Tried(BandLevels)}

ToneRequests(zone, z) ==
  {Ask(C!DecreaseBass(z), P!ZoneToneRequests.DecreaseBass,
       DecreaseBassRequest(zone, z)),
   Ask(C!IncreaseBass(z), P!ZoneToneRequests.IncreaseBass,
       IncreaseBassRequest(zone, z)),
   Ask(C!DecreaseTreble(z), P!ZoneToneRequests.DecreaseTreble,
       DecreaseTrebleRequest(zone, z)),
   Ask(C!IncreaseTreble(z), P!ZoneToneRequests.IncreaseTreble,
       IncreaseTrebleRequest(zone, z))}
  \cup {Ask(C!SetTone(z), P!ZoneVolumeRequests.SetTone,
            SetToneRequest(zone, z, [bass |-> bass, treble |-> treble])) :
          bass, treble \in Tried(Tones)}

SoundModeRequests(zone, z) ==
  {Ask(C!SetSoundMode(z), P!ZoneSourceRequests.SetSoundMode,
       SetSoundModeRequest(zone, z, mode)) : mode \in SoundModes}
  \cup {Ask(C!SetEqualizerPreset(z, p),
            P!ZoneEqualizerRequests.SetEqualizerPreset,
            SetEqualizerPresetRequest(zone, z, p)) :
          p \in Tried(1..EqualizerPresetsMax)}
  \cup {Ask(C!SetHighpassCrossover(z),
            P!ZoneEqualizerRequests.SetHighpassCrossover,
            SetHighpassCrossoverRequest(zone, z, f)) : f \in Tried(Highpasses)}
  \cup {Ask(C!SetLowpassCrossover(z),
            P!ZoneEqualizerRequests.SetLowpassCrossover,
            SetLowpassCrossoverRequest(zone, z, f)) : f \in Tried(Lowpasses)}

BalanceRequests(zone, z) ==
  {Ask(C!IncreaseBalanceLeft(z), P!ZoneToneRequests.AdjustBalance,
       AdjustBalanceRequest(zone, z, FALSE)),
   Ask(C!IncreaseBalanceRight(z), P!ZoneToneRequests.AdjustBalance,
       AdjustBalanceRequest(zone, z, TRUE))}
  \cup {Ask(C!SetBalance(z), P!ZoneEqualizerRequests.SetBalance,
            SetBalanceRequest(zone, z, balance)) : balance \in Tried(Balances)}

VolumeRequests(zone, z) ==
  {Ask(C!DecreaseVolume(z), P!ZoneLevelRequests.DecreaseVolume,
       DecreaseVolumeRequest(zone, z)),
   Ask(C!IncreaseVolume(z), P!ZoneLevelRequests.IncreaseVolume,
       IncreaseVolumeRequest(zone, z))}
  \cup {Ask(C!SetVolume(z), P!ZoneVolumeRequests.SetVolume,
            SetVolumeRequest(zone, z, level)) : level \in Tried(Volumes)}
  \cup {Ask(C!Mute(z, mute), P!ZoneLevelRequests.Mute,
            MuteRequest(zone, z, mute)) :
          mute \in BOOLEAN}

OtherZoneRequests(zone, z) ==
  {Ask(C!SetVolumeLocked(z), P!ZoneVolumeRequests.SetVolumeFixed,
       SetVolumeFixedRequest(zone, z, fixed)) : fixed \in BOOLEAN}
  \cup {Ask(C!SetSource(z, s), P!ZoneSourceRequests.SetSource,
            SetSourceRequest(zone, z, s)) :
          s \in Tried(1..SourcesMax)}
  \cup {Ask(C!SetName(z, name), P!ZoneSourceRequests.SetName,
            SetZoneNameRequest(zone, z, name)) :
          name \in Names}

ZoneRequests(zone, z) ==
  (IF "sound" \in Families
   THEN UNION {BandRequests(zone, z), ToneRequests(zone, z),
               SoundModeRequests(zone, z), BalanceRequests(zone, z)}
   ELSE {})
  \cup (IF "volume" \in Families THEN VolumeRequests(zone, z) ELSE {})
  \cup (IF "zones" \in Families THEN OtherZoneRequests(zone, z) ELSE {})

RequestZone(k) ==
  /\ \E z \in DOMAIN m.zones :
       \E r \in ZoneRequests(m.zones[z], z) : AnswerZone(k, z, r)
  /\ UNCHANGED toggled

\* A request that does not come by way of the proxy.
Directly(call, does) == Ask(call, C!SendCommand(FALSE, {}), does)

ZoneQueries(zone, z) ==
  {Directly(C!Query(z), QueryRequest(zone, z)),
   Directly(C!QueryMute(z), QueryMuteRequest(zone, z)),
   Directly(C!QuerySource(z), QuerySourceRequest(zone, z)),
   Directly(C!QueryVolume(z), QueryVolumeRequest(zone, z))}

QueryZone(k) ==
  /\ "queries" \in Families
  /\ \E z \in DOMAIN m.zones :
       \E r \in ZoneQueries(m.zones[z], z) : Answer(k, r)
  /\ UNCHANGED <<m, unsaid, toggled>>

\* The proxy answers queries from its own models, once they are refreshed,
\* and the server hears nothing of it.
HeardFromProxy(waiting, lines) ==
  [c \in Clients |-> IF c \in Behind THEN Hear(waiting[c], lines) ELSE waiting[c]]

QueryProxy(k) ==
  /\ "queries" \in Families
  /\ up /\ requests < MaxRequests
  /\ views[k].expects = {} /\ views[Proxy].refreshed
  /\ \E z \in DOMAIN m.zones :
       \E r \in ZoneQueries(views[Proxy].zones[z], z) :
         LET waiting == [views EXCEPT ![k].expects = r.call.expects]
         IN /\ r.call.valid /\ ~Failed(r.does)
            /\ views' = HeardFromProxy(waiting, r.does.lines)
            /\ adrift' = adrift \cup Drifting(Behind, waiting, r.does.lines)
  /\ requests' = requests + 1
  /\ UNCHANGED <<up, m, dirty, file, unsaid, toggled, starts>>

\* The bass and the treble of a client's own model complete each other.
RequestBass(k, z) ==
  /\ "sound" \in Families
  /\ \E bass \in Tried(Tones) :
       AnswerZone(k, z,
         Ask(C!SetTone(z), P!ZoneVolumeRequests.SetTone,
             SetToneRequest(m.zones[z], z,
                            C!SetBass(views[k].zones[z].tone, bass))))
  /\ UNCHANGED toggled

RequestTreble(k, z) ==
  /\ "sound" \in Families
  /\ \E treble \in Tried(Tones) :
       AnswerZone(k, z,
         Ask(C!SetTone(z), P!ZoneVolumeRequests.SetTone,
             SetToneRequest(m.zones[z], z,
                            C!SetTreble(views[k].zones[z].tone, treble))))
  /\ UNCHANGED toggled

\* Every client hears the toggled mute; the timer does not hear of it.
RequestToggle(k) ==
  /\ "volume" \in Families
  /\ \E z \in DOMAIN m.zones :
       /\ AnswerZone(k, z, Ask(C!ToggleMute(z), P!ZoneVolumeRequests.ToggleMute,
                               ToggleMuteRequest(m.zones[z], z)))
       /\ toggled' = toggled \cup {z}

RequestAllZones(k) ==
  /\ "zones" \in Families
  /\ \E r \in {Ask(C!SetVolumeAll, P!ZoneVolumeRequests.SetVolumeAll,
                     SetVolumeAllRequest(m.zones, level)) :
                 level \in Tried(Volumes)}
              \cup {Ask(C!SetSourceAll(s), P!ZoneSourceRequests.SetSourceAll,
                         SetSourceAllRequest(m.zones, s)) :
                      s \in Tried(1..SourcesMax)} :
       AnswerZones(k, r)

RequestGroupAdjust(k) ==
  /\ "groups" \in Families
  /\ \E g \in DOMAIN m.groups :
       \E r \in {Ask(C!GroupDecreaseVolume(g),
                     P!GroupLevelRequests.DecreaseVolume,
                     DecreaseGroupVolumeRequest(m.groups[g], m.zones, g)),
                 Ask(C!GroupIncreaseVolume(g),
                     P!GroupLevelRequests.IncreaseVolume,
                     IncreaseGroupVolumeRequest(m.groups[g], m.zones, g))} :
         AnswerGroup(k, g, r)
  /\ UNCHANGED toggled

RequestGroup(k) ==
  /\ "groups" \in Families
  /\ \E g \in DOMAIN m.groups :
       /\ \E r \in {Ask(C!GroupMute(g, mute), P!GroupLevelRequests.Mute,
                        MuteGroupRequest(m.groups[g], m.zones, g, mute)) :
                      mute \in BOOLEAN}
                   \cup {Ask(C!GroupSetVolume(g),
                             P!GroupSettingRequests.SetVolume,
                             SetGroupVolumeRequest(m.groups[g], m.zones, g, v)) :
                           v \in Tried(Volumes)} :
            AnswerGroup(k, g, r)
       /\ UNCHANGED toggled

\* A source that was answered reaches the zones on both sides, where the
\* client knew the sources of the group.
RequestGroupSource(k) ==
  /\ "groups" \in Families
  /\ \E g \in DOMAIN m.groups, s \in Tried(1..SourcesMax) :
       LET o == SetGroupSourceRequest(m.groups[g], m.zones, g, s)
       IN /\ Answer(k, Ask(C!GroupSetSource(g, s),
                           P!GroupSettingRequests.SetSource,
                           o))
          /\ m' = [m EXCEPT !.groups[g] = o.group, !.zones = o.zones]
          /\ unsaid' = IF \/ o.lines = <<>>
                          \/ <<"group", g>> \in unsaid
                          \/ adrift \cap (Clients \X {g}) # {}
                       THEN unsaid \cup {<<"zone", z>> : z \in GroupZones(g)}
                       ELSE unsaid
          /\ UNCHANGED toggled

RequestGroupToggle(k) ==
  /\ "groups" \in Families
  /\ \E g \in DOMAIN m.groups :
       /\ AnswerGroup(k, g,
                      Ask(C!GroupToggleMute(g),
                          P!GroupSettingRequests.ToggleMute,
                          ToggleGroupMuteRequest(m.groups[g], m.zones, g)))
       /\ toggled' = toggled \cup m.groups[g].zones

GroupItselfRequests(group, g) ==
  (UNION {{Ask(C!GroupAddZone(g, z), P!GroupLevelRequests.AddZone,
               AddZoneRequest(group, m.zones, g, z)),
           Ask(C!GroupRemoveZone(g, z), P!GroupSettingRequests.RemoveZone,
               RemoveZoneRequest(group, m.zones, g, z))} :
            z \in Tried(1..ZonesMax)})
  \cup {Ask(C!GroupSetName(g, name), P!GroupSettingRequests.SetName,
            SetGroupNameRequest(group, m.zones, g, name)) : name \in Names}

RequestGroupItself(k) ==
  /\ "groups" \in Families
  /\ \E g \in DOMAIN m.groups :
       \E r \in GroupItselfRequests(m.groups[g], g) : AnswerGroupItself(k, g, r)

PresetRequests(preset, p) ==
  (UNION {{Ask(C!EqualizerPresetDecreaseBand(p, b),
               P!PresetRequests.DecreaseBand,
               DecreaseBandRequest(preset, p, b)),
           Ask(C!EqualizerPresetIncreaseBand(p, b),
               P!PresetRequests.IncreaseBand,
               IncreaseBandRequest(preset, p, b))} : b \in TriedBands})
  \cup {Ask(C!EqualizerPresetSetBand(p, b), P!PresetRequests.SetBand,
            SetBandRequest(preset, p, b, level)) :
          b \in TriedBands, level \in Tried(BandLevels)}
  \cup {Ask(C!EqualizerPresetSetName(p, name), P!PresetRequests.SetName,
            SetPresetNameRequest(preset, p, name)) : name \in Names}

RequestPreset(k) ==
  /\ "others" \in Families
  /\ \E p \in DOMAIN m.presets :
       \E r \in PresetRequests(m.presets[p], p) : AnswerPreset(k, p, r)

FavoriteRequests(name, f) ==
  {Ask(C!FavoriteSetName(f, new), P!FavoriteRequests.SetName,
       SetFavoriteNameRequest(name, f, new)) : new \in Names}

SourceRequests(name, s) ==
  {Ask(C!SourceSetName(s, new), P!SourceRequests.SetName,
       SetSourceNameRequest(name, s, new)) : new \in Names}

RequestFavorite(k) ==
  /\ "others" \in Families
  /\ \E f \in DOMAIN m.favorites :
       \E r \in FavoriteRequests(m.favorites[f], f) :
         AnswerItem(k, "favorites", f, r)

RequestSource(k) ==
  /\ "others" \in Families
  /\ \E s \in DOMAIN m.sources :
       \E r \in SourceRequests(m.sources[s], s) : AnswerItem(k, "sources", s, r)

PanelRequests(panel) ==
  {Ask(C!FrontPanelSetBrightness, P!PanelRequests.SetBrightness,
       SetBrightnessRequest(panel, b)) :
     b \in Tried(Brightnesses)}
  \cup {Ask(C!FrontPanelSetLocked, P!PanelRequests.SetLocked,
            SetLockedRequest(panel, b)) :
          b \in BOOLEAN}

InfraredRequests(infrared) ==
  {Ask(C!InfraredSetDisabled, P!InfraredRequests.SetDisabled,
       SetDisabledRequest(infrared, b)) : b \in BOOLEAN}

RequestPanel(k) ==
  /\ "others" \in Families
  /\ \E r \in PanelRequests(m.panel) : AnswerModel(k, "panel", r)

RequestInfrared(k) ==
  /\ "others" \in Families
  /\ \E r \in InfraredRequests(m.infrared) : AnswerModel(k, "infrared", r)

(***************************************************************************)
(* Requests no call of the library sends                                   *)
(***************************************************************************)
ByTelnet(does) == Directly(C!SendCommand(FALSE, {}), does)

\* The identifiers of elements start at one and end with their number.
NoSuchElement ==
  {[status |-> o.status, lines |-> <<>>, dirty |-> FALSE] :
     o \in {GetZone(m.zones, ZonesMax + 1),
            GetEqualizerPreset(m.presets, EqualizerPresetsMax + 1)}}

\* What tells of the models; an identifier out of range, or no request that
\* is known, is an error.
TelnetQueries ==
  {QueryGroupRequest(m.groups[g], m.zones, g) : g \in DOMAIN m.groups}
  \cup {QueryPresetRequest(m.presets[p], p) : p \in DOMAIN m.presets}
  \cup {QueryFavoriteRequest(m.favorites[f], f) : f \in DOMAIN m.favorites}
  \cup {QueryPanelRequest(m.panel), QueryInfraredRequest(m.infrared),
        QueryNetworkRequest(m.network)}
  \cup NoSuchElement

TelnetQuery(t) ==
  /\ \E o \in TelnetQueries : Answer(t, ByTelnet(o))
  /\ UNCHANGED <<m, unsaid, toggled>>

\* The library cannot change the network.
NetworkRequests(network) ==
  {SetDHCPv4EnabledRequest(network, b) : b \in BOOLEAN}
  \cup {SetSDDPEnabledRequest(network, b) : b \in BOOLEAN}

TelnetNetwork(t) ==
  /\ "others" \in Families
  /\ \E o \in NetworkRequests(m.network) :
       AnswerModel(t, "network", ByTelnet(o))

\* No client takes notice of a clearing, and none can ask for it.
TelnetClearGroups(t) ==
  LET o == ClearZonesRequest(m.groups)
  IN /\ "groups" \in Families
     /\ Answer(t, ByTelnet(o))
     /\ m' = [m EXCEPT !.groups = o.groups]
     /\ unsaid' = unsaid \cup {<<"group", g>> : g \in DOMAIN m.groups}
     /\ UNCHANGED toggled

(***************************************************************************)
(* Requests to the configuration controller                                *)
(***************************************************************************)
Said(lines) == [status |-> "success", lines |-> lines]

ConfigurationRequest(k, r) ==
  /\ "configuration" \in Families
  /\ up /\ requests < MaxRequests
  /\ MayAsk(k, r)
  /\ Respond(k, r)
  /\ requests' = requests + 1
  /\ UNCHANGED <<up, starts>>

\* The configuration is written at once; what was dirty stays dirty.  When
\* the write fails the line that it began has been sent.
SaveToBackupRequest(k) ==
  /\ \E saved \in BOOLEAN :
       /\ file' = IF saved THEN SaveToBackupConfiguration(m) ELSE file
       /\ toggled' = IF saved THEN {} ELSE toggled
       /\ ConfigurationRequest(k,
            Ask(C!ConfigurationSaveToBackup,
                P!ConfigurationRequests.SaveToBackup,
                Said(<< <<"saving">>,
                        <<IF saved THEN "saved" ELSE "error">> >>)))
  /\ UNCHANGED <<m, dirty, unsaid>>

\* Clients are told that the backup was loaded, not what came of it.
LoadFromBackupRequest(k) ==
  /\ ConfigurationRequest(k,
       Ask(C!ConfigurationLoadFromBackup,
           P!ConfigurationRequests.LoadFromBackup,
           Said(<< <<"loaded">> >>)))
  /\ m' = LoadFromBackupConfiguration(m, file)
  /\ dirty' = (dirty \/ LoadMakesDirty(m, file))
  /\ unsaid' = Everything
  /\ toggled' = {}
  /\ UNCHANGED file

\* Clearing the zones of groups makes dirty whatever else was changed.
ResetToDefaultsRequest(k) ==
  /\ ConfigurationRequest(k,
       Ask(C!ConfigurationResetToDefaults,
           P!ConfigurationRequests.ResetToDefaults,
           Said(<< <<"reset">> >>)))
  /\ m' = ResetToDefaultConfiguration(m)
  /\ dirty' = TRUE
  /\ unsaid' = Everything
  /\ UNCHANGED <<file, toggled>>

\* What is told of a container, element by element: up to the first value
\* that is not known.
UpToError(outcomes) ==
  LET failed == {i \in DOMAIN outcomes : Failed(outcomes[i])}
  IN FlattenSeq([i \in {j \in DOMAIN outcomes : \A f \in failed : j <= f} |->
                   outcomes[i].lines])

\* In the end a line says that this was all.
QueryCurrentConfiguration(models) ==
  FlattenSeq(
    << HandleQueryNetworkReceived(models.network).lines,
       UpToError([f \in DOMAIN models.favorites |->
                    HandleQueryFavoriteReceived(models.favorites[f], f)]),
       UpToError([g \in DOMAIN models.groups |->
                    HandleQueryGroupReceived(models.groups[g], <<>>, g)]),
       HandleQueryPanelReceived(models.panel).lines,
       HandleQueryInfraredReceived(models.infrared).lines,
       UpToError([p \in DOMAIN models.presets |->
                    HandleQueryPresetReceived(models.presets[p], p)]),
       UpToError([s \in DOMAIN models.sources |->
                    HandleQuerySourceNameReceived(models.sources[s], s)]),
       UpToError([z \in DOMAIN models.zones |->
                    HandleQueryReceived(TRUE, models.zones[z], z)]),
       << <<"current configuration">> >> >>)

\* The queries a client sends to refresh its controllers, in their order.
RefreshQueries(models) ==
  << QueryNetworkRequest(models.network) >>
    \o [f \in DOMAIN models.favorites |->
         QueryFavoriteRequest(models.favorites[f], f)]
    \o [g \in DOMAIN models.groups |->
         QueryGroupRequest(models.groups[g], <<>>, g)]
    \o << QueryPanelRequest(models.panel),
          QueryInfraredRequest(models.infrared) >>
    \o [p \in DOMAIN models.presets |->
         QueryPresetRequest(models.presets[p], p)]
    \o [z \in DOMAIN models.zones |-> QueryRequest(models.zones[z], z)]

RefreshLines(models) ==
  QueryCurrentConfiguration(models)
    \o FlattenSeq([i \in DOMAIN RefreshQueries(models) |->
                     AnswerLines(RefreshQueries(models)[i])])

CanRefresh(models) ==
  \A i \in DOMAIN RefreshQueries(models) : ~Failed(RefreshQueries(models)[i])

Refreshed(client) == DeriveGroupState([client EXCEPT !.refreshed = TRUE])

\* Here a client refreshes only while no other waits, so that all take the
\* answers, read one after the other, for notifications.
NobodyWaits == \A k \in Clients : views[k].expects = {}

\* The names of sources are told up to the first that is not known, which
\* does not keep a refresh from ending.
Untold(names) == IF HasNull(names) THEN {<<"sources">>} ELSE {}

\* A client refreshes once, when it has connected; the others hear the
\* answers too.  A query that is answered with an error keeps the refresh
\* from ending: groups are not derived.
Refresh(k) ==
  LET heard == HeardByAll(views, RefreshLines(m))
  IN /\ up /\ ~views[k].refreshed /\ NobodyWaits
     /\ views' = IF CanRefresh(m)
                 THEN [heard EXCEPT ![k] = Refreshed(@)]
                 ELSE heard
     /\ adrift' = adrift \cup Drifting(Clients, views, RefreshLines(m))
     /\ unsaid' = unsaid \cup Untold(m.sources)
     /\ UNCHANGED <<up, m, dirty, file, toggled, requests, starts>>

\* A client of the proxy has its queries answered by that.
RefreshFromProxy(k) ==
  LET heard == HeardFromProxy(views, RefreshLines(views[Proxy]))
  IN /\ up /\ ~views[k].refreshed /\ NobodyWaits
     /\ views[Proxy].refreshed /\ CanRefresh(views[Proxy])
     /\ views' = [heard EXCEPT ![k] = Refreshed(@)]
     /\ adrift' = adrift \cup Drifting(Behind, views, RefreshLines(views[Proxy]))
     /\ unsaid' = unsaid \cup Untold(views[Proxy].sources)
     /\ UNCHANGED <<up, m, dirty, file, toggled, requests, starts>>

(***************************************************************************)
(* Start, end and the timer                                                *)
(***************************************************************************)
\* Without a backup the factory configuration is made, and written at once;
\* when that fails the process does not start.
Start ==
  /\ ~up /\ starts < MaxStarts
  /\ starts' = starts + 1
  /\ dirty' = FALSE
  /\ \/ /\ file # Missing
        /\ up' = TRUE
        /\ m' = LoadFromBackupConfiguration(m, file)
        /\ UNCHANGED file
     \/ /\ file = Missing
        /\ up' = TRUE
        /\ m' = ResetToDefaultConfiguration(m)
        /\ file' = SaveToBackupConfiguration(m')
     \/ /\ file = Missing
        /\ UNCHANGED <<up, m, file>>
  /\ UNCHANGED <<views, history, requests>>

\* At any time, saved or not; nothing is written on the way out.
Stop ==
  /\ up
  /\ up' = FALSE
  /\ m' = ServerNulls
  /\ dirty' = FALSE
  /\ views' = [k \in Clients |-> ClientNulls]
  /\ unsaid' = {} /\ adrift' = {} /\ toggled' = {}
  /\ UNCHANGED <<file, requests, starts>>

\* TimerDidFire leaves dirty what it saved.
TimerDidFireDirtyKept ==
  /\ up /\ dirty
  /\ file' = SaveToBackupConfiguration(m)
  /\ toggled' = {}
  /\ UNCHANGED <<up, m, dirty, views, unsaid, adrift, requests, starts>>

\* A write that fails leaves everything as it was.
TimerDidFire ==
  /\ up /\ dirty
  /\ \/ /\ file' = SaveToBackupConfiguration(m)
        /\ dirty' = FALSE
        /\ toggled' = {}
     \/ UNCHANGED <<file, dirty, toggled>>
  /\ UNCHANGED <<up, m, views, unsaid, adrift, requests, starts>>

Request(k) ==
  \/ RequestZone(k)
  \/ RequestToggle(k) \/ RequestAllZones(k)
  \/ RequestGroup(k) \/ RequestGroupSource(k) \/ RequestGroupToggle(k)
  \/ RequestGroupAdjust(k) \/ RequestGroupItself(k)
  \/ RequestPreset(k) \/ RequestFavorite(k) \/ RequestSource(k)
  \/ RequestPanel(k) \/ RequestInfrared(k)
  \/ SaveToBackupRequest(k) \/ LoadFromBackupRequest(k)
  \/ ResetToDefaultsRequest(k)

TelnetRequest(t) == TelnetQuery(t) \/ TelnetNetwork(t) \/ TelnetClearGroups(t)

Next ==
  \/ Start \/ Stop \/ TimerDidFire
  \/ \E k \in Clients \ Behind : Refresh(k)
  \/ \E k \in Behind : RefreshFromProxy(k)
  \/ \E k \in Askers \cup Telnets : Request(k)
  \/ \E k \in Askers, z \in 1..ZonesMax : RequestBass(k, z) \/ RequestTreble(k, z)
  \/ \E k \in Askers \ Behind : QueryZone(k)
  \/ \E k \in Askers \cap Behind : QueryProxy(k)
  \/ \E t \in Telnets : TelnetRequest(t)

Spec == Init /\ [][Next]_vars

\* The timer repeats for as long as the process runs, and not every write
\* fails.
FairSpec == Spec /\ WF_vars(TimerDidFire)

(***************************************************************************)
(* Properties                                                              *)
(***************************************************************************)
LevelsAreAllowed(zone) ==
  /\ zone.volume \in Volumes \cup {Null}
  /\ zone.balance \in Balances \cup {Null}
  /\ zone.mode \in SoundModes \cup {Null}
  /\ Range(zone.bands) \subseteq BandLevels \cup {Null}
  /\ Range(zone.tone) \subseteq Tones \cup {Null}
  /\ zone.lowpass \in Lowpasses \cup {Null}
  /\ zone.highpass \in Highpasses \cup {Null}

\* No request, notification or backup takes a level beyond its limits, on
\* the server or on a client.
TypeOK ==
  /\ \A models \in {m} \cup Range(views) :
       /\ \A z \in DOMAIN models.zones : LevelsAreAllowed(models.zones[z])
       /\ \A g \in DOMAIN models.groups :
            /\ models.groups[g].zones \subseteq 1..ZonesMax
            /\ models.groups[g].volume \in Volumes \cup {Null}
       /\ \A p \in DOMAIN models.presets :
            Range(models.presets[p].bands) \subseteq BandLevels \cup {Null}
       /\ models.panel.brightness \in Brightnesses \cup {Null}
  /\ {up, dirty} \subseteq BOOLEAN
  /\ requests \in 0..MaxRequests /\ starts \in 0..MaxStarts

Follows(view, value) == view \in {Null, value}

ZoneFollows(view, zone) ==
  /\ \A field \in DOMAIN zone \ {"bands", "tone"} :
       Follows(view[field], zone[field])
  /\ \A b \in Bands : Follows(view.bands[b], zone.bands[b])
  /\ \A l \in DOMAIN zone.tone : Follows(view.tone[l], zone.tone[l])

ViewFollowsServer(view) ==
  /\ \A z \in DOMAIN m.zones : <<"zone", z>> \in unsaid
                              \/ ZoneFollows(view.zones[z], m.zones[z])
  /\ \A g \in DOMAIN m.groups :
       \/ <<"group", g>> \in unsaid
       \/ /\ view.groups[g].name = m.groups[g].name
          /\ view.groups[g].zones = m.groups[g].zones
  /\ \/ <<"rest">> \in unsaid
     \/ \A part \in {"presets", "favorites", "panel", "infrared", "network"} :
          view[part] = m[part]
  /\ <<"sources">> \in unsaid \/ view.sources = m.sources

\* What a refreshed client has, with what it has still to hear while it
\* waits, is what the server has, unless the server changed it without
\* announcing it, or the client lost lines to an error: requests, refused
\* ones included, are applied on both sides to the same effect (lib/client
\* NotificationReceived handlers against hlxsimd request handlers).
ClientsFollowServer ==
  \A k \in Clients :
    \/ ~views[k].refreshed \/ views[k].missed
    \/ k \in Behind /\ (views[Proxy].missed \/ views[Proxy].buffer # <<>>)
    \/ ViewFollowsServer(CaughtUp(views[k]))

\* The group state of a refreshed client is what its own zones make of it,
\* whichever of group and zone the changes came to first
\* (ApplicationControllerBasis::DeriveGroupStateForGroup).
GroupsFollowZones ==
  \A k \in Clients : views[k].refreshed =>
    \A g \in DOMAIN m.groups :
      \/ <<k, g>> \in adrift \/ views[k].groups[g].zones = {}
      \/ DeriveGroupStateForGroup(views[k].groups[g], views[k].zones)
           = views[k].groups[g]

\* But for the mute of zones that were toggled.
Settled(saved) ==
  IF saved.zones = Missing
  THEN saved
  ELSE [saved EXCEPT !.zones =
          [z \in DOMAIN @ |-> IF z \in toggled
                              THEN [@[z] EXCEPT !.mute = Null]
                              ELSE @[z]]]

\* When nothing is dirty the backup on disk is what a save would write
\* (Controller::TimerDidFire saves only when dirty).
SavedUnlessDirty ==
  up /\ ~dirty => Settled(file) = Settled(SaveToBackupConfiguration(m))

\* A start with a backup brings back all that the backup holds
\* (Controller::InitConfiguration).
RestartRestores ==
  [][~up /\ up' => SaveToBackupConfiguration(m') = file']_vars

\* The last zone of a group, whose outcome is that of the request.
LastZone(g) ==
  CHOOSE z \in m.groups[g].zones : \A y \in m.groups[g].zones : y <= z

SomeGroupKeeps(field) ==
  \E g \in {h \in DOMAIN m.groups : m.groups[h].zones # {}} :
    m'.zones[LastZone(g)][field] = m.zones[LastZone(g)][field]

\* A client is left waiting by no request but one for a volume, or for the
\* volume or the source of a group, that was set already: in the zone, or in
\* the last zone of the group (hlxsimd/ZonesController.cpp and
\* GroupsController.cpp against the commands of lib/client).
LeftWaitingWhenAlreadySet ==
  [][\A k \in Clients :
       LET expects == views'[k].expects
       IN \/ expects \in {{}, views[k].expects}
          \/ expects = {"volume"}
             /\ \E z \in DOMAIN m.zones : m'.zones[z].volume = m.zones[z].volume
          \/ expects \in {{"group volume"}, {"group volume up"},
                         {"group volume down"}} /\ SomeGroupKeeps("volume")
          \/ expects = {"group source"} /\ SomeGroupKeeps("source")]_vars

\* A client that sets the bass leaves the treble of the server alone, if it
\* knew the treble and no change of the zone went unannounced
\* (lib/client/ZonesController::SetBass sends both).
BassKeepsTreble ==
  [][\A z \in DOMAIN m.zones :
       m.zones[z].tone.treble \notin {Null, m'.zones[z].tone.treble} =>
         \A k \in Askers :
           \/ <<"zone", z>> \in unsaid
           \/ views[k].missed \/ views[k].zones[z].tone.treble = Null
           \/ k \in Behind /\ (views[Proxy].missed \/ views[Proxy].buffer # <<>>)
           \/ ~RequestBass(k, z)]_vars

\* A dirty configuration is written while the process runs
\* (Controller::TimerDidFire).
DirtyIsSaved == (up /\ dirty) ~> (~up \/ ~dirty)

\* The manual says that the file holds the active configuration, saved by a
\* timer when it is dirty (doc/man/hlxsimd.txt:130): once saved, no part of
\* it is left out.
SavedIsComplete ==
  up /\ ~dirty => \A part \in DOMAIN file : file[part] # Missing

\* When the mute of a group changes, so does that of its zones
\* (hlxsimd/GroupsController.cpp:49: the parent applies "the mute, volume, or
\* source changes to the server side zone data members").
GroupMuteReachesZones ==
  [][\A g \in DOMAIN m.groups :
       m'.groups[g].mute \notin {m.groups[g].mute, Null}
         => \A z \in m'.groups[g].zones :
              m'.zones[z].mute = m'.groups[g].mute]_vars
=============================================================================

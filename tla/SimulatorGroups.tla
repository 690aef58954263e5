--------------------------- MODULE SimulatorGroups ---------------------------
(***************************************************************************)
(* The groups, equalizer presets, favorites, sources, front panel,         *)
(* infrared and network of the simulator daemon hlxsimd.  As in            *)
(* SimulatorZones a request is an operator to an outcome; the models it    *)
(* leaves are in the field named for them ("group" and "zones", "preset",  *)
(* "item" for what only has a name, "model" for the rest).                 *)
(***************************************************************************)
EXTENDS SimulatorZones

CONSTANTS
  GroupDefaults,   \* identifier -> group: its name, no zones
  PresetDefaults,  \* identifier -> equalizer preset: name and bands
  NameDefaults,    \* "favorites" and "sources" -> identifier -> name
  PanelDefaults, InfraredDefaults, NetworkDefaults

(***************************************************************************)
(* Groups                                                                  *)
(***************************************************************************)
\* An outcome that leaves the group and the zones alone.
GroupKept(status, group, zones) ==
  [status |-> status, group |-> group, zones |-> zones, lines |-> <<>>,
   dirty |-> FALSE]

\* The group takes what its setter left.
StoredGroup(zones, r) ==
  [GroupKept(r.status, r.value, zones) EXCEPT !.dirty = Changed(r)]

(***************************************************************************)
(* The lines of answers: an adjustment and a toggle do not tell the result *)
(***************************************************************************)
HandleAdjustVolumeResponse(g, by) ==
  <<IF by < 0 THEN "group volume down" ELSE "group volume up", g>>

HandleSetMuteResponse(g, mute) == <<"group mute", g, mute>>

HandleSetVolumeResponse(g, level) == <<"group volume", g, level>>

HandleToggleMuteResponse(g) == <<"group mute toggle", g>>

\* An adjustment at a limit does not stop the others.
ShouldAdjustVolume(zone, by) ==
  LET o == AdjustZoneVolume(zone, by)
  IN IF o.status = "range" THEN [o EXCEPT !.status = "already"] ELSE o

ShouldSetSource(zone, s) == SetZoneSource(zone, s)

ShouldSetVolume(zone, level) == SetZoneVolume(zone, level)

ShouldToggleMute(zone) == ToggleZoneMute(zone)

\* o is the outcome of each zone of the group: the zones in order, up to the
\* first that fails; the status is that of the last one reached.
ShouldDoForGroupZones(group, zones, o) ==
  LET failed == {z \in group.zones : Failed(o[z])}
      reached == {z \in group.zones : \A f \in failed : z <= f}
      last == CHOOSE z \in reached : \A y \in reached : y <= z
  IN IF group.zones = {}
     THEN GroupKept("success", group, zones)
     ELSE [GroupKept(o[last].status, group,
                     [z \in DOMAIN zones |->
                        IF z \in reached THEN o[z].zone ELSE zones[z]])
             EXCEPT !.dirty = \E z \in reached : o[z].dirty]

\* The group is muted, its zones are not, and nothing becomes dirty.
MuteGroupRequest(group, zones, g, mute) ==
  Say(HandleSetMuteResponse(g, mute),
      [StoredGroup(zones, OutputSetMute(group, mute)) EXCEPT !.dirty = FALSE])

\* The answers of the next four come when the last zone changed, and only
\* then.
HandleAdjustGroupVolume(group, zones, g, by) ==
  SayIfChanged(HandleAdjustVolumeResponse(g, by),
               ShouldDoForGroupZones(group, zones,
                 [z \in group.zones |-> ShouldAdjustVolume(zones[z], by)]))

DecreaseGroupVolumeRequest(group, zones, g) ==
  HandleAdjustGroupVolume(group, zones, g, -1)

IncreaseGroupVolumeRequest(group, zones, g) ==
  HandleAdjustGroupVolume(group, zones, g, 1)

SetGroupVolumeRequest(group, zones, g, level) ==
  SayIfChanged(HandleSetVolumeResponse(g, level),
               ShouldDoForGroupZones(group, zones,
                 [z \in group.zones |-> ShouldSetVolume(zones[z], level)]))

SetGroupSourceRequest(group, zones, g, s) ==
  IF ValidateIdentifier(s, SourcesMax) # "success"
  THEN GroupKept("range", group, zones)
  ELSE SayIfChanged(<<"group source", g, s>>,
                    ShouldDoForGroupZones(group, zones,
                      [z \in group.zones |-> ShouldSetSource(zones[z], s)]))

ToggleGroupMuteRequest(group, zones, g) ==
  SayIfChanged(HandleToggleMuteResponse(g),
               ShouldDoForGroupZones(group, zones,
                 [z \in group.zones |-> ShouldToggleMute(zones[z])]))

AddZoneRequest(group, zones, g, z) ==
  IF ValidateIdentifier(z, ZonesMax) # "success"
  THEN GroupKept("range", group, zones)
  ELSE Say(<<"group zone added", g, z>>,
           StoredGroup(zones, GroupAddZone(group, z)))

\* A zone the group does not have is an error.
RemoveZoneRequest(group, zones, g, z) ==
  IF ValidateIdentifier(z, ZonesMax) # "success"
  THEN GroupKept("range", group, zones)
  ELSE Say(<<"group zone removed", g, z>>,
           StoredGroup(zones, GroupRemoveZone(group, z)))

SetGroupNameRequest(group, zones, g, name) ==
  Say(<<"group name", g, name>>,
      StoredGroup(zones, OutputSetName(group, name)))

\* All groups at once.
ClearZonesRequest(groups) ==
  [status |-> "success",
   groups |-> [g \in DOMAIN groups |-> GroupClearZones(groups[g]).value],
   lines |-> << <<"group zones cleared">> >>, dirty |-> TRUE]

\* The name and a line for each zone; neither mute nor volume nor source.
HandleQueryGroupReceived(group, zones, g) ==
  IF Failed(OutputGetName(group))
  THEN GroupKept("null", group, zones)
  ELSE [GroupKept("success", group, zones)
          EXCEPT !.lines = << <<"group name", g, group.name>> >>
                           \o SetToSeq({<<"group zone added", g, z>> :
                                          z \in GetZones(group)})]

QueryGroupRequest(group, zones, g) ==
  Say(<<"group query", g>>, HandleQueryGroupReceived(group, zones, g))

ResetGroup(group, zones, g) ==
  LET named == OutputSetName(group, GroupDefaults[g].name)
  IN StoredGroup(zones, GroupClearZones(named.value))

CanSaveGroup(group) == group.name # Null

SaveGroup(group) == Restrict(group, {"name", "zones"})

\* The zones of the backup join those the group has.
GroupZonesLoad(group, saved) == [group EXCEPT !.zones = @ \cup saved]

LoadGroup(group, zones, saved) ==
  LET named == OutputSetName(group, saved.name)
      left == GroupZonesLoad(named.value, saved.zones)
  IN [GroupKept("success", left, zones)
        EXCEPT !.dirty = Changed(named) \/ left.zones # group.zones]

(***************************************************************************)
(* Equalizer presets                                                       *)
(***************************************************************************)
PresetKept(status, preset) ==
  [status |-> status, preset |-> preset, lines |-> <<>>, dirty |-> FALSE]

StoredPreset(r) == [PresetKept(r.status, r.value) EXCEPT !.dirty = Changed(r)]

HandleBandResponse(p, b, level) == <<"preset band", p, b, level>>

\* A band takes what its setter left and is answered with its new level, or
\* with the level asked for, which is the same.
AnswerBand(preset, p, b, r) ==
  Say(HandleBandResponse(p, b, r.value), StoredPreset(SetBand(preset, b, r)))

HandleAdjustBandReceived(preset, p, b, by) ==
  LET band == PresetGetEqualizerBand(preset, b)
  IN IF Failed(band)
     THEN PresetKept(band.status, preset)
     ELSE AnswerBand(preset, p, b, IF by < 0
                                   THEN DecreaseLevel(band.value)
                                   ELSE IncreaseLevel(band.value))

HandleSetBandReceived(preset, p, b, level) ==
  LET band == PresetGetEqualizerBand(preset, b)
  IN IF Failed(band)
     THEN PresetKept(band.status, preset)
     ELSE AnswerBand(preset, p, b, SetLevel(band.value, level))

DecreaseBandRequest(preset, p, b) == HandleAdjustBandReceived(preset, p, b, -1)

IncreaseBandRequest(preset, p, b) == HandleAdjustBandReceived(preset, p, b, 1)

SetBandRequest(preset, p, b, level) == HandleSetBandReceived(preset, p, b, level)

SetPresetNameRequest(preset, p, name) ==
  Say(<<"preset name", p, name>>, StoredPreset(PresetSetName(preset, name)))

CanSavePreset(preset) ==
  /\ ~Failed(PresetGetName(preset))
  /\ \A b \in Bands : ~Failed(GetLevel(PresetGetEqualizerBand(preset, b).value))

HandleQueryPresetReceived(preset, p) ==
  IF ~CanSavePreset(preset)
  THEN PresetKept("null", preset)
  ELSE [PresetKept("success", preset)
          EXCEPT !.lines =
            << <<"preset name", p, preset.name>> >>
              \o [b \in Bands |-> HandleBandResponse(p, b, preset.bands[b])]]

QueryPresetRequest(preset, p) ==
  Say(<<"preset query", p>>, HandleQueryPresetReceived(preset, p))

\* Name and bands in turn, all presets in turn, up to the first value that
\* is the default already: "reached" are those before it, and it.
ResetPresets(presets) ==
  LET At(p, i) == IF i = 0 THEN presets[p].name ELSE presets[p].bands[i]
      Setter(p, i) ==
        IF i = 0
        THEN SetName(presets[p].name, PresetDefaults[p].name)
        ELSE SetLevel(presets[p].bands[i], PresetDefaults[p].bands[i])
      places == (DOMAIN presets) \X (0..EqualizerBandsMax)
      Before(x, y) == x[1] < y[1] \/ (x[1] = y[1] /\ x[2] < y[2])
      reached == {x \in places :
                    \A y \in places :
                      Before(y, x) => Changed(Setter(y[1], y[2]))}
      Left(p, i) == IF <<p, i>> \in reached
                    THEN Setter(p, i).value
                    ELSE At(p, i)
      left == [p \in DOMAIN presets |->
                 [name |-> Left(p, 0), bands |-> [b \in Bands |-> Left(p, b)]]]
  IN [presets |-> left, dirty |-> left # presets]

PresetBandsLoad(preset, saved) == [preset EXCEPT !.bands = saved]

LoadPreset(preset, saved) ==
  LET left == PresetBandsLoad(PresetSetName(preset, saved.name).value,
                              saved.bands)
  IN [PresetKept("success", left) EXCEPT !.dirty = left # preset]

(***************************************************************************)
(* Favorites and sources: a name for each identifier                       *)
(***************************************************************************)
ItemKept(status, item) ==
  [status |-> status, item |-> item, lines |-> <<>>, dirty |-> FALSE]

StoredItem(r) == [ItemKept(r.status, r.value) EXCEPT !.dirty = Changed(r)]

\* The name answered is the one asked for, stored or not.
SetFavoriteNameRequest(item, f, name) ==
  Say(<<"favorite name", f, name>>, StoredItem(FavoriteSetName(item, name)))

SetSourceNameRequest(item, s, name) ==
  Say(<<"source name", s, name>>, StoredItem(SourceSetName(item, name)))

HandleQueryFavoriteReceived(item, f) ==
  IF Failed(FavoriteGetName(item))
  THEN ItemKept("null", item)
  ELSE [ItemKept("success", item) EXCEPT !.lines = << <<"favorite name", f, item>> >>]

\* Sources have no such request: they come with the whole configuration.
HandleQuerySourceNameReceived(item, s) ==
  IF Failed(SourceGetName(item))
  THEN ItemKept("null", item)
  ELSE [ItemKept("success", item) EXCEPT !.lines = << <<"source name", s, item>> >>]

QueryFavoriteRequest(item, f) ==
  Say(<<"favorite query", f>>, HandleQueryFavoriteReceived(item, f))

ResetFavorite(item, f) == StoredItem(FavoriteSetName(item, NameDefaults.favorites[f]))

ResetSource(item, s) == StoredItem(SourceSetName(item, NameDefaults.sources[s]))

LoadFavorite(item, saved) == StoredItem(FavoriteSetName(item, saved))

LoadSource(item, saved) == StoredItem(SourceSetName(item, saved))

(***************************************************************************)
(* Front panel, infrared and network                                       *)
(***************************************************************************)
ModelKept(status, model) ==
  [status |-> status, model |-> model, lines |-> <<>>, dirty |-> FALSE]

StoredModel(r) == [ModelKept(r.status, r.value) EXCEPT !.dirty = Changed(r)]

\* The lines of models of which every value is known.
AnswerModelKnown(model, lines) ==
  IF HasNull(model)
  THEN ModelKept("null", model)
  ELSE [ModelKept("success", model) EXCEPT !.lines = lines]

HandleBrightnessResponse(brightness) == <<"brightness", brightness>>

HandleLockedResponse(locked) == <<"locked", locked>>

HandleDisabledResponse(disabled) == <<"disabled", disabled>>

HandleDHCPv4EnabledResponse(enabled) == <<"dhcp", enabled>>

HandleSDDPEnabledResponse(enabled) == <<"sddp", enabled>>

SetBrightnessRequest(panel, new) ==
  Say(HandleBrightnessResponse(new), StoredModel(PanelSetBrightness(panel, new)))

SetLockedRequest(panel, new) ==
  Say(HandleLockedResponse(new), StoredModel(PanelSetLocked(panel, new)))

HandleQueryPanelReceived(panel) ==
  AnswerModelKnown(panel, <<HandleBrightnessResponse(GetBrightness(panel).value),
                            HandleLockedResponse(GetLocked(panel).value)>>)

\* Whether the panel is locked; neither the brightness nor the query itself.
QueryPanelRequest(panel) ==
  IF Failed(GetLocked(panel))
  THEN ModelKept("null", panel)
  ELSE [ModelKept("success", panel)
          EXCEPT !.lines = <<HandleLockedResponse(GetLocked(panel).value)>>]

SetDisabledRequest(infrared, new) ==
  Say(HandleDisabledResponse(new), StoredModel(InfraredSetDisabled(infrared, new)))

HandleQueryInfraredReceived(infrared) ==
  AnswerModelKnown(infrared,
                   <<HandleDisabledResponse(GetDisabled(infrared).value)>>)

QueryInfraredRequest(infrared) == HandleQueryInfraredReceived(infrared)

SetDHCPv4EnabledRequest(network, new) ==
  Say(HandleDHCPv4EnabledResponse(new),
      StoredModel(NetworkSetDHCPv4Enabled(network, new)))

SetSDDPEnabledRequest(network, new) ==
  Say(HandleSDDPEnabledResponse(new),
      StoredModel(NetworkSetSDDPEnabled(network, new)))

\* The addresses that follow are those of the connection.
HandleQueryNetworkReceived(network) ==
  AnswerModelKnown(network,
                   <<HandleDHCPv4EnabledResponse(GetDHCPv4Enabled(network).value),
                     HandleSDDPEnabledResponse(GetSDDPEnabled(network).value)>>)

QueryNetworkRequest(network) ==
  Say(<<"network query">>, HandleQueryNetworkReceived(network))

\* Every value of these is set, by a reset and by a load.
ReplaceModel(model, new) ==
  [ModelKept("success", new) EXCEPT !.dirty = model # new]

ResetPanel(panel) == ReplaceModel(panel, PanelDefaults)

ResetInfrared(infrared) == ReplaceModel(infrared, InfraredDefaults)

ResetNetwork(network) == ReplaceModel(network, NetworkDefaults)

LoadPanel(panel, saved) == ReplaceModel(panel, saved)

LoadInfrared(infrared, saved) == ReplaceModel(infrared, saved)

LoadNetwork(network, saved) == ReplaceModel(network, saved)
=============================================================================

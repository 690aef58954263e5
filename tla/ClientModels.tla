---------------------------- MODULE ClientModels ----------------------------
(***************************************************************************)
(* What a client makes of the lines it is sent (src/src/lib/client): the   *)
(* notification handlers of its object controllers, to which the completion*)
(* handlers of its own requests pass their line on, and the parent         *)
(* controller that derives the state of groups from that of zones and      *)
(* spreads a change of a group over its zones.                             *)
(*                                                                         *)
(* A client is a record of its models, of "refreshed", whether every       *)
(* controller has been refreshed, of "expects", the kinds of line that end *)
(* the exchange it waits for, of the lines it keeps in its "buffer" while  *)
(* it waits, and, as history, of whether it "missed" lines.  A handler is  *)
(* an operator from a client to the client it leaves.  A value the model   *)
(* refuses, or already has, changes nothing.                               *)
(***************************************************************************)
EXTENDS ElementModels, SequencesExt, FiniteSetsExt

CONSTANTS GroupsMax, FavoritesMax

ASSUME CountsAssumption == {GroupsMax, FavoritesMax} \subseteq Nat \ {0}

ClientNulls ==
  [zones |-> [z \in 1..ZonesMax |-> ZoneNulls],
   groups |-> [g \in 1..GroupsMax |-> GroupNulls],
   presets |-> [p \in 1..EqualizerPresetsMax |-> PresetNulls],
   favorites |-> [f \in 1..FavoritesMax |-> Null],
   sources |-> [s \in 1..SourcesMax |-> Null],
   panel |-> PanelNulls, infrared |-> InfraredNulls, network |-> NetworkNulls,
   refreshed |-> FALSE, expects |-> {}, buffer |-> <<>>, missed |-> FALSE]

(***************************************************************************)
(* The state of groups, derived from the zones                             *)
(***************************************************************************)
\* The mean of n levels, truncated toward zero.
Mean(sum, n) == IF sum < 0 THEN -((-sum) \div n) ELSE sum \div n

Accumulated(zones, Z) == SumFunction([z \in Z |-> zones[z].volume])

\* Muted when every zone is, as loud as the mean, with every source.  A
\* value of a zone that is not known leaves the group as it was.
DeriveGroupStateForGroup(group, zones) ==
  LET Z == group.zones
      mean == IF Z = {}
              THEN CHOOSE v \in Volumes : \A w \in Volumes : v <= w
              ELSE Mean(Accumulated(zones, Z), Cardinality(Z))
  IN IF \E z \in Z : HasNull([f \in {"mute", "volume", "source"} |-> zones[z][f]])
     THEN group
     ELSE [group EXCEPT !.mute = \A z \in Z : zones[z].mute,
                        !.volume = SetVolume(@, mean).value,
                        !.sources = {zones[z].source : z \in Z}]

WithGroups(c, groups) ==
  IF groups = c.groups THEN c ELSE [c EXCEPT !.groups = groups]

DeriveGroupState(c) ==
  WithGroups(c, [g \in DOMAIN c.groups |->
                   DeriveGroupStateForGroup(c.groups[g], c.zones)])

DeriveGroupStateForGroupsIncludingZones(c, Z) ==
  WithGroups(c, [g \in DOMAIN c.groups |->
                   IF c.groups[g].zones \cap Z # {}
                   THEN DeriveGroupStateForGroup(c.groups[g], c.zones)
                   ELSE c.groups[g]])

\* Mutes and sources are not looked at.
MaybeHandleZoneStateChangesVolumeOnly(c, zones) ==
  LET moved == {z \in DOMAIN zones : zones[z].volume # c.zones[z].volume}
      left == [c EXCEPT !.zones = zones]
  IN IF c.refreshed
     THEN DeriveGroupStateForGroupsIncludingZones(left, moved)
     ELSE left

\* Zones that take new values.  Once refreshed, each change of a mute, a
\* source or a volume derives the groups of the zone again; deriving once,
\* when all zones changed, comes to the same.
MaybeHandleZoneStateChanges(c, zones) ==
  LET moved == {z \in DOMAIN zones :
                  \/ zones[z].mute # c.zones[z].mute
                  \/ zones[z].source # c.zones[z].source
                  \/ zones[z].volume # c.zones[z].volume}
      left == [c EXCEPT !.zones = zones]
  IN CASE zones = c.zones -> c
       [] zones # c.zones /\ c.refreshed ->
            DeriveGroupStateForGroupsIncludingZones(left, moved)
       [] OTHER -> left

(***************************************************************************)
(* Zones                                                                   *)
(***************************************************************************)
HandleMuteChange(c, Z, mute) ==
  MaybeHandleZoneStateChanges(c,
    [z \in DOMAIN c.zones |->
       IF z \in Z
       THEN [c.zones[z] EXCEPT !.mute = SetMute(@, mute).value]
       ELSE c.zones[z]])

HandleSourceChange(c, Z, s) ==
  MaybeHandleZoneStateChanges(c,
    [z \in DOMAIN c.zones |->
       IF z \in Z
       THEN [c.zones[z] EXCEPT !.source = SetIdentifier(@, s).value]
       ELSE c.zones[z]])

\* volume is the level for each zone of Z.
HandleVolumeChange(c, Z, volume) ==
  MaybeHandleZoneStateChanges(c,
    [z \in DOMAIN c.zones |->
       IF z \in Z
       THEN [c.zones[z] EXCEPT !.volume = SetVolume(@, volume[z]).value]
       ELSE c.zones[z]])

MuteNotificationReceivedHandler(c, z, mute) == HandleMuteChange(c, {z}, mute)

SourceNotificationReceivedHandler(c, z, s) == HandleSourceChange(c, {z}, s)

SourceAllNotificationReceivedHandler(c, s) ==
  HandleSourceChange(c, DOMAIN c.zones, s)

VolumeNotificationReceivedHandler(c, z, level) ==
  HandleVolumeChange(c, {z}, [y \in {z} |-> level])

VolumeAllNotificationReceivedHandler(c, level) ==
  HandleVolumeChange(c, DOMAIN c.zones, [z \in DOMAIN c.zones |-> level])

VolumeFixedNotificationReceivedHandler(c, z, fixed) ==
  [c EXCEPT !.zones[z] = ZoneSetVolumeFixed(@, fixed).value]

BalanceNotificationReceivedHandler(c, z, balance) ==
  [c EXCEPT !.zones[z] = ZoneSetBalance(@, balance).value]

EqualizerBandNotificationReceivedHandler(c, z, b, level) ==
  LET band == ZoneGetEqualizerBand(c.zones[z], b).value
  IN [c EXCEPT !.zones[z] = SetBand(@, b, SetLevel(band, level)).value]

EqualizerPresetNotificationReceivedHandler(c, z, preset) ==
  [c EXCEPT !.zones[z] = ZoneSetEqualizerPreset(@, preset).value]

ToneNotificationReceivedHandler(c, z, tone) ==
  [c EXCEPT !.zones[z] = ZoneSetTone(@, tone).value]

HighpassCrossoverNotificationReceivedHandler(c, z, frequency) ==
  [c EXCEPT !.zones[z] = ZoneSetHighpassFrequency(@, frequency).value]

LowpassCrossoverNotificationReceivedHandler(c, z, frequency) ==
  [c EXCEPT !.zones[z] = ZoneSetLowpassFrequency(@, frequency).value]

SoundModeNotificationReceivedHandler(c, z, mode) ==
  [c EXCEPT !.zones[z] = ZoneSetSoundMode(@, mode).value]

ZoneNameNotificationReceivedHandler(c, z, name) ==
  [c EXCEPT !.zones[z] = OutputSetName(@, name).value]

(***************************************************************************)
(* Groups                                                                  *)
(***************************************************************************)
\* A change of the mute of a group mutes or unmutes its zones.
GroupHandleMuteChange(c, g, mute) ==
  IF Changed(SetMute(c.groups[g].mute, mute))
  THEN HandleMuteChange([c EXCEPT !.groups[g].mute = mute],
                        c.groups[g].zones, mute)
  ELSE c

\* So does a change of its source.
GroupHandleSourceChange(c, g, s) ==
  LET r == GroupSetSource(c.groups[g], s)
  IN IF Changed(r)
     THEN HandleSourceChange([c EXCEPT !.groups[g] = r.value],
                             GetZones(r.value), s)
     ELSE c

\* A change of the volume unmutes the group, then sets its zones; a volume
\* the group has already reaches no zone.
GroupHandleVolumeChange(c, g, level) ==
  LET r == OutputSetVolume(c.groups[g], level)
      Z == GetZones(r.value)
      unmuted == GroupHandleMuteChange([c EXCEPT !.groups[g] = r.value], g, FALSE)
  IN IF Changed(r)
     THEN HandleVolumeChange(unmuted, Z, [z \in Z |-> level])
     ELSE c

GroupZoneNotificationReceivedHandler(c, g, z, added) ==
  [c EXCEPT !.groups[g] =
     IF added THEN GroupAddZone(@, z).value ELSE GroupRemoveZone(@, z).value]

GroupNameNotificationReceivedHandler(c, g, name) ==
  [c EXCEPT !.groups[g] = OutputSetName(@, name).value]

\* The answer to a toggle does not say what came of it: the client assumes
\* that all zones now have the opposite of what the group had.
ToggleMuteCompleteHandler(c, g) ==
  IF Failed(OutputGetMute(c.groups[g]))
  THEN c
  ELSE GroupHandleMuteChange(c, g, ~c.groups[g].mute)

\* Nor does the answer to an adjustment: after unmuting, each zone is moved
\* by one and stays where that leaves the limits; the volume of the group is
\* the mean of the levels before they were limited.
AdjustVolumeCompleteHandler(c, g, by) ==
  LET u == GroupHandleMuteChange(c, g, FALSE)
      Z == {z \in GetZones(u.groups[g]) : ~Failed(OutputGetVolume(u.zones[z]))}
      level == [z \in Z |-> u.zones[z].volume + by]
      mean == Mean(Accumulated(u.zones, Z) + by * Cardinality(Z),
                   Cardinality(u.groups[g].zones))
  IN IF u.groups[g].zones = {}
     THEN u
     ELSE [HandleVolumeChange(u, Z, level)
             EXCEPT !.groups[g] = OutputSetVolume(@, mean).value]

(***************************************************************************)
(* The other controllers                                                   *)
(***************************************************************************)
PresetBandNotificationReceivedHandler(c, p, b, level) ==
  LET band == PresetGetEqualizerBand(c.presets[p], b).value
  IN [c EXCEPT !.presets[p] = SetBand(@, b, SetLevel(band, level)).value]

PresetNameNotificationReceivedHandler(c, p, name) ==
  [c EXCEPT !.presets[p] = PresetSetName(@, name).value]

FavoriteNameNotificationReceivedHandler(c, f, name) ==
  [c EXCEPT !.favorites[f] = FavoriteSetName(@, name).value]

SourceNameNotificationReceivedHandler(c, s, name) ==
  [c EXCEPT !.sources[s] = SourceSetName(@, name).value]

BrightnessNotificationReceivedHandler(c, brightness) ==
  [c EXCEPT !.panel = PanelSetBrightness(@, brightness).value]

LockedNotificationReceivedHandler(c, locked) ==
  [c EXCEPT !.panel = PanelSetLocked(@, locked).value]

DisabledNotificationReceivedHandler(c, disabled) ==
  [c EXCEPT !.infrared = InfraredSetDisabled(@, disabled).value]

DHCPv4EnabledNotificationReceivedHandler(c, enabled) ==
  [c EXCEPT !.network = NetworkSetDHCPv4Enabled(@, enabled).value]

SDDPEnabledNotificationReceivedHandler(c, enabled) ==
  [c EXCEPT !.network = NetworkSetSDDPEnabled(@, enabled).value]

(***************************************************************************)
(* A line                                                                  *)
(***************************************************************************)
HearOther(c, l) ==
  CASE l[1] = "preset band" ->
         PresetBandNotificationReceivedHandler(c, l[2], l[3], l[4])
    [] l[1] = "preset name" ->
         PresetNameNotificationReceivedHandler(c, l[2], l[3])
    [] l[1] = "favorite name" ->
         FavoriteNameNotificationReceivedHandler(c, l[2], l[3])
    [] l[1] = "source name" ->
         SourceNameNotificationReceivedHandler(c, l[2], l[3])
    [] l[1] = "brightness" -> BrightnessNotificationReceivedHandler(c, l[2])
    [] l[1] = "locked" -> LockedNotificationReceivedHandler(c, l[2])
    [] l[1] = "disabled" -> DisabledNotificationReceivedHandler(c, l[2])
    [] l[1] = "dhcp" -> DHCPv4EnabledNotificationReceivedHandler(c, l[2])
    [] l[1] = "sddp" -> SDDPEnabledNotificationReceivedHandler(c, l[2])
    [] OTHER -> c

\* Toggles, adjustments and clearing are no notifications: only the client
\* that asked takes notice of them.
HearGroup(c, l) ==
  CASE l[1] = "group mute" -> GroupHandleMuteChange(c, l[2], l[3])
    [] l[1] = "group source" -> GroupHandleSourceChange(c, l[2], l[3])
    [] l[1] = "group volume" -> GroupHandleVolumeChange(c, l[2], l[3])
    [] l[1] = "group name" ->
         GroupNameNotificationReceivedHandler(c, l[2], l[3])
    [] l[1] = "group zone added" ->
         GroupZoneNotificationReceivedHandler(c, l[2], l[3], TRUE)
    [] l[1] = "group zone removed" ->
         GroupZoneNotificationReceivedHandler(c, l[2], l[3], FALSE)
    [] OTHER -> HearOther(c, l)

\* A line is heard by the one controller that has a handler for it: zones,
\* groups, the others.
HearZone(c, l) ==
  CASE l[1] = "mute" -> MuteNotificationReceivedHandler(c, l[2], l[3])
    [] l[1] = "source" -> SourceNotificationReceivedHandler(c, l[2], l[3])
    [] l[1] = "source all" -> SourceAllNotificationReceivedHandler(c, l[2])
    [] l[1] = "volume" -> VolumeNotificationReceivedHandler(c, l[2], l[3])
    [] l[1] = "volume all" -> VolumeAllNotificationReceivedHandler(c, l[2])
    [] l[1] = "fixed" -> VolumeFixedNotificationReceivedHandler(c, l[2], l[3])
    [] l[1] = "balance" -> BalanceNotificationReceivedHandler(c, l[2], l[3])
    [] l[1] = "band" ->
         EqualizerBandNotificationReceivedHandler(c, l[2], l[3], l[4])
    [] l[1] = "preset" ->
         EqualizerPresetNotificationReceivedHandler(c, l[2], l[3])
    [] l[1] = "tone" -> ToneNotificationReceivedHandler(c, l[2], l[3])
    [] l[1] = "highpass" ->
         HighpassCrossoverNotificationReceivedHandler(c, l[2], l[3])
    [] l[1] = "lowpass" ->
         LowpassCrossoverNotificationReceivedHandler(c, l[2], l[3])
    [] l[1] = "mode" -> SoundModeNotificationReceivedHandler(c, l[2], l[3])
    [] l[1] = "name" -> ZoneNameNotificationReceivedHandler(c, l[2], l[3])
    [] OTHER -> HearGroup(c, l)

\* A line, which may be the answer the client waits for.
HearLine(c, l, answer) ==
  CASE answer /\ l[1] = "group mute toggle" -> ToggleMuteCompleteHandler(c, l[2])
    [] answer /\ l[1] = "group volume up" ->
         AdjustVolumeCompleteHandler(c, l[2], 1)
    [] answer /\ l[1] = "group volume down" ->
         AdjustVolumeCompleteHandler(c, l[2], -1)
    [] OTHER -> HearZone(c, l)

\* Lines in turn, the last of which may be the answer.  (The one element of
\* each set has TLC evaluate a line before the next.)
HearLines(c, lines, answered) ==
  LET heard[i \in 0..Len(lines)] ==
        IF i = 0
        THEN c
        ELSE CHOOSE after \in {HearLine(before, lines[i], answered /\ i = Len(lines)) :
                                 before \in {heard[i - 1]}} : TRUE
  IN heard[Len(lines)]

Idle(c) == [c EXCEPT !.expects = {}, !.buffer = <<>>]

\* What a client has when it has heard what it keeps.
CaughtUp(c) == HearLines(Idle(c), c.buffer, FALSE)

Buffered(c, lines) == c.buffer \o lines

\* An error ends what a client waits for, whoever made it; what was told
\* before it is lost.
HearError(c, b) ==
  [Idle(c) EXCEPT !.missed =
     @ \/ \E i \in 1..Len(b) - 1 : b[i] # <<"saving">>]

\* Lines that are read at once.  A client that waits looks at the last line
\* it has: of the kind it waits for, whoever asked for it, it is taken for
\* its answer, and the lines before it for notifications; any other but an
\* error leaves it waiting, and all it has in its buffer.
Hear(c, lines) ==
  LET b == Buffered(c, lines)
      last == Last(b)[1]
      taken == c.expects = {} \/ last \in c.expects
  IN CASE lines = <<>> -> c
       [] lines # <<>> /\ taken -> HearLines(Idle(c), b, c.expects # {})
       [] lines # <<>> /\ ~taken /\ last = "error" -> HearError(c, b)
       [] OTHER -> [c EXCEPT !.buffer = b]
=============================================================================

--------------------------- MODULE ElementModels ---------------------------
(***************************************************************************)
(* The models of zones, groups, equalizer presets, favorites and sources,  *)
(* as they are put together from the values of Models (src/src/lib/model). *)
(* A zone is an output (a name, a volume, a mute) with a source, a balance *)
(* and a sound; a sound is a mode with bands, a preset, a tone and         *)
(* crossovers.  Each layer passes a call on to the layer below.            *)
(*                                                                         *)
(* A getter is an operator from a model to an outcome [status, value] that *)
(* fails while the value is not known, a setter one to the outcome whose   *)
(* value is the model it leaves.                                           *)
(***************************************************************************)
EXTENDS Models

Get(value) ==
  [status |-> IF value = Null THEN "null" ELSE "success", value |-> value]

\* A field takes what the setter of its value left.
SetField(model, field, r) ==
  [status |-> r.status, value |-> [model EXCEPT ![field] = r.value]]

\* So does the level of a band.
SetBand(model, b, r) ==
  [status |-> r.status, value |-> [model EXCEPT !.bands[b] = r.value]]

(***************************************************************************)
(* Values                                                                  *)
(***************************************************************************)
GetName(name) == Get(name)

GetIdentifier(id) == Get(id)

GetVolume(level) == Get(level)

GetMute(mute) == Get(mute)

GetFixed(fixed) == Get(fixed)

DecreaseVolume(level) == AdjustVolume(level, -1)

IncreaseVolume(level) == AdjustVolume(level, 1)

GetBalance(balance) == Get(balance)

GetFrequency(frequency) == Get(frequency)

GetLevel(level) == Get(level)

DecreaseLevel(level) == AdjustLevel(level, -1)

IncreaseLevel(level) == AdjustLevel(level, 1)

GetBass(tone) == Get(tone.bass)

GetTreble(tone) == Get(tone.treble)

\* Both or neither.
GetTone(tone) ==
  [Get(tone) EXCEPT !.status = IF HasNull(tone) THEN "null" ELSE @]

DecreaseBass(tone) == SetField(tone, "bass", AdjustBass(tone.bass, -1))

IncreaseBass(tone) == SetField(tone, "bass", AdjustBass(tone.bass, 1))

DecreaseTreble(tone) == SetField(tone, "treble", AdjustTreble(tone.treble, -1))

IncreaseTreble(tone) == SetField(tone, "treble", AdjustTreble(tone.treble, 1))

(***************************************************************************)
(* Equalizer bands                                                         *)
(***************************************************************************)
IsValidIdentifier(b) == b \in Bands

GetEqualizerBand(bands, b) ==
  IF IsValidIdentifier(b)
  THEN [status |-> "success", value |-> bands[b]]
  ELSE [status |-> "range", value |-> Null]

(***************************************************************************)
(* Sounds: the fields of a zone that make its sound                        *)
(***************************************************************************)
SoundGetSoundMode(sound) == Get(sound.mode)

SoundGetTone(sound) == GetTone(sound.tone)

SoundGetBass(sound) == GetBass(sound.tone)

SoundGetTreble(sound) == GetTreble(sound.tone)

SoundGetEqualizerBand(sound, b) == GetEqualizerBand(sound.bands, b)

SoundGetEqualizerPreset(sound) == GetIdentifier(sound.preset)

SoundGetHighpassFrequency(sound) == GetFrequency(sound.highpass)

SoundGetLowpassFrequency(sound) == GetFrequency(sound.lowpass)

SoundDecreaseBass(sound) == SetField(sound, "tone", DecreaseBass(sound.tone))

SoundIncreaseBass(sound) == SetField(sound, "tone", IncreaseBass(sound.tone))

SoundDecreaseTreble(sound) ==
  SetField(sound, "tone", DecreaseTreble(sound.tone))

SoundIncreaseTreble(sound) ==
  SetField(sound, "tone", IncreaseTreble(sound.tone))

SoundSetSoundMode(sound, mode) ==
  SetField(sound, "mode", SetSoundMode(sound.mode, mode))

SoundSetTone(sound, tone) == SetField(sound, "tone", SetTone(sound.tone, tone))

SoundSetEqualizerPreset(sound, p) ==
  SetField(sound, "preset", SetIdentifier(sound.preset, p))

SoundSetHighpassFrequency(sound, f) ==
  SetField(sound, "highpass", SetHighpassFrequency(sound.highpass, f))

SoundSetLowpassFrequency(sound, f) ==
  SetField(sound, "lowpass", SetLowpassFrequency(sound.lowpass, f))

(***************************************************************************)
(* Outputs: what zones and groups have in common                           *)
(***************************************************************************)
OutputGetName(output) == GetName(output.name)

OutputGetMute(output) == GetMute(output.mute)

OutputGetVolume(output) == GetVolume(output.volume)

OutputDecreaseVolume(output) ==
  SetField(output, "volume", DecreaseVolume(output.volume))

OutputIncreaseVolume(output) ==
  SetField(output, "volume", IncreaseVolume(output.volume))

OutputSetName(output, name) ==
  SetField(output, "name", SetName(output.name, name))

OutputSetMute(output, mute) ==
  SetField(output, "mute", SetMute(output.mute, mute))

OutputSetVolume(output, level) ==
  SetField(output, "volume", SetVolume(output.volume, level))

OutputToggleMute(output) == SetField(output, "mute", ToggleMute(output.mute))

(***************************************************************************)
(* Zones                                                                   *)
(***************************************************************************)
ZoneGetBalance(zone) == GetBalance(zone.balance)

ZoneGetBass(zone) == SoundGetBass(zone)

ZoneGetTreble(zone) == SoundGetTreble(zone)

ZoneGetTone(zone) == SoundGetTone(zone)

ZoneGetEqualizerBand(zone, b) == SoundGetEqualizerBand(zone, b)

ZoneGetEqualizerPreset(zone) == SoundGetEqualizerPreset(zone)

ZoneGetHighpassFrequency(zone) == SoundGetHighpassFrequency(zone)

ZoneGetLowpassFrequency(zone) == SoundGetLowpassFrequency(zone)

ZoneGetSoundMode(zone) == SoundGetSoundMode(zone)

ZoneGetSource(zone) == GetIdentifier(zone.source)

ZoneGetVolumeFixed(zone) == GetFixed(zone.fixed)

ZoneDecreaseBass(zone) == SoundDecreaseBass(zone)

ZoneIncreaseBass(zone) == SoundIncreaseBass(zone)

ZoneDecreaseTreble(zone) == SoundDecreaseTreble(zone)

ZoneIncreaseTreble(zone) == SoundIncreaseTreble(zone)

ZoneIncreaseBalanceLeft(zone) ==
  SetField(zone, "balance", IncreaseBalanceLeft(zone.balance))

ZoneIncreaseBalanceRight(zone) ==
  SetField(zone, "balance", IncreaseBalanceRight(zone.balance))

ZoneSetBalance(zone, balance) ==
  SetField(zone, "balance", SetBalance(zone.balance, balance))

ZoneSetEqualizerPreset(zone, p) == SoundSetEqualizerPreset(zone, p)

ZoneSetHighpassFrequency(zone, f) == SoundSetHighpassFrequency(zone, f)

ZoneSetLowpassFrequency(zone, f) == SoundSetLowpassFrequency(zone, f)

ZoneSetSoundMode(zone, mode) == SoundSetSoundMode(zone, mode)

ZoneSetSource(zone, s) ==
  SetField(zone, "source", SetIdentifier(zone.source, s))

ZoneSetTone(zone, tone) == SoundSetTone(zone, tone)

ZoneSetVolumeFixed(zone, fixed) ==
  SetField(zone, "fixed", SetFixed(zone.fixed, fixed))

(***************************************************************************)
(* Groups                                                                  *)
(***************************************************************************)
GetZones(group) == group.zones

GroupAddZone(group, z) == SetField(group, "zones", AddIdentifier(group.zones, z))

GroupRemoveZone(group, z) ==
  SetField(group, "zones", RemoveIdentifier(group.zones, z))

GroupClearZones(group) ==
  SetField(group, "zones", ClearIdentifiers(group.zones))

GroupSetSource(group, s) ==
  SetField(group, "sources", SetIdentifiers(group.sources, <<s>>))

(***************************************************************************)
(* Equalizer presets                                                       *)
(***************************************************************************)
PresetGetName(preset) == GetName(preset.name)

PresetGetEqualizerBand(preset, b) == GetEqualizerBand(preset.bands, b)

PresetSetName(preset, name) ==
  SetField(preset, "name", SetName(preset.name, name))

(***************************************************************************)
(* Favorites and sources: a name for each identifier                       *)
(***************************************************************************)
FavoriteGetName(favorite) == GetName(favorite)

FavoriteSetName(favorite, name) == SetName(favorite, name)

SourceGetName(source) == GetName(source)

SourceSetName(source, name) == SetName(source, name)

(***************************************************************************)
(* Front panel, infrared and network                                       *)
(***************************************************************************)
GetBrightness(panel) == Get(panel.brightness)

GetLocked(panel) == Get(panel.locked)

GetDisabled(infrared) == Get(infrared.disabled)

GetDHCPv4Enabled(network) == Get(network.dhcp)

GetSDDPEnabled(network) == Get(network.sddp)

PanelSetBrightness(panel, new) ==
  SetField(panel, "brightness", SetBrightness(panel.brightness, new))

PanelSetLocked(panel, new) ==
  SetField(panel, "locked", SetLocked(panel.locked, new))

InfraredSetDisabled(infrared, new) ==
  SetField(infrared, "disabled", SetDisabled(infrared.disabled, new))

NetworkSetDHCPv4Enabled(network, new) ==
  SetField(network, "dhcp", SetDHCPv4Enabled(network.dhcp, new))

NetworkSetSDDPEnabled(network, new) ==
  SetField(network, "sddp", SetSDDPEnabled(network.sddp, new))

(***************************************************************************)
(* Elements by identifier                                                  *)
(***************************************************************************)
GetElement(elements, id, max) ==
  IF ValidateIdentifier(id, max) = "success"
  THEN [status |-> "success", value |-> elements[id]]
  ELSE [status |-> "range", value |-> Null]

GetZone(zones, z) == GetElement(zones, z, ZonesMax)

GetEqualizerPreset(presets, p) == GetElement(presets, p, EqualizerPresetsMax)
=============================================================================

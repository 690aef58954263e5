--------------------------- MODULE ClientCommands ---------------------------
(***************************************************************************)
(* The commands of the client library: what each one asks and the answer   *)
(* that ends its exchange (src/src/lib/client/*ControllerCommands.cpp with *)
(* the requests they are made of, Command*RequestBas*.cpp).                *)
(***************************************************************************)
EXTENDS Patterns

Request(tokens) == DelimitedBuffer("requestor", tokens)

Response(pattern) == DelimitedPattern("responder", pattern)

Exchange(tokens, pattern) ==
  [request |-> Request(tokens), response |-> Response(pattern)]

(***************************************************************************)
(* Requests that several objects share                                     *)
(***************************************************************************)
BalanceAdjustRequest(object, id, channel) ==
  BalanceOperationLine(object, id, <<channel \o "U">>)

BalanceAdjustLeftRequest(object, id) == BalanceAdjustRequest(object, id, "L")

BalanceAdjustRightRequest(object, id) == BalanceAdjustRequest(object, id, "R")

BalanceSetRequest(object, id, balance) == BalanceLine(object, id, balance)

EqualizerBandIncreaseRequest(object, id, band) ==
  BandOperationLine(object, id, band, <<"U">>)

EqualizerBandDecreaseRequest(object, id, band) ==
  BandOperationLine(object, id, band, <<"D">>)

EqualizerBandSetRequest(object, id, band, level) ==
  BandLine(object, id, band, level)

NameSetRequest(object, id, name) == NameLine(object, id, name)

QueryRequest(object, id) == QueryIdentifierLine(object, id)

QueryPropertyRequest(object, property, id) ==
  QueryPropertyLine(object, property, id)

SourceSetRequest(object, id, source) == SourceLine(object, id, source)

VolumeRequest(object, id, operation) ==
  PropertyLine("V", object, id, operation)

VolumeIncreaseRequest(object, id) == VolumeRequest(object, id, <<"U">>)

VolumeDecreaseRequest(object, id) == VolumeRequest(object, id, <<"D">>)

VolumeSetRequest(object, id, level) == VolumeLine(object, id, level)

VolumeFixedRequest(object, id, fixed) == VolumeFixedLine(object, id, fixed)

VolumeMuteSetRequest(object, id) == VolumeMuteLine(object, id, TRUE)

VolumeMuteClearRequest(object, id) == VolumeMuteLine(object, id, FALSE)

VolumeMuteRequest(object, id, operation) == <<"V" \o operation \o object, id>>

VolumeMuteToggleRequest(object, id) == VolumeMuteRequest(object, id, "MT")

(***************************************************************************)
(* Zones                                                                   *)
(***************************************************************************)
\* A query that ends with the first line of its answer.
ZonesQueryNamed(zone) == Exchange(QueryRequest("O", zone), ZoneSetting.Name)

ZonesQuery(zone) == Exchange(QueryRequest("O", zone), ZoneSetting.Query)

ZonesQueryMute(zone) ==
  Exchange(QueryPropertyRequest("O", "VM", zone), ZoneSetting.Mute)

ZonesQuerySource(zone) ==
  Exchange(QueryPropertyRequest("O", "C", zone), ZoneSetting.Source)

ZonesQueryVolume(zone) ==
  Exchange(QueryPropertyRequest("O", "V", zone), ZoneVolume.Volume)

ZonesSetBalance(zone, balance) ==
  Exchange(BalanceSetRequest("O", zone, balance), ZoneSound.Balance)

ZonesIncreaseBalanceLeft(zone) ==
  Exchange(BalanceAdjustLeftRequest("O", zone), ZoneSound.Balance)

ZonesIncreaseBalanceRight(zone) ==
  Exchange(BalanceAdjustRightRequest("O", zone), ZoneSound.Balance)

ZonesSetEqualizerBand(zone, band, level) ==
  Exchange(EqualizerBandSetRequest("O", zone, band, level), ZoneSound.BandLevel)

ZonesIncreaseEqualizerBand(zone, band) ==
  Exchange(EqualizerBandIncreaseRequest("O", zone, band), ZoneSound.BandLevel)

ZonesDecreaseEqualizerBand(zone, band) ==
  Exchange(EqualizerBandDecreaseRequest("O", zone, band), ZoneSound.BandLevel)

ZonesSetEqualizerPreset(zone, preset) ==
  Exchange(EqualizerPresetLine("O", zone, preset), ZoneSound.EqualizerPreset)

ZonesSetHighpassCrossover(zone, frequency) ==
  Exchange(HighpassLine("O", zone, frequency), ZoneSound.HighpassCrossover)

ZonesSetLowpassCrossover(zone, frequency) ==
  Exchange(LowpassLine("O", zone, frequency), ZoneSound.LowpassCrossover)

ZonesSetMute(zone) ==
  Exchange(VolumeMuteSetRequest("O", zone), ZoneSetting.Mute)

ZonesClearMute(zone) ==
  Exchange(VolumeMuteClearRequest("O", zone), ZoneSetting.Mute)

ZonesToggleMute(zone) ==
  Exchange(VolumeMuteToggleRequest("O", zone), ZoneSetting.Mute)

ZonesSetName(zone, name) ==
  Exchange(NameSetRequest("O", zone, name), ZoneSetting.Name)

ZonesSetSoundMode(zone, mode) ==
  Exchange(SoundModeLine("O", zone, mode), ZoneSetting.SoundMode)

ZonesSetSource(zone, source) ==
  Exchange(SourceSetRequest("O", zone, source), ZoneSetting.Source)

ZonesSetSourceAll(source) ==
  Exchange(SourceAllLine("X", source), ZoneSetting.SourceAll)

ZonesDecreaseBassRequest(zone) == ToneOperationLine("O", zone, <<"BD">>)

ZonesDecreaseBass(zone) ==
  Exchange(ZonesDecreaseBassRequest(zone), ZoneSetting.Tone)

ZonesDecreaseTrebleRequest(zone) == ToneOperationLine("O", zone, <<"TD">>)

ZonesDecreaseTreble(zone) ==
  Exchange(ZonesDecreaseTrebleRequest(zone), ZoneSetting.Tone)

ZonesIncreaseBassRequest(zone) == ToneOperationLine("O", zone, <<"BU">>)

ZonesIncreaseBass(zone) ==
  Exchange(ZonesIncreaseBassRequest(zone), ZoneSetting.Tone)

ZonesIncreaseTrebleRequest(zone) == ToneOperationLine("O", zone, <<"TU">>)

ZonesIncreaseTreble(zone) ==
  Exchange(ZonesIncreaseTrebleRequest(zone), ZoneSetting.Tone)

ZonesSetToneRequest(zone, tone) == ToneLine("O", zone, tone.bass, tone.treble)

ZonesSetTone(zone, tone) ==
  Exchange(ZonesSetToneRequest(zone, tone), ZoneSetting.Tone)

ZonesSetVolume(zone, level) ==
  Exchange(VolumeSetRequest("O", zone, level), ZoneVolume.Volume)

ZonesSetVolumeAll(level) ==
  Exchange(VolumeAllLine("X", level), ZoneVolume.VolumeAll)

ZonesIncreaseVolume(zone) ==
  Exchange(VolumeIncreaseRequest("O", zone), ZoneVolume.Volume)

ZonesDecreaseVolume(zone) ==
  Exchange(VolumeDecreaseRequest("O", zone), ZoneVolume.Volume)

ZonesSetVolumeFixed(zone, fixed) ==
  Exchange(VolumeFixedRequest("O", zone, fixed), ZoneVolume.VolumeFixed)

(***************************************************************************)
(* Groups                                                                  *)
(***************************************************************************)
GroupsQuery(group) == Exchange(QueryRequest("G", group), Group.Query)

GroupsSetMute(group) == Exchange(VolumeMuteSetRequest("G", group), Group.Mute)

GroupsClearMute(group) ==
  Exchange(VolumeMuteClearRequest("G", group), Group.Mute)

GroupsToggleMute(group) ==
  Exchange(VolumeMuteToggleRequest("G", group), Group.ToggleMute)

GroupsSetName(group, name) ==
  Exchange(NameSetRequest("G", group, name), Group.Name)

GroupsSetSource(group, source) ==
  Exchange(SourceSetRequest("G", group, source), Group.Source)

GroupsSetVolume(group, level) ==
  Exchange(VolumeSetRequest("G", group, level), Group.Volume)

GroupsIncreaseVolume(group) ==
  Exchange(VolumeIncreaseRequest("G", group), Group.IncreaseVolume)

GroupsDecreaseVolume(group) ==
  Exchange(VolumeDecreaseRequest("G", group), Group.DecreaseVolume)

\* Adding and removing are told by the same pattern.
GroupsZoneResponse ==
  Pattern(<<Word("G"), Number, Kept({"AO", "RO"}), Number>>, 4)

GroupsZoneRequest(group, operation, zone) ==
  GroupZoneLine(group, operation, zone)

GroupsAddZoneRequest(group, zone) == GroupsZoneRequest(group, "A", zone)

GroupsRemoveZoneRequest(group, zone) == GroupsZoneRequest(group, "R", zone)

GroupsAddZone(group, zone) ==
  Exchange(GroupsAddZoneRequest(group, zone), GroupsZoneResponse)

GroupsRemoveZone(group, zone) ==
  Exchange(GroupsRemoveZoneRequest(group, zone), GroupsZoneResponse)

(***************************************************************************)
(* The other controllers: a band of a preset is one of the object "P" of   *)
(* the property "E"                                                        *)
(***************************************************************************)
EqualizerPresetsQuery(preset) ==
  Exchange(QueryRequest("EP", preset), Preset.Query)

EqualizerPresetsSetEqualizerBand(preset, band, level) ==
  Exchange(EqualizerBandSetRequest("P", preset, band, level), Preset.BandLevel)

EqualizerPresetsIncreaseEqualizerBand(preset, band) ==
  Exchange(EqualizerBandIncreaseRequest("P", preset, band), Preset.BandLevel)

EqualizerPresetsDecreaseEqualizerBand(preset, band) ==
  Exchange(EqualizerBandDecreaseRequest("P", preset, band), Preset.BandLevel)

EqualizerPresetsSetName(preset, name) ==
  Exchange(NameSetRequest("EP", preset, name), Preset.Name)

FavoritesQuery(favorite) ==
  Exchange(QueryRequest("F", favorite), Favorite.Query)

FavoritesSetName(favorite, name) ==
  Exchange(NameSetRequest("F", favorite, name), Favorite.Name)

SourcesSetName(source, name) ==
  Exchange(NameSetRequest("I", source, name), Source.Name)

\* A query of the front panel is answered by the line of its lock.
FrontPanelQuery == Exchange(QueryLockedLine, Panel.Locked)

FrontPanelSetBrightness(brightness) ==
  Exchange(BrightnessLine(brightness), Panel.Brightness)

FrontPanelSetLocked(locked) == Exchange(LockedLine(locked), Panel.Locked)

InfraredQuery == Exchange(QueryDisabledLine, Infrared.Disabled)

InfraredSetDisabled(disabled) ==
  Exchange(DisabledLine(disabled), Infrared.Disabled)

\* Of the network a client sets nothing.
NetworkQueryExchange == Exchange(QueryLine("E"), Network.Query)

ConfigurationQueryCurrentExchange ==
  Exchange(QueryLine("X"), Configuration.QueryCurrent)

ConfigurationLoadFromBackupExchange ==
  Exchange(<<"LOAD">>, Configuration.LoadFromBackup)

ConfigurationSaveToBackupExchange ==
  Exchange(<<"SAVE">>, Configuration.SaveToBackup)

ConfigurationSavingToBackupResponse == Pattern(<<Word("SAVING...")>>, 1)

ConfigurationResetToDefaultsExchange ==
  Exchange(<<"RESET">>, Configuration.ResetToDefaults)
=============================================================================

--------------------------- MODULE ClientRequests ---------------------------
(***************************************************************************)
(* What the object controllers of the client library let an application    *)
(* ask (src/src/lib/client/*Controller.cpp).  A call refuses identifiers   *)
(* out of range, which never reach the server, but no levels; what it lets *)
(* pass it sends as one exchange, which ends with the first line, its own  *)
(* or not, of the kind its command expects (Commands).                     *)
(***************************************************************************)
EXTENDS Integers, Sequences, Commands

CONSTANTS
  Unknown,         \* no known level
  ZonesMax, GroupsMax, SourcesMax, EqualizerPresetsMax, EqualizerBandsMax,
  FavoritesMax, NameLengthMax

(***************************************************************************)
(* A call                                                                  *)
(***************************************************************************)
\* Whether the identifiers are in range, and the lines waited for.
SendCommand(valid, command) == [valid |-> valid, expects |-> command]

IsZone(z) == z \in 1..ZonesMax

IsGroup(g) == g \in 1..GroupsMax

IsSource(s) == s \in 1..SourcesMax

IsPreset(p) == p \in 1..EqualizerPresetsMax

IsBand(b) == b \in 1..EqualizerBandsMax

IsFavorite(f) == f \in 1..FavoritesMax

\* A longer name is cut as the request is put together: none is sent.
IsSent(name) == Len(name) <= NameLengthMax

(***************************************************************************)
(* Zones                                                                   *)
(***************************************************************************)
Query(z) == SendCommand(IsZone(z), QueryCommand)

QueryMute(z) == SendCommand(IsZone(z), QueryMuteCommand)

QuerySource(z) == SendCommand(IsZone(z), QuerySourceCommand)

QueryVolume(z) == SendCommand(IsZone(z), QueryVolumeCommand)

IncreaseBalanceLeft(z) == SendCommand(IsZone(z), BalanceCommands)

IncreaseBalanceRight(z) == SendCommand(IsZone(z), BalanceCommands)

SetBalance(z) == SendCommand(IsZone(z), BalanceCommands)

SetEqualizerBand(z, b) ==
  SendCommand(IsZone(z) /\ IsBand(b), EqualizerBandCommands)

IncreaseEqualizerBand(z, b) ==
  SendCommand(IsZone(z) /\ IsBand(b), EqualizerBandCommands)

DecreaseEqualizerBand(z, b) ==
  SendCommand(IsZone(z) /\ IsBand(b), EqualizerBandCommands)

SetEqualizerPreset(z, p) ==
  SendCommand(IsZone(z) /\ IsPreset(p), EqualizerPresetCommand)

DecreaseBass(z) == SendCommand(IsZone(z), ToneCommands)

DecreaseTreble(z) == SendCommand(IsZone(z), ToneCommands)

IncreaseBass(z) == SendCommand(IsZone(z), ToneCommands)

IncreaseTreble(z) == SendCommand(IsZone(z), ToneCommands)

\* Identifiers are not looked at.
SetTone(z) == SendCommand(TRUE, ToneCommands)

\* The server takes both levels or none: the one that is not asked for is
\* that of the client's own model, or flat.
Level(level) == IF level = Unknown THEN 0 ELSE level

\* The other level is flat, whatever the model has.
SetBassFlat(tone, bass) == [bass |-> bass, treble |-> 0]

SetBass(tone, bass) == [bass |-> bass, treble |-> Level(tone.treble)]

SetTreble(tone, treble) == [bass |-> Level(tone.bass), treble |-> treble]

SetHighpassCrossover(z) == SendCommand(IsZone(z), HighpassCrossoverCommand)

SetLowpassCrossover(z) == SendCommand(IsZone(z), LowpassCrossoverCommand)

ClearMute(z) == SendCommand(IsZone(z), MuteCommands)

SetMute(z) == SendCommand(IsZone(z), MuteCommands)

Mute(z, mute) == IF mute THEN SetMute(z) ELSE ClearMute(z)

ToggleMute(z) == SendCommand(IsZone(z), MuteCommands)

SetName(z, name) == SendCommand(IsZone(z) /\ IsSent(name), NameCommand)

SetSoundMode(z) == SendCommand(IsZone(z), SoundModeCommand)

SetSource(z, s) == SendCommand(IsZone(z) /\ IsSource(s), SourceCommand)

SetSourceAll(s) == SendCommand(IsSource(s), SourceAllCommand)

SetVolume(z) == SendCommand(IsZone(z), VolumeCommand)

SetVolumeAll == SendCommand(TRUE, VolumeAllCommand)

IncreaseVolume(z) == SendCommand(IsZone(z), AdjustVolumeCommands)

DecreaseVolume(z) == SendCommand(IsZone(z), AdjustVolumeCommands)

SetVolumeLocked(z) == SendCommand(IsZone(z), VolumeFixedCommand)

(***************************************************************************)
(* Groups                                                                  *)
(***************************************************************************)
GroupClearMute(g) == SendCommand(IsGroup(g), GroupMuteCommands)

GroupSetMute(g) == SendCommand(IsGroup(g), GroupMuteCommands)

GroupMute(g, mute) == IF mute THEN GroupSetMute(g) ELSE GroupClearMute(g)

GroupToggleMute(g) == SendCommand(IsGroup(g), GroupToggleMuteCommand)

GroupSetName(g, name) ==
  SendCommand(IsGroup(g) /\ IsSent(name), GroupNameCommand)

GroupSetSource(g, s) ==
  SendCommand(IsGroup(g) /\ IsSource(s), GroupSourceCommand)

GroupSetVolume(g) == SendCommand(IsGroup(g), GroupVolumeCommand)

GroupIncreaseVolume(g) == SendCommand(IsGroup(g), GroupIncreaseVolumeCommand)

GroupDecreaseVolume(g) == SendCommand(IsGroup(g), GroupDecreaseVolumeCommand)

GroupAddZone(g, z) == SendCommand(IsGroup(g) /\ IsZone(z), GroupZoneCommands)

GroupRemoveZone(g, z) ==
  SendCommand(IsGroup(g) /\ IsZone(z), GroupZoneCommands)

(***************************************************************************)
(* The other controllers                                                   *)
(***************************************************************************)
EqualizerPresetSetBand(p, b) ==
  SendCommand(IsPreset(p) /\ IsBand(b), PresetBandCommands)

EqualizerPresetIncreaseBand(p, b) ==
  SendCommand(IsPreset(p) /\ IsBand(b), PresetBandCommands)

EqualizerPresetDecreaseBand(p, b) ==
  SendCommand(IsPreset(p) /\ IsBand(b), PresetBandCommands)

EqualizerPresetSetName(p, name) ==
  SendCommand(IsPreset(p) /\ IsSent(name), PresetNameCommand)

FavoriteSetName(f, name) ==
  SendCommand(IsFavorite(f) /\ IsSent(name), FavoriteNameCommand)

SourceSetName(s, name) ==
  SendCommand(IsSource(s) /\ IsSent(name), SourceNameCommand)

FrontPanelSetBrightness == SendCommand(TRUE, BrightnessCommand)

FrontPanelSetLocked == SendCommand(TRUE, LockedCommand)

InfraredSetDisabled == SendCommand(TRUE, InfraredCommands)

ConfigurationLoadFromBackup == SendCommand(TRUE, LoadFromBackupCommand)

ConfigurationSaveToBackup == SendCommand(TRUE, SaveToBackupCommand)

ConfigurationResetToDefaults == SendCommand(TRUE, ResetToDefaultsCommand)
=============================================================================

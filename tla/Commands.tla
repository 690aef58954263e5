------------------------------ MODULE Commands ------------------------------
(***************************************************************************)
(* The commands of the client library                                      *)
(* (src/src/lib/client/*ControllerCommands.cpp): for each, the kinds of    *)
(* line that end its exchange, as the regular expression of its response   *)
(* matches them, whatever zone, group or level the line is about.          *)
(***************************************************************************)
QueryCommand == {"zone query"}

QueryMuteCommand == {"mute"}

QuerySourceCommand == {"source"}

QueryVolumeCommand == {"volume"}

BalanceCommands == {"balance"}

EqualizerBandCommands == {"band"}

EqualizerPresetCommand == {"preset"}

HighpassCrossoverCommand == {"highpass"}

LowpassCrossoverCommand == {"lowpass"}

MuteCommands == {"mute"}

SoundModeCommand == {"mode"}

NameCommand == {"name"}

SourceCommand == {"source"}

SourceAllCommand == {"source all"}

ToneCommands == {"tone"}

VolumeCommand == {"volume"}

VolumeAllCommand == {"volume all"}

AdjustVolumeCommands == {"volume"}

VolumeFixedCommand == {"fixed"}

GroupMuteCommands == {"group mute"}

GroupToggleMuteCommand == {"group mute toggle"}

GroupNameCommand == {"group name"}

GroupSourceCommand == {"group source"}

GroupVolumeCommand == {"group volume"}

GroupIncreaseVolumeCommand == {"group volume up"}

GroupDecreaseVolumeCommand == {"group volume down"}

\* Adding and removing a zone expect the same line.
GroupZoneCommands == {"group zone added", "group zone removed"}

PresetBandCommands == {"preset band"}

PresetNameCommand == {"preset name"}

FavoriteNameCommand == {"favorite name"}

SourceNameCommand == {"source name"}

BrightnessCommand == {"brightness"}

LockedCommand == {"locked"}

InfraredCommands == {"disabled"}

LoadFromBackupCommand == {"loaded"}

\* Not the line that says that the backup is being written.
SaveToBackupCommand == {"saved"}

ResetToDefaultsCommand == {"reset"}
=============================================================================

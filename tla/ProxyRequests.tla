--------------------------- MODULE ProxyRequests ---------------------------
(***************************************************************************)
(* What the proxy does with the requests of its clients and with the lines *)
(* of its server (src/src/hlxproxyd/*Controller.cpp).  A request that      *)
(* changes something is passed on as it is, identifiers and levels not     *)
(* looked at; the line that ends it, the same a client of the server waits *)
(* for, is passed back.                                                    *)
(***************************************************************************)
EXTENDS Naturals, Sequences, Commands

\* A request is passed on whatever it asks for; the proxy then waits for the
\* lines its command expects.
ProxyMutationCommand(command) == [valid |-> TRUE, expects |-> command]

(***************************************************************************)
(* Zones                                                                   *)
(***************************************************************************)
ZoneToneRequests ==
  [AdjustBalance |-> ProxyMutationCommand(BalanceCommands),
   DecreaseBass |-> ProxyMutationCommand(ToneCommands),
   IncreaseBass |-> ProxyMutationCommand(ToneCommands),
   DecreaseTreble |-> ProxyMutationCommand(ToneCommands),
   IncreaseTreble |-> ProxyMutationCommand(ToneCommands)]

ZoneLevelRequests ==
  [DecreaseEqualizerBand |-> ProxyMutationCommand(EqualizerBandCommands),
   IncreaseEqualizerBand |-> ProxyMutationCommand(EqualizerBandCommands),
   DecreaseVolume |-> ProxyMutationCommand(AdjustVolumeCommands),
   IncreaseVolume |-> ProxyMutationCommand(AdjustVolumeCommands),
   Mute |-> ProxyMutationCommand(MuteCommands)]

ZoneEqualizerRequests ==
  [SetBalance |-> ProxyMutationCommand(BalanceCommands),
   SetEqualizerBand |-> ProxyMutationCommand(EqualizerBandCommands),
   SetEqualizerPreset |-> ProxyMutationCommand(EqualizerPresetCommand),
   SetHighpassCrossover |-> ProxyMutationCommand(HighpassCrossoverCommand),
   SetLowpassCrossover |-> ProxyMutationCommand(LowpassCrossoverCommand)]

ZoneSourceRequests ==
  [SetName |-> ProxyMutationCommand(NameCommand),
   SetSoundMode |-> ProxyMutationCommand(SoundModeCommand),
   SetSource |-> ProxyMutationCommand(SourceCommand),
   SetSourceAll |-> ProxyMutationCommand(SourceAllCommand)]

ZoneVolumeRequests ==
  [SetTone |-> ProxyMutationCommand(ToneCommands),
   SetVolume |-> ProxyMutationCommand(VolumeCommand),
   SetVolumeAll |-> ProxyMutationCommand(VolumeAllCommand),
   SetVolumeFixed |-> ProxyMutationCommand(VolumeFixedCommand),
   ToggleMute |-> ProxyMutationCommand(MuteCommands)]

(***************************************************************************)
(* Groups                                                                  *)
(***************************************************************************)
GroupLevelRequests ==
  [AddZone |-> ProxyMutationCommand(GroupZoneCommands),
   DecreaseVolume |-> ProxyMutationCommand(GroupDecreaseVolumeCommand),
   IncreaseVolume |-> ProxyMutationCommand(GroupIncreaseVolumeCommand),
   Mute |-> ProxyMutationCommand(GroupMuteCommands)]

GroupSettingRequests ==
  [RemoveZone |-> ProxyMutationCommand(GroupZoneCommands),
   SetName |-> ProxyMutationCommand(GroupNameCommand),
   SetSource |-> ProxyMutationCommand(GroupSourceCommand),
   SetVolume |-> ProxyMutationCommand(GroupVolumeCommand),
   ToggleMute |-> ProxyMutationCommand(GroupToggleMuteCommand)]

(***************************************************************************)
(* The other controllers                                                   *)
(***************************************************************************)
PresetRequests ==
  [DecreaseBand |-> ProxyMutationCommand(PresetBandCommands),
   IncreaseBand |-> ProxyMutationCommand(PresetBandCommands),
   SetBand |-> ProxyMutationCommand(PresetBandCommands),
   SetName |-> ProxyMutationCommand(PresetNameCommand)]

FavoriteRequests ==
  [SetName |-> ProxyMutationCommand(FavoriteNameCommand)]

SourceRequests ==
  [SetName |-> ProxyMutationCommand(SourceNameCommand)]

PanelRequests ==
  [SetBrightness |-> ProxyMutationCommand(BrightnessCommand),
   SetLocked |-> ProxyMutationCommand(LockedCommand)]

InfraredRequests ==
  [SetDisabled |-> ProxyMutationCommand(InfraredCommands)]

ConfigurationRequests ==
  [LoadFromBackup |-> ProxyMutationCommand(LoadFromBackupCommand),
   ResetToDefaults |-> ProxyMutationCommand(ResetToDefaultsCommand),
   SaveToBackup |-> ProxyMutationCommand(SaveToBackupCommand)]

(***************************************************************************)
(* The lines that are notifications: a handler for each is registered, and *)
(***************************************************************************)
ZonesSoundNotifications == {"balance", "band", "preset", "tone"}

ZonesSettingNotifications == {"highpass", "lowpass", "mute", "name"}

ZonesSourceNotifications == {"mode", "source", "source all"}

ZonesVolumeNotifications == {"volume", "volume all", "fixed"}

\* Without the volume, a handler for which is not registered.
ZonesNotificationsWithoutVolume ==
  UNION {ZonesSoundNotifications, ZonesSettingNotifications,
         ZonesSourceNotifications, ZonesVolumeNotifications} \ {"volume"}

ZonesNotifications ==
  UNION {ZonesSoundNotifications, ZonesSettingNotifications,
         ZonesSourceNotifications, ZonesVolumeNotifications}

GroupsSettingNotifications ==
  {"group mute", "group name", "group source", "group volume"}

\* One handler, for both.
GroupsZoneNotifications == {"group zone added", "group zone removed"}

GroupsNotifications == GroupsSettingNotifications \cup GroupsZoneNotifications

EqualizerPresetsNotifications == {"preset band", "preset name"}

FavoritesNotifications == {"favorite name"}

FrontPanelNotifications == {"brightness", "locked"}

InfraredNotifications == {"disabled"}

NetworkNotifications == {"dhcp", "sddp"}

SourcesNotifications == {"source name"}

ConfigurationNotifications == {"saved", "saving"}

Notifications ==
  UNION {ZonesNotifications, GroupsNotifications,
         EqualizerPresetsNotifications, FavoritesNotifications,
         FrontPanelNotifications, InfraredNotifications,
         NetworkNotifications, SourcesNotifications,
         ConfigurationNotifications}

\* Which of the lines a proxy then has, given by their kinds, go on to its
\* clients: notifications, unless it waits, and the line that ends a request
\* it has passed on, with the notifications before it, or the error.
Passed(kinds, expects) ==
  LET notified == {i \in DOMAIN kinds : kinds[i] \in Notifications}
      last == Len(kinds)
  IN CASE expects = {} -> notified
       [] kinds[last] \in expects -> notified \cup {last}
       [] expects # {} /\ kinds[last] = "error" -> {last}
       [] OTHER -> {}
=============================================================================

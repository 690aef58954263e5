--------------------------- MODULE ServerCommands ---------------------------
(***************************************************************************)
(* The requests a server understands and the answers it gives              *)
(* (src/src/lib/server/*ControllerCommands.cpp with the responses they are *)
(* made of, Command*ResponseBas*.cpp).                                     *)
(***************************************************************************)
EXTENDS Patterns

Request(pattern) == DelimitedPattern("requestor", pattern)

Response(tokens) == DelimitedBuffer("responder", tokens)

ErrorResponse == Response(<<"ERROR">>)

(***************************************************************************)
(* Responses that several objects share                                    *)
(***************************************************************************)
BalanceResponse(object, id, balance) == Response(BalanceLine(object, id, balance))

EqualizerBandResponse(object, id, band, level) ==
  Response(BandLine(object, id, band, level))

NameSetResponse(object, id, name) == Response(NameLine(object, id, name))

QueryResponse(object, id) == Response(QueryIdentifierLine(object, id))

QueryCurrentResponse(object) == Response(QueryLine(object))

SourceResponse(object, id, source) == Response(SourceLine(object, id, source))

SourceAllResponse(object, source) == Response(SourceAllLine(object, source))

VolumeResponse(object, id, level) == Response(VolumeLine(object, id, level))

VolumeAllResponse(object, level) == Response(VolumeAllLine(object, level))

VolumeFixedResponse(object, id, fixed) ==
  Response(VolumeFixedLine(object, id, fixed))

VolumeMuteResponse(object, id, mute) == Response(VolumeMuteLine(object, id, mute))

\* Some requests are answered with what they are themselves, within the
\* delimiters of an answer.
EchoResponse(request) == Response(SubSeq(request, 2, Len(request) - 1))

(***************************************************************************)
(* Requests of zones; the channel of a balance and the operation on it are *)
(* one word, as are the band of a tone and its operation                   *)
(***************************************************************************)
Operation(words) == Kept(words)

ZonesQueryRequests ==
  [Query |-> ZoneSetting.Query,
   QueryMute |-> Pattern(<<Word("QVMO"), Number>>, 2),
   QuerySource |-> Pattern(<<Word("QCO"), Number>>, 2),
   QueryVolume |-> Pattern(<<Word("QVO"), Number>>, 2)]

BandOperation(operation) ==
  Pattern(<<Word("EO"), Number, Word("B"), Number, Operation({operation})>>, 4)

ZonesBandRequests ==
  [AdjustBalance |-> Pattern(<<Word("BO"), Number, Operation({"LU", "RU"})>>, 3),
   SetBalance |-> ZoneSound.Balance,
   DecreaseEqualizerBand |-> BandOperation("D"),
   IncreaseEqualizerBand |-> BandOperation("U"),
   SetEqualizerBand |-> ZoneSound.BandLevel]

ZonesEqualizerRequests ==
  [SetEqualizerPreset |-> ZoneSound.EqualizerPreset,
   SetHighpassCrossover |-> ZoneSound.HighpassCrossover,
   SetLowpassCrossover |-> ZoneSound.LowpassCrossover]

ZonesSettingRequests ==
  [Mute |-> ZoneSetting.Mute,
   ToggleMute |-> ZoneVolume.ToggleMute,
   SetName |-> ZoneSetting.Name,
   SetSoundMode |-> ZoneSetting.SoundMode]

ZonesSourceRequests ==
  [SetSource |-> ZoneSetting.Source, SetSourceAll |-> ZoneSetting.SourceAll]

ToneOperation(operation) ==
  Pattern(<<Word("TO"), Number, Operation({operation})>>, 3)

ZonesToneRequests ==
  [DecreaseBass |-> ToneOperation("BD"),
   IncreaseBass |-> ToneOperation("BU"),
   DecreaseTreble |-> ToneOperation("TD"),
   IncreaseTreble |-> ToneOperation("TU"),
   SetTone |-> ZoneSetting.Tone]

ZonesVolumeRequests ==
  [DecreaseVolume |-> Pattern(<<Word("VO"), Number, Operation({"D"})>>, 3),
   IncreaseVolume |-> Pattern(<<Word("VO"), Number, Operation({"U"})>>, 3),
   SetVolume |-> ZoneVolume.Volume,
   SetVolumeAll |-> ZoneVolume.VolumeAll,
   SetVolumeFixed |-> ZoneVolume.VolumeFixed]

(***************************************************************************)
(* Responses: the tokens of a line that is a tuple of its kind, what it is *)
(* about, and its value                                                    *)
(***************************************************************************)
ZonesSoundResponse(line) ==
  CASE line[1] = "balance" -> BalanceResponse("O", line[2], line[3])
    [] line[1] = "band" -> EqualizerBandResponse("O", line[2], line[3], line[4])
    [] line[1] = "preset" -> Response(EqualizerPresetLine("O", line[2], line[3]))
    [] line[1] = "highpass" -> Response(HighpassLine("O", line[2], line[3]))
    [] line[1] = "lowpass" -> Response(LowpassLine("O", line[2], line[3]))

ZonesSettingResponse(line) ==
  CASE line[1] = "zone query" -> QueryResponse("O", line[2])
    [] line[1] = "mute" -> VolumeMuteResponse("O", line[2], line[3])
    [] line[1] = "name" -> NameSetResponse("O", line[2], line[3])
    [] line[1] = "mode" -> Response(SoundModeLine("O", line[2], line[3]))
    [] line[1] = "source" -> SourceResponse("O", line[2], line[3])
    [] line[1] = "source all" -> SourceAllResponse("X", line[2])

ZonesVolumeResponse(line) ==
  CASE line[1] = "tone" ->
         Response(ToneLine("O", line[2], line[3].bass, line[3].treble))
    [] line[1] = "volume" -> VolumeResponse("O", line[2], line[3])
    [] line[1] = "volume all" -> VolumeAllResponse("X", line[2])
    [] line[1] = "fixed" -> VolumeFixedResponse("O", line[2], line[3])

(***************************************************************************)
(* Groups                                                                  *)
(***************************************************************************)
GroupsSettingRequests ==
  [Query |-> Group.Query,
   Mute |-> Group.Mute,
   ToggleMute |-> Group.ToggleMute,
   SetName |-> Group.Name,
   SetSource |-> Group.Source]

GroupsVolumeRequests ==
  [DecreaseVolume |-> Group.DecreaseVolume,
   IncreaseVolume |-> Group.IncreaseVolume,
   SetVolume |-> Group.Volume]

GroupsZoneRequests ==
  [AddZone |-> Pattern(<<Word("G"), Number, Word("AO"), Number>>, 3),
   RemoveZone |-> Pattern(<<Word("G"), Number, Word("RO"), Number>>, 3),
   ClearZones |-> Pattern(<<Word("GAR")>>, 1)]

GroupsSettingResponse(line, request) ==
  CASE line[1] = "group query" -> QueryResponse("G", line[2])
    [] line[1] = "group mute" -> VolumeMuteResponse("G", line[2], line[3])
    [] line[1] = "group mute toggle" -> EchoResponse(request)
    [] line[1] = "group name" -> NameSetResponse("G", line[2], line[3])
    [] line[1] = "group source" -> SourceResponse("G", line[2], line[3])

GroupsVolumeResponse(line, request) ==
  CASE line[1] \in {"group volume up", "group volume down"} ->
         EchoResponse(request)
    [] line[1] = "group volume" -> VolumeResponse("G", line[2], line[3])

GroupsZoneResponse(line) ==
  CASE line[1] = "group zone added" ->
         Response(GroupZoneLine(line[2], "A", line[3]))
    [] line[1] = "group zone removed" ->
         Response(GroupZoneLine(line[2], "R", line[3]))
    [] line[1] = "group zones cleared" -> Response(<<"GAR">>)

(***************************************************************************)
(* The other controllers                                                   *)
(***************************************************************************)
PresetBandOperation(operation) ==
  Pattern(<<Word("EP"), Number, Word("B"), Number, Operation({operation})>>, 4)

EqualizerPresetsRequests ==
  [Query |-> Preset.Query,
   DecreaseBand |-> PresetBandOperation("D"),
   IncreaseBand |-> PresetBandOperation("U"),
   SetBand |-> Preset.BandLevel,
   SetName |-> Preset.Name]

EqualizerPresetsResponse(line) ==
  CASE line[1] = "preset query" -> QueryResponse("EP", line[2])
    [] line[1] = "preset band" ->
         EqualizerBandResponse("P", line[2], line[3], line[4])
    [] line[1] = "preset name" -> NameSetResponse("EP", line[2], line[3])

FavoritesRequests == [Query |-> Favorite.Query, SetName |-> Favorite.Name]

FavoritesResponse(line) ==
  CASE line[1] = "favorite query" -> QueryResponse("F", line[2])
    [] line[1] = "favorite name" -> NameSetResponse("F", line[2], line[3])

SourcesRequests == [SetName |-> Source.Name]

SourcesResponse(line) == NameSetResponse("I", line[2], line[3])

FrontPanelRequests ==
  [Query |-> Pattern(<<Word("QFPL")>>, 1),
   SetBrightness |-> Panel.Brightness,
   SetLocked |-> Panel.Locked]

FrontPanelResponse(line) ==
  CASE line[1] = "brightness" -> Response(BrightnessLine(line[2]))
    [] line[1] = "locked" -> Response(LockedLine(line[2]))

InfraredRequests ==
  [Query |-> Pattern(<<Word("QIRL")>>, 1), SetDisabled |-> Infrared.Disabled]

InfraredResponse(line) == Response(DisabledLine(line[2]))

NetworkRequests ==
  [Query |-> Network.Query,
   SetDHCPv4Enabled |-> Network.DHCPv4Enabled,
   SetSDDPEnabled |-> Network.SDDPEnabled]

NetworkResponse(line) ==
  CASE line[1] = "network query" -> QueryCurrentResponse("E")
    [] line[1] = "dhcp" -> Response(DHCPv4EnabledLine(line[2]))
    [] line[1] = "ethernet" -> Response(EthernetEUI48Line(line[2]))
    [] line[1] = "router" -> Response(IPDefaultRouterAddressLine(line[2]))
    [] line[1] = "host" -> Response(IPHostAddressLine(line[2]))
    [] line[1] = "netmask" -> Response(IPNetmaskLine(line[2]))
    [] line[1] = "sddp" -> Response(SDDPEnabledLine(line[2]))

ConfigurationRequests ==
  [QueryCurrent |-> Configuration.QueryCurrent,
   LoadFromBackup |-> Configuration.LoadFromBackup,
   ResetToDefaults |-> Configuration.ResetToDefaults,
   SaveToBackup |-> Configuration.SaveToBackup]

ConfigurationResponse(line) ==
  CASE line[1] = "current configuration" -> QueryCurrentResponse("X")
    [] line[1] = "loaded" -> Response(<<"LOAD">>)
    [] line[1] = "reset" -> Response(<<"RESET">>)
    [] line[1] = "saving" -> Response(<<"SAVING...">>)
    [] line[1] = "saved" -> Response(<<"SAVE">>)
=============================================================================

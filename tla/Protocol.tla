------------------------------ MODULE Protocol ------------------------------
(***************************************************************************)
(* A client library and a server that understand each other by lines: what *)
(* the commands of ClientCommands send, the handlers the simulator         *)
(* hlxsimd registers for the requests of ServerCommands, the lines they    *)
(* answer, and the handlers the client library registers for these.        *)
(*                                                                         *)
(* Both ends speak of a request or a line as a tuple that starts with its  *)
(* kind, for lines the ones the models of Simulator.tla exchange; between  *)
(* the two there are only tokens.  That a server refuses a request for its *)
(* parameters, and what else a line tells, is in Simulator.tla.            *)
(***************************************************************************)
EXTENDS Integers, Sequences, FiniteSets, TLC

CONSTANTS
  Numbers, Levels, NameLengthMax, PrintableNames, Addresses, EUI48s,
  Identifiers,   \* of the zones, groups, presets, ... that are used
  Balances,      \* negative to the left
  Frequencies,
  Names          \* names a caller asks for

Client == INSTANCE ClientCommands

Server == INSTANCE ServerCommands

ASSUME LinesAssumption ==
  Numbers \subseteq Nat /\ Levels \subseteq Int /\ NameLengthMax \in Nat \ {0}

ASSUME BalancesAssumption ==
  Balances \subseteq Int /\ \A b \in Balances : b \in Numbers \/ -b \in Numbers

ASSUME PartsAssumption ==
  Identifiers \subseteq Numbers /\ Frequencies \subseteq Numbers

VARIABLES
  asked,      \* the exchange under way: what it asks and the pattern that
              \* ends it, or Nothing
  received,   \* chunks the server did not dispatch yet, with what they mean
  handled,    \* what the last chunk dispatched meant and was taken for, since
              \* the client last asked
  said,       \* lines the client did not read yet, with what they mean
  heard,      \* what the last line read meant and was taken for, since then
  garbled     \* a name that no pattern matches has been sent since the two
              \* were last quiet

vars == <<asked, received, handled, said, heard, garbled>>

Nothing == [means |-> <<"nothing">>, response |-> <<>>]

NotHandled == [means |-> <<"nothing">>, as |-> <<"nothing">>]

NotHeard ==
  [means |-> <<"nothing">>, as |-> <<"nothing">>, ends |-> FALSE, last |-> TRUE]

Tones == [bass : Levels, treble : Levels]

\* The caller knows that a name is cut.
Shortened(name) ==
  SubSeq(name, 1, IF Len(name) > NameLengthMax THEN NameLengthMax ELSE Len(name))

Init ==
  /\ asked = Nothing
  /\ received = <<>>
  /\ handled = NotHandled
  /\ said = <<>>
  /\ heard = NotHeard
  /\ garbled = FALSE

(***************************************************************************)
(* The client asks                                                         *)
(***************************************************************************)
\* A server cuts what it receives behind every end of a request, one within
\* a name included.
CutAt(line, i) ==
  << SubSeq(line, 1, 4) \o <<SubSeq(line[5], 1, i - 1), "]">>,
     <<"rest of name", "quote", "]">> >>

HasName(line) == Len(line) = 7 /\ line[4] = "quote"

EndsWithin(line) ==
  IF HasName(line) THEN {i \in DOMAIN line[5] : line[5][i] = "]"} ELSE {}

\* A name that is empty, or that ends the request, arrives as no name.
IsGarbled(line) ==
  EndsWithin(line) # {} \/ (HasName(line) /\ line[5] = <<>>)

Chunks(means, line) ==
  LET pieces == IF EndsWithin(line) = {}
                THEN <<line>>
                ELSE CutAt(line, CHOOSE i \in EndsWithin(line) : TRUE)
  IN [i \in DOMAIN pieces |->
        [means |-> IF IsGarbled(line) THEN <<"garbled">> ELSE means,
         line |-> pieces[i]]]

\* Nothing is on its way.
Quiet == received = <<>> /\ said = <<>>

\* A bound: behind what is still on its way a client asks at once only if
\* that is the second error of a name that ended its request.
CanAsk ==
  \/ Quiet
  \/ /\ received = <<>>
     /\ [i \in DOMAIN said |-> said[i].means] = << <<"error">> >>

Ask(means, exchange) ==
  /\ asked.means = Nothing.means /\ CanAsk
  /\ asked' = [means |-> means, response |-> exchange.response]
  /\ received' = received \o Chunks(means, exchange.request)
  /\ garbled' = (IsGarbled(exchange.request) \/ (garbled /\ ~Quiet))
  /\ handled' = NotHandled
  /\ heard' = NotHeard
  /\ UNCHANGED said

ZonesAsk ==
  \E z \in Identifiers :
    \/ Ask(<<"ZonesQuery", z>>, Client!ZonesQuery(z))
    \/ Ask(<<"ZonesQueryMute", z>>, Client!ZonesQueryMute(z))
    \/ Ask(<<"ZonesQuerySource", z>>, Client!ZonesQuerySource(z))
    \/ Ask(<<"ZonesQueryVolume", z>>, Client!ZonesQueryVolume(z))
    \/ \E b \in Balances :
         Ask(<<"ZonesSetBalance", z, b>>, Client!ZonesSetBalance(z, b))
    \/ Ask(<<"ZonesAdjustBalance", z, "L">>, Client!ZonesIncreaseBalanceLeft(z))
    \/ Ask(<<"ZonesAdjustBalance", z, "R">>,
           Client!ZonesIncreaseBalanceRight(z))
    \/ \E band \in Identifiers :
         \/ \E l \in Levels :
              Ask(<<"ZonesSetEqualizerBand", z, band, l>>,
                  Client!ZonesSetEqualizerBand(z, band, l))
         \/ Ask(<<"ZonesIncreaseEqualizerBand", z, band>>,
                Client!ZonesIncreaseEqualizerBand(z, band))
         \/ Ask(<<"ZonesDecreaseEqualizerBand", z, band>>,
                Client!ZonesDecreaseEqualizerBand(z, band))
    \/ \E p \in Identifiers :
         Ask(<<"ZonesSetEqualizerPreset", z, p>>,
             Client!ZonesSetEqualizerPreset(z, p))
    \/ \E f \in Frequencies :
         \/ Ask(<<"ZonesSetHighpassCrossover", z, f>>,
                Client!ZonesSetHighpassCrossover(z, f))
         \/ Ask(<<"ZonesSetLowpassCrossover", z, f>>,
                Client!ZonesSetLowpassCrossover(z, f))
    \/ Ask(<<"ZonesMute", z, TRUE>>, Client!ZonesSetMute(z))
    \/ Ask(<<"ZonesMute", z, FALSE>>, Client!ZonesClearMute(z))
    \/ Ask(<<"ZonesToggleMute", z>>, Client!ZonesToggleMute(z))
    \/ \E n \in Names :
         Ask(<<"ZonesSetName", z, Shortened(n)>>, Client!ZonesSetName(z, n))
    \/ \E mode \in Identifiers :
         Ask(<<"ZonesSetSoundMode", z, mode>>,
             Client!ZonesSetSoundMode(z, mode))
    \/ \E s \in Identifiers :
         \/ Ask(<<"ZonesSetSource", z, s>>, Client!ZonesSetSource(z, s))
         \/ Ask(<<"ZonesSetSourceAll", s>>, Client!ZonesSetSourceAll(s))
    \/ Ask(<<"ZonesDecreaseBass", z>>, Client!ZonesDecreaseBass(z))
    \/ Ask(<<"ZonesDecreaseTreble", z>>, Client!ZonesDecreaseTreble(z))
    \/ Ask(<<"ZonesIncreaseBass", z>>, Client!ZonesIncreaseBass(z))
    \/ Ask(<<"ZonesIncreaseTreble", z>>, Client!ZonesIncreaseTreble(z))
    \/ \E tone \in Tones :
         Ask(<<"ZonesSetTone", z, tone>>, Client!ZonesSetTone(z, tone))
    \/ \E l \in Levels :
         \/ Ask(<<"ZonesSetVolume", z, l>>, Client!ZonesSetVolume(z, l))
         \/ Ask(<<"ZonesSetVolumeAll", l>>, Client!ZonesSetVolumeAll(l))
    \/ Ask(<<"ZonesIncreaseVolume", z>>, Client!ZonesIncreaseVolume(z))
    \/ Ask(<<"ZonesDecreaseVolume", z>>, Client!ZonesDecreaseVolume(z))
    \/ \E fixed \in BOOLEAN :
         Ask(<<"ZonesSetVolumeFixed", z, fixed>>,
             Client!ZonesSetVolumeFixed(z, fixed))

GroupsAsk ==
  \E g \in Identifiers :
    \/ Ask(<<"GroupsQuery", g>>, Client!GroupsQuery(g))
    \/ Ask(<<"GroupsMute", g, TRUE>>, Client!GroupsSetMute(g))
    \/ Ask(<<"GroupsMute", g, FALSE>>, Client!GroupsClearMute(g))
    \/ Ask(<<"GroupsToggleMute", g>>, Client!GroupsToggleMute(g))
    \/ \E n \in Names :
         Ask(<<"GroupsSetName", g, Shortened(n)>>, Client!GroupsSetName(g, n))
    \/ \E s \in Identifiers :
         Ask(<<"GroupsSetSource", g, s>>, Client!GroupsSetSource(g, s))
    \/ \E l \in Levels :
         Ask(<<"GroupsSetVolume", g, l>>, Client!GroupsSetVolume(g, l))
    \/ Ask(<<"GroupsIncreaseVolume", g>>, Client!GroupsIncreaseVolume(g))
    \/ Ask(<<"GroupsDecreaseVolume", g>>, Client!GroupsDecreaseVolume(g))
    \/ \E z \in Identifiers :
         \/ Ask(<<"GroupsAddZone", g, z>>, Client!GroupsAddZone(g, z))
         \/ Ask(<<"GroupsRemoveZone", g, z>>, Client!GroupsRemoveZone(g, z))

OthersAsk ==
  \/ \E i \in Identifiers :
       \/ Ask(<<"EqualizerPresetsQuery", i>>, Client!EqualizerPresetsQuery(i))
       \/ Ask(<<"FavoritesQuery", i>>, Client!FavoritesQuery(i))
       \/ \E band \in Identifiers :
            \/ \E l \in Levels :
                 Ask(<<"EqualizerPresetsSetBand", i, band, l>>,
                     Client!EqualizerPresetsSetEqualizerBand(i, band, l))
            \/ Ask(<<"EqualizerPresetsIncreaseBand", i, band>>,
                   Client!EqualizerPresetsIncreaseEqualizerBand(i, band))
            \/ Ask(<<"EqualizerPresetsDecreaseBand", i, band>>,
                   Client!EqualizerPresetsDecreaseEqualizerBand(i, band))
       \/ \E n \in Names :
            \/ Ask(<<"EqualizerPresetsSetName", i, Shortened(n)>>,
                   Client!EqualizerPresetsSetName(i, n))
            \/ Ask(<<"FavoritesSetName", i, Shortened(n)>>,
                   Client!FavoritesSetName(i, n))
            \/ Ask(<<"SourcesSetName", i, Shortened(n)>>,
                   Client!SourcesSetName(i, n))
  \/ \E brightness \in 0..3 :
       Ask(<<"FrontPanelSetBrightness", brightness>>,
           Client!FrontPanelSetBrightness(brightness))
  \/ \E on \in BOOLEAN :
       \/ Ask(<<"FrontPanelSetLocked", on>>, Client!FrontPanelSetLocked(on))
       \/ Ask(<<"InfraredSetDisabled", on>>, Client!InfraredSetDisabled(on))
  \/ Ask(<<"FrontPanelQuery">>, Client!FrontPanelQuery)
  \/ Ask(<<"InfraredQuery">>, Client!InfraredQuery)
  \/ Ask(<<"NetworkQuery">>, Client!NetworkQueryExchange)
  \/ Ask(<<"ConfigurationQueryCurrent">>,
         Client!ConfigurationQueryCurrentExchange)
  \/ Ask(<<"ConfigurationLoadFromBackup">>,
         Client!ConfigurationLoadFromBackupExchange)
  \/ Ask(<<"ConfigurationSaveToBackup">>,
         Client!ConfigurationSaveToBackupExchange)
  \/ Ask(<<"ConfigurationResetToDefaults">>,
         Client!ConfigurationResetToDefaultsExchange)

(***************************************************************************)
(* The server dispatches: the handlers each controller registers           *)
(***************************************************************************)
ZonesRequestHandlers ==
  [ZonesAdjustBalance |-> Server!ZonesBandRequests.AdjustBalance,
   ZonesDecreaseBass |-> Server!ZonesToneRequests.DecreaseBass,
   ZonesIncreaseBass |-> Server!ZonesToneRequests.IncreaseBass,
   ZonesDecreaseTreble |-> Server!ZonesToneRequests.DecreaseTreble,
   ZonesIncreaseTreble |-> Server!ZonesToneRequests.IncreaseTreble,
   ZonesDecreaseEqualizerBand |-> Server!ZonesBandRequests.DecreaseEqualizerBand,
   ZonesIncreaseEqualizerBand |-> Server!ZonesBandRequests.IncreaseEqualizerBand,
   ZonesDecreaseVolume |-> Server!ZonesVolumeRequests.DecreaseVolume,
   ZonesIncreaseVolume |-> Server!ZonesVolumeRequests.IncreaseVolume,
   ZonesMute |-> Server!ZonesSettingRequests.Mute,
   ZonesQuery |-> Server!ZonesQueryRequests.Query,
   ZonesQueryMute |-> Server!ZonesQueryRequests.QueryMute,
   ZonesQuerySource |-> Server!ZonesQueryRequests.QuerySource,
   ZonesQueryVolume |-> Server!ZonesQueryRequests.QueryVolume,
   ZonesSetBalance |-> Server!ZonesBandRequests.SetBalance,
   ZonesSetEqualizerBand |-> Server!ZonesBandRequests.SetEqualizerBand,
   ZonesSetEqualizerPreset |-> Server!ZonesEqualizerRequests.SetEqualizerPreset,
   ZonesSetHighpassCrossover |-> Server!ZonesEqualizerRequests.SetHighpassCrossover,
   ZonesSetLowpassCrossover |-> Server!ZonesEqualizerRequests.SetLowpassCrossover,
   ZonesSetName |-> Server!ZonesSettingRequests.SetName,
   ZonesSetSoundMode |-> Server!ZonesSettingRequests.SetSoundMode,
   ZonesSetSource |-> Server!ZonesSourceRequests.SetSource,
   ZonesSetSourceAll |-> Server!ZonesSourceRequests.SetSourceAll,
   ZonesSetTone |-> Server!ZonesToneRequests.SetTone,
   ZonesSetVolume |-> Server!ZonesVolumeRequests.SetVolume,
   ZonesSetVolumeAll |-> Server!ZonesVolumeRequests.SetVolumeAll,
   ZonesSetVolumeFixed |-> Server!ZonesVolumeRequests.SetVolumeFixed,
   ZonesToggleMute |-> Server!ZonesSettingRequests.ToggleMute]

GroupsRequestHandlers ==
  [GroupsAddZone |-> Server!GroupsZoneRequests.AddZone,
   GroupsClearZones |-> Server!GroupsZoneRequests.ClearZones,
   GroupsDecreaseVolume |-> Server!GroupsVolumeRequests.DecreaseVolume,
   GroupsIncreaseVolume |-> Server!GroupsVolumeRequests.IncreaseVolume,
   GroupsMute |-> Server!GroupsSettingRequests.Mute,
   GroupsQuery |-> Server!GroupsSettingRequests.Query,
   GroupsRemoveZone |-> Server!GroupsZoneRequests.RemoveZone,
   GroupsSetName |-> Server!GroupsSettingRequests.SetName,
   GroupsSetSource |-> Server!GroupsSettingRequests.SetSource,
   GroupsSetVolume |-> Server!GroupsVolumeRequests.SetVolume,
   GroupsToggleMute |-> Server!GroupsSettingRequests.ToggleMute]

EqualizerPresetsRequestHandlers ==
  [EqualizerPresetsDecreaseBand |-> Server!EqualizerPresetsRequests.DecreaseBand,
   EqualizerPresetsIncreaseBand |-> Server!EqualizerPresetsRequests.IncreaseBand,
   EqualizerPresetsQuery |-> Server!EqualizerPresetsRequests.Query,
   EqualizerPresetsSetBand |-> Server!EqualizerPresetsRequests.SetBand,
   EqualizerPresetsSetName |-> Server!EqualizerPresetsRequests.SetName]

FavoritesRequestHandlers ==
  [FavoritesQuery |-> Server!FavoritesRequests.Query,
   FavoritesSetName |-> Server!FavoritesRequests.SetName]

SourcesRequestHandlers == [SourcesSetName |-> Server!SourcesRequests.SetName]

FrontPanelRequestHandlers ==
  [FrontPanelQuery |-> Server!FrontPanelRequests.Query,
   FrontPanelSetBrightness |-> Server!FrontPanelRequests.SetBrightness,
   FrontPanelSetLocked |-> Server!FrontPanelRequests.SetLocked]

InfraredRequestHandlers ==
  [InfraredQuery |-> Server!InfraredRequests.Query,
   InfraredSetDisabled |-> Server!InfraredRequests.SetDisabled]

NetworkRequestHandlers ==
  [NetworkQuery |-> Server!NetworkRequests.Query,
   NetworkSetDHCPv4Enabled |-> Server!NetworkRequests.SetDHCPv4Enabled,
   NetworkSetSDDPEnabled |-> Server!NetworkRequests.SetSDDPEnabled]

ConfigurationRequestHandlers ==
  [ConfigurationLoadFromBackup |-> Server!ConfigurationRequests.LoadFromBackup,
   ConfigurationQueryCurrent |-> Server!ConfigurationRequests.QueryCurrent,
   ConfigurationResetToDefaults |-> Server!ConfigurationRequests.ResetToDefaults,
   ConfigurationSaveToBackup |-> Server!ConfigurationRequests.SaveToBackup]

RequestHandlers ==
  ZonesRequestHandlers @@ GroupsRequestHandlers
    @@ EqualizerPresetsRequestHandlers @@ FavoritesRequestHandlers
    @@ SourcesRequestHandlers @@ FrontPanelRequestHandlers
    @@ InfraredRequestHandlers @@ NetworkRequestHandlers
    @@ ConfigurationRequestHandlers

\* How a side and a distance from the center are one balance.
ToBalance(channel, distance) == IF channel = "L" THEN -distance ELSE distance

ToMute(word) == word \in {"VMO", "VMG"}

Digits(number) ==
  IF number = 0
  THEN 1
  ELSE CHOOSE n \in 1..number : 10^(n - 1) <= number /\ number < 10^n

\* What a length that may be too short leaves of a number: its first digits.
Leading(number, length) ==
  IF length < Digits(number) THEN number \div 10^(Digits(number) - length)
                             ELSE number

\* The length of the "M" or "UM" that a mute keeps.
MuteLength(word) == IF ToMute(word) THEN 1 ELSE 2

\* What a handler makes of the matches m of its request.  Four handlers parse
\* their second match with the length of their first.
Parsed(handler, m) ==
  CASE handler = "ZonesSetBalance" ->
         <<handler, m[1], ToBalance(m[2], m[3])>>
    [] handler = "ZonesAdjustBalance" ->
         <<handler, m[1], IF m[2] = "LU" THEN "L" ELSE "R">>
    [] handler \in {"ZonesMute", "GroupsMute"} ->
         <<handler, Leading(m[2], MuteLength(m[1])), ToMute(m[1])>>
    [] handler \in {"GroupsAddZone", "GroupsRemoveZone"} ->
         <<handler, m[1], Leading(m[2], Digits(m[1]))>>
    [] handler = "ZonesSetVolumeFixed" -> <<handler, m[1], m[2] = 1>>
    [] handler = "ZonesSetTone" ->
         <<handler, m[1], [bass |-> m[2], treble |-> m[3]]>>
    [] handler \in {"FrontPanelSetLocked", "InfraredSetDisabled"} ->
         <<handler, m[1] = 1>>
    [] handler \in {"ZonesDecreaseBass", "ZonesIncreaseBass",
                    "ZonesDecreaseTreble", "ZonesIncreaseTreble",
                    "ZonesDecreaseVolume", "ZonesIncreaseVolume"} ->
         <<handler, m[1]>>
    [] handler \in {"ZonesDecreaseEqualizerBand",
                    "ZonesIncreaseEqualizerBand",
                    "EqualizerPresetsDecreaseBand",
                    "EqualizerPresetsIncreaseBand"} ->
         <<handler, m[1], m[2]>>
    [] OTHER -> <<handler>> \o m

(***************************************************************************)
(* The server answers                                                      *)
(***************************************************************************)
\* The line of a tuple; "request" is the one that is answered.
Composed(line, request) ==
  LET kind == line[1]
  IN CASE kind = "error" -> Server!ErrorResponse
       [] kind \in {"balance", "band", "preset", "highpass", "lowpass"} ->
            Server!ZonesSoundResponse(line)
       [] kind \in {"zone query", "mute", "name", "mode", "source",
                    "source all"} -> Server!ZonesSettingResponse(line)
       [] kind \in {"tone", "volume", "volume all", "fixed"} ->
            Server!ZonesVolumeResponse(line)
       [] kind \in {"group query", "group mute", "group mute toggle",
                    "group name", "group source"} ->
            Server!GroupsSettingResponse(line, request)
       [] kind \in {"group volume", "group volume up", "group volume down"} ->
            Server!GroupsVolumeResponse(line, request)
       [] kind \in {"group zone added", "group zone removed",
                    "group zones cleared"} -> Server!GroupsZoneResponse(line)
       [] kind \in {"preset query", "preset band", "preset name"} ->
            Server!EqualizerPresetsResponse(line)
       [] kind \in {"favorite query", "favorite name"} ->
            Server!FavoritesResponse(line)
       [] kind = "source name" -> Server!SourcesResponse(line)
       [] kind \in {"brightness", "locked"} -> Server!FrontPanelResponse(line)
       [] kind = "disabled" -> Server!InfraredResponse(line)
       [] kind \in {"network query", "dhcp", "sddp", "ethernet", "router",
                    "host", "netmask"} -> Server!NetworkResponse(line)
       [] kind \in {"current configuration", "loaded", "reset", "saving",
                    "saved"} -> Server!ConfigurationResponse(line)

\* Every parameter a sound mode has.
SoundModeLines(z, level) ==
  << <<"mode", z, z>>, <<"band", z, z, level>>, <<"preset", z, z>>,
     <<"tone", z, [bass |-> level, treble |-> level]>>,
     <<"lowpass", z, z>>, <<"highpass", z, z>> >>

ZoneLines(z, name, level, balance) ==
  << <<"name", z, name>>, <<"source", z, z>>, <<"volume", z, level>>,
     <<"fixed", z, TRUE>>, <<"mute", z, level = 0>> >>
    \o SoundModeLines(z, level) \o << <<"balance", z, balance>> >>

GroupLines(g, name) ==
  << <<"group name", g, name>>, <<"group zone added", g, g>> >>

PresetLines(p, name, level) ==
  << <<"preset name", p, name>>, <<"preset band", p, p, level>> >>

\* The addresses are those of the connection; its Ethernet address is not
\* part of the configuration.
NetworkLines(isConfiguration, on, address, eui48) ==
  << <<"dhcp", on>>, <<"sddp", on>>, <<"host", address>>,
     <<"netmask", address>>, <<"router", address>> >>
    \o (IF isConfiguration THEN <<>> ELSE << <<"ethernet", eui48>> >>)

\* A value that was set before is told by a line of its own first.
After(line, lines) == {lines, <<line>> \o lines}

\* What a server may answer to a request, as far as lines go.  The last line
\* is the one that ends the exchange.
Answers(request) ==
  LET handler == request[1]
      z == request[2]
      v == request[3]
      Mode(lines) == After(<<"mode", z, z>>, lines)
      Unmuted(lines) == After(<<"mute", z, FALSE>>, lines)
  IN CASE handler = "ZonesAdjustBalance" ->
            {<< <<"balance", z, b>> >> : b \in Balances}
       [] handler \in {"ZonesDecreaseBass", "ZonesIncreaseBass",
                       "ZonesDecreaseTreble", "ZonesIncreaseTreble"} ->
            UNION {Mode(<< <<"tone", z, tone>> >>) : tone \in Tones}
       [] handler \in {"ZonesDecreaseEqualizerBand",
                       "ZonesIncreaseEqualizerBand"} ->
            UNION {Mode(<< <<"band", z, v, l>> >>) : l \in Levels}
       [] handler \in {"ZonesDecreaseVolume", "ZonesIncreaseVolume"} ->
            UNION {Unmuted(<< <<"volume", z, l>> >>) : l \in Levels}
       [] handler = "ZonesMute" -> {<< <<"mute", z, v>> >>}
       [] handler = "ZonesToggleMute" ->
            {<< <<"mute", z, mute>> >> : mute \in BOOLEAN}
       [] handler = "ZonesQuery" ->
            {ZoneLines(z, <<"A">>, l, b) \o << <<"zone query", z>> >> :
               l \in Levels, b \in Balances}
       [] handler = "ZonesQueryMute" ->
            {<< <<"mute", z, mute>> >> : mute \in BOOLEAN}
       [] handler = "ZonesQuerySource" ->
            {<< <<"source", z, s>> >> : s \in Identifiers}
       [] handler = "ZonesQueryVolume" ->
            {<< <<"volume", z, l>> >> : l \in Levels}
       [] handler = "ZonesSetBalance" -> {<< <<"balance", z, v>> >>}
       [] handler = "ZonesSetEqualizerBand" ->
            Mode(<< <<"band", z, v, request[4]>> >>)
       [] handler = "ZonesSetEqualizerPreset" -> Mode(<< <<"preset", z, v>> >>)
       [] handler = "ZonesSetHighpassCrossover" ->
            Mode(<< <<"highpass", z, v>> >>)
       [] handler = "ZonesSetLowpassCrossover" -> Mode(<< <<"lowpass", z, v>> >>)
       [] handler = "ZonesSetName" -> {<< <<"name", z, v>> >>}
       [] handler = "ZonesSetSoundMode" -> {<< <<"mode", z, v>> >>}
       [] handler = "ZonesSetSource" -> {<< <<"source", z, v>> >>}
       [] handler = "ZonesSetSourceAll" -> {<< <<"source all", z>> >>}
       [] handler = "ZonesSetTone" -> Mode(<< <<"tone", z, v>> >>)
       [] handler = "ZonesSetVolume" -> Unmuted(<< <<"volume", z, v>> >>)
       [] handler = "ZonesSetVolumeAll" ->
            After(<<"mute", 1, FALSE>>, << <<"volume all", z>> >>)
       [] handler = "ZonesSetVolumeFixed" -> {<< <<"fixed", z, v>> >>}
       [] handler = "GroupsAddZone" -> {<< <<"group zone added", z, v>> >>}
       [] handler = "GroupsRemoveZone" -> {<< <<"group zone removed", z, v>> >>}
       [] handler = "GroupsClearZones" -> {<< <<"group zones cleared">> >>}
       [] handler = "GroupsDecreaseVolume" -> {<< <<"group volume down", z>> >>}
       [] handler = "GroupsIncreaseVolume" -> {<< <<"group volume up", z>> >>}
       [] handler = "GroupsMute" -> {<< <<"group mute", z, v>> >>}
       [] handler = "GroupsQuery" ->
            {GroupLines(z, <<"A">>) \o << <<"group query", z>> >>}
       [] handler = "GroupsSetName" -> {<< <<"group name", z, v>> >>}
       [] handler = "GroupsSetSource" -> {<< <<"group source", z, v>> >>}
       [] handler = "GroupsSetVolume" -> {<< <<"group volume", z, v>> >>}
       [] handler = "GroupsToggleMute" -> {<< <<"group mute toggle", z>> >>}
       [] handler \in {"EqualizerPresetsDecreaseBand",
                       "EqualizerPresetsIncreaseBand"} ->
            {<< <<"preset band", z, v, l>> >> : l \in Levels}
       [] handler = "EqualizerPresetsQuery" ->
            {PresetLines(z, <<"A">>, l) \o << <<"preset query", z>> >> :
               l \in Levels}
       [] handler = "EqualizerPresetsSetBand" ->
            {<< <<"preset band", z, v, request[4]>> >>}
       [] handler = "EqualizerPresetsSetName" -> {<< <<"preset name", z, v>> >>}
       [] handler = "FavoritesQuery" ->
            {<< <<"favorite name", z, <<"A">> >>, <<"favorite query", z>> >>}
       [] handler = "FavoritesSetName" -> {<< <<"favorite name", z, v>> >>}
       [] handler = "SourcesSetName" -> {<< <<"source name", z, v>> >>}
       [] handler = "FrontPanelQuery" -> {<< <<"locked", on>> >> : on \in BOOLEAN}
       [] handler = "FrontPanelSetBrightness" -> {<< <<"brightness", z>> >>}
       [] handler = "FrontPanelSetLocked" -> {<< <<"locked", z>> >>}
       [] handler = "InfraredQuery" -> {<< <<"disabled", on>> >> : on \in BOOLEAN}
       [] handler = "InfraredSetDisabled" -> {<< <<"disabled", z>> >>}
       [] handler = "NetworkQuery" ->
            {NetworkLines(FALSE, on, address, eui48) \o << <<"network query">> >> :
               on \in BOOLEAN, address \in Addresses, eui48 \in EUI48s}
       [] handler = "NetworkSetDHCPv4Enabled" -> {<< <<"dhcp", z = 1>> >>}
       [] handler = "NetworkSetSDDPEnabled" -> {<< <<"sddp", z = 1>> >>}
       [] handler = "ConfigurationLoadFromBackup" -> {<< <<"loaded">> >>}
       [] handler = "ConfigurationQueryCurrent" ->
            {NetworkLines(TRUE, TRUE, address, "none")
               \o << <<"favorite name", 1, <<"A">> >> >>
               \o GroupLines(1, <<"A">>)
               \o << <<"brightness", 1>>, <<"locked", TRUE>>,
                     <<"disabled", TRUE>> >>
               \o PresetLines(1, <<"A">>, 0)
               \o << <<"source name", 1, <<"A">> >> >>
               \o ZoneLines(1, <<"A">>, 0, 0)
               \o << <<"current configuration">> >> : address \in Addresses}
       [] handler = "ConfigurationResetToDefaults" -> {<< <<"reset">> >>}
       [] handler = "ConfigurationSaveToBackup" ->
            {<< <<"saving">>, <<"saved">> >>}

Received(pattern) ==
  IF Server!Match(Head(received).line, Server!Request(pattern))
  THEN {Server!Matches(Head(received).line, Server!Request(pattern))}
  ELSE {}

\* What is understood is answered by lines, anything else by an error.
Say(lines, request) ==
  said' = said \o [i \in DOMAIN lines |->
                     [means |-> lines[i], last |-> i = Len(lines),
                      line |-> Composed(lines[i], request)]]

Handle(handler) ==
  \E matches \in Received(RequestHandlers[handler]) :
    LET request == Parsed(handler, matches)
    IN /\ handled' = [means |-> Head(received).means, as |-> request]
       /\ \E lines \in Answers(request) : Say(lines, Head(received).line)

\* What is not understood is not answered.
SendErrorResponseNot ==
  /\ \A handler \in DOMAIN RequestHandlers :
       Received(RequestHandlers[handler]) = {}
  /\ handled' = [means |-> Head(received).means, as |-> <<"garbled">>]
  /\ UNCHANGED said

SendErrorResponse ==
  /\ \A handler \in DOMAIN RequestHandlers :
       Received(RequestHandlers[handler]) = {}
  /\ handled' = [means |-> Head(received).means, as |-> <<"garbled">>]
  /\ Say(<< <<"error">> >>, Head(received).line)

DispatchRequest ==
  /\ received # <<>>
  /\ \/ \E handler \in DOMAIN RequestHandlers : Handle(handler)
     \/ SendErrorResponse
  /\ received' = Tail(received)
  /\ UNCHANGED <<asked, heard, garbled>>

(***************************************************************************)
(* The client reads                                                        *)
(***************************************************************************)
\* No handler for the lines about all zones.
ZonesNotificationHandlersOfOne ==
  ("balance" :> Client!ZoneSound.Balance)
    @@ ("band" :> Client!ZoneSound.BandLevel)
    @@ ("preset" :> Client!ZoneSound.EqualizerPreset)
    @@ ("highpass" :> Client!ZoneSound.HighpassCrossover)
    @@ ("lowpass" :> Client!ZoneSound.LowpassCrossover)
    @@ ("mute" :> Client!ZoneSetting.Mute)
    @@ ("name" :> Client!ZoneSetting.Name)
    @@ ("mode" :> Client!ZoneSetting.SoundMode)
    @@ ("source" :> Client!ZoneSetting.Source)
    @@ ("tone" :> Client!ZoneSetting.Tone)
    @@ ("volume" :> Client!ZoneVolume.Volume)
    @@ ("fixed" :> Client!ZoneVolume.VolumeFixed)

ZonesNotificationHandlers ==
  ("balance" :> Client!ZoneSound.Balance)
    @@ ("band" :> Client!ZoneSound.BandLevel)
    @@ ("preset" :> Client!ZoneSound.EqualizerPreset)
    @@ ("highpass" :> Client!ZoneSound.HighpassCrossover)
    @@ ("lowpass" :> Client!ZoneSound.LowpassCrossover)
    @@ ("mute" :> Client!ZoneSetting.Mute)
    @@ ("name" :> Client!ZoneSetting.Name)
    @@ ("mode" :> Client!ZoneSetting.SoundMode)
    @@ ("source" :> Client!ZoneSetting.Source)
    @@ ("source all" :> Client!ZoneSetting.SourceAll)
    @@ ("tone" :> Client!ZoneSetting.Tone)
    @@ ("volume" :> Client!ZoneVolume.Volume)
    @@ ("volume all" :> Client!ZoneVolume.VolumeAll)
    @@ ("fixed" :> Client!ZoneVolume.VolumeFixed)

GroupsNotificationHandlers ==
  ("group mute" :> Client!Group.Mute) @@ ("group name" :> Client!Group.Name)
    @@ ("group source" :> Client!Group.Source)
    @@ ("group volume" :> Client!Group.Volume)
    @@ ("group zone" :> Client!GroupsZoneResponse)

EqualizerPresetsNotificationHandlers ==
  ("preset band" :> Client!Preset.BandLevel)
    @@ ("preset name" :> Client!Preset.Name)

FavoritesNotificationHandlers == "favorite name" :> Client!Favorite.Name

SourcesNotificationHandlers == "source name" :> Client!Source.Name

FrontPanelNotificationHandlers ==
  ("brightness" :> Client!Panel.Brightness)
    @@ ("locked" :> Client!Panel.Locked)

InfraredNotificationHandlers == "disabled" :> Client!Infrared.Disabled

NetworkNotificationHandlers ==
  ("dhcp" :> Client!Network.DHCPv4Enabled)
    @@ ("ethernet" :> Client!Network.EthernetEUI48)
    @@ ("router" :> Client!Network.IPDefaultRouterAddress)
    @@ ("host" :> Client!Network.IPHostAddress)
    @@ ("netmask" :> Client!Network.IPNetmask)
    @@ ("sddp" :> Client!Network.SDDPEnabled)

ConfigurationNotificationHandlers ==
  ("saved" :> Client!Configuration.SaveToBackup)
    @@ ("saving" :> Client!ConfigurationSavingToBackupResponse)

NotificationHandlers ==
  ZonesNotificationHandlers @@ GroupsNotificationHandlers
    @@ EqualizerPresetsNotificationHandlers @@ FavoritesNotificationHandlers
    @@ SourcesNotificationHandlers @@ FrontPanelNotificationHandlers
    @@ InfraredNotificationHandlers @@ NetworkNotificationHandlers
    @@ ConfigurationNotificationHandlers

\* The answers that only the client that asked understands.
CompletionHandlers ==
  ("zone query" :> Client!ZoneSetting.Query)
    @@ ("group query" :> Client!Group.Query)
    @@ ("group mute toggle" :> Client!Group.ToggleMute)
    @@ ("group volume up" :> Client!Group.IncreaseVolume)
    @@ ("group volume down" :> Client!Group.DecreaseVolume)
    @@ ("preset query" :> Client!Preset.Query)
    @@ ("favorite query" :> Client!Favorite.Query)
    @@ ("network query" :> Client!Network.Query)
    @@ ("current configuration" :> Client!Configuration.QueryCurrent)
    @@ ("loaded" :> Client!Configuration.LoadFromBackup)
    @@ ("reset" :> Client!Configuration.ResetToDefaults)

\* What a handler makes of the matches m of its line.
Told(kind, m) ==
  CASE kind = "balance" -> <<kind, m[1], ToBalance(m[2], m[3])>>
    [] kind \in {"mute", "group mute"} -> <<kind, m[2], ToMute(m[1])>>
    [] kind = "fixed" -> <<kind, m[1], m[2] = 1>>
    [] kind = "tone" -> <<kind, m[1], [bass |-> m[2], treble |-> m[3]]>>
    [] kind = "group zone" ->
         <<IF m[2] = "AO" THEN "group zone added" ELSE "group zone removed",
           m[1], m[3]>>
    [] kind \in {"locked", "disabled", "dhcp", "sddp"} -> <<kind, m[1] = 1>>
    [] OTHER -> <<kind>> \o m

\* The handlers that take a line: those of the exchange it ends, if it does,
\* and any that is registered.
Takers(line, ends) ==
  LET handlers == IF ends
                  THEN NotificationHandlers @@ CompletionHandlers
                  ELSE NotificationHandlers
  IN {Told(kind, Client!Matches(line, Client!Response(handlers[kind]))) :
        kind \in {k \in DOMAIN handlers :
                    Client!Match(line, Client!Response(handlers[k]))}}

DidReceiveApplicationData ==
  /\ said # <<>>
  /\ LET line == Head(said)
         isError == line.line = Server!ErrorResponse
         ends == /\ asked.means # Nothing.means
                 /\ isError \/ Client!Match(line.line, asked.response)
         takers == IF isError
                   THEN {<<"error">>}
                   ELSE Takers(line.line, ends)
     IN /\ \E as \in IF takers = {} THEN {<<"ignored">>} ELSE takers :
             heard' = [means |-> line.means, as |-> as, ends |-> ends,
                       last |-> line.last]
        /\ asked' = IF ends THEN Nothing ELSE asked
  /\ said' = Tail(said)
  /\ UNCHANGED <<received, handled, garbled>>

Next ==
  \/ ZonesAsk
  \/ GroupsAsk
  \/ OthersAsk
  \/ DispatchRequest
  \/ DidReceiveApplicationData

Spec == Init /\ [][Next]_vars

(***************************************************************************)
(* Properties                                                              *)
(***************************************************************************)
\* Two digits where the handler takes one: muting, but not unmuting, zone or
\* group 10 and above, and zone 10 and above in a group below 10.
LosesDigits(request) ==
  \/ /\ request[1] \in {"ZonesMute", "GroupsMute"}
     /\ request[2] > 9 /\ request[3]
  \/ /\ request[1] \in {"GroupsAddZone", "GroupsRemoveZone"}
     /\ request[2] <= 9 /\ request[3] > 9

\* A request is taken by the handler of its command alone, and what that
\* makes of the matches is what the caller asked for: the side and distance
\* of a balance, a mute, a band, a name as it was cut, an identifier of any
\* length but where the handler loses digits.  (There it is about another
\* object: "[VMO12]" mutes zone 1.)
HandledAsAsked == LosesDigits(handled.means) \/ handled.as = handled.means

\* A line is taken by the handler of its kind alone, as what the server
\* meant by it; a query whose exchange an error has ended is not missed.
HeardAsSaid ==
  \/ heard.as = heard.means
  \/ garbled /\ heard.as = <<"ignored">>

\* No line of an answer but its last one, or an error, ends the exchange: a
\* query is not over before everything it asks for has been told.
EndsWithTheAnswer == heard.ends => heard.last \/ garbled

\* A client that waits has its answer on the way: no request is lost and no
\* answer fails to end its exchange.
AnswerIsOnTheWay == asked.means # Nothing.means => ~Quiet
=============================================================================

--------------------------- MODULE SimulatorZones ---------------------------
(***************************************************************************)
(* The zones of the simulator daemon hlxsimd (hlxsimd/ZonesController.cpp, *)
(* with the query responses it takes from lib/server): every request as an *)
(* operator from a zone to an outcome                                      *)
(*    status   what the handler ends with: an error is answered by the     *)
(*             error line alone, anything else by "lines"                  *)
(*    zone     the zone the handler leaves, refused requests included      *)
(*    lines    the lines of the answer, in order                           *)
(*    dirty    whether the configuration became worth saving.              *)
(* A line is a tuple that starts with its kind.  The last section saves a  *)
(* zone to the backup and loads it again.                                  *)
(***************************************************************************)
EXTENDS ElementModels, SequencesExt

CONSTANT ZoneDefaults  \* identifier -> zone of the factory configuration

(***************************************************************************)
(* Outcomes of a zone                                                      *)
(***************************************************************************)
Silent(zone) ==
  [status |-> "success", zone |-> zone, lines |-> <<>>, dirty |-> FALSE]

RefuseZone(zone, status) == [Silent(zone) EXCEPT !.status = status]

\* The zone a setter left; only a change makes dirty.
Stored(r) ==
  [status |-> r.status, zone |-> r.value, lines |-> <<>>, dirty |-> Changed(r)]

\* The line of an answer that nothing failed before.
Say(line, o) ==
  IF Failed(o)
  THEN o
  ELSE [o EXCEPT !.status = "success", !.lines = Append(@, line)]

\* The line of a setter whose "already set" ends the handler, too.
SayIfChanged(line, o) == IF Changed(o) THEN Say(line, o) ELSE o

\* p, computed from the zone o left, after o.
Joined(o, p) ==
  IF Failed(o)
  THEN o
  ELSE [p EXCEPT !.lines = o.lines \o @, !.dirty = o.dirty \/ @]

(***************************************************************************)
(* The lines of answers                                                    *)
(***************************************************************************)
HandleEqualizerBandResponse(z, b, level) == <<"band", z, b, level>>

HandleEqualizerPresetResponse(z, p) == <<"preset", z, p>>

HandleHighpassCrossoverResponse(z, f) == <<"highpass", z, f>>

HandleLowpassCrossoverResponse(z, f) == <<"lowpass", z, f>>

HandleMuteResponse(z, mute) == <<"mute", z, mute>>

HandleSoundModeResponse(z, mode) == <<"mode", z, mode>>

HandleToneResponse(z, tone) == <<"tone", z, tone>>

HandleVolumeResponse(z, level) == <<"volume", z, level>>

HandleVolumeFixedResponse(z, fixed) == <<"fixed", z, fixed>>

(***************************************************************************)
(* What the other controllers ask of a zone                                *)
(***************************************************************************)
AdjustZoneVolume(zone, by) ==
  Stored(IF by < 0 THEN OutputDecreaseVolume(zone) ELSE OutputIncreaseVolume(zone))

\* SetZoneMute, but nothing is marked for saving.
SetZoneMuteUnmarked(zone, mute) ==
  [Stored(OutputSetMute(zone, mute)) EXCEPT !.dirty = FALSE]

SetZoneMute(zone, mute) == Stored(OutputSetMute(zone, mute))

SetZoneVolume(zone, level) == Stored(OutputSetVolume(zone, level))

SetZoneSource(zone, s) == Stored(ZoneSetSource(zone, s))

\* The one change that never makes the configuration dirty.
ToggleZoneMute(zone) ==
  [Stored(OutputToggleMute(zone)) EXCEPT !.dirty = FALSE]

(***************************************************************************)
(* Steps several requests share                                            *)
(***************************************************************************)
\* A request that implies a mute or a sound mode announces only a change; a
\* request for the mute or the mode itself is always answered.
HandleSetMute(conditionally, zone, z, mute) ==
  LET o == SetZoneMute(zone, mute)
  IN IF conditionally
     THEN SayIfChanged(HandleMuteResponse(z, mute), o)
     ELSE Say(HandleMuteResponse(z, mute), o)

HandleSetMuteConditionally(zone, z, mute) ==
  HandleSetMute(TRUE, zone, z, mute)

\* A mute that is set already is not answered.
HandleSetMuteChangeOnly(zone, z, mute) == HandleSetMute(TRUE, zone, z, mute)

HandleSetMuteUnconditionally(zone, z, mute) ==
  HandleSetMute(FALSE, zone, z, mute)

HandleSetSoundMode(conditionally, zone, z, mode) ==
  LET o == Stored(ZoneSetSoundMode(zone, mode))
  IN IF conditionally
     THEN SayIfChanged(HandleSoundModeResponse(z, mode), o)
     ELSE Say(HandleSoundModeResponse(z, mode), o)

HandleSetSoundModeConditionally(zone, z, mode) ==
  HandleSetSoundMode(TRUE, zone, z, mode)

HandleSetSoundModeUnconditionally(zone, z, mode) ==
  HandleSetSoundMode(FALSE, zone, z, mode)

\* The balance from before the adjustment is answered.
HandleAdjustBalanceReceivedOldSaid(zone, z, toRight) ==
  Say(<<"balance", z, zone.balance>>,
      Stored(IF toRight
             THEN ZoneIncreaseBalanceRight(zone)
             ELSE ZoneIncreaseBalanceLeft(zone)))

HandleAdjustBalanceReceived(zone, z, toRight) ==
  LET o == Stored(IF toRight
                  THEN ZoneIncreaseBalanceRight(zone)
                  ELSE ZoneIncreaseBalanceLeft(zone))
  IN Say(<<"balance", z, o.zone.balance>>, o)

HandleSetBalanceReceived(zone, z, balance) ==
  Say(<<"balance", z, balance>>, Stored(ZoneSetBalance(zone, balance)))

\* The line of a tone holds both levels: without a treble there is no answer
\* to a changed bass but the error.
AdjustBassOnly(zone, z, by) ==
  LET o == Stored(IF by < 0 THEN ZoneDecreaseBass(zone) ELSE ZoneIncreaseBass(zone))
  IN IF ~Failed(o) /\ Failed(ZoneGetTreble(zone))
     THEN [o EXCEPT !.status = "null"]
     ELSE Say(HandleToneResponse(z, o.zone.tone), o)

AdjustTrebleOnly(zone, z, by) ==
  LET o == Stored(IF by < 0 THEN ZoneDecreaseTreble(zone) ELSE ZoneIncreaseTreble(zone))
  IN IF ~Failed(o) /\ Failed(ZoneGetBass(zone))
     THEN [o EXCEPT !.status = "null"]
     ELSE Say(HandleToneResponse(z, o.zone.tone), o)

HandleAdjustBassReceived(zone, z, by) ==
  LET o == HandleSetSoundModeConditionally(zone, z, "tone")
  IN Joined(o, AdjustBassOnly(o.zone, z, by))

HandleAdjustTrebleReceived(zone, z, by) ==
  LET o == HandleSetSoundModeConditionally(zone, z, "tone")
  IN Joined(o, AdjustTrebleOnly(o.zone, z, by))

HandleAdjustVolumeReceived(zone, z, by) ==
  LET o == AdjustZoneVolume(zone, by)
  IN Say(HandleVolumeResponse(z, o.zone.volume), o)

\* Setting the volume that is already set ends without a line.
HandleSetVolumeReceived(zone, z, level) ==
  SayIfChanged(HandleVolumeResponse(z, level), SetZoneVolume(zone, level))

AdjustBandOnly(zone, z, b, by) ==
  LET band == ZoneGetEqualizerBand(zone, b)
      r == IF by < 0 THEN DecreaseLevel(band.value) ELSE IncreaseLevel(band.value)
  IN IF Failed(band)
     THEN RefuseZone(zone, band.status)
     ELSE Say(HandleEqualizerBandResponse(z, b, r.value),
              Stored(SetBand(zone, b, r)))

HandleAdjustEqualizerBandReceived(zone, z, b, by) ==
  LET o == HandleSetSoundModeConditionally(zone, z, "equalizer")
  IN Joined(o, AdjustBandOnly(o.zone, z, b, by))

\* What SetLevel returns is thrown away: a level outside the limits is
\* answered as if it were set.
HandleSetEqualizerBandReceived(zone, z, b, level) ==
  LET band == ZoneGetEqualizerBand(zone, b)
  IN IF Failed(band)
     THEN RefuseZone(zone, band.status)
     ELSE [status |-> "success",
           zone |-> SetBand(zone, b, SetLevel(band.value, level)).value,
           lines |-> <<HandleEqualizerBandResponse(z, b, level)>>,
           dirty |-> TRUE]

(***************************************************************************)
(* Requests                                                                *)
(***************************************************************************)
AdjustBalanceRequest(zone, z, toRight) ==
  HandleAdjustBalanceReceived(zone, z, toRight)

DecreaseBassRequest(zone, z) == HandleAdjustBassReceived(zone, z, -1)

IncreaseBassRequest(zone, z) == HandleAdjustBassReceived(zone, z, 1)

DecreaseTrebleRequest(zone, z) == HandleAdjustTrebleReceived(zone, z, -1)

IncreaseTrebleRequest(zone, z) == HandleAdjustTrebleReceived(zone, z, 1)

DecreaseEqualizerBandRequest(zone, z, b) ==
  HandleAdjustEqualizerBandReceived(zone, z, b, -1)

IncreaseEqualizerBandRequest(zone, z, b) ==
  HandleAdjustEqualizerBandReceived(zone, z, b, 1)

DecreaseVolumeRequest(zone, z) ==
  LET o == HandleSetMuteConditionally(zone, z, FALSE)
  IN Joined(o, HandleAdjustVolumeReceived(o.zone, z, -1))

IncreaseVolumeRequest(zone, z) ==
  LET o == HandleSetMuteConditionally(zone, z, FALSE)
  IN Joined(o, HandleAdjustVolumeReceived(o.zone, z, 1))

MuteRequest(zone, z, mute) == HandleSetMuteUnconditionally(zone, z, mute)

\* The direction of a request is a channel: to the left counts as negative.
SetBalanceRequest(zone, z, balance) ==
  HandleSetBalanceReceived(zone, z, balance)

SetEqualizerBandRequest(zone, z, b, level) ==
  LET o == HandleSetSoundModeConditionally(zone, z, "equalizer")
  IN Joined(o, HandleSetEqualizerBandReceived(o.zone, z, b, level))

SetEqualizerPresetRequest(zone, z, preset) ==
  LET o == HandleSetSoundModeConditionally(zone, z, "preset")
      set == Stored(ZoneSetEqualizerPreset(o.zone, preset))
  IN IF ValidateIdentifier(preset, EqualizerPresetsMax) # "success"
     THEN RefuseZone(zone, "range")
     ELSE Joined(o, Say(HandleEqualizerPresetResponse(z, preset), set))

SetHighpassCrossoverRequest(zone, z, frequency) ==
  LET o == HandleSetSoundModeConditionally(zone, z, "highpass")
      set == Stored(ZoneSetHighpassFrequency(o.zone, frequency))
  IN Joined(o, Say(HandleHighpassCrossoverResponse(z, frequency), set))

SetLowpassCrossoverRequest(zone, z, frequency) ==
  LET o == HandleSetSoundModeConditionally(zone, z, "lowpass")
      set == Stored(ZoneSetLowpassFrequency(o.zone, frequency))
  IN Joined(o, Say(HandleLowpassCrossoverResponse(z, frequency), set))

\* The name answered is the one asked for, stored or not.
SetZoneNameRequest(zone, z, name) ==
  Say(<<"name", z, name>>, Stored(OutputSetName(zone, name)))

SetSoundModeRequest(zone, z, mode) ==
  HandleSetSoundModeUnconditionally(zone, z, mode)

SetSourceRequest(zone, z, s) ==
  IF ValidateIdentifier(s, SourcesMax) # "success"
  THEN RefuseZone(zone, "range")
  ELSE Say(<<"source", z, s>>, SetZoneSource(zone, s))

SetToneRequest(zone, z, tone) ==
  LET o == HandleSetSoundModeConditionally(zone, z, "tone")
      set == Stored(ZoneSetTone(o.zone, tone))
  IN Joined(o, Say(HandleToneResponse(z, tone), set))

SetVolumeRequest(zone, z, level) ==
  LET o == HandleSetMuteConditionally(zone, z, FALSE)
  IN Joined(o, HandleSetVolumeReceived(o.zone, z, level))

SetVolumeFixedRequest(zone, z, fixed) ==
  Say(HandleVolumeFixedResponse(z, fixed), Stored(ZoneSetVolumeFixed(zone, fixed)))

ToggleMuteRequest(zone, z) ==
  LET o == ToggleZoneMute(zone) IN Say(HandleMuteResponse(z, o.zone.mute), o)

(***************************************************************************)
(* Requests for all zones: one zone after the other, up to the first error *)
(***************************************************************************)
\* o is the outcome of each zone, had the ones before it not failed.
EachZone(zones, o) ==
  LET failed == {z \in DOMAIN zones : Failed(o[z])}
      reached == {z \in DOMAIN zones : \A f \in failed : z <= f}
      last == CHOOSE z \in reached : \A y \in reached : y <= z
  IN [status |-> o[last].status,
      zones |-> [z \in DOMAIN zones |-> IF z \in reached
                                        THEN o[z].zone
                                        ELSE zones[z]],
      lines |-> FlattenSeq([z \in 1..last |-> o[z].lines]),
      dirty |-> \E z \in reached : o[z].dirty]

SetSourceAllRequest(zones, s) ==
  IF ValidateIdentifier(s, SourcesMax) # "success"
  THEN [status |-> "range", zones |-> zones, lines |-> <<>>, dirty |-> FALSE]
  ELSE Say(<<"source all", s>>,
           EachZone(zones,
                    [z \in DOMAIN zones |-> SetZoneSource(zones[z], s)]))

\* A muted zone is unmuted, and announced, before the volume is even looked
\* at.
SetVolumeAllRequest(zones, level) ==
  LET unmuted ==
        [z \in DOMAIN zones |-> HandleSetMuteConditionally(zones[z], z, FALSE)]
  IN Say(<<"volume all", level>>,
         EachZone(zones,
                  [z \in DOMAIN zones |->
                     Joined(unmuted[z],
                            SetZoneVolume(unmuted[z].zone, level))]))

(***************************************************************************)
(* Queries                                                                 *)
(***************************************************************************)
\* The line of a value, if that is known.
AnswerKnown(zone, get, line) ==
  IF Failed(get)
  THEN RefuseZone(zone, get.status)
  ELSE [Silent(zone) EXCEPT !.lines = <<line>>]

HandleQueryNameReceived(zone, z) ==
  AnswerKnown(zone, OutputGetName(zone), <<"name", z, zone.name>>)

HandleQuerySource(zone, z) ==
  AnswerKnown(zone, ZoneGetSource(zone), <<"source", z, zone.source>>)

HandleQueryVolume(zone, z) ==
  AnswerKnown(zone, OutputGetVolume(zone), HandleVolumeResponse(z, zone.volume))

HandleQueryVolumeFixed(zone, z) ==
  AnswerKnown(zone, ZoneGetVolumeFixed(zone),
              HandleVolumeFixedResponse(z, zone.fixed))

HandleQueryMute(zone, z) ==
  AnswerKnown(zone, OutputGetMute(zone), HandleMuteResponse(z, zone.mute))

HandleQueryBalanceReceived(zone, z) ==
  AnswerKnown(zone, ZoneGetBalance(zone), <<"balance", z, zone.balance>>)

HandleQueryTone(zone, z) ==
  AnswerKnown(zone, ZoneGetTone(zone), HandleToneResponse(z, zone.tone))

HandleQueryEqualizerPreset(zone, z) ==
  AnswerKnown(zone, ZoneGetEqualizerPreset(zone),
              HandleEqualizerPresetResponse(z, zone.preset))

HandleQueryLowpassCrossover(zone, z) ==
  AnswerKnown(zone, ZoneGetLowpassFrequency(zone),
              HandleLowpassCrossoverResponse(z, zone.lowpass))

HandleQueryHighpassCrossover(zone, z) ==
  AnswerKnown(zone, ZoneGetHighpassFrequency(zone),
              HandleHighpassCrossoverResponse(z, zone.highpass))

\* A band that is not known keeps all from being answered.
HandleQueryZoneEqualizer(zone, z) ==
  LET level == [b \in Bands |-> GetLevel(ZoneGetEqualizerBand(zone, b).value)]
  IN IF \E b \in Bands : Failed(level[b])
     THEN RefuseZone(zone, "null")
     ELSE [Silent(zone) EXCEPT !.lines =
             [b \in Bands |-> HandleEqualizerBandResponse(z, b, level[b].value)]]

\* The sound mode, and what belongs to the current one.
HandleQuerySoundMode(zone, z) ==
  LET mode == AnswerKnown(zone, ZoneGetSoundMode(zone),
                          HandleSoundModeResponse(z, zone.mode))
      parameters ==
        CASE zone.mode = "equalizer" -> HandleQueryZoneEqualizer(zone, z)
          [] zone.mode = "preset" -> HandleQueryEqualizerPreset(zone, z)
          [] zone.mode = "tone" -> HandleQueryTone(zone, z)
          [] zone.mode = "lowpass" -> HandleQueryLowpassCrossover(zone, z)
          [] zone.mode = "highpass" -> HandleQueryHighpassCrossover(zone, z)
          [] OTHER -> Silent(zone)
  IN Joined(mode, parameters)

\* A query of the configuration also tells whether the volume is fixed.
HandleQueryReceived(isConfiguration, zone, z) ==
  LET source == Joined(HandleQueryNameReceived(zone, z),
                       HandleQuerySource(zone, z))
      volume == Joined(source, HandleQueryVolume(zone, z))
      fixed == IF isConfiguration
               THEN Joined(volume, HandleQueryVolumeFixed(zone, z))
               ELSE volume
      mute == Joined(fixed, HandleQueryMute(zone, z))
      mode == Joined(mute, HandleQuerySoundMode(zone, z))
  IN Joined(mode, HandleQueryBalanceReceived(zone, z))

QueryRequest(zone, z) ==
  Say(<<"zone query", z>>, HandleQueryReceived(FALSE, zone, z))

QueryMuteRequest(zone, z) == HandleQueryMute(zone, z)

QuerySourceRequest(zone, z) == HandleQuerySource(zone, z)

QueryVolumeRequest(zone, z) == HandleQueryVolume(zone, z)

(***************************************************************************)
(* The factory configuration                                               *)
(***************************************************************************)
\* Every value is set; a name of which the default is a beginning stays.
ResetZone(zone, z) ==
  LET new == ZoneDefaults[z]
      left == [new EXCEPT !.name = SetName(zone.name, new.name).value]
  IN [Silent(left) EXCEPT !.dirty = left # zone]

(***************************************************************************)
(* The backup: what is written of a zone, and what is made of it           *)
(***************************************************************************)
\* Only the parameters of the current sound mode are saved.
ModeParameters(mode) ==
  CASE mode = "equalizer" -> {"bands"}
    [] mode = "preset" -> {"preset"}
    [] mode = "tone" -> {"tone"}
    [] mode = "lowpass" -> {"lowpass"}
    [] mode = "highpass" -> {"highpass"}
    [] OTHER -> {}

VolumeFields == {"fixed", "mute", "volume"}

Values(zone, field) ==
  CASE field \in {"bands", "tone"} -> Range(zone[field])
    [] OTHER -> {zone[field]}

SavedFields(zone) ==
  {"balance", "name", "source", "mode"} \cup VolumeFields
    \cup ModeParameters(zone.mode)

\* A zone with a value that is not known is not saved.
CanSaveZone(zone) ==
  \A field \in SavedFields(zone) : Null \notin Values(zone, field)

SaveZone(zone) == Restrict(zone, SavedFields(zone))

LoadBands(zone, bands) ==
  LET r == [b \in Bands |-> SetLevel(zone.bands[b], bands[b])]
  IN [Silent([zone EXCEPT !.bands = [b \in Bands |-> r[b].value]])
        EXCEPT !.status = r[EqualizerBandsMax].status,
               !.dirty = \E b \in Bands : Changed(r[b])]

\* The test of the wrong variable: a loaded tone never makes dirty.
LoadTone(zone, tone) ==
  [Stored(ZoneSetTone(zone, tone)) EXCEPT !.dirty = FALSE]

LoadEqualizerPreset(zone, preset) ==
  Stored(ZoneSetEqualizerPreset(zone, preset))

LoadLowpassCrossover(zone, frequency) ==
  Stored(ZoneSetLowpassFrequency(zone, frequency))

LoadHighpassCrossover(zone, frequency) ==
  Stored(ZoneSetHighpassFrequency(zone, frequency))

LoadSoundMode(zone, saved) ==
  LET o == Stored(ZoneSetSoundMode(zone, saved.mode))
      parameters ==
        CASE saved.mode = "equalizer" -> LoadBands(o.zone, saved.bands)
          [] saved.mode = "preset" -> LoadEqualizerPreset(o.zone, saved.preset)
          [] saved.mode = "tone" -> LoadTone(o.zone, saved.tone)
          [] saved.mode = "lowpass" ->
               LoadLowpassCrossover(o.zone, saved.lowpass)
          [] saved.mode = "highpass" ->
               LoadHighpassCrossover(o.zone, saved.highpass)
          [] OTHER -> Silent(o.zone)
  IN Joined(o, parameters)

\* LoadVolume without the mute.
LoadVolumeMuteSkipped(zone, saved) ==
  LET fixed == Stored(ZoneSetVolumeFixed(zone, saved.fixed))
  IN Joined(fixed, SetZoneVolume(fixed.zone, saved.volume))

LoadVolume(zone, saved) ==
  LET fixed == Stored(ZoneSetVolumeFixed(zone, saved.fixed))
      mute == Joined(fixed, SetZoneMute(fixed.zone, saved.mute))
  IN Joined(mute, SetZoneVolume(mute.zone, saved.volume))

\* What the last setter returned is returned for the zone.
LoadZone(zone, saved) ==
  LET balance == Stored(ZoneSetBalance(zone, saved.balance))
      name == Joined(balance, Stored(OutputSetName(balance.zone, saved.name)))
      source == Joined(name, SetZoneSource(name.zone, saved.source))
      mode == Joined(source, LoadSoundMode(source.zone, saved))
  IN Joined(mode, LoadVolume(mode.zone, saved))
=============================================================================

--------------------------- MODULE Simulator_proofs ---------------------------
(***************************************************************************)
(* What hlxsimd saves and what it restores, for every number of zones and  *)
(* groups and all limits.                                                  *)
(***************************************************************************)
EXTENDS Simulator, TLAPS

Zones == ZonesWith({Null})

-----------------------------------------------------------------------------
(***************************************************************************)
(* Setters.  What is set is a value of its type, and only what changed is  *)
(* called a success.                                                       *)
(***************************************************************************)
\* The setter of a value.
SetsValue(r, old, S) == r.value \in S \cup {old} /\ (r.status # "success" => r.value = old)

\* The setter of a model made of values.
Sets(r, old, S) == r.value \in S /\ (r.status # "success" => r.value = old)

LEMMA ValueSetters ==
  ASSUME NEW S, NEW old, NEW new
  PROVE  /\ new \in S => SetsValue(Set(old, new), old, S)
         /\ SetsValue(SetWithin(S, old, new), old, S)
         /\ SetsValue(AdjustWithin(S, old, new), old, S)
BY DEF SetsValue, Set, SetWithin, AdjustWithin

LEMMA NameSetter ==
  ASSUME NEW old, NEW new \in Names
  PROVE  SetsValue(SetName(old, new), old, KeptNames)
<1>1. Len(new) \in Nat /\ NameLengthMax \in Nat
  BY NamesAssumption, RangesAssumption
<1>2. CASE Len(new) > NameLengthMax
  BY <1>2 DEF SetName, SetsValue
<1>3. CASE ~ Len(new) > NameLengthMax
  BY <1>1, <1>3 DEF SetName, SetsValue, KeptNames
<1>. QED  BY <1>2, <1>3

LEMMA ZoneFields ==
  ASSUME NEW zone \in Zones, NEW v
  PROVE  /\ v \in KeptNames \cup {Null} => [zone EXCEPT !.name = v] \in Zones
         /\ v \in 1..SourcesMax \cup {Null} => [zone EXCEPT !.source = v] \in Zones
         /\ v \in Volumes \cup {Null} => [zone EXCEPT !.volume = v] \in Zones
         /\ v \in BOOLEAN \cup {Null} => [zone EXCEPT !.mute = v] \in Zones
         /\ v \in BOOLEAN \cup {Null} => [zone EXCEPT !.fixed = v] \in Zones
         /\ v \in Balances \cup {Null} => [zone EXCEPT !.balance = v] \in Zones
         /\ v \in SoundModes \cup {Null} => [zone EXCEPT !.mode = v] \in Zones
         /\ v \in [Bands -> BandLevels \cup {Null}] => [zone EXCEPT !.bands = v] \in Zones
         /\ v \in 1..EqualizerPresetsMax \cup {Null} => [zone EXCEPT !.preset = v] \in Zones
         /\ v \in [bass : Tones \cup {Null}, treble : Tones \cup {Null}] => [zone EXCEPT !.tone = v] \in Zones
         /\ v \in Lowpasses \cup {Null} => [zone EXCEPT !.lowpass = v] \in Zones
         /\ v \in Highpasses \cup {Null} => [zone EXCEPT !.highpass = v] \in Zones
BY DEF Zones, ZonesWith

LEMMA ZoneKept ==
  ASSUME NEW zone \in Zones, NEW field \in DOMAIN zone
  PROVE  [zone EXCEPT ![field] = zone[field]] = zone
BY DEF Zones, ZonesWith

\* A field takes what the setter of its value left.
LEMMA FieldSetter ==
  ASSUME NEW zone \in Zones, NEW field \in DOMAIN zone, NEW r, NEW S,
         SetsValue(r, zone[field], S),
         r.value \in S \cup {zone[field]} => [zone EXCEPT ![field] = r.value] \in Zones
  PROVE  Sets(SetField(zone, field, r), zone, Zones)
<1>1. SetField(zone, field, r).value = [zone EXCEPT ![field] = r.value]
  BY DEF SetField
<1>2. SetField(zone, field, r).status = r.status
  BY DEF SetField
<1>. QED  BY <1>1, <1>2, ZoneKept DEF SetsValue, Sets

\* The values of a zone.
LEMMA ZoneHas ==
  ASSUME NEW zone \in Zones
  PROVE  /\ DOMAIN zone = {"name", "source", "volume", "mute", "fixed", "balance",
                          "mode", "bands", "preset", "tone", "lowpass", "highpass"}
         /\ zone.name \in KeptNames \cup {Null}
         /\ zone.source \in 1..SourcesMax \cup {Null}
         /\ zone.volume \in Volumes \cup {Null}
         /\ zone.mute \in BOOLEAN \cup {Null}
         /\ zone.fixed \in BOOLEAN \cup {Null}
         /\ zone.balance \in Balances \cup {Null}
         /\ zone.mode \in SoundModes \cup {Null}
         /\ zone.bands \in [Bands -> BandLevels \cup {Null}]
         /\ zone.preset \in 1..EqualizerPresetsMax \cup {Null}
         /\ zone.tone \in [bass : Tones \cup {Null}, treble : Tones \cup {Null}]
         /\ zone.lowpass \in Lowpasses \cup {Null}
         /\ zone.highpass \in Highpasses \cup {Null}
BY DEF Zones, ZonesWith

LEMMA OutputSetters ==
  ASSUME NEW zone \in Zones
  PROVE  /\ Sets(OutputDecreaseVolume(zone), zone, Zones)
         /\ Sets(OutputIncreaseVolume(zone), zone, Zones)
         /\ \A level : Sets(OutputSetVolume(zone, level), zone, Zones)
         /\ \A mute \in BOOLEAN : Sets(OutputSetMute(zone, mute), zone, Zones)
         /\ Sets(OutputToggleMute(zone), zone, Zones)
         /\ \A name \in Names : Sets(OutputSetName(zone, name), zone, Zones)
<1>1. {"volume", "mute", "name"} \subseteq DOMAIN zone
  BY ZoneHas
<1>2. \A r : SetsValue(r, zone.volume, Volumes) => Sets(SetField(zone, "volume", r), zone, Zones)
  BY <1>1, FieldSetter, ZoneFields, ZoneHas
<1>3. \A r : SetsValue(r, zone.mute, BOOLEAN) => Sets(SetField(zone, "mute", r), zone, Zones)
  BY <1>1, FieldSetter, ZoneFields, ZoneHas
<1>4. \A r : SetsValue(r, zone.name, KeptNames) => Sets(SetField(zone, "name", r), zone, Zones)
  BY <1>1, FieldSetter, ZoneFields, ZoneHas
<1>5. SetsValue(ToggleMute(zone.mute), zone.mute, BOOLEAN)
  BY ZoneHas DEF ToggleMute, SetsValue
<1>. QED
  BY <1>2, <1>3, <1>4, <1>5, ValueSetters, NameSetter
  DEF OutputDecreaseVolume, DecreaseVolume, OutputIncreaseVolume, IncreaseVolume, AdjustVolume,
      OutputSetVolume, SetVolume, OutputSetMute, SetMute, OutputToggleMute, OutputSetName

LEMMA ZoneSetters ==
  ASSUME NEW zone \in Zones
  PROVE  /\ \A s \in 1..SourcesMax : Sets(ZoneSetSource(zone, s), zone, Zones)
         /\ \A fixed \in BOOLEAN : Sets(ZoneSetVolumeFixed(zone, fixed), zone, Zones)
         /\ Sets(ZoneIncreaseBalanceLeft(zone), zone, Zones)
         /\ Sets(ZoneIncreaseBalanceRight(zone), zone, Zones)
         /\ \A balance : Sets(ZoneSetBalance(zone, balance), zone, Zones)
<1>1. {"source", "fixed", "balance"} \subseteq DOMAIN zone
  BY ZoneHas
<1>2. \A r : SetsValue(r, zone.source, 1..SourcesMax) => Sets(SetField(zone, "source", r), zone, Zones)
  BY <1>1, FieldSetter, ZoneFields, ZoneHas
<1>3. \A r : SetsValue(r, zone.fixed, BOOLEAN) => Sets(SetField(zone, "fixed", r), zone, Zones)
  BY <1>1, FieldSetter, ZoneFields, ZoneHas
<1>4. \A r : SetsValue(r, zone.balance, Balances) => Sets(SetField(zone, "balance", r), zone, Zones)
  BY <1>1, FieldSetter, ZoneFields, ZoneHas
<1>5. \A s \in 1..SourcesMax : SetsValue(SetIdentifier(zone.source, s), zone.source, 1..SourcesMax)
  BY ValueSetters, RangesAssumption DEF SetIdentifier
<1>. QED
  BY <1>2, <1>3, <1>4, <1>5, ValueSetters
  DEF ZoneSetSource, ZoneSetVolumeFixed, SetFixed, ZoneIncreaseBalanceLeft, ZoneIncreaseBalanceRight,
      IncreaseBalanceLeft, IncreaseBalanceRight, AdjustBalance, ZoneSetBalance, SetBalance

LEMMA ToneSetters ==
  ASSUME NEW tone \in [bass : Tones \cup {Null}, treble : Tones \cup {Null}]
  PROVE  LET S == [bass : Tones \cup {Null}, treble : Tones \cup {Null}]
         IN  /\ SetsValue(DecreaseBass(tone), tone, S)
             /\ SetsValue(IncreaseBass(tone), tone, S)
             /\ SetsValue(DecreaseTreble(tone), tone, S)
             /\ SetsValue(IncreaseTreble(tone), tone, S)
             /\ \A bass, treble :
                  SetsValue(SetTone(tone, [bass |-> bass, treble |-> treble]), tone, S)
<1> DEFINE S == [bass : Tones \cup {Null}, treble : Tones \cup {Null}]
<1>1. \A by : /\ SetsValue(AdjustWithin(Tones, tone.bass, by), tone.bass, Tones)
              /\ SetsValue(AdjustWithin(Tones, tone.treble, by), tone.treble, Tones)
  BY ValueSetters
<1>2. \A r : SetsValue(r, tone.bass, Tones) => SetsValue(SetField(tone, "bass", r), tone, S)
  BY DEF SetsValue, SetField
<1>3. \A r : SetsValue(r, tone.treble, Tones) => SetsValue(SetField(tone, "treble", r), tone, S)
  BY DEF SetsValue, SetField
<1>4. ASSUME NEW bass, NEW treble
      PROVE  SetsValue(SetTone(tone, [bass |-> bass, treble |-> treble]), tone, S)
  <2>1. CASE bass \in Tones /\ treble \in Tones
    BY <2>1 DEF SetTone, SetBass, SetTreble, SetWithin, Set, Failed, SetsValue
  <2>2. CASE ~ (bass \in Tones /\ treble \in Tones)
    BY <2>2 DEF SetTone, SetBass, SetTreble, SetWithin, Set, Failed, SetsValue
  <2>. QED  BY <2>1, <2>2
<1>. QED
  BY <1>1, <1>2, <1>3, <1>4
  DEF DecreaseBass, IncreaseBass, DecreaseTreble, IncreaseTreble, AdjustBass, AdjustTreble

LEMMA SoundSetters ==
  ASSUME NEW zone \in Zones
  PROVE  /\ \A mode : Sets(ZoneSetSoundMode(zone, mode), zone, Zones)
         /\ Sets(ZoneDecreaseBass(zone), zone, Zones)
         /\ Sets(ZoneIncreaseBass(zone), zone, Zones)
         /\ Sets(ZoneDecreaseTreble(zone), zone, Zones)
         /\ Sets(ZoneIncreaseTreble(zone), zone, Zones)
         /\ \A bass, treble : Sets(ZoneSetTone(zone, [bass |-> bass, treble |-> treble]), zone, Zones)
         /\ \A p \in 1..EqualizerPresetsMax : Sets(ZoneSetEqualizerPreset(zone, p), zone, Zones)
         /\ \A f : Sets(ZoneSetHighpassFrequency(zone, f), zone, Zones)
         /\ \A f : Sets(ZoneSetLowpassFrequency(zone, f), zone, Zones)
<1> DEFINE S == [bass : Tones \cup {Null}, treble : Tones \cup {Null}]
<1>1. {"mode", "tone", "preset", "highpass", "lowpass"} \subseteq DOMAIN zone
  BY ZoneHas
<1>2. \A r : SetsValue(r, zone.mode, SoundModes) => Sets(SetField(zone, "mode", r), zone, Zones)
  BY <1>1, FieldSetter, ZoneFields, ZoneHas
<1>3. \A r : SetsValue(r, zone.tone, S) => Sets(SetField(zone, "tone", r), zone, Zones)
  <2>1. ASSUME NEW r, SetsValue(r, zone.tone, S) PROVE r.value \in S
    BY <2>1, ZoneHas DEF SetsValue
  <2>2. \A v \in S : [zone EXCEPT !.tone = v] \in Zones
    BY ZoneFields
  <2>. QED  BY <1>1, <2>1, <2>2, FieldSetter
<1>4. \A r : SetsValue(r, zone.preset, 1..EqualizerPresetsMax)
             => Sets(SetField(zone, "preset", r), zone, Zones)
  BY <1>1, FieldSetter, ZoneFields, ZoneHas
<1>5. \A r : SetsValue(r, zone.highpass, Highpasses) => Sets(SetField(zone, "highpass", r), zone, Zones)
  BY <1>1, FieldSetter, ZoneFields, ZoneHas
<1>6. \A r : SetsValue(r, zone.lowpass, Lowpasses) => Sets(SetField(zone, "lowpass", r), zone, Zones)
  BY <1>1, FieldSetter, ZoneFields, ZoneHas
<1>7. \A mode : SetsValue(SetSoundMode(zone.mode, mode), zone.mode, SoundModes)
  BY ValueSetters DEF SetSoundMode, SetsValue
<1>8. \A p \in 1..EqualizerPresetsMax :
        SetsValue(SetIdentifier(zone.preset, p), zone.preset, 1..EqualizerPresetsMax)
  BY ValueSetters, RangesAssumption DEF SetIdentifier
<1>9. /\ SetsValue(DecreaseBass(zone.tone), zone.tone, S)
      /\ SetsValue(IncreaseBass(zone.tone), zone.tone, S)
      /\ SetsValue(DecreaseTreble(zone.tone), zone.tone, S)
      /\ SetsValue(IncreaseTreble(zone.tone), zone.tone, S)
      /\ \A bass, treble :
           SetsValue(SetTone(zone.tone, [bass |-> bass, treble |-> treble]), zone.tone, S)
  BY ZoneHas, ToneSetters
<1>10. \A mode : Sets(ZoneSetSoundMode(zone, mode), zone, Zones)
  BY <1>2, <1>7 DEF ZoneSetSoundMode, SoundSetSoundMode
<1>11. /\ Sets(ZoneDecreaseBass(zone), zone, Zones)
       /\ Sets(ZoneIncreaseBass(zone), zone, Zones)
       /\ Sets(ZoneDecreaseTreble(zone), zone, Zones)
       /\ Sets(ZoneIncreaseTreble(zone), zone, Zones)
       /\ \A bass, treble : Sets(ZoneSetTone(zone, [bass |-> bass, treble |-> treble]), zone, Zones)
  BY <1>3, <1>9
  DEF ZoneDecreaseBass, ZoneIncreaseBass, ZoneDecreaseTreble, ZoneIncreaseTreble, ZoneSetTone,
      SoundDecreaseBass, SoundIncreaseBass, SoundDecreaseTreble, SoundIncreaseTreble, SoundSetTone
<1>12. \A p \in 1..EqualizerPresetsMax : Sets(ZoneSetEqualizerPreset(zone, p), zone, Zones)
  BY <1>4, <1>8 DEF ZoneSetEqualizerPreset, SoundSetEqualizerPreset
<1>13. /\ \A f : Sets(ZoneSetHighpassFrequency(zone, f), zone, Zones)
       /\ \A f : Sets(ZoneSetLowpassFrequency(zone, f), zone, Zones)
  BY <1>5, <1>6, ValueSetters
  DEF ZoneSetHighpassFrequency, SoundSetHighpassFrequency, SetHighpassFrequency,
      ZoneSetLowpassFrequency, SoundSetLowpassFrequency, SetLowpassFrequency
<1>. QED  BY <1>10, <1>11, <1>12, <1>13

\* The level of a band of a zone or of an equalizer preset.
LEMMA BandSetter ==
  ASSUME NEW S, NEW model \in S, NEW b \in DOMAIN model.bands, NEW r,
         SetsValue(r, model.bands[b], BandLevels),
         {"bands"} \subseteq DOMAIN model, model = [f \in DOMAIN model |-> model[f]],
         model.bands \in [Bands -> BandLevels \cup {Null}],
         \A v \in [Bands -> BandLevels \cup {Null}] : [model EXCEPT !.bands = v] \in S
  PROVE  Sets(SetBand(model, b, r), model, S)
<1> DEFINE v == [model.bands EXCEPT ![b] = r.value]
<1>1. v \in [Bands -> BandLevels \cup {Null}]
  BY DEF SetsValue
<1>2. SetBand(model, b, r).value = [model EXCEPT !.bands = v]
  BY DEF SetBand
<1>3. SetBand(model, b, r).status = r.status
  BY DEF SetBand
<1>4. ASSUME r.status # "success" PROVE [model EXCEPT !.bands = v] = model
  <2>1. v = model.bands
    BY <1>4 DEF SetsValue
  <2>. QED  BY <2>1
<1>. QED  BY <1>1, <1>2, <1>3, <1>4 DEF Sets

-----------------------------------------------------------------------------
(***************************************************************************)
(* Requests to a zone.  One that leaves the zone other than it was says so *)
(* with dirty.                                                             *)
(***************************************************************************)
ZoneOutcome(o) ==
  /\ DOMAIN o = {"status", "zone", "lines", "dirty"}
  /\ o.zone \in Zones /\ o.dirty \in BOOLEAN

Honest(o, zone) == ZoneOutcome(o) /\ (~ o.dirty => o.zone = zone)

LEMMA HonestSetter ==
  ASSUME NEW zone \in Zones, NEW r, Sets(r, zone, Zones)
  PROVE  Honest(Stored(r), zone)
BY DEF Sets, Stored, Changed, Honest, ZoneOutcome

LEMMA HonestKept ==
  ASSUME NEW zone \in Zones, NEW status
  PROVE  Honest(Silent(zone), zone) /\ Honest(RefuseZone(zone, status), zone)
BY DEF Silent, RefuseZone, Honest, ZoneOutcome

LEMMA OutcomeSaid ==
  ASSUME NEW o, ZoneOutcome(o), NEW line
  PROVE  /\ ZoneOutcome(Say(line, o)) /\ ZoneOutcome(SayIfChanged(line, o))
         /\ Say(line, o).zone = o.zone /\ SayIfChanged(line, o).zone = o.zone
         /\ Say(line, o).dirty = o.dirty /\ SayIfChanged(line, o).dirty = o.dirty
<1>1. /\ ZoneOutcome(Say(line, o))
      /\ Say(line, o).zone = o.zone /\ Say(line, o).dirty = o.dirty
  BY DEF ZoneOutcome, Say
<1>. QED  BY <1>1 DEF SayIfChanged

LEMMA HonestSaid ==
  ASSUME NEW o, NEW zone, Honest(o, zone), NEW line
  PROVE  Honest(Say(line, o), zone) /\ Honest(SayIfChanged(line, o), zone)
BY OutcomeSaid DEF Honest

LEMMA OutcomeJoined ==
  ASSUME NEW o, ZoneOutcome(o), NEW p, ZoneOutcome(p)
  PROVE  /\ ZoneOutcome(Joined(o, p))
         /\ Joined(o, p).zone = IF Failed(o) THEN o.zone ELSE p.zone
         /\ Joined(o, p).dirty = IF Failed(o) THEN o.dirty ELSE o.dirty \/ p.dirty
         /\ Joined(o, p).status = IF Failed(o) THEN o.status ELSE p.status
BY DEF ZoneOutcome, Joined

LEMMA HonestJoined ==
  ASSUME NEW zone, NEW o, Honest(o, zone), NEW p, Honest(p, o.zone)
  PROVE  Honest(Joined(o, p), zone)
BY OutcomeJoined DEF Honest

LEMMA HonestShared ==
  ASSUME NEW zone \in Zones, NEW z
  PROVE  /\ \A mute \in BOOLEAN : /\ Honest(HandleSetMuteConditionally(zone, z, mute), zone)
                                  /\ Honest(HandleSetMuteUnconditionally(zone, z, mute), zone)
         /\ \A mode : /\ Honest(HandleSetSoundModeConditionally(zone, z, mode), zone)
                      /\ Honest(HandleSetSoundModeUnconditionally(zone, z, mode), zone)
<1>1. \A mute \in BOOLEAN : Honest(SetZoneMute(zone, mute), zone)
  BY OutputSetters, HonestSetter DEF SetZoneMute
<1>2. \A mode : Honest(Stored(ZoneSetSoundMode(zone, mode)), zone)
  BY SoundSetters, HonestSetter
<1>. QED
  BY <1>1, <1>2, HonestSaid
  DEF HandleSetMuteConditionally, HandleSetMuteUnconditionally, HandleSetMute,
      HandleSetSoundModeConditionally, HandleSetSoundModeUnconditionally, HandleSetSoundMode

LEMMA HonestBalance ==
  ASSUME NEW zone \in Zones, NEW z
  PROVE  /\ \A toRight \in BOOLEAN : Honest(AdjustBalanceRequest(zone, z, toRight), zone)
         /\ \A balance : Honest(SetBalanceRequest(zone, z, balance), zone)
BY ZoneSetters, HonestSetter, HonestSaid
DEF AdjustBalanceRequest, HandleAdjustBalanceReceived, SetBalanceRequest, HandleSetBalanceReceived

LEMMA HonestVolume ==
  ASSUME NEW zone \in Zones, NEW z
  PROVE  /\ Honest(DecreaseVolumeRequest(zone, z), zone)
         /\ Honest(IncreaseVolumeRequest(zone, z), zone)
         /\ \A level : Honest(SetVolumeRequest(zone, z, level), zone)
         /\ \A mute \in BOOLEAN : Honest(MuteRequest(zone, z, mute), zone)
<1> DEFINE o == HandleSetMuteConditionally(zone, z, FALSE)
<1>1. Honest(o, zone) /\ o.zone \in Zones
  BY HonestShared DEF Honest, ZoneOutcome
<1>2. /\ \A by : Honest(AdjustZoneVolume(o.zone, by), o.zone)
      /\ \A level : Honest(SetZoneVolume(o.zone, level), o.zone)
  BY <1>1, OutputSetters, HonestSetter DEF AdjustZoneVolume, SetZoneVolume
<1>3. /\ \A by : Honest(HandleAdjustVolumeReceived(o.zone, z, by), o.zone)
      /\ \A level : Honest(HandleSetVolumeReceived(o.zone, z, level), o.zone)
  BY <1>2, HonestSaid DEF HandleAdjustVolumeReceived, HandleSetVolumeReceived
<1>4. /\ \A by : Honest(Joined(o, HandleAdjustVolumeReceived(o.zone, z, by)), zone)
      /\ \A level : Honest(Joined(o, HandleSetVolumeReceived(o.zone, z, level)), zone)
  BY <1>1, <1>3, HonestJoined
<1>5. \A mute \in BOOLEAN : Honest(MuteRequest(zone, z, mute), zone)
  BY HonestShared DEF MuteRequest
<1>. QED
  BY <1>4, <1>5 DEF DecreaseVolumeRequest, IncreaseVolumeRequest, SetVolumeRequest

LEMMA HonestTone ==
  ASSUME NEW zone \in Zones, NEW z
  PROVE  /\ Honest(DecreaseBassRequest(zone, z), zone)
         /\ Honest(IncreaseBassRequest(zone, z), zone)
         /\ Honest(DecreaseTrebleRequest(zone, z), zone)
         /\ Honest(IncreaseTrebleRequest(zone, z), zone)
         /\ \A bass, treble :
              Honest(SetToneRequest(zone, z, [bass |-> bass, treble |-> treble]), zone)
<1> DEFINE o == HandleSetSoundModeConditionally(zone, z, "tone")
<1>1. Honest(o, zone) /\ o.zone \in Zones
  BY HonestShared DEF Honest, ZoneOutcome
<1>2. ASSUME NEW left \in Zones, NEW p, Honest(p, left)
      PROVE  Honest([p EXCEPT !.status = "null"], left)
  BY <1>2 DEF Honest, ZoneOutcome
<1>3. \A by : /\ Honest(AdjustBassOnly(o.zone, z, by), o.zone)
              /\ Honest(AdjustTrebleOnly(o.zone, z, by), o.zone)
  <2> TAKE by
  <2> DEFINE p == Stored(IF by < 0 THEN ZoneDecreaseBass(o.zone) ELSE ZoneIncreaseBass(o.zone))
             q == Stored(IF by < 0 THEN ZoneDecreaseTreble(o.zone) ELSE ZoneIncreaseTreble(o.zone))
  <2>1. Honest(p, o.zone) /\ Honest(q, o.zone)
    BY <1>1, SoundSetters, HonestSetter
  <2>2. Honest(AdjustBassOnly(o.zone, z, by), o.zone)
    BY <1>1, <1>2, <2>1, HonestSaid DEF AdjustBassOnly
  <2>3. Honest(AdjustTrebleOnly(o.zone, z, by), o.zone)
    BY <1>1, <1>2, <2>1, HonestSaid DEF AdjustTrebleOnly
  <2>. QED  BY <2>2, <2>3
<1>4. \A bass, treble :
        LET tone == [bass |-> bass, treble |-> treble]
        IN Honest(Say(HandleToneResponse(z, tone), Stored(ZoneSetTone(o.zone, tone))), o.zone)
  BY <1>1, SoundSetters, HonestSetter, HonestSaid
<1>5. \A p : Honest(p, o.zone) => Honest(Joined(o, p), zone)
  BY <1>1, HonestJoined
<1>. QED
  BY <1>3, <1>4, <1>5
  DEF DecreaseBassRequest, IncreaseBassRequest, DecreaseTrebleRequest, IncreaseTrebleRequest,
      HandleAdjustBassReceived, HandleAdjustTrebleReceived, SetToneRequest

LEMMA ZoneBandSetter ==
  ASSUME NEW zone \in Zones, NEW b \in Bands, NEW r,
         SetsValue(r, zone.bands[b], BandLevels)
  PROVE  Sets(SetBand(zone, b, r), zone, Zones)
<1>1. zone = [f \in DOMAIN zone |-> zone[f]]
  BY DEF Zones, ZonesWith
<1>2. b \in DOMAIN zone.bands /\ {"bands"} \subseteq DOMAIN zone
  BY ZoneHas
<1>3. zone.bands \in [Bands -> BandLevels \cup {Null}]
  BY ZoneHas
<1>4. \A v \in [Bands -> BandLevels \cup {Null}] : [zone EXCEPT !.bands = v] \in Zones
  BY ZoneFields
<1>. QED  BY <1>1, <1>2, <1>3, <1>4, BandSetter

LEMMA HonestBand ==
  ASSUME NEW zone \in Zones, NEW z, NEW b
  PROVE  /\ Honest(DecreaseEqualizerBandRequest(zone, z, b), zone)
         /\ Honest(IncreaseEqualizerBandRequest(zone, z, b), zone)
         /\ \A level : Honest(SetEqualizerBandRequest(zone, z, b, level), zone)
<1> DEFINE o == HandleSetSoundModeConditionally(zone, z, "equalizer")
           band == ZoneGetEqualizerBand(o.zone, b)
<1>1. Honest(o, zone) /\ o.zone \in Zones
  BY HonestShared DEF Honest, ZoneOutcome
<1>2. ~ Failed(band) => b \in Bands /\ band.value = o.zone.bands[b]
  BY DEF ZoneGetEqualizerBand, SoundGetEqualizerBand, GetEqualizerBand, IsValidIdentifier, Failed
<1>3. ASSUME NEW by, ~ Failed(band)
      PROVE  LET r == IF by < 0 THEN DecreaseLevel(band.value) ELSE IncreaseLevel(band.value)
             IN Honest(Stored(SetBand(o.zone, b, r)), o.zone)
  <2> DEFINE r == IF by < 0 THEN DecreaseLevel(band.value) ELSE IncreaseLevel(band.value)
  <2>1. SetsValue(r, o.zone.bands[b], BandLevels)
    BY <1>2, <1>3, ValueSetters DEF DecreaseLevel, IncreaseLevel, AdjustLevel
  <2>. HIDE DEF r
  <2>2. Sets(SetBand(o.zone, b, r), o.zone, Zones)
    BY <1>1, <1>2, <1>3, <2>1, ZoneBandSetter
  <2>3. Honest(Stored(SetBand(o.zone, b, r)), o.zone)
    BY <1>1, <2>2, HonestSetter
  <2>. QED  BY <2>3 DEF r
<1>4. \A by : Honest(AdjustBandOnly(o.zone, z, b, by), o.zone)
  <2> TAKE by
  <2>1. CASE Failed(band)
    BY <1>1, <2>1, HonestKept DEF AdjustBandOnly
  <2>2. CASE ~ Failed(band)
    BY <1>1, <1>3, <2>2, HonestSaid DEF AdjustBandOnly
  <2>. QED  BY <2>1, <2>2
<1>5. ASSUME NEW level PROVE Honest(HandleSetEqualizerBandReceived(o.zone, z, b, level), o.zone)
  <2>1. CASE Failed(band)
    BY <1>1, <2>1, HonestKept DEF HandleSetEqualizerBandReceived
  <2>2. CASE ~ Failed(band)
    <3>1. SetsValue(SetLevel(band.value, level), o.zone.bands[b], BandLevels)
      BY <1>2, <2>2, ValueSetters DEF SetLevel
    <3>2. SetBand(o.zone, b, SetLevel(band.value, level)).value \in Zones
      BY <1>1, <1>2, <2>2, <3>1, ZoneBandSetter DEF Sets
    <3>3. HandleSetEqualizerBandReceived(o.zone, z, b, level)
            = [status |-> "success",
               zone |-> SetBand(o.zone, b, SetLevel(band.value, level)).value,
               lines |-> <<HandleEqualizerBandResponse(z, b, level)>>,
               dirty |-> TRUE]
      BY <2>2 DEF HandleSetEqualizerBandReceived
    <3>. HIDE DEF o, band
    <3>4. \A p, q : p \in Zones => Honest([status |-> "success", zone |-> p, lines |-> q, dirty |-> TRUE], o.zone)
      BY DEF Honest, ZoneOutcome
    <3>. QED  BY <3>2, <3>3, <3>4
  <2>. QED  BY <2>1, <2>2
<1>6. \A p : Honest(p, o.zone) => Honest(Joined(o, p), zone)
  BY <1>1, HonestJoined
<1>. QED
  BY <1>4, <1>5, <1>6
  DEF DecreaseEqualizerBandRequest, IncreaseEqualizerBandRequest,
      HandleAdjustEqualizerBandReceived, SetEqualizerBandRequest

LEMMA HonestSoundMode ==
  ASSUME NEW zone \in Zones, NEW z
  PROVE  /\ \A mode : Honest(SetSoundModeRequest(zone, z, mode), zone)
         /\ \A preset : Honest(SetEqualizerPresetRequest(zone, z, preset), zone)
         /\ \A f : Honest(SetHighpassCrossoverRequest(zone, z, f), zone)
         /\ \A f : Honest(SetLowpassCrossoverRequest(zone, z, f), zone)
<1> DEFINE o(mode) == HandleSetSoundModeConditionally(zone, z, mode)
<1>1. \A mode : Honest(o(mode), zone) /\ o(mode).zone \in Zones
  BY HonestShared DEF Honest, ZoneOutcome
<1>2. \A mode, p : Honest(p, o(mode).zone) => Honest(Joined(o(mode), p), zone)
  BY <1>1, HonestJoined
<1>3. \A mode : Honest(SetSoundModeRequest(zone, z, mode), zone)
  BY HonestShared DEF SetSoundModeRequest
<1>4. ASSUME NEW preset PROVE Honest(SetEqualizerPresetRequest(zone, z, preset), zone)
  <2>1. CASE preset \in 1..EqualizerPresetsMax
    <3>1. Honest(Stored(ZoneSetEqualizerPreset(o("preset").zone, preset)), o("preset").zone)
      BY <1>1, <2>1, SoundSetters, HonestSetter
    <3>2. Honest(Say(HandleEqualizerPresetResponse(z, preset),
                     Stored(ZoneSetEqualizerPreset(o("preset").zone, preset))), o("preset").zone)
      BY <3>1, HonestSaid
    <3>. QED  BY <1>2, <2>1, <3>2 DEF SetEqualizerPresetRequest, ValidateIdentifier
  <2>2. CASE preset \notin 1..EqualizerPresetsMax
    BY <2>2, HonestKept DEF SetEqualizerPresetRequest, ValidateIdentifier
  <2>. QED  BY <2>1, <2>2
<1>5. ASSUME NEW f PROVE Honest(SetHighpassCrossoverRequest(zone, z, f), zone)
  BY <1>1, <1>2, SoundSetters, HonestSetter, HonestSaid DEF SetHighpassCrossoverRequest
<1>6. ASSUME NEW f PROVE Honest(SetLowpassCrossoverRequest(zone, z, f), zone)
  BY <1>1, <1>2, SoundSetters, HonestSetter, HonestSaid DEF SetLowpassCrossoverRequest
<1>. QED  BY <1>3, <1>4, <1>5, <1>6

LEMMA HonestOther ==
  ASSUME NEW zone \in Zones, NEW z
  PROVE  /\ \A fixed \in BOOLEAN : Honest(SetVolumeFixedRequest(zone, z, fixed), zone)
         /\ \A s : Honest(SetSourceRequest(zone, z, s), zone)
         /\ \A name \in Names : Honest(SetZoneNameRequest(zone, z, name), zone)
<1>1. \A fixed \in BOOLEAN : Honest(SetVolumeFixedRequest(zone, z, fixed), zone)
  BY ZoneSetters, HonestSetter, HonestSaid DEF SetVolumeFixedRequest
<1>2. ASSUME NEW s PROVE Honest(SetSourceRequest(zone, z, s), zone)
  <2>1. CASE s \in 1..SourcesMax
    BY <2>1, ZoneSetters, HonestSetter, HonestSaid DEF SetSourceRequest, ValidateIdentifier, SetZoneSource
  <2>2. CASE s \notin 1..SourcesMax
    BY <2>2, HonestKept DEF SetSourceRequest, ValidateIdentifier
  <2>. QED  BY <2>1, <2>2
<1>3. \A name \in Names : Honest(SetZoneNameRequest(zone, z, name), zone)
  BY OutputSetters, HonestSetter, HonestSaid DEF SetZoneNameRequest
<1>. QED  BY <1>1, <1>2, <1>3

LEMMA AskDoes == \A call, forward, does : Ask(call, forward, does).does = does
BY DEF Ask

\* Every request to a zone but a query and a toggle of the mute.
LEMMA HonestRequests ==
  ASSUME NEW zone \in Zones, NEW z, NEW r \in ZoneRequests(zone, z)
  PROVE  Honest(r.does, zone)
<1>1. CASE r \in BandRequests(zone, z)
  <2>1. \/ \E b : r.does = DecreaseEqualizerBandRequest(zone, z, b)
        \/ \E b : r.does = IncreaseEqualizerBandRequest(zone, z, b)
        \/ \E b, level : r.does = SetEqualizerBandRequest(zone, z, b, level)
    BY <1>1, AskDoes DEF BandRequests
  <2>. QED  BY <2>1, HonestBand
<1>2. CASE r \in ToneRequests(zone, z)
  <2>1. \/ r.does \in {DecreaseBassRequest(zone, z), IncreaseBassRequest(zone, z)}
        \/ r.does \in {DecreaseTrebleRequest(zone, z), IncreaseTrebleRequest(zone, z)}
        \/ \E bass, treble \in Tried(Tones) :
             r = Ask(C!SetTone(z), P!ZoneVolumeRequests.SetTone,
                     SetToneRequest(zone, z, [bass |-> bass, treble |-> treble]))
    BY <1>2, AskDoes DEF ToneRequests
  <2>2. ASSUME NEW bass, NEW treble,
               r = Ask(C!SetTone(z), P!ZoneVolumeRequests.SetTone,
                       SetToneRequest(zone, z, [bass |-> bass, treble |-> treble]))
        PROVE  Honest(r.does, zone)
    <3>1. r.does = SetToneRequest(zone, z, [bass |-> bass, treble |-> treble])
      BY <2>2, AskDoes
    <3>. QED  BY <3>1, HonestTone
  <2>. QED  BY <2>1, <2>2, HonestTone
<1>3. CASE r \in SoundModeRequests(zone, z)
  <2>1. \/ \E mode : r.does = SetSoundModeRequest(zone, z, mode)
        \/ \E p : r.does = SetEqualizerPresetRequest(zone, z, p)
        \/ \E f : r.does = SetHighpassCrossoverRequest(zone, z, f)
        \/ \E f : r.does = SetLowpassCrossoverRequest(zone, z, f)
    BY <1>3, AskDoes DEF SoundModeRequests
  <2>. QED  BY <2>1, HonestSoundMode
<1>4. CASE r \in BalanceRequests(zone, z)
  <2> DEFINE left == AdjustBalanceRequest(zone, z, FALSE)
             right == AdjustBalanceRequest(zone, z, TRUE)
  <2>1. Honest(left, zone) /\ Honest(right, zone)
    BY HonestBalance
  <2>2. r \in {Ask(C!IncreaseBalanceLeft(z), P!ZoneToneRequests.AdjustBalance, left),
              Ask(C!IncreaseBalanceRight(z), P!ZoneToneRequests.AdjustBalance, right)}
          \cup {Ask(C!SetBalance(z), P!ZoneEqualizerRequests.SetBalance,
                    SetBalanceRequest(zone, z, balance)) : balance \in Tried(Balances)}
    BY <1>4, Zenon DEF BalanceRequests
  <2>. HIDE DEF left, right
  <2>. QED  BY <2>1, <2>2, AskDoes, HonestBalance
<1>5. CASE r \in VolumeRequests(zone, z)
  <2>1. \/ r.does \in {DecreaseVolumeRequest(zone, z), IncreaseVolumeRequest(zone, z)}
        \/ \E level : r.does = SetVolumeRequest(zone, z, level)
        \/ \E mute \in BOOLEAN : r.does = MuteRequest(zone, z, mute)
    BY <1>5, AskDoes DEF VolumeRequests
  <2>. QED  BY <2>1, HonestVolume
<1>6. CASE r \in OtherZoneRequests(zone, z)
  <2>1. \/ \E fixed \in BOOLEAN : r.does = SetVolumeFixedRequest(zone, z, fixed)
        \/ \E s : r.does = SetSourceRequest(zone, z, s)
        \/ \E name \in Names : r.does = SetZoneNameRequest(zone, z, name)
    BY <1>6, AskDoes DEF OtherZoneRequests
  <2>. QED  BY <2>1, HonestOther
<1>. QED  BY <1>1, <1>2, <1>3, <1>4, <1>5, <1>6 DEF ZoneRequests

-----------------------------------------------------------------------------
(***************************************************************************)
(* Requests to several zones, to a group and to the other elements         *)
(***************************************************************************)
ZoneLists == [1..ZonesMax -> Zones]

\* A toggle leaves a zone as it was but for a mute that is known.
OnlyToggled(left, zone) ==
  /\ left \in Zones
  /\ \E mute : left = [zone EXCEPT !.mute = mute] /\ (mute = Null <=> zone.mute = Null)

LEMMA SaidField ==
  ASSUME NEW o, NEW line, NEW field \in DOMAIN o, field \notin {"status", "lines"}
  PROVE  Say(line, o)[field] = o[field] /\ SayIfChanged(line, o)[field] = o[field]
BY DEF Say, SayIfChanged

LEMMA ToggledZone ==
  ASSUME NEW zone \in Zones, NEW z
  PROVE  /\ OnlyToggled(ToggleZoneMute(zone).zone, zone)
         /\ OnlyToggled(ToggleMuteRequest(zone, z).zone, zone)
         /\ ToggleZoneMute(zone).dirty = FALSE
<1> DEFINE o == ToggleZoneMute(zone)
           r == OutputToggleMute(zone)
<1>1. DOMAIN o = {"status", "zone", "lines", "dirty"} /\ o.zone = r.value /\ o.dirty = FALSE
  BY DEF ToggleZoneMute, Stored
<1>2. r.value \in Zones
  BY OutputSetters DEF Sets
<1>3. r.value = [zone EXCEPT !.mute = ToggleMute(zone.mute).value]
  BY DEF OutputToggleMute, SetField
<1>4. ToggleMute(zone.mute).value = Null <=> zone.mute = Null
  <2>1. zone.mute \in BOOLEAN \cup {Null} /\ Null \notin BOOLEAN
    BY ZoneHas, NullAssumption
  <2>2. CASE zone.mute = Null
    BY <2>2 DEF ToggleMute
  <2>3. CASE zone.mute # Null
    BY <2>1, <2>3 DEF ToggleMute
  <2>. QED  BY <2>2, <2>3
<1>5. OnlyToggled(o.zone, zone)
  BY <1>1, <1>2, <1>3, <1>4 DEF OnlyToggled
<1>6. ToggleMuteRequest(zone, z).zone = o.zone
  BY <1>1, SaidField DEF ToggleMuteRequest
<1>. QED  BY <1>1, <1>5, <1>6

\* What is left of zones of which S take what their outcomes left.
LEMMA HonestList ==
  ASSUME NEW zones \in ZoneLists, NEW S \in SUBSET (1..ZonesMax), NEW o,
         \A z \in S : Honest(o[z], zones[z])
  PROVE  LET left == [z \in DOMAIN zones |-> IF z \in S THEN o[z].zone ELSE zones[z]]
         IN left \in ZoneLists /\ (~ (\E z \in S : o[z].dirty) => left = zones)
BY DEF ZoneLists, Honest, ZoneOutcome

LEMMA HonestEach ==
  ASSUME NEW zones \in ZoneLists, NEW o,
         \A z \in 1..ZonesMax : Honest(o[z], zones[z])
  PROVE  /\ {"zones", "dirty"} \subseteq DOMAIN EachZone(zones, o)
         /\ EachZone(zones, o).zones \in ZoneLists
         /\ EachZone(zones, o).dirty \in BOOLEAN
         /\ ~ EachZone(zones, o).dirty => EachZone(zones, o).zones = zones
<1> DEFINE failed == {z \in DOMAIN zones : Failed(o[z])}
           reached == {z \in DOMAIN zones : \A f \in failed : z <= f}
           left == [z \in DOMAIN zones |-> IF z \in reached THEN o[z].zone ELSE zones[z]]
<1>1. EachZone(zones, o).zones = left
  BY DEF EachZone
<1>2. EachZone(zones, o).dirty = \E z \in reached : o[z].dirty
  BY DEF EachZone
<1>3. {"zones", "dirty"} \subseteq DOMAIN EachZone(zones, o)
  BY DEF EachZone
<1>4. reached \subseteq 1..ZonesMax
  BY DEF ZoneLists
<1>. HIDE DEF reached
<1>5. left \in ZoneLists /\ (~ (\E z \in reached : o[z].dirty) => left = zones)
  BY <1>4, HonestList
<1>. QED  BY <1>1, <1>2, <1>3, <1>5

LEMMA HonestAll ==
  ASSUME NEW zones \in ZoneLists, NEW o,
         \/ \E level : o = SetVolumeAllRequest(zones, level)
         \/ \E s : o = SetSourceAllRequest(zones, s)
  PROVE  o.zones \in ZoneLists /\ o.dirty \in BOOLEAN /\ (~ o.dirty => o.zones = zones)
<1>1. ASSUME NEW line, NEW f, \A z \in 1..ZonesMax : Honest(f[z], zones[z]),
             o = Say(line, EachZone(zones, f))
      PROVE  o.zones \in ZoneLists /\ o.dirty \in BOOLEAN /\ (~ o.dirty => o.zones = zones)
  <2>1. o.zones = EachZone(zones, f).zones /\ o.dirty = EachZone(zones, f).dirty
    BY <1>1, HonestEach, SaidField
  <2>. QED  BY <1>1, <2>1, HonestEach
<1>2. ASSUME NEW level, o = SetVolumeAllRequest(zones, level)
      PROVE  o.zones \in ZoneLists /\ o.dirty \in BOOLEAN /\ (~ o.dirty => o.zones = zones)
  <2> DEFINE unmuted == [z \in DOMAIN zones |-> HandleSetMuteConditionally(zones[z], z, FALSE)]
             f == [z \in DOMAIN zones |-> Joined(unmuted[z], SetZoneVolume(unmuted[z].zone, level))]
  <2>1. o = Say(<<"volume all", level>>, EachZone(zones, f))
    BY <1>2 DEF SetVolumeAllRequest
  <2>2. ASSUME NEW z \in 1..ZonesMax PROVE Honest(f[z], zones[z])
    <3> DEFINE u == HandleSetMuteConditionally(zones[z], z, FALSE)
    <3>1. zones[z] \in Zones /\ DOMAIN zones = 1..ZonesMax
      BY DEF ZoneLists
    <3>2. Honest(u, zones[z]) /\ u.zone \in Zones
      BY <3>1, HonestShared DEF Honest, ZoneOutcome
    <3>3. f[z] = Joined(u, SetZoneVolume(u.zone, level))
      BY <3>1
    <3>. HIDE DEF u
    <3>4. Honest(SetZoneVolume(u.zone, level), u.zone)
      BY <3>2, OutputSetters, HonestSetter DEF SetZoneVolume
    <3>. QED  BY <3>2, <3>3, <3>4, HonestJoined
  <2>. HIDE DEF f
  <2>. QED  BY <1>1, <2>1, <2>2
<1>3. ASSUME NEW s, o = SetSourceAllRequest(zones, s)
      PROVE  o.zones \in ZoneLists /\ o.dirty \in BOOLEAN /\ (~ o.dirty => o.zones = zones)
  <2>1. CASE s \in 1..SourcesMax
    <3> DEFINE f == [z \in DOMAIN zones |-> SetZoneSource(zones[z], s)]
    <3>1. o = Say(<<"source all", s>>, EachZone(zones, f))
      BY <1>3, <2>1 DEF SetSourceAllRequest, ValidateIdentifier
    <3>2. \A z \in 1..ZonesMax : Honest(f[z], zones[z])
      BY <2>1, ZoneSetters, HonestSetter DEF SetZoneSource, ZoneLists
    <3>. HIDE DEF f
    <3>. QED  BY <1>1, <3>1, <3>2
  <2>2. CASE s \notin 1..SourcesMax
    BY <1>3, <2>2 DEF SetSourceAllRequest, ValidateIdentifier
  <2>. QED  BY <2>1, <2>2
<1>. QED  BY <1>2, <1>3

Groups ==
  [name : KeptNames \cup {Null}, zones : SUBSET (1..ZonesMax),
   mute : BOOLEAN \cup {Null}, volume : Volumes \cup {Null},
   sources : SUBSET (1..SourcesMax)]

\* What a request to a group leaves of the group and of the zones.  That the
\* group was muted is not saved.
GroupHonest(o, group, zones) ==
  /\ o.group \in Groups /\ o.zones \in ZoneLists /\ o.dirty \in BOOLEAN
  /\ ~ o.dirty => /\ o.group.name = group.name /\ o.group.zones = group.zones
                 /\ o.zones = zones

\* r leaves the group as it was and of the zones S what their outcomes left.
GroupReaches(r, group, zones, o, S) ==
  /\ {"group", "zones", "dirty"} \subseteq DOMAIN r /\ r.group = group
  /\ S \subseteq group.zones
  /\ r.zones = [z \in DOMAIN zones |-> IF z \in S THEN o[z].zone ELSE zones[z]]
  /\ r.dirty = \E z \in S : o[z].dirty

LEMMA GroupZonesReached ==
  ASSUME NEW group \in Groups, NEW zones \in ZoneLists, NEW o
  PROVE  \E S : GroupReaches(ShouldDoForGroupZones(group, zones, o), group, zones, o, S)
<1> DEFINE r == ShouldDoForGroupZones(group, zones, o)
           failed == {z \in group.zones : Failed(o[z])}
           reached == {z \in group.zones : \A f \in failed : z <= f}
           last == CHOOSE z \in reached : \A y \in reached : y <= z
           left(S) == [z \in DOMAIN zones |-> IF z \in S THEN o[z].zone ELSE zones[z]]
<1>1. CASE group.zones = {}
  <2>1. r = GroupKept("success", group, zones)
    BY <1>1 DEF ShouldDoForGroupZones
  <2>2. zones = left({})
    BY DEF ZoneLists
  <2>. HIDE DEF r, left
  <2>3. /\ {"group", "zones", "dirty"} \subseteq DOMAIN r /\ r.group = group
        /\ r.zones = zones /\ r.dirty = FALSE
    BY <2>1 DEF GroupKept
  <2>4. GroupReaches(r, group, zones, o, {})
    BY <2>2, <2>3 DEF GroupReaches, left
  <2>. QED  BY <2>4 DEF r
<1>2. CASE group.zones # {}
  <2>1. r = [GroupKept(o[last].status, group, left(reached))
               EXCEPT !.dirty = \E z \in reached : o[z].dirty]
    BY <1>2 DEF ShouldDoForGroupZones
  <2>2. reached \subseteq group.zones
    OBVIOUS
  <2>. HIDE DEF r, left, last, reached
  <2>3. /\ {"group", "zones", "dirty"} \subseteq DOMAIN r /\ r.group = group
        /\ r.zones = left(reached) /\ r.dirty = \E z \in reached : o[z].dirty
    BY <2>1 DEF GroupKept
  <2>4. GroupReaches(r, group, zones, o, reached)
    BY <2>2, <2>3 DEF GroupReaches, left
  <2>. QED  BY <2>4 DEF r
<1>. QED  BY <1>1, <1>2

LEMMA HonestGroupZones ==
  ASSUME NEW group \in Groups, NEW zones \in ZoneLists, NEW o,
         \A z \in group.zones : Honest(o[z], zones[z])
  PROVE  LET r == ShouldDoForGroupZones(group, zones, o)
         IN {"group", "zones", "dirty"} \subseteq DOMAIN r /\ GroupHonest(r, group, zones)
<1> DEFINE r == ShouldDoForGroupZones(group, zones, o)
<1>0. PICK reached : GroupReaches(r, group, zones, o, reached)
  BY GroupZonesReached
<1>. HIDE DEF r
<1>1. /\ reached \subseteq group.zones
      /\ r.zones = [z \in DOMAIN zones |-> IF z \in reached THEN o[z].zone ELSE zones[z]]
      /\ r.dirty = \E z \in reached : o[z].dirty
  BY <1>0 DEF GroupReaches
<1>2. {"group", "zones", "dirty"} \subseteq DOMAIN r /\ r.group = group
  BY <1>0 DEF GroupReaches
<1>3. reached \in SUBSET (1..ZonesMax)
  BY <1>1 DEF Groups
<1>4. r.zones \in ZoneLists /\ (~ (\E z \in reached : o[z].dirty) => r.zones = zones)
  BY <1>1, <1>3, HonestList
<1>5. r.dirty \in BOOLEAN
  BY <1>1
<1>. QED  BY <1>1, <1>2, <1>4, <1>5 DEF GroupHonest, r

LEMMA GroupSaid ==
  ASSUME NEW group, NEW zones, NEW o, {"group", "zones", "dirty"} \subseteq DOMAIN o,
         GroupHonest(o, group, zones), NEW line
  PROVE  GroupHonest(Say(line, o), group, zones) /\ GroupHonest(SayIfChanged(line, o), group, zones)
<1>1. /\ Say(line, o).group = o.group /\ Say(line, o).zones = o.zones /\ Say(line, o).dirty = o.dirty
      /\ SayIfChanged(line, o).group = o.group /\ SayIfChanged(line, o).zones = o.zones
      /\ SayIfChanged(line, o).dirty = o.dirty
  BY SaidField
<1>. QED  BY <1>1 DEF GroupHonest

LEMMA GroupKeptHonest ==
  ASSUME NEW group \in Groups, NEW zones \in ZoneLists, NEW status
  PROVE  GroupHonest(GroupKept(status, group, zones), group, zones)
BY DEF GroupKept, GroupHonest

\* Requests to a group that reach its zones.
LEMMA HonestGroupVolume ==
  ASSUME NEW group \in Groups, NEW zones \in ZoneLists, NEW g
  PROVE  /\ GroupHonest(DecreaseGroupVolumeRequest(group, zones, g), group, zones)
         /\ GroupHonest(IncreaseGroupVolumeRequest(group, zones, g), group, zones)
         /\ \A level : GroupHonest(SetGroupVolumeRequest(group, zones, g, level), group, zones)
         /\ \A s : GroupHonest(SetGroupSourceRequest(group, zones, g, s), group, zones)
<1>1. \A z \in group.zones : zones[z] \in Zones
  BY DEF Groups, ZoneLists
<1>2. ASSUME NEW line, NEW f, \A z \in group.zones : Honest(f[z], zones[z])
      PROVE  GroupHonest(SayIfChanged(line, ShouldDoForGroupZones(group, zones, f)), group, zones)
  <2> DEFINE r == ShouldDoForGroupZones(group, zones, f)
  <2>1. {"group", "zones", "dirty"} \subseteq DOMAIN r /\ GroupHonest(r, group, zones)
    BY <1>2, HonestGroupZones
  <2>. HIDE DEF r
  <2>2. GroupHonest(SayIfChanged(line, r), group, zones)
    BY <2>1, GroupSaid
  <2>. QED  BY <2>2 DEF r
<1>3. ASSUME NEW by PROVE GroupHonest(HandleAdjustGroupVolume(group, zones, g, by), group, zones)
  <2> DEFINE f == [z \in group.zones |-> ShouldAdjustVolume(zones[z], by)]
  <2>1. ASSUME NEW z \in group.zones PROVE Honest(f[z], zones[z])
    <3> DEFINE o == AdjustZoneVolume(zones[z], by)
    <3>1. Honest(o, zones[z])
      BY <1>1, OutputSetters, HonestSetter DEF AdjustZoneVolume
    <3>2. f[z] \in {o, [o EXCEPT !.status = "already"]}
      BY DEF ShouldAdjustVolume
    <3>. HIDE DEF o, f
    <3>3. Honest([o EXCEPT !.status = "already"], zones[z])
      BY <3>1 DEF Honest, ZoneOutcome
    <3>. QED  BY <3>1, <3>2, <3>3
  <2>2. HandleAdjustGroupVolume(group, zones, g, by)
          = SayIfChanged(HandleAdjustVolumeResponse(g, by), ShouldDoForGroupZones(group, zones, f))
    BY DEF HandleAdjustGroupVolume
  <2>. HIDE DEF f
  <2>. QED  BY <1>2, <2>1, <2>2
<1>4. ASSUME NEW level PROVE GroupHonest(SetGroupVolumeRequest(group, zones, g, level), group, zones)
  <2> DEFINE f == [z \in group.zones |-> ShouldSetVolume(zones[z], level)]
  <2>1. \A z \in group.zones : Honest(f[z], zones[z])
    BY <1>1, OutputSetters, HonestSetter DEF ShouldSetVolume, SetZoneVolume
  <2>2. SetGroupVolumeRequest(group, zones, g, level)
          = SayIfChanged(HandleSetVolumeResponse(g, level), ShouldDoForGroupZones(group, zones, f))
    BY DEF SetGroupVolumeRequest
  <2>. HIDE DEF f
  <2>. QED  BY <1>2, <2>1, <2>2
<1>5. ASSUME NEW s PROVE GroupHonest(SetGroupSourceRequest(group, zones, g, s), group, zones)
  <2>1. CASE s \in 1..SourcesMax
    <3> DEFINE f == [z \in group.zones |-> ShouldSetSource(zones[z], s)]
    <3>1. \A z \in group.zones : Honest(f[z], zones[z])
      BY <1>1, <2>1, ZoneSetters, HonestSetter DEF ShouldSetSource, SetZoneSource
    <3>2. SetGroupSourceRequest(group, zones, g, s)
            = SayIfChanged(<<"group source", g, s>>, ShouldDoForGroupZones(group, zones, f))
      BY <2>1 DEF SetGroupSourceRequest, ValidateIdentifier
    <3>. HIDE DEF f
    <3>. QED  BY <1>2, <3>1, <3>2
  <2>2. CASE s \notin 1..SourcesMax
    BY <2>2, GroupKeptHonest DEF SetGroupSourceRequest, ValidateIdentifier
  <2>. QED  BY <2>1, <2>2
<1>. QED
  BY <1>3, <1>4, <1>5 DEF DecreaseGroupVolumeRequest, IncreaseGroupVolumeRequest

LEMMA GroupFields ==
  ASSUME NEW group \in Groups, NEW v
  PROVE  /\ v \in KeptNames \cup {Null} => [group EXCEPT !.name = v] \in Groups
         /\ v \in SUBSET (1..ZonesMax) => [group EXCEPT !.zones = v] \in Groups
         /\ v \in BOOLEAN \cup {Null} => [group EXCEPT !.mute = v] \in Groups
BY DEF Groups

LEMMA GroupHas ==
  ASSUME NEW group \in Groups
  PROVE  /\ DOMAIN group = {"name", "zones", "mute", "volume", "sources"}
         /\ group.name \in KeptNames \cup {Null}
         /\ group.zones \in SUBSET (1..ZonesMax)
         /\ [group EXCEPT !.name = group.name] = group
         /\ [group EXCEPT !.zones = group.zones] = group
BY DEF Groups

LEMMA StoredGroupDoes ==
  ASSUME NEW zones, NEW r
  PROVE  LET o == StoredGroup(zones, r)
         IN /\ DOMAIN o = {"status", "group", "zones", "lines", "dirty"}
            /\ o.group = r.value /\ o.zones = zones
            /\ o.dirty = (r.status = "success")
BY DEF StoredGroup, GroupKept, Changed

\* Requests to a group itself, a mute included.
LEMMA HonestGroup ==
  ASSUME NEW group \in Groups, NEW zones \in ZoneLists, NEW g
  PROVE  /\ \A mute \in BOOLEAN : GroupHonest(MuteGroupRequest(group, zones, g, mute), group, zones)
         /\ \A z : /\ GroupHonest(AddZoneRequest(group, zones, g, z), group, zones)
                   /\ GroupHonest(RemoveZoneRequest(group, zones, g, z), group, zones)
         /\ \A name \in Names : GroupHonest(SetGroupNameRequest(group, zones, g, name), group, zones)
<1>1. ASSUME NEW r, NEW line, r.value \in Groups,
             r.status # "success" => r.value.name = group.name /\ r.value.zones = group.zones
      PROVE  GroupHonest(Say(line, StoredGroup(zones, r)), group, zones)
  <2> DEFINE o == StoredGroup(zones, r)
  <2>1. /\ DOMAIN o = {"status", "group", "zones", "lines", "dirty"}
        /\ o.group = r.value /\ o.zones = zones /\ o.dirty = (r.status = "success")
    BY StoredGroupDoes
  <2>. HIDE DEF o
  <2>2. GroupHonest(o, group, zones)
    BY <1>1, <2>1 DEF GroupHonest
  <2>3. GroupHonest(Say(line, o), group, zones)
    BY <2>1, <2>2, GroupSaid
  <2>. QED  BY <2>3 DEF o
<1>2. ASSUME NEW mute \in BOOLEAN
      PROVE  GroupHonest(MuteGroupRequest(group, zones, g, mute), group, zones)
  <2> DEFINE r == OutputSetMute(group, mute)
             s == StoredGroup(zones, r)
             o == [s EXCEPT !.dirty = FALSE]
  <2>1. r.value = [group EXCEPT !.mute = mute]
    BY DEF OutputSetMute, SetField, SetMute, Set
  <2>2. r.value \in Groups /\ r.value.name = group.name /\ r.value.zones = group.zones
    <3>1. [group EXCEPT !.mute = mute] \in Groups
      BY GroupFields
    <3>. QED  BY <2>1, <3>1, GroupHas
  <2>3. DOMAIN s = {"status", "group", "zones", "lines", "dirty"} /\ s.group = r.value /\ s.zones = zones
    BY StoredGroupDoes
  <2>. HIDE DEF s, r
  <2>4. /\ {"group", "zones", "dirty"} \subseteq DOMAIN o
        /\ o.group = r.value /\ o.zones = zones /\ o.dirty = FALSE
    BY <2>3
  <2>5. GroupHonest(o, group, zones)
    BY <2>2, <2>4 DEF GroupHonest
  <2>6. MuteGroupRequest(group, zones, g, mute) = Say(HandleSetMuteResponse(g, mute), o)
    BY DEF MuteGroupRequest, s, r
  <2>. HIDE DEF o
  <2>. QED  BY <2>4, <2>5, <2>6, GroupSaid
<1>3. ASSUME NEW z PROVE /\ GroupHonest(AddZoneRequest(group, zones, g, z), group, zones)
                         /\ GroupHonest(RemoveZoneRequest(group, zones, g, z), group, zones)
  <2>1. CASE z \in 1..ZonesMax
    <3> DEFINE a == GroupAddZone(group, z)
               d == GroupRemoveZone(group, z)
    <3>1. /\ a.value = [group EXCEPT !.zones = group.zones \cup {z}]
          /\ a.status # "success" => a.value = group
      <4>1. z \in group.zones => group.zones \cup {z} = group.zones
        OBVIOUS
      <4>. QED  BY <4>1, GroupHas DEF GroupAddZone, SetField, AddIdentifier
    <3>2. d.value \in {group, [group EXCEPT !.zones = group.zones \ {z}]}
          /\ (d.status # "success" => d.value = group)
      BY GroupHas DEF GroupRemoveZone, SetField, RemoveIdentifier
    <3>3. group.zones \cup {z} \in SUBSET (1..ZonesMax) /\ group.zones \ {z} \in SUBSET (1..ZonesMax)
      BY <2>1, GroupHas
    <3>4. a.value \in Groups /\ d.value \in Groups
      <4>1. \A Z \in SUBSET (1..ZonesMax) : [group EXCEPT !.zones = Z] \in Groups
        BY GroupFields
      <4>. QED  BY <3>1, <3>2, <3>3, <4>1
    <3>. HIDE DEF a, d
    <3>5. /\ GroupHonest(Say(<<"group zone added", g, z>>, StoredGroup(zones, a)), group, zones)
          /\ GroupHonest(Say(<<"group zone removed", g, z>>, StoredGroup(zones, d)), group, zones)
      BY <1>1, <3>1, <3>2, <3>4
    <3>. QED  BY <2>1, <3>5 DEF AddZoneRequest, RemoveZoneRequest, ValidateIdentifier, a, d
  <2>2. CASE z \notin 1..ZonesMax
    BY <2>2, GroupKeptHonest DEF AddZoneRequest, RemoveZoneRequest, ValidateIdentifier
  <2>. QED  BY <2>1, <2>2
<1>4. ASSUME NEW name \in Names
      PROVE  GroupHonest(SetGroupNameRequest(group, zones, g, name), group, zones)
  <2> DEFINE n == SetName(group.name, name)
             r == OutputSetName(group, name)
  <2>1. SetsValue(n, group.name, KeptNames)
    BY NameSetter
  <2>2. r.status = n.status /\ r.value = [group EXCEPT !.name = n.value]
    BY DEF OutputSetName, SetField
  <2>. HIDE DEF n, r
  <2>3. r.value \in Groups
    <3>1. n.value \in KeptNames \cup {Null}
      BY <2>1, GroupHas DEF SetsValue
    <3>2. [group EXCEPT !.name = n.value] \in Groups
      BY <3>1, GroupFields
    <3>. QED  BY <2>2, <3>2
  <2>4. r.status # "success" => r.value.name = group.name /\ r.value.zones = group.zones
    BY <2>1, <2>2, GroupHas DEF SetsValue
  <2>5. GroupHonest(Say(<<"group name", g, name>>, StoredGroup(zones, r)), group, zones)
    BY <1>1, <2>3, <2>4
  <2>. QED  BY <2>5 DEF SetGroupNameRequest, r
<1>. QED  BY <1>2, <1>3, <1>4

\* A toggle of a group toggles zones of it.
LEMMA ToggledGroup ==
  ASSUME NEW group \in Groups, NEW zones \in ZoneLists, NEW g, NEW o,
         o = ToggleGroupMuteRequest(group, zones, g)
  PROVE  /\ o.group = group /\ o.zones \in ZoneLists
         /\ \A z \in 1..ZonesMax : /\ OnlyToggled(o.zones[z], zones[z])
                                   /\ z \notin group.zones => o.zones[z] = zones[z]
<1> DEFINE f == [z \in group.zones |-> ShouldToggleMute(zones[z])]
           r == ShouldDoForGroupZones(group, zones, f)
<1>1. \A z \in group.zones : OnlyToggled(f[z].zone, zones[z])
  BY ToggledZone DEF ShouldToggleMute, Groups, ZoneLists
<1>2. o = SayIfChanged(HandleToggleMuteResponse(g), r)
  BY DEF ToggleGroupMuteRequest
<1>. HIDE DEF f
<1>0. PICK reached : GroupReaches(r, group, zones, f, reached)
  BY GroupZonesReached
<1>. HIDE DEF r
<1>3. /\ reached \subseteq group.zones
      /\ r.zones = [z \in DOMAIN zones |-> IF z \in reached THEN f[z].zone ELSE zones[z]]
      /\ r.dirty = \E z \in reached : f[z].dirty
  BY <1>0 DEF GroupReaches
<1>4. {"group", "zones", "dirty"} \subseteq DOMAIN r /\ r.group = group
  BY <1>0 DEF GroupReaches
<1>5. o.group = group /\ o.zones = r.zones
  BY <1>2, <1>4, SaidField
<1>6. ASSUME NEW zone \in Zones PROVE OnlyToggled(zone, zone)
  <2>1. zone = [zone EXCEPT !.mute = zone.mute]
    BY DEF Zones, ZonesWith
  <2>. QED  BY <2>1 DEF OnlyToggled
<1>7. \A z \in 1..ZonesMax : zones[z] \in Zones
  BY DEF ZoneLists
<1>8. DOMAIN zones = 1..ZonesMax
  BY DEF ZoneLists
<1>9. \A z \in 1..ZonesMax : /\ OnlyToggled(o.zones[z], zones[z])
                             /\ z \notin group.zones => o.zones[z] = zones[z]
  BY <1>1, <1>3, <1>5, <1>6, <1>7, <1>8
<1>10. o.zones \in ZoneLists
  <2>1. o.zones = [z \in 1..ZonesMax |-> o.zones[z]]
    BY <1>3, <1>5, <1>8
  <2>2. \A z \in 1..ZonesMax : o.zones[z] \in Zones
    BY <1>9 DEF OnlyToggled
  <2>. QED  BY <2>1, <2>2 DEF ZoneLists
<1>. QED  BY <1>5, <1>9, <1>10

Presets == PresetsWith({Null})

LEMMA PresetFields ==
  ASSUME NEW preset \in Presets, NEW v
  PROVE  /\ v \in KeptNames \cup {Null} => [preset EXCEPT !.name = v] \in Presets
         /\ v \in [Bands -> BandLevels \cup {Null}] => [preset EXCEPT !.bands = v] \in Presets
BY DEF Presets, PresetsWith

LEMMA PresetHas ==
  ASSUME NEW preset \in Presets
  PROVE  /\ DOMAIN preset = {"name", "bands"}
         /\ preset = [f \in DOMAIN preset |-> preset[f]]
         /\ preset.name \in KeptNames \cup {Null}
         /\ preset.bands \in [Bands -> BandLevels \cup {Null}]
         /\ [preset EXCEPT !.name = preset.name] = preset
BY DEF Presets, PresetsWith

\* What one request leaves of a preset, a name or a model, in a field of its
\* outcome.
Keeps(o, field, old, S) ==
  o[field] \in S /\ (~ o.dirty => o[field] = old)

LEMMA KeepsSaid ==
  ASSUME NEW o, NEW field \in DOMAIN o, "dirty" \in DOMAIN o, field \notin {"status", "lines"},
         NEW old, NEW S, Keeps(o, field, old, S), NEW line
  PROVE  Keeps(Say(line, o), field, old, S)
<1>1. Say(line, o)[field] = o[field] /\ Say(line, o)["dirty"] = o["dirty"]
  BY SaidField
<1>. QED  BY <1>1 DEF Keeps

LEMMA KeepsStored ==
  ASSUME NEW r, NEW old, NEW S, Sets(r, old, S), NEW line
  PROVE  /\ Keeps(Say(line, StoredPreset(r)), "preset", old, S)
         /\ Keeps(Say(line, StoredItem(r)), "item", old, S)
         /\ Keeps(Say(line, StoredModel(r)), "model", old, S)
<1>1. /\ DOMAIN StoredPreset(r) = {"status", "preset", "lines", "dirty"}
      /\ Keeps(StoredPreset(r), "preset", old, S)
  BY DEF StoredPreset, PresetKept, Changed, Sets, Keeps
<1>2. /\ DOMAIN StoredItem(r) = {"status", "item", "lines", "dirty"}
      /\ Keeps(StoredItem(r), "item", old, S)
  BY DEF StoredItem, ItemKept, Changed, Sets, Keeps
<1>3. /\ DOMAIN StoredModel(r) = {"status", "model", "lines", "dirty"}
      /\ Keeps(StoredModel(r), "model", old, S)
  BY DEF StoredModel, ModelKept, Changed, Sets, Keeps
<1>. QED  BY <1>1, <1>2, <1>3, KeepsSaid

LEMMA PresetBand ==
  ASSUME NEW preset \in Presets, NEW p, NEW b, NEW r,
         ~ Failed(PresetGetEqualizerBand(preset, b)),
         SetsValue(r, PresetGetEqualizerBand(preset, b).value, BandLevels)
  PROVE  Keeps(AnswerBand(preset, p, b, r), "preset", preset, Presets)
<1>1. b \in Bands /\ PresetGetEqualizerBand(preset, b).value = preset.bands[b]
  BY DEF PresetGetEqualizerBand, GetEqualizerBand, IsValidIdentifier, Failed
<1>2. b \in DOMAIN preset.bands /\ {"bands"} \subseteq DOMAIN preset
  BY <1>1, PresetHas
<1>3. \A v \in [Bands -> BandLevels \cup {Null}] : [preset EXCEPT !.bands = v] \in Presets
  BY PresetFields
<1>4. SetsValue(r, preset.bands[b], BandLevels)
  BY <1>1
<1>5. preset = [f \in DOMAIN preset |-> preset[f]] /\ preset.bands \in [Bands -> BandLevels \cup {Null}]
  BY PresetHas
<1>6. Sets(SetBand(preset, b, r), preset, Presets)
  BY <1>2, <1>3, <1>4, <1>5, BandSetter
<1>. QED  BY <1>6, KeepsStored DEF AnswerBand

LEMMA PresetRequestsKeep ==
  ASSUME NEW preset \in Presets, NEW p, NEW r \in PresetRequests(preset, p)
  PROVE  Keeps(r.does, "preset", preset, Presets)
<1>1. \A status : Keeps(PresetKept(status, preset), "preset", preset, Presets)
  BY DEF PresetKept, Keeps
<1>2. \A b, by : Keeps(HandleAdjustBandReceived(preset, p, b, by), "preset", preset, Presets)
  <2> TAKE b, by
  <2> DEFINE band == PresetGetEqualizerBand(preset, b)
             s == IF by < 0 THEN DecreaseLevel(band.value) ELSE IncreaseLevel(band.value)
  <2>1. SetsValue(s, band.value, BandLevels)
    BY ValueSetters DEF DecreaseLevel, IncreaseLevel, AdjustLevel
  <2>2. HandleAdjustBandReceived(preset, p, b, by)
          = IF Failed(band) THEN PresetKept(band.status, preset) ELSE AnswerBand(preset, p, b, s)
    BY DEF HandleAdjustBandReceived
  <2>. HIDE DEF s
  <2>. QED  BY <1>1, <2>1, <2>2, PresetBand
<1>3. \A b, level : Keeps(HandleSetBandReceived(preset, p, b, level), "preset", preset, Presets)
  BY <1>1, PresetBand, ValueSetters DEF HandleSetBandReceived, SetLevel
<1>4. ASSUME NEW name \in Names
      PROVE  Keeps(SetPresetNameRequest(preset, p, name), "preset", preset, Presets)
  <2> DEFINE n == SetName(preset.name, name)
             s == PresetSetName(preset, name)
  <2>1. SetsValue(n, preset.name, KeptNames)
    BY NameSetter
  <2>2. s.status = n.status /\ s.value = [preset EXCEPT !.name = n.value]
    BY DEF PresetSetName, SetField
  <2>. HIDE DEF n, s
  <2>3. n.value \in KeptNames \cup {Null}
    BY <2>1, PresetHas DEF SetsValue
  <2>4. [preset EXCEPT !.name = n.value] \in Presets
    BY <2>3, PresetFields
  <2>5. Sets(s, preset, Presets)
    BY <2>1, <2>2, <2>4, PresetHas DEF Sets, SetsValue
  <2>. QED  BY <2>5, KeepsStored DEF SetPresetNameRequest, s
<1>5. \/ \E b : r.does \in {DecreaseBandRequest(preset, p, b), IncreaseBandRequest(preset, p, b)}
      \/ \E b, level : r.does = SetBandRequest(preset, p, b, level)
      \/ \E name \in Names : r.does = SetPresetNameRequest(preset, p, name)
  BY AskDoes DEF PresetRequests
<1>. QED
  BY <1>2, <1>3, <1>4, <1>5 DEF DecreaseBandRequest, IncreaseBandRequest, SetBandRequest

Items == KeptNames \cup {Null}

LEMMA ItemRequestsKeep ==
  ASSUME NEW item \in Items, NEW i, NEW r \in FavoriteRequests(item, i) \cup SourceRequests(item, i)
  PROVE  Keeps(r.does, "item", item, Items)
<1>1. ASSUME NEW new \in Names
      PROVE  /\ Keeps(SetFavoriteNameRequest(item, i, new), "item", item, Items)
             /\ Keeps(SetSourceNameRequest(item, i, new), "item", item, Items)
  <2>1. Sets(SetName(item, new), item, Items)
    BY NameSetter DEF SetsValue, Sets, Items
  <2>. QED
    BY <2>1, KeepsStored
    DEF SetFavoriteNameRequest, FavoriteSetName, SetSourceNameRequest, SourceSetName
<1>2. \/ \E new \in Names : r.does = SetFavoriteNameRequest(item, i, new)
      \/ \E new \in Names : r.does = SetSourceNameRequest(item, i, new)
  BY AskDoes DEF FavoriteRequests, SourceRequests
<1>. QED  BY <1>1, <1>2

LEMMA PanelRequestsKeep ==
  ASSUME NEW panel \in PanelsWith({Null}), NEW r \in PanelRequests(panel)
  PROVE  Keeps(r.does, "model", panel, PanelsWith({Null}))
<1>1. \A b : Sets(PanelSetBrightness(panel, b), panel, PanelsWith({Null}))
  BY DEF PanelSetBrightness, SetBrightness, SetWithin, Set, SetField, Sets, PanelsWith
<1>2. \A b \in BOOLEAN : Sets(PanelSetLocked(panel, b), panel, PanelsWith({Null}))
  BY DEF PanelSetLocked, SetLocked, Set, SetField, Sets, PanelsWith
<1>3. \/ \E b : r.does = SetBrightnessRequest(panel, b)
      \/ \E b \in BOOLEAN : r.does = SetLockedRequest(panel, b)
  BY AskDoes DEF PanelRequests
<1>. QED  BY <1>1, <1>2, <1>3, KeepsStored DEF SetBrightnessRequest, SetLockedRequest

LEMMA InfraredRequestsKeep ==
  ASSUME NEW infrared \in InfraredsWith({Null}), NEW r \in InfraredRequests(infrared)
  PROVE  Keeps(r.does, "model", infrared, InfraredsWith({Null}))
<1>1. \A b \in BOOLEAN : Sets(InfraredSetDisabled(infrared, b), infrared, InfraredsWith({Null}))
  BY DEF InfraredSetDisabled, SetDisabled, Set, SetField, Sets, InfraredsWith
<1>2. \E b \in BOOLEAN : r.does = SetDisabledRequest(infrared, b)
  BY AskDoes DEF InfraredRequests
<1>. QED  BY <1>1, <1>2, KeepsStored DEF SetDisabledRequest

LEMMA NetworkRequestsKeep ==
  ASSUME NEW network \in NetworksWith({Null}), NEW o \in NetworkRequests(network)
  PROVE  Keeps(o, "model", network, NetworksWith({Null}))
<1>1. \A b \in BOOLEAN : Sets(NetworkSetDHCPv4Enabled(network, b), network, NetworksWith({Null}))
  BY DEF NetworkSetDHCPv4Enabled, SetDHCPv4Enabled, Set, SetField, Sets, NetworksWith
<1>2. \A b \in BOOLEAN : Sets(NetworkSetSDDPEnabled(network, b), network, NetworksWith({Null}))
  BY DEF NetworkSetSDDPEnabled, SetSDDPEnabled, Set, SetField, Sets, NetworksWith
<1>3. \/ \E b \in BOOLEAN : o = SetDHCPv4EnabledRequest(network, b)
      \/ \E b \in BOOLEAN : o = SetSDDPEnabledRequest(network, b)
  BY DEF NetworkRequests
<1>. QED  BY <1>1, <1>2, <1>3, KeepsStored DEF SetDHCPv4EnabledRequest, SetSDDPEnabledRequest

-----------------------------------------------------------------------------
(***************************************************************************)
(* What is waited for.  A call of the library waits for the same lines as  *)
(* what the proxy makes of it.                                             *)
(***************************************************************************)
\* A call and what the proxy makes of it end with the same lines.
Pairs(call, forward, kinds) == call.expects = kinds /\ forward.expects = kinds

\* A request of which the client, and the proxy that passes it on, wait for lines of the kinds.
AwaitsKinds(r, kinds) ==
  r.call.expects = kinds /\ (r.forward.valid => r.forward.expects = kinds)

\* Asking by way of the proxy, or directly.
LEMMA AskAwaits ==
  /\ \A call, forward, does, kinds :
       Pairs(call, forward, kinds) => AwaitsKinds(Ask(call, forward, does), kinds)
  /\ \A call, does, kinds : call.expects = kinds => AwaitsKinds(Directly(call, does), kinds)
<1>1. \A call, forward, does : /\ Ask(call, forward, does).call = call
                               /\ Ask(call, forward, does).forward = forward
  BY DEF Ask
<1>2. C!SendCommand(FALSE, {}).valid = FALSE
  BY DEF C!SendCommand
<1>3. ASSUME NEW call, NEW forward, NEW does, NEW kinds, call.expects = kinds,
             forward.valid => forward.expects = kinds
      PROVE  AwaitsKinds(Ask(call, forward, does), kinds)
  BY <1>1, <1>3 DEF AwaitsKinds
<1>. QED  BY <1>2, <1>3 DEF Pairs, Directly

\* What the proxy waits for when it passes on a command.
LEMMA ProxyKinds ==
  \A command : P!ProxyMutationCommand(command).expects = command
BY DEF P!ProxyMutationCommand

\* What a client waits for when it sends a command.
LEMMA CallKinds ==
  \A valid, command : C!SendCommand(valid, command).expects = command
BY DEF C!SendCommand

\* Bands and presets of a zone.
LEMMA BandPairs ==
  ASSUME NEW z
  PROVE  /\ \A b : /\ Pairs(C!DecreaseEqualizerBand(z, b), P!ZoneLevelRequests.DecreaseEqualizerBand, {"band"})
                   /\ Pairs(C!IncreaseEqualizerBand(z, b), P!ZoneLevelRequests.IncreaseEqualizerBand, {"band"})
                   /\ Pairs(C!SetEqualizerBand(z, b), P!ZoneEqualizerRequests.SetEqualizerBand, {"band"})
         /\ \A p : Pairs(C!SetEqualizerPreset(z, p), P!ZoneEqualizerRequests.SetEqualizerPreset, {"preset"})
<1>1. /\ P!ZoneLevelRequests.DecreaseEqualizerBand.expects = {"band"}
      /\ P!ZoneLevelRequests.IncreaseEqualizerBand.expects = {"band"}
      /\ P!ZoneEqualizerRequests.SetEqualizerBand.expects = {"band"}
      /\ P!ZoneEqualizerRequests.SetEqualizerPreset.expects = {"preset"}
  BY ProxyKinds DEF P!ZoneLevelRequests, P!ZoneEqualizerRequests, P!EqualizerBandCommands, P!EqualizerPresetCommand
<1>2. /\ \A b : /\ C!DecreaseEqualizerBand(z, b).expects = {"band"}
                /\ C!IncreaseEqualizerBand(z, b).expects = {"band"}
                /\ C!SetEqualizerBand(z, b).expects = {"band"}
      /\ \A p : C!SetEqualizerPreset(z, p).expects = {"preset"}
  BY CallKinds DEF C!DecreaseEqualizerBand, C!IncreaseEqualizerBand, C!SetEqualizerBand, C!SetEqualizerPreset,
     C!EqualizerBandCommands, C!EqualizerPresetCommand
<1>. QED  BY <1>1, <1>2 DEF Pairs

\* Tone, sound mode, crossovers and balance.
LEMMA SoundPairs ==
  ASSUME NEW z
  PROVE  /\ Pairs(C!DecreaseBass(z), P!ZoneToneRequests.DecreaseBass, {"tone"})
         /\ Pairs(C!IncreaseBass(z), P!ZoneToneRequests.IncreaseBass, {"tone"})
         /\ Pairs(C!DecreaseTreble(z), P!ZoneToneRequests.DecreaseTreble, {"tone"})
         /\ Pairs(C!IncreaseTreble(z), P!ZoneToneRequests.IncreaseTreble, {"tone"})
         /\ Pairs(C!SetTone(z), P!ZoneVolumeRequests.SetTone, {"tone"})
         /\ Pairs(C!SetSoundMode(z), P!ZoneSourceRequests.SetSoundMode, {"mode"})
         /\ Pairs(C!SetHighpassCrossover(z), P!ZoneEqualizerRequests.SetHighpassCrossover, {"highpass"})
         /\ Pairs(C!SetLowpassCrossover(z), P!ZoneEqualizerRequests.SetLowpassCrossover, {"lowpass"})
         /\ Pairs(C!IncreaseBalanceLeft(z), P!ZoneToneRequests.AdjustBalance, {"balance"})
         /\ Pairs(C!IncreaseBalanceRight(z), P!ZoneToneRequests.AdjustBalance, {"balance"})
         /\ Pairs(C!SetBalance(z), P!ZoneEqualizerRequests.SetBalance, {"balance"})
<1>1. /\ P!ZoneToneRequests.DecreaseBass.expects = {"tone"} /\ P!ZoneToneRequests.IncreaseBass.expects = {"tone"}
      /\ P!ZoneToneRequests.DecreaseTreble.expects = {"tone"}
      /\ P!ZoneToneRequests.IncreaseTreble.expects = {"tone"}
      /\ P!ZoneToneRequests.AdjustBalance.expects = {"balance"}
      /\ P!ZoneVolumeRequests.SetTone.expects = {"tone"} /\ P!ZoneSourceRequests.SetSoundMode.expects = {"mode"}
  BY ProxyKinds DEF P!ZoneToneRequests, P!ZoneVolumeRequests, P!ZoneSourceRequests, P!ToneCommands,
     P!SoundModeCommand, P!BalanceCommands
<1>2. /\ P!ZoneEqualizerRequests.SetHighpassCrossover.expects = {"highpass"}
      /\ P!ZoneEqualizerRequests.SetLowpassCrossover.expects = {"lowpass"}
      /\ P!ZoneEqualizerRequests.SetBalance.expects = {"balance"}
  BY ProxyKinds DEF P!ZoneEqualizerRequests, P!HighpassCrossoverCommand, P!LowpassCrossoverCommand, P!BalanceCommands
<1>3. /\ C!DecreaseBass(z).expects = {"tone"} /\ C!IncreaseBass(z).expects = {"tone"}
      /\ C!DecreaseTreble(z).expects = {"tone"} /\ C!IncreaseTreble(z).expects = {"tone"}
      /\ C!SetTone(z).expects = {"tone"} /\ C!SetSoundMode(z).expects = {"mode"}
  BY CallKinds DEF C!DecreaseBass, C!IncreaseBass, C!DecreaseTreble, C!IncreaseTreble, C!SetTone, C!SetSoundMode,
     C!ToneCommands, C!SoundModeCommand
<1>4. /\ C!SetHighpassCrossover(z).expects = {"highpass"} /\ C!SetLowpassCrossover(z).expects = {"lowpass"}
      /\ C!IncreaseBalanceLeft(z).expects = {"balance"} /\ C!IncreaseBalanceRight(z).expects = {"balance"}
      /\ C!SetBalance(z).expects = {"balance"}
  BY CallKinds DEF C!SetHighpassCrossover, C!SetLowpassCrossover, C!IncreaseBalanceLeft, C!IncreaseBalanceRight,
     C!SetBalance, C!HighpassCrossoverCommand, C!LowpassCrossoverCommand, C!BalanceCommands
<1>. QED  BY <1>1, <1>2, <1>3, <1>4 DEF Pairs

\* Volume, mute, source and name.
LEMMA VolumePairs ==
  ASSUME NEW z
  PROVE  /\ Pairs(C!DecreaseVolume(z), P!ZoneLevelRequests.DecreaseVolume, {"volume"})
         /\ Pairs(C!IncreaseVolume(z), P!ZoneLevelRequests.IncreaseVolume, {"volume"})
         /\ Pairs(C!SetVolume(z), P!ZoneVolumeRequests.SetVolume, {"volume"})
         /\ \A mute : Pairs(C!Mute(z, mute), P!ZoneLevelRequests.Mute, {"mute"})
         /\ Pairs(C!ToggleMute(z), P!ZoneVolumeRequests.ToggleMute, {"mute"})
         /\ Pairs(C!SetVolumeLocked(z), P!ZoneVolumeRequests.SetVolumeFixed, {"fixed"})
         /\ \A s : Pairs(C!SetSource(z, s), P!ZoneSourceRequests.SetSource, {"source"})
         /\ \A name : Pairs(C!SetName(z, name), P!ZoneSourceRequests.SetName, {"name"})
         /\ Pairs(C!SetVolumeAll, P!ZoneVolumeRequests.SetVolumeAll, {"volume all"})
         /\ \A s : Pairs(C!SetSourceAll(s), P!ZoneSourceRequests.SetSourceAll, {"source all"})
<1>1. /\ P!ZoneLevelRequests.DecreaseVolume.expects = {"volume"}
      /\ P!ZoneLevelRequests.IncreaseVolume.expects = {"volume"} /\ P!ZoneLevelRequests.Mute.expects = {"mute"}
      /\ P!ZoneVolumeRequests.SetVolume.expects = {"volume"} /\ P!ZoneVolumeRequests.ToggleMute.expects = {"mute"}
      /\ P!ZoneVolumeRequests.SetVolumeFixed.expects = {"fixed"}
      /\ P!ZoneVolumeRequests.SetVolumeAll.expects = {"volume all"}
  BY ProxyKinds DEF P!ZoneLevelRequests, P!ZoneVolumeRequests, P!VolumeCommand, P!AdjustVolumeCommands,
     P!MuteCommands, P!VolumeFixedCommand, P!VolumeAllCommand
<1>2. /\ P!ZoneSourceRequests.SetSource.expects = {"source"} /\ P!ZoneSourceRequests.SetName.expects = {"name"}
      /\ P!ZoneSourceRequests.SetSourceAll.expects = {"source all"}
  BY ProxyKinds DEF P!ZoneSourceRequests, P!SourceCommand, P!NameCommand, P!SourceAllCommand
<1>3. /\ C!DecreaseVolume(z).expects = {"volume"} /\ C!IncreaseVolume(z).expects = {"volume"}
      /\ C!SetVolume(z).expects = {"volume"} /\ C!ToggleMute(z).expects = {"mute"}
      /\ C!SetMute(z).expects = {"mute"} /\ C!ClearMute(z).expects = {"mute"}
      /\ C!SetVolumeLocked(z).expects = {"fixed"} /\ C!SetVolumeAll.expects = {"volume all"}
  BY CallKinds DEF C!DecreaseVolume, C!IncreaseVolume, C!SetVolume, C!ToggleMute, C!SetMute, C!ClearMute,
     C!SetVolumeLocked, C!SetVolumeAll, C!VolumeCommand, C!AdjustVolumeCommands, C!MuteCommands,
     C!VolumeFixedCommand, C!VolumeAllCommand
<1>4. \A mute : C!Mute(z, mute).expects = {"mute"}
  BY <1>3 DEF C!Mute
<1>5. /\ \A s : C!SetSource(z, s).expects = {"source"} /\ C!SetSourceAll(s).expects = {"source all"}
      /\ \A name : C!SetName(z, name).expects = {"name"}
  BY CallKinds DEF C!SetSource, C!SetSourceAll, C!SetName, C!SourceCommand, C!SourceAllCommand, C!NameCommand
<1>. QED  BY <1>1, <1>2, <1>3, <1>4, <1>5 DEF Pairs

\* Groups.
LEMMA GroupPairs ==
  ASSUME NEW g
  PROVE  /\ \A mute : Pairs(C!GroupMute(g, mute), P!GroupLevelRequests.Mute, {"group mute"})
         /\ Pairs(C!GroupToggleMute(g), P!GroupSettingRequests.ToggleMute, {"group mute toggle"})
         /\ Pairs(C!GroupDecreaseVolume(g), P!GroupLevelRequests.DecreaseVolume, {"group volume down"})
         /\ Pairs(C!GroupIncreaseVolume(g), P!GroupLevelRequests.IncreaseVolume, {"group volume up"})
         /\ Pairs(C!GroupSetVolume(g), P!GroupSettingRequests.SetVolume, {"group volume"})
         /\ \A s : Pairs(C!GroupSetSource(g, s), P!GroupSettingRequests.SetSource, {"group source"})
         /\ \A name : Pairs(C!GroupSetName(g, name), P!GroupSettingRequests.SetName, {"group name"})
         /\ \A z : LET kinds == {"group zone added", "group zone removed"}
                   IN /\ Pairs(C!GroupAddZone(g, z), P!GroupLevelRequests.AddZone, kinds)
                      /\ Pairs(C!GroupRemoveZone(g, z), P!GroupSettingRequests.RemoveZone, kinds)
<1>1. /\ P!GroupLevelRequests.Mute.expects = {"group mute"}
      /\ P!GroupLevelRequests.DecreaseVolume.expects = {"group volume down"}
      /\ P!GroupLevelRequests.IncreaseVolume.expects = {"group volume up"}
      /\ P!GroupLevelRequests.AddZone.expects = {"group zone added", "group zone removed"}
  BY ProxyKinds DEF P!GroupLevelRequests, P!GroupMuteCommands, P!GroupDecreaseVolumeCommand,
     P!GroupIncreaseVolumeCommand, P!GroupZoneCommands
<1>2. /\ P!GroupSettingRequests.ToggleMute.expects = {"group mute toggle"}
      /\ P!GroupSettingRequests.SetVolume.expects = {"group volume"}
      /\ P!GroupSettingRequests.SetSource.expects = {"group source"}
      /\ P!GroupSettingRequests.SetName.expects = {"group name"}
      /\ P!GroupSettingRequests.RemoveZone.expects = {"group zone added", "group zone removed"}
  BY ProxyKinds DEF P!GroupSettingRequests, P!GroupToggleMuteCommand, P!GroupVolumeCommand, P!GroupSourceCommand,
     P!GroupNameCommand, P!GroupZoneCommands
<1>3. /\ C!GroupSetMute(g).expects = {"group mute"} /\ C!GroupClearMute(g).expects = {"group mute"}
      /\ C!GroupToggleMute(g).expects = {"group mute toggle"}
      /\ C!GroupDecreaseVolume(g).expects = {"group volume down"}
      /\ C!GroupIncreaseVolume(g).expects = {"group volume up"}
      /\ C!GroupSetVolume(g).expects = {"group volume"}
  BY CallKinds DEF C!GroupSetMute, C!GroupClearMute, C!GroupToggleMute, C!GroupDecreaseVolume,
     C!GroupIncreaseVolume, C!GroupSetVolume, C!GroupMuteCommands, C!GroupToggleMuteCommand,
     C!GroupDecreaseVolumeCommand, C!GroupIncreaseVolumeCommand, C!GroupVolumeCommand
<1>4. \A mute : C!GroupMute(g, mute).expects = {"group mute"}
  BY <1>3 DEF C!GroupMute
<1>5. /\ \A s : C!GroupSetSource(g, s).expects = {"group source"}
      /\ \A name : C!GroupSetName(g, name).expects = {"group name"}
      /\ \A z : /\ C!GroupAddZone(g, z).expects = {"group zone added", "group zone removed"}
                /\ C!GroupRemoveZone(g, z).expects = {"group zone added", "group zone removed"}
  BY CallKinds DEF C!GroupSetSource, C!GroupSetName, C!GroupAddZone, C!GroupRemoveZone, C!GroupSourceCommand,
     C!GroupNameCommand, C!GroupZoneCommands
<1>. QED  BY <1>1, <1>2, <1>3, <1>4, <1>5 DEF Pairs

\* Presets, favorites, sources, the panel, infrared and the configuration.
LEMMA OtherPairs ==
  /\ \A p, b : /\ Pairs(C!EqualizerPresetDecreaseBand(p, b), P!PresetRequests.DecreaseBand, {"preset band"})
               /\ Pairs(C!EqualizerPresetIncreaseBand(p, b), P!PresetRequests.IncreaseBand, {"preset band"})
               /\ Pairs(C!EqualizerPresetSetBand(p, b), P!PresetRequests.SetBand, {"preset band"})
  /\ \A p, name : Pairs(C!EqualizerPresetSetName(p, name), P!PresetRequests.SetName, {"preset name"})
  /\ \A f, name : Pairs(C!FavoriteSetName(f, name), P!FavoriteRequests.SetName, {"favorite name"})
  /\ \A s, name : Pairs(C!SourceSetName(s, name), P!SourceRequests.SetName, {"source name"})
  /\ Pairs(C!FrontPanelSetBrightness, P!PanelRequests.SetBrightness, {"brightness"})
  /\ Pairs(C!FrontPanelSetLocked, P!PanelRequests.SetLocked, {"locked"})
  /\ Pairs(C!InfraredSetDisabled, P!InfraredRequests.SetDisabled, {"disabled"})
  /\ Pairs(C!ConfigurationLoadFromBackup, P!ConfigurationRequests.LoadFromBackup, {"loaded"})
  /\ Pairs(C!ConfigurationSaveToBackup, P!ConfigurationRequests.SaveToBackup, {"saved"})
  /\ Pairs(C!ConfigurationResetToDefaults, P!ConfigurationRequests.ResetToDefaults, {"reset"})
<1>1. /\ P!PresetRequests.DecreaseBand.expects = {"preset band"}
      /\ P!PresetRequests.IncreaseBand.expects = {"preset band"} /\ P!PresetRequests.SetBand.expects = {"preset band"}
      /\ P!PresetRequests.SetName.expects = {"preset name"} /\ P!FavoriteRequests.SetName.expects = {"favorite name"}
      /\ P!SourceRequests.SetName.expects = {"source name"}
  BY ProxyKinds DEF P!PresetRequests, P!FavoriteRequests, P!SourceRequests, P!PresetBandCommands,
     P!PresetNameCommand, P!FavoriteNameCommand, P!SourceNameCommand
<1>2. /\ P!PanelRequests.SetBrightness.expects = {"brightness"} /\ P!PanelRequests.SetLocked.expects = {"locked"}
      /\ P!InfraredRequests.SetDisabled.expects = {"disabled"}
      /\ P!ConfigurationRequests.LoadFromBackup.expects = {"loaded"}
      /\ P!ConfigurationRequests.SaveToBackup.expects = {"saved"}
      /\ P!ConfigurationRequests.ResetToDefaults.expects = {"reset"}
  BY ProxyKinds DEF P!PanelRequests, P!InfraredRequests, P!ConfigurationRequests, P!BrightnessCommand,
     P!LockedCommand, P!InfraredCommands, P!LoadFromBackupCommand, P!SaveToBackupCommand, P!ResetToDefaultsCommand
<1>3. /\ \A p, b : /\ C!EqualizerPresetDecreaseBand(p, b).expects = {"preset band"}
                   /\ C!EqualizerPresetIncreaseBand(p, b).expects = {"preset band"}
                   /\ C!EqualizerPresetSetBand(p, b).expects = {"preset band"}
      /\ \A p, name : C!EqualizerPresetSetName(p, name).expects = {"preset name"}
      /\ \A f, name : C!FavoriteSetName(f, name).expects = {"favorite name"}
      /\ \A s, name : C!SourceSetName(s, name).expects = {"source name"}
  BY CallKinds DEF C!EqualizerPresetDecreaseBand, C!EqualizerPresetIncreaseBand, C!EqualizerPresetSetBand,
     C!EqualizerPresetSetName, C!FavoriteSetName, C!SourceSetName, C!PresetBandCommands, C!PresetNameCommand,
     C!FavoriteNameCommand, C!SourceNameCommand
<1>4. /\ C!FrontPanelSetBrightness.expects = {"brightness"} /\ C!FrontPanelSetLocked.expects = {"locked"}
      /\ C!InfraredSetDisabled.expects = {"disabled"} /\ C!ConfigurationLoadFromBackup.expects = {"loaded"}
      /\ C!ConfigurationSaveToBackup.expects = {"saved"} /\ C!ConfigurationResetToDefaults.expects = {"reset"}
  BY CallKinds DEF C!FrontPanelSetBrightness, C!FrontPanelSetLocked, C!InfraredSetDisabled,
     C!ConfigurationLoadFromBackup, C!ConfigurationSaveToBackup, C!ConfigurationResetToDefaults,
     C!BrightnessCommand, C!LockedCommand, C!InfraredCommands, C!LoadFromBackupCommand, C!SaveToBackupCommand,
     C!ResetToDefaultsCommand
<1>5. \A call, forward, kinds : call.expects = kinds /\ forward.expects = kinds => Pairs(call, forward, kinds)
  BY DEF Pairs
<1>6. /\ Pairs(C!FrontPanelSetBrightness, P!PanelRequests.SetBrightness, {"brightness"})
      /\ Pairs(C!FrontPanelSetLocked, P!PanelRequests.SetLocked, {"locked"})
      /\ Pairs(C!InfraredSetDisabled, P!InfraredRequests.SetDisabled, {"disabled"})
  BY <1>2, <1>4, <1>5
<1>7. /\ Pairs(C!ConfigurationLoadFromBackup, P!ConfigurationRequests.LoadFromBackup, {"loaded"})
      /\ Pairs(C!ConfigurationSaveToBackup, P!ConfigurationRequests.SaveToBackup, {"saved"})
      /\ Pairs(C!ConfigurationResetToDefaults, P!ConfigurationRequests.ResetToDefaults, {"reset"})
  BY <1>2, <1>4, <1>5
<1>8. ASSUME NEW p, NEW b
      PROVE  /\ Pairs(C!EqualizerPresetDecreaseBand(p, b), P!PresetRequests.DecreaseBand, {"preset band"})
             /\ Pairs(C!EqualizerPresetIncreaseBand(p, b), P!PresetRequests.IncreaseBand, {"preset band"})
             /\ Pairs(C!EqualizerPresetSetBand(p, b), P!PresetRequests.SetBand, {"preset band"})
  BY <1>1, <1>3, <1>5
<1>10. ASSUME NEW p, NEW name
       PROVE  Pairs(C!EqualizerPresetSetName(p, name), P!PresetRequests.SetName, {"preset name"})
  BY <1>1, <1>3, <1>5
<1>9. /\ \A f, name : Pairs(C!FavoriteSetName(f, name), P!FavoriteRequests.SetName, {"favorite name"})
      /\ \A s, name : Pairs(C!SourceSetName(s, name), P!SourceRequests.SetName, {"source name"})
  BY <1>1, <1>3, <1>5
<1>. QED  BY <1>6, <1>7, <1>8, <1>9, <1>10

\* What a client waits for when it asks for what is set of a zone.
LEMMA QueryKinds ==
  ASSUME NEW z
  PROVE  /\ C!Query(z).expects = {"zone query"} /\ C!QueryMute(z).expects = {"mute"}
         /\ C!QuerySource(z).expects = {"source"} /\ C!QueryVolume(z).expects = {"volume"}
BY CallKinds DEF C!Query, C!QueryMute, C!QuerySource, C!QueryVolume, C!QueryCommand, C!QueryMuteCommand,
   C!QuerySourceCommand, C!QueryVolumeCommand

-----------------------------------------------------------------------------
(***************************************************************************)
(* What is saved                                                           *)
(***************************************************************************)
FullZones == ZonesWith({})

LEMMA NullIsNoValue ==
  /\ Null \notin KeptNames /\ Null \notin 1..SourcesMax /\ Null \notin Volumes
  /\ Null \notin BOOLEAN /\ Null \notin Balances /\ Null \notin SoundModes
  /\ Null \notin BandLevels /\ Null \notin 1..EqualizerPresetsMax /\ Null \notin Tones
  /\ Null \notin Lowpasses /\ Null \notin Highpasses
<1>1. Null \notin Int /\ Null \notin BOOLEAN /\ Null \notin SoundModes
  BY NullAssumption
<1>2. /\ Volumes \subseteq Int /\ Balances \subseteq Int /\ BandLevels \subseteq Int
      /\ Tones \subseteq Int /\ Lowpasses \subseteq Int /\ Highpasses \subseteq Int
  BY RangesAssumption DEF IsRange
<1>3. 1..SourcesMax \subseteq Int /\ 1..EqualizerPresetsMax \subseteq Int
  BY RangesAssumption
<1>4. Null \notin KeptNames
  BY NamesAssumption DEF KeptNames
<1>. QED  BY <1>1, <1>2, <1>3, <1>4

LEMMA FullZoneHas ==
  ASSUME NEW zone \in FullZones
  PROVE  /\ zone \in Zones
         /\ zone.name \in KeptNames /\ zone.source \in 1..SourcesMax
         /\ zone.volume \in Volumes /\ zone.mute \in BOOLEAN /\ zone.fixed \in BOOLEAN
         /\ zone.balance \in Balances /\ zone.mode \in SoundModes
         /\ zone.bands \in [Bands -> BandLevels] /\ zone.preset \in 1..EqualizerPresetsMax
         /\ zone.tone \in [bass : Tones, treble : Tones]
         /\ zone.lowpass \in Lowpasses /\ zone.highpass \in Highpasses
<1>1. /\ zone.name \in KeptNames /\ zone.source \in 1..SourcesMax
      /\ zone.volume \in Volumes /\ zone.mute \in BOOLEAN /\ zone.fixed \in BOOLEAN
      /\ zone.balance \in Balances /\ zone.mode \in SoundModes
      /\ zone.bands \in [Bands -> BandLevels] /\ zone.preset \in 1..EqualizerPresetsMax
      /\ zone.tone \in [bass : Tones, treble : Tones]
      /\ zone.lowpass \in Lowpasses /\ zone.highpass \in Highpasses
  BY DEF FullZones, ZonesWith
<1>2. [bass : Tones, treble : Tones] \subseteq [bass : Tones \cup {Null}, treble : Tones \cup {Null}]
  OBVIOUS
<1>3. [Bands -> BandLevels] \subseteq [Bands -> BandLevels \cup {Null}]
  OBVIOUS
<1>4. zone = [name |-> zone.name, source |-> zone.source, volume |-> zone.volume,
              mute |-> zone.mute, fixed |-> zone.fixed, balance |-> zone.balance,
              mode |-> zone.mode, bands |-> zone.bands, preset |-> zone.preset,
              tone |-> zone.tone, lowpass |-> zone.lowpass, highpass |-> zone.highpass]
  BY DEF FullZones, ZonesWith
<1>5. zone.bands \in [Bands -> BandLevels \cup {Null}]
  BY <1>1, <1>3
<1>6. zone.tone \in [bass : Tones \cup {Null}, treble : Tones \cup {Null}]
  BY <1>1, <1>2
<1>7. zone \in Zones
  BY <1>1, <1>4, <1>5, <1>6 DEF Zones, ZonesWith
<1>. QED  BY <1>1, <1>7

LEMMA SavedFieldsAre ==
  ASSUME NEW zone
  PROVE  /\ {"balance", "name", "source", "mode", "fixed", "mute", "volume"} \subseteq SavedFields(zone)
         /\ SavedFields(zone) \subseteq {"balance", "name", "source", "mode", "fixed", "mute", "volume",
                                        "bands", "preset", "tone", "lowpass", "highpass"}
         /\ "bands" \in SavedFields(zone) <=> zone.mode = "equalizer"
         /\ "preset" \in SavedFields(zone) <=> zone.mode = "preset"
         /\ "tone" \in SavedFields(zone) <=> zone.mode = "tone"
         /\ "lowpass" \in SavedFields(zone) <=> zone.mode = "lowpass"
         /\ "highpass" \in SavedFields(zone) <=> zone.mode = "highpass"
<1>1. /\ ModeParameters(zone.mode) \subseteq {"bands", "preset", "tone", "lowpass", "highpass"}
      /\ "bands" \in ModeParameters(zone.mode) <=> zone.mode = "equalizer"
      /\ "preset" \in ModeParameters(zone.mode) <=> zone.mode = "preset"
      /\ "tone" \in ModeParameters(zone.mode) <=> zone.mode = "tone"
      /\ "lowpass" \in ModeParameters(zone.mode) <=> zone.mode = "lowpass"
      /\ "highpass" \in ModeParameters(zone.mode) <=> zone.mode = "highpass"
  BY DEF ModeParameters
<1>. QED  BY <1>1 DEF SavedFields, VolumeFields

\* What makes the saved fields of two zones the same.
LEMMA SameSaved ==
  ASSUME NEW zone, NEW other, SavedFields(zone) = SavedFields(other),
         \A field \in SavedFields(zone) : zone[field] = other[field]
  PROVE  /\ SaveZone(zone) = SaveZone(other)
         /\ CanSaveZone(zone) <=> CanSaveZone(other)
<1>1. \A field \in SavedFields(zone) : Values(zone, field) = Values(other, field)
  BY DEF Values
<1>. QED  BY <1>1 DEF SaveZone, Restrict, CanSaveZone

LEMMA FullZoneSaved ==
  ASSUME NEW zone \in FullZones
  PROVE  CanSaveZone(zone)
<1>1. ASSUME NEW field \in SavedFields(zone) PROVE Null \notin Values(zone, field)
  <2>1. CASE field = "bands"
    BY <2>1, FullZoneHas, NullIsNoValue DEF Values, Range
  <2>2. CASE field = "tone"
    BY <2>2, FullZoneHas, NullIsNoValue DEF Values, Range
  <2>3. CASE field \notin {"bands", "tone"}
    <3>1. Values(zone, field) = {zone[field]}
      BY <2>3 DEF Values
    <3>2. field \in {"balance", "name", "source", "mode", "fixed", "mute", "volume",
                     "preset", "lowpass", "highpass"}
      BY <2>3, SavedFieldsAre
    <3>. QED  BY <3>1, <3>2, FullZoneHas, NullIsNoValue
  <2>. QED  BY <2>1, <2>2, <2>3
<1>. QED  BY <1>1 DEF CanSaveZone

\* A zone that can be saved is saved as one of which everything is known.
LEMMA SavedZoneTyped ==
  ASSUME NEW zone \in Zones, CanSaveZone(zone)
  PROVE  SaveZone(zone) \in SavedZones
<1> DEFINE other == ZoneDefaults[1]
           full == [field \in DOMAIN zone |-> IF field \in SavedFields(zone)
                                              THEN zone[field]
                                              ELSE other[field]]
<1>1. 1 \in 1..ZonesMax
  BY RangesAssumption
<1>2. other \in FullZones
  BY <1>1, FactoryAssumption DEF FullZones
<1>3. \A field \in SavedFields(zone) : field \notin {"bands", "tone"} => zone[field] # Null
  BY DEF CanSaveZone, Values
<1>4. "bands" \in SavedFields(zone) => Null \notin Range(zone.bands)
  BY DEF CanSaveZone, Values
<1>5. "tone" \in SavedFields(zone) => Null \notin Range(zone.tone)
  BY DEF CanSaveZone, Values
<1>6. /\ full.name \in KeptNames /\ full.source \in 1..SourcesMax
      /\ full.volume \in Volumes /\ full.mute \in BOOLEAN /\ full.fixed \in BOOLEAN
      /\ full.balance \in Balances /\ full.mode \in SoundModes
      /\ full.preset \in 1..EqualizerPresetsMax
      /\ full.lowpass \in Lowpasses /\ full.highpass \in Highpasses
  BY <1>2, <1>3, ZoneHas, FullZoneHas
<1>7. full.bands \in [Bands -> BandLevels]
  <2>1. "bands" \in SavedFields(zone) => zone.bands \in [Bands -> BandLevels]
    BY <1>4, ZoneHas DEF Range
  <2>. QED  BY <1>2, <2>1, ZoneHas, FullZoneHas
<1>8. full.tone \in [bass : Tones, treble : Tones]
  <2>1. "tone" \in SavedFields(zone) => zone.tone \in [bass : Tones, treble : Tones]
    BY <1>5, ZoneHas DEF Range
  <2>. QED  BY <1>2, <2>1, ZoneHas, FullZoneHas
<1>9. full = [name |-> full.name, source |-> full.source, volume |-> full.volume,
              mute |-> full.mute, fixed |-> full.fixed, balance |-> full.balance,
              mode |-> full.mode, bands |-> full.bands, preset |-> full.preset,
              tone |-> full.tone, lowpass |-> full.lowpass, highpass |-> full.highpass]
  BY ZoneHas
<1>10. \A field \in SavedFields(zone) : full[field] = zone[field]
  BY ZoneHas, SavedFieldsAre
<1>. HIDE DEF full
<1>11. full \in FullZones
  BY <1>6, <1>7, <1>8, <1>9 DEF FullZones, ZonesWith
<1>12. full.mode = zone.mode
  BY <1>10, SavedFieldsAre
<1>13. SavedFields(full) = SavedFields(zone)
  BY <1>12 DEF SavedFields
<1>14. SaveZone(zone) = SaveZone(full)
  BY <1>10, <1>13, SameSaved
<1>. QED  BY <1>11, <1>14 DEF SavedZones, FullZones

-----------------------------------------------------------------------------
(***************************************************************************)
(* What is loaded.  The setters of a load store fields of a zone "new" that*)
(* is the saved one, but for the name, one after the other.                *)
(***************************************************************************)
\* The zone that takes the fields F of new.
Put(zone, F, new) == [f \in DOMAIN zone |-> IF f \in F THEN new[f] ELSE zone[f]]

\* o has loaded the fields F; whether a tone changed does not count.
Loads(o, zone, F, new) ==
  /\ DOMAIN o = {"status", "zone", "lines", "dirty"}
  /\ ~ Failed(o)
  /\ o.zone = Put(zone, F, new)
  /\ o.dirty = \E f \in F \ {"tone"} : new[f] # zone[f]

LEMMA LoadsJoined ==
  ASSUME NEW zone, NEW F \in SUBSET DOMAIN zone, NEW G \in SUBSET DOMAIN zone, NEW new,
         NEW o, Loads(o, zone, F, new), NEW p, Loads(p, o.zone, G, new)
  PROVE  Loads(Joined(o, p), zone, F \cup G, new)
<1>1. DOMAIN o.zone = DOMAIN zone
  BY DEF Loads, Put
<1>2. \A f \in DOMAIN zone : o.zone[f] = IF f \in F THEN new[f] ELSE zone[f]
  BY DEF Loads, Put
<1>3. Put(o.zone, G, new) = Put(zone, F \cup G, new)
  BY <1>1, <1>2 DEF Put
<1>4. /\ DOMAIN Joined(o, p) = {"status", "zone", "lines", "dirty"}
      /\ Joined(o, p).status = p.status /\ Joined(o, p).zone = p.zone
      /\ Joined(o, p).dirty = (o.dirty \/ p.dirty)
  BY DEF Loads, Joined
<1>5. (o.dirty \/ p.dirty) = \E f \in (F \cup G) \ {"tone"} : new[f] # zone[f]
  BY <1>2 DEF Loads
<1>. QED  BY <1>3, <1>4, <1>5 DEF Loads, Failed

LEMMA LoadsField ==
  ASSUME NEW zone, NEW field \in DOMAIN zone, field # "tone", NEW new, NEW r,
         zone = [f \in DOMAIN zone |-> zone[f]],
         r = Set(zone[field], new[field])
  PROVE  Loads(Stored(SetField(zone, field, r)), zone, {field}, new)
<1> DEFINE o == Stored(SetField(zone, field, r))
<1>1. /\ DOMAIN o = {"status", "zone", "lines", "dirty"}
      /\ o.status = r.status /\ o.zone = [zone EXCEPT ![field] = r.value]
      /\ o.dirty = (r.status = "success")
  BY DEF Stored, SetField, Changed
<1>2. r.value = new[field] /\ r.status = IF new[field] = zone[field] THEN "already" ELSE "success"
  BY DEF Set
<1>3. [zone EXCEPT ![field] = r.value] = Put(zone, {field}, new)
  BY <1>2 DEF Put
<1>4. o.dirty = \E f \in {field} \ {"tone"} : new[f] # zone[f]
  BY <1>1, <1>2
<1>5. ~ Failed(o)
  BY <1>1, <1>2 DEF Failed
<1>. QED  BY <1>1, <1>3, <1>4, <1>5 DEF Loads

\* The steps of the load of a zone.
LEMMA LoadSteps ==
  ASSUME NEW zone, DOMAIN zone = {"name", "source", "volume", "mute", "fixed", "balance",
                                 "mode", "bands", "preset", "tone", "lowpass", "highpass"},
         zone = [f \in DOMAIN zone |-> zone[f]],
         NEW w \in FullZones
  PROVE  /\ Loads(Stored(ZoneSetBalance(zone, w.balance)), zone, {"balance"}, w)
         /\ Loads(SetZoneSource(zone, w.source), zone, {"source"}, w)
         /\ Loads(Stored(ZoneSetSoundMode(zone, w.mode)), zone, {"mode"}, w)
         /\ Loads(LoadEqualizerPreset(zone, w.preset), zone, {"preset"}, w)
         /\ Loads(LoadLowpassCrossover(zone, w.lowpass), zone, {"lowpass"}, w)
         /\ Loads(LoadHighpassCrossover(zone, w.highpass), zone, {"highpass"}, w)
         /\ Loads(Stored(ZoneSetVolumeFixed(zone, w.fixed)), zone, {"fixed"}, w)
         /\ Loads(SetZoneMute(zone, w.mute), zone, {"mute"}, w)
         /\ Loads(SetZoneVolume(zone, w.volume), zone, {"volume"}, w)
<1>1. \A field \in DOMAIN zone \ {"tone"} :
        Loads(Stored(SetField(zone, field, Set(zone[field], w[field]))), zone, {field}, w)
  BY LoadsField
<1>2. /\ SetBalance(zone.balance, w.balance) = Set(zone.balance, w.balance)
      /\ SetIdentifier(zone.source, w.source) = Set(zone.source, w.source)
      /\ SetSoundMode(zone.mode, w.mode) = Set(zone.mode, w.mode)
      /\ SetIdentifier(zone.preset, w.preset) = Set(zone.preset, w.preset)
      /\ SetLowpassFrequency(zone.lowpass, w.lowpass) = Set(zone.lowpass, w.lowpass)
      /\ SetHighpassFrequency(zone.highpass, w.highpass) = Set(zone.highpass, w.highpass)
      /\ SetVolume(zone.volume, w.volume) = Set(zone.volume, w.volume)
  BY FullZoneHas, RangesAssumption
  DEF SetBalance, SetIdentifier, SetSoundMode, SetLowpassFrequency, SetHighpassFrequency,
      SetVolume, SetWithin
<1>. QED
  BY <1>1, <1>2
  DEF ZoneSetBalance, SetZoneSource, ZoneSetSource, ZoneSetSoundMode, SoundSetSoundMode,
      LoadEqualizerPreset, ZoneSetEqualizerPreset, SoundSetEqualizerPreset,
      LoadLowpassCrossover, ZoneSetLowpassFrequency, SoundSetLowpassFrequency,
      LoadHighpassCrossover, ZoneSetHighpassFrequency, SoundSetHighpassFrequency,
      ZoneSetVolumeFixed, SetFixed, SetZoneMute, OutputSetMute, SetMute,
      SetZoneVolume, OutputSetVolume

LEMMA LoadedTone ==
  ASSUME NEW zone, "tone" \in DOMAIN zone, zone = [f \in DOMAIN zone |-> zone[f]],
         NEW w \in FullZones
  PROVE  Loads(LoadTone(zone, w.tone), zone, {"tone"}, w)
<1>1. w.tone.bass \in Tones /\ w.tone.treble \in Tones
  BY FullZoneHas
<1>2. SetTone(zone.tone, w.tone) = Set(zone.tone, w.tone)
  BY <1>1 DEF SetTone, SetBass, SetTreble, SetWithin, Set, Failed
<1> DEFINE o == LoadTone(zone, w.tone)
<1>3. /\ DOMAIN o = {"status", "zone", "lines", "dirty"}
      /\ o.zone = [zone EXCEPT !.tone = w.tone] /\ o.dirty = FALSE
      /\ o.status \in {"already", "success"}
  BY <1>2 DEF LoadTone, Stored, ZoneSetTone, SoundSetTone, SetField, Set
<1>4. [zone EXCEPT !.tone = w.tone] = Put(zone, {"tone"}, w)
  BY DEF Put
<1>. HIDE DEF o
<1>5. o.dirty = \E f \in {"tone"} \ {"tone"} : w[f] # zone[f]
  BY <1>3
<1>6. ~ Failed(o)
  BY <1>3 DEF Failed
<1>. QED  BY <1>3, <1>4, <1>5, <1>6 DEF Loads, o

LEMMA LoadedBands ==
  ASSUME NEW zone, "bands" \in DOMAIN zone, zone = [f \in DOMAIN zone |-> zone[f]],
         zone.bands \in [Bands -> BandLevels \cup {Null}],
         NEW w \in FullZones
  PROVE  Loads(LoadBands(zone, w.bands), zone, {"bands"}, w)
<1> DEFINE r == [b \in Bands |-> SetLevel(zone.bands[b], w.bands[b])]
           o == LoadBands(zone, w.bands)
<1>1. w.bands \in [Bands -> BandLevels]
  BY FullZoneHas
<1>2. \A b \in Bands : SetLevel(zone.bands[b], w.bands[b]) = Set(zone.bands[b], w.bands[b])
  BY <1>1 DEF SetLevel, SetWithin
<1>3. \A b \in Bands : /\ r[b].value = w.bands[b]
                       /\ r[b].status \in {"already", "success"}
                       /\ Changed(r[b]) <=> w.bands[b] # zone.bands[b]
  <2> TAKE b \in Bands
  <2>1. r[b] = Set(zone.bands[b], w.bands[b])
    BY <1>2
  <2>. HIDE DEF r
  <2>. QED  BY <2>1 DEF Set, Changed
<1>4. [b \in Bands |-> r[b].value] = w.bands
  BY <1>1, <1>3
<1>5. (\E b \in Bands : Changed(r[b])) <=> w.bands # zone.bands
  BY <1>1, <1>3
<1>6. EqualizerBandsMax \in Bands
  BY RangesAssumption DEF Bands
<1>7. o = [Silent([zone EXCEPT !.bands = [b \in Bands |-> r[b].value]])
             EXCEPT !.status = r[EqualizerBandsMax].status,
                    !.dirty = \E b \in Bands : Changed(r[b])]
  BY DEF LoadBands
<1>. HIDE DEF r, o
<1>8. /\ DOMAIN o = {"status", "zone", "lines", "dirty"}
      /\ o.zone = [zone EXCEPT !.bands = w.bands]
      /\ o.dirty = \E b \in Bands : Changed(r[b])
      /\ o.status = r[EqualizerBandsMax].status
  BY <1>4, <1>7 DEF Silent
<1>9. [zone EXCEPT !.bands = w.bands] = Put(zone, {"bands"}, w)
  BY DEF Put
<1>10. o.dirty = \E f \in {"bands"} \ {"tone"} : w[f] # zone[f]
  BY <1>5, <1>8
<1>11. ~ Failed(o)
  BY <1>3, <1>6, <1>8 DEF Failed
<1>. QED  BY <1>8, <1>9, <1>10, <1>11 DEF Loads, o

LEMMA ZoneFunction ==
  ASSUME NEW zone \in Zones
  PROVE  zone = [f \in DOMAIN zone |-> zone[f]]
BY DEF Zones, ZonesWith

LEMMA PutTyped ==
  ASSUME NEW zone \in Zones, NEW F \in SUBSET DOMAIN zone, NEW new \in FullZones
  PROVE  Put(zone, F, new) \in Zones
<1> DEFINE p == Put(zone, F, new)
<1>1. DOMAIN p = DOMAIN zone /\ \A f \in DOMAIN zone : p[f] \in {new[f], zone[f]}
  BY DEF Put
<1>2. p = [f \in DOMAIN zone |-> p[f]]
  BY DEF Put
<1>. HIDE DEF p
<1>3. new \in Zones
  BY FullZoneHas
<1>4. /\ p.name \in KeptNames \cup {Null}
      /\ p.source \in 1..SourcesMax \cup {Null}
      /\ p.volume \in Volumes \cup {Null}
      /\ p.mute \in BOOLEAN \cup {Null}
      /\ p.fixed \in BOOLEAN \cup {Null}
      /\ p.balance \in Balances \cup {Null}
      /\ p.mode \in SoundModes \cup {Null}
      /\ p.bands \in [Bands -> BandLevels \cup {Null}]
      /\ p.preset \in 1..EqualizerPresetsMax \cup {Null}
      /\ p.tone \in [bass : Tones \cup {Null}, treble : Tones \cup {Null}]
      /\ p.lowpass \in Lowpasses \cup {Null}
      /\ p.highpass \in Highpasses \cup {Null}
  BY <1>1, <1>3, ZoneHas
<1>5. p = [name |-> p.name, source |-> p.source, volume |-> p.volume,
           mute |-> p.mute, fixed |-> p.fixed, balance |-> p.balance,
           mode |-> p.mode, bands |-> p.bands, preset |-> p.preset,
           tone |-> p.tone, lowpass |-> p.lowpass, highpass |-> p.highpass]
  BY <1>2, ZoneHas
<1>6. p \in Zones
  BY <1>4, <1>5 DEF Zones, ZonesWith
<1>. QED  BY <1>6 DEF p

LEMMA NameKept ==
  ASSUME NEW name \in KeptNames
  PROVE  Len(name) \in Nat /\ Shortened(name, Len(name)) = name
BY NamesAssumption DEF KeptNames, Shortened

\* A name that was saved is loaded, or is the beginning of the one it finds.
LEMMA NameLoaded ==
  ASSUME NEW old \in KeptNames \cup {Null}, NEW new \in KeptNames
  PROVE  LET r == SetName(old, new)
         IN /\ r.value \in KeptNames /\ r.status \in {"already", "success"}
            /\ r.status = "success" <=> r.value # old
            /\ old = Null => r.value = new
<1>1. Len(new) \in Nat /\ Shortened(new, Len(new)) = new /\ ~ (Len(new) > NameLengthMax)
  BY NameKept, RangesAssumption DEF KeptNames
<1>2. CASE old # Null /\ Len(new) <= Len(old) /\ Shortened(old, Len(new)) = new
  BY <1>2 DEF SetName
<1>3. CASE ~ (old # Null /\ Len(new) <= Len(old) /\ Shortened(old, Len(new)) = new)
  <2>1. SetName(old, new) = [status |-> "success", value |-> new]
    BY <1>1, <1>3 DEF SetName
  <2>2. new # old
    BY <1>1, <1>3, NullIsNoValue
  <2>. QED  BY <2>1, <2>2
<1>. QED  BY <1>2, <1>3

LEMMA LoadedName ==
  ASSUME NEW zone \in Zones, NEW w \in FullZones, NEW new,
         new.name = SetName(zone.name, w.name).value
  PROVE  Loads(Stored(OutputSetName(zone, w.name)), zone, {"name"}, new)
<1> DEFINE r == SetName(zone.name, w.name)
           o == Stored(OutputSetName(zone, w.name))
<1>1. /\ r.value \in KeptNames /\ r.status \in {"already", "success"}
      /\ r.status = "success" <=> r.value # zone.name
  BY NameLoaded, ZoneHas, FullZoneHas
<1>. HIDE DEF r
<1>2. /\ DOMAIN o = {"status", "zone", "lines", "dirty"}
      /\ o.status = r.status /\ o.zone = [zone EXCEPT !.name = r.value]
      /\ o.dirty = (r.status = "success")
  BY DEF Stored, OutputSetName, SetField, Changed, r
<1>3. new.name = r.value
  BY DEF r
<1>4. [zone EXCEPT !.name = r.value] = Put(zone, {"name"}, new)
  <2>1. zone = [f \in DOMAIN zone |-> zone[f]] /\ "name" \in DOMAIN zone
    BY DEF Zones, ZonesWith
  <2>. QED  BY <1>3, <2>1 DEF Put
<1>. HIDE DEF o
<1>5. o.dirty = \E f \in {"name"} \ {"tone"} : new[f] # zone[f]
  BY <1>1, <1>2, <1>3
<1>6. ~ Failed(o)
  BY <1>1, <1>2 DEF Failed
<1>. QED  BY <1>2, <1>4, <1>5, <1>6 DEF Loads, o

\* Of a zone that was saved everything that was is loaded, and it is dirty
\* when anything but a tone was different.
LEMMA LoadedZone ==
  ASSUME NEW zone \in Zones, NEW w \in FullZones, NEW new,
         new = [w EXCEPT !.name = SetName(zone.name, w.name).value]
  PROVE  /\ new \in FullZones
         /\ SavedFields(new) = SavedFields(w)
         /\ Loads(LoadZone(zone, SaveZone(w)), zone, SavedFields(w), new)
<1> DEFINE D == DOMAIN zone
           saved == SaveZone(w)
<1>1. D = {"name", "source", "volume", "mute", "fixed", "balance",
           "mode", "bands", "preset", "tone", "lowpass", "highpass"}
  BY ZoneHas
<1>2. new \in FullZones
  <2>1. SetName(zone.name, w.name).value \in KeptNames
    BY NameLoaded, ZoneHas, FullZoneHas
  <2>. QED  BY <2>1 DEF FullZones, ZonesWith
<1>3. /\ new.name = SetName(zone.name, w.name).value
      /\ new.source = w.source /\ new.volume = w.volume /\ new.mute = w.mute
      /\ new.fixed = w.fixed /\ new.balance = w.balance /\ new.mode = w.mode
      /\ new.bands = w.bands /\ new.preset = w.preset /\ new.tone = w.tone
      /\ new.lowpass = w.lowpass /\ new.highpass = w.highpass
  BY DEF FullZones, ZonesWith
<1>4. \A f \in SavedFields(w) : saved[f] = w[f]
  BY DEF SaveZone, Restrict
<1>5. /\ saved.name = w.name /\ saved.source = new.source /\ saved.volume = new.volume
      /\ saved.mute = new.mute /\ saved.fixed = new.fixed /\ saved.balance = new.balance
      /\ saved.mode = new.mode
      /\ new.mode = "equalizer" => saved.bands = new.bands
      /\ new.mode = "preset" => saved.preset = new.preset
      /\ new.mode = "tone" => saved.tone = new.tone
      /\ new.mode = "lowpass" => saved.lowpass = new.lowpass
      /\ new.mode = "highpass" => saved.highpass = new.highpass
  BY <1>3, <1>4, SavedFieldsAre
<1>6. new.mode \in SoundModes
  BY <1>2, FullZoneHas
<1>. HIDE DEF saved
<1>7. ASSUME NEW z \in Zones
      PROVE  Loads(LoadVolume(z, saved), z, {"fixed", "mute", "volume"}, new)
  <2> DEFINE fixed == Stored(ZoneSetVolumeFixed(z, saved.fixed))
             mute == Joined(fixed, SetZoneMute(fixed.zone, saved.mute))
             volume == Joined(mute, SetZoneVolume(mute.zone, saved.volume))
  <2>0. /\ DOMAIN z = D
        /\ \A F \in SUBSET D : Put(z, F, new) \in Zones
    BY <1>2, ZoneHas, PutTyped
  <2>1. Loads(fixed, z, {"fixed"}, new)
    BY <1>2, <1>5, LoadSteps, ZoneHas, ZoneFunction
  <2>2. fixed.zone \in Zones
    BY <1>1, <2>0, <2>1 DEF Loads
  <2>3. Loads(mute, z, {"fixed"} \cup {"mute"}, new)
    <3>1. Loads(SetZoneMute(fixed.zone, saved.mute), fixed.zone, {"mute"}, new)
      BY <1>2, <1>5, <2>2, LoadSteps, ZoneHas, ZoneFunction
    <3>2. {"fixed"} \in SUBSET DOMAIN z /\ {"mute"} \in SUBSET DOMAIN z
      BY <1>1, <2>0
    <3>. HIDE DEF fixed
    <3>. QED  BY <2>1, <3>1, <3>2, LoadsJoined
  <2>4. mute.zone \in Zones
    BY <1>1, <2>0, <2>3 DEF Loads
  <2>5. Loads(volume, z, ({"fixed"} \cup {"mute"}) \cup {"volume"}, new)
    <3>1. Loads(SetZoneVolume(mute.zone, saved.volume), mute.zone, {"volume"}, new)
      BY <1>2, <1>5, <2>4, LoadSteps, ZoneHas, ZoneFunction
    <3>2. ({"fixed"} \cup {"mute"}) \in SUBSET DOMAIN z /\ {"volume"} \in SUBSET DOMAIN z
      BY <1>1, <2>0
    <3>. HIDE DEF mute
    <3>. QED  BY <2>3, <3>1, <3>2, LoadsJoined
  <2>6. ({"fixed"} \cup {"mute"}) \cup {"volume"} = {"fixed", "mute", "volume"}
    OBVIOUS
  <2>. QED  BY <2>5, <2>6 DEF LoadVolume
<1>8. ASSUME NEW z \in Zones
      PROVE  Loads(LoadSoundMode(z, saved), z, {"mode"} \cup ModeParameters(new.mode), new)
  <2> DEFINE mode == Stored(ZoneSetSoundMode(z, saved.mode))
             left == mode.zone
  <2>1. Loads(mode, z, {"mode"}, new)
    BY <1>2, <1>5, LoadSteps, ZoneHas, ZoneFunction
  <2>2. left \in Zones
    <3>1. {"mode"} \in SUBSET DOMAIN z
      BY ZoneHas
    <3>. QED  BY <1>2, <2>1, <3>1, PutTyped DEF Loads
  <2>. HIDE DEF mode
  <2>3. /\ left = [f \in DOMAIN left |-> left[f]]
        /\ DOMAIN left = D
        /\ left.bands \in [Bands -> BandLevels \cup {Null}]
    BY <2>2, ZoneFunction, ZoneHas
  <2> DEFINE F == ModeParameters(new.mode)
             parameters ==
               CASE saved.mode = "equalizer" -> LoadBands(left, saved.bands)
                 [] saved.mode = "preset" -> LoadEqualizerPreset(left, saved.preset)
                 [] saved.mode = "tone" -> LoadTone(left, saved.tone)
                 [] saved.mode = "lowpass" -> LoadLowpassCrossover(left, saved.lowpass)
                 [] saved.mode = "highpass" -> LoadHighpassCrossover(left, saved.highpass)
                 [] OTHER -> Silent(left)
  <2>4. Loads(parameters, left, F, new) /\ F \in SUBSET D
    <3>. HIDE DEF left
    <3>1. CASE new.mode = "equalizer"
      <4>1. parameters = LoadBands(left, new.bands) /\ F = {"bands"}
        BY <1>5, <3>1 DEF ModeParameters
      <4>2. Loads(LoadBands(left, new.bands), left, {"bands"}, new)
        BY <1>1, <1>2, <2>3, LoadedBands
      <4>. QED  BY <1>1, <4>1, <4>2
    <3>2. CASE new.mode = "preset"
      <4>1. parameters = LoadEqualizerPreset(left, new.preset) /\ F = {"preset"}
        BY <1>5, <3>2 DEF ModeParameters
      <4>2. Loads(LoadEqualizerPreset(left, new.preset), left, {"preset"}, new)
        BY <1>1, <1>2, <2>3, LoadSteps
      <4>. QED  BY <1>1, <4>1, <4>2
    <3>3. CASE new.mode = "tone"
      <4>1. parameters = LoadTone(left, new.tone) /\ F = {"tone"}
        BY <1>5, <3>3 DEF ModeParameters
      <4>2. Loads(LoadTone(left, new.tone), left, {"tone"}, new)
        BY <1>1, <1>2, <2>3, LoadedTone
      <4>. QED  BY <1>1, <4>1, <4>2
    <3>4. CASE new.mode = "lowpass"
      <4>1. parameters = LoadLowpassCrossover(left, new.lowpass) /\ F = {"lowpass"}
        BY <1>5, <3>4 DEF ModeParameters
      <4>2. Loads(LoadLowpassCrossover(left, new.lowpass), left, {"lowpass"}, new)
        BY <1>1, <1>2, <2>3, LoadSteps
      <4>. QED  BY <1>1, <4>1, <4>2
    <3>5. CASE new.mode = "highpass"
      <4>1. parameters = LoadHighpassCrossover(left, new.highpass) /\ F = {"highpass"}
        BY <1>5, <3>5 DEF ModeParameters
      <4>2. Loads(LoadHighpassCrossover(left, new.highpass), left, {"highpass"}, new)
        BY <1>1, <1>2, <2>3, LoadSteps
      <4>. QED  BY <1>1, <4>1, <4>2
    <3>6. CASE new.mode = "disabled"
      <4>1. parameters = Silent(left) /\ F = {}
        BY <1>5, <3>6 DEF ModeParameters
      <4>2. Loads(Silent(left), left, {}, new)
        <5>1. left = Put(left, {}, new)
          BY <2>3 DEF Put
        <5>2. /\ DOMAIN Silent(left) = {"status", "zone", "lines", "dirty"}
              /\ Silent(left).status = "success" /\ Silent(left).zone = left
              /\ Silent(left).dirty = FALSE
          BY DEF Silent
        <5>3. FALSE = \E f \in {} \ {"tone"} : new[f] # left[f]
          OBVIOUS
        <5>. QED  BY <5>1, <5>2, <5>3 DEF Loads, Failed
      <4>. QED  BY <4>1, <4>2
    <3>. QED
      BY <1>6, <3>1, <3>2, <3>3, <3>4, <3>5, <3>6 DEF SoundModes
  <2>5. LoadSoundMode(z, saved) = Joined(mode, parameters)
    BY DEF LoadSoundMode, mode
  <2>. HIDE DEF parameters, F
  <2>6. {"mode"} \in SUBSET DOMAIN z /\ F \in SUBSET DOMAIN z
    BY <1>1, <2>4, ZoneHas
  <2>7. Loads(Joined(mode, parameters), z, {"mode"} \cup F, new)
    BY <2>1, <2>4, <2>6, LoadsJoined
  <2>. QED  BY <2>5, <2>7 DEF F
<1> DEFINE balance == Stored(ZoneSetBalance(zone, saved.balance))
           name == Joined(balance, Stored(OutputSetName(balance.zone, saved.name)))
           source == Joined(name, SetZoneSource(name.zone, saved.source))
           mode == Joined(source, LoadSoundMode(source.zone, saved))
           F1 == {"balance"}
           F2 == F1 \cup {"name"}
           F3 == F2 \cup {"source"}
           M4 == {"mode"} \cup ModeParameters(new.mode)
           F4 == F3 \cup M4
           F5 == F4 \cup {"fixed", "mute", "volume"}
<1>9. /\ F1 \in SUBSET D /\ F2 \in SUBSET D /\ F3 \in SUBSET D /\ F4 \in SUBSET D
      /\ M4 \in SUBSET D
  BY <1>1 DEF ModeParameters
<1>10. \A o : \A F \in SUBSET D : Loads(o, zone, F, new) => o.zone \in Zones
  BY <1>2, PutTyped DEF Loads
<1>11. Loads(balance, zone, F1, new)
  BY <1>2, <1>5, LoadSteps, ZoneHas, ZoneFunction
<1>12. balance.zone \in Zones /\ balance.zone.name = zone.name
  <2>1. balance.zone \in Zones
    BY <1>9, <1>10, <1>11
  <2>2. balance.zone = Put(zone, F1, new)
    BY <1>11 DEF Loads
  <2>. QED  BY <1>1, <2>1, <2>2 DEF Put
<1>. HIDE DEF balance
<1>13. Loads(name, zone, F2, new)
  <2>1. Loads(Stored(OutputSetName(balance.zone, saved.name)), balance.zone, {"name"}, new)
    BY <1>3, <1>5, <1>12, LoadedName
  <2>2. {"name"} \in SUBSET D
    BY <1>1
  <2>. QED  BY <1>9, <1>11, <2>1, <2>2, LoadsJoined
<1>. HIDE DEF name
<1>14. Loads(source, zone, F3, new)
  <2>1. name.zone \in Zones
    BY <1>9, <1>10, <1>13
  <2>2. Loads(SetZoneSource(name.zone, saved.source), name.zone, {"source"}, new)
    BY <1>2, <1>5, <2>1, LoadSteps, ZoneHas, ZoneFunction
  <2>3. {"source"} \in SUBSET D
    BY <1>1
  <2>. HIDE DEF F2
  <2>. QED  BY <1>9, <1>13, <2>2, <2>3, LoadsJoined
<1>. HIDE DEF source
<1>15. Loads(mode, zone, F4, new)
  <2>1. source.zone \in Zones
    BY <1>9, <1>10, <1>14
  <2>2. Loads(LoadSoundMode(source.zone, saved), source.zone, M4, new)
    BY <1>8, <2>1
  <2>. HIDE DEF F3, M4
  <2>. QED  BY <1>9, <1>14, <2>2, LoadsJoined
<1>. HIDE DEF mode
<1>16. Loads(Joined(mode, LoadVolume(mode.zone, saved)), zone, F5, new)
  <2>1. mode.zone \in Zones
    BY <1>9, <1>10, <1>15
  <2>2. Loads(LoadVolume(mode.zone, saved), mode.zone, {"fixed", "mute", "volume"}, new)
    BY <1>7, <2>1
  <2>3. {"fixed", "mute", "volume"} \in SUBSET D
    BY <1>1
  <2>. HIDE DEF F4
  <2>. QED  BY <1>9, <1>15, <2>2, <2>3, LoadsJoined
<1>17. LoadZone(zone, saved) = Joined(mode, LoadVolume(mode.zone, saved))
  BY DEF LoadZone, mode, source, name, balance
<1>18. F5 = SavedFields(w)
  BY <1>3 DEF SavedFields, VolumeFields
<1>. QED  BY <1>2, <1>3, <1>16, <1>17, <1>18 DEF saved, SavedFields

-----------------------------------------------------------------------------
(***************************************************************************)
(* The models of the server as a whole                                     *)
(***************************************************************************)
Parts == {"zones", "groups", "presets", "favorites", "sources", "panel", "infrared", "network"}

ServerModels ==
  [zones : ZoneLists, groups : [1..GroupsMax -> Groups],
   presets : [1..EqualizerPresetsMax -> Presets],
   favorites : [1..FavoritesMax -> Items], sources : [1..SourcesMax -> Items],
   panel : PanelsWith({Null}), infrared : InfraredsWith({Null}),
   network : NetworksWith({Null}),
   refreshed : BOOLEAN, expects : {{}}, buffer : {<<>>}, missed : {FALSE}]

LEMMA ModelsHave ==
  ASSUME NEW models \in ServerModels
  PROVE  /\ DOMAIN models = {"zones", "groups", "presets", "favorites", "sources", "panel",
                            "infrared", "network", "refreshed", "expects", "buffer", "missed"}
         /\ models.zones \in ZoneLists /\ models.groups \in [1..GroupsMax -> Groups]
         /\ models.presets \in [1..EqualizerPresetsMax -> Presets]
         /\ models.favorites \in [1..FavoritesMax -> Items]
         /\ models.sources \in [1..SourcesMax -> Items]
         /\ models.panel \in PanelsWith({Null}) /\ models.infrared \in InfraredsWith({Null})
         /\ models.network \in NetworksWith({Null})
BY DEF ServerModels

LEMMA ModelsTake ==
  ASSUME NEW models \in ServerModels, NEW v
  PROVE  /\ v \in ZoneLists => [models EXCEPT !.zones = v] \in ServerModels
         /\ v \in [1..GroupsMax -> Groups] => [models EXCEPT !.groups = v] \in ServerModels
         /\ v \in [1..EqualizerPresetsMax -> Presets] => [models EXCEPT !.presets = v] \in ServerModels
         /\ v \in [1..FavoritesMax -> Items] => [models EXCEPT !.favorites = v] \in ServerModels
         /\ v \in [1..SourcesMax -> Items] => [models EXCEPT !.sources = v] \in ServerModels
         /\ v \in PanelsWith({Null}) => [models EXCEPT !.panel = v] \in ServerModels
         /\ v \in InfraredsWith({Null}) => [models EXCEPT !.infrared = v] \in ServerModels
         /\ v \in NetworksWith({Null}) => [models EXCEPT !.network = v] \in ServerModels
BY DEF ServerModels

LEMMA NullsTyped == ServerNulls \in ServerModels /\ ClientNulls \in ServerModels
<1>1. ZoneNulls \in Zones
  BY DEF ZoneNulls, Zones, ZonesWith
<1>2. GroupNulls \in Groups
  BY DEF GroupNulls, Groups
<1>3. PresetNulls \in Presets
  BY DEF PresetNulls, Presets, PresetsWith
<1>4. /\ PanelNulls \in PanelsWith({Null}) /\ InfraredNulls \in InfraredsWith({Null})
      /\ NetworkNulls \in NetworksWith({Null})
  BY DEF PanelNulls, PanelsWith, InfraredNulls, InfraredsWith, NetworkNulls, NetworksWith
<1>5. Null \in Items
  BY DEF Items
<1>6. ClientNulls \in ServerModels
  BY <1>1, <1>2, <1>3, <1>4, <1>5 DEF ClientNulls, ServerModels, ZoneLists
<1>. QED  BY <1>6 DEF ServerNulls, ServerModels

LEMMA SavedParts ==
  ASSUME NEW models
  PROVE  LET saved == SaveToBackupConfiguration(models)
         IN /\ DOMAIN saved = Parts
            /\ saved.zones = SaveZones(models.zones) /\ saved.groups = SaveGroups(models.groups)
            /\ saved.presets = SavePresets(models.presets)
            /\ saved.favorites = SaveNames(models.favorites)
            /\ saved.sources = SaveNames(models.sources)
            /\ saved.panel = models.panel /\ saved.infrared = models.infrared
            /\ saved.network = models.network
BY DEF SaveToBackupConfiguration, Parts

LEMMA BackupHas ==
  ASSUME NEW saved \in SavedBackups
  PROVE  /\ DOMAIN saved = Parts
         /\ saved = [part \in Parts |-> saved[part]]
         /\ saved.zones \in [1..ZonesMax -> SavedZones] \cup {Missing}
         /\ saved.groups \in [1..GroupsMax -> SavedGroups] \cup {Missing}
         /\ saved.presets \in [1..EqualizerPresetsMax -> PresetsWith({})] \cup {Missing}
         /\ saved.favorites \in [1..FavoritesMax -> KeptNames] \cup {Missing}
         /\ saved.sources \in [1..SourcesMax -> KeptNames] \cup {Missing}
         /\ saved.panel \in PanelsWith({Null}) /\ saved.infrared \in InfraredsWith({Null})
         /\ saved.network \in NetworksWith({Null})
BY DEF SavedBackups, SavedContainers, Parts

LEMMA MissingIsNone ==
  /\ Missing \notin [1..ZonesMax -> SavedZones]
  /\ Missing \notin [1..GroupsMax -> SavedGroups]
  /\ Missing \notin [1..EqualizerPresetsMax -> PresetsWith({})]
  /\ Missing \notin [1..FavoritesMax -> KeptNames]
  /\ Missing \notin [1..SourcesMax -> KeptNames]
<1>1. /\ DOMAIN SavedContainers = {"zones", "groups", "presets", "favorites", "sources"}
      /\ SavedContainers.zones = [1..ZonesMax -> SavedZones]
      /\ SavedContainers.groups = [1..GroupsMax -> SavedGroups]
      /\ SavedContainers.presets = [1..EqualizerPresetsMax -> PresetsWith({})]
      /\ SavedContainers.favorites = [1..FavoritesMax -> KeptNames]
      /\ SavedContainers.sources = [1..SourcesMax -> KeptNames]
  BY DEF SavedContainers
<1>2. \A part \in {"zones", "groups", "presets", "favorites", "sources"} :
        Missing \notin SavedContainers[part]
  BY <1>1, BackupsAssumption
<1>. QED  BY <1>1, <1>2

LEMMA SavedGroupIs ==
  ASSUME NEW group
  PROVE  SaveGroup(group) = [name |-> group.name, zones |-> group.zones]
BY DEF SaveGroup, Restrict

LEMMA SavedPresetFull ==
  ASSUME NEW preset \in Presets
  PROVE  CanSavePreset(preset) <=> preset \in PresetsWith({})
<1>1. /\ ~ Failed(PresetGetName(preset)) <=> preset.name # Null
      /\ \A b \in Bands : ~ Failed(GetLevel(PresetGetEqualizerBand(preset, b).value))
                            <=> preset.bands[b] # Null
  BY DEF Failed, PresetGetName, GetName, Get, GetLevel, PresetGetEqualizerBand,
         GetEqualizerBand, IsValidIdentifier
<1>2. CanSavePreset(preset) <=> preset.name # Null /\ \A b \in Bands : preset.bands[b] # Null
  BY <1>1 DEF CanSavePreset
<1>3. preset = [name |-> preset.name, bands |-> preset.bands]
  BY DEF Presets, PresetsWith
<1>4. preset \in PresetsWith({}) <=> preset.name \in KeptNames /\ preset.bands \in [Bands -> BandLevels]
  BY <1>3 DEF PresetsWith
<1>. QED  BY <1>2, <1>4, PresetHas, NullIsNoValue

\* What is saved is a backup.
LEMMA SavedTyped ==
  ASSUME NEW models \in ServerModels
  PROVE  SaveToBackupConfiguration(models) \in SavedBackups
<1> DEFINE saved == SaveToBackupConfiguration(models)
<1>1. SaveZones(models.zones) \in [1..ZonesMax -> SavedZones] \cup {Missing}
  <2>1. DOMAIN models.zones = 1..ZonesMax /\ \A z \in 1..ZonesMax : models.zones[z] \in Zones
    BY ModelsHave DEF ZoneLists
  <2>. QED  BY <2>1, SavedZoneTyped DEF SaveZones
<1>2. SaveGroups(models.groups) \in [1..GroupsMax -> SavedGroups] \cup {Missing}
  <2>1. DOMAIN models.groups = 1..GroupsMax /\ \A g \in 1..GroupsMax : models.groups[g] \in Groups
    BY ModelsHave
  <2>2. \A group \in Groups : CanSaveGroup(group) => SaveGroup(group) \in SavedGroups
    BY SavedGroupIs, GroupHas DEF CanSaveGroup, SavedGroups
  <2>. QED  BY <2>1, <2>2 DEF SaveGroups
<1>3. SavePresets(models.presets) \in [1..EqualizerPresetsMax -> PresetsWith({})] \cup {Missing}
  <2>1. models.presets \in [1..EqualizerPresetsMax -> Presets]
    BY ModelsHave
  <2>. QED  BY <2>1, SavedPresetFull DEF SavePresets
<1>4. ASSUME NEW n, NEW names \in [1..n -> Items]
      PROVE  SaveNames(names) \in [1..n -> KeptNames] \cup {Missing}
  BY DEF SaveNames, HasNull, Items
<1>5. /\ SaveNames(models.favorites) \in [1..FavoritesMax -> KeptNames] \cup {Missing}
      /\ SaveNames(models.sources) \in [1..SourcesMax -> KeptNames] \cup {Missing}
  BY <1>4, ModelsHave
<1>. QED
  BY <1>1, <1>2, <1>3, <1>5, ModelsHave DEF SaveToBackupConfiguration, SavedBackups, SavedContainers

\* Models of which every part is replaced.
LEMMA PartsReplaced ==
  ASSUME NEW models \in ServerModels,
         NEW zones \in ZoneLists, NEW groups \in [1..GroupsMax -> Groups],
         NEW presets \in [1..EqualizerPresetsMax -> Presets],
         NEW favorites \in [1..FavoritesMax -> Items], NEW sources \in [1..SourcesMax -> Items],
         NEW panel \in PanelsWith({Null}), NEW infrared \in InfraredsWith({Null}),
         NEW network \in NetworksWith({Null})
  PROVE  [models EXCEPT !.network = network, !.favorites = favorites, !.groups = groups,
                        !.panel = panel, !.infrared = infrared, !.presets = presets,
                        !.sources = sources, !.zones = zones] \in ServerModels
BY DEF ServerModels

LEMMA LoadedParts ==
  ASSUME NEW models \in ServerModels, NEW saved
  PROVE  LET left == LoadFromBackupConfiguration(models, saved)
         IN left = [models EXCEPT !.network = saved.network,
                                  !.favorites = LoadFavorites(models.favorites, saved.favorites),
                                  !.groups = LoadGroups(models.groups, saved.groups),
                                  !.panel = saved.panel, !.infrared = saved.infrared,
                                  !.presets = LoadPresets(models.presets, saved.presets),
                                  !.sources = LoadSources(models.sources, saved.sources),
                                  !.zones = LoadZones(models.zones, saved.zones)]
<1>1. \A old, new : ReplaceModel(old, new).model = new
  BY DEF ReplaceModel, ModelKept
<1>2. /\ LoadPanel(models.panel, saved.panel).model = saved.panel
      /\ LoadInfrared(models.infrared, saved.infrared).model = saved.infrared
      /\ LoadNetwork(models.network, saved.network).model = saved.network
  BY <1>1 DEF LoadPanel, LoadInfrared, LoadNetwork
<1>3. LoadFromBackupConfiguration(models, saved)
        = [models EXCEPT !.network = LoadNetwork(models.network, saved.network).model,
                         !.favorites = LoadFavorites(models.favorites, saved.favorites),
                         !.groups = LoadGroups(models.groups, saved.groups),
                         !.panel = LoadPanel(models.panel, saved.panel).model,
                         !.infrared = LoadInfrared(models.infrared, saved.infrared).model,
                         !.presets = LoadPresets(models.presets, saved.presets),
                         !.sources = LoadSources(models.sources, saved.sources),
                         !.zones = LoadZones(models.zones, saved.zones)]
  BY DEF LoadFromBackupConfiguration
<1>. QED  BY <1>2, <1>3

LEMMA LoadedZoneTyped ==
  ASSUME NEW zone \in Zones, NEW saved \in SavedZones
  PROVE  LoadZone(zone, saved).zone \in Zones
<1>1. PICK w \in FullZones : saved = SaveZone(w)
  BY DEF SavedZones, FullZones
<1> DEFINE new == [w EXCEPT !.name = SetName(zone.name, w.name).value]
<1>2. new \in FullZones /\ Loads(LoadZone(zone, saved), zone, SavedFields(w), new)
  BY <1>1, LoadedZone
<1>. HIDE DEF new
<1>3. SavedFields(w) \in SUBSET DOMAIN zone
  BY SavedFieldsAre, ZoneHas
<1>. QED  BY <1>2, <1>3, PutTyped DEF Loads

LEMMA LoadedGroup ==
  ASSUME NEW group \in Groups, NEW saved \in SavedGroups
  PROVE  LET left == LoadGroup(group, {}, saved).group
         IN /\ left \in Groups
            /\ left.name = SetName(group.name, saved.name).value
            /\ left.zones = group.zones \cup saved.zones
<1> DEFINE n == SetName(group.name, saved.name).value
           named == [group EXCEPT !.name = n]
           left == LoadGroup(group, {}, saved).group
<1>1. saved.name \in KeptNames /\ saved.zones \in SUBSET (1..ZonesMax)
  BY DEF SavedGroups
<1>2. n \in KeptNames
  BY <1>1, NameLoaded, GroupHas
<1>3. left = [named EXCEPT !.zones = group.zones \cup saved.zones]
  <2>1. OutputSetName(group, saved.name).value = named
    BY DEF OutputSetName, SetField
  <2>2. left = GroupZonesLoad(OutputSetName(group, saved.name).value, saved.zones)
    BY DEF LoadGroup, GroupKept
  <2>3. named.zones = group.zones
    BY GroupHas
  <2>. HIDE DEF left, named
  <2>. QED  BY <2>1, <2>2, <2>3 DEF GroupZonesLoad
<1>. HIDE DEF left, n
<1>4. named \in Groups
  BY <1>2, GroupFields
<1>. HIDE DEF named
<1>5. group.zones \cup saved.zones \in SUBSET (1..ZonesMax)
  BY <1>1, GroupHas
<1>6. left \in Groups
  BY <1>3, <1>4, <1>5, GroupFields
<1>7. named.name = n
  BY GroupHas DEF named
<1>8. left.name = named.name /\ left.zones = group.zones \cup saved.zones
  BY <1>3, <1>4, GroupHas
<1>. QED  BY <1>6, <1>7, <1>8 DEF left, n

LEMMA LoadedPreset ==
  ASSUME NEW preset \in Presets, NEW saved \in PresetsWith({})
  PROVE  LoadPreset(preset, saved).preset
           = [name |-> SetName(preset.name, saved.name).value, bands |-> saved.bands]
<1>1. preset = [name |-> preset.name, bands |-> preset.bands]
  BY DEF Presets, PresetsWith
<1> DEFINE n == SetName(preset.name, saved.name).value
<1>2. PresetSetName(preset, saved.name).value = [preset EXCEPT !.name = n]
  BY DEF PresetSetName, SetField
<1>. HIDE DEF n
<1>3. PresetBandsLoad([preset EXCEPT !.name = n], saved.bands)
        = [name |-> n, bands |-> saved.bands]
  <2> DEFINE old == preset.bands
             new == saved.bands
  <2>1. [preset EXCEPT !.name = n] = [name |-> n, bands |-> old]
    BY <1>1
  <2>. HIDE DEF old, new
  <2>2. [[name |-> n, bands |-> old] EXCEPT !.bands = new] = [name |-> n, bands |-> new]
    OBVIOUS
  <2>. QED  BY <2>1, <2>2 DEF PresetBandsLoad, new
<1>4. \A left : [PresetKept("success", left) EXCEPT !.dirty = left # preset].preset = left
  BY DEF PresetKept
<1>. QED  BY <1>2, <1>3, <1>4 DEF LoadPreset, n

LEMMA LoadedItem ==
  ASSUME NEW item, NEW saved
  PROVE  /\ LoadFavorite(item, saved).item = SetName(item, saved).value
         /\ LoadSource(item, saved).item = SetName(item, saved).value
         /\ \A r : StoredItem(r).item = r.value
BY DEF LoadFavorite, LoadSource, StoredItem, ItemKept, FavoriteSetName, SourceSetName

\* What is loaded are models.
LEMMA LoadedTyped ==
  ASSUME NEW models \in ServerModels, NEW saved \in SavedBackups
  PROVE  LoadFromBackupConfiguration(models, saved) \in ServerModels
<1>1. LoadZones(models.zones, saved.zones) \in ZoneLists
  <2>1. CASE saved.zones = Missing
    BY <2>1, ModelsHave DEF LoadZones
  <2>2. CASE saved.zones # Missing
    <3>1. saved.zones \in [1..ZonesMax -> SavedZones] /\ models.zones \in [1..ZonesMax -> Zones]
      BY <2>2, BackupHas, ModelsHave DEF ZoneLists
    <3>. QED  BY <2>2, <3>1, LoadedZoneTyped DEF LoadZones, ZoneLists
  <2>. QED  BY <2>1, <2>2
<1>2. LoadGroups(models.groups, saved.groups) \in [1..GroupsMax -> Groups]
  <2>1. CASE saved.groups = Missing
    BY <2>1, ModelsHave DEF LoadGroups
  <2>2. CASE saved.groups # Missing
    <3>1. saved.groups \in [1..GroupsMax -> SavedGroups] /\ models.groups \in [1..GroupsMax -> Groups]
      BY <2>2, BackupHas, ModelsHave
    <3>. QED  BY <2>2, <3>1, LoadedGroup DEF LoadGroups
  <2>. QED  BY <2>1, <2>2
<1>3. LoadPresets(models.presets, saved.presets) \in [1..EqualizerPresetsMax -> Presets]
  <2>1. CASE saved.presets = Missing
    BY <2>1, ModelsHave DEF LoadPresets
  <2>2. CASE saved.presets # Missing
    <3>1. /\ saved.presets \in [1..EqualizerPresetsMax -> PresetsWith({})]
          /\ models.presets \in [1..EqualizerPresetsMax -> Presets]
      BY <2>2, BackupHas, ModelsHave
    <3>2. ASSUME NEW preset \in Presets, NEW s \in PresetsWith({})
          PROVE  LoadPreset(preset, s).preset \in Presets
      <4>1. s.name \in KeptNames /\ s.bands \in [Bands -> BandLevels]
        BY DEF PresetsWith
      <4>2. SetName(preset.name, s.name).value \in KeptNames
        BY <4>1, NameLoaded, PresetHas
      <4>3. [name |-> SetName(preset.name, s.name).value, bands |-> s.bands] \in Presets
        BY <4>1, <4>2 DEF Presets, PresetsWith
      <4>. QED  BY <4>3, LoadedPreset
    <3>. QED  BY <2>2, <3>1, <3>2 DEF LoadPresets
  <2>. QED  BY <2>1, <2>2
<1>4. ASSUME NEW item \in Items, NEW s \in KeptNames
      PROVE  LoadFavorite(item, s).item \in Items /\ LoadSource(item, s).item \in Items
  <2>1. SetName(item, s).value \in Items
    BY NameLoaded DEF Items
  <2>. QED  BY <2>1, LoadedItem
<1>5. LoadFavorites(models.favorites, saved.favorites) \in [1..FavoritesMax -> Items]
  <2>1. /\ models.favorites \in [1..FavoritesMax -> Items]
        /\ saved.favorites # Missing => saved.favorites \in [1..FavoritesMax -> KeptNames]
    BY BackupHas, ModelsHave
  <2>. QED  BY <1>4, <2>1 DEF LoadFavorites
<1>6. LoadSources(models.sources, saved.sources) \in [1..SourcesMax -> Items]
  <2>1. /\ models.sources \in [1..SourcesMax -> Items]
        /\ saved.sources # Missing => saved.sources \in [1..SourcesMax -> KeptNames]
    BY BackupHas, ModelsHave
  <2>. QED  BY <1>4, <2>1 DEF LoadSources
<1> DEFINE network == saved.network
           favorites == LoadFavorites(models.favorites, saved.favorites)
           groups == LoadGroups(models.groups, saved.groups)
           panel == saved.panel
           infrared == saved.infrared
           presets == LoadPresets(models.presets, saved.presets)
           sources == LoadSources(models.sources, saved.sources)
           zones == LoadZones(models.zones, saved.zones)
           left == LoadFromBackupConfiguration(models, saved)
<1>7. /\ zones \in ZoneLists /\ groups \in [1..GroupsMax -> Groups]
      /\ presets \in [1..EqualizerPresetsMax -> Presets]
      /\ favorites \in [1..FavoritesMax -> Items] /\ sources \in [1..SourcesMax -> Items]
      /\ panel \in PanelsWith({Null}) /\ infrared \in InfraredsWith({Null})
      /\ network \in NetworksWith({Null})
  BY <1>1, <1>2, <1>3, <1>5, <1>6, BackupHas
<1>8. left = [models EXCEPT !.network = network, !.favorites = favorites, !.groups = groups,
                            !.panel = panel, !.infrared = infrared, !.presets = presets,
                            !.sources = sources, !.zones = zones]
  BY LoadedParts
<1>. HIDE DEF network, favorites, groups, panel, infrared, presets, sources, zones, left
<1>9. left \in ServerModels
  BY <1>7, <1>8, PartsReplaced
<1>. QED  BY <1>9 DEF left

\* A reset leaves models.
LEMMA ResetTyped ==
  ASSUME NEW models \in ServerModels
  PROVE  ResetToDefaultConfiguration(models) \in ServerModels
<1>1. ASSUME NEW z \in 1..ZonesMax, NEW zone \in Zones PROVE ResetZone(zone, z).zone \in Zones
  <2> DEFINE new == ZoneDefaults[z]
             left == [new EXCEPT !.name = SetName(zone.name, new.name).value]
  <2>1. new \in FullZones
    BY FactoryAssumption DEF FullZones
  <2>2. SetName(zone.name, new.name).value \in KeptNames
    BY <2>1, NameLoaded, ZoneHas, FullZoneHas
  <2>3. ResetZone(zone, z).zone = left
    BY DEF ResetZone, Silent
  <2>4. left \in FullZones
    BY <2>1, <2>2 DEF FullZones, ZonesWith
  <2>. QED  BY <2>3, <2>4, FullZoneHas
<1>2. ASSUME NEW g \in 1..GroupsMax, NEW group \in Groups PROVE ResetGroup(group, {}, g).group \in Groups
  <2> DEFINE n == SetName(group.name, GroupDefaults[g].name).value
             named == [group EXCEPT !.name = n]
  <2>1. n \in KeptNames
    BY FactoryAssumption, NameLoaded, GroupHas
  <2>2. OutputSetName(group, GroupDefaults[g].name).value = named
    BY DEF OutputSetName, SetField
  <2>3. GroupClearZones(named).value = [named EXCEPT !.zones = {}]
    BY DEF GroupClearZones, ClearIdentifiers, SetField
  <2>4. ResetGroup(group, {}, g).group = GroupClearZones(named).value
    BY <2>2, StoredGroupDoes DEF ResetGroup
  <2>. HIDE DEF n
  <2>5. named \in Groups
    BY <2>1, GroupFields
  <2>. HIDE DEF named
  <2>6. [named EXCEPT !.zones = {}] \in Groups
    BY <2>5, GroupFields
  <2>. QED  BY <2>3, <2>4, <2>6
<1>3. ASSUME NEW item \in Items
      PROVE  /\ \A f \in 1..FavoritesMax : ResetFavorite(item, f).item \in Items
             /\ \A s \in 1..SourcesMax : ResetSource(item, s).item \in Items
  <2>1. \A name \in KeptNames : SetName(item, name).value \in Items
    BY NameLoaded DEF Items
  <2>2. /\ \A f : ResetFavorite(item, f).item = SetName(item, NameDefaults.favorites[f]).value
        /\ \A s : ResetSource(item, s).item = SetName(item, NameDefaults.sources[s]).value
    BY LoadedItem DEF ResetFavorite, ResetSource, FavoriteSetName, SourceSetName
  <2>. QED  BY <2>1, <2>2, FactoryAssumption
<1>4. /\ \A old, new : ReplaceModel(old, new).model = new
      /\ PanelDefaults \in PanelsWith({Null}) /\ InfraredDefaults \in InfraredsWith({Null})
      /\ NetworkDefaults \in NetworksWith({Null})
  BY FactoryAssumption DEF ReplaceModel, ModelKept, PanelsWith, InfraredsWith, NetworksWith
<1>5. ResetPresets(models.presets).presets \in [1..EqualizerPresetsMax -> Presets]
  <2> DEFINE presets == models.presets
             At(p, i) == IF i = 0 THEN presets[p].name ELSE presets[p].bands[i]
             Setter(p, i) ==
               IF i = 0
               THEN SetName(presets[p].name, PresetDefaults[p].name)
               ELSE SetLevel(presets[p].bands[i], PresetDefaults[p].bands[i])
             places == (DOMAIN presets) \X (0..EqualizerBandsMax)
             Before(x, y) == x[1] < y[1] \/ (x[1] = y[1] /\ x[2] < y[2])
             reached == {x \in places :
                           \A y \in places : Before(y, x) => Changed(Setter(y[1], y[2]))}
             Left(p, i) == IF <<p, i>> \in reached THEN Setter(p, i).value ELSE At(p, i)
             left == [p \in DOMAIN presets |->
                        [name |-> Left(p, 0), bands |-> [b \in Bands |-> Left(p, b)]]]
  <2>1. ResetPresets(presets).presets = left
    BY DEF ResetPresets
  <2>. HIDE DEF reached
  <2>2. presets \in [1..EqualizerPresetsMax -> Presets]
    BY ModelsHave
  <2>3. ASSUME NEW p \in 1..EqualizerPresetsMax
        PROVE  /\ Left(p, 0) \in KeptNames \cup {Null}
               /\ \A b \in Bands : Left(p, b) \in BandLevels \cup {Null}
    <3>1. /\ presets[p].name \in KeptNames \cup {Null}
          /\ presets[p].bands \in [Bands -> BandLevels \cup {Null}]
          /\ PresetDefaults[p].name \in KeptNames
      BY <2>2, PresetHas, FactoryAssumption DEF PresetsWith
    <3>2. Setter(p, 0).value \in KeptNames
      BY <3>1, NameLoaded
    <3>3. ASSUME NEW b \in Bands
          PROVE  /\ b # 0
                 /\ SetLevel(presets[p].bands[b], PresetDefaults[p].bands[b]).value
                      \in BandLevels \cup {Null}
      <4>1. b # 0
        BY RangesAssumption DEF Bands
      <4>2. presets[p].bands[b] \in BandLevels \cup {Null}
        BY <3>1
      <4>3. \A old, new : SetLevel(old, new).value \in BandLevels \cup {old}
        BY DEF SetLevel, SetWithin, Set
      <4>. QED  BY <4>1, <4>2, <4>3
    <3>. QED  BY <3>1, <3>2, <3>3
  <2>. HIDE DEF Left
  <2>4. left \in [1..EqualizerPresetsMax -> Presets]
    BY <2>2, <2>3 DEF Presets, PresetsWith
  <2>. QED  BY <2>1, <2>4
<1> DEFINE zones == [z \in DOMAIN models.zones |-> ResetZone(models.zones[z], z).zone]
           groups == [g \in DOMAIN models.groups |-> ResetGroup(models.groups[g], {}, g).group]
           favorites == [f \in DOMAIN models.favorites |-> ResetFavorite(models.favorites[f], f).item]
           sources == [s \in DOMAIN models.sources |-> ResetSource(models.sources[s], s).item]
<1>6. zones \in ZoneLists
  <2>1. models.zones \in [1..ZonesMax -> Zones]
    BY ModelsHave DEF ZoneLists
  <2>. QED  BY <1>1, <2>1 DEF ZoneLists
<1>7. groups \in [1..GroupsMax -> Groups]
  <2>1. models.groups \in [1..GroupsMax -> Groups]
    BY ModelsHave
  <2>. QED  BY <1>2, <2>1
<1>8. favorites \in [1..FavoritesMax -> Items] /\ sources \in [1..SourcesMax -> Items]
  <2>1. models.favorites \in [1..FavoritesMax -> Items] /\ models.sources \in [1..SourcesMax -> Items]
    BY ModelsHave
  <2>. QED  BY <1>3, <2>1
<1>9. ResetToDefaultConfiguration(models)
        = [models EXCEPT !.network = ResetNetwork(models.network).model,
                         !.favorites = favorites, !.groups = groups,
                         !.panel = ResetPanel(models.panel).model,
                         !.infrared = ResetInfrared(models.infrared).model,
                         !.presets = ResetPresets(models.presets).presets,
                         !.sources = sources, !.zones = zones]
  BY DEF ResetToDefaultConfiguration
<1>10. /\ ResetNetwork(models.network).model \in NetworksWith({Null})
       /\ ResetPanel(models.panel).model \in PanelsWith({Null})
       /\ ResetInfrared(models.infrared).model \in InfraredsWith({Null})
  BY <1>4 DEF ResetPanel, ResetInfrared, ResetNetwork
<1> DEFINE network == ResetNetwork(models.network).model
           panel == ResetPanel(models.panel).model
           infrared == ResetInfrared(models.infrared).model
           presets == ResetPresets(models.presets).presets
           left == ResetToDefaultConfiguration(models)
<1>11. left = [models EXCEPT !.network = network, !.favorites = favorites, !.groups = groups,
                             !.panel = panel, !.infrared = infrared, !.presets = presets,
                             !.sources = sources, !.zones = zones]
  BY <1>9
<1>. HIDE DEF network, favorites, groups, panel, infrared, presets, sources, zones, left
<1>12. left \in ServerModels
  <2>. USE DEF network, panel, infrared, presets
  <2>1. /\ presets \in [1..EqualizerPresetsMax -> Presets] /\ panel \in PanelsWith({Null})
        /\ infrared \in InfraredsWith({Null}) /\ network \in NetworksWith({Null})
    BY <1>5, <1>10
  <2>. HIDE DEF network, panel, infrared, presets
  <2>. QED  BY <1>6, <1>7, <1>8, <1>11, <2>1, PartsReplaced
<1>. QED  BY <1>12 DEF left

-----------------------------------------------------------------------------
(***************************************************************************)
(* A backup and what a save would write                                    *)
(***************************************************************************)
Save(models) == SaveToBackupConfiguration(models)

\* Two backups are the same, but for the mute of the zones T.
Same(a, b, T) ==
  /\ \A part \in Parts \ {"zones"} : a[part] = b[part]
  /\ a.zones = Missing <=> b.zones = Missing
  /\ a.zones # Missing =>
       \A z \in 1..ZonesMax :
         \/ a.zones[z] = b.zones[z]
         \/ z \in T /\ [a.zones[z] EXCEPT !.mute = Null] = [b.zones[z] EXCEPT !.mute = Null]

LEMMA SameIsSame == \A a, T : Same(a, a, T)
BY DEF Same

LEMMA SameFollows ==
  ASSUME NEW a, NEW b, NEW c, NEW T, NEW U, Same(a, b, T), Same(b, c, U)
  PROVE  Same(a, c, T \cup U)
<1>1. \A part \in Parts \ {"zones"} : a[part] = c[part]
  BY DEF Same
<1>2. a.zones = Missing <=> c.zones = Missing
  BY DEF Same
<1>3. ASSUME a.zones # Missing, NEW z \in 1..ZonesMax
      PROVE  \/ a.zones[z] = c.zones[z]
             \/ /\ z \in T \cup U
                /\ [a.zones[z] EXCEPT !.mute = Null] = [c.zones[z] EXCEPT !.mute = Null]
  <2> DEFINE x == a.zones[z]
             y == b.zones[z]
             w == c.zones[z]
  <2>1. /\ x = y \/ (z \in T /\ [x EXCEPT !.mute = Null] = [y EXCEPT !.mute = Null])
        /\ y = w \/ (z \in U /\ [y EXCEPT !.mute = Null] = [w EXCEPT !.mute = Null])
    BY <1>3 DEF Same
  <2>. HIDE DEF x, y, w
  <2>2. x = w \/ (z \in T \cup U /\ [x EXCEPT !.mute = Null] = [w EXCEPT !.mute = Null])
    BY <2>1
  <2>. QED  BY <2>2 DEF x, w
<1>. QED  BY <1>1, <1>2, <1>3 DEF Same

LEMMA SameSettled ==
  ASSUME NEW a \in SavedBackups, NEW b \in SavedBackups, Same(a, b, toggled)
  PROVE  Settled(a) = Settled(b)
<1>1. /\ \A part \in Parts \ {"zones"} : a[part] = b[part]
      /\ a = [part \in Parts |-> a[part]] /\ b = [part \in Parts |-> b[part]]
      /\ "zones" \in Parts
  BY BackupHas DEF Same, Parts
<1>2. CASE a.zones = Missing
  <2>1. a.zones = b.zones
    BY <1>2 DEF Same
  <2>2. a = b
    BY <1>1, <2>1
  <2>. QED  BY <2>2
<1>3. CASE a.zones # Missing
  <2> DEFINE Z(s) == [z \in DOMAIN s.zones |-> IF z \in toggled
                                              THEN [s.zones[z] EXCEPT !.mute = Null]
                                              ELSE s.zones[z]]
  <2>1. b.zones # Missing
    BY <1>3 DEF Same
  <2>2. DOMAIN a.zones = 1..ZonesMax /\ DOMAIN b.zones = 1..ZonesMax
    BY <1>3, <2>1, BackupHas
  <2>3. Settled(a) = [a EXCEPT !.zones = Z(a)] /\ Settled(b) = [b EXCEPT !.zones = Z(b)]
    BY <1>3, <2>1 DEF Settled
  <2>4. Z(a) = Z(b)
    <3>1. ASSUME NEW z \in 1..ZonesMax
          PROVE  Z(a)[z] = Z(b)[z]
      <4> DEFINE x == a.zones[z]
                 y == b.zones[z]
      <4>1. x = y \/ (z \in toggled /\ [x EXCEPT !.mute = Null] = [y EXCEPT !.mute = Null])
        BY <1>3 DEF Same
      <4>2. /\ Z(a)[z] = IF z \in toggled THEN [x EXCEPT !.mute = Null] ELSE x
            /\ Z(b)[z] = IF z \in toggled THEN [y EXCEPT !.mute = Null] ELSE y
        BY <2>2
      <4>. HIDE DEF x, y, Z
      <4>. QED  BY <4>1, <4>2
    <3>2. DOMAIN Z(a) = 1..ZonesMax /\ DOMAIN Z(b) = 1..ZonesMax
      BY <2>2
    <3>3. Z(a) = [z \in DOMAIN Z(a) |-> Z(a)[z]] /\ Z(b) = [z \in DOMAIN Z(b) |-> Z(b)[z]]
      OBVIOUS
    <3>. HIDE DEF Z
    <3>. QED  BY <3>1, <3>2, <3>3
  <2>. HIDE DEF Z
  <2>5. [a EXCEPT !.zones = Z(a)] = [b EXCEPT !.zones = Z(b)]
    BY <1>1, <2>4
  <2>. QED  BY <2>3, <2>5
<1>. QED  BY <1>2, <1>3

LEMMA ToggledIsSaved ==
  ASSUME NEW zone \in Zones, NEW left, OnlyToggled(left, zone)
  PROVE  /\ CanSaveZone(left) <=> CanSaveZone(zone)
         /\ [SaveZone(left) EXCEPT !.mute = Null] = [SaveZone(zone) EXCEPT !.mute = Null]
<1>1. PICK mute : left = [zone EXCEPT !.mute = mute] /\ (mute = Null <=> zone.mute = Null)
  BY DEF OnlyToggled
<1>2. /\ \A field \in DOMAIN zone \ {"mute"} : left[field] = zone[field]
      /\ left.mute = mute /\ DOMAIN left = DOMAIN zone
  BY <1>1, ZoneHas
<1>3. SavedFields(left) = SavedFields(zone)
  BY <1>2, ZoneHas DEF SavedFields
<1>4. SavedFields(zone) \subseteq DOMAIN zone /\ "mute" \in SavedFields(zone)
  BY SavedFieldsAre, ZoneHas
<1>5. \A field \in SavedFields(zone) : Null \in Values(left, field) <=> Null \in Values(zone, field)
  <2>1. Null \in Values(left, "mute") <=> Null \in Values(zone, "mute")
    BY <1>1, <1>2 DEF Values
  <2>2. \A field \in SavedFields(zone) \ {"mute"} : Values(left, field) = Values(zone, field)
    BY <1>2, <1>4 DEF Values
  <2>. QED  BY <2>1, <2>2
<1>6. CanSaveZone(left) <=> CanSaveZone(zone)
  BY <1>3, <1>5 DEF CanSaveZone
<1>7. /\ SaveZone(left) = [f \in SavedFields(zone) |-> left[f]]
      /\ SaveZone(zone) = [f \in SavedFields(zone) |-> zone[f]]
  BY <1>3 DEF SaveZone, Restrict
<1>8. [SaveZone(left) EXCEPT !.mute = Null] = [SaveZone(zone) EXCEPT !.mute = Null]
  BY <1>2, <1>4, <1>7
<1>. QED  BY <1>6, <1>8

\* What is saved of models of which nothing but the mute of zones T changed,
\* and what is not saved.
LEMMA SaveOfChanged ==
  ASSUME NEW models \in ServerModels, NEW left \in ServerModels, NEW T,
         \A part \in {"presets", "favorites", "sources", "panel", "infrared", "network"} :
           left[part] = models[part],
         \A g \in 1..GroupsMax : /\ left.groups[g].name = models.groups[g].name
                                 /\ left.groups[g].zones = models.groups[g].zones,
         \A z \in 1..ZonesMax : \/ left.zones[z] = models.zones[z]
                                \/ z \in T /\ OnlyToggled(left.zones[z], models.zones[z])
  PROVE  Same(Save(models), Save(left), T)
<1>1. SaveGroups(left.groups) = SaveGroups(models.groups)
  <2>1. DOMAIN left.groups = 1..GroupsMax /\ DOMAIN models.groups = 1..GroupsMax
    BY ModelsHave
  <2>. QED  BY <2>1, SavedGroupIs DEF SaveGroups, CanSaveGroup
<1>2. DOMAIN left.zones = 1..ZonesMax /\ DOMAIN models.zones = 1..ZonesMax
      /\ \A z \in 1..ZonesMax : models.zones[z] \in Zones
  BY ModelsHave DEF ZoneLists
<1>3. \A z \in 1..ZonesMax :
        /\ CanSaveZone(left.zones[z]) <=> CanSaveZone(models.zones[z])
        /\ \/ SaveZone(left.zones[z]) = SaveZone(models.zones[z])
           \/ /\ z \in T
              /\ [SaveZone(left.zones[z]) EXCEPT !.mute = Null]
                   = [SaveZone(models.zones[z]) EXCEPT !.mute = Null]
  BY <1>2, ToggledIsSaved
<1> DEFINE a == SaveZones(models.zones)
           b == SaveZones(left.zones)
           can == \A z \in 1..ZonesMax : CanSaveZone(models.zones[z])
<1>4. /\ a = IF can THEN [z \in 1..ZonesMax |-> SaveZone(models.zones[z])] ELSE Missing
      /\ b = IF can THEN [z \in 1..ZonesMax |-> SaveZone(left.zones[z])] ELSE Missing
  BY <1>2, <1>3 DEF SaveZones
<1>5. can => a # Missing /\ b # Missing
  <2>1. ASSUME can PROVE a \in [1..ZonesMax -> SavedZones] /\ b \in [1..ZonesMax -> SavedZones]
    <3>1. \A z \in 1..ZonesMax : SaveZone(models.zones[z]) \in SavedZones
      BY <1>2, <2>1, SavedZoneTyped
    <3>2. \A z \in 1..ZonesMax : SaveZone(left.zones[z]) \in SavedZones
      <4>1. \A z \in 1..ZonesMax : left.zones[z] \in Zones
        BY ModelsHave DEF ZoneLists
      <4>. QED  BY <1>3, <2>1, <4>1, SavedZoneTyped
    <3>. QED  BY <1>4, <2>1, <3>1, <3>2
  <2>. QED  BY <2>1, MissingIsNone
<1>6. a # Missing => \A z \in 1..ZonesMax : /\ a[z] = SaveZone(models.zones[z])
                                           /\ b[z] = SaveZone(left.zones[z])
  BY <1>4
<1>7. \A part \in Parts \ {"zones"} : Save(models)[part] = Save(left)[part]
  BY <1>1, SavedParts DEF Save, Parts
<1>8. Save(models).zones = a /\ Save(left).zones = b
  BY SavedParts DEF Save
<1>9. a = Missing <=> b = Missing
  BY <1>4, <1>5
<1>. HIDE DEF a, b, can
<1>. QED  BY <1>3, <1>6, <1>7, <1>8, <1>9 DEF Same

-----------------------------------------------------------------------------
(***************************************************************************)
(* A backup that is loaded would be saved as it is                         *)
(***************************************************************************)
\* A saved zone that is loaded into one without a name, or of its name, would
\* be saved as it was.
LEMMA ZoneRestored ==
  ASSUME NEW zone \in Zones, NEW saved \in SavedZones, zone.name \in {Null, saved.name}
  PROVE  LET left == LoadZone(zone, saved).zone
         IN CanSaveZone(left) /\ SaveZone(left) = saved
<1>1. PICK w \in FullZones : saved = SaveZone(w)
  BY DEF SavedZones, FullZones
<1> DEFINE n == SetName(zone.name, w.name).value
           new == [w EXCEPT !.name = n]
           left == LoadZone(zone, saved).zone
           F == SavedFields(w)
<1>2. saved.name = w.name /\ w.name \in KeptNames
  <2>1. "name" \in F
    BY SavedFieldsAre
  <2>. QED  BY <1>1, <2>1, FullZoneHas DEF SaveZone, Restrict
<1>3. n = w.name
  <2>1. CASE zone.name = Null
    BY <1>2, <2>1, NameLoaded
  <2>2. CASE zone.name = w.name
    BY <1>2, <2>2, NameKept, NullIsNoValue DEF SetName
  <2>. QED  BY <1>2, <2>1, <2>2
<1>4. new = w
  <2>1. \A name : name = w.name => [w EXCEPT !.name = name] = w
    BY DEF FullZones, ZonesWith
  <2>. HIDE DEF n
  <2>. QED  BY <1>3, <2>1
<1>5. Loads(LoadZone(zone, saved), zone, F, new)
  BY <1>1, LoadedZone
<1>6. left = Put(zone, F, w)
  BY <1>4, <1>5 DEF Loads
<1>7. F \subseteq DOMAIN zone /\ "mode" \in F
  BY SavedFieldsAre, ZoneHas
<1>. HIDE DEF F, left
<1>8. \A field \in F : left[field] = w[field]
  BY <1>6, <1>7 DEF Put
<1>9. SavedFields(left) = F
  BY <1>7, <1>8 DEF SavedFields, F
<1>10. SaveZone(left) = SaveZone(w) /\ (CanSaveZone(left) <=> CanSaveZone(w))
  BY <1>8, <1>9, SameSaved DEF F
<1>. QED  BY <1>1, <1>10, FullZoneSaved DEF left

LEMMA ZonesRestored ==
  ASSUME NEW zones \in ZoneLists, NEW saved \in [1..ZonesMax -> SavedZones],
         \A z \in 1..ZonesMax : zones[z].name \in {Null, saved[z].name}
  PROVE  SaveZones(LoadZones(zones, saved)) = saved
<1> DEFINE left == LoadZones(zones, saved)
<1>1. saved # Missing /\ zones \in [1..ZonesMax -> Zones]
  BY MissingIsNone DEF ZoneLists
<1>2. left = [z \in 1..ZonesMax |-> LoadZone(zones[z], saved[z]).zone]
  BY <1>1 DEF LoadZones
<1>3. \A z \in 1..ZonesMax : CanSaveZone(left[z]) /\ SaveZone(left[z]) = saved[z]
  BY <1>1, <1>2, ZoneRestored
<1>4. DOMAIN left = 1..ZonesMax
  BY <1>2
<1>. HIDE DEF left
<1>5. SaveZones(left) = [z \in 1..ZonesMax |-> SaveZone(left[z])]
  BY <1>3, <1>4 DEF SaveZones
<1>. QED  BY <1>3, <1>5 DEF left

LEMMA GroupsRestored ==
  ASSUME NEW saved \in [1..GroupsMax -> SavedGroups]
  PROVE  SaveGroups(LoadGroups(ServerNulls.groups, saved)) = saved
<1> DEFINE nulls == ServerNulls.groups
           left == LoadGroups(nulls, saved)
<1>1. saved # Missing /\ nulls = [g \in 1..GroupsMax |-> GroupNulls]
  BY MissingIsNone DEF ServerNulls, ClientNulls
<1>2. GroupNulls \in Groups /\ GroupNulls.name = Null /\ GroupNulls.zones = {}
  BY DEF GroupNulls, Groups
<1>. HIDE DEF nulls
<1>3. left = [g \in 1..GroupsMax |-> LoadGroup(GroupNulls, {}, saved[g]).group]
  BY <1>1 DEF LoadGroups
<1>4. ASSUME NEW g \in 1..GroupsMax
      PROVE  CanSaveGroup(left[g]) /\ SaveGroup(left[g]) = saved[g]
  <2>1. /\ saved[g] \in SavedGroups /\ saved[g].name \in KeptNames
        /\ saved[g] = [name |-> saved[g].name, zones |-> saved[g].zones]
    BY DEF SavedGroups
  <2>2. left[g] = LoadGroup(GroupNulls, {}, saved[g]).group
    BY <1>3
  <2>. HIDE DEF left
  <2>3. /\ left[g].name = SetName(GroupNulls.name, saved[g].name).value
        /\ left[g].zones = GroupNulls.zones \cup saved[g].zones
    <3> DEFINE s == saved[g]
               named == LoadGroup(GroupNulls, {}, s).group
    <3>1. s \in SavedGroups
      BY <2>1
    <3>. HIDE DEF s
    <3>2. /\ named.name = SetName(GroupNulls.name, s.name).value
          /\ named.zones = GroupNulls.zones \cup s.zones
      BY <1>2, <3>1, LoadedGroup
    <3>. QED  BY <2>2, <3>2 DEF s
  <2>4. left[g].name = saved[g].name /\ left[g].zones = saved[g].zones
    BY <1>2, <2>1, <2>3, NameLoaded
  <2>5. CanSaveGroup(left[g])
    BY <2>1, <2>4, NullIsNoValue DEF CanSaveGroup
  <2>6. SaveGroup(left[g]) = saved[g]
    BY <2>1, <2>4, SavedGroupIs
  <2>. QED  BY <2>5, <2>6
<1>5. DOMAIN left = 1..GroupsMax
  BY <1>3
<1>. HIDE DEF left
<1>6. SaveGroups(left) = [g \in 1..GroupsMax |-> SaveGroup(left[g])]
  BY <1>4, <1>5 DEF SaveGroups
<1>. QED  BY <1>4, <1>6 DEF left, nulls

LEMMA PresetsRestored ==
  ASSUME NEW saved \in [1..EqualizerPresetsMax -> PresetsWith({})]
  PROVE  SavePresets(LoadPresets(ServerNulls.presets, saved)) = saved
<1> DEFINE nulls == ServerNulls.presets
           left == LoadPresets(nulls, saved)
<1>1. saved # Missing /\ nulls = [p \in 1..EqualizerPresetsMax |-> PresetNulls]
  BY MissingIsNone DEF ServerNulls, ClientNulls
<1>2. PresetNulls \in Presets /\ PresetNulls.name = Null
  BY DEF PresetNulls, Presets, PresetsWith
<1>. HIDE DEF nulls
<1>3. left = [p \in 1..EqualizerPresetsMax |-> LoadPreset(PresetNulls, saved[p]).preset]
  BY <1>1 DEF LoadPresets
<1>4. ASSUME NEW p \in 1..EqualizerPresetsMax
      PROVE  left[p] = saved[p] /\ CanSavePreset(saved[p])
  <2>1. /\ saved[p] \in PresetsWith({}) /\ saved[p].name \in KeptNames
        /\ saved[p] = [name |-> saved[p].name, bands |-> saved[p].bands]
    BY DEF PresetsWith
  <2>2. left[p] = [name |-> SetName(PresetNulls.name, saved[p].name).value, bands |-> saved[p].bands]
    BY <1>2, <1>3, <2>1, LoadedPreset
  <2>3. SetName(PresetNulls.name, saved[p].name).value = saved[p].name
    BY <1>2, <2>1, NameLoaded
  <2>4. saved[p] \in Presets
    BY <2>1 DEF Presets, PresetsWith
  <2>5. CanSavePreset(saved[p])
    BY <2>1, <2>4, SavedPresetFull
  <2>. QED  BY <2>1, <2>2, <2>3, <2>5
<1>5. left = saved
  BY <1>3, <1>4
<1>. HIDE DEF left
<1>6. SavePresets(saved) = saved
  BY <1>4 DEF SavePresets
<1>. QED  BY <1>5, <1>6 DEF left, nulls

LEMMA NamesRestored ==
  /\ \A saved \in [1..FavoritesMax -> KeptNames] :
       SaveNames(LoadFavorites(ServerNulls.favorites, saved)) = saved
  /\ \A saved \in [1..SourcesMax -> KeptNames] :
       SaveNames(LoadSources(ServerNulls.sources, saved)) = saved
<1>1. /\ ServerNulls.favorites = [f \in 1..FavoritesMax |-> Null]
      /\ ServerNulls.sources = [s \in 1..SourcesMax |-> Null]
  BY DEF ServerNulls, ClientNulls
<1>2. \A name \in KeptNames : /\ LoadFavorite(Null, name).item = name
                              /\ LoadSource(Null, name).item = name
  BY LoadedItem, NameLoaded
<1>3. \A n : \A saved \in [1..n -> KeptNames] : SaveNames(saved) = saved
  BY NullIsNoValue DEF SaveNames, HasNull
<1>4. ASSUME NEW saved \in [1..FavoritesMax -> KeptNames]
      PROVE  LoadFavorites(ServerNulls.favorites, saved) = saved
  BY <1>1, <1>2, MissingIsNone DEF LoadFavorites
<1>5. ASSUME NEW saved \in [1..SourcesMax -> KeptNames]
      PROVE  LoadSources(ServerNulls.sources, saved) = saved
  BY <1>1, <1>2, MissingIsNone DEF LoadSources
<1>. QED  BY <1>3, <1>4, <1>5

\* Nothing is known, so nothing can be saved of the elements.
LEMMA NothingSaved ==
  /\ SaveZones(ServerNulls.zones) = Missing /\ SaveGroups(ServerNulls.groups) = Missing
  /\ SavePresets(ServerNulls.presets) = Missing
  /\ SaveNames(ServerNulls.favorites) = Missing /\ SaveNames(ServerNulls.sources) = Missing
<1>1. /\ ServerNulls.zones = [z \in 1..ZonesMax |-> ZoneNulls]
      /\ ServerNulls.groups = [g \in 1..GroupsMax |-> GroupNulls]
      /\ ServerNulls.presets = [p \in 1..EqualizerPresetsMax |-> PresetNulls]
      /\ ServerNulls.favorites = [f \in 1..FavoritesMax |-> Null]
      /\ ServerNulls.sources = [s \in 1..SourcesMax |-> Null]
  BY DEF ServerNulls, ClientNulls
<1>2. /\ 1 \in 1..ZonesMax /\ 1 \in 1..GroupsMax /\ 1 \in 1..EqualizerPresetsMax
      /\ 1 \in 1..FavoritesMax /\ 1 \in 1..SourcesMax
  BY RangesAssumption, CountsAssumption
<1>3. ~ CanSaveZone(ZoneNulls)
  <2>1. "name" \in SavedFields(ZoneNulls)
    BY SavedFieldsAre
  <2>2. Values(ZoneNulls, "name") = {Null}
    BY DEF Values, ZoneNulls
  <2>. QED  BY <2>1, <2>2 DEF CanSaveZone
<1>4. ~ CanSaveGroup(GroupNulls)
  BY DEF CanSaveGroup, GroupNulls
<1>5. ~ CanSavePreset(PresetNulls)
  <2>1. Failed(PresetGetName(PresetNulls))
    BY DEF PresetNulls, PresetGetName, GetName, Get, Failed
  <2>. QED  BY <2>1 DEF CanSavePreset
<1>6. SaveZones(ServerNulls.zones) = Missing
  BY <1>1, <1>2, <1>3 DEF SaveZones
<1>7. SaveGroups(ServerNulls.groups) = Missing
  BY <1>1, <1>2, <1>4 DEF SaveGroups
<1>8. SavePresets(ServerNulls.presets) = Missing
  BY <1>1, <1>2, <1>5 DEF SavePresets
<1>9. SaveNames(ServerNulls.favorites) = Missing /\ SaveNames(ServerNulls.sources) = Missing
  BY <1>1, <1>2 DEF SaveNames, HasNull
<1>. QED  BY <1>6, <1>7, <1>8, <1>9

LEMMA LoadedHas ==
  ASSUME NEW models \in ServerModels, NEW saved
  PROVE  LET left == LoadFromBackupConfiguration(models, saved)
         IN /\ left.zones = LoadZones(models.zones, saved.zones)
            /\ left.groups = LoadGroups(models.groups, saved.groups)
            /\ left.presets = LoadPresets(models.presets, saved.presets)
            /\ left.favorites = LoadFavorites(models.favorites, saved.favorites)
            /\ left.sources = LoadSources(models.sources, saved.sources)
            /\ left.panel = saved.panel /\ left.infrared = saved.infrared
            /\ left.network = saved.network
<1> DEFINE network == saved.network
           favorites == LoadFavorites(models.favorites, saved.favorites)
           groups == LoadGroups(models.groups, saved.groups)
           panel == saved.panel
           infrared == saved.infrared
           presets == LoadPresets(models.presets, saved.presets)
           sources == LoadSources(models.sources, saved.sources)
           zones == LoadZones(models.zones, saved.zones)
           left == LoadFromBackupConfiguration(models, saved)
<1>1. left = [models EXCEPT !.network = network, !.favorites = favorites, !.groups = groups,
                            !.panel = panel, !.infrared = infrared, !.presets = presets,
                            !.sources = sources, !.zones = zones]
  BY LoadedParts
<1>. HIDE DEF network, favorites, groups, panel, infrared, presets, sources, zones, left
<1>2. /\ left.zones = zones /\ left.groups = groups /\ left.presets = presets
      /\ left.favorites = favorites /\ left.sources = sources /\ left.panel = panel
      /\ left.infrared = infrared /\ left.network = network
  BY <1>1, ModelsHave
<1>. QED
  BY <1>2 DEF network, favorites, groups, panel, infrared, presets, sources, zones, left

\* A start brings back the whole backup.
LEMMA BackupRestored ==
  ASSUME NEW saved \in SavedBackups
  PROVE  Save(LoadFromBackupConfiguration(ServerNulls, saved)) = saved
<1> DEFINE left == LoadFromBackupConfiguration(ServerNulls, saved)
           s == Save(left)
<1>1. /\ left.zones = LoadZones(ServerNulls.zones, saved.zones)
      /\ left.groups = LoadGroups(ServerNulls.groups, saved.groups)
      /\ left.presets = LoadPresets(ServerNulls.presets, saved.presets)
      /\ left.favorites = LoadFavorites(ServerNulls.favorites, saved.favorites)
      /\ left.sources = LoadSources(ServerNulls.sources, saved.sources)
      /\ left.panel = saved.panel /\ left.infrared = saved.infrared
      /\ left.network = saved.network
  BY NullsTyped, LoadedHas
<1>2. /\ DOMAIN s = Parts /\ s = [part \in Parts |-> s[part]]
      /\ s.zones = SaveZones(left.zones) /\ s.groups = SaveGroups(left.groups)
      /\ s.presets = SavePresets(left.presets)
      /\ s.favorites = SaveNames(left.favorites) /\ s.sources = SaveNames(left.sources)
      /\ s.panel = left.panel /\ s.infrared = left.infrared /\ s.network = left.network
  <2>1. s = [part \in Parts |-> s[part]]
    BY DEF Save, SaveToBackupConfiguration, Parts
  <2>. QED  BY <2>1, SavedParts DEF Save
<1>. HIDE DEF left, s
<1>3. s.zones = saved.zones
  <2>1. CASE saved.zones = Missing
    BY <1>1, <1>2, <2>1, NothingSaved DEF LoadZones
  <2>2. CASE saved.zones # Missing
    <3>1. saved.zones \in [1..ZonesMax -> SavedZones]
      BY <2>2, BackupHas
    <3>2. ServerNulls.zones \in ZoneLists /\ \A z \in 1..ZonesMax : ServerNulls.zones[z].name = Null
      <4>1. ServerNulls.zones = [z \in 1..ZonesMax |-> ZoneNulls] /\ ZoneNulls.name = Null
        BY DEF ServerNulls, ClientNulls, ZoneNulls
      <4>. QED  BY <4>1, NullsTyped, ModelsHave
    <3>. QED  BY <1>1, <1>2, <3>1, <3>2, ZonesRestored
  <2>. QED  BY <2>1, <2>2
<1>4. s.groups = saved.groups
  BY <1>1, <1>2, BackupHas, GroupsRestored, NothingSaved DEF LoadGroups
<1>5. s.presets = saved.presets
  BY <1>1, <1>2, BackupHas, PresetsRestored, NothingSaved DEF LoadPresets
<1>6. s.favorites = saved.favorites
  BY <1>1, <1>2, BackupHas, NamesRestored, NothingSaved DEF LoadFavorites
<1>7. s.sources = saved.sources
  BY <1>1, <1>2, BackupHas, NamesRestored, NothingSaved DEF LoadSources
<1>8. \A part \in Parts : s[part] = saved[part]
  BY <1>1, <1>2, <1>3, <1>4, <1>5, <1>6, <1>7 DEF Parts
<1>9. saved = [part \in Parts |-> saved[part]]
  BY BackupHas
<1>10. s = saved
  BY <1>2, <1>8, <1>9
<1>. QED  BY <1>10 DEF s, left

\* A load that does not make dirty found what the backup holds.
LEMMA CleanLoad ==
  ASSUME NEW models \in ServerModels, NEW saved \in SavedBackups, NEW T,
         Same(saved, Save(models), T), ~ LoadMakesDirty(models, saved)
  PROVE  Same(saved, Save(LoadFromBackupConfiguration(models, saved)), {})
<1> DEFINE left == LoadFromBackupConfiguration(models, saved)
           old == Save(models)
           new == Save(left)
<1>1. left \in ServerModels /\ left.zones = LoadZones(models.zones, saved.zones)
  BY LoadedTyped, LoadedHas
<1>2. [left EXCEPT !.zones = models.zones] = models
  BY DEF LoadMakesDirty
<1>3. /\ DOMAIN old = Parts /\ DOMAIN new = Parts
      /\ old.zones = SaveZones(models.zones) /\ new.zones = SaveZones(left.zones)
  BY SavedParts DEF Save
<1>4. \A part \in Parts \ {"zones"} : new[part] = old[part]
  <2>. HIDE DEF left
  <2>1. \A part \in Parts \ {"zones"} : left[part] = models[part]
    BY <1>1, <1>2, ModelsHave DEF Parts
  <2>. QED  BY <2>1, SavedParts DEF Save, Parts
<1>. HIDE DEF left, old, new
<1>5. /\ \A part \in Parts \ {"zones"} : saved[part] = old[part]
      /\ saved.zones = Missing <=> old.zones = Missing
  BY DEF Same, old
<1>6. new.zones = saved.zones
  <2>1. CASE saved.zones = Missing
    BY <1>1, <1>3, <1>5, <2>1 DEF LoadZones
  <2>2. CASE saved.zones # Missing
    <3>1. saved.zones \in [1..ZonesMax -> SavedZones] /\ models.zones \in ZoneLists
      BY <2>2, BackupHas, ModelsHave
    <3>2. ASSUME NEW z \in 1..ZonesMax PROVE models.zones[z].name = saved.zones[z].name
      <4> DEFINE a == saved.zones[z]
                 b == old.zones[z]
      <4>1. b = SaveZone(models.zones[z])
        <5>1. DOMAIN models.zones = 1..ZonesMax
          BY <3>1 DEF ZoneLists
        <5>. QED  BY <1>3, <1>5, <2>2, <5>1 DEF SaveZones
      <4>2. "name" \in DOMAIN b /\ b.name = models.zones[z].name
        BY <4>1, SavedFieldsAre DEF SaveZone, Restrict
      <4>3. "name" \in DOMAIN a
        <5>1. PICK w \in FullZones : a = SaveZone(w)
          BY <3>1 DEF SavedZones, FullZones
        <5>. QED  BY <5>1, SavedFieldsAre DEF SaveZone, Restrict
      <4>4. a = b \/ [a EXCEPT !.mute = Null] = [b EXCEPT !.mute = Null]
        BY <2>2 DEF Same, old
      <4>. HIDE DEF a, b
      <4>5. [a EXCEPT !.mute = Null].name = a.name /\ [b EXCEPT !.mute = Null].name = b.name
        BY <4>2, <4>3
      <4>6. a.name = b.name
        BY <4>4, <4>5
      <4>. QED  BY <4>2, <4>6 DEF a
    <3>. QED  BY <1>1, <1>3, <3>1, <3>2, ZonesRestored
  <2>. QED  BY <2>1, <2>2
<1>7. \A part \in Parts : saved[part] = new[part]
  BY <1>4, <1>5, <1>6
<1>. QED  BY <1>6, <1>7 DEF Same, new, left

-----------------------------------------------------------------------------
(***************************************************************************)
(* The inductive invariant: what is in the models and on disk, and, while   *)
(* nothing is dirty, that the backup is the same as what a save would       *)
(* write, said part by part and zone by zone.  A load needs that: it keeps  *)
(* a name that begins with the saved one, so only because the names are the *)
(* same already does a load that does not make dirty leave what the backup  *)
(* holds.  A start needs that the models of a process that does not run are *)
(* those that nothing is known of.                                          *)
(***************************************************************************)
ServerTyped ==
  /\ m \in ServerModels /\ file \in SavedBackups \cup {Missing}
  /\ up \in BOOLEAN /\ dirty \in BOOLEAN
  /\ up => file \in SavedBackups
  /\ ~ up => m = ServerNulls

CleanIsSaved == up /\ ~ dirty => Same(file, Save(m), toggled)

Kept == ServerTyped /\ CleanIsSaved

LEMMA KeptInit == Init => Kept
<1> SUFFICES ASSUME Init PROVE Kept
  OBVIOUS
<1>1. m \in ServerModels /\ file \in SavedBackups \cup {Missing}
  BY NullsTyped, BackupsAssumption DEF Init
<1>. QED  BY <1>1 DEF Init, Kept, ServerTyped, CleanIsSaved

LEMMA KeptHas ==
  ASSUME Kept
  PROVE  /\ m \in ServerModels /\ m.zones \in ZoneLists /\ DOMAIN m.zones = 1..ZonesMax
         /\ \A z \in 1..ZonesMax : m.zones[z] \in Zones
         /\ DOMAIN m.groups = 1..GroupsMax /\ \A g \in 1..GroupsMax : m.groups[g] \in Groups
         /\ dirty \in BOOLEAN
<1>1. m \in ServerModels /\ dirty \in BOOLEAN
  BY DEF Kept, ServerTyped
<1>. QED  BY <1>1, ModelsHave DEF ZoneLists

\* A step of the running server that leaves the backup alone.
LEMMA KeptByStep ==
  ASSUME Kept, up, up' = up, file' = file, m' \in ServerModels, dirty' \in BOOLEAN,
         NEW T, toggled' = toggled \cup T,
         ~ dirty' => ~ dirty /\ Same(Save(m), Save(m'), T)
  PROVE  Kept'
<1>1. ASSUME ~ dirty' PROVE Same(file, Save(m'), toggled \cup T)
  <2>1. Same(file, Save(m), toggled) /\ Same(Save(m), Save(m'), T)
    BY <1>1 DEF Kept, CleanIsSaved
  <2>. QED  BY <2>1, SameFollows
<1>. QED  BY <1>1 DEF Kept, ServerTyped, CleanIsSaved

LEMMA AnswerKeeps ==
  ASSUME Kept, NEW k, NEW r, Answer(k, r), m' \in ServerModels,
         NEW T, toggled' = toggled \cup T,
         ~ r.does.dirty => Same(Save(m), Save(m'), T)
  PROVE  Kept'
<1>1. /\ up /\ up' = up /\ file' = file /\ dirty' = (dirty \/ r.does.dirty)
  BY DEF Answer
<1>2. dirty' \in BOOLEAN /\ (~ dirty' => ~ dirty /\ ~ r.does.dirty)
  BY <1>1
<1>. QED  BY <1>1, <1>2, KeptByStep

LEMMA AnswerKeepsModels ==
  ASSUME Kept, NEW k, NEW r, Answer(k, r), m' \in ServerModels, toggled' = toggled,
         ~ r.does.dirty => m' = m
  PROVE  Kept'
<1>1. toggled' = toggled \cup {}
  OBVIOUS
<1>2. ~ r.does.dirty => Same(Save(m), Save(m'), {})
  BY SameIsSame
<1>. QED  BY <1>1, <1>2, AnswerKeeps

LEMMA ZonePut ==
  ASSUME NEW models \in ServerModels, NEW z \in 1..ZonesMax, NEW zone \in Zones
  PROVE  LET left == [models EXCEPT !.zones[z] = zone]
         IN /\ left \in ServerModels
            /\ \A part \in {"groups", "presets", "favorites", "sources", "panel", "infrared",
                            "network"} : left[part] = models[part]
            /\ \A y \in 1..ZonesMax : left.zones[y] = IF y = z THEN zone ELSE models.zones[y]
            /\ zone = models.zones[z] => left = models
<1> DEFINE zones == [models.zones EXCEPT ![z] = zone]
           left == [models EXCEPT !.zones = zones]
<1>1. models.zones \in [1..ZonesMax -> Zones]
  BY ModelsHave DEF ZoneLists
<1>2. zones \in ZoneLists
  BY <1>1 DEF ZoneLists
<1>3. \A y \in 1..ZonesMax : zones[y] = IF y = z THEN zone ELSE models.zones[y]
  BY <1>1
<1>4. zone = models.zones[z] => zones = models.zones
  BY <1>1
<1>. HIDE DEF zones
<1>5. left \in ServerModels
  BY <1>2, ModelsTake
<1>6. /\ left.zones = zones
      /\ \A part \in {"groups", "presets", "favorites", "sources", "panel", "infrared",
                      "network"} : left[part] = models[part]
  BY ModelsHave
<1>7. zones = models.zones => left = models
  BY DEF ServerModels
<1>. QED  BY <1>3, <1>4, <1>5, <1>6, <1>7 DEF zones

LEMMA AnswerZoneKeeps ==
  ASSUME Kept, NEW k, NEW z \in 1..ZonesMax, NEW r, AnswerZone(k, z, r),
         Honest(r.does, m.zones[z]), toggled' = toggled
  PROVE  Kept'
<1> DEFINE o == r.does
<1>1. Answer(k, r) /\ m' = [m EXCEPT !.zones[z] = o.zone]
  BY DEF AnswerZone
<1>2. o.zone \in Zones /\ (~ o.dirty => o.zone = m.zones[z])
  BY DEF Honest, ZoneOutcome
<1>. HIDE DEF o
<1>3. m' \in ServerModels /\ (~ o.dirty => m' = m)
  BY <1>1, <1>2, KeptHas, ZonePut
<1>. QED  BY <1>1, <1>3, AnswerKeepsModels DEF o

\* What a request leaves of one group and of the zones.
LEMMA GroupPut ==
  ASSUME NEW models \in ServerModels, NEW g \in 1..GroupsMax, NEW group \in Groups,
         NEW zones \in ZoneLists, NEW T
  PROVE  LET left == [models EXCEPT !.groups[g] = group, !.zones = zones]
         IN /\ left \in ServerModels
            /\ zones = models.zones => left = [models EXCEPT !.groups[g] = group]
            /\ (/\ group.name = models.groups[g].name /\ group.zones = models.groups[g].zones
                /\ \A z \in 1..ZonesMax : \/ zones[z] = models.zones[z]
                                          \/ z \in T /\ OnlyToggled(zones[z], models.zones[z]))
               => Same(Save(models), Save(left), T)
<1> DEFINE groups == [models.groups EXCEPT ![g] = group]
           grouped == [models EXCEPT !.groups = groups]
           left == [grouped EXCEPT !.zones = zones]
<1>1. models.groups \in [1..GroupsMax -> Groups]
  BY ModelsHave
<1>2. groups \in [1..GroupsMax -> Groups]
      /\ \A h \in 1..GroupsMax : groups[h] = IF h = g THEN group ELSE models.groups[h]
  BY <1>1
<1>3. [models EXCEPT !.groups[g] = group, !.zones = zones] = left
  BY ModelsHave
<1>. HIDE DEF groups
<1>4. grouped \in ServerModels
  BY <1>2, ModelsTake
<1>5. /\ grouped.groups = groups /\ grouped.zones = models.zones
      /\ \A part \in {"presets", "favorites", "sources", "panel", "infrared", "network"} :
           grouped[part] = models[part]
  BY ModelsHave
<1>6. grouped = [models EXCEPT !.groups[g] = group]
  BY DEF groups
<1>. HIDE DEF grouped
<1>7. left \in ServerModels
  BY <1>4, ModelsTake
<1>8. /\ left.groups = groups /\ left.zones = zones
      /\ \A part \in {"presets", "favorites", "sources", "panel", "infrared", "network"} :
           left[part] = models[part]
  BY <1>4, <1>5, ModelsHave
<1>9. zones = models.zones => left = grouped
  BY <1>4, <1>5 DEF ServerModels
<1>. HIDE DEF left
<1>10. ASSUME group.name = models.groups[g].name, group.zones = models.groups[g].zones,
              \A z \in 1..ZonesMax : \/ zones[z] = models.zones[z]
                                     \/ z \in T /\ OnlyToggled(zones[z], models.zones[z])
       PROVE  Same(Save(models), Save(left), T)
  <2>1. \A h \in 1..GroupsMax : /\ left.groups[h].name = models.groups[h].name
                                /\ left.groups[h].zones = models.groups[h].zones
    BY <1>2, <1>8, <1>10
  <2>2. \A z \in 1..ZonesMax : \/ left.zones[z] = models.zones[z]
                               \/ z \in T /\ OnlyToggled(left.zones[z], models.zones[z])
    BY <1>8, <1>10
  <2>. QED  BY <1>7, <1>8, <2>1, <2>2, SaveOfChanged
<1>. QED  BY <1>3, <1>6, <1>7, <1>9, <1>10

LEMMA AnswerGroupKeeps ==
  ASSUME Kept, NEW k, NEW g \in 1..GroupsMax, NEW r, Answer(k, r),
         GroupHonest(r.does, m.groups[g], m.zones), toggled' = toggled,
         \/ m' = [m EXCEPT !.groups[g] = r.does.group, !.zones = r.does.zones]
         \/ m' = [m EXCEPT !.groups[g] = r.does.group]
  PROVE  Kept'
<1> DEFINE o == r.does
<1>1. /\ o.group \in Groups /\ o.zones \in ZoneLists /\ m.zones \in ZoneLists
      /\ m \in ServerModels
      /\ ~ o.dirty => /\ o.group.name = m.groups[g].name /\ o.group.zones = m.groups[g].zones
                      /\ o.zones = m.zones
  BY KeptHas DEF GroupHonest
<1>2. PICK zones \in {o.zones, m.zones} :
        m' = [m EXCEPT !.groups[g] = o.group, !.zones = zones]
  <2>1. CASE m' = [m EXCEPT !.groups[g] = r.does.group, !.zones = r.does.zones]
    BY <2>1
  <2>2. CASE m' = [m EXCEPT !.groups[g] = r.does.group]
    <3>. HIDE DEF o
    <3>1. [m EXCEPT !.groups[g] = o.group, !.zones = m.zones] = [m EXCEPT !.groups[g] = o.group]
      BY <1>1, GroupPut
    <3>2. m' = [m EXCEPT !.groups[g] = o.group]
      BY <2>2 DEF o
    <3>. QED  BY <3>1, <3>2
  <2>. QED  BY <2>1, <2>2
<1>. HIDE DEF o
<1>3. zones \in ZoneLists /\ (~ o.dirty => zones = m.zones)
  BY <1>1, <1>2
<1> DEFINE left == [m EXCEPT !.groups[g] = o.group, !.zones = zones]
<1>4. left \in ServerModels
  BY <1>1, <1>3, GroupPut
<1>5. ~ o.dirty => Same(Save(m), Save(left), {})
  BY <1>1, <1>3, GroupPut
<1>6. toggled' = toggled \cup {}
  OBVIOUS
<1>7. m' = left
  BY <1>2
<1>. HIDE DEF left
<1>8. m' \in ServerModels /\ (~ r.does.dirty => Same(Save(m), Save(m'), {}))
  BY <1>4, <1>5, <1>7 DEF o
<1>. QED  BY <1>6, <1>8, AnswerKeeps

-----------------------------------------------------------------------------
(***************************************************************************)
(* The steps                                                               *)
(***************************************************************************)
LEMMA ZoneStepsKeep ==
  ASSUME Kept, NEW k
  PROVE  /\ RequestZone(k) => Kept'
         /\ \A z \in 1..ZonesMax : RequestBass(k, z) \/ RequestTreble(k, z) => Kept'
<1>1. ASSUME RequestZone(k) PROVE Kept'
  <2>1. PICK z \in 1..ZonesMax : \E r \in ZoneRequests(m.zones[z], z) : AnswerZone(k, z, r)
    BY <1>1, KeptHas DEF RequestZone
  <2>2. PICK r \in ZoneRequests(m.zones[z], z) : AnswerZone(k, z, r)
    BY <2>1
  <2>3. toggled' = toggled
    BY <1>1 DEF RequestZone
  <2>4. Honest(r.does, m.zones[z])
    BY KeptHas, HonestRequests
  <2>. QED  BY <2>2, <2>3, <2>4, AnswerZoneKeeps
<1>2. ASSUME NEW z \in 1..ZonesMax, RequestBass(k, z) \/ RequestTreble(k, z) PROVE Kept'
  <2> DEFINE A(b, t) == Ask(C!SetTone(z), P!ZoneVolumeRequests.SetTone,
                            SetToneRequest(m.zones[z], z, [bass |-> b, treble |-> t]))
  <2>1. \E b, t : AnswerZone(k, z, A(b, t))
    <3>1. CASE RequestBass(k, z)
      <4>1. PICK bass : AnswerZone(k, z, Ask(C!SetTone(z), P!ZoneVolumeRequests.SetTone,
                                             SetToneRequest(m.zones[z], z,
                                               C!SetBass(views[k].zones[z].tone, bass))))
        BY <3>1 DEF RequestBass
      <4>. QED  BY <4>1 DEF C!SetBass
    <3>2. CASE RequestTreble(k, z)
      <4>1. PICK treble : AnswerZone(k, z, Ask(C!SetTone(z), P!ZoneVolumeRequests.SetTone,
                                               SetToneRequest(m.zones[z], z,
                                                 C!SetTreble(views[k].zones[z].tone, treble))))
        BY <3>2 DEF RequestTreble
      <4>. QED  BY <4>1 DEF C!SetTreble
    <3>. QED  BY <1>2, <3>1, <3>2
  <2>2. PICK b, t : AnswerZone(k, z, A(b, t))
    BY <2>1
  <2>3. toggled' = toggled
    BY <1>2 DEF RequestBass, RequestTreble
  <2>4. Honest(A(b, t).does, m.zones[z])
    <3> DEFINE o == SetToneRequest(m.zones[z], z, [bass |-> b, treble |-> t])
    <3>1. A(b, t).does = o
      BY AskDoes
    <3>2. Honest(o, m.zones[z])
      BY KeptHas, HonestTone
    <3>. HIDE DEF A, o
    <3>. QED  BY <3>1, <3>2
  <2>. HIDE DEF A
  <2>. QED  BY <2>2, <2>3, <2>4, AnswerZoneKeeps
<1>. QED  BY <1>1, <1>2

LEMMA ToggleStepsKeep ==
  ASSUME Kept, NEW k
  PROVE  RequestToggle(k) \/ RequestGroupToggle(k) => Kept'
<1>1. ASSUME RequestToggle(k) PROVE Kept'
  <2> DEFINE R(z) == Ask(C!ToggleMute(z), P!ZoneVolumeRequests.ToggleMute,
                         ToggleMuteRequest(m.zones[z], z))
  <2>1. PICK z \in 1..ZonesMax : AnswerZone(k, z, R(z)) /\ toggled' = toggled \cup {z}
    BY <1>1, KeptHas DEF RequestToggle
  <2> DEFINE zone == R(z).does.zone
             left == [m EXCEPT !.zones[z] = zone]
  <2>2. OnlyToggled(zone, m.zones[z])
    <3>1. R(z).does = ToggleMuteRequest(m.zones[z], z)
      BY AskDoes
    <3>2. OnlyToggled(ToggleMuteRequest(m.zones[z], z).zone, m.zones[z])
      BY KeptHas, ToggledZone
    <3>. HIDE DEF R
    <3>. QED  BY <3>1, <3>2
  <2>3. Answer(k, R(z)) /\ m' = left
    BY <2>1 DEF AnswerZone
  <2>. HIDE DEF zone, R
  <2>4. zone \in Zones /\ m \in ServerModels
    BY <2>2, KeptHas DEF OnlyToggled
  <2>5. /\ left \in ServerModels
        /\ \A part \in {"groups", "presets", "favorites", "sources", "panel", "infrared",
                        "network"} : left[part] = m[part]
        /\ \A y \in 1..ZonesMax : left.zones[y] = IF y = z THEN zone ELSE m.zones[y]
    BY <2>4, ZonePut
  <2>. HIDE DEF left
  <2>6. Same(Save(m), Save(left), {z})
    BY <2>2, <2>4, <2>5, SaveOfChanged
  <2>7. m' \in ServerModels /\ Same(Save(m), Save(m'), {z})
    BY <2>3, <2>5, <2>6
  <2>. QED  BY <2>1, <2>3, <2>7, AnswerKeeps
<1>2. ASSUME RequestGroupToggle(k) PROVE Kept'
  <2> DEFINE R(g) == Ask(C!GroupToggleMute(g), P!GroupSettingRequests.ToggleMute,
                         ToggleGroupMuteRequest(m.groups[g], m.zones, g))
  <2>1. PICK g \in 1..GroupsMax :
          AnswerGroup(k, g, R(g)) /\ toggled' = toggled \cup m.groups[g].zones
    BY <1>2, KeptHas DEF RequestGroupToggle
  <2> DEFINE o == ToggleGroupMuteRequest(m.groups[g], m.zones, g)
             T == m.groups[g].zones
  <2>2. Answer(k, R(g)) /\ m' = [m EXCEPT !.groups[g] = o.group, !.zones = o.zones]
    BY <2>1, AskDoes DEF AnswerGroup
  <2>. HIDE DEF R
  <2>3. m \in ServerModels /\ m.groups[g] \in Groups /\ m.zones \in ZoneLists
    BY KeptHas
  <2>4. /\ o.group = m.groups[g] /\ o.zones \in ZoneLists
        /\ \A z \in 1..ZonesMax : /\ OnlyToggled(o.zones[z], m.zones[z])
                                  /\ z \notin T => o.zones[z] = m.zones[z]
    BY <2>3, ToggledGroup
  <2> DEFINE group == o.group
             zones == o.zones
             left == [m EXCEPT !.groups[g] = group, !.zones = zones]
  <2>5. m' = left
    BY <2>2
  <2>6. /\ group \in Groups /\ zones \in ZoneLists
        /\ group.name = m.groups[g].name /\ group.zones = m.groups[g].zones
        /\ \A z \in 1..ZonesMax : \/ zones[z] = m.zones[z]
                                  \/ z \in T /\ OnlyToggled(zones[z], m.zones[z])
    BY <2>3, <2>4
  <2>. HIDE DEF group, zones, T
  <2>7. left \in ServerModels /\ Same(Save(m), Save(left), T)
    BY <2>3, <2>6, GroupPut
  <2>. HIDE DEF left
  <2>8. m' \in ServerModels /\ Same(Save(m), Save(m'), T)
    BY <2>5, <2>7
  <2>9. toggled' = toggled \cup T
    BY <2>1 DEF T
  <2>. QED  BY <2>2, <2>8, <2>9, AnswerKeeps
<1>. QED  BY <1>1, <1>2

LEMMA AllZonesStepKeeps ==
  ASSUME Kept, NEW k, RequestAllZones(k)
  PROVE  Kept'
<1>1. PICK r :
        /\ \/ \E level : r.does = SetVolumeAllRequest(m.zones, level)
           \/ \E s : r.does = SetSourceAllRequest(m.zones, s)
        /\ AnswerZones(k, r)
  <2>1. PICK r \in {Ask(C!SetVolumeAll, P!ZoneVolumeRequests.SetVolumeAll,
                        SetVolumeAllRequest(m.zones, level)) : level \in Tried(Volumes)}
                   \cup {Ask(C!SetSourceAll(s), P!ZoneSourceRequests.SetSourceAll,
                             SetSourceAllRequest(m.zones, s)) : s \in Tried(1..SourcesMax)} :
          AnswerZones(k, r)
    BY DEF RequestAllZones
  <2>2. \/ \E level : r.does = SetVolumeAllRequest(m.zones, level)
        \/ \E s : r.does = SetSourceAllRequest(m.zones, s)
    BY AskDoes
  <2>. QED  BY <2>1, <2>2
<1> DEFINE o == r.does
<1>2. o.zones \in ZoneLists /\ (~ o.dirty => o.zones = m.zones)
  BY <1>1, KeptHas, HonestAll
<1>3. Answer(k, r) /\ m' = [m EXCEPT !.zones = o.zones] /\ toggled' = toggled
  BY <1>1 DEF AnswerZones
<1>4. m \in ServerModels
  BY KeptHas
<1> DEFINE zones == o.zones
<1>. HIDE DEF zones
<1>5. [m EXCEPT !.zones = zones] \in ServerModels
  BY <1>2, <1>4, ModelsTake DEF zones
<1>6. zones = m.zones => [m EXCEPT !.zones = zones] = m
  BY <1>4 DEF ServerModels
<1>7. m' = [m EXCEPT !.zones = zones]
  BY <1>3 DEF zones
<1>8. m' \in ServerModels /\ (~ r.does.dirty => m' = m)
  BY <1>2, <1>5, <1>6, <1>7 DEF zones
<1>. QED  BY <1>3, <1>8, AnswerKeepsModels

LEMMA GroupStepsKeep ==
  ASSUME Kept, NEW k
  PROVE  /\ RequestGroup(k) => Kept'
         /\ RequestGroupSource(k) => Kept'
         /\ RequestGroupAdjust(k) => Kept'
         /\ RequestGroupItself(k) => Kept'
<1>1. /\ m.zones \in ZoneLists /\ DOMAIN m.groups = 1..GroupsMax
      /\ \A g \in 1..GroupsMax : m.groups[g] \in Groups
  BY KeptHas
<1>2. ASSUME NEW g \in 1..GroupsMax, NEW r, AnswerGroup(k, g, r), toggled' = toggled,
             GroupHonest(r.does, m.groups[g], m.zones)
      PROVE  Kept'
  <2>1. Answer(k, r) /\ m' = [m EXCEPT !.groups[g] = r.does.group, !.zones = r.does.zones]
    BY <1>2 DEF AnswerGroup
  <2>. QED  BY <1>2, <2>1, AnswerGroupKeeps
<1>3. ASSUME RequestGroup(k) PROVE Kept'
  <2>1. PICK g \in 1..GroupsMax :
          /\ \E r \in {Ask(C!GroupMute(g, mute), P!GroupLevelRequests.Mute,
                           MuteGroupRequest(m.groups[g], m.zones, g, mute)) : mute \in BOOLEAN}
                      \cup {Ask(C!GroupSetVolume(g), P!GroupSettingRequests.SetVolume,
                                SetGroupVolumeRequest(m.groups[g], m.zones, g, v)) :
                              v \in Tried(Volumes)} :
               AnswerGroup(k, g, r)
          /\ UNCHANGED toggled
    BY <1>1, <1>3 DEF RequestGroup
  <2>2. PICK r \in {Ask(C!GroupMute(g, mute), P!GroupLevelRequests.Mute,
                        MuteGroupRequest(m.groups[g], m.zones, g, mute)) : mute \in BOOLEAN}
                   \cup {Ask(C!GroupSetVolume(g), P!GroupSettingRequests.SetVolume,
                             SetGroupVolumeRequest(m.groups[g], m.zones, g, v)) :
                           v \in Tried(Volumes)} :
          AnswerGroup(k, g, r)
    BY <2>1
  <2>3. \/ \E mute \in BOOLEAN : r.does = MuteGroupRequest(m.groups[g], m.zones, g, mute)
        \/ \E v : r.does = SetGroupVolumeRequest(m.groups[g], m.zones, g, v)
    BY AskDoes
  <2>4. GroupHonest(r.does, m.groups[g], m.zones)
    BY <1>1, <2>3, HonestGroup, HonestGroupVolume
  <2>. QED  BY <1>2, <2>1, <2>2, <2>4
<1>4. ASSUME RequestGroupSource(k) PROVE Kept'
  <2> DEFINE O(g, s) == SetGroupSourceRequest(m.groups[g], m.zones, g, s)
             R(g, s) == Ask(C!GroupSetSource(g, s), P!GroupSettingRequests.SetSource, O(g, s))
  <2>1. PICK g \in 1..GroupsMax : \E s :
          /\ Answer(k, R(g, s))
          /\ m' = [m EXCEPT !.groups[g] = O(g, s).group, !.zones = O(g, s).zones]
          /\ UNCHANGED toggled
    BY <1>1, <1>4 DEF RequestGroupSource
  <2>2. PICK s :
          /\ Answer(k, R(g, s))
          /\ m' = [m EXCEPT !.groups[g] = O(g, s).group, !.zones = O(g, s).zones]
          /\ UNCHANGED toggled
    BY <2>1
  <2>3. R(g, s).does = O(g, s)
    BY AskDoes
  <2>4. GroupHonest(O(g, s), m.groups[g], m.zones)
    BY <1>1, HonestGroupVolume
  <2>. HIDE DEF O, R
  <2>. QED  BY <2>2, <2>3, <2>4, AnswerGroupKeeps
<1>5. ASSUME RequestGroupAdjust(k) PROVE Kept'
  <2>1. PICK g \in 1..GroupsMax :
          \E r \in {Ask(C!GroupDecreaseVolume(g), P!GroupLevelRequests.DecreaseVolume,
                        DecreaseGroupVolumeRequest(m.groups[g], m.zones, g)),
                    Ask(C!GroupIncreaseVolume(g), P!GroupLevelRequests.IncreaseVolume,
                        IncreaseGroupVolumeRequest(m.groups[g], m.zones, g))} :
            AnswerGroup(k, g, r)
    BY <1>1, <1>5 DEF RequestGroupAdjust
  <2>2. PICK r :
          /\ r.does \in {DecreaseGroupVolumeRequest(m.groups[g], m.zones, g),
                         IncreaseGroupVolumeRequest(m.groups[g], m.zones, g)}
          /\ AnswerGroup(k, g, r)
    BY <2>1, AskDoes
  <2>3. toggled' = toggled
    BY <1>5 DEF RequestGroupAdjust
  <2>4. GroupHonest(r.does, m.groups[g], m.zones)
    BY <1>1, <2>2, HonestGroupVolume
  <2>. QED  BY <1>2, <2>2, <2>3, <2>4
<1>6. ASSUME RequestGroupItself(k) PROVE Kept'
  <2>1. PICK g \in 1..GroupsMax :
          \E r \in GroupItselfRequests(m.groups[g], g) : AnswerGroupItself(k, g, r)
    BY <1>1, <1>6 DEF RequestGroupItself
  <2>2. PICK r \in GroupItselfRequests(m.groups[g], g) : AnswerGroupItself(k, g, r)
    BY <2>1
  <2>3. \/ \E z : r.does = AddZoneRequest(m.groups[g], m.zones, g, z)
        \/ \E z : r.does = RemoveZoneRequest(m.groups[g], m.zones, g, z)
        \/ \E name \in Names : r.does = SetGroupNameRequest(m.groups[g], m.zones, g, name)
    BY AskDoes DEF GroupItselfRequests
  <2>4. GroupHonest(r.does, m.groups[g], m.zones)
    BY <1>1, <2>3, HonestGroup
  <2>5. /\ Answer(k, r) /\ m' = [m EXCEPT !.groups[g] = r.does.group] /\ toggled' = toggled
    BY <2>2 DEF AnswerGroupItself
  <2>. QED  BY <2>4, <2>5, AnswerGroupKeeps
<1>. QED  BY <1>3, <1>4, <1>5, <1>6

\* A request that leaves of one part of the models, or of one element of it,
\* what its outcome holds.
LEMMA AnswerPartKeeps ==
  ASSUME Kept, NEW k, NEW r, Answer(k, r), UNCHANGED <<unsaid, toggled>>,
         NEW part \in {"presets", "favorites", "sources", "panel", "infrared", "network"},
         NEW v, m' = [m EXCEPT ![part] = v], [m EXCEPT ![part] = v] \in ServerModels,
         ~ r.does.dirty => v = m[part]
  PROVE  Kept'
<1>1. [m EXCEPT ![part] = m[part]] = m
  BY KeptHas DEF ServerModels
<1>2. m' \in ServerModels /\ (~ r.does.dirty => m' = m)
  BY <1>1
<1>. QED  BY <1>2, AnswerKeepsModels

LEMMA ElementStepsKeep ==
  ASSUME Kept, NEW k
  PROVE  /\ RequestPreset(k) => Kept'
         /\ RequestFavorite(k) => Kept'
         /\ RequestSource(k) => Kept'
<1>1. m \in ServerModels
  BY KeptHas
<1>2. /\ m.presets \in [1..EqualizerPresetsMax -> Presets]
      /\ m.favorites \in [1..FavoritesMax -> Items] /\ m.sources \in [1..SourcesMax -> Items]
  BY <1>1, ModelsHave
<1>3. ASSUME NEW n, NEW S, NEW list \in [1..n -> S], NEW i \in 1..n, NEW v \in S
      PROVE  /\ [list EXCEPT ![i] = v] \in [1..n -> S]
             /\ v = list[i] => [list EXCEPT ![i] = v] = list
  BY <1>3
<1>4. ASSUME RequestPreset(k) PROVE Kept'
  <2>1. PICK p \in 1..EqualizerPresetsMax :
          \E r \in PresetRequests(m.presets[p], p) : AnswerPreset(k, p, r)
    BY <1>2, <1>4 DEF RequestPreset
  <2>2. PICK r \in PresetRequests(m.presets[p], p) : AnswerPreset(k, p, r)
    BY <2>1
  <2> DEFINE new == [m.presets EXCEPT ![p] = r.does.preset]
  <2>3. Keeps(r.does, "preset", m.presets[p], Presets)
    BY <1>2, PresetRequestsKeep
  <2>4. r.does.preset \in Presets /\ (~ r.does.dirty => r.does.preset = m.presets[p])
    BY <2>3 DEF Keeps
  <2>5. Answer(k, r) /\ m' = [m EXCEPT !.presets = new] /\ UNCHANGED <<unsaid, toggled>>
    BY <2>2 DEF AnswerPreset
  <2>6. /\ new \in [1..EqualizerPresetsMax -> Presets]
        /\ ~ r.does.dirty => new = m.presets
    BY <1>2, <1>3, <2>4
  <2>. HIDE DEF new
  <2>7. [m EXCEPT !.presets = new] \in ServerModels
    BY <1>1, <2>6, ModelsTake
  <2>. QED  BY <2>5, <2>6, <2>7, AnswerPartKeeps
<1>5. ASSUME RequestFavorite(k) PROVE Kept'
  <2>1. PICK f \in 1..FavoritesMax :
          \E r \in FavoriteRequests(m.favorites[f], f) : AnswerItem(k, "favorites", f, r)
    BY <1>2, <1>5 DEF RequestFavorite
  <2>2. PICK r \in FavoriteRequests(m.favorites[f], f) : AnswerItem(k, "favorites", f, r)
    BY <2>1
  <2> DEFINE new == [m.favorites EXCEPT ![f] = r.does.item]
  <2>3. Keeps(r.does, "item", m.favorites[f], Items)
    BY <1>2, ItemRequestsKeep
  <2>4. r.does.item \in Items /\ (~ r.does.dirty => r.does.item = m.favorites[f])
    BY <2>3 DEF Keeps
  <2>5. Answer(k, r) /\ m' = [m EXCEPT !.favorites = new] /\ UNCHANGED <<unsaid, toggled>>
    BY <2>2 DEF AnswerItem
  <2>6. /\ new \in [1..FavoritesMax -> Items]
        /\ ~ r.does.dirty => new = m.favorites
    BY <1>2, <1>3, <2>4
  <2>. HIDE DEF new
  <2>7. [m EXCEPT !.favorites = new] \in ServerModels
    BY <1>1, <2>6, ModelsTake
  <2>. QED  BY <2>5, <2>6, <2>7, AnswerPartKeeps
<1>6. ASSUME RequestSource(k) PROVE Kept'
  <2>1. PICK s \in 1..SourcesMax :
          \E r \in SourceRequests(m.sources[s], s) : AnswerItem(k, "sources", s, r)
    BY <1>2, <1>6 DEF RequestSource
  <2>2. PICK r \in SourceRequests(m.sources[s], s) : AnswerItem(k, "sources", s, r)
    BY <2>1
  <2> DEFINE new == [m.sources EXCEPT ![s] = r.does.item]
  <2>3. Keeps(r.does, "item", m.sources[s], Items)
    BY <1>2, ItemRequestsKeep
  <2>4. r.does.item \in Items /\ (~ r.does.dirty => r.does.item = m.sources[s])
    BY <2>3 DEF Keeps
  <2>5. Answer(k, r) /\ m' = [m EXCEPT !.sources = new] /\ UNCHANGED <<unsaid, toggled>>
    BY <2>2 DEF AnswerItem
  <2>6. /\ new \in [1..SourcesMax -> Items]
        /\ ~ r.does.dirty => new = m.sources
    BY <1>2, <1>3, <2>4
  <2>. HIDE DEF new
  <2>7. [m EXCEPT !.sources = new] \in ServerModels
    BY <1>1, <2>6, ModelsTake
  <2>. QED  BY <2>5, <2>6, <2>7, AnswerPartKeeps
<1>. QED  BY <1>4, <1>5, <1>6

LEMMA ModelStepsKeep ==
  ASSUME Kept, NEW k
  PROVE  /\ RequestPanel(k) => Kept'
         /\ RequestInfrared(k) => Kept'
         /\ TelnetNetwork(k) => Kept'
<1>1. /\ m \in ServerModels /\ m.panel \in PanelsWith({Null})
      /\ m.infrared \in InfraredsWith({Null}) /\ m.network \in NetworksWith({Null})
  BY KeptHas, ModelsHave
<1>2. ASSUME RequestPanel(k) PROVE Kept'
  <2>1. PICK r \in PanelRequests(m.panel) : AnswerModel(k, "panel", r)
    BY <1>2 DEF RequestPanel
  <2>2. r.does.model \in PanelsWith({Null}) /\ (~ r.does.dirty => r.does.model = m.panel)
    BY <1>1, PanelRequestsKeep DEF Keeps
  <2>3. [m EXCEPT !.panel = r.does.model] \in ServerModels
    BY <1>1, <2>2, ModelsTake
  <2>. QED  BY <2>1, <2>2, <2>3, AnswerPartKeeps DEF AnswerModel
<1>3. ASSUME RequestInfrared(k) PROVE Kept'
  <2>1. PICK r \in InfraredRequests(m.infrared) : AnswerModel(k, "infrared", r)
    BY <1>3 DEF RequestInfrared
  <2>2. r.does.model \in InfraredsWith({Null}) /\ (~ r.does.dirty => r.does.model = m.infrared)
    BY <1>1, InfraredRequestsKeep DEF Keeps
  <2>3. [m EXCEPT !.infrared = r.does.model] \in ServerModels
    BY <1>1, <2>2, ModelsTake
  <2>. QED  BY <2>1, <2>2, <2>3, AnswerPartKeeps DEF AnswerModel
<1>4. ASSUME TelnetNetwork(k) PROVE Kept'
  <2>1. PICK o \in NetworkRequests(m.network) : AnswerModel(k, "network", ByTelnet(o))
    BY <1>4 DEF TelnetNetwork
  <2> DEFINE r == ByTelnet(o)
  <2>2. r.does = o
    BY AskDoes DEF ByTelnet, Directly
  <2>. HIDE DEF r
  <2>3. AnswerModel(k, "network", r)
    BY <2>1 DEF r
  <2>4. r.does.model \in NetworksWith({Null}) /\ (~ r.does.dirty => r.does.model = m.network)
    BY <1>1, <2>2, NetworkRequestsKeep DEF Keeps
  <2>5. [m EXCEPT !.network = r.does.model] \in ServerModels
    BY <1>1, <2>4, ModelsTake
  <2>. QED  BY <2>3, <2>4, <2>5, AnswerPartKeeps DEF AnswerModel
<1>. QED  BY <1>2, <1>3, <1>4

\* What is queried or read by clients changes nothing on the server.
LEMMA QueryStepsKeep ==
  ASSUME Kept, NEW k
  PROVE  /\ QueryZone(k) => Kept'
         /\ TelnetQuery(k) => Kept'
         /\ QueryProxy(k) \/ Refresh(k) \/ RefreshFromProxy(k) => Kept'
<1>1. m \in ServerModels
  BY KeptHas
<1>2. ASSUME QueryZone(k) PROVE Kept'
  <2>1. PICK r : Answer(k, r)
    BY <1>2 DEF QueryZone
  <2>2. m' = m /\ toggled' = toggled
    BY <1>2 DEF QueryZone
  <2>. QED  BY <1>1, <2>1, <2>2, AnswerKeepsModels
<1>3. ASSUME TelnetQuery(k) PROVE Kept'
  <2>1. PICK r : Answer(k, r)
    BY <1>3 DEF TelnetQuery
  <2>2. m' = m /\ toggled' = toggled
    BY <1>3 DEF TelnetQuery
  <2>. QED  BY <1>1, <2>1, <2>2, AnswerKeepsModels
<1>4. ASSUME QueryProxy(k) \/ Refresh(k) \/ RefreshFromProxy(k) PROVE Kept'
  <2>1. UNCHANGED <<up, m, dirty, file, toggled>>
    BY <1>4 DEF QueryProxy, Refresh, RefreshFromProxy
  <2>. QED  BY <2>1 DEF Kept, ServerTyped, CleanIsSaved
<1>. QED  BY <1>2, <1>3, <1>4

LEMMA ClearGroupsKeeps ==
  ASSUME Kept, NEW t, TelnetClearGroups(t)
  PROVE  Kept'
<1> DEFINE o == ClearZonesRequest(m.groups)
           r == ByTelnet(o)
           groups == [g \in DOMAIN m.groups |-> GroupClearZones(m.groups[g]).value]
<1>1. r.does = o
  BY AskDoes DEF ByTelnet, Directly
<1>2. o.groups = groups /\ o.dirty = TRUE
  BY DEF ClearZonesRequest
<1>3. Answer(t, r) /\ m' = [m EXCEPT !.groups = o.groups] /\ toggled' = toggled
  BY DEF TelnetClearGroups
<1>4. m \in ServerModels /\ m.groups \in [1..GroupsMax -> Groups]
  BY KeptHas, ModelsHave
<1>5. groups \in [1..GroupsMax -> Groups]
  <2>1. ASSUME NEW group \in Groups PROVE GroupClearZones(group).value \in Groups
    <3>1. GroupClearZones(group).value = [group EXCEPT !.zones = {}]
      BY DEF GroupClearZones, ClearIdentifiers, SetField
    <3>2. [group EXCEPT !.zones = {}] \in Groups
      BY GroupFields
    <3>. QED  BY <3>1, <3>2
  <2>. QED  BY <1>4, <2>1
<1>. HIDE DEF o, r, groups
<1>6. [m EXCEPT !.groups = groups] \in ServerModels
  BY <1>4, <1>5, ModelsTake
<1>7. m' \in ServerModels /\ r.does.dirty
  BY <1>1, <1>2, <1>3, <1>6
<1>. QED  BY <1>3, <1>7, AnswerKeepsModels

LEMMA ConfigurationStepsKeep ==
  ASSUME Kept, NEW k
  PROVE  /\ SaveToBackupRequest(k) => Kept'
         /\ LoadFromBackupRequest(k) => Kept'
         /\ ResetToDefaultsRequest(k) => Kept'
<1>1. m \in ServerModels
  BY KeptHas
<1>2. ASSUME SaveToBackupRequest(k) PROVE Kept'
  <2>1. up /\ up' = up /\ m' = m /\ dirty' = dirty
    BY <1>2 DEF SaveToBackupRequest, ConfigurationRequest
  <2>2. \/ file' = Save(m)
        \/ file' = file /\ toggled' = toggled
    BY <1>2 DEF SaveToBackupRequest, Save
  <2>3. CASE file' = Save(m)
    <3>1. file' \in SavedBackups
      BY <1>1, <2>3, SavedTyped DEF Save
    <3>2. Same(file', Save(m'), toggled')
      BY <2>1, <2>3, SameIsSame
    <3>. QED  BY <2>1, <3>1, <3>2 DEF Kept, ServerTyped, CleanIsSaved
  <2>4. CASE file' = file /\ toggled' = toggled
    BY <2>1, <2>4 DEF Kept, ServerTyped, CleanIsSaved
  <2>. QED  BY <2>2, <2>3, <2>4
<1>3. ASSUME LoadFromBackupRequest(k) PROVE Kept'
  <2>1. /\ up /\ up' = up /\ file' = file /\ toggled' = {}
        /\ m' = LoadFromBackupConfiguration(m, file)
        /\ dirty' = (dirty \/ LoadMakesDirty(m, file))
    BY <1>3 DEF LoadFromBackupRequest, ConfigurationRequest
  <2>2. file \in SavedBackups
    BY <2>1 DEF Kept, ServerTyped
  <2>3. m' \in ServerModels
    BY <1>1, <2>1, <2>2, LoadedTyped
  <2>4. dirty' \in BOOLEAN
    BY <2>1
  <2>5. ASSUME ~ dirty' PROVE Same(file, Save(m'), {})
    <3>1. ~ dirty /\ ~ LoadMakesDirty(m, file)
      BY <2>1, <2>5
    <3>2. Same(file, Save(m), toggled)
      BY <2>1, <3>1 DEF Kept, CleanIsSaved
    <3>3. Same(file, Save(LoadFromBackupConfiguration(m, file)), {})
      BY <1>1, <2>2, <3>1, <3>2, CleanLoad
    <3>. QED  BY <2>1, <3>3
  <2>. QED  BY <2>1, <2>2, <2>3, <2>4, <2>5 DEF Kept, ServerTyped, CleanIsSaved
<1>4. ASSUME ResetToDefaultsRequest(k) PROVE Kept'
  <2>1. /\ up /\ up' = up /\ file' = file /\ dirty' = TRUE
        /\ m' = ResetToDefaultConfiguration(m)
    BY <1>4 DEF ResetToDefaultsRequest, ConfigurationRequest
  <2>2. m' \in ServerModels
    BY <1>1, <2>1, ResetTyped
  <2>. QED  BY <2>1, <2>2 DEF Kept, ServerTyped, CleanIsSaved
<1>. QED  BY <1>2, <1>3, <1>4

LEMMA ProcessStepsKeep ==
  ASSUME Kept
  PROVE  /\ Start => Kept'
         /\ Stop => Kept'
         /\ TimerDidFire => Kept'
<1>1. ASSUME Start PROVE Kept'
  <2>1. ~ up /\ m = ServerNulls /\ dirty' = FALSE
    BY <1>1 DEF Start, Kept, ServerTyped
  <2>2. CASE /\ file # Missing /\ up' = TRUE
             /\ m' = LoadFromBackupConfiguration(m, file) /\ file' = file
    <3>1. file \in SavedBackups
      BY <2>2 DEF Kept, ServerTyped
    <3>2. m' \in ServerModels
      BY <2>1, <2>2, <3>1, NullsTyped, LoadedTyped
    <3>3. Save(m') = file
      BY <2>1, <2>2, <3>1, BackupRestored
    <3>. QED  BY <2>1, <2>2, <3>1, <3>2, <3>3, SameIsSame DEF Kept, ServerTyped, CleanIsSaved
  <2>3. CASE /\ up' = TRUE /\ m' = ResetToDefaultConfiguration(m)
             /\ file' = SaveToBackupConfiguration(m')
    <3>1. m' \in ServerModels
      BY <2>1, <2>3, NullsTyped, ResetTyped
    <3>2. file' \in SavedBackups /\ file' = Save(m')
      BY <2>3, <3>1, SavedTyped DEF Save
    <3>. QED  BY <2>1, <2>3, <3>1, <3>2, SameIsSame DEF Kept, ServerTyped, CleanIsSaved
  <2>4. CASE UNCHANGED <<up, m, file>>
    BY <2>1, <2>4 DEF Kept, ServerTyped, CleanIsSaved
  <2>. QED  BY <1>1, <2>2, <2>3, <2>4 DEF Start
<1>2. ASSUME Stop PROVE Kept'
  <2>1. up' = FALSE /\ m' = ServerNulls /\ dirty' = FALSE /\ file' = file
    BY <1>2 DEF Stop
  <2>. QED  BY <2>1, NullsTyped DEF Kept, ServerTyped, CleanIsSaved
<1>3. ASSUME TimerDidFire PROVE Kept'
  <2>1. up /\ up' = up /\ m' = m
    BY <1>3 DEF TimerDidFire
  <2>2. \/ file' = Save(m) /\ dirty' = FALSE
        \/ UNCHANGED <<file, dirty, toggled>>
    BY <1>3 DEF TimerDidFire, Save
  <2>3. CASE file' = Save(m) /\ dirty' = FALSE
    <3>1. file' \in SavedBackups
      BY <2>3, KeptHas, SavedTyped DEF Save
    <3>2. Same(file', Save(m'), toggled')
      BY <2>1, <2>3, SameIsSame
    <3>. QED  BY <2>1, <2>3, <3>1, <3>2 DEF Kept, ServerTyped, CleanIsSaved
  <2>4. CASE UNCHANGED <<file, dirty, toggled>>
    BY <2>1, <2>4 DEF Kept, ServerTyped, CleanIsSaved
  <2>. QED  BY <2>2, <2>3, <2>4
<1>. QED  BY <1>1, <1>2, <1>3

LEMMA KeptNext == Kept /\ [Next]_vars => Kept'
<1> SUFFICES ASSUME Kept, [Next]_vars PROVE Kept'
  OBVIOUS
<1>1. ASSUME NEW k, Request(k) PROVE Kept'
  <2>1. RequestZone(k) => Kept'
    BY ZoneStepsKeep
  <2>2. RequestToggle(k) \/ RequestGroupToggle(k) => Kept'
    BY ToggleStepsKeep
  <2>3. RequestAllZones(k) => Kept'
    BY AllZonesStepKeeps
  <2>4. RequestGroup(k) \/ RequestGroupSource(k) \/ RequestGroupAdjust(k)
          \/ RequestGroupItself(k) => Kept'
    BY GroupStepsKeep
  <2>5. RequestPreset(k) \/ RequestFavorite(k) \/ RequestSource(k) => Kept'
    BY ElementStepsKeep
  <2>6. RequestPanel(k) \/ RequestInfrared(k) => Kept'
    BY ModelStepsKeep
  <2>7. SaveToBackupRequest(k) \/ LoadFromBackupRequest(k) \/ ResetToDefaultsRequest(k) => Kept'
    BY ConfigurationStepsKeep
  <2>. QED  BY <1>1, <2>1, <2>2, <2>3, <2>4, <2>5, <2>6, <2>7 DEF Request
<1>2. ASSUME NEW t, TelnetRequest(t) PROVE Kept'
  BY <1>2, QueryStepsKeep, ModelStepsKeep, ClearGroupsKeeps DEF TelnetRequest
<1>3. ASSUME NEW k, \/ Refresh(k) \/ RefreshFromProxy(k) \/ QueryZone(k) \/ QueryProxy(k)
                    \/ \E z \in 1..ZonesMax : RequestBass(k, z) \/ RequestTreble(k, z)
      PROVE  Kept'
  BY <1>3, QueryStepsKeep, ZoneStepsKeep
<1>4. ASSUME UNCHANGED vars PROVE Kept'
  BY <1>4 DEF vars, history, Kept, ServerTyped, CleanIsSaved
<1>. QED  BY <1>1, <1>2, <1>3, <1>4, ProcessStepsKeep DEF Next

\* What the running server has in its models, and what is on disk, are models
\* and backups of the values their setters let through (hlxsimd's controllers,
\* Common::Model): no request, load or reset takes a zone, a group or another
\* element beyond its limits, and what is saved can be loaded.
THEOREM ServerIsTyped == Spec => []ServerTyped
<1>1. Init => Kept
  BY KeptInit
<1>2. Kept /\ [Next]_vars => Kept'
  BY KeptNext
<1>3. Kept => ServerTyped
  BY DEF Kept
<1>. QED  BY <1>1, <1>2, <1>3, PTL DEF Spec

\* When nothing is dirty the backup on disk is what a save would write, but
\* for the mutes of zones that were toggled (Controller::TimerDidFire saves
\* only when dirty; a toggle does not make dirty).
THEOREM AlwaysSavedUnlessDirty == Spec => []SavedUnlessDirty
<1>1. Init => Kept
  BY KeptInit
<1>2. Kept /\ [Next]_vars => Kept'
  BY KeptNext
<1>3. Kept => SavedUnlessDirty
  <2> SUFFICES ASSUME Kept, up, ~ dirty
               PROVE  Settled(file) = Settled(SaveToBackupConfiguration(m))
    BY DEF SavedUnlessDirty
  <2>1. file \in SavedBackups /\ Same(file, SaveToBackupConfiguration(m), toggled)
    BY DEF Kept, ServerTyped, CleanIsSaved, Save
  <2>2. SaveToBackupConfiguration(m) \in SavedBackups
    BY KeptHas, SavedTyped
  <2>. QED  BY <2>1, <2>2, SameSettled
<1>. QED  BY <1>1, <1>2, <1>3, PTL DEF Spec

\* A start with a backup brings back all that the backup holds, and one
\* without has written what it made (Controller::InitConfiguration).
THEOREM StartRestores == Spec => RestartRestores
<1>1. Init => Kept
  BY KeptInit
<1>2. Kept /\ [Next]_vars => Kept'
  BY KeptNext
<1>3. Kept /\ [Next]_vars => [~ up /\ up' => SaveToBackupConfiguration(m') = file']_vars
  <2> SUFFICES ASSUME Kept, [Next]_vars, ~ up, up'
               PROVE  SaveToBackupConfiguration(m') = file'
    OBVIOUS
  <2>1. Start
    <3>1. \A k : /\ ~ Refresh(k) /\ ~ RefreshFromProxy(k) /\ ~ QueryZone(k) /\ ~ QueryProxy(k)
                 /\ ~ Request(k) /\ ~ TelnetRequest(k)
                 /\ \A z : ~ RequestBass(k, z) /\ ~ RequestTreble(k, z)
      <4>1. \A k, r : ~ Answer(k, r) /\ ~ ConfigurationRequest(k, r)
        BY DEF Answer, ConfigurationRequest
      <4>2. /\ \A k, z, r : ~ AnswerZone(k, z, r) /\ ~ AnswerGroup(k, z, r)
                            /\ ~ AnswerGroupItself(k, z, r) /\ ~ AnswerPreset(k, z, r)
                            /\ ~ AnswerModel(k, z, r)
            /\ \A k, r : ~ AnswerZones(k, r)
            /\ \A k, name, i, r : ~ AnswerItem(k, name, i, r)
        BY <4>1 DEF AnswerZone, AnswerZones, AnswerGroup, AnswerGroupItself, AnswerPreset,
                    AnswerModel, AnswerItem
      <4>3. \A k : ~ Refresh(k) /\ ~ RefreshFromProxy(k) /\ ~ QueryZone(k) /\ ~ QueryProxy(k)
        BY <4>1 DEF Refresh, RefreshFromProxy, QueryZone, QueryProxy
      <4>4. \A k, z : ~ RequestBass(k, z) /\ ~ RequestTreble(k, z)
        BY <4>2 DEF RequestBass, RequestTreble
      <4>5. \A k : ~ TelnetRequest(k)
        BY <4>1, <4>2 DEF TelnetRequest, TelnetQuery, TelnetNetwork, TelnetClearGroups
      <4>6. \A k : /\ ~ RequestZone(k) /\ ~ RequestToggle(k) /\ ~ RequestAllZones(k)
                   /\ ~ RequestGroup(k) /\ ~ RequestGroupToggle(k)
                   /\ ~ RequestGroupAdjust(k) /\ ~ RequestGroupItself(k)
        BY <4>2 DEF RequestZone, RequestToggle, RequestAllZones, RequestGroup,
                    RequestGroupToggle, RequestGroupAdjust, RequestGroupItself
      <4>7. \A k : ~ RequestGroupSource(k)
        BY <4>1 DEF RequestGroupSource
      <4>8. \A k : /\ ~ RequestPreset(k) /\ ~ RequestFavorite(k) /\ ~ RequestSource(k)
                   /\ ~ RequestPanel(k) /\ ~ RequestInfrared(k)
        BY <4>2 DEF RequestPreset, RequestFavorite, RequestSource, RequestPanel, RequestInfrared
      <4>9. \A k : /\ ~ SaveToBackupRequest(k) /\ ~ LoadFromBackupRequest(k)
                   /\ ~ ResetToDefaultsRequest(k)
        BY <4>1 DEF SaveToBackupRequest, LoadFromBackupRequest, ResetToDefaultsRequest
      <4>10. \A k : ~ Request(k)
        BY <4>6, <4>7, <4>8, <4>9 DEF Request
      <4>. QED  BY <4>3, <4>4, <4>5, <4>10
    <3>2. ~ Stop /\ ~ TimerDidFire /\ ~ UNCHANGED vars
      BY DEF Stop, TimerDidFire, vars
    <3>. QED  BY <3>1, <3>2 DEF Next
  <2>2. m = ServerNulls
    BY DEF Kept, ServerTyped
  <2>3. CASE file # Missing /\ m' = LoadFromBackupConfiguration(m, file) /\ file' = file
    <3>1. file \in SavedBackups
      BY <2>3 DEF Kept, ServerTyped
    <3>. QED  BY <2>2, <2>3, <3>1, BackupRestored DEF Save
  <2>4. CASE file' = SaveToBackupConfiguration(m')
    BY <2>4
  <2>. QED  BY <2>1, <2>3, <2>4 DEF Start
<1>. QED  BY <1>1, <1>2, <1>3, PTL DEF Spec, RestartRestores
=============================================================================

------------------------------- MODULE Models -------------------------------
(***************************************************************************)
(* The data models of openhlx (src/src/lib/model): the values an HLX       *)
(* server keeps, a client copies and a proxy caches.  Every value starts   *)
(* without a known value (Null); a setter answers "success" when the value *)
(* changed, "already" when it did not, and an error, leaving the value     *)
(* alone, when the new one is not allowed.  A setter is an operator from   *)
(* the old value and the new one to an outcome [status, value].            *)
(***************************************************************************)
EXTENDS Integers, Sequences, FiniteSets

CONSTANTS
  Null,            \* no known value
  ZonesMax, SourcesMax, EqualizerPresetsMax, EqualizerBandsMax,
  Volumes,         \* -80..0
  Balances,        \* -80..80, negative to the left
  Tones,           \* -12..12, bass and treble
  BandLevels,      \* -10..10
  Lowpasses,       \* 40..240 Hz
  Highpasses,      \* 1..20000 Hz
  Brightnesses,    \* 0..3
  NameLengthMax    \* 16

\* The limits of a level: every level between the lowest and the highest.
IsRange(S) == S \subseteq Int /\ \A a, b \in S : a..b \subseteq S

ASSUME RangesAssumption ==
  /\ IsRange(Volumes) /\ IsRange(Balances) /\ IsRange(Tones)
  /\ IsRange(BandLevels) /\ IsRange(Lowpasses) /\ IsRange(Highpasses)
  /\ IsRange(Brightnesses)
  /\ NameLengthMax \in Nat /\ {ZonesMax, SourcesMax} \subseteq Nat \ {0}
  /\ {EqualizerPresetsMax, EqualizerBandsMax} \subseteq Nat \ {0}

Bands == 1..EqualizerBandsMax

SoundModes ==
  {"disabled", "equalizer", "preset", "tone", "lowpass", "highpass"}

ASSUME NullAssumption == Null \notin Int \cup BOOLEAN \cup SoundModes

(***************************************************************************)
(* Models as they are made: nothing is known                               *)
(***************************************************************************)
ZoneNulls ==
  [name |-> Null, source |-> Null, volume |-> Null, mute |-> Null,
   fixed |-> Null, balance |-> Null, mode |-> Null,
   bands |-> [b \in Bands |-> Null], preset |-> Null,
   tone |-> [bass |-> Null, treble |-> Null],
   lowpass |-> Null, highpass |-> Null]

GroupNulls ==
  [name |-> Null, zones |-> {}, mute |-> Null, volume |-> Null,
   sources |-> {}]

PresetNulls == [name |-> Null, bands |-> [b \in Bands |-> Null]]

PanelNulls == [brightness |-> Null, locked |-> Null]

InfraredNulls == [disabled |-> Null]

NetworkNulls == [dhcp |-> Null, sddp |-> Null]

HasNull(model) == \E field \in DOMAIN model : model[field] = Null

(***************************************************************************)
(* Outcomes                                                                *)
(***************************************************************************)
Failed(r) == r.status \notin {"success", "already"}

\* Only a change is worth saving and announcing.
Changed(r) == r.status = "success"

\* The value is set, whether or not it had one.
Set(old, new) ==
  [status |-> IF new = old THEN "already" ELSE "success", value |-> new]

\* A value outside its limits is refused.
SetWithin(S, old, new) ==
  IF new \in S THEN Set(old, new) ELSE [status |-> "range", value |-> old]

\* AdjustWithin without the limits.
AdjustUnlimited(S, old, by) ==
  IF old = Null
  THEN [status |-> "null", value |-> old]
  ELSE Set(old, old + by)

\* An adjustment starts from a known value and ends within the limits.
AdjustWithin(S, old, by) ==
  IF old = Null
  THEN [status |-> "null", value |-> old]
  ELSE SetWithin(S, old, old + by)

(***************************************************************************)
(* Volume                                                                  *)
(***************************************************************************)
SetVolume(level, new) == SetWithin(Volumes, level, new)

AdjustVolume(level, by) == AdjustWithin(Volumes, level, by)

SetMute(mute, new) == Set(mute, new)

ToggleMute(mute) ==
  IF mute = Null
  THEN [status |-> "null", value |-> mute]
  ELSE [status |-> "success", value |-> ~mute]

SetFixed(fixed, new) == Set(fixed, new)

(***************************************************************************)
(* Balance                                                                 *)
(***************************************************************************)
SetBalance(balance, new) == SetWithin(Balances, balance, new)

AdjustBalance(balance, by) == AdjustWithin(Balances, balance, by)

IncreaseBalanceLeft(balance) == AdjustBalance(balance, -1)

IncreaseBalanceRight(balance) == AdjustBalance(balance, 1)

(***************************************************************************)
(* Sound mode, tone, equalizer bands and crossovers                        *)
(***************************************************************************)
SetSoundMode(mode, new) ==
  IF new \in SoundModes
  THEN Set(mode, new)
  ELSE [status |-> "invalid", value |-> mode]

\* Only the low pass mode, for a subwoofer, is not stereo.
ChannelMode(mode) ==
  CASE mode = Null -> Null
    [] mode = "lowpass" -> "mono"
    [] OTHER -> "stereo"

SetBass(bass, new) == SetWithin(Tones, bass, new)

AdjustBass(bass, by) == AdjustWithin(Tones, bass, by)

SetTreble(treble, new) == SetWithin(Tones, treble, new)

AdjustTreble(treble, by) == AdjustWithin(Tones, treble, by)

\* Both levels are set or neither is: a refused treble restores the bass.
SetTone(tone, new) ==
  LET bass == SetBass(tone.bass, new.bass)
      treble == SetTreble(tone.treble, new.treble)
  IN IF Failed(bass) \/ Failed(treble)
     THEN [status |-> "range", value |-> tone]
     ELSE Set(tone, new)

SetLevel(level, new) == SetWithin(BandLevels, level, new)

AdjustLevel(level, by) == AdjustWithin(BandLevels, level, by)

SetLowpassFrequency(frequency, new) == SetWithin(Lowpasses, frequency, new)

SetHighpassFrequency(frequency, new) == SetWithin(Highpasses, frequency, new)

(***************************************************************************)
(* Identifiers, names and collections of identifiers                       *)
(***************************************************************************)
\* Zero is no identifier.
SetIdentifier(id, new) ==
  IF new = 0 THEN [status |-> "invalid", value |-> id] ELSE Set(id, new)

\* Identifiers count from one.
ValidateIdentifier(id, max) == IF id \in 1..max THEN "success" ELSE "range"

Shortened(name, length) == SubSeq(name, 1, length)

\* strncmp compares no more than the length of the new name: a new name that
\* is the beginning of the current one counts as the same and is not stored.
SetName(name, new) ==
  CASE /\ name # Null
       /\ Len(new) <= Len(name)
       /\ Shortened(name, Len(new)) = new
       -> [status |-> "already", value |-> name]
    [] OTHER -> IF Len(new) > NameLengthMax
                THEN [status |-> "long", value |-> name]
                ELSE [status |-> "success", value |-> new]

AddIdentifier(ids, id) ==
  [status |-> IF id \in ids THEN "already" ELSE "success",
   value |-> ids \cup {id}]

RemoveIdentifier(ids, id) ==
  IF id \in ids
  THEN [status |-> "success", value |-> ids \ {id}]
  ELSE [status |-> "absent", value |-> ids]

\* Clearing always counts as a change.
ClearIdentifiers(ids) == [status |-> "success", value |-> {}]

\* A list that names an identifier twice is refused.
SetIdentifiers(ids, list) ==
  LET new == {list[i] : i \in DOMAIN list}
  IN IF Cardinality(new) # Len(list)
     THEN [status |-> "already", value |-> ids]
     ELSE Set(ids, new)

(***************************************************************************)
(* Front panel, infrared and network                                       *)
(***************************************************************************)
SetBrightness(brightness, new) == SetWithin(Brightnesses, brightness, new)

SetLocked(locked, new) == Set(locked, new)

SetDisabled(disabled, new) == Set(disabled, new)

SetDHCPv4Enabled(enabled, new) == Set(enabled, new)

SetSDDPEnabled(enabled, new) == Set(enabled, new)
=============================================================================

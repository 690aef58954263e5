-------------------------------- MODULE Lines --------------------------------
(***************************************************************************)
(* The lines of the HLX protocol as both sides compose and match them      *)
(* (src/src/lib/common/Command*Buffer*.cpp, Command*RegularExpression*.cpp)*)
(*                                                                         *)
(* A line is a sequence of tokens: each longest run of letters is one, each*)
(* number, with its sign, is one, and so is a name.  A request starts with *)
(* "[" and ends with "]", an answer with "(" and ")".                      *)
(* A pattern is a sequence of elements; an element is the set of tokens it *)
(* matches and whether it is kept, that is, in parentheses in the regular  *)
(* expression, with the number of matches its owner expects: the line      *)
(* itself and each element that is kept.                                   *)
(***************************************************************************)
EXTENDS Integers, Sequences

CONSTANTS
  Numbers,         \* identifiers, frequencies, ...: without a sign
  Levels,          \* numbers with a sign
  NameLengthMax

(***************************************************************************)
(* What each role puts around a line                                       *)
(***************************************************************************)
RoleDelimiters(role) == IF role = "requestor" THEN <<"[", "]">> ELSE <<"(", ")">>

DelimitedBuffer(role, tokens) ==
  <<RoleDelimiters(role)[1]>> \o tokens \o <<RoleDelimiters(role)[2]>>

(***************************************************************************)
(* Lines: a property of an object, then an operation on it                 *)
(***************************************************************************)
Bit(value) == IF value THEN 1 ELSE 0

PropertyLine(property, object, id, operation) ==
  <<property \o object, id>> \o operation

PropertySetLine(property, object, id, operation, value) ==
  PropertyLine(property, object, id, <<operation, value>>)

BalanceOperationLine(object, id, operation) ==
  PropertyLine("B", object, id, operation)

\* The distance of the side to the left with its sign.
BalanceLineSigned(object, id, balance) ==
  BalanceOperationLine(object, id, <<IF balance <= 0 THEN "L" ELSE "R", balance>>)

\* The side, and how far: the center is to the left.
BalanceLine(object, id, balance) ==
  IF balance <= 0
  THEN BalanceOperationLine(object, id, <<"L", -balance>>)
  ELSE BalanceOperationLine(object, id, <<"R", balance>>)

BandOperationLine(object, id, band, operation) ==
  PropertyLine("E", object, id, <<"B", band>> \o operation)

BandLine(object, id, band, level) ==
  BandOperationLine(object, id, band, <<"L", level>>)

CrossoverLine(object, id, operation, frequency) ==
  PropertySetLine("E", object, id, operation, frequency)

HighpassLine(object, id, frequency) == CrossoverLine(object, id, "HP", frequency)

LowpassLine(object, id, frequency) == CrossoverLine(object, id, "LP", frequency)

EqualizerPresetLine(object, id, preset) ==
  PropertySetLine("E", object, id, "P", preset)

SoundModeLine(object, id, mode) == PropertySetLine("E", object, id, "M", mode)

\* What is too long of a name is left out.
NameLine(object, id, name) ==
  PropertyLine("N", object, id,
    <<"quote", IF Len(name) > NameLengthMax
               THEN SubSeq(name, 1, NameLengthMax)
               ELSE name, "quote">>)

SourceLine(object, id, source) == PropertySetLine("C", object, id, "I", source)

SourceAllLine(object, source) == <<"C" \o object \o "I", source>>

ToneOperationLine(object, id, operation) ==
  PropertyLine("T", object, id, operation)

ToneLine(object, id, bass, treble) ==
  ToneOperationLine(object, id, <<"B", bass, "T", treble>>)

VolumeLine(object, id, level) == PropertySetLine("V", object, id, "R", level)

VolumeAllLine(object, level) == <<"V" \o object \o "R", level>>

VolumeFixedLine(object, id, fixed) ==
  PropertySetLine("V", object, id, "F", Bit(fixed))

VolumeMuteLine(object, id, mute) ==
  <<"V" \o (IF mute THEN "M" ELSE "UM") \o object, id>>

QueryLine(object) == <<"Q" \o object>>

QueryIdentifierLine(object, id) == <<"Q" \o object, id>>

QueryPropertyLine(object, property, id) == <<"Q" \o property \o object, id>>

GroupZoneLine(id, operation, zone) == <<"G", id, operation \o "O", zone>>

BrightnessLine(brightness) == <<"SD", brightness>>

LockedLine(locked) == <<"FPL", Bit(locked)>>

QueryLockedLine == QueryLine("FPL")

DisabledLine(disabled) == <<"IRL", Bit(disabled)>>

QueryDisabledLine == QueryLine("IRL")

EnabledLine(property, enabled) == <<property, Bit(enabled)>>

DHCPv4EnabledLine(enabled) == EnabledLine("DHCP", enabled)

SDDPEnabledLine(enabled) == EnabledLine("SDDP", enabled)

EthernetEUI48Line(eui48) == <<"MAC", eui48>>

IPLine(property, address) == <<property, address>>

IPDefaultRouterAddressLine(address) == IPLine("GW", address)

IPHostAddressLine(address) == IPLine("IP", address)

IPNetmaskLine(address) == IPLine("NM", address)

(***************************************************************************)
(* Patterns                                                                *)
(***************************************************************************)
Word(word) == [of |-> {word}, kept |-> FALSE]

Kept(tokens) == [of |-> tokens, kept |-> TRUE]

Number == Kept(Numbers)

Level == Kept(Levels)

Flag == Kept(0..1)

Pattern(elements, expected) == [elements |-> elements, expected |-> expected]

DelimitedPattern(role, pattern) ==
  [pattern EXCEPT !.elements =
     <<Word(RoleDelimiters(role)[1])>> \o @ \o <<Word(RoleDelimiters(role)[2])>>]

Match(line, pattern) ==
  /\ Len(line) = Len(pattern.elements)
  /\ \A i \in 1..Len(line) : line[i] \in pattern.elements[i].of

\* What is kept of a line, as far as the owner of the pattern expects it.
Matches(line, pattern) ==
  LET tokens == [i \in DOMAIN line |-> <<line[i], pattern.elements[i].kept>>]
      kept == SelectSeq(tokens, LAMBDA token : token[2])
  IN [i \in 1..(pattern.expected - 1) |-> kept[i][1]]

\* Names of printable characters, one at least.
Printable(names) == {name \in names : name # <<>>}
=============================================================================

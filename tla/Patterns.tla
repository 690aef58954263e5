------------------------------ MODULE Patterns ------------------------------
(***************************************************************************)
(* The patterns that a client and a server share: what one side sends is   *)
(* what the other understands                                              *)
(* (src/src/lib/common/Command*RegularExpressionBases.cpp).                *)
(***************************************************************************)
EXTENDS Lines

CONSTANTS
  PrintableNames,  \* names a line can hold
  Addresses,       \* IP addresses
  EUI48s           \* Ethernet addresses

Name == Kept(Printable(PrintableNames))

NamePattern(keyword) ==
  Pattern(<<Word(keyword), Number, Word("quote"), Name, Word("quote")>>, 3)

\* What a zone sounds like.
ZoneSound ==
  [Balance |-> Pattern(<<Word("BO"), Number, Kept({"R", "L"}), Number>>, 4),
   BandLevel |-> Pattern(<<Word("EO"), Number, Word("B"), Number,
                         Word("L"), Level>>, 4),
   EqualizerPreset |-> Pattern(<<Word("EO"), Number, Word("P"), Number>>, 3),
   HighpassCrossover |->
     Pattern(<<Word("EO"), Number, Word("HP"), Number>>, 3),
   LowpassCrossover |->
     Pattern(<<Word("EO"), Number, Word("LP"), Number>>, 3)]

\* What else is set of a zone, all zones at once included.
ZoneSetting ==
  [Mute |-> Pattern(<<Kept({"VMO", "VUMO"}), Number>>, 3),
   Name |-> NamePattern("NO"),
   Query |-> Pattern(<<Word("QO"), Number>>, 2),
   SoundMode |-> Pattern(<<Word("EO"), Number, Word("M"), Number>>, 3),
   Source |-> Pattern(<<Word("CO"), Number, Word("I"), Number>>, 3),
   SourceAll |-> Pattern(<<Word("CXI"), Number>>, 2),
   Tone |->
     Pattern(<<Word("TO"), Number, Word("B"), Level, Word("T"), Level>>, 4)]

\* The volume of a zone, or of all.
ZoneVolume ==
  [ToggleMute |-> Pattern(<<Word("VMTO"), Number>>, 2),
   Volume |-> Pattern(<<Word("VO"), Number, Word("R"), Level>>, 3),
   VolumeAll |-> Pattern(<<Word("VXR"), Level>>, 2),
   VolumeFixed |-> Pattern(<<Word("VO"), Number, Word("F"), Flag>>, 3)]

\* Every group at once, CGXI, is a line nobody sends.
Group ==
  [DecreaseVolume |-> Pattern(<<Word("VG"), Number, Word("D")>>, 2),
   IncreaseVolume |-> Pattern(<<Word("VG"), Number, Word("U")>>, 2),
   Mute |-> Pattern(<<Kept({"VMG", "VUMG"}), Number>>, 3),
   Name |-> NamePattern("NG"),
   Query |-> Pattern(<<Word("QG"), Number>>, 2),
   Source |-> Pattern(<<Word("CG"), Number, Word("I"), Number>>, 3),
   ToggleMute |-> Pattern(<<Word("VMTG"), Number>>, 2),
   Volume |-> Pattern(<<Word("VG"), Number, Word("R"), Level>>, 3)]

\* Equalizer presets.
Preset ==
  [BandLevel |-> Pattern(<<Word("EP"), Number, Word("B"), Number,
                         Word("L"), Level>>, 4),
   Name |-> NamePattern("NEP"),
   Query |-> Pattern(<<Word("QEP"), Number>>, 2)]

Favorite ==
  [Name |-> NamePattern("NF"),
   Query |-> Pattern(<<Word("QF"), Number>>, 2)]

Source ==
  [Name |-> NamePattern("NI")]

Panel ==
  [Brightness |-> Pattern(<<Word("SD"), Kept(0..3)>>, 2),
   Locked |-> Pattern(<<Word("FPL"), Flag>>, 2)]

Infrared ==
  [Disabled |-> Pattern(<<Word("IRL"), Flag>>, 2)]

Network ==
  [DHCPv4Enabled |-> Pattern(<<Word("DHCP"), Flag>>, 2),
   EthernetEUI48 |-> Pattern(<<Word("MAC"), Kept(EUI48s)>>, 2),
   IPDefaultRouterAddress |-> Pattern(<<Word("GW"), Kept(Addresses)>>, 2),
   IPHostAddress |-> Pattern(<<Word("IP"), Kept(Addresses)>>, 2),
   IPNetmask |-> Pattern(<<Word("NM"), Kept(Addresses)>>, 2),
   Query |-> Pattern(<<Word("QE")>>, 1),
   SDDPEnabled |-> Pattern(<<Word("SDDP"), Flag>>, 2)]

Configuration ==
  [LoadFromBackup |-> Pattern(<<Word("LOAD")>>, 1),
   QueryCurrent |-> Pattern(<<Word("QX")>>, 1),
   ResetToDefaults |-> Pattern(<<Word("RESET")>>, 1),
   SaveToBackup |-> Pattern(<<Word("SAVE")>>, 1)]
=============================================================================

---------------------------- MODULE MCSimulator ----------------------------
(***************************************************************************)
(* A simulator of two zones, one group, one equalizer preset with two      *)
(* bands, one favorite and two sources, and its factory configuration.     *)
(***************************************************************************)
EXTENDS Simulator

CONSTANTS k1, k2, p1, d1, t1

MCVolumes == -2..0

MCLevels == -1..0

MCFrequencies == 1..2

MCBrightnesses == 0..1

MCNames == { <<"B">>, <<"A">>, <<"A", "B">>, <<"A", "B", "C">> }

MCZoneDefaults ==
  [z \in 1..2 |->
     [name |-> <<"A", "B">>, source |-> 1, volume |-> -2, mute |-> FALSE,
      fixed |-> FALSE, balance |-> 0, mode |-> "disabled",
      bands |-> [b \in Bands |-> 0], preset |-> 1,
      tone |-> [bass |-> 0, treble |-> 0], lowpass |-> 2, highpass |-> 1]]

MCGroupDefaults == << [name |-> <<"A", "B">>] >>

MCPresetDefaults == << [name |-> <<"A", "B">>, bands |-> [b \in Bands |-> 0]] >>

MCNameDefaults ==
  [favorites |-> << <<"A", "B">> >>, sources |-> << <<"A", "B">>, <<"B">> >>]

MCPanelDefaults == [brightness |-> 1, locked |-> FALSE]

MCInfraredDefaults == [disabled |-> FALSE]

MCNetworkDefaults == [dhcp |-> TRUE, sddp |-> TRUE]

\* No backup.
MCNoBackup == {Missing}

\* What a process with both zones in the group has saved.
MCBackup ==
  {[zones |-> [z \in 1..2 |->
                 [name |-> <<"A", "B">>, source |-> 1,
                  volume |-> IF z = 1 THEN -1 ELSE -2, mute |-> z = 2,
                  fixed |-> FALSE, balance |-> 0, mode |-> "disabled"]],
    groups |-> << [name |-> <<"A", "B">>, zones |-> 1..2] >>,
    presets |-> MCPresetDefaults, favorites |-> MCNameDefaults.favorites,
    sources |-> MCNameDefaults.sources, panel |-> MCPanelDefaults,
    infrared |-> MCInfraredDefaults, network |-> MCNetworkDefaults]}


=============================================================================

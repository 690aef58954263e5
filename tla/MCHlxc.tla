------------------------------- MODULE MCHlxc -------------------------------
(***************************************************************************)
(* hlxc of a server with two zones and a group, started in every way that  *)
(* matters to its options.  The name of the second zone is the identifier  *)
(* of the first.                                                           *)
(***************************************************************************)
EXTENDS Hlxc, Integers

Zones == {"1", "2"}

MCElements ==
  [t \in Types \cup {"favorite"} |-> IF t = "zone" THEN <<"1", "2">> ELSE <<"1">>]
    @@ ("equalizer band" :> <<"1">>)

MCSettings ==
  ({"zone"} \X {"name", "mute", "volume"} \X Zones)
  \cup ({"group"} \X {"mute", "volume", "zones"} \X {"1"})
  \cup {<<"zone", "balance", "1">>, <<"zone", "balance", "2">>,
        <<"equalizer preset", "band", "1">>, <<"source", "name", "1">>}

MCInitially ==
  [s \in {t \in MCSettings : t[1] = "group" => t[2] = "zones"} |->
     CASE s = <<"zone", "name", "2">> -> "1"
       [] s[2] = "name" /\ s # <<"zone", "name", "2">> -> "Hall"
       [] s[2] = "zones" -> Zones
       [] s = <<"zone", "volume", "2">> -> "1"
       [] OTHER -> "0"]

\* The level 1 is the maximum, 0 one below; 2 and 3 are beyond the limits.
Height == "3" :> -2 @@ "0" :> -1 @@ "1" :> 0 @@ "2" :> 1

OfHeight(h) == CHOOSE word \in DOMAIN Height : Height[word] = h

MCStepped ==
  [does \in {"increase", "decrease"} |->
     [word \in Words |->
        CASE word \in {"0", "1"} ->
               OfHeight(Height[word] + IF does = "increase" THEN 1 ELSE -1)
          [] OTHER -> word]]

\* The mean of integers, which a division rounds towards zero.
MCMean(values) ==
  LET h(z) == IF values[z] \in DOMAIN Height THEN Height[values[z]] ELSE 0
      sum == MapThenSumSet(h, DOMAIN values)
      n == Cardinality(DOMAIN values)
  IN  CASE n = 0 -> "0"
        [] n # 0 /\ sum < 0 -> OfHeight(-((-sum) \div n))
        [] n # 0 /\ sum >= 0 -> OfHeight(sum \div n)

Object(type, argument) == [is |-> "object", type |-> type, argument |-> argument]

Operation(does, kind, argument) ==
  [is |-> "operation", does |-> does, kind |-> kind, argument |-> argument]

Host == [is |-> "host", argument |-> "server"]

Version(v) == [is |-> "version", argument |-> v]

Timeout(t) == [is |-> "timeout", argument |-> t]

Band(b) == [is |-> "band", argument |-> b]

SetBand == Operation("set", "band", "1")

\* What is asked of a server, refused or not.
Asked ==
  { <<>>,
    <<Object("zone", "Hall"), Operation("set", "mute", "1")>>,
    <<Object("zone", "1"), Operation("toggle", "mute", "")>>,
    <<Object("group", "1"), Operation("set", "volume", "1")>>,
    <<Object("group", "1"), Operation("set", "volume", "0")>>,
    <<Object("group", "1"), Operation("set", "volume", "2")>>,
    <<Object("group", "1"), Operation("increase", "volume", "")>>,
    <<Object("group", "1"), Operation("decrease", "volume", "")>>,
    <<Object("group", "1"), Operation("set", "mute", "1")>>,
    <<Object("group", "1"), Operation("toggle", "mute", "")>>,
    <<Object("zone", "2"), Operation("increase", "volume", "")>>,
    <<Object("zone", "2"), Operation("decrease", "volume", "")>>,
    <<Operation("set", "volume", "1"), Object("group", "1")>>,
    <<Object("zone", "Hall"), Operation("set", "balance", "1")>>,
    <<Object("group", "1"), Operation("set", "balance", "1")>>,
    <<Object("group", "1"), Operation("add", "zones", "Hall")>>,
    <<Object("group", "1"), Operation("remove", "zones", "Hall")>>,
    <<Object("group", "1"), Operation("remove", "zones", "Attic")>>,
    <<Object("equalizer preset", "1"), Band("1"), SetBand>>,
    <<Object("equalizer preset", "1"), Band("2"), SetBand>>,
    <<Object("source", "1"), Operation("set", "name", "Den")>>,
    <<Object("source", "1"), Operation("set", "volume", "1")>>,
    <<Object("source", "Attic"), Operation("set", "name", "Den")>>,
    <<Object("zone", "1"), Operation("get", "volume", "")>>,
    <<Object("zone", "3"), Operation("set", "mute", "1")>>,
    <<Object("zone", "1"), Operation("set", "mute", "Attic")>>,
    <<Object("zone", "1")>> }

MCCommandLines ==
  {a \o <<Host>> : a \in Asked}
  \cup { <<Version("4"), Timeout("1"), Host>>, <<Version("4"), Version("6"), Host>>,
         <<Timeout("0"), Host>>, <<Timeout("Attic"), Host>>, <<Host, Host>>, <<>> }

\* Two disturbances of a command about a group.
MCMaxDisturbances ==
  [given \in MCCommandLines |->
     IF given = <<Object("group", "1"), Operation("set", "volume", "0"), Host>>
     THEN 2 ELSE 1]

=============================================================================

----------------------- MODULE SimulatorClients_proofs -----------------------
(***************************************************************************)
(* Theorems about what clients have of the simulator, directly or by way   *)
(* of the proxy, for every number of zones, groups, clients and all limits:*)
(* their types, the groups that they derive, and what they wait for.       *)
(***************************************************************************)
EXTENDS Simulator_proofs, FiniteSetTheorems, SequenceTheorems,
        WellFoundedInduction

-----------------------------------------------------------------------------
(***************************************************************************)
(* Numbers.                                                                *)
(***************************************************************************)
\* The order of the natural numbers, as a relation.
Below == {ss \in Nat \X Nat : ss[1] < ss[2]}

\* A nonempty set of natural numbers has a least element.
LEMMA LeastNatural ==
  ASSUME NEW T \in SUBSET Nat, T # {}
  PROVE  \E least \in T : \A n \in T : least <= n
<1>1. IsWellFoundedOn(Below, Nat)
  BY NatLessThanWellFounded DEF OpToRel, Below
<1>2. PICK least \in T : \A n \in T : ~(<<n, least>> \in Below)
  BY <1>1, WFMin
<1>3. ASSUME NEW n \in T PROVE least <= n
  <2>1. n \in Nat /\ least \in Nat
    OBVIOUS
  <2>2. ~(<<n, least>> \in Nat \X Nat /\ <<n, least>>[1] < <<n, least>>[2])
    BY <1>2 DEF Below
  <2>3. ~(n < least)
    BY <2>1, <2>2
  <2>. QED  BY <2>1, <2>3
<1>. QED  BY <1>3

\* Induction: a set with 0, and with the next of each of its numbers, has all.
LEMMA SetInduction ==
  ASSUME NEW T \in SUBSET Nat, 0 \in T, \A n \in T : n + 1 \in T
  PROVE  T = Nat
<1> SUFFICES ASSUME T # Nat PROVE FALSE
  OBVIOUS
<1> DEFINE U == Nat \ T
<1>1. U \in SUBSET Nat /\ U # {}
  OBVIOUS
<1>2. PICK n \in U : \A k \in U : n <= k
  BY <1>1, LeastNatural
<1>3. n # 0 /\ n - 1 \in Nat
  BY <1>2
<1>4. n - 1 \in T
  BY <1>2, <1>3
<1>. QED  BY <1>2, <1>3, <1>4

-----------------------------------------------------------------------------
(***************************************************************************)
(* Clients.  What a client has after the lines that it reads, one after the*)
(* other; what follows is that its models keep their types.                *)
(***************************************************************************)
\* What a client has after each of the lines.
HeardTo(f, c, lines, answered) ==
  /\ DOMAIN f = 0 .. Len(lines) /\ f[0] = c
  /\ \A i \in 1 .. Len(lines) :
       f[i] = HearLine(f[i - 1], lines[i], answered /\ i = Len(lines))

\* There is such a sequence of clients, and it ends in what the client hears.
LEMMA HeardEach ==
  ASSUME NEW c, NEW lines, Len(lines) \in Nat, NEW answered
  PROVE  \E f : HeardTo(f, c, lines, answered) /\ HearLines(c, lines, answered) = f[Len(lines)]
<1> DEFINE n == Len(lines)
           H(f) == f = [i \in 0 .. n |->
                          IF i = 0
                          THEN c
                          ELSE CHOOSE after \in {HearLine(before, lines[i], answered /\ i = n) :
                                                   before \in {f[i - 1]}} : TRUE]
           K(f) == f = [i \in 0 .. n |->
                          IF i = 0 THEN c ELSE HearLine(f[i - 1], lines[i], answered /\ i = n)]
           Upto(f, k) == /\ DOMAIN f = 0 .. k /\ f[0] = c
                         /\ \A i \in 1 .. k : f[i] = HearLine(f[i - 1], lines[i], answered /\ i = n)
           T == {k \in Nat : \E f : Upto(f, k)}
<1>1. HearLines(c, lines, answered) = (CHOOSE f : H(f))[n]
  BY DEF HearLines
<1>2. ASSUME NEW S, NEW x PROVE (CHOOSE after \in {x} : TRUE) = x
  OBVIOUS
<1>3. \A f, i : {HearLine(before, lines[i], answered /\ i = n) : before \in {f[i - 1]}}
                  = {HearLine(f[i - 1], lines[i], answered /\ i = n)}
  OBVIOUS
<1>4. \A f : H(f) <=> K(f)
  BY <1>2, <1>3
<1>5. T = Nat
  <2>1. 0 \in T
    <3>1. Upto([i \in 0 .. 0 |-> c], 0)
      OBVIOUS
    <3>. QED  BY <3>1
  <2>2. ASSUME NEW k \in T PROVE k + 1 \in T
    <3>1. PICK f : Upto(f, k)
      OBVIOUS
    <3> DEFINE g == [i \in 0 .. k + 1 |->
                       IF i = k + 1
                       THEN HearLine(f[k], lines[k + 1], answered /\ k + 1 = n)
                       ELSE f[i]]
    <3>2. Upto(g, k + 1)
      BY <3>1
    <3>3. k + 1 \in Nat
      OBVIOUS
    <3>. HIDE DEF g, Upto
    <3>. QED  BY <3>2, <3>3
  <2>. HIDE DEF T
  <2>3. T \in SUBSET Nat
    BY DEF T
  <2>. QED  BY <2>1, <2>2, <2>3, SetInduction
<1>6. PICK f : Upto(f, n)
  BY <1>5
<1>7. K([i \in 0 .. n |-> f[i]])
  BY <1>6
<1>8. \E g : H(g)
  BY <1>4, <1>7
<1>. DEFINE h == CHOOSE g : H(g)
<1>9. K(h) /\ HearLines(c, lines, answered) = h[n]
  BY <1>1, <1>4, <1>8
<1>. HIDE DEF h
<1>10. HeardTo(h, c, lines, answered)
  BY <1>9 DEF HeardTo
<1>. QED  BY <1>9, <1>10

\* Whatever each line keeps, the lines keep.
LEMMA HeardIn ==
  ASSUME NEW c, NEW lines, Len(lines) \in Nat, NEW answered, NEW S, c \in S[0],
         \A i \in 1 .. Len(lines) : \A x \in S[i - 1] :
           HearLine(x, lines[i], answered /\ i = Len(lines)) \in S[i]
  PROVE  HearLines(c, lines, answered) \in S[Len(lines)]
<1> DEFINE n == Len(lines)
<1>1. PICK f : HeardTo(f, c, lines, answered) /\ HearLines(c, lines, answered) = f[n]
  BY HeardEach
<1> DEFINE T == {k \in Nat : k <= n => f[k] \in S[k]}
<1>2. 0 \in T
  BY <1>1 DEF HeardTo
<1>3. ASSUME NEW k \in T PROVE k + 1 \in T
  <2>1. CASE k + 1 <= n
    <3>1. f[k] \in S[k] /\ k + 1 \in 1 .. n /\ (k + 1) - 1 = k
      BY <2>1
    <3>2. f[k + 1] = HearLine(f[k], lines[k + 1], answered /\ k + 1 = n)
      BY <1>1, <3>1 DEF HeardTo
    <3>. QED  BY <3>1, <3>2
  <2>. QED  BY <2>1
<1>. HIDE DEF T
<1>4. T = Nat
  <2>1. T \in SUBSET Nat
    BY DEF T
  <2>. QED  BY <1>2, <1>3, <2>1, SetInduction
<1>. QED  BY <1>1, <1>4 DEF T

\* The same set of clients at each line.
LEMMA HeardWithin ==
  ASSUME NEW c, NEW lines, Len(lines) \in Nat, NEW answered, NEW S, c \in S,
         \A i \in 1 .. Len(lines), x \in S :
           HearLine(x, lines[i], answered /\ i = Len(lines)) \in S
  PROVE  HearLines(c, lines, answered) \in S
<1> DEFINE R == [i \in 0 .. Len(lines) |-> S]
<1>1. c \in R[0] /\ R[Len(lines)] = S
  OBVIOUS
<1>2. ASSUME NEW i \in 1 .. Len(lines), NEW x \in R[i - 1]
      PROVE  HearLine(x, lines[i], answered /\ i = Len(lines)) \in R[i]
  OBVIOUS
<1>. HIDE DEF R
<1>. QED  BY <1>1, <1>2, HeardIn

\* No line, and lines after lines.
LEMMA HeardNothing == ASSUME NEW c, NEW answered PROVE HearLines(c, <<>>, answered) = c
<1>1. PICK f : HeardTo(f, c, <<>>, answered) /\ HearLines(c, <<>>, answered) = f[Len(<<>>)]
  BY HeardEach
<1>. QED  BY <1>1 DEF HeardTo

\* Lines after lines are heard after them.
LEMMA HeardMore ==
  ASSUME NEW c, NEW S, NEW s \in Seq(S), NEW t \in Seq(S), NEW answered, t # <<>>
  PROVE  HearLines(c, s \o t, answered) = HearLines(HearLines(c, s, FALSE), t, answered)
<1> DEFINE n == Len(s)
           k == Len(t)
           b == s \o t
<1>1. /\ n \in Nat /\ k \in Nat /\ k > 0 /\ Len(b) = n + k
      /\ \A i \in 1 .. n : b[i] = s[i]
      /\ \A i \in 1 .. k : b[n + i] = t[i]
  <2>1. n \in Nat /\ k \in Nat /\ k # 0
    BY EmptySeq, LenProperties
  <2>2. Len(b) = n + k /\ \A i \in 1 .. n + k : b[i] = IF i <= n THEN s[i] ELSE t[i - n]
    BY ConcatProperties
  <2>. HIDE DEF n, k, b
  <2>3. \A i \in 1 .. k : b[n + i] = t[i]
    BY <2>1, <2>2
  <2>. QED  BY <2>1, <2>2, <2>3
<1>0. Len(s) \in Nat /\ Len(t) \in Nat
  BY LenProperties
<1>2. PICK f : HeardTo(f, c, s, FALSE) /\ HearLines(c, s, FALSE) = f[n]
  BY <1>0, HeardEach
<1>3. PICK g : HeardTo(g, f[n], t, answered) /\ HearLines(f[n], t, answered) = g[k]
  BY <1>0, HeardEach
<1>. HIDE DEF n, k, b
<1>4. PICK h : HeardTo(h, c, b, answered) /\ HearLines(c, b, answered) = h[n + k]
  BY <1>1, HeardEach
<1> DEFINE T == {i \in Nat : i <= n => h[i] = f[i]}
<1>5. T = Nat
  <2>1. 0 \in T
    BY <1>2, <1>4 DEF HeardTo
  <2>2. ASSUME NEW i \in T, i + 1 <= n PROVE h[i + 1] = f[i + 1]
    <3>1. i \in Nat /\ i + 1 \in 1 .. n /\ i + 1 \in 1 .. n + k /\ (i + 1) - 1 = i /\ i + 1 # n + k
      BY <1>1, <2>2
    <3>2. f[i + 1] = HearLine(f[i], s[i + 1], FALSE /\ i + 1 = n)
      BY <1>2, <3>1 DEF HeardTo, n
    <3>3. h[i + 1] = HearLine(h[i], b[i + 1], answered /\ i + 1 = n + k)
      BY <1>1, <1>4, <3>1 DEF HeardTo
    <3>4. b[i + 1] = s[i + 1] /\ h[i] = f[i]
      BY <1>1, <2>2, <3>1
    <3>5. (answered /\ i + 1 = n + k) = FALSE /\ (FALSE /\ i + 1 = n) = FALSE
      BY <3>1
    <3>. QED  BY <3>2, <3>3, <3>4, <3>5
  <2>3. \A i \in T : i + 1 \in T
    BY <2>2
  <2>. HIDE DEF T
  <2>4. T \in SUBSET Nat
    BY DEF T
  <2>. QED  BY <2>1, <2>3, <2>4, SetInduction
<1> DEFINE U == {i \in Nat : i <= k => h[n + i] = g[i]}
<1>6. U = Nat
  <2>1. 0 \in U
    <3>1. n \in T /\ n <= n /\ n + 0 = n /\ 0 <= k
      BY <1>1, <1>5
    <3>2. g[0] = f[n]
      BY <1>3 DEF HeardTo
    <3>. QED  BY <3>1, <3>2
  <2>2. ASSUME NEW i \in U, i + 1 <= k PROVE h[n + (i + 1)] = g[i + 1]
    <3>1. /\ i \in Nat /\ i + 1 \in 1 .. k /\ n + (i + 1) \in 1 .. n + k
          /\ (i + 1) - 1 = i /\ (n + (i + 1)) - 1 = n + i
          /\ (i + 1 = k <=> n + (i + 1) = n + k)
      BY <1>1, <2>2
    <3>2. g[i + 1] = HearLine(g[i], t[i + 1], answered /\ i + 1 = k)
      BY <1>3, <3>1 DEF HeardTo, k
    <3>3. h[n + (i + 1)] = HearLine(h[n + i], b[n + (i + 1)], answered /\ n + (i + 1) = n + k)
      BY <1>1, <1>4, <3>1 DEF HeardTo
    <3>4. b[n + (i + 1)] = t[i + 1] /\ h[n + i] = g[i]
      BY <1>1, <2>2, <3>1
    <3>5. (answered /\ n + (i + 1) = n + k) = (answered /\ i + 1 = k)
      BY <3>1
    <3>. QED  BY <3>2, <3>3, <3>4, <3>5
  <2>3. \A i \in U : i + 1 \in U
    BY <2>2
  <2>. HIDE DEF U
  <2>4. U \in SUBSET Nat
    BY DEF U
  <2>. QED  BY <2>1, <2>3, <2>4, SetInduction
<1>7. h[n + k] = g[k]
  BY <1>1, <1>6
<1>. QED  BY <1>2, <1>3, <1>4, <1>7 DEF b

-----------------------------------------------------------------------------
(***************************************************************************)
(* The models of a client.  A line changes one of them and what is derived of*)
(* the groups.                                                             *)
(***************************************************************************)
\* The fields of a client.
ClientFields == Parts \cup {"refreshed", "expects", "buffer", "missed"}

\* The types of the models.
PartTypes ==
  [zones |-> ZoneLists, groups |-> [1..GroupsMax -> Groups],
   presets |-> [1..EqualizerPresetsMax -> Presets],
   favorites |-> [1..FavoritesMax -> Items], sources |-> [1..SourcesMax -> Items],
   panel |-> PanelsWith({Null}), infrared |-> InfraredsWith({Null}),
   network |-> NetworksWith({Null})]

\* The models of a client, or of the server.
Typed(c) ==
  /\ c = [f \in ClientFields |-> c[f]]
  /\ \A part \in Parts : c[part] \in PartTypes[part]

\* The parts are the fields of the models.
LEMMA PartTypesAre ==
  /\ PartTypes.zones = ZoneLists /\ PartTypes.groups = [1..GroupsMax -> Groups]
  /\ PartTypes.presets = [1..EqualizerPresetsMax -> Presets]
  /\ PartTypes.favorites = [1..FavoritesMax -> Items]
  /\ PartTypes.sources = [1..SourcesMax -> Items]
  /\ PartTypes.panel = PanelsWith({Null}) /\ PartTypes.infrared = InfraredsWith({Null})
  /\ PartTypes.network = NetworksWith({Null})
BY DEF PartTypes

\* A typed client has all of its models, each of its type.
LEMMA TypedHas ==
  ASSUME NEW c, Typed(c)
  PROVE  /\ c.zones \in ZoneLists /\ DOMAIN c.zones = 1..ZonesMax
         /\ \A z \in 1..ZonesMax : c.zones[z] \in Zones
         /\ c.groups \in [1..GroupsMax -> Groups] /\ DOMAIN c.groups = 1..GroupsMax
         /\ \A g \in 1..GroupsMax : c.groups[g] \in Groups
         /\ c.presets \in [1..EqualizerPresetsMax -> Presets]
         /\ c.favorites \in [1..FavoritesMax -> Items] /\ c.sources \in [1..SourcesMax -> Items]
         /\ c.panel \in PanelsWith({Null}) /\ c.infrared \in InfraredsWith({Null})
         /\ c.network \in NetworksWith({Null})
<1>1. \A part \in Parts : c[part] \in PartTypes[part]
  BY DEF Typed
<1>2. /\ c.zones \in ZoneLists /\ c.groups \in [1..GroupsMax -> Groups]
      /\ c.presets \in [1..EqualizerPresetsMax -> Presets]
      /\ c.favorites \in [1..FavoritesMax -> Items] /\ c.sources \in [1..SourcesMax -> Items]
      /\ c.panel \in PanelsWith({Null}) /\ c.infrared \in InfraredsWith({Null})
      /\ c.network \in NetworksWith({Null})
  BY <1>1, PartTypesAre DEF Parts
<1>. QED  BY <1>2 DEF ZoneLists

\* The models of the server are those of a client, too.
LEMMA ServerIsTypedClient == ASSUME NEW models \in ServerModels PROVE Typed(models)
<1>1. models = [f \in ClientFields |-> models[f]]
  BY DEF ServerModels, ClientFields, Parts
<1>2. \A part \in Parts : models[part] \in PartTypes[part]
  BY ModelsHave, PartTypesAre DEF Parts
<1>. QED  BY <1>1, <1>2 DEF Typed

\* A client that takes a value for a part keeps the others.
Took(c, d, part, v) ==
  Typed(d) /\ d[part] = v /\ \A f \in ClientFields \ {part} : d[f] = c[f]

\* A typed client that takes a typed value for a part stays typed.
LEMMA TakesPart ==
  ASSUME NEW c, Typed(c), NEW v
  PROVE  /\ v \in ZoneLists => Took(c, [c EXCEPT !.zones = v], "zones", v)
         /\ v \in [1..GroupsMax -> Groups] => Took(c, [c EXCEPT !.groups = v], "groups", v)
         /\ v \in [1..EqualizerPresetsMax -> Presets] => Took(c, [c EXCEPT !.presets = v], "presets", v)
         /\ v \in [1..FavoritesMax -> Items] => Took(c, [c EXCEPT !.favorites = v], "favorites", v)
         /\ v \in [1..SourcesMax -> Items] => Took(c, [c EXCEPT !.sources = v], "sources", v)
         /\ v \in PanelsWith({Null}) => Took(c, [c EXCEPT !.panel = v], "panel", v)
         /\ v \in InfraredsWith({Null}) => Took(c, [c EXCEPT !.infrared = v], "infrared", v)
         /\ v \in NetworksWith({Null}) => Took(c, [c EXCEPT !.network = v], "network", v)
<1>1. DOMAIN c = ClientFields /\ Parts \subseteq ClientFields
  BY DEF Typed, ClientFields
<1>2. ASSUME NEW d, NEW part \in Parts, v \in PartTypes[part],
             d = [f \in ClientFields |-> d[f]], d[part] = v,
             \A f \in ClientFields \ {part} : d[f] = c[f]
      PROVE  Took(c, d, part, v)
  <2>1. \A p \in Parts : d[p] \in PartTypes[p]
    BY <1>1, <1>2 DEF Typed
  <2>. QED  BY <1>2, <2>1 DEF Typed, Took
<1>3. v \in ZoneLists => Took(c, [c EXCEPT !.zones = v], "zones", v)
  <2> DEFINE d == [c EXCEPT !.zones = v]
  <2>1. /\ d = [f \in ClientFields |-> d[f]] /\ d["zones"] = v
        /\ \A f \in ClientFields \ {"zones"} : d[f] = c[f]
    BY <1>1 DEF ClientFields, Parts
  <2>2. "zones" \in Parts /\ PartTypes["zones"] = ZoneLists
    BY PartTypesAre DEF Parts
  <2>. HIDE DEF d
  <2>3. v \in ZoneLists => Took(c, d, "zones", v)
    BY <1>2, <2>1, <2>2
  <2>. QED  BY <2>3 DEF d
<1>4. v \in [1..GroupsMax -> Groups] => Took(c, [c EXCEPT !.groups = v], "groups", v)
  <2> DEFINE d == [c EXCEPT !.groups = v]
  <2>1. /\ d = [f \in ClientFields |-> d[f]] /\ d["groups"] = v
        /\ \A f \in ClientFields \ {"groups"} : d[f] = c[f]
    BY <1>1 DEF ClientFields, Parts
  <2>2. "groups" \in Parts /\ PartTypes["groups"] = [1..GroupsMax -> Groups]
    BY PartTypesAre DEF Parts
  <2>. HIDE DEF d
  <2>3. v \in [1..GroupsMax -> Groups] => Took(c, d, "groups", v)
    BY <1>2, <2>1, <2>2
  <2>. QED  BY <2>3 DEF d
<1>5. v \in [1..EqualizerPresetsMax -> Presets] => Took(c, [c EXCEPT !.presets = v], "presets", v)
  <2> DEFINE d == [c EXCEPT !.presets = v]
  <2>1. /\ d = [f \in ClientFields |-> d[f]] /\ d["presets"] = v
        /\ \A f \in ClientFields \ {"presets"} : d[f] = c[f]
    BY <1>1 DEF ClientFields, Parts
  <2>2. "presets" \in Parts /\ PartTypes["presets"] = [1..EqualizerPresetsMax -> Presets]
    BY PartTypesAre DEF Parts
  <2>. HIDE DEF d
  <2>3. v \in [1..EqualizerPresetsMax -> Presets] => Took(c, d, "presets", v)
    BY <1>2, <2>1, <2>2
  <2>. QED  BY <2>3 DEF d
<1>6. v \in [1..FavoritesMax -> Items] => Took(c, [c EXCEPT !.favorites = v], "favorites", v)
  <2> DEFINE d == [c EXCEPT !.favorites = v]
  <2>1. /\ d = [f \in ClientFields |-> d[f]] /\ d["favorites"] = v
        /\ \A f \in ClientFields \ {"favorites"} : d[f] = c[f]
    BY <1>1 DEF ClientFields, Parts
  <2>2. "favorites" \in Parts /\ PartTypes["favorites"] = [1..FavoritesMax -> Items]
    BY PartTypesAre DEF Parts
  <2>. HIDE DEF d
  <2>3. v \in [1..FavoritesMax -> Items] => Took(c, d, "favorites", v)
    BY <1>2, <2>1, <2>2
  <2>. QED  BY <2>3 DEF d
<1>7. v \in [1..SourcesMax -> Items] => Took(c, [c EXCEPT !.sources = v], "sources", v)
  <2> DEFINE d == [c EXCEPT !.sources = v]
  <2>1. /\ d = [f \in ClientFields |-> d[f]] /\ d["sources"] = v
        /\ \A f \in ClientFields \ {"sources"} : d[f] = c[f]
    BY <1>1 DEF ClientFields, Parts
  <2>2. "sources" \in Parts /\ PartTypes["sources"] = [1..SourcesMax -> Items]
    BY PartTypesAre DEF Parts
  <2>. HIDE DEF d
  <2>3. v \in [1..SourcesMax -> Items] => Took(c, d, "sources", v)
    BY <1>2, <2>1, <2>2
  <2>. QED  BY <2>3 DEF d
<1>8. v \in PanelsWith({Null}) => Took(c, [c EXCEPT !.panel = v], "panel", v)
  <2> DEFINE d == [c EXCEPT !.panel = v]
  <2>1. /\ d = [f \in ClientFields |-> d[f]] /\ d["panel"] = v
        /\ \A f \in ClientFields \ {"panel"} : d[f] = c[f]
    BY <1>1 DEF ClientFields, Parts
  <2>2. "panel" \in Parts /\ PartTypes["panel"] = PanelsWith({Null})
    BY PartTypesAre DEF Parts
  <2>. HIDE DEF d
  <2>3. v \in PanelsWith({Null}) => Took(c, d, "panel", v)
    BY <1>2, <2>1, <2>2
  <2>. QED  BY <2>3 DEF d
<1>9. v \in InfraredsWith({Null}) => Took(c, [c EXCEPT !.infrared = v], "infrared", v)
  <2> DEFINE d == [c EXCEPT !.infrared = v]
  <2>1. /\ d = [f \in ClientFields |-> d[f]] /\ d["infrared"] = v
        /\ \A f \in ClientFields \ {"infrared"} : d[f] = c[f]
    BY <1>1 DEF ClientFields, Parts
  <2>2. "infrared" \in Parts /\ PartTypes["infrared"] = InfraredsWith({Null})
    BY PartTypesAre DEF Parts
  <2>. HIDE DEF d
  <2>3. v \in InfraredsWith({Null}) => Took(c, d, "infrared", v)
    BY <1>2, <2>1, <2>2
  <2>. QED  BY <2>3 DEF d
<1>10. v \in NetworksWith({Null}) => Took(c, [c EXCEPT !.network = v], "network", v)
  <2> DEFINE d == [c EXCEPT !.network = v]
  <2>1. /\ d = [f \in ClientFields |-> d[f]] /\ d["network"] = v
        /\ \A f \in ClientFields \ {"network"} : d[f] = c[f]
    BY <1>1 DEF ClientFields, Parts
  <2>2. "network" \in Parts /\ PartTypes["network"] = NetworksWith({Null})
    BY PartTypesAre DEF Parts
  <2>. HIDE DEF d
  <2>3. v \in NetworksWith({Null}) => Took(c, d, "network", v)
    BY <1>2, <2>1, <2>2
  <2>. QED  BY <2>3 DEF d
<1>. QED  BY <1>3, <1>4, <1>5, <1>6, <1>7, <1>8, <1>9, <1>10

\* Only zones, and what is derived from them, are other than they were.
Rezoned(c, d, zones) ==
  /\ Typed(d) /\ d.zones = zones
  /\ \A g \in 1..GroupsMax : /\ d.groups[g].name = c.groups[g].name
                             /\ d.groups[g].zones = c.groups[g].zones
  /\ \A f \in ClientFields \ {"zones", "groups"} : d[f] = c[f]

\* A group of typed groups may be replaced by another.
LEMMA GroupTakes ==
  ASSUME NEW group \in Groups, NEW mute \in BOOLEAN \cup {Null}, NEW volume \in Volumes \cup {Null},
         NEW sources \in SUBSET (1..SourcesMax)
  PROVE  LET left == [group EXCEPT !.mute = mute, !.volume = volume, !.sources = sources]
         IN left \in Groups /\ left.name = group.name /\ left.zones = group.zones
BY DEF Groups

\* What is derived of a group is of its type; its name and zones stay.
LEMMA DerivedTyped ==
  ASSUME NEW group \in Groups, NEW zones \in ZoneLists
  PROVE  LET left == DeriveGroupStateForGroup(group, zones)
         IN left \in Groups /\ left.name = group.name /\ left.zones = group.zones
<1> DEFINE Z == group.zones
           mean == IF Z = {}
                   THEN CHOOSE v \in Volumes : \A w \in Volumes : v <= w
                   ELSE Mean(Accumulated(zones, Z), Cardinality(Z))
           known == ~ \E z \in Z : HasNull([f \in {"mute", "volume", "source"} |-> zones[z][f]])
           mute == \A z \in Z : zones[z].mute
           volume == SetVolume(group.volume, mean).value
           sources == {zones[z].source : z \in Z}
           left == [group EXCEPT !.mute = mute, !.volume = volume, !.sources = sources]
<1>1. DeriveGroupStateForGroup(group, zones) = IF known THEN left ELSE group
  BY DEF DeriveGroupStateForGroup
<1>2. CASE known
  <2>1. mute \in BOOLEAN
    OBVIOUS
  <2>2. volume \in Volumes \cup {Null}
    BY DEF SetVolume, SetWithin, Set, Groups
  <2>3. sources \in SUBSET (1..SourcesMax)
    <3>1. ASSUME NEW z \in Z PROVE zones[z].source \in 1..SourcesMax
      <4>1. zones[z] \in Zones
        BY DEF Groups, ZoneLists
      <4>2. zones[z].source # Null
        BY <1>2 DEF HasNull
      <4>. QED  BY <4>1, <4>2, ZoneHas
    <3>. QED  BY <3>1
  <2>. HIDE DEF mute, volume, sources, known
  <2>4. left \in Groups /\ left.name = group.name /\ left.zones = group.zones
    <3>1. mute \in BOOLEAN \cup {Null}
      BY <2>1
    <3>. QED  BY <2>2, <2>3, <3>1 DEF Groups
  <2>. QED  BY <1>1, <1>2, <2>4
<1>3. CASE ~ known
  <2>. HIDE DEF left, known
  <2>. QED  BY <1>1, <1>3
<1>. QED  BY <1>2, <1>3

\* Groups derived one after the other from typed zones are typed.
LEMMA GroupsDerived ==
  ASSUME NEW c, Typed(c), NEW groups \in [1..GroupsMax -> Groups],
         \A g \in 1..GroupsMax : /\ groups[g].name = c.groups[g].name
                                 /\ groups[g].zones = c.groups[g].zones
  PROVE  Rezoned(c, WithGroups(c, groups), c.zones)
<1> DEFINE d == [c EXCEPT !.groups = groups]
<1>0. Took(c, d, "groups", groups)
  BY TakesPart
<1>1. /\ Typed(d) /\ d.groups = groups
      /\ \A f \in ClientFields \ {"groups"} : d[f] = c[f]
  BY <1>0 DEF Took
<1>. HIDE DEF d
<1>2. Rezoned(c, d, c.zones)
  BY <1>1 DEF Rezoned, ClientFields, Parts
<1>3. Rezoned(c, c, c.zones)
  BY DEF Rezoned
<1>. QED  BY <1>2, <1>3 DEF WithGroups, d

\* So is a client that derives the state of a set of its groups.
LEMMA DerivesGroups ==
  ASSUME NEW c, Typed(c), NEW S
  PROVE  /\ Rezoned(c, DeriveGroupState(c), c.zones)
         /\ Rezoned(c, DeriveGroupStateForGroupsIncludingZones(c, S), c.zones)
<1>1. c.zones \in ZoneLists /\ DOMAIN c.groups = 1..GroupsMax
      /\ \A g \in 1..GroupsMax : c.groups[g] \in Groups
  BY TypedHas
<1> DEFINE all == [g \in DOMAIN c.groups |-> DeriveGroupStateForGroup(c.groups[g], c.zones)]
           some == [g \in DOMAIN c.groups |->
                      IF c.groups[g].zones \cap S # {}
                      THEN DeriveGroupStateForGroup(c.groups[g], c.zones)
                      ELSE c.groups[g]]
<1>2. /\ all \in [1..GroupsMax -> Groups]
      /\ \A g \in 1..GroupsMax : /\ all[g].name = c.groups[g].name
                                 /\ all[g].zones = c.groups[g].zones
  BY <1>1, DerivedTyped
<1>3. /\ some \in [1..GroupsMax -> Groups]
      /\ \A g \in 1..GroupsMax : /\ some[g].name = c.groups[g].name
                                 /\ some[g].zones = c.groups[g].zones
  BY <1>1, DerivedTyped
<1>4. /\ DeriveGroupState(c) = WithGroups(c, all)
      /\ DeriveGroupStateForGroupsIncludingZones(c, S) = WithGroups(c, some)
  BY DEF DeriveGroupState, DeriveGroupStateForGroupsIncludingZones
<1>. HIDE DEF all, some
<1>. QED  BY <1>2, <1>3, <1>4, GroupsDerived

\* A client that takes new zones.
LEMMA TakesZones ==
  ASSUME NEW c, Typed(c), NEW zones \in ZoneLists
  PROVE  /\ Rezoned(c, [c EXCEPT !.zones = zones], zones)
         /\ Rezoned(c, MaybeHandleZoneStateChanges(c, zones), zones)
<1> DEFINE left == [c EXCEPT !.zones = zones]
           moved == {z \in DOMAIN zones :
                       \/ zones[z].mute # c.zones[z].mute
                       \/ zones[z].source # c.zones[z].source
                       \/ zones[z].volume # c.zones[z].volume}
           derived == DeriveGroupStateForGroupsIncludingZones(left, moved)
<1>0. Took(c, left, "zones", zones)
  BY TakesPart
<1>1. Typed(left) /\ left.zones = zones /\ \A f \in ClientFields \ {"zones"} : left[f] = c[f]
  BY <1>0 DEF Took
<1>2. MaybeHandleZoneStateChanges(c, zones) \in {c, left, derived}
  BY DEF MaybeHandleZoneStateChanges
<1>3. MaybeHandleZoneStateChanges(c, zones) = c => c.zones = zones
  <2>. SUFFICES ASSUME c.zones # zones, MaybeHandleZoneStateChanges(c, zones) = c PROVE FALSE
    OBVIOUS
  <2>1. MaybeHandleZoneStateChanges(c, zones) \in {left, derived}
    BY DEF MaybeHandleZoneStateChanges
  <2>. HIDE DEF left, moved
  <2>2. Rezoned(left, derived, left.zones)
    BY <1>1, DerivesGroups
  <2>3. derived.zones = zones /\ left.zones = zones
    BY <1>1, <2>2 DEF Rezoned
  <2>. QED  BY <2>1, <2>3
<1>. HIDE DEF left, moved
<1>4. Rezoned(c, left, zones)
  BY <1>1 DEF Rezoned, ClientFields, Parts
<1>5. Rezoned(left, derived, left.zones)
  BY <1>1, DerivesGroups
<1>. HIDE DEF derived
<1>6. Rezoned(c, derived, zones)
  BY <1>1, <1>4, <1>5 DEF Rezoned
<1>7. c.zones = zones => Rezoned(c, c, zones)
  BY DEF Rezoned
<1>. QED  BY <1>2, <1>3, <1>4, <1>6, <1>7 DEF left

-----------------------------------------------------------------------------
(***************************************************************************)
(* Lines.  The setters of a zone see to its types; those of the names and of*)
(* the numbers that identify things do not, so the lines must.             *)
(***************************************************************************)
\* The lines about one zone, about all zones, and about groups.
ZoneKinds ==
  {"mute", "source", "volume", "fixed", "balance", "band", "preset", "tone", "highpass",
   "lowpass", "mode", "name"}

AllKinds == {"source all", "volume all"}

GroupKinds ==
  {"group mute", "group source", "group volume", "group name", "group zone added",
   "group zone removed", "group mute toggle", "group volume up", "group volume down"}

\* A line whose values are of the types of their models, but for levels, whose limits the
\* setters see to.
GoodLine(l) ==
  /\ l[1] \in ZoneKinds => l[2] \in 1..ZonesMax
  /\ l[1] \in GroupKinds => l[2] \in 1..GroupsMax
  /\ l[1] \in {"mute", "fixed", "group mute"} => l[3] \in BOOLEAN
  /\ l[1] \in {"locked", "disabled", "dhcp", "sddp"} => l[2] \in BOOLEAN
  /\ l[1] \in {"source", "group source"} => l[3] \in 1..SourcesMax
  /\ l[1] = "source all" => l[2] \in 1..SourcesMax
  /\ l[1] \in {"band", "preset band"} => l[3] \in Bands
  /\ l[1] = "preset" => l[3] \in 1..EqualizerPresetsMax
  /\ l[1] = "tone" => \E bass, treble : l[3] = [bass |-> bass, treble |-> treble]
  /\ l[1] \in {"name", "group name", "preset name", "favorite name", "source name"}
       => l[3] \in Names
  /\ l[1] \in {"preset band", "preset name"} => l[2] \in 1..EqualizerPresetsMax
  /\ l[1] = "favorite name" => l[2] \in 1..FavoritesMax
  /\ l[1] = "source name" => l[2] \in 1..SourcesMax
  /\ l[1] \in {"group zone added", "group zone removed"} => l[3] \in 1..ZonesMax

\* What a zone makes of a line that is meant for it.
ZoneHears(zone, l) ==
  CASE l[1] = "mute" -> OutputSetMute(zone, l[3]).value
    [] l[1] = "source" -> ZoneSetSource(zone, l[3]).value
    [] l[1] = "source all" -> ZoneSetSource(zone, l[2]).value
    [] l[1] = "volume" -> OutputSetVolume(zone, l[3]).value
    [] l[1] = "volume all" -> OutputSetVolume(zone, l[2]).value
    [] l[1] = "fixed" -> ZoneSetVolumeFixed(zone, l[3]).value
    [] l[1] = "balance" -> ZoneSetBalance(zone, l[3]).value
    [] l[1] = "band" -> SetBand(zone, l[3], SetLevel(zone.bands[l[3]], l[4])).value
    [] l[1] = "preset" -> ZoneSetEqualizerPreset(zone, l[3]).value
    [] l[1] = "tone" -> ZoneSetTone(zone, l[3]).value
    [] l[1] = "highpass" -> ZoneSetHighpassFrequency(zone, l[3]).value
    [] l[1] = "lowpass" -> ZoneSetLowpassFrequency(zone, l[3]).value
    [] l[1] = "mode" -> ZoneSetSoundMode(zone, l[3]).value
    [] l[1] = "name" -> OutputSetName(zone, l[3]).value

\* What the zones of a client make of a line.
ZonesHear(zones, l) ==
  [z \in DOMAIN zones |->
     IF l[1] \in AllKinds \/ z = l[2] THEN ZoneHears(zones[z], l) ELSE zones[z]]

\* A zone stays a zone, whatever it hears.
LEMMA ZoneHearsTyped ==
  ASSUME NEW zone \in Zones, NEW l, GoodLine(l), l[1] \in ZoneKinds \cup AllKinds
  PROVE  ZoneHears(zone, l) \in Zones
<1>1. CASE l[1] = "mute"
  BY <1>1, OutputSetters DEF ZoneHears, Sets, GoodLine
<1>2. CASE l[1] = "source"
  BY <1>2, ZoneSetters DEF ZoneHears, Sets, GoodLine
<1>3. CASE l[1] = "source all"
  BY <1>3, ZoneSetters DEF ZoneHears, Sets, GoodLine
<1>4. CASE l[1] = "volume"
  BY <1>4, OutputSetters DEF ZoneHears, Sets
<1>5. CASE l[1] = "volume all"
  BY <1>5, OutputSetters DEF ZoneHears, Sets
<1>6. CASE l[1] = "fixed"
  BY <1>6, ZoneSetters DEF ZoneHears, Sets, GoodLine
<1>7. CASE l[1] = "balance"
  BY <1>7, ZoneSetters DEF ZoneHears, Sets
<1>8. CASE l[1] = "band"
  <2>1. l[3] \in Bands
    BY <1>8 DEF GoodLine
  <2>2. SetsValue(SetLevel(zone.bands[l[3]], l[4]), zone.bands[l[3]], BandLevels)
    BY ValueSetters DEF SetLevel
  <2>3. Sets(SetBand(zone, l[3], SetLevel(zone.bands[l[3]], l[4])), zone, Zones)
    BY <2>1, <2>2, ZoneBandSetter
  <2>. QED  BY <1>8, <2>3 DEF ZoneHears, Sets
<1>9. CASE l[1] = "preset"
  BY <1>9, SoundSetters DEF ZoneHears, Sets, GoodLine
<1>10. CASE l[1] = "tone"
  BY <1>10, SoundSetters DEF ZoneHears, Sets, GoodLine
<1>11. CASE l[1] = "highpass"
  BY <1>11, SoundSetters DEF ZoneHears, Sets
<1>12. CASE l[1] = "lowpass"
  BY <1>12, SoundSetters DEF ZoneHears, Sets
<1>13. CASE l[1] = "mode"
  BY <1>13, SoundSetters DEF ZoneHears, Sets
<1>14. CASE l[1] = "name"
  BY <1>14, OutputSetters DEF ZoneHears, Sets, GoodLine
<1>. QED
  BY <1>1, <1>2, <1>3, <1>4, <1>5, <1>6, <1>7, <1>8, <1>9, <1>10, <1>11, <1>12, <1>13, <1>14
  DEF ZoneKinds, AllKinds

\* So do all zones.
LEMMA ZonesHearTyped ==
  ASSUME NEW zones \in ZoneLists, NEW l, GoodLine(l), l[1] \in ZoneKinds \cup AllKinds
  PROVE  ZonesHear(zones, l) \in ZoneLists
BY ZoneHearsTyped DEF ZonesHear, ZoneLists

\* The handlers of a client do that to its zones.
LEMMA HearsZones ==
  ASSUME NEW c, Typed(c), NEW l, GoodLine(l), l[1] \in ZoneKinds \cup AllKinds
  PROVE  /\ Rezoned(c, HearZone(c, l), ZonesHear(c.zones, l))
         /\ l[1] \in {"mute", "source", "source all", "volume", "volume all"}
              => HearZone(c, l) = MaybeHandleZoneStateChanges(c, ZonesHear(c.zones, l))
         /\ l[1] \notin {"mute", "source", "source all", "volume", "volume all"}
              => HearZone(c, l) = [c EXCEPT !.zones = ZonesHear(c.zones, l)]
<1> DEFINE zones == ZonesHear(c.zones, l)
           z == l[2]
<1>0. /\ c.zones \in ZoneLists /\ DOMAIN c.zones = 1..ZonesMax
      /\ \A y \in 1..ZonesMax : c.zones[y] \in Zones
  BY TypedHas
<1>1. zones \in ZoneLists
  BY <1>0, ZonesHearTyped
<1>2. l[1] \in ZoneKinds => z \in 1..ZonesMax
  BY DEF GoodLine
<1>3. CASE l[1] \in {"mute", "source", "source all", "volume", "volume all"}
  <2>1. ASSUME l[1] = "mute" PROVE HearZone(c, l) = MaybeHandleZoneStateChanges(c, zones)
    <3>1. zones = [y \in DOMAIN c.zones |->
                     IF y \in {z}
                     THEN [c.zones[y] EXCEPT !.mute = SetMute(@, l[3]).value]
                     ELSE c.zones[y]]
      BY <2>1 DEF ZonesHear, ZoneHears, AllKinds, OutputSetMute, SetField
    <3>. QED  BY <2>1, <3>1 DEF HearZone, MuteNotificationReceivedHandler, HandleMuteChange
  <2>2. ASSUME l[1] = "source" PROVE HearZone(c, l) = MaybeHandleZoneStateChanges(c, zones)
    <3>1. zones = [y \in DOMAIN c.zones |->
                     IF y \in {z}
                     THEN [c.zones[y] EXCEPT !.source = SetIdentifier(@, l[3]).value]
                     ELSE c.zones[y]]
      BY <2>2 DEF ZonesHear, ZoneHears, AllKinds, ZoneSetSource, SetField
    <3>. QED  BY <2>2, <3>1 DEF HearZone, SourceNotificationReceivedHandler, HandleSourceChange
  <2>3. ASSUME l[1] = "source all" PROVE HearZone(c, l) = MaybeHandleZoneStateChanges(c, zones)
    <3>1. zones = [y \in DOMAIN c.zones |->
                     IF y \in DOMAIN c.zones
                     THEN [c.zones[y] EXCEPT !.source = SetIdentifier(@, l[2]).value]
                     ELSE c.zones[y]]
      BY <2>3 DEF ZonesHear, ZoneHears, AllKinds, ZoneSetSource, SetField
    <3>. QED  BY <2>3, <3>1 DEF HearZone, SourceAllNotificationReceivedHandler, HandleSourceChange
  <2>4. ASSUME l[1] = "volume" PROVE HearZone(c, l) = MaybeHandleZoneStateChanges(c, zones)
    <3>1. zones = [y \in DOMAIN c.zones |->
                     IF y \in {z}
                     THEN [c.zones[y] EXCEPT !.volume = SetVolume(@, [x \in {z} |-> l[3]][y]).value]
                     ELSE c.zones[y]]
      BY <2>4 DEF ZonesHear, ZoneHears, AllKinds, OutputSetVolume, SetField
    <3>. QED  BY <2>4, <3>1 DEF HearZone, VolumeNotificationReceivedHandler, HandleVolumeChange
  <2>5. ASSUME l[1] = "volume all" PROVE HearZone(c, l) = MaybeHandleZoneStateChanges(c, zones)
    <3>1. zones = [y \in DOMAIN c.zones |->
                     IF y \in DOMAIN c.zones
                     THEN [c.zones[y] EXCEPT !.volume =
                             SetVolume(@, [x \in DOMAIN c.zones |-> l[2]][y]).value]
                     ELSE c.zones[y]]
      BY <2>5 DEF ZonesHear, ZoneHears, AllKinds, OutputSetVolume, SetField
    <3>. QED  BY <2>5, <3>1 DEF HearZone, VolumeAllNotificationReceivedHandler, HandleVolumeChange
  <2>6. HearZone(c, l) = MaybeHandleZoneStateChanges(c, zones)
    <3>. HIDE DEF zones, z
    <3>. QED  BY <1>3, <2>1, <2>2, <2>3, <2>4, <2>5
  <2>. HIDE DEF zones
  <2>7. Rezoned(c, MaybeHandleZoneStateChanges(c, zones), zones)
    BY <1>1, TakesZones
  <2>. QED  BY <1>3, <2>6, <2>7 DEF zones
<1>4. CASE l[1] \notin {"mute", "source", "source all", "volume", "volume all"}
  <2>0. z \in 1..ZonesMax /\ z \in DOMAIN c.zones
    BY <1>0, <1>2, <1>4 DEF AllKinds
  <2>1. ASSUME NEW zone, ZoneHears(c.zones[z], l) = zone
        PROVE  [c EXCEPT !.zones[z] = zone] = [c EXCEPT !.zones = zones]
    <3>1. zones = [c.zones EXCEPT ![z] = zone]
      BY <1>0, <1>4, <2>0, <2>1 DEF ZonesHear, AllKinds, ZoneLists
    <3>. HIDE DEF zones, z
    <3>. QED  BY <3>1
  <2>2. HearZone(c, l) = [c EXCEPT !.zones[z] = ZoneHears(c.zones[z], l)]
    <3>1. CASE l[1] = "fixed"
      BY <3>1 DEF HearZone, ZoneHears, VolumeFixedNotificationReceivedHandler
    <3>2. CASE l[1] = "balance"
      BY <3>2 DEF HearZone, ZoneHears, BalanceNotificationReceivedHandler
    <3>3. CASE l[1] = "band"
      <4>1. ZoneGetEqualizerBand(c.zones[z], l[3]).value = c.zones[z].bands[l[3]]
        BY <3>3 DEF GoodLine, ZoneGetEqualizerBand, SoundGetEqualizerBand, GetEqualizerBand,
                    IsValidIdentifier
      <4>. QED  BY <3>3, <4>1 DEF HearZone, ZoneHears, EqualizerBandNotificationReceivedHandler
    <3>4. CASE l[1] = "preset"
      BY <3>4 DEF HearZone, ZoneHears, EqualizerPresetNotificationReceivedHandler
    <3>5. CASE l[1] = "tone"
      BY <3>5 DEF HearZone, ZoneHears, ToneNotificationReceivedHandler
    <3>6. CASE l[1] = "highpass"
      BY <3>6 DEF HearZone, ZoneHears, HighpassCrossoverNotificationReceivedHandler
    <3>7. CASE l[1] = "lowpass"
      BY <3>7 DEF HearZone, ZoneHears, LowpassCrossoverNotificationReceivedHandler
    <3>8. CASE l[1] = "mode"
      BY <3>8 DEF HearZone, ZoneHears, SoundModeNotificationReceivedHandler
    <3>9. CASE l[1] = "name"
      BY <3>9 DEF HearZone, ZoneHears, ZoneNameNotificationReceivedHandler
    <3>. QED  BY <1>4, <3>1, <3>2, <3>3, <3>4, <3>5, <3>6, <3>7, <3>8, <3>9 DEF ZoneKinds, AllKinds
  <2>3. HearZone(c, l) = [c EXCEPT !.zones = zones]
    BY <2>1, <2>2
  <2>. HIDE DEF zones
  <2>4. Rezoned(c, [c EXCEPT !.zones = zones], zones)
    BY <1>1, TakesZones
  <2>. QED  BY <1>4, <2>3, <2>4 DEF zones
<1>. QED  BY <1>3, <1>4

\* Zones that change twice change once.
LEMMA RezonedTwice ==
  ASSUME NEW c, NEW d, NEW e, NEW zones, Rezoned(c, d, c.zones), Rezoned(d, e, zones)
  PROVE  Rezoned(c, e, zones)
BY DEF Rezoned

\* A group that keeps its name and its zones.
LEMMA TakesGroup ==
  ASSUME NEW c, Typed(c), NEW g \in 1..GroupsMax, NEW group \in Groups
  PROVE  LET d == [c EXCEPT !.groups[g] = group]
         IN /\ Took(c, d, "groups", [c.groups EXCEPT ![g] = group])
            /\ (group.name = c.groups[g].name /\ group.zones = c.groups[g].zones)
                 => Rezoned(c, d, c.zones)
<1> DEFINE v == [c.groups EXCEPT ![g] = group]
           d == [c EXCEPT !.groups = v]
<1>0. c.groups \in [1..GroupsMax -> Groups]
  BY TypedHas
<1>1. v \in [1..GroupsMax -> Groups] /\ \A h \in 1..GroupsMax : v[h] = IF h = g THEN group ELSE c.groups[h]
  BY <1>0
<1>2. [c EXCEPT !.groups[g] = group] = d
  OBVIOUS
<1>. HIDE DEF v
<1>3. Took(c, d, "groups", v)
  BY <1>1, TakesPart
<1>. HIDE DEF d
<1>4. (group.name = c.groups[g].name /\ group.zones = c.groups[g].zones) => Rezoned(c, d, c.zones)
  BY <1>1, <1>3 DEF Took, Rezoned, ClientFields, Parts
<1>. QED  BY <1>2, <1>3, <1>4 DEF v

\* Only mutes, volumes and sources of zones of Z are other than they were, and what is derived
\* from them.
Spread(c, d, Z) ==
  /\ Typed(d)
  /\ \A g \in 1..GroupsMax : /\ d.groups[g].name = c.groups[g].name
                             /\ d.groups[g].zones = c.groups[g].zones
  /\ \A f \in ClientFields \ {"zones", "groups"} : d[f] = c[f]
  /\ \A z \in 1..ZonesMax, field \in DOMAIN ZoneNulls :
       \/ z \in Z /\ field \in {"mute", "volume", "source"}
       \/ d.zones[z][field] = c.zones[z][field]

\* Spreading twice is spreading.
LEMMA SpreadTwice ==
  ASSUME NEW c, NEW d, NEW e, NEW Z, Spread(c, d, Z), Spread(d, e, Z)
  PROVE  Spread(c, e, Z)
BY DEF Spread

LEMMA SpreadItself == \A c, Z : Typed(c) => Spread(c, c, Z)
BY DEF Spread

\* New values for zones of Z reach no other zones.
LEMMA RezonedSpreads ==
  ASSUME NEW c, NEW d, NEW zones, NEW Z, Rezoned(c, d, zones),
         \A z \in 1..ZonesMax, field \in DOMAIN ZoneNulls :
           \/ z \in Z /\ field \in {"mute", "volume", "source"}
           \/ zones[z][field] = c.zones[z][field]
  PROVE  Spread(c, d, Z)
BY DEF Rezoned, Spread

\* The zones of Z with a mute, a source or a volume for each.
Muted(zones, Z, mute) ==
  [z \in DOMAIN zones |->
     IF z \in Z THEN [zones[z] EXCEPT !.mute = SetMute(@, mute).value] ELSE zones[z]]

Sourced(zones, Z, s) ==
  [z \in DOMAIN zones |->
     IF z \in Z THEN [zones[z] EXCEPT !.source = SetIdentifier(@, s).value] ELSE zones[z]]

Leveled(zones, Z, volume) ==
  [z \in DOMAIN zones |->
     IF z \in Z THEN [zones[z] EXCEPT !.volume = SetVolume(@, volume[z]).value] ELSE zones[z]]

\* Zones with such values are zones.
LEMMA ChangesTyped ==
  ASSUME NEW zones \in ZoneLists, NEW Z
  PROVE  /\ \A mute \in BOOLEAN : Muted(zones, Z, mute) \in ZoneLists
         /\ \A s \in 1..SourcesMax : Sourced(zones, Z, s) \in ZoneLists
         /\ \A volume : Leveled(zones, Z, volume) \in ZoneLists
<1>1. ASSUME NEW zone \in Zones
      PROVE  /\ \A mute \in BOOLEAN : [zone EXCEPT !.mute = SetMute(@, mute).value] \in Zones
             /\ \A s \in 1..SourcesMax : [zone EXCEPT !.source = SetIdentifier(@, s).value] \in Zones
             /\ \A level : [zone EXCEPT !.volume = SetVolume(@, level).value] \in Zones
  BY OutputSetters, ZoneSetters DEF Sets, OutputSetMute, ZoneSetSource, OutputSetVolume, SetField
<1>. QED  BY <1>1 DEF Muted, Sourced, Leveled, ZoneLists

\* The handlers of the zones of a group give them such values.
LEMMA HandledChanges ==
  ASSUME NEW c, Typed(c), NEW Z
  PROVE  /\ \A mute \in BOOLEAN :
              LET d == HandleMuteChange(c, Z, mute)
              IN Rezoned(c, d, Muted(c.zones, Z, mute)) /\ Spread(c, d, Z)
         /\ \A s \in 1..SourcesMax :
              LET d == HandleSourceChange(c, Z, s)
              IN Rezoned(c, d, Sourced(c.zones, Z, s)) /\ Spread(c, d, Z)
         /\ \A volume :
              LET d == HandleVolumeChange(c, Z, volume)
              IN Rezoned(c, d, Leveled(c.zones, Z, volume)) /\ Spread(c, d, Z)
<1>0. /\ c.zones \in ZoneLists /\ DOMAIN c.zones = 1..ZonesMax
      /\ \A z \in 1..ZonesMax : c.zones[z] \in Zones /\ DOMAIN c.zones[z] = DOMAIN ZoneNulls
  BY TypedHas, ZoneHas DEF ZoneNulls
<1>1. ASSUME NEW mute \in BOOLEAN
      PROVE  LET d == HandleMuteChange(c, Z, mute)
             IN Rezoned(c, d, Muted(c.zones, Z, mute)) /\ Spread(c, d, Z)
  <2> DEFINE zones == Muted(c.zones, Z, mute)
  <2>1. HandleMuteChange(c, Z, mute) = MaybeHandleZoneStateChanges(c, zones)
    BY DEF HandleMuteChange, Muted
  <2>2. \A z \in 1..ZonesMax, field \in DOMAIN ZoneNulls :
          \/ z \in Z /\ field \in {"mute", "volume", "source"}
          \/ zones[z][field] = c.zones[z][field]
    BY <1>0 DEF Muted
  <2>3. zones \in ZoneLists
    BY <1>0, ChangesTyped
  <2>. HIDE DEF zones
  <2>4. Rezoned(c, MaybeHandleZoneStateChanges(c, zones), zones)
    BY <2>3, TakesZones
  <2>. QED  BY <2>1, <2>2, <2>4, RezonedSpreads DEF zones
<1>2. ASSUME NEW s \in 1..SourcesMax
      PROVE  LET d == HandleSourceChange(c, Z, s)
             IN Rezoned(c, d, Sourced(c.zones, Z, s)) /\ Spread(c, d, Z)
  <2> DEFINE zones == Sourced(c.zones, Z, s)
  <2>1. HandleSourceChange(c, Z, s) = MaybeHandleZoneStateChanges(c, zones)
    BY DEF HandleSourceChange, Sourced
  <2>2. \A z \in 1..ZonesMax, field \in DOMAIN ZoneNulls :
          \/ z \in Z /\ field \in {"mute", "volume", "source"}
          \/ zones[z][field] = c.zones[z][field]
    BY <1>0 DEF Sourced
  <2>3. zones \in ZoneLists
    BY <1>0, ChangesTyped
  <2>. HIDE DEF zones
  <2>4. Rezoned(c, MaybeHandleZoneStateChanges(c, zones), zones)
    BY <2>3, TakesZones
  <2>. QED  BY <2>1, <2>2, <2>4, RezonedSpreads DEF zones
<1>3. ASSUME NEW volume
      PROVE  LET d == HandleVolumeChange(c, Z, volume)
             IN Rezoned(c, d, Leveled(c.zones, Z, volume)) /\ Spread(c, d, Z)
  <2> DEFINE zones == Leveled(c.zones, Z, volume)
  <2>1. HandleVolumeChange(c, Z, volume) = MaybeHandleZoneStateChanges(c, zones)
    BY DEF HandleVolumeChange, Leveled
  <2>2. \A z \in 1..ZonesMax, field \in DOMAIN ZoneNulls :
          \/ z \in Z /\ field \in {"mute", "volume", "source"}
          \/ zones[z][field] = c.zones[z][field]
    BY <1>0 DEF Leveled
  <2>3. zones \in ZoneLists
    BY <1>0, ChangesTyped
  <2>. HIDE DEF zones
  <2>4. Rezoned(c, MaybeHandleZoneStateChanges(c, zones), zones)
    BY <2>3, TakesZones
  <2>. QED  BY <2>1, <2>2, <2>4, RezonedSpreads DEF zones
<1>. QED  BY <1>1, <1>2, <1>3

-----------------------------------------------------------------------------
(***************************************************************************)
(* Groups.  What a client is told of a group, it gives to the zones of it. *)
(***************************************************************************)
\* What the setters of a group leave of it.
LEMMA GroupSetters ==
  ASSUME NEW group \in Groups
  PROVE  /\ \A mute \in BOOLEAN :
              LET left == [group EXCEPT !.mute = mute]
              IN left \in Groups /\ left.name = group.name /\ left.zones = group.zones
         /\ \A level :
              LET left == OutputSetVolume(group, level).value
              IN left \in Groups /\ left.name = group.name /\ left.zones = group.zones
         /\ \A s \in 1..SourcesMax :
              LET left == GroupSetSource(group, s).value
              IN left \in Groups /\ left.name = group.name /\ left.zones = group.zones
         /\ \A name \in Names :
              LET left == OutputSetName(group, name).value
              IN left \in Groups /\ left.zones = group.zones
         /\ \A z \in 1..ZonesMax :
              /\ LET left == GroupAddZone(group, z).value
                 IN left \in Groups /\ left.name = group.name /\ left.zones = group.zones \cup {z}
              /\ LET left == GroupRemoveZone(group, z).value
                 IN left \in Groups /\ left.name = group.name /\ left.zones = group.zones \ {z}
<1>1. \A mute \in BOOLEAN :
        LET left == [group EXCEPT !.mute = mute]
        IN left \in Groups /\ left.name = group.name /\ left.zones = group.zones
  BY DEF Groups
<1>2. ASSUME NEW level
      PROVE  LET left == OutputSetVolume(group, level).value
             IN left \in Groups /\ left.name = group.name /\ left.zones = group.zones
  <2>1. SetVolume(group.volume, level).value \in Volumes \cup {Null}
    BY DEF SetVolume, SetWithin, Set, Groups
  <2>2. ASSUME NEW v \in Volumes \cup {Null}
        PROVE  LET left == [group EXCEPT !.volume = v]
               IN left \in Groups /\ left.name = group.name /\ left.zones = group.zones
    BY DEF Groups
  <2>. QED  BY <2>1, <2>2 DEF OutputSetVolume, SetField
<1>3. ASSUME NEW s \in 1..SourcesMax
      PROVE  LET left == GroupSetSource(group, s).value
             IN left \in Groups /\ left.name = group.name /\ left.zones = group.zones
  <2>1. SetIdentifiers(group.sources, <<s>>).value \in {group.sources, {s}}
    <3>1. {<<s>>[i] : i \in DOMAIN <<s>>} = {s}
      OBVIOUS
    <3>. QED  BY <3>1 DEF SetIdentifiers, Set
  <2>2. ASSUME NEW v \in SUBSET (1..SourcesMax)
        PROVE  LET left == [group EXCEPT !.sources = v]
               IN left \in Groups /\ left.name = group.name /\ left.zones = group.zones
    BY DEF Groups
  <2>3. group.sources \in SUBSET (1..SourcesMax) /\ {s} \in SUBSET (1..SourcesMax)
    BY DEF Groups
  <2>. QED  BY <2>1, <2>2, <2>3 DEF GroupSetSource, SetField
<1>4. ASSUME NEW name \in Names
      PROVE  LET left == OutputSetName(group, name).value
             IN left \in Groups /\ left.zones = group.zones
  <2>1. SetName(group.name, name).value \in KeptNames \cup {Null}
    BY NameSetter, GroupHas DEF SetsValue
  <2>2. ASSUME NEW v \in KeptNames \cup {Null}
        PROVE  LET left == [group EXCEPT !.name = v] IN left \in Groups /\ left.zones = group.zones
    BY DEF Groups
  <2>. QED  BY <2>1, <2>2 DEF OutputSetName, SetField
<1>5. ASSUME NEW z \in 1..ZonesMax
      PROVE  /\ LET left == GroupAddZone(group, z).value
                IN left \in Groups /\ left.name = group.name /\ left.zones = group.zones \cup {z}
             /\ LET left == GroupRemoveZone(group, z).value
                IN left \in Groups /\ left.name = group.name /\ left.zones = group.zones \ {z}
  <2>1. AddIdentifier(group.zones, z).value = group.zones \cup {z}
    BY DEF AddIdentifier
  <2>2. RemoveIdentifier(group.zones, z).value = group.zones \ {z}
    BY DEF RemoveIdentifier
  <2>3. ASSUME NEW v \in SUBSET (1..ZonesMax)
        PROVE  LET left == [group EXCEPT !.zones = v]
               IN left \in Groups /\ left.name = group.name /\ left.zones = v
    BY DEF Groups
  <2>4. group.zones \cup {z} \in SUBSET (1..ZonesMax) /\ group.zones \ {z} \in SUBSET (1..ZonesMax)
    BY DEF Groups
  <2>. QED  BY <2>1, <2>2, <2>3, <2>4 DEF GroupAddZone, GroupRemoveZone, SetField
<1>. QED  BY <1>1, <1>2, <1>3, <1>4, <1>5

\* The state of a group that a client is told reaches no zone but those of the group.
LEMMA GroupMuteSpreads ==
  ASSUME NEW c, Typed(c), NEW g \in 1..GroupsMax, NEW mute \in BOOLEAN
  PROVE  Spread(c, GroupHandleMuteChange(c, g, mute), c.groups[g].zones)
<1> DEFINE Z == c.groups[g].zones
           group == [c.groups[g] EXCEPT !.mute = mute]
           d == [c EXCEPT !.groups[g] = group]
           e == HandleMuteChange(d, Z, mute)
<1>0. c.groups[g] \in Groups
  BY TypedHas
<1>1. group \in Groups /\ group.name = c.groups[g].name /\ group.zones = Z
  BY <1>0, GroupSetters
<1>2. GroupHandleMuteChange(c, g, mute) \in {c, e}
  BY DEF GroupHandleMuteChange
<1>. HIDE DEF group
<1>3. Rezoned(c, d, c.zones)
  BY <1>1, TakesGroup
<1>4. Typed(d)
  BY <1>3 DEF Rezoned
<1>. HIDE DEF d
<1>5. Spread(d, e, Z)
  BY <1>4, HandledChanges
<1>6. Spread(c, d, Z) /\ Spread(c, c, Z)
  BY <1>3, RezonedSpreads, SpreadItself
<1>. HIDE DEF e
<1>. QED  BY <1>2, <1>5, <1>6, SpreadTwice

\* The same of a source.
LEMMA GroupSourceSpreads ==
  ASSUME NEW c, Typed(c), NEW g \in 1..GroupsMax, NEW s \in 1..SourcesMax
  PROVE  Spread(c, GroupHandleSourceChange(c, g, s), c.groups[g].zones)
<1> DEFINE Z == c.groups[g].zones
           group == GroupSetSource(c.groups[g], s).value
           d == [c EXCEPT !.groups[g] = group]
           e == HandleSourceChange(d, Z, s)
<1>0. c.groups[g] \in Groups
  BY TypedHas
<1>1. group \in Groups /\ group.name = c.groups[g].name /\ group.zones = Z
  BY <1>0, GroupSetters
<1>2. GroupHandleSourceChange(c, g, s) \in {c, e}
  BY <1>1 DEF GroupHandleSourceChange, GetZones
<1>. HIDE DEF group
<1>3. Rezoned(c, d, c.zones)
  BY <1>1, TakesGroup
<1>4. Typed(d)
  BY <1>3 DEF Rezoned
<1>. HIDE DEF d
<1>5. Spread(d, e, Z)
  BY <1>4, HandledChanges
<1>6. Spread(c, d, Z) /\ Spread(c, c, Z)
  BY <1>3, RezonedSpreads, SpreadItself
<1>. HIDE DEF e
<1>. QED  BY <1>2, <1>5, <1>6, SpreadTwice

\* The same of a volume.
LEMMA GroupVolumeSpreads ==
  ASSUME NEW c, Typed(c), NEW g \in 1..GroupsMax, NEW level
  PROVE  Spread(c, GroupHandleVolumeChange(c, g, level), c.groups[g].zones)
<1> DEFINE Z == c.groups[g].zones
           group == OutputSetVolume(c.groups[g], level).value
           d == [c EXCEPT !.groups[g] = group]
           u == GroupHandleMuteChange(d, g, FALSE)
           e == HandleVolumeChange(u, Z, [z \in Z |-> level])
<1>0. c.groups[g] \in Groups
  BY TypedHas
<1>1. group \in Groups /\ group.name = c.groups[g].name /\ group.zones = Z
  BY <1>0, GroupSetters
<1>2. GroupHandleVolumeChange(c, g, level) \in {c, e}
  BY <1>1 DEF GroupHandleVolumeChange, GetZones
<1>. HIDE DEF group
<1>3. Rezoned(c, d, c.zones)
  BY <1>1, TakesGroup
<1>4. Typed(d) /\ d.groups[g].zones = Z
  BY <1>3 DEF Rezoned
<1>. HIDE DEF d
<1>5. Spread(d, u, Z)
  BY <1>4, GroupMuteSpreads
<1>6. Typed(u)
  BY <1>5 DEF Spread
<1>. HIDE DEF u
<1>7. Spread(u, e, Z)
  BY <1>6, HandledChanges
<1>8. Spread(c, d, Z) /\ Spread(c, c, Z)
  BY <1>3, RezonedSpreads, SpreadItself
<1>. HIDE DEF e
<1>. QED  BY <1>2, <1>5, <1>7, <1>8, SpreadTwice

\* The same of the answers that a client takes as its own changes.
LEMMA CompletionSpreads ==
  ASSUME NEW c, Typed(c), NEW g \in 1..GroupsMax
  PROVE  /\ Spread(c, ToggleMuteCompleteHandler(c, g), c.groups[g].zones)
         /\ \A by : Spread(c, AdjustVolumeCompleteHandler(c, g, by), c.groups[g].zones)
<1> DEFINE Z == c.groups[g].zones
<1>0. c.groups[g] \in Groups
  BY TypedHas
<1>1. Spread(c, ToggleMuteCompleteHandler(c, g), Z)
  <2>1. CASE Failed(OutputGetMute(c.groups[g]))
    BY <2>1 DEF ToggleMuteCompleteHandler, Spread
  <2>2. CASE ~ Failed(OutputGetMute(c.groups[g]))
    <3>1. c.groups[g].mute # Null
      BY <2>2 DEF OutputGetMute, GetMute, Get, Failed
    <3>2. c.groups[g].mute \in BOOLEAN
      BY <1>0, <3>1 DEF Groups
    <3>3. (~ c.groups[g].mute) \in BOOLEAN
      OBVIOUS
    <3>. QED  BY <2>2, <3>3, GroupMuteSpreads DEF ToggleMuteCompleteHandler
  <2>. QED  BY <2>1, <2>2
<1>2. ASSUME NEW by PROVE Spread(c, AdjustVolumeCompleteHandler(c, g, by), Z)
  <2> DEFINE u == GroupHandleMuteChange(c, g, FALSE)
             Y == {z \in GetZones(u.groups[g]) : ~Failed(OutputGetVolume(u.zones[z]))}
             level == [z \in Y |-> u.zones[z].volume + by]
             mean == Mean(Accumulated(u.zones, Y) + by * Cardinality(Y),
                          Cardinality(u.groups[g].zones))
             d == HandleVolumeChange(u, Y, level)
             group == OutputSetVolume(d.groups[g], mean).value
             e == [d EXCEPT !.groups[g] = group]
  <2>1. AdjustVolumeCompleteHandler(c, g, by) \in {u, e}
    BY DEF AdjustVolumeCompleteHandler
  <2>2. Spread(c, u, Z)
    BY GroupMuteSpreads
  <2>3. Typed(u) /\ u.groups[g].zones = Z
    BY <2>2 DEF Spread
  <2>. HIDE DEF u
  <2>4. Y \subseteq Z
    BY <2>3 DEF GetZones
  <2>. HIDE DEF Y, level, mean
  <2>5. Spread(u, d, Y)
    BY <2>3, HandledChanges
  <2>6. Spread(u, d, Z) /\ Typed(d)
    BY <2>4, <2>5 DEF Spread
  <2>. HIDE DEF d
  <2>7. group \in Groups /\ group.name = d.groups[g].name /\ group.zones = d.groups[g].zones
    BY <2>6, TypedHas, GroupSetters
  <2>. HIDE DEF group
  <2>8. Rezoned(d, e, d.zones)
    BY <2>6, <2>7, TakesGroup
  <2>. HIDE DEF e
  <2>9. Spread(d, e, Z)
    BY <2>8, RezonedSpreads
  <2>. QED  BY <2>1, <2>2, <2>6, <2>9, SpreadTwice
<1>. QED  BY <1>1, <1>2

-----------------------------------------------------------------------------
(***************************************************************************)
(* The other controllers of a client.                                      *)
(***************************************************************************)
\* What a client has besides its models.
Controls == {"refreshed", "expects", "buffer", "missed"}

\* A line leaves the models typed, and what is not model as it was.
Hears(c, d) == Typed(d) /\ \A f \in Controls : d[f] = c[f]

\* The models and what is besides them are all there is.
LEMMA PartsAreFields == Parts \cap Controls = {} /\ ClientFields = Parts \cup Controls
BY DEF Parts, Controls, ClientFields

\* A client that takes a typed value for a part stays typed.
LEMMA ChangedHears ==
  ASSUME NEW c, NEW d
  PROVE  /\ \A part \in Parts : \A v : Took(c, d, part, v) => Hears(c, d)
         /\ \A zones : Rezoned(c, d, zones) => Hears(c, d)
         /\ \A Z : Spread(c, d, Z) => Hears(c, d)
         /\ Typed(c) => Hears(c, c)
<1>1. Controls \subseteq ClientFields \ {"zones", "groups"}
  BY PartsAreFields DEF Parts
<1>2. \A part \in Parts : Controls \subseteq ClientFields \ {part}
  BY PartsAreFields
<1>3. \A part \in Parts : \A v : Took(c, d, part, v) => Hears(c, d)
  BY <1>2 DEF Took, Hears
<1>4. \A zones : Rezoned(c, d, zones) => Hears(c, d)
  BY <1>1 DEF Rezoned, Hears
<1>5. \A Z : Spread(c, d, Z) => Hears(c, d)
  BY <1>1 DEF Spread, Hears
<1>. QED  BY <1>3, <1>4, <1>5 DEF Hears

\* Values that are no zones and no groups.
LEMMA OtherSetters ==
  /\ \A preset \in Presets, b \in Bands : \A level :
       SetBand(preset, b, SetLevel(preset.bands[b], level)).value \in Presets
  /\ \A preset \in Presets, name \in Names : PresetSetName(preset, name).value \in Presets
  /\ \A item \in Items, name \in Names : /\ FavoriteSetName(item, name).value \in Items
                                         /\ SourceSetName(item, name).value \in Items
  /\ \A panel \in PanelsWith({Null}) :
       /\ \A b : PanelSetBrightness(panel, b).value \in PanelsWith({Null})
       /\ \A b \in BOOLEAN : PanelSetLocked(panel, b).value \in PanelsWith({Null})
  /\ \A infrared \in InfraredsWith({Null}), b \in BOOLEAN :
       InfraredSetDisabled(infrared, b).value \in InfraredsWith({Null})
  /\ \A network \in NetworksWith({Null}), b \in BOOLEAN :
       /\ NetworkSetDHCPv4Enabled(network, b).value \in NetworksWith({Null})
       /\ NetworkSetSDDPEnabled(network, b).value \in NetworksWith({Null})
<1>1. ASSUME NEW preset \in Presets, NEW b \in Bands, NEW level
      PROVE  SetBand(preset, b, SetLevel(preset.bands[b], level)).value \in Presets
  <2>1. preset.bands \in [Bands -> BandLevels \cup {Null}]
    BY PresetHas
  <2>2. SetLevel(preset.bands[b], level).value \in BandLevels \cup {Null}
    BY <2>1 DEF SetLevel, SetWithin, Set
  <2>. DEFINE v == SetLevel(preset.bands[b], level).value
              bands == [preset.bands EXCEPT ![b] = v]
  <2>3. bands \in [Bands -> BandLevels \cup {Null}]
    BY <2>1, <2>2
  <2>4. SetBand(preset, b, SetLevel(preset.bands[b], level)).value = [preset EXCEPT !.bands = bands]
    BY DEF SetBand
  <2>. HIDE DEF bands
  <2>. QED  BY <2>3, <2>4, PresetFields
<1>2. ASSUME NEW preset \in Presets, NEW name \in Names PROVE PresetSetName(preset, name).value \in Presets
  <2>1. SetName(preset.name, name).value \in KeptNames \cup {Null}
    BY NameSetter, PresetHas DEF SetsValue
  <2>. QED  BY <2>1, PresetFields DEF PresetSetName, SetField
<1>3. \A item \in Items, name \in Names : /\ FavoriteSetName(item, name).value \in Items
                                          /\ SourceSetName(item, name).value \in Items
  BY NameSetter DEF SetsValue, FavoriteSetName, SourceSetName, Items
<1>4. ASSUME NEW panel \in PanelsWith({Null}), NEW v
      PROVE  /\ v \in Brightnesses \cup {Null} => [panel EXCEPT !.brightness = v] \in PanelsWith({Null})
             /\ v \in BOOLEAN \cup {Null} => [panel EXCEPT !.locked = v] \in PanelsWith({Null})
  BY DEF PanelsWith
<1>5. \A panel \in PanelsWith({Null}) : \A b : SetBrightness(panel.brightness, b).value \in Brightnesses \cup {Null}
  BY DEF PanelsWith, SetBrightness, SetWithin, Set
<1>6. \A panel \in PanelsWith({Null}) :
        /\ \A b : PanelSetBrightness(panel, b).value \in PanelsWith({Null})
        /\ \A b \in BOOLEAN : PanelSetLocked(panel, b).value \in PanelsWith({Null})
  BY <1>4, <1>5 DEF PanelSetBrightness, PanelSetLocked, SetLocked, Set, SetField
<1>7. \A infrared \in InfraredsWith({Null}), b \in BOOLEAN :
        InfraredSetDisabled(infrared, b).value \in InfraredsWith({Null})
  BY DEF InfraredsWith, InfraredSetDisabled, SetDisabled, Set, SetField
<1>8. ASSUME NEW network \in NetworksWith({Null}), NEW b \in BOOLEAN
      PROVE  /\ [network EXCEPT !.dhcp = b] \in NetworksWith({Null})
             /\ [network EXCEPT !.sddp = b] \in NetworksWith({Null})
  BY DEF NetworksWith
<1>9. \A network \in NetworksWith({Null}), b \in BOOLEAN :
        /\ NetworkSetDHCPv4Enabled(network, b).value \in NetworksWith({Null})
        /\ NetworkSetSDDPEnabled(network, b).value \in NetworksWith({Null})
  BY <1>8
  DEF NetworkSetDHCPv4Enabled, NetworkSetSDDPEnabled, SetDHCPv4Enabled, SetSDDPEnabled, Set, SetField
<1>. QED  BY <1>1, <1>2, <1>3, <1>6, <1>7, <1>9

\* What the other controllers take from a line.
OtherKinds ==
  {"preset band", "preset name", "favorite name", "source name", "brightness", "locked",
   "disabled", "dhcp", "sddp"}

\* The part that such a line is about.
OtherPart(l) ==
  CASE l[1] \in {"preset band", "preset name"} -> "presets"
    [] l[1] = "favorite name" -> "favorites"
    [] l[1] = "source name" -> "sources"
    [] l[1] \in {"brightness", "locked"} -> "panel"
    [] l[1] = "disabled" -> "infrared"
    [] l[1] \in {"dhcp", "sddp"} -> "network"

\* What a client makes of such a line.
OtherHears(c, l) ==
  CASE l[1] = "preset band" ->
         [c.presets EXCEPT ![l[2]] = SetBand(@, l[3], SetLevel(@.bands[l[3]], l[4])).value]
    [] l[1] = "preset name" -> [c.presets EXCEPT ![l[2]] = PresetSetName(@, l[3]).value]
    [] l[1] = "favorite name" -> [c.favorites EXCEPT ![l[2]] = FavoriteSetName(@, l[3]).value]
    [] l[1] = "source name" -> [c.sources EXCEPT ![l[2]] = SourceSetName(@, l[3]).value]
    [] l[1] = "brightness" -> PanelSetBrightness(c.panel, l[2]).value
    [] l[1] = "locked" -> PanelSetLocked(c.panel, l[2]).value
    [] l[1] = "disabled" -> InfraredSetDisabled(c.infrared, l[2]).value
    [] l[1] = "dhcp" -> NetworkSetDHCPv4Enabled(c.network, l[2]).value
    [] l[1] = "sddp" -> NetworkSetSDDPEnabled(c.network, l[2]).value

\* That, by its handlers.
LEMMA HearsOther ==
  ASSUME NEW c, Typed(c), NEW l, GoodLine(l)
  PROVE  /\ l[1] \in OtherKinds => Took(c, HearOther(c, l), OtherPart(l), OtherHears(c, l))
         /\ l[1] \notin OtherKinds => HearOther(c, l) = c
<1> DEFINE d == HearOther(c, l)
           v == OtherHears(c, l)
<1>0. /\ c.presets \in [1..EqualizerPresetsMax -> Presets]
      /\ c.favorites \in [1..FavoritesMax -> Items] /\ c.sources \in [1..SourcesMax -> Items]
      /\ c.panel \in PanelsWith({Null}) /\ c.infrared \in InfraredsWith({Null})
      /\ c.network \in NetworksWith({Null})
  BY TypedHas
<1>1. CASE l[1] = "preset band"
  <2>1. l[2] \in 1..EqualizerPresetsMax /\ l[3] \in Bands
    BY <1>1 DEF GoodLine
  <2>2. v \in [1..EqualizerPresetsMax -> Presets]
    BY <1>0, <1>1, <2>1, OtherSetters DEF OtherHears
  <2>3. PresetGetEqualizerBand(c.presets[l[2]], l[3]).value = c.presets[l[2]].bands[l[3]]
    BY <2>1 DEF PresetGetEqualizerBand, GetEqualizerBand, IsValidIdentifier
  <2>4. d = [c EXCEPT !.presets = v]
    BY <1>1, <2>3 DEF HearOther, OtherHears, PresetBandNotificationReceivedHandler
  <2>5. OtherPart(l) = "presets" /\ l[1] \in OtherKinds
    BY <1>1 DEF OtherPart, OtherKinds
  <2>. HIDE DEF v, d
  <2>6. Took(c, d, "presets", v)
    BY <2>2, <2>4, TakesPart
  <2>. QED  BY <2>5, <2>6 DEF v, d
<1>2. CASE l[1] = "preset name"
  <2>1. l[2] \in 1..EqualizerPresetsMax /\ l[3] \in Names
    BY <1>2 DEF GoodLine
  <2>2. v \in [1..EqualizerPresetsMax -> Presets]
    BY <1>0, <1>2, <2>1, OtherSetters DEF OtherHears
  <2>4. d = [c EXCEPT !.presets = v]
    BY <1>2 DEF HearOther, OtherHears, PresetNameNotificationReceivedHandler
  <2>5. OtherPart(l) = "presets" /\ l[1] \in OtherKinds
    BY <1>2 DEF OtherPart, OtherKinds
  <2>. HIDE DEF v, d
  <2>6. Took(c, d, "presets", v)
    BY <2>2, <2>4, TakesPart
  <2>. QED  BY <2>5, <2>6 DEF v, d
<1>3. CASE l[1] = "favorite name"
  <2>1. l[2] \in 1..FavoritesMax /\ l[3] \in Names
    BY <1>3 DEF GoodLine
  <2>2. v \in [1..FavoritesMax -> Items]
    BY <1>0, <1>3, <2>1, OtherSetters DEF OtherHears
  <2>4. d = [c EXCEPT !.favorites = v]
    BY <1>3 DEF HearOther, OtherHears, FavoriteNameNotificationReceivedHandler
  <2>5. OtherPart(l) = "favorites" /\ l[1] \in OtherKinds
    BY <1>3 DEF OtherPart, OtherKinds
  <2>. HIDE DEF v, d
  <2>6. Took(c, d, "favorites", v)
    BY <2>2, <2>4, TakesPart
  <2>. QED  BY <2>5, <2>6 DEF v, d
<1>4. CASE l[1] = "source name"
  <2>1. l[2] \in 1..SourcesMax /\ l[3] \in Names
    BY <1>4 DEF GoodLine
  <2>2. v \in [1..SourcesMax -> Items]
    BY <1>0, <1>4, <2>1, OtherSetters DEF OtherHears
  <2>4. d = [c EXCEPT !.sources = v]
    BY <1>4 DEF HearOther, OtherHears, SourceNameNotificationReceivedHandler
  <2>5. OtherPart(l) = "sources" /\ l[1] \in OtherKinds
    BY <1>4 DEF OtherPart, OtherKinds
  <2>. HIDE DEF v, d
  <2>6. Took(c, d, "sources", v)
    BY <2>2, <2>4, TakesPart
  <2>. QED  BY <2>5, <2>6 DEF v, d
<1>5. CASE l[1] \in {"brightness", "locked"}
  <2>1. l[1] = "locked" => l[2] \in BOOLEAN
    BY DEF GoodLine
  <2>2. v \in PanelsWith({Null})
    BY <1>0, <1>5, <2>1, OtherSetters DEF OtherHears
  <2>4. d = [c EXCEPT !.panel = v]
    BY <1>5 DEF HearOther, OtherHears, BrightnessNotificationReceivedHandler,
                LockedNotificationReceivedHandler
  <2>5. OtherPart(l) = "panel" /\ l[1] \in OtherKinds
    BY <1>5 DEF OtherPart, OtherKinds
  <2>. HIDE DEF v, d
  <2>6. Took(c, d, "panel", v)
    BY <2>2, <2>4, TakesPart
  <2>. QED  BY <2>5, <2>6 DEF v, d
<1>6. CASE l[1] = "disabled"
  <2>1. l[2] \in BOOLEAN
    BY <1>6 DEF GoodLine
  <2>2. v \in InfraredsWith({Null})
    BY <1>0, <1>6, <2>1, OtherSetters DEF OtherHears
  <2>4. d = [c EXCEPT !.infrared = v]
    BY <1>6 DEF HearOther, OtherHears, DisabledNotificationReceivedHandler
  <2>5. OtherPart(l) = "infrared" /\ l[1] \in OtherKinds
    BY <1>6 DEF OtherPart, OtherKinds
  <2>. HIDE DEF v, d
  <2>6. Took(c, d, "infrared", v)
    BY <2>2, <2>4, TakesPart
  <2>. QED  BY <2>5, <2>6 DEF v, d
<1>7. CASE l[1] \in {"dhcp", "sddp"}
  <2>1. l[2] \in BOOLEAN
    BY <1>7 DEF GoodLine
  <2>2. v \in NetworksWith({Null})
    BY <1>0, <1>7, <2>1, OtherSetters DEF OtherHears
  <2>4. d = [c EXCEPT !.network = v]
    BY <1>7 DEF HearOther, OtherHears, DHCPv4EnabledNotificationReceivedHandler,
                SDDPEnabledNotificationReceivedHandler
  <2>5. OtherPart(l) = "network" /\ l[1] \in OtherKinds
    BY <1>7 DEF OtherPart, OtherKinds
  <2>. HIDE DEF v, d
  <2>6. Took(c, d, "network", v)
    BY <2>2, <2>4, TakesPart
  <2>. QED  BY <2>5, <2>6 DEF v, d
<1>8. l[1] \notin OtherKinds => HearOther(c, l) = c
  BY DEF HearOther, OtherKinds
<1>. QED  BY <1>1, <1>2, <1>3, <1>4, <1>5, <1>6, <1>7, <1>8 DEF OtherKinds

\* What a group takes from a line about itself.
GroupHears(group, l) ==
  CASE l[1] = "group name" -> OutputSetName(group, l[3]).value
    [] l[1] = "group zone added" -> GroupAddZone(group, l[3]).value
    [] l[1] = "group zone removed" -> GroupRemoveZone(group, l[3]).value

\* The kinds of lines about groups, by what they change.
ItselfKinds == {"group name", "group zone added", "group zone removed"}

SpreadKinds == {"group mute", "group source", "group volume"}

\* A line about a group leaves a client typed.
LEMMA HearsGroup ==
  ASSUME NEW c, Typed(c), NEW l, GoodLine(l)
  PROVE  /\ l[1] \in ItselfKinds =>
              /\ GroupHears(c.groups[l[2]], l) \in Groups
              /\ Took(c, HearGroup(c, l), "groups",
                      [c.groups EXCEPT ![l[2]] = GroupHears(c.groups[l[2]], l)])
         /\ l[1] \in SpreadKinds => Spread(c, HearGroup(c, l), c.groups[l[2]].zones)
         /\ l[1] \notin ItselfKinds \cup SpreadKinds => HearGroup(c, l) = HearOther(c, l)
<1> DEFINE g == l[2]
           d == HearGroup(c, l)
           group == GroupHears(c.groups[g], l)
<1>1. ASSUME l[1] \in ItselfKinds
      PROVE  group \in Groups /\ Took(c, d, "groups", [c.groups EXCEPT ![g] = group])
  <2>1. g \in 1..GroupsMax
    BY <1>1 DEF ItselfKinds, GroupKinds, GoodLine
  <2>2. c.groups[g] \in Groups
    BY <2>1, TypedHas
  <2>3. group \in Groups
    <3>1. CASE l[1] = "group name"
      BY <2>2, <3>1, GroupSetters DEF GroupHears, GoodLine
    <3>2. CASE l[1] = "group zone added"
      BY <2>2, <3>2, GroupSetters DEF GroupHears, GoodLine
    <3>3. CASE l[1] = "group zone removed"
      BY <2>2, <3>3, GroupSetters DEF GroupHears, GoodLine
    <3>. QED  BY <1>1, <3>1, <3>2, <3>3 DEF ItselfKinds
  <2>4. d = [c EXCEPT !.groups[g] = group]
    BY <1>1 DEF ItselfKinds, HearGroup, GroupHears, GroupNameNotificationReceivedHandler,
                GroupZoneNotificationReceivedHandler
  <2>. HIDE DEF d, group
  <2>. QED  BY <2>1, <2>3, <2>4, TakesGroup
<1>2. ASSUME l[1] \in SpreadKinds PROVE Spread(c, d, c.groups[g].zones)
  <2>1. g \in 1..GroupsMax
    BY <1>2 DEF SpreadKinds, GroupKinds, GoodLine
  <2>2. CASE l[1] = "group mute"
    <3>1. l[3] \in BOOLEAN
      BY <2>2 DEF GoodLine
    <3>. QED  BY <2>1, <2>2, <3>1, GroupMuteSpreads DEF HearGroup
  <2>3. CASE l[1] = "group source"
    <3>1. l[3] \in 1..SourcesMax
      BY <2>3 DEF GoodLine
    <3>. QED  BY <2>1, <2>3, <3>1, GroupSourceSpreads DEF HearGroup
  <2>4. CASE l[1] = "group volume"
    BY <2>1, <2>4, GroupVolumeSpreads DEF HearGroup
  <2>. QED  BY <1>2, <2>2, <2>3, <2>4 DEF SpreadKinds
<1>3. ASSUME l[1] \notin ItselfKinds \cup SpreadKinds PROVE d = HearOther(c, l)
  BY <1>3 DEF ItselfKinds, SpreadKinds, HearGroup
<1>. QED  BY <1>1, <1>2, <1>3

\* The kinds of answers that a client completes by itself.
CompletionKinds == {"group mute toggle", "group volume up", "group volume down"}

\* A line that is an answer to a toggle or to an adjustment spreads too.
LEMMA HearsLine ==
  ASSUME NEW c, Typed(c), NEW l, GoodLine(l), NEW answer
  PROVE  /\ answer /\ l[1] \in CompletionKinds =>
              Spread(c, HearLine(c, l, answer), c.groups[l[2]].zones)
         /\ ~ (answer /\ l[1] \in CompletionKinds) => HearLine(c, l, answer) = HearZone(c, l)
         /\ l[1] \notin ZoneKinds \cup AllKinds => HearZone(c, l) = HearGroup(c, l)
<1>1. ASSUME answer, l[1] \in CompletionKinds
      PROVE  Spread(c, HearLine(c, l, answer), c.groups[l[2]].zones)
  <2>1. l[2] \in 1..GroupsMax
    BY <1>1 DEF CompletionKinds, GroupKinds, GoodLine
  <2>2. CASE l[1] = "group mute toggle"
    BY <1>1, <2>1, <2>2, CompletionSpreads DEF HearLine
  <2>3. CASE l[1] = "group volume up"
    BY <1>1, <2>1, <2>3, CompletionSpreads DEF HearLine
  <2>4. CASE l[1] = "group volume down"
    BY <1>1, <2>1, <2>4, CompletionSpreads DEF HearLine
  <2>. QED  BY <1>1, <2>2, <2>3, <2>4 DEF CompletionKinds
<1>2. ~ (answer /\ l[1] \in CompletionKinds) => HearLine(c, l, answer) = HearZone(c, l)
  BY DEF HearLine, CompletionKinds
<1>3. l[1] \notin ZoneKinds \cup AllKinds => HearZone(c, l) = HearGroup(c, l)
  BY DEF HearZone, ZoneKinds, AllKinds
<1>. QED  BY <1>1, <1>2, <1>3

\* Every line that can be heard leaves a client typed.
LEMMA LineHeard ==
  ASSUME NEW c, Typed(c), NEW l, GoodLine(l), NEW answer
  PROVE  Hears(c, HearLine(c, l, answer))
<1>1. CASE answer /\ l[1] \in CompletionKinds
  BY <1>1, HearsLine, ChangedHears
<1>2. CASE ~ (answer /\ l[1] \in CompletionKinds)
  <2> DEFINE d == HearZone(c, l)
  <2>1. HearLine(c, l, answer) = d
    BY <1>2, HearsLine
  <2>2. CASE l[1] \in ZoneKinds \cup AllKinds
    BY <2>1, <2>2, HearsZones, ChangedHears
  <2>3. CASE l[1] \notin ZoneKinds \cup AllKinds
    <3>1. HearLine(c, l, answer) = HearGroup(c, l)
      BY <2>1, <2>3, HearsLine
    <3>2. CASE l[1] \in ItselfKinds
      <4>1. "groups" \in Parts
        BY DEF Parts
      <4>. QED  BY <3>1, <3>2, <4>1, HearsGroup, ChangedHears
    <3>3. CASE l[1] \in SpreadKinds
      BY <3>1, <3>3, HearsGroup, ChangedHears
    <3>4. CASE l[1] \notin ItselfKinds \cup SpreadKinds
      <4>1. HearLine(c, l, answer) = HearOther(c, l)
        BY <3>1, <3>4, HearsGroup
      <4>2. OtherPart(l) \in Parts \/ l[1] \notin OtherKinds
        BY DEF OtherPart, OtherKinds, Parts
      <4>. QED  BY <4>1, <4>2, HearsOther, ChangedHears
    <3>. QED  BY <3>2, <3>3, <3>4
  <2>. QED  BY <2>2, <2>3
<1>. QED  BY <1>1, <1>2

\* Lines of a kind that can be heard.
Told(lines) == \E S : lines \in Seq(S) /\ \A l \in S : GoodLine(l)

\* Each of the lines told can be heard.
LEMMA ToldHas ==
  ASSUME NEW lines, Told(lines)
  PROVE  Len(lines) \in Nat /\ \A i \in 1..Len(lines) : GoodLine(lines[i])
<1>1. PICK S : lines \in Seq(S) /\ \A l \in S : GoodLine(l)
  BY DEF Told
<1>. QED  BY <1>1, ElementOfSeq, LenProperties

\* So all of them, one after the other, leave a client typed.
LEMMA LinesHeard ==
  ASSUME NEW c, Typed(c), NEW lines, Told(lines), NEW answered
  PROVE  Hears(c, HearLines(c, lines, answered))
<1>1. Len(lines) \in Nat /\ \A i \in 1..Len(lines) : GoodLine(lines[i])
  BY ToldHas
<1>2. PICK f : HeardTo(f, c, lines, answered) /\ HearLines(c, lines, answered) = f[Len(lines)]
  BY <1>1, HeardEach
<1> DEFINE T == {k \in Nat : k <= Len(lines) => Hears(c, f[k])}
<1>3. 0 \in T
  BY <1>2, ChangedHears DEF HeardTo
<1>4. ASSUME NEW k \in T PROVE k + 1 \in T
  <2>1. CASE k + 1 <= Len(lines)
    <3>1. Hears(c, f[k]) /\ k + 1 \in 1 .. Len(lines) /\ (k + 1) - 1 = k
      BY <1>1, <2>1
    <3>2. f[k + 1] = HearLine(f[k], lines[k + 1], answered /\ k + 1 = Len(lines))
      BY <1>2, <3>1 DEF HeardTo
    <3>3. Hears(f[k], f[k + 1])
      BY <1>1, <3>1, <3>2, LineHeard DEF Hears
    <3>4. Hears(c, f[k + 1])
      BY <3>1, <3>3 DEF Hears
    <3>. QED  BY <3>1, <3>4
  <2>. QED  BY <2>1
<1>. HIDE DEF T
<1>5. T = Nat
  <2>1. T \in SUBSET Nat
    BY DEF T
  <2>. QED  BY <1>3, <1>4, <2>1, SetInduction
<1>. QED  BY <1>1, <1>2, <1>5 DEF T

-----------------------------------------------------------------------------
(***************************************************************************)
(* Sequences of lines.                                                     *)
(***************************************************************************)
\* The lines are members of a set of lines that can be heard.
LEMMA ToldIn ==
  ASSUME NEW S, NEW lines, lines \in Seq(S), \A l \in S : GoodLine(l)
  PROVE  Told(lines)
BY Zenon DEF Told

\* No line, one line, lines after lines, and some of the lines.
LEMMA ToldLines ==
  /\ Told(<<>>)
  /\ \A l : GoodLine(l) => Told(<<l>>)
  /\ \A s, t : Told(s) /\ Told(t) => Told(s \o t)
  /\ \A s, l : Told(s) /\ GoodLine(l) => Told(Append(s, l))
<1>1. Told(<<>>)
  <2> DEFINE S == {}
  <2>1. <<>> \in Seq(S) /\ \A l \in S : GoodLine(l)
    OBVIOUS
  <2>. HIDE DEF S
  <2>. QED  BY <2>1, ToldIn
<1>2. ASSUME NEW l, GoodLine(l) PROVE Told(<<l>>)
  <2> DEFINE S == {l}
  <2>1. <<l>> \in Seq(S)
    OBVIOUS
  <2>2. \A x \in S : x = l
    OBVIOUS
  <2>. HIDE DEF S
  <2>3. \A x \in S : GoodLine(x)
    BY <1>2, <2>2
  <2>. QED  BY <2>1, <2>3, ToldIn
<1>3. ASSUME NEW s, NEW t, Told(s), Told(t) PROVE Told(s \o t)
  <2>1. PICK S : s \in Seq(S) /\ \A l \in S : GoodLine(l)
    BY <1>3 DEF Told
  <2>2. PICK T : t \in Seq(T) /\ \A l \in T : GoodLine(l)
    BY <1>3 DEF Told
  <2>3. s \in Seq(S \cup T) /\ t \in Seq(S \cup T)
    BY <2>1, <2>2, SeqMonotonic
  <2>4. s \o t \in Seq(S \cup T)
    BY <2>3, ConcatProperties
  <2>5. \A l \in S \cup T : GoodLine(l)
    BY <2>1, <2>2
  <2>. QED  BY <2>4, <2>5 DEF Told
<1>4. ASSUME NEW s, NEW l, Told(s), GoodLine(l) PROVE Told(Append(s, l))
  <2>1. PICK S : s \in Seq(S) /\ \A x \in S : GoodLine(x)
    BY <1>4 DEF Told
  <2>2. s \in Seq(S \cup {l})
    BY <2>1, SeqMonotonic
  <2>3. Append(s, l) \in Seq(S \cup {l})
    BY <2>2, AppendProperties
  <2>4. \A x \in S \cup {l} : GoodLine(x)
    BY <1>4, <2>1
  <2>. QED  BY <2>3, <2>4 DEF Told
<1>. QED  BY <1>1, <1>2, <1>3, <1>4

\* Sequences put together are built one after the other.
FlatUpto(f, seqs, k) ==
  /\ DOMAIN f = 0..k /\ f[0] = <<>>
  /\ \A i \in 1..k : f[i] = f[i - 1] \o seqs[i]

\* There is such a sequence of sequences, and it is what FlattenSeq gives.
LEMMA FlatSteps ==
  ASSUME NEW seqs, NEW n \in Nat
  PROVE  \E f : FlatUpto(f, seqs, n)
<1> DEFINE T == {k \in Nat : \E f : FlatUpto(f, seqs, k)}
<1>1. 0 \in T
  <2> DEFINE f == [i \in 0..0 |-> <<>>]
  <2>1. FlatUpto(f, seqs, 0)
    BY DEF FlatUpto
  <2>. HIDE DEF f
  <2>. QED  BY <2>1
<1>2. ASSUME NEW k \in T PROVE k + 1 \in T
  <2>1. k \in Nat /\ k + 1 \in Nat
    OBVIOUS
  <2>2. PICK f : FlatUpto(f, seqs, k)
    OBVIOUS
  <2> DEFINE g == [i \in 0..(k + 1) |-> IF i = k + 1 THEN f[k] \o seqs[k + 1] ELSE f[i]]
  <2>3. FlatUpto(g, seqs, k + 1)
    <3>1. DOMAIN g = 0..(k + 1) /\ g[0] = <<>>
      BY <2>1, <2>2 DEF FlatUpto
    <3>2. ASSUME NEW i \in 1..(k + 1) PROVE g[i] = g[i - 1] \o seqs[i]
      <4>1. CASE i = k + 1
        BY <2>1, <4>1
      <4>2. CASE i # k + 1
        <5>1. i \in 1..k /\ i \in 0..(k + 1) /\ i - 1 \in 0..(k + 1) /\ i - 1 # k + 1
          BY <2>1, <4>2
        <5>2. g[i] = f[i] /\ g[i - 1] = f[i - 1]
          BY <4>2, <5>1
        <5>. HIDE DEF g
        <5>. QED  BY <2>2, <5>1, <5>2 DEF FlatUpto
      <4>. QED  BY <4>1, <4>2
    <3>. HIDE DEF g
    <3>. QED  BY <3>1, <3>2 DEF FlatUpto
  <2>. HIDE DEF g
  <2>. QED  BY <2>1, <2>3
<1>. HIDE DEF T
<1>3. T \in SUBSET Nat
  BY DEF T
<1>4. T = Nat
  BY <1>1, <1>2, <1>3, SetInduction
<1>. QED  BY <1>4 DEF T

\* What each step of it keeps, all of it keeps.
LEMMA FlatEach ==
  ASSUME NEW S, NEW n \in Nat, NEW seqs \in [1..n -> Seq(S)]
  PROVE  \E f : FlatUpto(f, seqs, n) /\ FlattenSeq(seqs) = f[n]
<1> DEFINE H(f) == f = [i \in 1..Len(seqs) |-> IF i = 1 THEN seqs[i] ELSE f[i - 1] \o seqs[i]]
<1>0. Len(seqs) = n
  OBVIOUS
<1>1. FlattenSeq(seqs) = IF n = 0 THEN seqs ELSE (CHOOSE f : H(f))[n]
  BY <1>0 DEF FlattenSeq
<1>2. PICK f : FlatUpto(f, seqs, n)
  BY FlatSteps
<1>3. \A i \in 1..n : f[i] = f[i - 1] \o seqs[i] /\ seqs[i] \in Seq(S)
  BY <1>2 DEF FlatUpto
<1>4. f[0] = <<>> /\ DOMAIN f = 0..n
  BY <1>2 DEF FlatUpto
<1>5. CASE n = 0
  <2>1. seqs = <<>>
    BY <1>5
  <2>. HIDE DEF H
  <2>2. FlattenSeq(seqs) = f[n]
    BY <1>1, <1>4, <1>5, <2>1
  <2>. QED  BY <1>2, <2>2
<1>6. CASE n # 0
  <2>0. 1 \in 1..n /\ n \in 1..n
    BY <1>6
  <2>1. f[1] = seqs[1]
    <3>1. f[1] = <<>> \o seqs[1] /\ seqs[1] \in Seq(S)
      <4>1. 1 - 1 = 0
        OBVIOUS
      <4>2. f[1] = f[1 - 1] \o seqs[1] /\ seqs[1] \in Seq(S)
        BY <1>3, <2>0
      <4>. HIDE DEF H
      <4>. QED  BY <1>4, <4>1, <4>2
    <3>. QED  BY <3>1, ConcatEmptySeq
  <2> DEFINE e == [i \in 1..n |-> f[i]]
             h == CHOOSE x : H(x)
  <2>2. H(e)
    <3>1. \A i \in 1..n : i = 1 \/ i - 1 \in 1..n
      OBVIOUS
    <3>2. \A i \in 1..n : f[i] = IF i = 1 THEN seqs[i] ELSE e[i - 1] \o seqs[i]
      BY <1>3, <2>1, <3>1
    <3>. QED  BY <1>0, <3>2
  <2>3. \E x : H(x)
    <3>. HIDE DEF e, H
    <3>. QED  BY <2>2
  <2>4. H(h)
    <3>. HIDE DEF H
    <3>. QED  BY <2>3
  <2>. HIDE DEF h
  <2>5. \A i \in 1..n : h[i] = IF i = 1 THEN seqs[i] ELSE h[i - 1] \o seqs[i]
    BY <1>0, <2>4
  <2>. HIDE DEF H, e
  <2> DEFINE U == {k \in Nat : k + 1 \in 1..n => h[k + 1] = f[k + 1]}
  <2>6. 0 \in U
    BY <2>0, <2>1, <2>5
  <2>7. ASSUME NEW k \in U PROVE k + 1 \in U
    <3>1. k \in Nat /\ k + 1 \in Nat
      OBVIOUS
    <3>2. ASSUME (k + 1) + 1 \in 1..n PROVE h[(k + 1) + 1] = f[(k + 1) + 1]
      <4>1. k + 1 \in 1..n /\ ((k + 1) + 1) - 1 = k + 1 /\ (k + 1) + 1 # 1
        BY <3>1, <3>2
      <4>2. h[(k + 1) + 1] = h[k + 1] \o seqs[(k + 1) + 1]
        BY <2>5, <3>2, <4>1
      <4>3. f[(k + 1) + 1] = f[k + 1] \o seqs[(k + 1) + 1]
        BY <1>3, <3>2, <4>1
      <4>4. h[k + 1] = f[k + 1]
        BY <4>1
      <4>. QED  BY <4>2, <4>3, <4>4
    <3>. QED  BY <3>1, <3>2
  <2>. HIDE DEF U
  <2>9. U = Nat
    <3>1. U \in SUBSET Nat
      BY DEF U
    <3>. QED  BY <2>6, <2>7, <3>1, SetInduction
  <2>10. n - 1 \in Nat /\ (n - 1) + 1 = n
    BY <1>6
  <2>11. h[n] = f[n]
    BY <2>0, <2>9, <2>10 DEF U
  <2>12. FlattenSeq(seqs) = h[n]
    BY <1>1, <1>6 DEF h
  <2>. QED  BY <1>2, <2>11, <2>12
<1>. QED  BY <1>5, <1>6

\* Lines can be heard when each of them can.
LEMMA ToldRange ==
  ASSUME NEW lines, Told(lines)
  PROVE  lines \in Seq({lines[i] : i \in 1..Len(lines)})
<1>1. PICK S : lines \in Seq(S)
  BY DEF Told
<1>2. Len(lines) \in Nat /\ lines \in [1..Len(lines) -> S]
  BY <1>1
<1> DEFINE n == Len(lines)
           R == {lines[i] : i \in 1..n}
<1>3. n \in Nat
  BY <1>2
<1>4. lines = [i \in 1..n |-> lines[i]]
  BY <1>2
<1>5. \A i \in 1..n : lines[i] \in R
  OBVIOUS
<1>. HIDE DEF n, R
<1>6. lines \in [1..n -> R]
  BY <1>4, <1>5
<1>7. lines \in Seq(R)
  BY <1>3, <1>6, SeqDef
<1>. QED  BY <1>7 DEF n, R

\* Each line of lines put together is a line of one of them.
LEMMA FlatIn ==
  ASSUME NEW S, NEW n \in Nat, NEW seqs \in [1..n -> Seq(S)]
  PROVE  FlattenSeq(seqs) \in Seq(S)
<1>1. PICK f : FlatUpto(f, seqs, n) /\ FlattenSeq(seqs) = f[n]
  BY FlatEach
<1> DEFINE T == {k \in Nat : k \in 0..n => f[k] \in Seq(S)}
<1>2. 0 \in T
  <2>1. <<>> \in Seq(S)
    OBVIOUS
  <2>. QED  BY <1>1, <2>1 DEF FlatUpto
<1>3. ASSUME NEW k \in T PROVE k + 1 \in T
  <2>1. k \in Nat /\ k + 1 \in Nat
    OBVIOUS
  <2>2. ASSUME k + 1 \in 0..n PROVE f[k + 1] \in Seq(S)
    <3>1. k \in 0..n /\ k + 1 \in 1..n /\ (k + 1) - 1 = k
      BY <2>1, <2>2
    <3>2. f[k + 1] = f[k] \o seqs[k + 1]
      BY <1>1, <3>1 DEF FlatUpto
    <3>3. f[k] \in Seq(S) /\ seqs[k + 1] \in Seq(S)
      BY <3>1
    <3>. QED  BY <3>2, <3>3, ConcatProperties
  <2>. QED  BY <2>1, <2>2
<1>. HIDE DEF T
<1>4. T \in SUBSET Nat
  BY DEF T
<1>5. T = Nat
  BY <1>2, <1>3, <1>4, SetInduction
<1>6. n \in 0..n
  OBVIOUS
<1>. QED  BY <1>1, <1>5, <1>6 DEF T

\* Lines put together can be heard when all of them can.
LEMMA FlatTold ==
  ASSUME NEW n \in Nat, NEW seqs, seqs = [i \in 1..n |-> seqs[i]],
         \A i \in 1..n : Told(seqs[i])
  PROVE  Told(FlattenSeq(seqs))
<1> DEFINE Within(i) == {seqs[i][j] : j \in 1..Len(seqs[i])}
           S == UNION {Within(i) : i \in 1..n}
<1>1. ASSUME NEW i \in 1..n PROVE seqs[i] \in Seq(S)
  <2>1. seqs[i] \in Seq(Within(i))
    BY ToldRange
  <2>2. Within(i) \subseteq S
    OBVIOUS
  <2>. HIDE DEF S, Within
  <2>. QED  BY <2>1, <2>2, SeqMonotonic
<1>2. ASSUME NEW l \in S PROVE GoodLine(l)
  <2>1. PICK i \in 1..n : l \in Within(i)
    BY <1>2
  <2>2. PICK j \in 1..Len(seqs[i]) : l = seqs[i][j]
    BY <2>1
  <2>. QED  BY <2>2, ToldHas
<1>. HIDE DEF S
<1>3. seqs \in [1..n -> Seq(S)]
  BY <1>1
<1>4. FlattenSeq(seqs) \in Seq(S)
  BY <1>3, FlatIn
<1>. QED  BY <1>2, <1>4, ToldIn

\* The sequence of the members of a set.
LEMMA SetListed ==
  ASSUME NEW S, IsFiniteSet(S)
  PROVE  SetToSeq(S) \in Seq(S)
<1> DEFINE n == Cardinality(S)
<1>1. n \in Nat /\ ExistsBijection(1..n, S)
  BY FS_CardinalityType
<1>2. PICK f \in Bijection(1..n, S) : TRUE
  BY <1>1 DEF ExistsBijection
<1>3. f \in [1..n -> S] /\ IsInjective(f) /\ \A x \in S : \E i \in 1..n : f[i] = x
  BY <1>2 DEF Bijection, Injection, Surjection
<1> DEFINE s == SetToSeq(S)
<1>4. s \in [1..n -> S] /\ IsInjective(s)
  BY <1>3, Zenon DEF SetToSeq, IsInjective
<1>. HIDE DEF s
<1>5. s \in Seq(S)
  BY <1>1, <1>4
<1>. QED  BY <1>5 DEF s

-----------------------------------------------------------------------------
(***************************************************************************)
(* What the server tells.  The lines of every outcome of every request can be*)
(* heard: requests for zones.                                              *)
(***************************************************************************)
\* The lines of an answer about a zone.
LEMMA ZoneLines ==
  ASSUME NEW z \in 1..ZonesMax
  PROVE  /\ \A mute \in BOOLEAN : GoodLine(HandleMuteResponse(z, mute))
         /\ \A mode : GoodLine(HandleSoundModeResponse(z, mode))
         /\ \A v : GoodLine(<<"balance", z, v>>)
         /\ \A bass, treble : GoodLine(HandleToneResponse(z, [bass |-> bass, treble |-> treble]))
         /\ \A v : GoodLine(HandleVolumeResponse(z, v))
         /\ \A b \in Bands : \A v : GoodLine(HandleEqualizerBandResponse(z, b, v))
         /\ \A p \in 1..EqualizerPresetsMax : GoodLine(HandleEqualizerPresetResponse(z, p))
         /\ \A f : GoodLine(HandleHighpassCrossoverResponse(z, f))
         /\ \A f : GoodLine(HandleLowpassCrossoverResponse(z, f))
         /\ \A name \in Names : GoodLine(<<"name", z, name>>)
         /\ \A s \in 1..SourcesMax : GoodLine(<<"source", z, s>>)
         /\ \A fixed \in BOOLEAN : GoodLine(HandleVolumeFixedResponse(z, fixed))
         /\ GoodLine(<<"zone query", z>>)
<1>1. ASSUME NEW l, l[2] = z
      PROVE  /\ l[1] = "mute" /\ l[3] \in BOOLEAN => GoodLine(l)
             /\ l[1] \in {"mode", "balance", "volume", "highpass", "lowpass", "zone query"} => GoodLine(l)
             /\ l[1] = "band" /\ l[3] \in Bands => GoodLine(l)
             /\ l[1] = "preset" /\ l[3] \in 1..EqualizerPresetsMax => GoodLine(l)
             /\ l[1] = "name" /\ l[3] \in Names => GoodLine(l)
             /\ l[1] = "source" /\ l[3] \in 1..SourcesMax => GoodLine(l)
             /\ l[1] = "fixed" /\ l[3] \in BOOLEAN => GoodLine(l)
             /\ l[1] = "tone" /\ (\E bass, treble : l[3] = [bass |-> bass, treble |-> treble]) => GoodLine(l)
  <2>1. l[1] = "mute" /\ l[3] \in BOOLEAN => GoodLine(l)
    BY <1>1 DEF GoodLine, ZoneKinds, GroupKinds
  <2>2. l[1] \in {"mode", "balance", "volume", "highpass", "lowpass", "zone query"} => GoodLine(l)
    BY <1>1 DEF GoodLine, ZoneKinds, GroupKinds
  <2>3. l[1] = "band" /\ l[3] \in Bands => GoodLine(l)
    BY <1>1 DEF GoodLine, ZoneKinds, GroupKinds
  <2>4. l[1] = "preset" /\ l[3] \in 1..EqualizerPresetsMax => GoodLine(l)
    BY <1>1 DEF GoodLine, ZoneKinds, GroupKinds
  <2>5. l[1] = "name" /\ l[3] \in Names => GoodLine(l)
    BY <1>1 DEF GoodLine, ZoneKinds, GroupKinds
  <2>6. l[1] = "source" /\ l[3] \in 1..SourcesMax => GoodLine(l)
    BY <1>1 DEF GoodLine, ZoneKinds, GroupKinds
  <2>7. l[1] = "fixed" /\ l[3] \in BOOLEAN => GoodLine(l)
    BY <1>1 DEF GoodLine, ZoneKinds, GroupKinds
  <2>8. l[1] = "tone" /\ (\E bass, treble : l[3] = [bass |-> bass, treble |-> treble]) => GoodLine(l)
    BY <1>1 DEF GoodLine, ZoneKinds, GroupKinds
  <2>. QED  BY <2>1, <2>2, <2>3, <2>4, <2>5, <2>6, <2>7, <2>8
<1>2. \A mute \in BOOLEAN : GoodLine(HandleMuteResponse(z, mute))
  BY <1>1 DEF HandleMuteResponse
<1>3. \A mode : GoodLine(HandleSoundModeResponse(z, mode))
  BY <1>1 DEF HandleSoundModeResponse
<1>4. \A v : GoodLine(<<"balance", z, v>>)
  BY <1>1
<1>5. \A bass, treble : GoodLine(HandleToneResponse(z, [bass |-> bass, treble |-> treble]))
  <2> TAKE bass, treble
  <2> DEFINE l == HandleToneResponse(z, [bass |-> bass, treble |-> treble])
  <2>1. l[1] = "tone" /\ l[2] = z /\ l[3] = [bass |-> bass, treble |-> treble]
    BY DEF HandleToneResponse
  <2>. HIDE DEF l
  <2>2. GoodLine(l)
    BY <1>1, <2>1
  <2>. QED  BY <2>2 DEF l
<1>6. \A v : GoodLine(HandleVolumeResponse(z, v))
  BY <1>1 DEF HandleVolumeResponse
<1>7. \A b \in Bands : \A v : GoodLine(HandleEqualizerBandResponse(z, b, v))
  <2> TAKE b \in Bands
  <2> TAKE v
  <2> DEFINE l == HandleEqualizerBandResponse(z, b, v)
  <2>1. l[1] = "band" /\ l[2] = z /\ l[3] = b
    BY DEF HandleEqualizerBandResponse
  <2>. HIDE DEF l
  <2>2. GoodLine(l)
    BY <1>1, <2>1
  <2>. QED  BY <2>2 DEF l
<1>8. \A p \in 1..EqualizerPresetsMax : GoodLine(HandleEqualizerPresetResponse(z, p))
  BY <1>1 DEF HandleEqualizerPresetResponse
<1>9. \A f : GoodLine(HandleHighpassCrossoverResponse(z, f)) /\ GoodLine(HandleLowpassCrossoverResponse(z, f))
  BY <1>1 DEF HandleHighpassCrossoverResponse, HandleLowpassCrossoverResponse
<1>10. \A name \in Names : GoodLine(<<"name", z, name>>)
  BY <1>1
<1>11. \A s \in 1..SourcesMax : GoodLine(<<"source", z, s>>)
  BY <1>1
<1>12. \A fixed \in BOOLEAN : GoodLine(HandleVolumeFixedResponse(z, fixed))
  BY <1>1 DEF HandleVolumeFixedResponse
<1>13. GoodLine(<<"zone query", z>>)
  BY <1>1
<1>. QED  BY <1>2, <1>3, <1>4, <1>5, <1>6, <1>7, <1>8, <1>9, <1>10, <1>11, <1>12, <1>13

\* An outcome whose lines can be heard.
Tells(o) == {"status", "lines"} \subseteq DOMAIN o /\ Told(o.lines)

\* An outcome with a line that can be heard.
LEMMA TellsSaid ==
  ASSUME NEW o, Tells(o), NEW line
  PROVE  /\ (~ Failed(o) => GoodLine(line)) => Tells(Say(line, o))
         /\ (Changed(o) => GoodLine(line)) => Tells(SayIfChanged(line, o))
<1>1. ASSUME GoodLine(line) PROVE Tells([o EXCEPT !.status = "success", !.lines = Append(@, line)])
  <2>1. Told(Append(o.lines, line))
    BY <1>1, ToldLines DEF Tells
  <2>. QED  BY <2>1 DEF Tells
<1>2. (~ Failed(o) => GoodLine(line)) => Tells(Say(line, o))
  BY <1>1 DEF Say
<1>3. Changed(o) => ~ Failed(o)
  BY DEF Changed, Failed
<1>. QED  BY <1>2, <1>3 DEF SayIfChanged

\* Two outcomes, one after the other.
LEMMA TellsJoined ==
  ASSUME NEW o, Tells(o), NEW p, ~ Failed(o) => Tells(p)
  PROVE  Tells(Joined(o, p))
<1>1. CASE Failed(o)
  BY <1>1 DEF Joined
<1>2. CASE ~ Failed(o)
  <2> DEFINE q == [p EXCEPT !.lines = o.lines \o @, !.dirty = o.dirty \/ @]
  <2>1. Told(o.lines \o p.lines) /\ {"status", "lines"} \subseteq DOMAIN p
    BY <1>2, ToldLines DEF Tells
  <2>2. DOMAIN q = DOMAIN p /\ q.lines = o.lines \o p.lines
    BY <2>1
  <2>3. Joined(o, p) = q
    BY <1>2 DEF Joined
  <2>. HIDE DEF q
  <2>. QED  BY <2>1, <2>2, <2>3 DEF Tells
<1>. QED  BY <1>1, <1>2

\* An outcome without a line, or with an error.
LEMMA TellsNothing ==
  /\ \A r : Tells(Stored(r)) /\ Tells([Stored(r) EXCEPT !.dirty = FALSE])
  /\ \A zone, status : Tells(Silent(zone)) /\ Tells(RefuseZone(zone, status))
  /\ \A status, group, zones : Tells(GroupKept(status, group, zones))
  /\ \A zones, r : /\ Tells(StoredGroup(zones, r)) /\ Tells([StoredGroup(zones, r) EXCEPT !.dirty = FALSE])
  /\ \A status, v : Tells(PresetKept(status, v)) /\ Tells(ItemKept(status, v)) /\ Tells(ModelKept(status, v))
  /\ \A r : Tells(StoredPreset(r)) /\ Tells(StoredItem(r)) /\ Tells(StoredModel(r))
<1>1. Told(<<>>)
  BY ToldLines
<1>2. \A o : {"status", "lines"} \subseteq DOMAIN o /\ o.lines = <<>> => Tells(o)
  BY <1>1 DEF Tells
<1>3. \A r : Tells(Stored(r)) /\ Tells([Stored(r) EXCEPT !.dirty = FALSE])
  BY <1>2 DEF Stored
<1>4. \A zone, status : Tells(Silent(zone)) /\ Tells(RefuseZone(zone, status))
  BY <1>2 DEF Silent, RefuseZone
<1>5. \A status, group, zones : Tells(GroupKept(status, group, zones))
  BY <1>2 DEF GroupKept
<1>6. \A zones, r : /\ Tells(StoredGroup(zones, r)) /\ Tells([StoredGroup(zones, r) EXCEPT !.dirty = FALSE])
  BY <1>2 DEF StoredGroup, GroupKept
<1>7. \A status, v : Tells(PresetKept(status, v)) /\ Tells(ItemKept(status, v)) /\ Tells(ModelKept(status, v))
  BY <1>2 DEF PresetKept, ItemKept, ModelKept
<1>8. \A r : Tells(StoredPreset(r)) /\ Tells(StoredItem(r)) /\ Tells(StoredModel(r))
  BY <1>2 DEF StoredPreset, StoredItem, StoredModel, PresetKept, ItemKept, ModelKept
<1>. QED  BY <1>3, <1>4, <1>5, <1>6, <1>7, <1>8

\* What is answered is what the outcome tells.
LEMMA AnswerTold ==
  ASSUME NEW o, Tells(o)
  PROVE  Told(AnswerLines(o))
<1> DEFINE error == <<"error">>
<1>1. error[1] = "error"
  OBVIOUS
<1>. HIDE DEF error
<1>2. GoodLine(error)
  BY <1>1 DEF GoodLine, ZoneKinds, GroupKinds
<1>3. Told(<<error>>)
  BY <1>2, ToldLines
<1>. QED  BY <1>3 DEF error, AnswerLines, Tells

\* Requests for what all zones share with their handlers: mute, source, name.
LEMMA TellsShared ==
  ASSUME NEW zone, NEW z \in 1..ZonesMax
  PROVE  /\ \A mute \in BOOLEAN : /\ Tells(HandleSetMuteConditionally(zone, z, mute))
                                  /\ Tells(HandleSetMuteUnconditionally(zone, z, mute))
         /\ \A mode : /\ Tells(HandleSetSoundModeConditionally(zone, z, mode))
                      /\ Tells(HandleSetSoundModeUnconditionally(zone, z, mode))
<1>1. ASSUME NEW mute \in BOOLEAN
      PROVE  /\ Tells(HandleSetMuteConditionally(zone, z, mute))
             /\ Tells(HandleSetMuteUnconditionally(zone, z, mute))
  <2>1. Tells(SetZoneMute(zone, mute)) /\ GoodLine(HandleMuteResponse(z, mute))
    BY TellsNothing, ZoneLines DEF SetZoneMute
  <2>. QED
    BY <2>1, TellsSaid DEF HandleSetMuteConditionally, HandleSetMuteUnconditionally, HandleSetMute
<1>2. ASSUME NEW mode
      PROVE  /\ Tells(HandleSetSoundModeConditionally(zone, z, mode))
             /\ Tells(HandleSetSoundModeUnconditionally(zone, z, mode))
  <2>1. Tells(Stored(ZoneSetSoundMode(zone, mode))) /\ GoodLine(HandleSoundModeResponse(z, mode))
    BY TellsNothing, ZoneLines
  <2>. QED
    BY <2>1, TellsSaid
    DEF HandleSetSoundModeConditionally, HandleSetSoundModeUnconditionally, HandleSetSoundMode
<1>. QED  BY <1>1, <1>2

\* Requests for the volume of a zone.
LEMMA TellsVolume ==
  ASSUME NEW zone, NEW z \in 1..ZonesMax
  PROVE  /\ Tells(DecreaseVolumeRequest(zone, z)) /\ Tells(IncreaseVolumeRequest(zone, z))
         /\ \A level : Tells(SetVolumeRequest(zone, z, level))
         /\ \A mute \in BOOLEAN : Tells(MuteRequest(zone, z, mute))
         /\ \A toRight : Tells(AdjustBalanceRequest(zone, z, toRight))
         /\ \A balance : Tells(SetBalanceRequest(zone, z, balance))
<1> DEFINE o == HandleSetMuteConditionally(zone, z, FALSE)
<1>1. Tells(o)
  BY TellsShared
<1>2. \A left, by : Tells(HandleAdjustVolumeReceived(left, z, by))
  BY TellsNothing, ZoneLines, TellsSaid DEF HandleAdjustVolumeReceived, AdjustZoneVolume
<1>3. \A left, level : Tells(HandleSetVolumeReceived(left, z, level))
  BY TellsNothing, ZoneLines, TellsSaid DEF HandleSetVolumeReceived, SetZoneVolume
<1>4. \A toRight : Tells(AdjustBalanceRequest(zone, z, toRight))
  BY TellsNothing, ZoneLines, TellsSaid DEF AdjustBalanceRequest, HandleAdjustBalanceReceived
<1>5. \A balance : Tells(SetBalanceRequest(zone, z, balance))
  BY TellsNothing, ZoneLines, TellsSaid DEF SetBalanceRequest, HandleSetBalanceReceived
<1>6. \A mute \in BOOLEAN : Tells(MuteRequest(zone, z, mute))
  BY TellsShared DEF MuteRequest
<1>. QED
  BY <1>1, <1>2, <1>3, <1>4, <1>5, <1>6, TellsJoined
  DEF DecreaseVolumeRequest, IncreaseVolumeRequest, SetVolumeRequest

\* The two bands of a tone.
LEMMA ToneLineTold ==
  ASSUME NEW zone \in Zones, NEW z \in 1..ZonesMax
  PROVE  GoodLine(HandleToneResponse(z, zone.tone))
<1>1. PICK bass, treble : zone.tone = [bass |-> bass, treble |-> treble]
  BY ZoneHas
<1>. QED  BY <1>1, ZoneLines

\* Requests for the tone of a zone.
LEMMA TellsTone ==
  ASSUME NEW zone \in Zones, NEW z \in 1..ZonesMax
  PROVE  /\ Tells(DecreaseBassRequest(zone, z)) /\ Tells(IncreaseBassRequest(zone, z))
         /\ Tells(DecreaseTrebleRequest(zone, z)) /\ Tells(IncreaseTrebleRequest(zone, z))
         /\ \A bass, treble : Tells(SetToneRequest(zone, z, [bass |-> bass, treble |-> treble]))
<1> DEFINE o == HandleSetSoundModeConditionally(zone, z, "tone")
<1>1. Tells(o) /\ o.zone \in Zones
  BY TellsShared, HonestShared DEF Honest, ZoneOutcome
<1>2. \A p : Tells(p) => Tells([p EXCEPT !.status = "null"])
  BY DEF Tells
<1>3. ASSUME NEW left \in Zones, NEW by
      PROVE  Tells(AdjustBassOnly(left, z, by)) /\ Tells(AdjustTrebleOnly(left, z, by))
  <2> DEFINE p == Stored(IF by < 0 THEN ZoneDecreaseBass(left) ELSE ZoneIncreaseBass(left))
             q == Stored(IF by < 0 THEN ZoneDecreaseTreble(left) ELSE ZoneIncreaseTreble(left))
  <2>1. p.zone \in Zones /\ q.zone \in Zones
    BY SoundSetters, HonestSetter DEF Honest, ZoneOutcome
  <2>2. Tells(p) /\ Tells(q)
    BY TellsNothing
  <2>3. GoodLine(HandleToneResponse(z, p.zone.tone)) /\ GoodLine(HandleToneResponse(z, q.zone.tone))
    BY <2>1, ToneLineTold
  <2>4. Tells(AdjustBassOnly(left, z, by))
    BY <1>2, <2>2, <2>3, TellsSaid DEF AdjustBassOnly
  <2>5. Tells(AdjustTrebleOnly(left, z, by))
    BY <1>2, <2>2, <2>3, TellsSaid DEF AdjustTrebleOnly
  <2>. QED  BY <2>4, <2>5
<1>4. ASSUME NEW bass, NEW treble
      PROVE  Tells(SetToneRequest(zone, z, [bass |-> bass, treble |-> treble]))
  <2> DEFINE tone == [bass |-> bass, treble |-> treble]
  <2>1. GoodLine(HandleToneResponse(z, tone))
    BY ZoneLines
  <2>. HIDE DEF tone, o
  <2>2. Tells(Say(HandleToneResponse(z, tone), Stored(ZoneSetTone(o.zone, tone))))
    BY <2>1, TellsNothing, TellsSaid
  <2>. QED  BY <1>1, <2>2, TellsJoined DEF SetToneRequest, tone, o
<1>. QED
  BY <1>1, <1>3, <1>4, TellsJoined
  DEF DecreaseBassRequest, IncreaseBassRequest, DecreaseTrebleRequest, IncreaseTrebleRequest,
      HandleAdjustBassReceived, HandleAdjustTrebleReceived

\* Requests for a band of the equalizer of a zone.
LEMMA TellsBand ==
  ASSUME NEW zone, NEW z \in 1..ZonesMax, NEW b
  PROVE  /\ Tells(DecreaseEqualizerBandRequest(zone, z, b))
         /\ Tells(IncreaseEqualizerBandRequest(zone, z, b))
         /\ \A level : Tells(SetEqualizerBandRequest(zone, z, b, level))
<1> DEFINE o == HandleSetSoundModeConditionally(zone, z, "equalizer")
<1>1. Tells(o)
  BY TellsShared
<1>2. \A left : ~ Failed(ZoneGetEqualizerBand(left, b)) => b \in Bands
  BY DEF ZoneGetEqualizerBand, SoundGetEqualizerBand, GetEqualizerBand, IsValidIdentifier, Failed
<1>3. ASSUME NEW left, NEW by PROVE Tells(AdjustBandOnly(left, z, b, by))
  <2>1. CASE Failed(ZoneGetEqualizerBand(left, b))
    BY <2>1, TellsNothing DEF AdjustBandOnly
  <2>2. CASE ~ Failed(ZoneGetEqualizerBand(left, b))
    <3>1. \A v : GoodLine(HandleEqualizerBandResponse(z, b, v))
      BY <1>2, <2>2, ZoneLines
    <3>. QED  BY <2>2, <3>1, TellsNothing, TellsSaid DEF AdjustBandOnly
  <2>. QED  BY <2>1, <2>2
<1>4. ASSUME NEW left, NEW level PROVE Tells(HandleSetEqualizerBandReceived(left, z, b, level))
  <2>1. CASE Failed(ZoneGetEqualizerBand(left, b))
    BY <2>1, TellsNothing DEF HandleSetEqualizerBandReceived
  <2>2. CASE ~ Failed(ZoneGetEqualizerBand(left, b))
    <3>1. Told(<<HandleEqualizerBandResponse(z, b, level)>>)
      BY <1>2, <2>2, ZoneLines, ToldLines
    <3>2. \A s, v, lines, d : Told(lines) => Tells([status |-> s, zone |-> v, lines |-> lines, dirty |-> d])
      BY DEF Tells
    <3>. QED  BY <2>2, <3>1, <3>2 DEF HandleSetEqualizerBandReceived
  <2>. QED  BY <2>1, <2>2
<1>. QED
  BY <1>1, <1>3, <1>4, TellsJoined
  DEF DecreaseEqualizerBandRequest, IncreaseEqualizerBandRequest,
      HandleAdjustEqualizerBandReceived, SetEqualizerBandRequest

\* Requests for the sound mode of a zone.
LEMMA TellsSoundMode ==
  ASSUME NEW zone, NEW z \in 1..ZonesMax
  PROVE  /\ \A mode : Tells(SetSoundModeRequest(zone, z, mode))
         /\ \A preset : Tells(SetEqualizerPresetRequest(zone, z, preset))
         /\ \A f : Tells(SetHighpassCrossoverRequest(zone, z, f))
         /\ \A f : Tells(SetLowpassCrossoverRequest(zone, z, f))
<1>1. \A mode : Tells(HandleSetSoundModeConditionally(zone, z, mode))
  BY TellsShared
<1>2. \A mode : Tells(SetSoundModeRequest(zone, z, mode))
  BY TellsShared DEF SetSoundModeRequest
<1>3. ASSUME NEW preset PROVE Tells(SetEqualizerPresetRequest(zone, z, preset))
  <2>1. CASE preset \in 1..EqualizerPresetsMax
    <3>1. GoodLine(HandleEqualizerPresetResponse(z, preset))
      BY <2>1, ZoneLines
    <3>. QED
      BY <1>1, <2>1, <3>1, TellsNothing, TellsSaid, TellsJoined
      DEF SetEqualizerPresetRequest, ValidateIdentifier
  <2>2. CASE preset \notin 1..EqualizerPresetsMax
    BY <2>2, TellsNothing DEF SetEqualizerPresetRequest, ValidateIdentifier
  <2>. QED  BY <2>1, <2>2
<1>4. ASSUME NEW f PROVE Tells(SetHighpassCrossoverRequest(zone, z, f))
  BY <1>1, ZoneLines, TellsNothing, TellsSaid, TellsJoined DEF SetHighpassCrossoverRequest
<1>5. ASSUME NEW f PROVE Tells(SetLowpassCrossoverRequest(zone, z, f))
  BY <1>1, ZoneLines, TellsNothing, TellsSaid, TellsJoined DEF SetLowpassCrossoverRequest
<1>. QED  BY <1>2, <1>3, <1>4, <1>5

\* The other requests for a zone.
LEMMA TellsOther ==
  ASSUME NEW zone \in Zones, NEW z \in 1..ZonesMax
  PROVE  /\ \A fixed \in BOOLEAN : Tells(SetVolumeFixedRequest(zone, z, fixed))
         /\ \A s : Tells(SetSourceRequest(zone, z, s))
         /\ \A name \in Names : Tells(SetZoneNameRequest(zone, z, name))
         /\ Tells(ToggleMuteRequest(zone, z))
<1>1. \A fixed \in BOOLEAN : Tells(SetVolumeFixedRequest(zone, z, fixed))
  BY ZoneLines, TellsNothing, TellsSaid DEF SetVolumeFixedRequest
<1>2. ASSUME NEW s PROVE Tells(SetSourceRequest(zone, z, s))
  <2>1. CASE s \in 1..SourcesMax
    <3>1. GoodLine(<<"source", z, s>>) /\ Tells(SetZoneSource(zone, s))
      BY <2>1, ZoneLines, TellsNothing DEF SetZoneSource
    <3>. QED  BY <2>1, <3>1, TellsSaid DEF SetSourceRequest, ValidateIdentifier
  <2>2. CASE s \notin 1..SourcesMax
    BY <2>2, TellsNothing DEF SetSourceRequest, ValidateIdentifier
  <2>. QED  BY <2>1, <2>2
<1>3. ASSUME NEW name \in Names PROVE Tells(SetZoneNameRequest(zone, z, name))
  BY ZoneLines, TellsNothing, TellsSaid DEF SetZoneNameRequest
<1>4. Tells(ToggleMuteRequest(zone, z))
  <2> DEFINE o == ToggleZoneMute(zone)
  <2>1. Tells(o)
    BY TellsNothing DEF ToggleZoneMute
  <2>2. o.status = OutputToggleMute(zone).status /\ o.zone = OutputToggleMute(zone).value
    BY DEF ToggleZoneMute, Stored
  <2>3. ~ Failed(o) => o.zone.mute \in BOOLEAN
    <3>1. "mute" \in DOMAIN zone /\ zone.mute \in BOOLEAN \cup {Null}
      BY ZoneHas
    <3>2. ~ Failed(OutputToggleMute(zone)) => OutputToggleMute(zone).value.mute \in BOOLEAN
      BY <3>1 DEF OutputToggleMute, ToggleMute, SetField, Set, Failed
    <3>. QED  BY <2>2, <3>2 DEF Failed
  <2>. HIDE DEF o
  <2>4. ~ Failed(o) => GoodLine(HandleMuteResponse(z, o.zone.mute))
    BY <2>3, ZoneLines
  <2>. QED  BY <2>1, <2>4, TellsSaid DEF ToggleMuteRequest, o
<1>. QED  BY <1>1, <1>2, <1>3, <1>4

\* What comes before the first that fails, with it, is a beginning of all.
ReachedOf(n, failed) == {z \in 1..n : \A f \in failed : z <= f}

\* The zones that are reached are the first of them.
LEMMA ReachedUpto ==
  ASSUME NEW n \in Nat \ {0}, NEW failed \in SUBSET (1..n)
  PROVE  \E k \in 1..n : /\ ReachedOf(n, failed) = 1..k
                         /\ (CHOOSE z \in 1..k : \A y \in 1..k : y <= z) = k
<1>1. ASSUME NEW k \in 1..n PROVE (CHOOSE z \in 1..k : \A y \in 1..k : y <= z) = k
  <2> DEFINE Latest(z) == z \in 1..k /\ \A y \in 1..k : y <= z
  <2>1. Latest(k)
    OBVIOUS
  <2>2. \A z : Latest(z) => z = k
    OBVIOUS
  <2>. QED  BY <2>1, <2>2
<1>2. CASE failed = {}
  <2>1. n \in 1..n /\ ReachedOf(n, failed) = 1..n
    BY <1>2 DEF ReachedOf
  <2>. QED  BY <1>1, <2>1
<1>3. CASE failed # {}
  <2>1. PICK k \in failed : \A f \in failed : k <= f
    <3>1. failed \in SUBSET Nat
      OBVIOUS
    <3>. QED  BY <1>3, <3>1, LeastNatural
  <2>2. ReachedOf(n, failed) = 1..k
    <3>1. \A z \in 1..n : (\A f \in failed : z <= f) <=> z <= k
      BY <2>1
    <3>. QED  BY <3>1 DEF ReachedOf
  <2>. QED  BY <1>1, <2>1, <2>2
<1>. QED  BY <1>2, <1>3

\* What each zone of a sequence tells, they all tell.
LEMMA TellsEach ==
  ASSUME NEW zones \in ZoneLists, NEW o, \A z \in 1..ZonesMax : Tells(o[z])
  PROVE  Tells(EachZone(zones, o))
<1> DEFINE failed == {z \in DOMAIN zones : Failed(o[z])}
           reached == {z \in DOMAIN zones : \A f \in failed : z <= f}
           last == CHOOSE z \in reached : \A y \in reached : y <= z
           seqs(k) == [z \in 1..k |-> o[z].lines]
<1>1. DOMAIN zones = 1..ZonesMax /\ ZonesMax \in Nat \ {0}
  BY RangesAssumption DEF ZoneLists
<1>2. failed \in SUBSET (1..ZonesMax)
  BY <1>1
<1>3. PICK k \in 1..ZonesMax : reached = 1..k /\ last = k
  <2>1. reached = ReachedOf(ZonesMax, failed)
    BY <1>1 DEF ReachedOf
  <2>. HIDE DEF failed
  <2>2. PICK k \in 1..ZonesMax : /\ ReachedOf(ZonesMax, failed) = 1..k
                                 /\ (CHOOSE z \in 1..k : \A y \in 1..k : y <= z) = k
    <3>1. ZonesMax \in Nat \ {0}
      BY <1>1
    <3>. QED  BY <3>1, <1>2, ReachedUpto, Zenon
  <2>. HIDE DEF reached
  <2>3. reached = 1..k
    BY <2>1, <2>2
  <2>. QED  BY <2>2, <2>3
<1>4. \A i \in 1..k : Told(o[i].lines)
  BY <1>1, <1>3 DEF Tells
<1>5. Told(FlattenSeq(seqs(k)))
  <2>1. seqs(k) = [i \in 1..k |-> seqs(k)[i]] /\ \A i \in 1..k : Told(seqs(k)[i])
    BY <1>4
  <2>2. k \in Nat
    BY <1>1, <1>3
  <2>. HIDE DEF seqs
  <2>. QED  BY <2>1, <2>2, FlatTold
<1>6. EachZone(zones, o).lines = FlattenSeq(seqs(last))
  BY DEF EachZone
<1>7. {"status", "lines"} \subseteq DOMAIN EachZone(zones, o)
  BY DEF EachZone
<1>. HIDE DEF last, seqs
<1>. QED  BY <1>3, <1>5, <1>6, <1>7 DEF Tells

\* Requests for all zones.
LEMMA TellsAll ==
  ASSUME NEW zones \in ZoneLists
  PROVE  /\ \A level : Tells(SetVolumeAllRequest(zones, level))
         /\ \A s : Tells(SetSourceAllRequest(zones, s))
<1>1. DOMAIN zones = 1..ZonesMax
  BY DEF ZoneLists
<1>2. ASSUME NEW level PROVE Tells(SetVolumeAllRequest(zones, level))
  <2> DEFINE unmuted == [z \in DOMAIN zones |-> HandleSetMuteConditionally(zones[z], z, FALSE)]
             o == [z \in DOMAIN zones |-> Joined(unmuted[z], SetZoneVolume(unmuted[z].zone, level))]
             line == <<"volume all", level>>
  <2>1. ASSUME NEW z \in 1..ZonesMax PROVE Tells(o[z])
    <3>1. Tells(unmuted[z])
      BY <1>1, TellsShared
    <3>2. Tells(SetZoneVolume(unmuted[z].zone, level))
      BY TellsNothing DEF SetZoneVolume
    <3>. HIDE DEF unmuted
    <3>. QED  BY <1>1, <3>1, <3>2, TellsJoined
  <2>2. SetVolumeAllRequest(zones, level) = Say(line, EachZone(zones, o))
    BY DEF SetVolumeAllRequest
  <2>3. GoodLine(line)
    <3>1. line[1] = "volume all"
      OBVIOUS
    <3>. HIDE DEF line
    <3>. QED  BY <3>1 DEF GoodLine, ZoneKinds, GroupKinds
  <2>. HIDE DEF o, line
  <2>. QED  BY <2>1, <2>2, <2>3, TellsEach, TellsSaid
<1>3. ASSUME NEW s PROVE Tells(SetSourceAllRequest(zones, s))
  <2> DEFINE o == [z \in DOMAIN zones |-> SetZoneSource(zones[z], s)]
             line == <<"source all", s>>
             refused == [status |-> "range", zones |-> zones, lines |-> <<>>, dirty |-> FALSE]
  <2>1. CASE s \in 1..SourcesMax
    <3>1. \A z \in 1..ZonesMax : Tells(o[z])
      BY <1>1, TellsNothing DEF SetZoneSource
    <3>2. SetSourceAllRequest(zones, s) = Say(line, EachZone(zones, o))
      BY <2>1 DEF SetSourceAllRequest, ValidateIdentifier
    <3>3. GoodLine(line)
      <4>1. line[1] = "source all" /\ line[2] = s
        OBVIOUS
      <4>. HIDE DEF line
      <4>. QED  BY <2>1, <4>1 DEF GoodLine, ZoneKinds, GroupKinds
    <3>. HIDE DEF o, line
    <3>. QED  BY <3>1, <3>2, <3>3, TellsEach, TellsSaid
  <2>2. CASE s \notin 1..SourcesMax
    <3>1. SetSourceAllRequest(zones, s) = refused
      BY <2>2 DEF SetSourceAllRequest, ValidateIdentifier
    <3>2. Tells(refused)
      BY ToldLines DEF Tells
    <3>. QED  BY <3>1, <3>2
  <2>. QED  BY <2>1, <2>2
<1>. QED  BY <1>2, <1>3

\* All requests to the controller of the zones.
LEMMA TellsZoneRequests ==
  ASSUME NEW zone \in Zones, NEW z \in 1..ZonesMax, NEW r \in ZoneRequests(zone, z)
  PROVE  Tells(r.does)
<1>1. CASE r \in BandRequests(zone, z)
  <2>1. \/ \E b : r.does = DecreaseEqualizerBandRequest(zone, z, b)
        \/ \E b : r.does = IncreaseEqualizerBandRequest(zone, z, b)
        \/ \E b, level : r.does = SetEqualizerBandRequest(zone, z, b, level)
    BY <1>1, AskDoes DEF BandRequests
  <2>. QED  BY <2>1, TellsBand
<1>2. CASE r \in ToneRequests(zone, z)
  <2>1. \/ r.does \in {DecreaseBassRequest(zone, z), IncreaseBassRequest(zone, z)}
        \/ r.does \in {DecreaseTrebleRequest(zone, z), IncreaseTrebleRequest(zone, z)}
        \/ \E bass, treble \in Tried(Tones) :
             r = Ask(C!SetTone(z), P!ZoneVolumeRequests.SetTone,
                     SetToneRequest(zone, z, [bass |-> bass, treble |-> treble]))
    BY <1>2, AskDoes DEF ToneRequests
  <2>2. ASSUME NEW bass, NEW treble,
               r = Ask(C!SetTone(z), P!ZoneVolumeRequests.SetTone,
                       SetToneRequest(zone, z, [bass |-> bass, treble |-> treble]))
        PROVE  Tells(r.does)
    <3>1. r.does = SetToneRequest(zone, z, [bass |-> bass, treble |-> treble])
      BY <2>2, AskDoes
    <3>. QED  BY <3>1, TellsTone
  <2>. QED  BY <2>1, <2>2, TellsTone
<1>3. CASE r \in SoundModeRequests(zone, z)
  <2>1. \/ \E mode : r.does = SetSoundModeRequest(zone, z, mode)
        \/ \E p : r.does = SetEqualizerPresetRequest(zone, z, p)
        \/ \E f : r.does = SetHighpassCrossoverRequest(zone, z, f)
        \/ \E f : r.does = SetLowpassCrossoverRequest(zone, z, f)
    BY <1>3, AskDoes DEF SoundModeRequests
  <2>. QED  BY <2>1, TellsSoundMode
<1>4. CASE r \in BalanceRequests(zone, z)
  <2> DEFINE left == AdjustBalanceRequest(zone, z, FALSE)
             right == AdjustBalanceRequest(zone, z, TRUE)
  <2>1. Tells(left) /\ Tells(right)
    BY TellsVolume
  <2>2. r \in {Ask(C!IncreaseBalanceLeft(z), P!ZoneToneRequests.AdjustBalance, left),
              Ask(C!IncreaseBalanceRight(z), P!ZoneToneRequests.AdjustBalance, right)}
          \cup {Ask(C!SetBalance(z), P!ZoneEqualizerRequests.SetBalance,
                    SetBalanceRequest(zone, z, balance)) : balance \in Tried(Balances)}
    BY <1>4, Zenon DEF BalanceRequests
  <2>. HIDE DEF left, right
  <2>. QED  BY <2>1, <2>2, AskDoes, TellsVolume
<1>5. CASE r \in VolumeRequests(zone, z)
  <2>1. \/ r.does \in {DecreaseVolumeRequest(zone, z), IncreaseVolumeRequest(zone, z)}
        \/ \E level : r.does = SetVolumeRequest(zone, z, level)
        \/ \E mute \in BOOLEAN : r.does = MuteRequest(zone, z, mute)
    BY <1>5, AskDoes DEF VolumeRequests
  <2>. QED  BY <2>1, TellsVolume
<1>6. CASE r \in OtherZoneRequests(zone, z)
  <2>1. \/ \E fixed \in BOOLEAN : r.does = SetVolumeFixedRequest(zone, z, fixed)
        \/ \E s : r.does = SetSourceRequest(zone, z, s)
        \/ \E name \in Names : r.does = SetZoneNameRequest(zone, z, name)
    BY <1>6, AskDoes DEF OtherZoneRequests
  <2>. QED  BY <2>1, TellsOther
<1>. QED  BY <1>1, <1>2, <1>3, <1>4, <1>5, <1>6 DEF ZoneRequests

-----------------------------------------------------------------------------
(***************************************************************************)
(* What the server tells of groups and of everything else.                 *)
(***************************************************************************)
\* The lines of an answer about what is not a zone.
LEMMA GroupLines ==
  ASSUME NEW g \in 1..GroupsMax
  PROVE  /\ \A mute \in BOOLEAN : GoodLine(HandleSetMuteResponse(g, mute))
         /\ \A by : GoodLine(HandleAdjustVolumeResponse(g, by))
         /\ \A v : GoodLine(HandleSetVolumeResponse(g, v))
         /\ GoodLine(HandleToggleMuteResponse(g)) /\ GoodLine(<<"group query", g>>)
         /\ \A s \in 1..SourcesMax : GoodLine(<<"group source", g, s>>)
         /\ \A z \in 1..ZonesMax : /\ GoodLine(<<"group zone added", g, z>>)
                                   /\ GoodLine(<<"group zone removed", g, z>>)
         /\ \A name \in Names : GoodLine(<<"group name", g, name>>)
<1>1. ASSUME NEW l, l[2] = g
      PROVE  /\ l[1] \in {"group volume up", "group volume down", "group volume",
                          "group mute toggle", "group query"} => GoodLine(l)
             /\ l[1] = "group mute" /\ l[3] \in BOOLEAN => GoodLine(l)
             /\ l[1] = "group source" /\ l[3] \in 1..SourcesMax => GoodLine(l)
             /\ l[1] \in {"group zone added", "group zone removed"} /\ l[3] \in 1..ZonesMax => GoodLine(l)
             /\ l[1] = "group name" /\ l[3] \in Names => GoodLine(l)
  <2>1. l[1] \in {"group volume up", "group volume down", "group volume",
                  "group mute toggle", "group query"} => GoodLine(l)
    BY <1>1 DEF GoodLine, ZoneKinds, GroupKinds
  <2>2. l[1] = "group mute" /\ l[3] \in BOOLEAN => GoodLine(l)
    BY <1>1 DEF GoodLine, ZoneKinds, GroupKinds
  <2>3. l[1] = "group source" /\ l[3] \in 1..SourcesMax => GoodLine(l)
    BY <1>1 DEF GoodLine, ZoneKinds, GroupKinds
  <2>4. l[1] \in {"group zone added", "group zone removed"} /\ l[3] \in 1..ZonesMax => GoodLine(l)
    BY <1>1 DEF GoodLine, ZoneKinds, GroupKinds
  <2>5. l[1] = "group name" /\ l[3] \in Names => GoodLine(l)
    BY <1>1 DEF GoodLine, ZoneKinds, GroupKinds
  <2>. QED  BY <2>1, <2>2, <2>3, <2>4, <2>5
<1>2. \A mute \in BOOLEAN : GoodLine(HandleSetMuteResponse(g, mute))
  BY <1>1 DEF HandleSetMuteResponse
<1>3. \A by : GoodLine(HandleAdjustVolumeResponse(g, by))
  BY <1>1 DEF HandleAdjustVolumeResponse
<1>4. \A v : GoodLine(HandleSetVolumeResponse(g, v))
  BY <1>1 DEF HandleSetVolumeResponse
<1>5. GoodLine(HandleToggleMuteResponse(g)) /\ GoodLine(<<"group query", g>>)
  BY <1>1 DEF HandleToggleMuteResponse
<1>6. \A s \in 1..SourcesMax : GoodLine(<<"group source", g, s>>)
  BY <1>1
<1>7. \A z \in 1..ZonesMax : /\ GoodLine(<<"group zone added", g, z>>)
                             /\ GoodLine(<<"group zone removed", g, z>>)
  BY <1>1
<1>8. \A name \in Names : GoodLine(<<"group name", g, name>>)
  BY <1>1
<1>. QED  BY <1>2, <1>3, <1>4, <1>5, <1>6, <1>7, <1>8

\* The lines about the other controllers.
LEMMA OtherLines ==
  /\ \A p \in 1..EqualizerPresetsMax :
       /\ \A b \in Bands : \A v : GoodLine(HandleBandResponse(p, b, v))
       /\ \A name \in Names : GoodLine(<<"preset name", p, name>>)
       /\ GoodLine(<<"preset query", p>>)
  /\ \A f \in 1..FavoritesMax : /\ \A name \in Names : GoodLine(<<"favorite name", f, name>>)
                                /\ GoodLine(<<"favorite query", f>>)
  /\ \A s \in 1..SourcesMax : \A name \in Names : GoodLine(<<"source name", s, name>>)
  /\ \A v : GoodLine(HandleBrightnessResponse(v))
  /\ \A b \in BOOLEAN : /\ GoodLine(HandleLockedResponse(b)) /\ GoodLine(HandleDisabledResponse(b))
                        /\ GoodLine(HandleDHCPv4EnabledResponse(b))
                        /\ GoodLine(HandleSDDPEnabledResponse(b))
  /\ \A word \in {"network query", "current configuration", "saving", "saved", "error", "loaded",
                  "reset", "group zones cleared"} : GoodLine(<<word>>)
<1>1. ASSUME NEW l, NEW p \in 1..EqualizerPresetsMax, l[2] = p
      PROVE  /\ l[1] = "preset band" /\ l[3] \in Bands => GoodLine(l)
             /\ l[1] = "preset name" /\ l[3] \in Names => GoodLine(l)
             /\ l[1] = "preset query" => GoodLine(l)
  BY <1>1 DEF GoodLine, ZoneKinds, GroupKinds
<1>2. ASSUME NEW l
      PROVE  /\ l[1] = "favorite name" /\ l[2] \in 1..FavoritesMax /\ l[3] \in Names => GoodLine(l)
             /\ l[1] = "source name" /\ l[2] \in 1..SourcesMax /\ l[3] \in Names => GoodLine(l)
             /\ l[1] \in {"brightness", "favorite query"} => GoodLine(l)
             /\ l[1] \in {"locked", "disabled", "dhcp", "sddp"} /\ l[2] \in BOOLEAN => GoodLine(l)
             /\ l[1] \in {"network query", "current configuration", "saving", "saved", "error", "loaded",
                          "reset", "group zones cleared"} => GoodLine(l)
  <2>1. l[1] = "favorite name" /\ l[2] \in 1..FavoritesMax /\ l[3] \in Names => GoodLine(l)
    BY DEF GoodLine, ZoneKinds, GroupKinds
  <2>2. l[1] = "source name" /\ l[2] \in 1..SourcesMax /\ l[3] \in Names => GoodLine(l)
    BY DEF GoodLine, ZoneKinds, GroupKinds
  <2>3. l[1] \in {"brightness", "favorite query"} => GoodLine(l)
    BY DEF GoodLine, ZoneKinds, GroupKinds
  <2>4. l[1] \in {"locked", "disabled", "dhcp", "sddp"} /\ l[2] \in BOOLEAN => GoodLine(l)
    BY DEF GoodLine, ZoneKinds, GroupKinds
  <2>5. l[1] \in {"network query", "current configuration", "saving", "saved", "error", "loaded",
                  "reset", "group zones cleared"} => GoodLine(l)
    BY DEF GoodLine, ZoneKinds, GroupKinds
  <2>. QED  BY <2>1, <2>2, <2>3, <2>4, <2>5
<1>3. ASSUME NEW p \in 1..EqualizerPresetsMax
      PROVE  /\ \A b \in Bands : \A v : GoodLine(HandleBandResponse(p, b, v))
             /\ \A name \in Names : GoodLine(<<"preset name", p, name>>)
             /\ GoodLine(<<"preset query", p>>)
  <2>1. ASSUME NEW b \in Bands, NEW v PROVE GoodLine(HandleBandResponse(p, b, v))
    <3> DEFINE l == HandleBandResponse(p, b, v)
    <3>1. l[1] = "preset band" /\ l[2] = p /\ l[3] = b
      BY DEF HandleBandResponse
    <3>. HIDE DEF l
    <3>2. GoodLine(l)
      BY <1>1, <3>1
    <3>. QED  BY <3>2 DEF l
  <2>2. ASSUME NEW name \in Names PROVE GoodLine(<<"preset name", p, name>>)
    <3> DEFINE l == <<"preset name", p, name>>
    <3>1. l[1] = "preset name" /\ l[2] = p /\ l[3] = name
      OBVIOUS
    <3>. HIDE DEF l
    <3>2. GoodLine(l)
      BY <1>1, <3>1
    <3>. QED  BY <3>2 DEF l
  <2>3. GoodLine(<<"preset query", p>>)
    <3> DEFINE l == <<"preset query", p>>
    <3>1. l[1] = "preset query" /\ l[2] = p
      OBVIOUS
    <3>. HIDE DEF l
    <3>2. GoodLine(l)
      BY <1>1, <3>1
    <3>. QED  BY <3>2 DEF l
  <2>. QED  BY <2>1, <2>2, <2>3
<1>4. ASSUME NEW f \in 1..FavoritesMax
      PROVE  /\ \A name \in Names : GoodLine(<<"favorite name", f, name>>)
             /\ GoodLine(<<"favorite query", f>>)
  BY <1>2
<1>5. ASSUME NEW s \in 1..SourcesMax PROVE \A name \in Names : GoodLine(<<"source name", s, name>>)
  BY <1>2
<1>6. \A v : GoodLine(HandleBrightnessResponse(v))
  BY <1>2 DEF HandleBrightnessResponse
<1>7. \A b \in BOOLEAN : GoodLine(HandleLockedResponse(b)) /\ GoodLine(HandleDisabledResponse(b))
  BY <1>2 DEF HandleLockedResponse, HandleDisabledResponse
<1>8. \A b \in BOOLEAN : GoodLine(HandleDHCPv4EnabledResponse(b)) /\ GoodLine(HandleSDDPEnabledResponse(b))
  BY <1>2 DEF HandleDHCPv4EnabledResponse, HandleSDDPEnabledResponse
<1>9. \A word \in {"network query", "current configuration", "saving", "saved", "error", "loaded",
                   "reset", "group zones cleared"} : GoodLine(<<word>>)
  BY <1>2
<1>. QED  BY <1>3, <1>4, <1>5, <1>6, <1>7, <1>8, <1>9

\* Requests to the controller of the groups.
LEMMA TellsGroup ==
  ASSUME NEW group, NEW zones, NEW g \in 1..GroupsMax
  PROVE  /\ \A mute \in BOOLEAN : Tells(MuteGroupRequest(group, zones, g, mute))
         /\ Tells(DecreaseGroupVolumeRequest(group, zones, g))
         /\ Tells(IncreaseGroupVolumeRequest(group, zones, g))
         /\ \A level : Tells(SetGroupVolumeRequest(group, zones, g, level))
         /\ \A s : Tells(SetGroupSourceRequest(group, zones, g, s))
         /\ Tells(ToggleGroupMuteRequest(group, zones, g))
         /\ \A z : /\ Tells(AddZoneRequest(group, zones, g, z))
                   /\ Tells(RemoveZoneRequest(group, zones, g, z))
         /\ \A name \in Names : Tells(SetGroupNameRequest(group, zones, g, name))
<1>1. ASSUME NEW o PROVE Tells(ShouldDoForGroupZones(group, zones, o))
  <2>1. \A status, left, d : Tells([GroupKept(status, group, left) EXCEPT !.dirty = d])
    <3>1. Told(<<>>)
      BY ToldLines
    <3>. QED  BY <3>1 DEF Tells, GroupKept
  <2>. QED  BY <2>1, TellsNothing DEF ShouldDoForGroupZones
<1>2. ASSUME NEW mute \in BOOLEAN PROVE Tells(MuteGroupRequest(group, zones, g, mute))
  <2>1. GoodLine(HandleSetMuteResponse(g, mute))
    BY GroupLines
  <2>. QED  BY <2>1, TellsNothing, TellsSaid DEF MuteGroupRequest
<1>3. \A by : Tells(HandleAdjustGroupVolume(group, zones, g, by))
  BY <1>1, GroupLines, TellsSaid DEF HandleAdjustGroupVolume
<1>4. \A level : Tells(SetGroupVolumeRequest(group, zones, g, level))
  BY <1>1, GroupLines, TellsSaid DEF SetGroupVolumeRequest
<1>5. ASSUME NEW s PROVE Tells(SetGroupSourceRequest(group, zones, g, s))
  <2>1. CASE s \in 1..SourcesMax
    <3>1. GoodLine(<<"group source", g, s>>)
      BY <2>1, GroupLines
    <3>. QED  BY <1>1, <2>1, <3>1, TellsSaid DEF SetGroupSourceRequest, ValidateIdentifier
  <2>2. CASE s \notin 1..SourcesMax
    BY <2>2, TellsNothing DEF SetGroupSourceRequest, ValidateIdentifier
  <2>. QED  BY <2>1, <2>2
<1>6. Tells(ToggleGroupMuteRequest(group, zones, g))
  BY <1>1, GroupLines, TellsSaid DEF ToggleGroupMuteRequest
<1>7. ASSUME NEW z
      PROVE  Tells(AddZoneRequest(group, zones, g, z)) /\ Tells(RemoveZoneRequest(group, zones, g, z))
  <2>1. CASE z \in 1..ZonesMax
    <3>1. GoodLine(<<"group zone added", g, z>>) /\ GoodLine(<<"group zone removed", g, z>>)
      BY <2>1, GroupLines
    <3>. QED
      BY <2>1, <3>1, TellsNothing, TellsSaid DEF AddZoneRequest, RemoveZoneRequest, ValidateIdentifier
  <2>2. CASE z \notin 1..ZonesMax
    BY <2>2, TellsNothing DEF AddZoneRequest, RemoveZoneRequest, ValidateIdentifier
  <2>. QED  BY <2>1, <2>2
<1>8. ASSUME NEW name \in Names PROVE Tells(SetGroupNameRequest(group, zones, g, name))
  <2>1. GoodLine(<<"group name", g, name>>)
    BY GroupLines
  <2>. QED  BY <2>1, TellsNothing, TellsSaid DEF SetGroupNameRequest
<1>. QED
  BY <1>2, <1>3, <1>4, <1>5, <1>6, <1>7, <1>8
  DEF DecreaseGroupVolumeRequest, IncreaseGroupVolumeRequest

\* Requests to the controller of the equalizer presets.
LEMMA TellsPreset ==
  ASSUME NEW preset, NEW p \in 1..EqualizerPresetsMax, NEW r \in PresetRequests(preset, p)
  PROVE  Tells(r.does)
<1>1. ASSUME NEW b, NEW v PROVE b \in Bands => Tells(AnswerBand(preset, p, b, v))
  BY OtherLines, TellsNothing, TellsSaid DEF AnswerBand
<1>2. ASSUME NEW b
      PROVE  /\ \A by : Tells(HandleAdjustBandReceived(preset, p, b, by))
             /\ \A level : Tells(HandleSetBandReceived(preset, p, b, level))
  <2>1. CASE Failed(PresetGetEqualizerBand(preset, b))
    BY <2>1, TellsNothing DEF HandleAdjustBandReceived, HandleSetBandReceived
  <2>2. CASE ~ Failed(PresetGetEqualizerBand(preset, b))
    <3>1. b \in Bands
      BY <2>2 DEF PresetGetEqualizerBand, GetEqualizerBand, IsValidIdentifier, Failed
    <3>. QED  BY <1>1, <2>2, <3>1 DEF HandleAdjustBandReceived, HandleSetBandReceived
  <2>. QED  BY <2>1, <2>2
<1>3. ASSUME NEW name \in Names PROVE Tells(SetPresetNameRequest(preset, p, name))
  <2>1. GoodLine(<<"preset name", p, name>>)
    BY OtherLines
  <2>. QED  BY <2>1, TellsNothing, TellsSaid DEF SetPresetNameRequest
<1>4. \/ \E b : r.does \in {DecreaseBandRequest(preset, p, b), IncreaseBandRequest(preset, p, b)}
      \/ \E b, level : r.does = SetBandRequest(preset, p, b, level)
      \/ \E name \in Names : r.does = SetPresetNameRequest(preset, p, name)
  BY AskDoes DEF PresetRequests
<1>. QED
  BY <1>2, <1>3, <1>4 DEF DecreaseBandRequest, IncreaseBandRequest, SetBandRequest

\* Requests to the other controllers.
LEMMA TellsModels ==
  /\ \A item : \A f \in 1..FavoritesMax : \A r \in FavoriteRequests(item, f) : Tells(r.does)
  /\ \A item : \A s \in 1..SourcesMax : \A r \in SourceRequests(item, s) : Tells(r.does)
  /\ \A panel : \A r \in PanelRequests(panel) : Tells(r.does)
  /\ \A infrared : \A r \in InfraredRequests(infrared) : Tells(r.does)
  /\ \A network : \A o \in NetworkRequests(network) : Tells(o)
<1>1. ASSUME NEW item, NEW f \in 1..FavoritesMax, NEW r \in FavoriteRequests(item, f) PROVE Tells(r.does)
  <2>1. PICK name \in Names : r.does = SetFavoriteNameRequest(item, f, name)
    BY AskDoes DEF FavoriteRequests
  <2>2. GoodLine(<<"favorite name", f, name>>)
    BY OtherLines
  <2>. QED  BY <2>1, <2>2, TellsNothing, TellsSaid DEF SetFavoriteNameRequest
<1>2. ASSUME NEW item, NEW s \in 1..SourcesMax, NEW r \in SourceRequests(item, s) PROVE Tells(r.does)
  <2>1. PICK name \in Names : r.does = SetSourceNameRequest(item, s, name)
    BY AskDoes DEF SourceRequests
  <2>2. GoodLine(<<"source name", s, name>>)
    BY OtherLines
  <2>. QED  BY <2>1, <2>2, TellsNothing, TellsSaid DEF SetSourceNameRequest
<1>3. ASSUME NEW panel, NEW r \in PanelRequests(panel) PROVE Tells(r.does)
  <2>1. \/ \E b : r.does = SetBrightnessRequest(panel, b)
        \/ \E b \in BOOLEAN : r.does = SetLockedRequest(panel, b)
    BY AskDoes DEF PanelRequests
  <2>. QED  BY <2>1, OtherLines, TellsNothing, TellsSaid DEF SetBrightnessRequest, SetLockedRequest
<1>4. ASSUME NEW infrared, NEW r \in InfraredRequests(infrared) PROVE Tells(r.does)
  <2>1. \E b \in BOOLEAN : r.does = SetDisabledRequest(infrared, b)
    BY AskDoes DEF InfraredRequests
  <2>. QED  BY <2>1, OtherLines, TellsNothing, TellsSaid DEF SetDisabledRequest
<1>5. ASSUME NEW network, NEW o \in NetworkRequests(network) PROVE Tells(o)
  <2>1. \/ \E b \in BOOLEAN : o = SetDHCPv4EnabledRequest(network, b)
        \/ \E b \in BOOLEAN : o = SetSDDPEnabledRequest(network, b)
    BY DEF NetworkRequests
  <2>. QED
    BY <2>1, OtherLines, TellsNothing, TellsSaid DEF SetDHCPv4EnabledRequest, SetSDDPEnabledRequest
<1>. QED  BY <1>1, <1>2, <1>3, <1>4, <1>5

-----------------------------------------------------------------------------
(***************************************************************************)
(* What the server tells when it is asked.                                 *)
(***************************************************************************)
\* A line for each of a sequence.
LEMMA ToldEach ==
  ASSUME NEW n \in Nat, NEW lines, lines = [i \in 1..n |-> lines[i]],
         \A i \in 1..n : GoodLine(lines[i])
  PROVE  Told(lines)
<1> DEFINE S == {lines[i] : i \in 1..n}
<1>1. \A i \in 1..n : lines[i] \in S
  OBVIOUS
<1>2. \A l \in S : GoodLine(l)
  OBVIOUS
<1>. HIDE DEF S
<1>3. lines \in [1..n -> S]
  BY <1>1
<1>4. lines \in Seq(S)
  BY <1>3, SeqDef
<1>. QED  BY <1>2, <1>4, ToldIn

\* The answer to a query is the line of a value that is known.
LEMMA TellsKnown ==
  ASSUME NEW zone, NEW get, NEW line, ~ Failed(get) => GoodLine(line)
  PROVE  Tells(AnswerKnown(zone, get, line))
<1>1. \A lines : Told(lines) => Tells([Silent(zone) EXCEPT !.lines = lines])
  BY DEF Tells, Silent
<1>2. GoodLine(line) => Told(<<line>>)
  BY ToldLines
<1>. QED  BY <1>1, <1>2, TellsNothing DEF AnswerKnown

\* What is told of a zone has the values of the zone.
LEMMA KnownValues ==
  ASSUME NEW zone \in Zones
  PROVE  /\ ~ Failed(OutputGetName(zone)) => zone.name \in Names
         /\ ~ Failed(ZoneGetSource(zone)) => zone.source \in 1..SourcesMax
         /\ ~ Failed(OutputGetMute(zone)) => zone.mute \in BOOLEAN
         /\ ~ Failed(ZoneGetVolumeFixed(zone)) => zone.fixed \in BOOLEAN
         /\ ~ Failed(ZoneGetEqualizerPreset(zone)) => zone.preset \in 1..EqualizerPresetsMax
<1>1. \A v : ~ Failed(Get(v)) => v # Null
  BY DEF Get, Failed
<1>2. KeptNames \subseteq Names
  BY DEF KeptNames
<1>3. ~ Failed(OutputGetName(zone)) => zone.name \in Names
  BY <1>1, <1>2, ZoneHas DEF OutputGetName, GetName
<1>4. ~ Failed(ZoneGetSource(zone)) => zone.source \in 1..SourcesMax
  BY <1>1, ZoneHas DEF ZoneGetSource, GetIdentifier
<1>5. ~ Failed(OutputGetMute(zone)) => zone.mute \in BOOLEAN
  BY <1>1, ZoneHas DEF OutputGetMute, GetMute
<1>6. ~ Failed(ZoneGetVolumeFixed(zone)) => zone.fixed \in BOOLEAN
  BY <1>1, ZoneHas DEF ZoneGetVolumeFixed, GetFixed
<1>7. ~ Failed(ZoneGetEqualizerPreset(zone)) => zone.preset \in 1..EqualizerPresetsMax
  BY <1>1, ZoneHas DEF ZoneGetEqualizerPreset, SoundGetEqualizerPreset, GetIdentifier
<1>. QED  BY <1>3, <1>4, <1>5, <1>6, <1>7

\* The answers to the queries for the values of a zone.
LEMMA TellsZoneParts ==
  ASSUME NEW zone \in Zones, NEW z \in 1..ZonesMax
  PROVE  /\ Tells(HandleQueryNameReceived(zone, z)) /\ Tells(HandleQuerySource(zone, z))
         /\ Tells(HandleQueryVolume(zone, z)) /\ Tells(HandleQueryVolumeFixed(zone, z))
         /\ Tells(HandleQueryMute(zone, z)) /\ Tells(HandleQueryBalanceReceived(zone, z))
         /\ Tells(HandleQueryTone(zone, z)) /\ Tells(HandleQueryEqualizerPreset(zone, z))
         /\ Tells(HandleQueryLowpassCrossover(zone, z)) /\ Tells(HandleQueryHighpassCrossover(zone, z))
<1>1. Tells(HandleQueryNameReceived(zone, z))
  BY KnownValues, ZoneLines, TellsKnown DEF HandleQueryNameReceived
<1>2. Tells(HandleQuerySource(zone, z))
  BY KnownValues, ZoneLines, TellsKnown DEF HandleQuerySource
<1>3. Tells(HandleQueryVolume(zone, z))
  BY ZoneLines, TellsKnown DEF HandleQueryVolume
<1>4. Tells(HandleQueryVolumeFixed(zone, z))
  BY KnownValues, ZoneLines, TellsKnown DEF HandleQueryVolumeFixed
<1>5. Tells(HandleQueryMute(zone, z))
  BY KnownValues, ZoneLines, TellsKnown DEF HandleQueryMute
<1>6. Tells(HandleQueryBalanceReceived(zone, z))
  BY ZoneLines, TellsKnown DEF HandleQueryBalanceReceived
<1>7. Tells(HandleQueryTone(zone, z))
  BY ToneLineTold, TellsKnown DEF HandleQueryTone
<1>8. Tells(HandleQueryEqualizerPreset(zone, z))
  BY KnownValues, ZoneLines, TellsKnown DEF HandleQueryEqualizerPreset
<1>9. Tells(HandleQueryLowpassCrossover(zone, z)) /\ Tells(HandleQueryHighpassCrossover(zone, z))
  BY ZoneLines, TellsKnown DEF HandleQueryLowpassCrossover, HandleQueryHighpassCrossover
<1>. QED  BY <1>1, <1>2, <1>3, <1>4, <1>5, <1>6, <1>7, <1>8, <1>9

\* The answers to the queries for the equalizer of a zone.
LEMMA TellsEqualizer ==
  ASSUME NEW zone, NEW z \in 1..ZonesMax
  PROVE  Tells(HandleQueryZoneEqualizer(zone, z))
<1> DEFINE level == [b \in Bands |-> GetLevel(ZoneGetEqualizerBand(zone, b).value)]
           lines == [b \in Bands |-> HandleEqualizerBandResponse(z, b, level[b].value)]
<1>1. CASE \E b \in Bands : Failed(level[b])
  BY <1>1, TellsNothing DEF HandleQueryZoneEqualizer
<1>2. CASE ~ \E b \in Bands : Failed(level[b])
  <2>1. HandleQueryZoneEqualizer(zone, z) = [Silent(zone) EXCEPT !.lines = lines]
    BY <1>2 DEF HandleQueryZoneEqualizer
  <2>2. Bands = 1..EqualizerBandsMax /\ EqualizerBandsMax \in Nat
    BY RangesAssumption DEF Bands
  <2>3. \A b \in Bands : GoodLine(lines[b])
    BY ZoneLines
  <2>. HIDE DEF level
  <2>4. lines = [b \in 1..EqualizerBandsMax |-> lines[b]]
    BY <2>2
  <2>. HIDE DEF lines
  <2>5. Told(lines)
    BY <2>2, <2>3, <2>4, ToldEach
  <2>. QED  BY <2>1, <2>5 DEF Tells, Silent
<1>. QED  BY <1>1, <1>2

\* The answers to the queries for a zone.
LEMMA TellsZoneQueries ==
  ASSUME NEW zone \in Zones, NEW z \in 1..ZonesMax
  PROVE  /\ \A isConfiguration \in BOOLEAN : Tells(HandleQueryReceived(isConfiguration, zone, z))
         /\ \A r \in ZoneQueries(zone, z) : Tells(r.does)
         /\ Tells(QueryRequest(zone, z))
<1>1. Tells(HandleQuerySoundMode(zone, z))
  <2> DEFINE mode == AnswerKnown(zone, ZoneGetSoundMode(zone), HandleSoundModeResponse(z, zone.mode))
             parameters ==
               CASE zone.mode = "equalizer" -> HandleQueryZoneEqualizer(zone, z)
                 [] zone.mode = "preset" -> HandleQueryEqualizerPreset(zone, z)
                 [] zone.mode = "tone" -> HandleQueryTone(zone, z)
                 [] zone.mode = "lowpass" -> HandleQueryLowpassCrossover(zone, z)
                 [] zone.mode = "highpass" -> HandleQueryHighpassCrossover(zone, z)
                 [] OTHER -> Silent(zone)
  <2>1. Tells(mode)
    BY ZoneLines, TellsKnown
  <2>2. Tells(parameters)
    BY TellsEqualizer, TellsZoneParts, TellsNothing
  <2>3. HandleQuerySoundMode(zone, z) = Joined(mode, parameters)
    BY DEF HandleQuerySoundMode
  <2>. HIDE DEF mode, parameters
  <2>. QED  BY <2>1, <2>2, <2>3, TellsJoined
<1>2. ASSUME NEW isConfiguration \in BOOLEAN
      PROVE  Tells(HandleQueryReceived(isConfiguration, zone, z))
  <2> DEFINE source == Joined(HandleQueryNameReceived(zone, z), HandleQuerySource(zone, z))
             volume == Joined(source, HandleQueryVolume(zone, z))
             fixed == IF isConfiguration
                      THEN Joined(volume, HandleQueryVolumeFixed(zone, z))
                      ELSE volume
             mute == Joined(fixed, HandleQueryMute(zone, z))
             mode == Joined(mute, HandleQuerySoundMode(zone, z))
             all == Joined(mode, HandleQueryBalanceReceived(zone, z))
  <2>1. Tells(source)
    BY TellsZoneParts, TellsJoined
  <2>2. Tells(volume)
    <3>. HIDE DEF source
    <3>. QED  BY <2>1, TellsZoneParts, TellsJoined
  <2>3. Tells(fixed)
    <3>. HIDE DEF volume
    <3>. QED  BY <2>2, TellsZoneParts, TellsJoined
  <2>4. Tells(mute)
    <3>. HIDE DEF fixed
    <3>. QED  BY <2>3, TellsZoneParts, TellsJoined
  <2>5. Tells(mode)
    <3>. HIDE DEF mute
    <3>. QED  BY <1>1, <2>4, TellsJoined
  <2>6. Tells(all)
    <3>. HIDE DEF mode
    <3>. QED  BY <2>5, TellsZoneParts, TellsJoined
  <2>7. HandleQueryReceived(isConfiguration, zone, z) = all
    BY DEF HandleQueryReceived
  <2>. HIDE DEF all
  <2>. QED  BY <2>6, <2>7
<1>3. Tells(QueryRequest(zone, z))
  BY <1>2, ZoneLines, TellsSaid DEF QueryRequest
<1>4. ASSUME NEW r \in ZoneQueries(zone, z) PROVE Tells(r.does)
  <2> DEFINE query == QueryRequest(zone, z)
             mute == QueryMuteRequest(zone, z)
             source == QuerySourceRequest(zone, z)
             volume == QueryVolumeRequest(zone, z)
  <2>1. Tells(query) /\ Tells(mute) /\ Tells(source) /\ Tells(volume)
    BY <1>3, TellsZoneParts DEF QueryMuteRequest, QuerySourceRequest, QueryVolumeRequest
  <2>2. r \in {Directly(C!Query(z), query), Directly(C!QueryMute(z), mute),
               Directly(C!QuerySource(z), source), Directly(C!QueryVolume(z), volume)}
    BY Zenon DEF ZoneQueries
  <2>. HIDE DEF query, mute, source, volume
  <2>3. \A call, does : Directly(call, does).does = does
    BY AskDoes DEF Directly
  <2>. QED  BY <2>1, <2>2, <2>3
<1>. QED  BY <1>2, <1>3, <1>4

\* The answer to the query for a group.
LEMMA TellsGroupQuery ==
  ASSUME NEW group \in Groups, NEW zones, NEW g \in 1..GroupsMax
  PROVE  Tells(HandleQueryGroupReceived(group, zones, g)) /\ Tells(QueryGroupRequest(group, zones, g))
<1> DEFINE lines == {<<"group zone added", g, z>> : z \in GetZones(group)}
           all == << <<"group name", g, group.name>> >> \o SetToSeq(lines)
           o == HandleQueryGroupReceived(group, zones, g)
<1>1. ASSUME Failed(OutputGetName(group)) PROVE Tells(o)
  BY <1>1, TellsNothing DEF HandleQueryGroupReceived
<1>2. ASSUME ~ Failed(OutputGetName(group)) PROVE Tells(o)
  <2>1. group.name \in Names
    <3>1. group.name \in KeptNames \cup {Null} /\ KeptNames \subseteq Names
      BY GroupHas DEF KeptNames
    <3>. QED  BY <1>2, <3>1 DEF OutputGetName, GetName, Get, Failed
  <2>2. GetZones(group) \in SUBSET (1..ZonesMax)
    BY GroupHas DEF GetZones
  <2>3. IsFiniteSet(lines)
    <3> DEFINE line(z) == <<"group zone added", g, z>>
               zoneOf == [l \in lines |-> l[3]]
    <3>3. \A l \in lines : \E z \in 1..ZonesMax : l = line(z)
      BY <2>2
    <3>4. \A z : line(z)[3] = z
      OBVIOUS
    <3>1. zoneOf \in Injection(lines, 1..ZonesMax)
      <4>. HIDE DEF lines, line
      <4>1. \A l \in lines : l[3] \in 1..ZonesMax /\ l = line(l[3])
        BY <3>3, <3>4
      <4>2. zoneOf \in [lines -> 1..ZonesMax]
        BY <4>1
      <4>3. \A a, b \in lines : zoneOf[a] = zoneOf[b] => a = b
        BY <4>1
      <4>. QED  BY <4>2, <4>3 DEF Injection, IsInjective
    <3>2. IsFiniteSet(1..ZonesMax)
      BY RangesAssumption, FS_Interval
    <3>. HIDE DEF lines, zoneOf, line
    <3>. QED  BY <3>1, <3>2, FS_Injection
  <2>4. \A l \in lines : GoodLine(l)
    BY <2>2, GroupLines
  <2>. HIDE DEF lines
  <2>5. Told(SetToSeq(lines))
    BY <2>3, <2>4, SetListed, ToldIn
  <2>6. GoodLine(<<"group name", g, group.name>>)
    BY <2>1, GroupLines
  <2>7. Told(all)
    BY <2>5, <2>6, ToldLines
  <2>8. o = [GroupKept("success", group, zones) EXCEPT !.lines = all]
    BY <1>2 DEF HandleQueryGroupReceived, lines
  <2>. HIDE DEF all, o
  <2>9. Tells(o)
    BY <2>7, <2>8 DEF Tells, GroupKept
  <2>. QED  BY <2>9 DEF o
<1>3. Tells(o)
  BY <1>1, <1>2
<1>4. Tells(QueryGroupRequest(group, zones, g))
  <2>1. GoodLine(<<"group query", g>>)
    BY GroupLines
  <2>. HIDE DEF o
  <2>2. Tells(Say(<<"group query", g>>, o))
    BY <1>3, <2>1, TellsSaid
  <2>. QED  BY <2>2 DEF QueryGroupRequest, o
<1>. QED  BY <1>3, <1>4

\* The answer to the query for a preset.
LEMMA TellsPresetQuery ==
  ASSUME NEW preset \in Presets, NEW p \in 1..EqualizerPresetsMax
  PROVE  Tells(HandleQueryPresetReceived(preset, p)) /\ Tells(QueryPresetRequest(preset, p))
<1> DEFINE bands == [b \in Bands |-> HandleBandResponse(p, b, preset.bands[b])]
           all == << <<"preset name", p, preset.name>> >> \o bands
           o == HandleQueryPresetReceived(preset, p)
<1>1. ASSUME ~ CanSavePreset(preset) PROVE Tells(o)
  BY <1>1, TellsNothing DEF HandleQueryPresetReceived
<1>2. ASSUME CanSavePreset(preset) PROVE Tells(o)
  <2>1. preset.name \in Names
    <3>1. preset.name \in KeptNames \cup {Null} /\ KeptNames \subseteq Names
      BY PresetHas DEF KeptNames
    <3>. QED  BY <1>2, <3>1 DEF CanSavePreset, PresetGetName, GetName, Get, Failed
  <2>2. Bands = 1..EqualizerBandsMax /\ EqualizerBandsMax \in Nat
    BY RangesAssumption DEF Bands
  <2>3. \A b \in Bands : GoodLine(bands[b])
    BY OtherLines
  <2>4. bands = [b \in 1..EqualizerBandsMax |-> bands[b]]
    BY <2>2
  <2>. HIDE DEF bands
  <2>5. Told(bands)
    BY <2>2, <2>3, <2>4, ToldEach
  <2>6. GoodLine(<<"preset name", p, preset.name>>)
    BY <2>1, OtherLines
  <2>7. Told(all)
    BY <2>5, <2>6, ToldLines
  <2>8. o = [PresetKept("success", preset) EXCEPT !.lines = all]
    BY <1>2 DEF HandleQueryPresetReceived, bands
  <2>. HIDE DEF all, o
  <2>9. Tells(o)
    BY <2>7, <2>8 DEF Tells, PresetKept
  <2>. QED  BY <2>9 DEF o
<1>3. Tells(o)
  BY <1>1, <1>2
<1>4. Tells(QueryPresetRequest(preset, p))
  <2>1. GoodLine(<<"preset query", p>>)
    BY OtherLines
  <2>. HIDE DEF o
  <2>2. Tells(Say(<<"preset query", p>>, o))
    BY <1>3, <2>1, TellsSaid
  <2>. QED  BY <2>2 DEF QueryPresetRequest, o
<1>. QED  BY <1>3, <1>4

\* The answers to the queries for a favorite and for a source.
LEMMA TellsItemQueries ==
  ASSUME NEW item \in Items
  PROVE  /\ \A f \in 1..FavoritesMax : /\ Tells(HandleQueryFavoriteReceived(item, f))
                                       /\ Tells(QueryFavoriteRequest(item, f))
         /\ \A s \in 1..SourcesMax : Tells(HandleQuerySourceNameReceived(item, s))
<1>1. item # Null => item \in Names
  BY DEF Items, KeptNames
<1>2. \A lines, status : Told(lines) => Tells([ItemKept(status, item) EXCEPT !.lines = lines])
  BY DEF Tells, ItemKept
<1>3. ASSUME NEW f \in 1..FavoritesMax PROVE Tells(HandleQueryFavoriteReceived(item, f))
  <2>1. item # Null => Told(<< <<"favorite name", f, item>> >>)
    BY <1>1, OtherLines, ToldLines
  <2>2. ~ Failed(FavoriteGetName(item)) => item # Null
    BY DEF FavoriteGetName, GetName, Get, Failed
  <2>. QED  BY <1>2, <2>1, <2>2, TellsNothing DEF HandleQueryFavoriteReceived
<1>4. ASSUME NEW s \in 1..SourcesMax PROVE Tells(HandleQuerySourceNameReceived(item, s))
  <2>1. item # Null => Told(<< <<"source name", s, item>> >>)
    BY <1>1, OtherLines, ToldLines
  <2>2. ~ Failed(SourceGetName(item)) => item # Null
    BY DEF SourceGetName, GetName, Get, Failed
  <2>. QED  BY <1>2, <2>1, <2>2, TellsNothing DEF HandleQuerySourceNameReceived
<1>5. ASSUME NEW f \in 1..FavoritesMax PROVE Tells(QueryFavoriteRequest(item, f))
  <2>1. GoodLine(<<"favorite query", f>>)
    BY OtherLines
  <2>. QED  BY <1>3, <2>1, TellsSaid DEF QueryFavoriteRequest
<1>. QED  BY <1>3, <1>4, <1>5

\* Two lines.
LEMMA ToldTwo ==
  ASSUME NEW a, NEW b, GoodLine(a), GoodLine(b)
  PROVE  Told(<<a, b>>)
<1> DEFINE S == {a, b}
<1>1. <<a, b>> \in Seq(S)
  OBVIOUS
<1>2. \A x \in S : x = a \/ x = b
  OBVIOUS
<1>. HIDE DEF S
<1>3. \A x \in S : GoodLine(x)
  BY <1>2
<1>. QED  BY <1>1, <1>3, ToldIn

\* The answers to the queries for the panel, infrared and network.
LEMMA TellsModelQueries ==
  /\ \A panel \in PanelsWith({Null}) : /\ Tells(HandleQueryPanelReceived(panel))
                                       /\ Tells(QueryPanelRequest(panel))
  /\ \A infrared \in InfraredsWith({Null}) : /\ Tells(HandleQueryInfraredReceived(infrared))
                                             /\ Tells(QueryInfraredRequest(infrared))
  /\ \A network \in NetworksWith({Null}) : /\ Tells(HandleQueryNetworkReceived(network))
                                           /\ Tells(QueryNetworkRequest(network))
<1>1. ASSUME NEW model, NEW lines, ~ HasNull(model) => Told(lines)
      PROVE  Tells(AnswerModelKnown(model, lines))
  <2>1. Told(lines) => Tells([ModelKept("success", model) EXCEPT !.lines = lines])
    BY DEF Tells, ModelKept
  <2>. QED  BY <1>1, <2>1, TellsNothing DEF AnswerModelKnown
<1>2. \A v : Get(v).value = v /\ (~ Failed(Get(v)) => v # Null)
  BY DEF Get, Failed
<1>4. ASSUME NEW panel \in PanelsWith({Null})
      PROVE  Tells(HandleQueryPanelReceived(panel)) /\ Tells(QueryPanelRequest(panel))
  <2>1. panel.locked \in BOOLEAN \cup {Null} /\ DOMAIN panel = {"brightness", "locked"}
    BY DEF PanelsWith
  <2>2. panel.locked # Null => GoodLine(HandleLockedResponse(panel.locked))
    BY <2>1, OtherLines
  <2>3. ~ HasNull(panel) => panel.locked # Null
    BY <2>1 DEF HasNull
  <2>4. Tells(HandleQueryPanelReceived(panel))
    BY <1>1, <1>2, ToldTwo, <2>2, <2>3, OtherLines DEF HandleQueryPanelReceived, GetBrightness, GetLocked
  <2>5. ~ Failed(GetLocked(panel)) => Told(<<HandleLockedResponse(GetLocked(panel).value)>>)
    BY <1>2, <2>2, ToldLines DEF GetLocked
  <2>6. \A lines : Told(lines) => Tells([ModelKept("success", panel) EXCEPT !.lines = lines])
    BY DEF Tells, ModelKept
  <2>7. Tells(QueryPanelRequest(panel))
    BY <2>5, <2>6, TellsNothing DEF QueryPanelRequest
  <2>. QED  BY <2>4, <2>7
<1>5. ASSUME NEW infrared \in InfraredsWith({Null})
      PROVE  Tells(HandleQueryInfraredReceived(infrared)) /\ Tells(QueryInfraredRequest(infrared))
  <2>1. infrared.disabled \in BOOLEAN \cup {Null} /\ DOMAIN infrared = {"disabled"}
    BY DEF InfraredsWith
  <2>2. ~ HasNull(infrared) => infrared.disabled \in BOOLEAN
    BY <2>1 DEF HasNull
  <2>3. ~ HasNull(infrared) => Told(<<HandleDisabledResponse(GetDisabled(infrared).value)>>)
    BY <1>2, <2>2, OtherLines, ToldLines DEF GetDisabled
  <2>. QED  BY <1>1, <2>3 DEF HandleQueryInfraredReceived, QueryInfraredRequest
<1>6. ASSUME NEW network \in NetworksWith({Null})
      PROVE  Tells(HandleQueryNetworkReceived(network)) /\ Tells(QueryNetworkRequest(network))
  <2>1. /\ network.dhcp \in BOOLEAN \cup {Null} /\ network.sddp \in BOOLEAN \cup {Null}
        /\ DOMAIN network = {"dhcp", "sddp"}
    BY DEF NetworksWith
  <2>2. ~ HasNull(network) => network.dhcp \in BOOLEAN /\ network.sddp \in BOOLEAN
    BY <2>1 DEF HasNull
  <2>3. ~ HasNull(network) => GoodLine(HandleDHCPv4EnabledResponse(GetDHCPv4Enabled(network).value))
    BY <1>2, <2>2, OtherLines DEF GetDHCPv4Enabled
  <2>4. ~ HasNull(network) => GoodLine(HandleSDDPEnabledResponse(GetSDDPEnabled(network).value))
    BY <1>2, <2>2, OtherLines DEF GetSDDPEnabled
  <2>5. Tells(HandleQueryNetworkReceived(network))
    BY <1>1, ToldTwo, <2>3, <2>4 DEF HandleQueryNetworkReceived
  <2>6. GoodLine(<<"network query">>)
    BY OtherLines
  <2>7. Tells(QueryNetworkRequest(network))
    BY <2>5, <2>6, TellsSaid DEF QueryNetworkRequest
  <2>. QED  BY <2>5, <2>7
<1>. QED  BY <1>4, <1>5, <1>6

-----------------------------------------------------------------------------
(***************************************************************************)
(* What the server tells a client that refreshes.                          *)
(***************************************************************************)
\* Outcomes that tell what can be heard, one after the other.
Telling(outcomes) ==
  \E n \in Nat : /\ DOMAIN outcomes = 1..n /\ outcomes = [i \in 1..n |-> outcomes[i]]
                 /\ \A i \in 1..n : Tells(outcomes[i])

\* Such outcomes, put together, tell what can be heard.
LEMMA TellingOutcomes ==
  /\ \A a : Tells(a) => Telling(<<a>>)
  /\ \A a, b : Tells(a) /\ Tells(b) => Telling(<<a, b>>)
  /\ \A s, t : Telling(s) /\ Telling(t) => Telling(s \o t)
<1>1. ASSUME NEW a, Tells(a) PROVE Telling(<<a>>)
  <2> DEFINE s == <<a>>
  <2>1. DOMAIN s = 1..1 /\ s = [i \in 1..1 |-> s[i]] /\ s[1] = a
    OBVIOUS
  <2>. HIDE DEF s
  <2>2. \A i \in 1..1 : Tells(s[i])
    BY <1>1, <2>1
  <2>3. Telling(s)
    BY <2>1, <2>2 DEF Telling
  <2>. QED  BY <2>3 DEF s
<1>2. ASSUME NEW a, NEW b, Tells(a), Tells(b) PROVE Telling(<<a, b>>)
  <2> DEFINE s == <<a, b>>
  <2>1. DOMAIN s = 1..2 /\ s = [i \in 1..2 |-> s[i]] /\ s[1] = a /\ s[2] = b
    OBVIOUS
  <2>. HIDE DEF s
  <2>2. \A i \in 1..2 : i = 1 \/ i = 2
    OBVIOUS
  <2>3. \A i \in 1..2 : Tells(s[i])
    BY <1>2, <2>1, <2>2
  <2>4. Telling(s)
    BY <2>1, <2>3 DEF Telling
  <2>. QED  BY <2>4 DEF s
<1>3. ASSUME NEW s, NEW t, Telling(s), Telling(t) PROVE Telling(s \o t)
  <2>1. PICK n \in Nat : /\ DOMAIN s = 1..n /\ s = [i \in 1..n |-> s[i]]
                         /\ \A i \in 1..n : Tells(s[i])
    BY <1>3 DEF Telling
  <2>2. PICK k \in Nat : /\ DOMAIN t = 1..k /\ t = [i \in 1..k |-> t[i]]
                         /\ \A i \in 1..k : Tells(t[i])
    BY <1>3 DEF Telling
  <2> DEFINE S == {s[i] : i \in 1..n} \cup {t[i] : i \in 1..k}
             u == s \o t
  <2>3. s \in [1..n -> S] /\ t \in [1..k -> S]
    BY <2>1, <2>2
  <2>. HIDE DEF S
  <2>4. s \in Seq(S) /\ t \in Seq(S) /\ Len(s) = n /\ Len(t) = k
    BY <2>1, <2>2, <2>3, SeqDef, LenProperties
  <2>5. /\ u \in Seq(S) /\ Len(u) = n + k
        /\ \A i \in 1..n + k : u[i] = IF i <= n THEN s[i] ELSE t[i - n]
    BY <2>4, ConcatProperties
  <2>. HIDE DEF u
  <2>6. DOMAIN u = 1..n + k /\ u = [i \in 1..n + k |-> u[i]] /\ n + k \in Nat
    BY <2>1, <2>2, <2>5, LenProperties
  <2>7. ASSUME NEW i \in 1..n + k PROVE Tells(u[i])
    <3>1. i <= n => i \in 1..n
      BY <2>1
    <3>2. ~ i <= n => i - n \in 1..k
      BY <2>1, <2>2
    <3>. QED  BY <2>1, <2>2, <2>5, <3>1, <3>2
  <2>8. Telling(u)
    BY <2>6, <2>7 DEF Telling
  <2>. QED  BY <2>8 DEF u
<1>. QED  BY <1>1, <1>2, <1>3

\* What is told of a container, up to what is not known.
LEMMA ToldUpToError ==
  ASSUME NEW n \in Nat \ {0}, NEW outcomes, DOMAIN outcomes = 1..n,
         \A i \in 1..n : Tells(outcomes[i])
  PROVE  Told(UpToError(outcomes))
<1> DEFINE failed == {i \in 1..n : Failed(outcomes[i])}
           seqs == [i \in ReachedOf(n, failed) |-> outcomes[i].lines]
<1>1. UpToError(outcomes) = FlattenSeq(seqs)
  BY DEF UpToError, ReachedOf
<1>2. failed \in SUBSET (1..n)
  OBVIOUS
<1>. HIDE DEF failed
<1>3. PICK k \in 1..n : ReachedOf(n, failed) = 1..k
  BY <1>2, ReachedUpto
<1>4. k \in Nat /\ \A i \in 1..k : i \in 1..n
  BY <1>3
<1>5. seqs = [i \in 1..k |-> seqs[i]] /\ \A i \in 1..k : seqs[i] = outcomes[i].lines
  BY <1>3
<1>. HIDE DEF seqs
<1>6. \A i \in 1..k : Told(seqs[i])
  BY <1>4, <1>5 DEF Tells
<1>. QED  BY <1>1, <1>4, <1>5, <1>6, FlatTold

\* Nine answers put together.
LEMMA NineTold ==
  ASSUME NEW a, NEW b, NEW c, NEW d, NEW e, NEW f, NEW g, NEW h, NEW j,
         Told(a), Told(b), Told(c), Told(d), Told(e), Told(f), Told(g), Told(h), Told(j)
  PROVE  Told(FlattenSeq(<<a, b, c, d, e, f, g, h, j>>))
<1> DEFINE seqs == <<a, b, c, d, e, f, g, h, j>>
<1>1. /\ seqs = [i \in 1..9 |-> seqs[i]]
      /\ seqs[1] = a /\ seqs[2] = b /\ seqs[3] = c /\ seqs[4] = d /\ seqs[5] = e
      /\ seqs[6] = f /\ seqs[7] = g /\ seqs[8] = h /\ seqs[9] = j
  OBVIOUS
<1>. HIDE DEF seqs
<1>2. \A i \in 1..9 : \/ i = 1 \/ i = 2 \/ i = 3 \/ i = 4 \/ i = 5
                      \/ i = 6 \/ i = 7 \/ i = 8 \/ i = 9
  OBVIOUS
<1>3. \A i \in 1..9 : Told(seqs[i])
  BY <1>1, <1>2
<1>4. Told(FlattenSeq(seqs))
  BY <1>1, <1>3, FlatTold
<1>. QED  BY <1>4 DEF seqs

\* The answer to the query for the configuration.
LEMMA ToldConfiguration ==
  ASSUME NEW models, Typed(models)
  PROVE  Told(QueryCurrentConfiguration(models))
<1> DEFINE favorites == [f \in DOMAIN models.favorites |->
                           HandleQueryFavoriteReceived(models.favorites[f], f)]
           groups == [g \in DOMAIN models.groups |->
                        HandleQueryGroupReceived(models.groups[g], <<>>, g)]
           presets == [p \in DOMAIN models.presets |->
                         HandleQueryPresetReceived(models.presets[p], p)]
           sources == [s \in DOMAIN models.sources |->
                         HandleQuerySourceNameReceived(models.sources[s], s)]
           zones == [z \in DOMAIN models.zones |->
                       HandleQueryReceived(TRUE, models.zones[z], z)]
           network == HandleQueryNetworkReceived(models.network).lines
           panel == HandleQueryPanelReceived(models.panel).lines
           infrared == HandleQueryInfraredReceived(models.infrared).lines
           last == << <<"current configuration">> >>
<1>1. QueryCurrentConfiguration(models) =
        FlattenSeq(<<network, UpToError(favorites), UpToError(groups), panel, infrared,
                     UpToError(presets), UpToError(sources), UpToError(zones), last>>)
  BY DEF QueryCurrentConfiguration
<1>2. /\ ZonesMax \in Nat \ {0} /\ SourcesMax \in Nat \ {0} /\ EqualizerPresetsMax \in Nat \ {0}
      /\ GroupsMax \in Nat \ {0} /\ FavoritesMax \in Nat \ {0}
  BY RangesAssumption, CountsAssumption
<1>3. Told(UpToError(favorites))
  <2>1. DOMAIN favorites = 1..FavoritesMax
    BY TypedHas
  <2>2. \A i \in 1..FavoritesMax : models.favorites[i] \in Items
    BY TypedHas
  <2>3. \A i \in 1..FavoritesMax :
          favorites[i] = HandleQueryFavoriteReceived(models.favorites[i], i)
    BY <2>1
  <2>. HIDE DEF favorites
  <2>4. \A i \in 1..FavoritesMax : Tells(favorites[i])
    BY <2>2, <2>3, TellsItemQueries
  <2>. QED  BY <1>2, <2>1, <2>4, ToldUpToError
<1>4. Told(UpToError(groups))
  <2>1. DOMAIN groups = 1..GroupsMax
    BY TypedHas
  <2>2. \A i \in 1..GroupsMax : models.groups[i] \in Groups
    BY TypedHas
  <2>3. \A i \in 1..GroupsMax : groups[i] = HandleQueryGroupReceived(models.groups[i], <<>>, i)
    BY <2>1
  <2>. HIDE DEF groups
  <2>4. \A i \in 1..GroupsMax : Tells(groups[i])
    BY <2>2, <2>3, TellsGroupQuery
  <2>. QED  BY <1>2, <2>1, <2>4, ToldUpToError
<1>5. Told(UpToError(presets))
  <2>1. DOMAIN presets = 1..EqualizerPresetsMax
    BY TypedHas
  <2>2. \A i \in 1..EqualizerPresetsMax : models.presets[i] \in Presets
    BY TypedHas
  <2>3. \A i \in 1..EqualizerPresetsMax : presets[i] = HandleQueryPresetReceived(models.presets[i], i)
    BY <2>1
  <2>. HIDE DEF presets
  <2>4. \A i \in 1..EqualizerPresetsMax : Tells(presets[i])
    BY <2>2, <2>3, TellsPresetQuery
  <2>. QED  BY <1>2, <2>1, <2>4, ToldUpToError
<1>6. Told(UpToError(sources))
  <2>1. DOMAIN sources = 1..SourcesMax
    BY TypedHas
  <2>2. \A i \in 1..SourcesMax : models.sources[i] \in Items
    BY TypedHas
  <2>3. \A i \in 1..SourcesMax : sources[i] = HandleQuerySourceNameReceived(models.sources[i], i)
    BY <2>1
  <2>. HIDE DEF sources
  <2>4. \A i \in 1..SourcesMax : Tells(sources[i])
    BY <2>2, <2>3, TellsItemQueries
  <2>. QED  BY <1>2, <2>1, <2>4, ToldUpToError
<1>7. Told(UpToError(zones))
  <2>1. DOMAIN zones = 1..ZonesMax
    BY TypedHas
  <2>2. \A i \in 1..ZonesMax : models.zones[i] \in Zones
    BY TypedHas
  <2>3. \A i \in 1..ZonesMax : zones[i] = HandleQueryReceived(TRUE, models.zones[i], i)
    BY <2>1
  <2>. HIDE DEF zones
  <2>4. \A i \in 1..ZonesMax : Tells(zones[i])
    BY <2>2, <2>3, TellsZoneQueries
  <2>. QED  BY <1>2, <2>1, <2>4, ToldUpToError
<1>8. Told(network) /\ Told(panel) /\ Told(infrared)
  BY TypedHas, TellsModelQueries DEF Tells
<1>9. Told(last)
  BY OtherLines, ToldLines
<1>. HIDE DEF favorites, groups, presets, sources, zones, network, panel, infrared, last
<1>. QED  BY <1>1, <1>3, <1>4, <1>5, <1>6, <1>7, <1>8, <1>9, NineTold

\* All outcomes of a refresh tell what can be heard.
LEMMA TellingRefresh ==
  ASSUME NEW models, Typed(models)
  PROVE  Telling(RefreshQueries(models))
<1> DEFINE favorites == [f \in DOMAIN models.favorites |->
                           QueryFavoriteRequest(models.favorites[f], f)]
           groups == [g \in DOMAIN models.groups |->
                        QueryGroupRequest(models.groups[g], <<>>, g)]
           presets == [p \in DOMAIN models.presets |->
                         QueryPresetRequest(models.presets[p], p)]
           zones == [z \in DOMAIN models.zones |-> QueryRequest(models.zones[z], z)]
           network == << QueryNetworkRequest(models.network) >>
           pair == << QueryPanelRequest(models.panel), QueryInfraredRequest(models.infrared) >>
<1>1. RefreshQueries(models) = network \o favorites \o groups \o pair \o presets \o zones
  BY DEF RefreshQueries
<1>2. /\ ZonesMax \in Nat /\ EqualizerPresetsMax \in Nat
      /\ GroupsMax \in Nat /\ FavoritesMax \in Nat
  BY RangesAssumption, CountsAssumption
<1>3. Telling(favorites)
  <2>1. DOMAIN favorites = 1..FavoritesMax /\ favorites = [i \in 1..FavoritesMax |-> favorites[i]]
    BY TypedHas
  <2>2. \A i \in 1..FavoritesMax : models.favorites[i] \in Items
    BY TypedHas
  <2>3. \A i \in 1..FavoritesMax : favorites[i] = QueryFavoriteRequest(models.favorites[i], i)
    BY <2>1
  <2>. HIDE DEF favorites
  <2>4. \A i \in 1..FavoritesMax : Tells(favorites[i])
    BY <2>2, <2>3, TellsItemQueries
  <2>. QED  BY <1>2, <2>1, <2>4 DEF Telling
<1>4. Telling(groups)
  <2>1. DOMAIN groups = 1..GroupsMax /\ groups = [i \in 1..GroupsMax |-> groups[i]]
    BY TypedHas
  <2>2. \A i \in 1..GroupsMax : models.groups[i] \in Groups
    BY TypedHas
  <2>3. \A i \in 1..GroupsMax : groups[i] = QueryGroupRequest(models.groups[i], <<>>, i)
    BY <2>1
  <2>. HIDE DEF groups
  <2>4. \A i \in 1..GroupsMax : Tells(groups[i])
    BY <2>2, <2>3, TellsGroupQuery
  <2>. QED  BY <1>2, <2>1, <2>4 DEF Telling
<1>5. Telling(presets)
  <2>1. DOMAIN presets = 1..EqualizerPresetsMax /\ presets = [i \in 1..EqualizerPresetsMax |-> presets[i]]
    BY TypedHas
  <2>2. \A i \in 1..EqualizerPresetsMax : models.presets[i] \in Presets
    BY TypedHas
  <2>3. \A i \in 1..EqualizerPresetsMax : presets[i] = QueryPresetRequest(models.presets[i], i)
    BY <2>1
  <2>. HIDE DEF presets
  <2>4. \A i \in 1..EqualizerPresetsMax : Tells(presets[i])
    BY <2>2, <2>3, TellsPresetQuery
  <2>. QED  BY <1>2, <2>1, <2>4 DEF Telling
<1>6. Telling(zones)
  <2>1. DOMAIN zones = 1..ZonesMax /\ zones = [i \in 1..ZonesMax |-> zones[i]]
    BY TypedHas
  <2>2. \A i \in 1..ZonesMax : models.zones[i] \in Zones
    BY TypedHas
  <2>3. \A i \in 1..ZonesMax : zones[i] = QueryRequest(models.zones[i], i)
    BY <2>1
  <2>. HIDE DEF zones
  <2>4. \A i \in 1..ZonesMax : Tells(zones[i])
    BY <2>2, <2>3, TellsZoneQueries
  <2>. QED  BY <1>2, <2>1, <2>4 DEF Telling
<1>7. Telling(network) /\ Telling(pair)
  BY TypedHas, TellsModelQueries, TellingOutcomes
<1>. HIDE DEF favorites, groups, presets, zones, network, pair
<1>. QED  BY <1>1, <1>3, <1>4, <1>5, <1>6, <1>7, TellingOutcomes

\* All that a client that refreshes is told.
LEMMA ToldRefresh ==
  ASSUME NEW models, Typed(models)
  PROVE  Told(RefreshLines(models))
<1> DEFINE queries == RefreshQueries(models)
           seqs == [i \in DOMAIN queries |-> AnswerLines(queries[i])]
<1>1. RefreshLines(models) = QueryCurrentConfiguration(models) \o FlattenSeq(seqs)
  BY DEF RefreshLines
<1>2. PICK n \in Nat : DOMAIN queries = 1..n /\ \A i \in 1..n : Tells(queries[i])
  BY TellingRefresh DEF Telling
<1>. HIDE DEF queries
<1>3. seqs = [i \in 1..n |-> seqs[i]] /\ \A i \in 1..n : seqs[i] = AnswerLines(queries[i])
  BY <1>2
<1>. HIDE DEF seqs
<1>4. \A i \in 1..n : Told(seqs[i])
  BY <1>2, <1>3, AnswerTold
<1>5. Told(FlattenSeq(seqs))
  BY <1>3, <1>4, FlatTold
<1>. QED  BY <1>1, <1>5, ToldConfiguration, ToldLines

-----------------------------------------------------------------------------
(***************************************************************************)
(* What a client does with the lines it reads, and whom an answer reaches. *)
(***************************************************************************)
\* A client with its models typed and lines in its buffer that can be heard.
Fine(c) == Typed(c) /\ Told(c.buffer)

\* The fields of a client that are not its models may have any value.
LEMMA Controlled ==
  ASSUME NEW c, Typed(c)
  PROVE  /\ \A x : LET d == [c EXCEPT !.expects = x]
                   IN Typed(d) /\ d.expects = x /\ \A f \in ClientFields \ {"expects"} : d[f] = c[f]
         /\ \A x : LET d == [c EXCEPT !.buffer = x]
                   IN Typed(d) /\ d.buffer = x /\ \A f \in ClientFields \ {"buffer"} : d[f] = c[f]
         /\ \A x : LET d == [c EXCEPT !.missed = x]
                   IN Typed(d) /\ d.missed = x /\ \A f \in ClientFields \ {"missed"} : d[f] = c[f]
         /\ \A x : LET d == [c EXCEPT !.refreshed = x]
                   IN Typed(d) /\ d.refreshed = x /\ \A f \in ClientFields \ {"refreshed"} : d[f] = c[f]
<1>1. c = [f \in ClientFields |-> c[f]] /\ \A part \in Parts : c[part] \in PartTypes[part]
  BY DEF Typed
<1>2. ASSUME NEW f \in Controls, NEW x, NEW d,
             d = [e \in ClientFields |-> IF e = f THEN x ELSE c[e]]
      PROVE  Typed(d) /\ d[f] = x /\ \A e \in ClientFields \ {f} : d[e] = c[e]
  <2>1. f \in ClientFields /\ f \notin Parts /\ Parts \subseteq ClientFields
    BY PartsAreFields
  <2>2. d = [e \in ClientFields |-> d[e]] /\ d[f] = x /\ \A e \in ClientFields \ {f} : d[e] = c[e]
    BY <1>2, <2>1
  <2>3. \A part \in Parts : d[part] = c[part]
    BY <2>1, <2>2
  <2>4. Typed(d)
    BY <1>1, <2>2, <2>3 DEF Typed
  <2>. QED  BY <2>2, <2>4
<1>5. "expects" \in Controls /\ "buffer" \in Controls /\ "missed" \in Controls /\ "refreshed" \in Controls
  BY DEF Controls
<1>6. ASSUME NEW x
      PROVE  LET d == [c EXCEPT !.expects = x]
             IN Typed(d) /\ d.expects = x /\ \A f \in ClientFields \ {"expects"} : d[f] = c[f]
  <2> DEFINE d == [c EXCEPT !.expects = x]
  <2>1. d = [e \in ClientFields |-> IF e = "expects" THEN x ELSE c[e]]
    BY <1>1
  <2>. HIDE DEF d
  <2>2. Typed(d) /\ d["expects"] = x /\ \A e \in ClientFields \ {"expects"} : d[e] = c[e]
    BY <1>2, <1>5, <2>1
  <2>. QED  BY <2>2 DEF d
<1>7. ASSUME NEW x
      PROVE  LET d == [c EXCEPT !.buffer = x]
             IN Typed(d) /\ d.buffer = x /\ \A f \in ClientFields \ {"buffer"} : d[f] = c[f]
  <2> DEFINE d == [c EXCEPT !.buffer = x]
  <2>1. d = [e \in ClientFields |-> IF e = "buffer" THEN x ELSE c[e]]
    BY <1>1
  <2>. HIDE DEF d
  <2>2. Typed(d) /\ d["buffer"] = x /\ \A e \in ClientFields \ {"buffer"} : d[e] = c[e]
    BY <1>2, <1>5, <2>1
  <2>. QED  BY <2>2 DEF d
<1>8. ASSUME NEW x
      PROVE  LET d == [c EXCEPT !.missed = x]
             IN Typed(d) /\ d.missed = x /\ \A f \in ClientFields \ {"missed"} : d[f] = c[f]
  <2> DEFINE d == [c EXCEPT !.missed = x]
  <2>1. d = [e \in ClientFields |-> IF e = "missed" THEN x ELSE c[e]]
    BY <1>1
  <2>. HIDE DEF d
  <2>2. Typed(d) /\ d["missed"] = x /\ \A e \in ClientFields \ {"missed"} : d[e] = c[e]
    BY <1>2, <1>5, <2>1
  <2>. QED  BY <2>2 DEF d
<1>9. ASSUME NEW x
      PROVE  LET d == [c EXCEPT !.refreshed = x]
             IN Typed(d) /\ d.refreshed = x /\ \A f \in ClientFields \ {"refreshed"} : d[f] = c[f]
  <2> DEFINE d == [c EXCEPT !.refreshed = x]
  <2>1. d = [e \in ClientFields |-> IF e = "refreshed" THEN x ELSE c[e]]
    BY <1>1
  <2>. HIDE DEF d
  <2>2. Typed(d) /\ d["refreshed"] = x /\ \A e \in ClientFields \ {"refreshed"} : d[e] = c[e]
    BY <1>2, <1>5, <2>1
  <2>. QED  BY <2>2 DEF d
<1>. QED  BY <1>6, <1>7, <1>8, <1>9

\* A client that is idle has the models it had.
LEMMA IdleTyped ==
  ASSUME NEW c, Typed(c)
  PROVE  /\ Typed(Idle(c)) /\ Idle(c).expects = {} /\ Idle(c).buffer = <<>>
         /\ \A f \in ClientFields \ {"expects", "buffer"} : Idle(c)[f] = c[f]
<1> DEFINE d == [c EXCEPT !.expects = {}]
<1>1. Typed(d) /\ d.expects = {} /\ \A f \in ClientFields \ {"expects"} : d[f] = c[f]
  BY Controlled
<1>2. Idle(c) = [d EXCEPT !.buffer = <<>>]
  BY DEF Idle
<1>. HIDE DEF d
<1> DEFINE e == [d EXCEPT !.buffer = <<>>]
<1>3. Typed(e) /\ e.buffer = <<>> /\ \A f \in ClientFields \ {"buffer"} : e[f] = d[f]
  BY <1>1, Controlled
<1>4. "expects" \in ClientFields \ {"buffer"}
  BY DEF ClientFields
<1>. HIDE DEF e
<1>5. e.expects = {}
  BY <1>1, <1>3, <1>4
<1>6. \A f \in ClientFields \ {"expects", "buffer"} : e[f] = c[f]
  BY <1>1, <1>3
<1>. QED  BY <1>2, <1>3, <1>5, <1>6 DEF e

\* What a client does with the lines it reads, in each of the four cases.
LEMMA HearCases ==
  ASSUME NEW c, NEW lines
  PROVE  LET b == c.buffer \o lines
             last == Last(b)[1]
         IN /\ lines = <<>> => Hear(c, lines) = c
            /\ lines # <<>> /\ (c.expects = {} \/ last \in c.expects)
                 => Hear(c, lines) = HearLines(Idle(c), b, c.expects # {})
            /\ lines # <<>> /\ c.expects # {} /\ last \notin c.expects /\ last = "error"
                 => Hear(c, lines) = HearError(c, b)
            /\ lines # <<>> /\ c.expects # {} /\ last \notin c.expects /\ last # "error"
                 => Hear(c, lines) = [c EXCEPT !.buffer = b]
<1> DEFINE b == c.buffer \o lines
           last == Last(b)[1]
           none == lines = <<>>
           taken == lines # <<>> /\ (c.expects = {} \/ last \in c.expects)
           failed == lines # <<>> /\ ~ (c.expects = {} \/ last \in c.expects) /\ last = "error"
           all == HearLines(Idle(c), b, c.expects # {})
           lost == HearError(c, b)
           kept == [c EXCEPT !.buffer = b]
<1>1. Hear(c, lines) = CASE none -> c [] taken -> all [] failed -> lost [] OTHER -> kept
  BY DEF Hear, Buffered
<1>2. (none => ~ taken /\ ~ failed) /\ (taken => ~ none /\ ~ failed) /\ (failed => ~ none)
  OBVIOUS
<1>3. failed /\ last \notin c.expects => ~ taken
  OBVIOUS
<1>4. lines # <<>> /\ c.expects # {} /\ last \notin c.expects /\ last # "error"
        => ~ none /\ ~ taken /\ ~ failed
  OBVIOUS
<1>5. lines # <<>> /\ c.expects # {} /\ last \notin c.expects /\ last = "error"
        => failed /\ ~ none /\ ~ taken
  OBVIOUS
<1>. HIDE DEF none, taken, failed, all, lost, kept, last, b
<1>6. (none => Hear(c, lines) = c) /\ (taken => Hear(c, lines) = all)
  BY <1>1, <1>2
<1>7. ~ none /\ ~ taken /\ failed => Hear(c, lines) = lost
  BY <1>1
<1>8. ~ none /\ ~ taken /\ ~ failed => Hear(c, lines) = kept
  BY <1>1
<1>9. lines = <<>> => none
  BY DEF none
<1>10. lines # <<>> /\ (c.expects = {} \/ last \in c.expects) => taken
  BY DEF taken
<1>11. /\ lines = <<>> => Hear(c, lines) = c
       /\ lines # <<>> /\ (c.expects = {} \/ last \in c.expects) => Hear(c, lines) = all
       /\ lines # <<>> /\ c.expects # {} /\ last \notin c.expects /\ last = "error"
            => Hear(c, lines) = lost
       /\ lines # <<>> /\ c.expects # {} /\ last \notin c.expects /\ last # "error"
            => Hear(c, lines) = kept
  BY <1>4, <1>5, <1>6, <1>7, <1>8, <1>9, <1>10
<1>. QED  BY <1>11 DEF all, lost, kept, last, b

\* A client that hears what can be heard stays as it is to be.
LEMMA HearFine ==
  ASSUME NEW c, Fine(c), NEW lines, Told(lines)
  PROVE  Fine(Hear(c, lines))
<1> DEFINE b == c.buffer \o lines
           last == Last(b)[1]
<1>1. Typed(c) /\ Told(b)
  BY ToldLines DEF Fine
<1>2. Typed(Idle(c)) /\ Idle(c).buffer = <<>>
  BY <1>1, IdleTyped
<1>3. Told(<<>>)
  BY ToldLines
<1>4. Fine(HearLines(Idle(c), b, c.expects # {}))
  <2>1. Hears(Idle(c), HearLines(Idle(c), b, c.expects # {}))
    BY <1>1, <1>2, LinesHeard
  <2>2. "buffer" \in Controls
    BY DEF Controls
  <2>. HIDE DEF b
  <2>. QED  BY <1>2, <1>3, <2>1, <2>2 DEF Fine, Hears
<1>5. Fine(HearError(c, b))
  <2>1. PICK x : HearError(c, b) = [Idle(c) EXCEPT !.missed = x]
    BY DEF HearError
  <2> DEFINE d == [Idle(c) EXCEPT !.missed = x]
  <2>2. Typed(d) /\ \A f \in ClientFields \ {"missed"} : d[f] = Idle(c)[f]
    BY <1>2, Controlled
  <2>3. "buffer" \in ClientFields \ {"missed"}
    BY DEF ClientFields
  <2>. HIDE DEF d
  <2>4. Fine(d)
    BY <1>2, <1>3, <2>2, <2>3 DEF Fine
  <2>. QED  BY <2>1, <2>4 DEF d
<1>6. Fine([c EXCEPT !.buffer = b])
  <2>. HIDE DEF b
  <2>. QED  BY <1>1, Controlled DEF Fine
<1>7. \/ lines = <<>>
      \/ lines # <<>> /\ (c.expects = {} \/ last \in c.expects)
      \/ lines # <<>> /\ c.expects # {} /\ last \notin c.expects /\ last = "error"
      \/ lines # <<>> /\ c.expects # {} /\ last \notin c.expects /\ last # "error"
  OBVIOUS
<1>8. /\ lines = <<>> => Hear(c, lines) = c
      /\ lines # <<>> /\ (c.expects = {} \/ last \in c.expects)
           => Hear(c, lines) = HearLines(Idle(c), b, c.expects # {})
      /\ lines # <<>> /\ c.expects # {} /\ last \notin c.expects /\ last = "error"
           => Hear(c, lines) = HearError(c, b)
      /\ lines # <<>> /\ c.expects # {} /\ last \notin c.expects /\ last # "error"
           => Hear(c, lines) = [c EXCEPT !.buffer = b]
  BY HearCases
<1>. HIDE DEF b, last
<1>. QED  BY <1>4, <1>5, <1>6, <1>7, <1>8

\* What the proxy passes on can be heard.
LEMMA PassedOnTold ==
  ASSUME NEW proxy, Told(proxy.buffer), NEW lines, Told(lines)
  PROVE  Told(PassedOn(proxy, lines))
<1> DEFINE b == proxy.buffer \o lines
           passed == P!Passed([i \in DOMAIN b |-> b[i][1]], proxy.expects)
           seqs == [i \in DOMAIN b |-> IF i \in passed THEN <<b[i]>> ELSE <<>>]
<1>1. PassedOn(proxy, lines) = FlattenSeq(seqs) \/ PassedOn(proxy, lines) = <<>>
  BY DEF PassedOn, Buffered
<1>2. Told(b)
  BY ToldLines
<1>. HIDE DEF passed, b
<1>3. /\ Len(b) \in Nat /\ DOMAIN b = 1..Len(b)
      /\ \A i \in 1..Len(b) : GoodLine(b[i])
  <2>1. Len(b) \in Nat /\ \A i \in 1..Len(b) : GoodLine(b[i])
    BY <1>2, ToldHas
  <2>2. PICK S : b \in Seq(S)
    BY <1>2 DEF Told
  <2>. QED  BY <2>1, <2>2, LenProperties
<1>4. /\ seqs = [i \in 1..Len(b) |-> seqs[i]]
      /\ \A i \in 1..Len(b) : seqs[i] = <<b[i]>> \/ seqs[i] = <<>>
  BY <1>3
<1>. HIDE DEF seqs
<1>5. \A i \in 1..Len(b) : Told(seqs[i])
  BY <1>3, <1>4, ToldLines
<1>6. Told(FlattenSeq(seqs))
  BY <1>3, <1>4, <1>5, FlatTold
<1>. QED  BY <1>1, <1>6, ToldLines

\* All clients, with those that wait for an answer.
AllFine(waiting) == \A c \in Clients : Fine(waiting[c])

\* Everyone who hears an answer that can be heard stays as it is to be.
LEMMA AllHear ==
  ASSUME NEW waiting, AllFine(waiting), NEW lines, Told(lines)
  PROVE  /\ AllFine(HeardByAll(waiting, lines))
         /\ DOMAIN HeardByAll(waiting, lines) = Clients
         /\ AllFine(HeardFromProxy(waiting, lines))
         /\ DOMAIN HeardFromProxy(waiting, lines) = Clients
<1>1. ASSUME NEW c \in Clients PROVE Fine(HeardByAll(waiting, lines)[c])
  <2> DEFINE heard == IF c \in Behind THEN PassedOn(waiting[Proxy], lines) ELSE lines
  <2>1. Told(heard)
    <3>1. c \in Behind => Proxy \in Clients
      BY ClientsAssumption
    <3>2. c \in Behind => Told(PassedOn(waiting[Proxy], lines))
      BY <3>1, PassedOnTold DEF AllFine, Fine
    <3>. QED  BY <3>2
  <2>2. HeardByAll(waiting, lines)[c] = Hear(waiting[c], heard)
    BY DEF HeardByAll
  <2>. HIDE DEF heard
  <2>. QED  BY <2>1, <2>2, HearFine DEF AllFine
<1>2. ASSUME NEW c \in Clients PROVE Fine(HeardFromProxy(waiting, lines)[c])
  BY HearFine DEF HeardFromProxy, AllFine
<1>3. DOMAIN HeardByAll(waiting, lines) = Clients /\ DOMAIN HeardFromProxy(waiting, lines) = Clients
  BY DEF HeardByAll, HeardFromProxy
<1>. QED  BY <1>1, <1>2, <1>3 DEF AllFine

-----------------------------------------------------------------------------
(***************************************************************************)
(* The steps of the server, and what each of them tells.                   *)
(***************************************************************************)
\* A step whose answer tells what can be heard.
ToldStep == \E k, r : MayAsk(k, r) /\ Respond(k, r) /\ Tells(r.does)

\* Every request that the simulator answers is such a step when its outcome
\* tells.
LEMMA AnswersRespond ==
  ASSUME NEW k, NEW r, Tells(r.does)
  PROVE  /\ Answer(k, r) => ToldStep
         /\ ConfigurationRequest(k, r) => ToldStep
         /\ \A z : AnswerZone(k, z, r) => ToldStep
         /\ AnswerZones(k, r) => ToldStep
         /\ \A g : AnswerGroup(k, g, r) \/ AnswerGroupItself(k, g, r) => ToldStep
         /\ \A p : AnswerPreset(k, p, r) => ToldStep
         /\ \A name, i : AnswerItem(k, name, i, r) => ToldStep
         /\ \A name : AnswerModel(k, name, r) => ToldStep
<1>1. Answer(k, r) => ToldStep
  BY DEF Answer, ToldStep
<1>2. ConfigurationRequest(k, r) => ToldStep
  BY DEF ConfigurationRequest, ToldStep
<1>3. /\ \A z : AnswerZone(k, z, r) => Answer(k, r)
      /\ AnswerZones(k, r) => Answer(k, r)
      /\ \A g : AnswerGroup(k, g, r) \/ AnswerGroupItself(k, g, r) => Answer(k, r)
      /\ \A p : AnswerPreset(k, p, r) => Answer(k, r)
      /\ \A name, i : AnswerItem(k, name, i, r) => Answer(k, r)
      /\ \A name : AnswerModel(k, name, r) => Answer(k, r)
  BY Zenon DEF AnswerZone, AnswerZones, AnswerGroup, AnswerGroupItself, AnswerPreset, AnswerItem,
               AnswerModel
<1>. QED  BY <1>1, <1>2, <1>3

\* The requests for zones are such steps.
LEMMA ZoneStepsTell ==
  ASSUME Kept, NEW k
  PROVE  /\ RequestZone(k) => ToldStep
         /\ \A z \in 1..ZonesMax : RequestBass(k, z) \/ RequestTreble(k, z) => ToldStep
         /\ RequestToggle(k) => ToldStep
         /\ RequestAllZones(k) => ToldStep
         /\ QueryZone(k) => ToldStep
<1>1. /\ m.zones \in ZoneLists /\ DOMAIN m.zones = 1..ZonesMax
      /\ \A z \in 1..ZonesMax : m.zones[z] \in Zones
  BY KeptHas
<1>2. ASSUME RequestZone(k) PROVE ToldStep
  <2>1. PICK z \in 1..ZonesMax : \E r \in ZoneRequests(m.zones[z], z) : AnswerZone(k, z, r)
    BY <1>1, <1>2 DEF RequestZone
  <2>2. PICK r \in ZoneRequests(m.zones[z], z) : AnswerZone(k, z, r)
    BY <2>1
  <2>3. Tells(r.does)
    BY <1>1, TellsZoneRequests
  <2>. QED  BY <2>2, <2>3, AnswersRespond
<1>3. ASSUME NEW z \in 1..ZonesMax, RequestBass(k, z) \/ RequestTreble(k, z) PROVE ToldStep
  <2> DEFINE A(b, t) == Ask(C!SetTone(z), P!ZoneVolumeRequests.SetTone,
                            SetToneRequest(m.zones[z], z, [bass |-> b, treble |-> t]))
  <2>1. \E b, t : AnswerZone(k, z, A(b, t))
    <3>1. CASE RequestBass(k, z)
      <4>1. PICK bass : AnswerZone(k, z, Ask(C!SetTone(z), P!ZoneVolumeRequests.SetTone,
                                             SetToneRequest(m.zones[z], z,
                                               C!SetBass(views[k].zones[z].tone, bass))))
        BY <3>1 DEF RequestBass
      <4>. QED  BY <4>1 DEF C!SetBass
    <3>2. CASE RequestTreble(k, z)
      <4>1. PICK treble : AnswerZone(k, z, Ask(C!SetTone(z), P!ZoneVolumeRequests.SetTone,
                                               SetToneRequest(m.zones[z], z,
                                                 C!SetTreble(views[k].zones[z].tone, treble))))
        BY <3>2 DEF RequestTreble
      <4>. QED  BY <4>1 DEF C!SetTreble
    <3>. QED  BY <1>3, <3>1, <3>2
  <2>2. PICK b, t : AnswerZone(k, z, A(b, t))
    BY <2>1
  <2>3. Tells(A(b, t).does)
    <3> DEFINE o == SetToneRequest(m.zones[z], z, [bass |-> b, treble |-> t])
    <3>1. A(b, t).does = o
      BY AskDoes
    <3>2. Tells(o)
      BY <1>1, TellsTone
    <3>. HIDE DEF A, o
    <3>. QED  BY <3>1, <3>2
  <2>. HIDE DEF A
  <2>. QED  BY <2>2, <2>3, AnswersRespond
<1>4. ASSUME RequestToggle(k) PROVE ToldStep
  <2> DEFINE R(z) == Ask(C!ToggleMute(z), P!ZoneVolumeRequests.ToggleMute,
                         ToggleMuteRequest(m.zones[z], z))
  <2>1. PICK z \in 1..ZonesMax : AnswerZone(k, z, R(z))
    BY <1>1, <1>4 DEF RequestToggle
  <2>2. R(z).does = ToggleMuteRequest(m.zones[z], z)
    BY AskDoes
  <2>3. Tells(ToggleMuteRequest(m.zones[z], z))
    BY <1>1, TellsOther
  <2>. HIDE DEF R
  <2>4. Tells(R(z).does)
    BY <2>2, <2>3
  <2>. QED  BY <2>1, <2>4, AnswersRespond
<1>5. ASSUME RequestAllZones(k) PROVE ToldStep
  <2>1. PICK r \in {Ask(C!SetVolumeAll, P!ZoneVolumeRequests.SetVolumeAll,
                        SetVolumeAllRequest(m.zones, level)) : level \in Tried(Volumes)}
                   \cup {Ask(C!SetSourceAll(s), P!ZoneSourceRequests.SetSourceAll,
                             SetSourceAllRequest(m.zones, s)) : s \in Tried(1..SourcesMax)} :
          AnswerZones(k, r)
    BY <1>5, Zenon DEF RequestAllZones
  <2>2. \/ \E level : r.does = SetVolumeAllRequest(m.zones, level)
        \/ \E s : r.does = SetSourceAllRequest(m.zones, s)
    BY AskDoes
  <2>3. Tells(r.does)
    BY <1>1, <2>2, TellsAll
  <2>. QED  BY <2>1, <2>3, AnswersRespond
<1>6. ASSUME QueryZone(k) PROVE ToldStep
  <2>1. PICK z \in 1..ZonesMax : \E r \in ZoneQueries(m.zones[z], z) : Answer(k, r)
    BY <1>1, <1>6 DEF QueryZone
  <2>2. PICK r \in ZoneQueries(m.zones[z], z) : Answer(k, r)
    BY <2>1
  <2>3. Tells(r.does)
    BY <1>1, TellsZoneQueries
  <2>. QED  BY <2>2, <2>3, AnswersRespond
<1>. QED  BY <1>2, <1>3, <1>4, <1>5, <1>6

\* The requests for groups are such steps.
LEMMA GroupStepsTell ==
  ASSUME Kept, NEW k
  PROVE  /\ RequestGroup(k) => ToldStep
         /\ RequestGroupSource(k) => ToldStep
         /\ RequestGroupToggle(k) => ToldStep
         /\ RequestGroupAdjust(k) => ToldStep
         /\ RequestGroupItself(k) => ToldStep
<1>1. DOMAIN m.groups = 1..GroupsMax
  BY KeptHas
<1>2. ASSUME RequestGroup(k) PROVE ToldStep
  <2>1. PICK g \in 1..GroupsMax :
          \E r \in {Ask(C!GroupMute(g, mute), P!GroupLevelRequests.Mute,
                        MuteGroupRequest(m.groups[g], m.zones, g, mute)) : mute \in BOOLEAN}
                   \cup {Ask(C!GroupSetVolume(g), P!GroupSettingRequests.SetVolume,
                             SetGroupVolumeRequest(m.groups[g], m.zones, g, v)) :
                           v \in Tried(Volumes)} :
            AnswerGroup(k, g, r)
    BY <1>1, <1>2 DEF RequestGroup
  <2>2. PICK r \in {Ask(C!GroupMute(g, mute), P!GroupLevelRequests.Mute,
                        MuteGroupRequest(m.groups[g], m.zones, g, mute)) : mute \in BOOLEAN}
                   \cup {Ask(C!GroupSetVolume(g), P!GroupSettingRequests.SetVolume,
                             SetGroupVolumeRequest(m.groups[g], m.zones, g, v)) :
                           v \in Tried(Volumes)} :
          AnswerGroup(k, g, r)
    BY <2>1
  <2>3. \/ \E mute \in BOOLEAN : r.does = MuteGroupRequest(m.groups[g], m.zones, g, mute)
        \/ \E v : r.does = SetGroupVolumeRequest(m.groups[g], m.zones, g, v)
    BY AskDoes
  <2>4. Tells(r.does)
    BY <2>3, TellsGroup
  <2>. QED  BY <2>2, <2>4, AnswersRespond
<1>3. ASSUME RequestGroupSource(k) PROVE ToldStep
  <2> DEFINE O(g, s) == SetGroupSourceRequest(m.groups[g], m.zones, g, s)
             R(g, s) == Ask(C!GroupSetSource(g, s), P!GroupSettingRequests.SetSource, O(g, s))
  <2>1. PICK g \in 1..GroupsMax : \E s : Answer(k, R(g, s))
    BY <1>1, <1>3 DEF RequestGroupSource
  <2>2. PICK s : Answer(k, R(g, s))
    BY <2>1
  <2>3. R(g, s).does = O(g, s)
    BY AskDoes
  <2>4. Tells(O(g, s))
    BY TellsGroup
  <2>. HIDE DEF R, O
  <2>5. Tells(R(g, s).does)
    BY <2>3, <2>4
  <2>. QED  BY <2>2, <2>5, AnswersRespond
<1>4. ASSUME RequestGroupToggle(k) PROVE ToldStep
  <2> DEFINE R(g) == Ask(C!GroupToggleMute(g), P!GroupSettingRequests.ToggleMute,
                         ToggleGroupMuteRequest(m.groups[g], m.zones, g))
  <2>1. PICK g \in 1..GroupsMax : AnswerGroup(k, g, R(g))
    BY <1>1, <1>4 DEF RequestGroupToggle
  <2>2. R(g).does = ToggleGroupMuteRequest(m.groups[g], m.zones, g)
    BY AskDoes
  <2>3. Tells(ToggleGroupMuteRequest(m.groups[g], m.zones, g))
    BY TellsGroup
  <2>. HIDE DEF R
  <2>4. Tells(R(g).does)
    BY <2>2, <2>3
  <2>. QED  BY <2>1, <2>4, AnswersRespond
<1>5. ASSUME RequestGroupAdjust(k) PROVE ToldStep
  <2> DEFINE down(g) == DecreaseGroupVolumeRequest(m.groups[g], m.zones, g)
             upward(g) == IncreaseGroupVolumeRequest(m.groups[g], m.zones, g)
  <2>1. PICK g \in 1..GroupsMax :
          \E r \in {Ask(C!GroupDecreaseVolume(g), P!GroupLevelRequests.DecreaseVolume, down(g)),
                    Ask(C!GroupIncreaseVolume(g), P!GroupLevelRequests.IncreaseVolume, upward(g))} :
            AnswerGroup(k, g, r)
    BY <1>1, <1>5, Zenon DEF RequestGroupAdjust
  <2>2. PICK r \in {Ask(C!GroupDecreaseVolume(g), P!GroupLevelRequests.DecreaseVolume, down(g)),
                    Ask(C!GroupIncreaseVolume(g), P!GroupLevelRequests.IncreaseVolume, upward(g))} :
          AnswerGroup(k, g, r)
    BY <2>1
  <2>3. Tells(down(g)) /\ Tells(upward(g))
    BY TellsGroup
  <2>. HIDE DEF down, upward
  <2>4. Tells(r.does)
    BY <2>3, AskDoes
  <2>. QED  BY <2>2, <2>4, AnswersRespond
<1>6. ASSUME RequestGroupItself(k) PROVE ToldStep
  <2>1. PICK g \in 1..GroupsMax :
          \E r \in GroupItselfRequests(m.groups[g], g) : AnswerGroupItself(k, g, r)
    BY <1>1, <1>6 DEF RequestGroupItself
  <2>2. PICK r \in GroupItselfRequests(m.groups[g], g) : AnswerGroupItself(k, g, r)
    BY <2>1
  <2>3. \/ \E z : r.does = AddZoneRequest(m.groups[g], m.zones, g, z)
        \/ \E z : r.does = RemoveZoneRequest(m.groups[g], m.zones, g, z)
        \/ \E name \in Names : r.does = SetGroupNameRequest(m.groups[g], m.zones, g, name)
    BY AskDoes DEF GroupItselfRequests
  <2>4. Tells(r.does)
    BY <2>3, TellsGroup
  <2>. QED  BY <2>2, <2>4, AnswersRespond
<1>. QED  BY <1>2, <1>3, <1>4, <1>5, <1>6

\* All other requests are such steps.
LEMMA OtherStepsTell ==
  ASSUME Kept, NEW k
  PROVE  /\ RequestPreset(k) \/ RequestFavorite(k) \/ RequestSource(k) => ToldStep
         /\ RequestPanel(k) \/ RequestInfrared(k) => ToldStep
         /\ TelnetNetwork(k) \/ TelnetClearGroups(k) => ToldStep
         /\ SaveToBackupRequest(k) \/ LoadFromBackupRequest(k) \/ ResetToDefaultsRequest(k) => ToldStep
<1>1. /\ DOMAIN m.presets = 1..EqualizerPresetsMax /\ DOMAIN m.favorites = 1..FavoritesMax
      /\ DOMAIN m.sources = 1..SourcesMax
  BY KeptHas, ModelsHave
<1>2. ASSUME RequestPreset(k) PROVE ToldStep
  <2>1. PICK p \in 1..EqualizerPresetsMax :
          \E r \in PresetRequests(m.presets[p], p) : AnswerPreset(k, p, r)
    BY <1>1, <1>2 DEF RequestPreset
  <2>2. PICK r \in PresetRequests(m.presets[p], p) : AnswerPreset(k, p, r)
    BY <2>1
  <2>3. Tells(r.does)
    BY TellsPreset
  <2>. QED  BY <2>2, <2>3, AnswersRespond
<1>3. ASSUME RequestFavorite(k) PROVE ToldStep
  BY <1>1, <1>3, TellsModels, AnswersRespond DEF RequestFavorite
<1>4. ASSUME RequestSource(k) PROVE ToldStep
  BY <1>1, <1>4, TellsModels, AnswersRespond DEF RequestSource
<1>5. ASSUME RequestPanel(k) \/ RequestInfrared(k) PROVE ToldStep
  BY <1>5, TellsModels, AnswersRespond DEF RequestPanel, RequestInfrared
<1>6. ASSUME TelnetNetwork(k) PROVE ToldStep
  <2>1. PICK o \in NetworkRequests(m.network) : AnswerModel(k, "network", ByTelnet(o))
    BY <1>6 DEF TelnetNetwork
  <2>2. ByTelnet(o).does = o /\ Tells(o)
    BY AskDoes, TellsModels DEF ByTelnet, Directly
  <2>3. Tells(ByTelnet(o).does)
    BY <2>2
  <2>. QED  BY <2>1, <2>3, AnswersRespond
<1>7. ASSUME TelnetClearGroups(k) PROVE ToldStep
  <2> DEFINE o == ClearZonesRequest(m.groups)
  <2>1. Answer(k, ByTelnet(o))
    BY <1>7 DEF TelnetClearGroups
  <2>2. Tells(o)
    BY OtherLines, ToldLines DEF Tells, ClearZonesRequest
  <2>. HIDE DEF o
  <2>3. Tells(ByTelnet(o).does)
    BY <2>2, AskDoes DEF ByTelnet, Directly
  <2>. QED  BY <2>1, <2>3, AnswersRespond
<1>8. ASSUME NEW lines, Told(lines) PROVE Tells(Said(lines))
  BY <1>8 DEF Tells, Said
<1>9. ASSUME SaveToBackupRequest(k) PROVE ToldStep
  <2> DEFINE L(saved) == << <<"saving">>, <<IF saved THEN "saved" ELSE "error">> >>
             R(saved) == Ask(C!ConfigurationSaveToBackup, P!ConfigurationRequests.SaveToBackup,
                             Said(L(saved)))
  <2>1. PICK saved \in BOOLEAN : ConfigurationRequest(k, R(saved))
    BY <1>9 DEF SaveToBackupRequest
  <2>2. Told(L(saved))
    <3> DEFINE word == IF saved THEN "saved" ELSE "error"
    <3>1. word \in {"saved", "error"}
      OBVIOUS
    <3>. HIDE DEF word
    <3>2. GoodLine(<<"saving">>) /\ GoodLine(<<word>>)
      BY <3>1, OtherLines
    <3>3. Told(<< <<"saving">>, <<word>> >>)
      BY <3>2, ToldTwo
    <3>. QED  BY <3>3 DEF word
  <2>. HIDE DEF L
  <2>3. Tells(R(saved).does)
    BY <1>8, <2>2, AskDoes
  <2>. HIDE DEF R
  <2>. QED  BY <2>1, <2>3, AnswersRespond
<1>10. ASSUME LoadFromBackupRequest(k) PROVE ToldStep
  <2> DEFINE R == Ask(C!ConfigurationLoadFromBackup, P!ConfigurationRequests.LoadFromBackup,
                      Said(<< <<"loaded">> >>))
  <2>1. ConfigurationRequest(k, R)
    BY <1>10 DEF LoadFromBackupRequest
  <2>2. Tells(R.does)
    BY <1>8, OtherLines, ToldLines, AskDoes
  <2>. HIDE DEF R
  <2>. QED  BY <2>1, <2>2, AnswersRespond
<1>11. ASSUME ResetToDefaultsRequest(k) PROVE ToldStep
  <2> DEFINE R == Ask(C!ConfigurationResetToDefaults, P!ConfigurationRequests.ResetToDefaults,
                      Said(<< <<"reset">> >>))
  <2>1. ConfigurationRequest(k, R)
    BY <1>11 DEF ResetToDefaultsRequest
  <2>2. Tells(R.does)
    BY <1>8, OtherLines, ToldLines, AskDoes
  <2>. HIDE DEF R
  <2>. QED  BY <2>1, <2>2, AnswersRespond
<1>. QED  BY <1>2, <1>3, <1>4, <1>5, <1>6, <1>7, <1>9, <1>10, <1>11

\* So does every answer to a question of a telnet user.
LEMMA TelnetQueriesTell ==
  ASSUME Kept, NEW o \in TelnetQueries
  PROVE  Tells(o)
<1>1. /\ Typed(m)
      /\ DOMAIN m.groups = 1..GroupsMax /\ \A g \in 1..GroupsMax : m.groups[g] \in Groups
      /\ DOMAIN m.presets = 1..EqualizerPresetsMax
      /\ \A p \in 1..EqualizerPresetsMax : m.presets[p] \in Presets
      /\ DOMAIN m.favorites = 1..FavoritesMax /\ \A f \in 1..FavoritesMax : m.favorites[f] \in Items
      /\ m.panel \in PanelsWith({Null}) /\ m.infrared \in InfraredsWith({Null})
      /\ m.network \in NetworksWith({Null})
  <2>1. Typed(m)
    BY KeptHas, ServerIsTypedClient
  <2>. QED  BY <2>1, TypedHas
<1>2. \/ \E g \in 1..GroupsMax : o = QueryGroupRequest(m.groups[g], m.zones, g)
      \/ \E p \in 1..EqualizerPresetsMax : o = QueryPresetRequest(m.presets[p], p)
      \/ \E f \in 1..FavoritesMax : o = QueryFavoriteRequest(m.favorites[f], f)
      \/ o = QueryPanelRequest(m.panel) \/ o = QueryInfraredRequest(m.infrared)
      \/ o = QueryNetworkRequest(m.network)
      \/ o \in NoSuchElement
  BY <1>1 DEF TelnetQueries
<1>3. o \in NoSuchElement => Tells(o)
  <2>1. \A x \in NoSuchElement : \E s : x = [status |-> s, lines |-> <<>>, dirty |-> FALSE]
    BY DEF NoSuchElement
  <2>2. \A s : Tells([status |-> s, lines |-> <<>>, dirty |-> FALSE])
    BY ToldLines DEF Tells
  <2>. QED  BY <2>1, <2>2
<1>. QED  BY <1>1, <1>2, <1>3, TellsGroupQuery, TellsPresetQuery, TellsItemQueries, TellsModelQueries

\* The queries of a telnet client tell what can be heard.
LEMMA TelnetQueryTells ==
  ASSUME Kept, NEW t, TelnetQuery(t)
  PROVE  ToldStep
<1>1. PICK o \in TelnetQueries : Answer(t, ByTelnet(o))
  BY DEF TelnetQuery
<1>2. Tells(ByTelnet(o).does)
  BY TelnetQueriesTell, AskDoes DEF ByTelnet, Directly
<1>. QED  BY <1>1, <1>2, AnswersRespond

-----------------------------------------------------------------------------
(***************************************************************************)
(* The invariant of the server and of its clients.                         *)
(***************************************************************************)
\* All that clients know, and the bounds on what the environment does.
ViewsFine == DOMAIN views = Clients /\ AllFine(views)

Counted == requests \in 0..MaxRequests /\ starts \in 0..MaxStarts

\* What holds of the server, with what holds of its clients.
Known == Kept /\ ViewsFine /\ Counted

\* A client that knows nothing yet.
LEMMA NullsFine == Fine(ClientNulls)
<1>1. ClientNulls \in ServerModels /\ ClientNulls.buffer = <<>>
  BY NullsTyped DEF ClientNulls
<1>. QED  BY <1>1, ServerIsTypedClient, ToldLines DEF Fine

\* It holds at the start.
LEMMA KnownInit == Init => Known
<1> SUFFICES ASSUME Init PROVE Known
  OBVIOUS
<1>1. Kept
  BY KeptInit
<1>2. views = [k \in Clients |-> ClientNulls] /\ requests = 0 /\ starts = 0
  BY DEF Init
<1>3. ViewsFine
  BY <1>2, NullsFine DEF ViewsFine, AllFine
<1>4. Counted
  BY <1>2, BoundsAssumption DEF Counted
<1>. QED  BY <1>1, <1>3, <1>4 DEF Known

\* What clients have when a request has left those that ask waiting.
WaitingFor(k, r) ==
  [c \in Clients |->
     CASE c = k -> [views[c] EXCEPT !.expects = r.call.expects]
       [] k \in Behind /\ c = Proxy -> [views[c] EXCEPT !.expects = r.forward.expects]
       [] OTHER -> views[c]]

\* A client that has sent a request, and waits for what ends the exchange.
Asks(c, x) == [c EXCEPT !.expects = x]

\* Those that wait are the client that asks, and the proxy it asks by way of.
LEMMA WaitsOrNot ==
  ASSUME NEW k, NEW r, NEW c \in Clients
  PROVE  /\ c = k => WaitingFor(k, r)[c] = Asks(views[c], r.call.expects)
         /\ c = Proxy /\ k \in Behind => WaitingFor(k, r)[c] = Asks(views[c], r.forward.expects)
         /\ c # k /\ ~ (c = Proxy /\ k \in Behind) => WaitingFor(k, r)[c] = views[c]
<1>1. CASE c = k
  BY <1>1, ClientsAssumption DEF WaitingFor, Asks
<1>2. CASE c # k /\ c = Proxy /\ k \in Behind
  BY <1>2 DEF WaitingFor, Asks
<1>3. CASE c # k /\ ~ (c = Proxy /\ k \in Behind)
  BY <1>3 DEF WaitingFor
<1>. QED  BY <1>1, <1>2, <1>3

\* A client that waits has the models it had.
LEMMA AsksAlike ==
  ASSUME NEW c, Fine(c), NEW x
  PROVE  /\ Fine(Asks(c, x)) /\ Asks(c, x).expects = x
         /\ \A f \in ClientFields \ {"expects"} : Asks(c, x)[f] = c[f]
<1>1. Typed(c) /\ Told(c.buffer)
  BY DEF Fine
<1>2. /\ Typed(Asks(c, x)) /\ Asks(c, x).expects = x
      /\ \A f \in ClientFields \ {"expects"} : Asks(c, x)[f] = c[f]
  BY <1>1, Controlled DEF Asks
<1>3. "buffer" \in ClientFields \ {"expects"}
  BY DEF ClientFields
<1>. QED  BY <1>1, <1>2, <1>3 DEF Fine

\* Waiting for an answer leaves what clients have.
LEMMA WaitingFine ==
  ASSUME ViewsFine, NEW k, NEW r
  PROVE  AllFine(WaitingFor(k, r))
<1>1. ASSUME NEW c \in Clients PROVE Fine(WaitingFor(k, r)[c])
  <2>1. Fine(views[c])
    BY DEF ViewsFine, AllFine
  <2>2. WaitingFor(k, r)[c] = views[c] \/ \E x : WaitingFor(k, r)[c] = Asks(views[c], x)
    BY Zenon, WaitsOrNot
  <2>. QED  BY <2>1, <2>2, AsksAlike
<1>. QED  BY <1>1 DEF AllFine

\* A request leaves the clients that ask waiting, and all hear the answer.
LEMMA FineWhenTold ==
  ASSUME ViewsFine, ToldStep
  PROVE  ViewsFine'
<1>1. PICK k, r : Respond(k, r) /\ Tells(r.does)
  BY DEF ToldStep
<1>2. views' = HeardByAll(WaitingFor(k, r), AnswerLines(r.does))
  BY <1>1 DEF Respond, WaitingFor
<1>3. AllFine(WaitingFor(k, r)) /\ Told(AnswerLines(r.does))
  BY <1>1, WaitingFine, AnswerTold
<1>. QED  BY <1>2, <1>3, AllHear DEF ViewsFine

\* A client that refreshes derives the state of its groups.
LEMMA RefreshedFine ==
  ASSUME NEW c, Fine(c)
  PROVE  Fine(Refreshed(c))
<1> DEFINE d == [c EXCEPT !.refreshed = TRUE]
<1>1. Typed(c) /\ Told(c.buffer)
  BY DEF Fine
<1>2. Typed(d) /\ \A f \in ClientFields \ {"refreshed"} : d[f] = c[f]
  BY <1>1, Controlled
<1>3. Refreshed(c) = DeriveGroupState(d)
  BY DEF Refreshed
<1>. HIDE DEF d
<1>4. Rezoned(d, DeriveGroupState(d), d.zones)
  BY <1>2, DerivesGroups
<1>5. "buffer" \in ClientFields \ {"refreshed"} /\ "buffer" \in ClientFields \ {"zones", "groups"}
  BY DEF ClientFields
<1>. QED  BY <1>1, <1>2, <1>3, <1>4, <1>5 DEF Fine, Rezoned

\* A refresh from the server.
LEMMA FineWhenRefreshed ==
  ASSUME Known, NEW k
  PROVE  /\ Refresh(k) => ViewsFine'
         /\ k \in Behind /\ RefreshFromProxy(k) => ViewsFine'
<1>1. ASSUME NEW heard, AllFine(heard), DOMAIN heard = Clients
      PROVE  AllFine([heard EXCEPT ![k] = Refreshed(@)])
             /\ DOMAIN [heard EXCEPT ![k] = Refreshed(@)] = Clients
  <2>1. ASSUME NEW c \in Clients PROVE Fine([heard EXCEPT ![k] = Refreshed(@)][c])
    <3>1. \/ [heard EXCEPT ![k] = Refreshed(@)][c] = heard[c]
          \/ [heard EXCEPT ![k] = Refreshed(@)][c] = Refreshed(heard[c])
      BY <1>1
    <3>. QED  BY <1>1, <3>1, RefreshedFine DEF AllFine
  <2>. QED  BY <1>1, <2>1 DEF AllFine
<1>2. AllFine(views) /\ Typed(m)
  BY KeptHas, ServerIsTypedClient DEF Known, ViewsFine
<1>3. ASSUME Refresh(k) PROVE ViewsFine'
  <2> DEFINE heard == HeardByAll(views, RefreshLines(m))
  <2>1. views' = [heard EXCEPT ![k] = Refreshed(@)] \/ views' = heard
    BY <1>3 DEF Refresh
  <2>2. AllFine(heard) /\ DOMAIN heard = Clients
    BY <1>2, ToldRefresh, AllHear
  <2>. HIDE DEF heard
  <2>. QED  BY <1>1, <2>1, <2>2 DEF ViewsFine
<1>4. ASSUME k \in Behind, RefreshFromProxy(k) PROVE ViewsFine'
  <2> DEFINE heard == HeardFromProxy(views, RefreshLines(views[Proxy]))
  <2>1. views' = [heard EXCEPT ![k] = Refreshed(@)]
    BY <1>4 DEF RefreshFromProxy
  <2>2. Typed(views[Proxy])
    BY <1>2, <1>4, ClientsAssumption DEF AllFine, Fine
  <2>3. AllFine(heard) /\ DOMAIN heard = Clients
    BY <1>2, <2>2, ToldRefresh, AllHear
  <2>. HIDE DEF heard
  <2>. QED  BY <1>1, <2>1, <2>3 DEF ViewsFine
<1>. QED  BY <1>3, <1>4

\* What clients have when one of those behind the proxy has asked that.
AskingProxy(k, x) == [views EXCEPT ![k] = Asks(@, x)]

\* The proxy answers with lines that can be heard, and a client that waits for them waits for no
\* adjustment of a group.
LEMMA ProxyAnswers ==
  ASSUME Known, NEW k \in Askers \cap Behind, QueryProxy(k)
  PROVE  \E x, lines :
           /\ Told(lines) /\ x \cap {"group volume up", "group volume down"} = {}
           /\ views' = HeardFromProxy(AskingProxy(k, x), lines)
           /\ adrift' = adrift \cup Drifting(Behind, AskingProxy(k, x), lines)
<1>1. AllFine(views) /\ DOMAIN views = Clients /\ Typed(views[Proxy]) /\ DOMAIN m.zones = 1..ZonesMax
  BY KeptHas, ClientsAssumption DEF Known, ViewsFine, AllFine, Fine
<1> DEFINE V(r) == /\ views' = HeardFromProxy(AskingProxy(k, r.call.expects), r.does.lines)
                   /\ adrift' = adrift \cup Drifting(Behind, AskingProxy(k, r.call.expects), r.does.lines)
<1>2. \A x : AskingProxy(k, x) = [views EXCEPT ![k].expects = x]
  BY <1>1 DEF AskingProxy, Asks
<1>3. PICK z \in 1..ZonesMax : \E r \in ZoneQueries(views[Proxy].zones[z], z) : V(r)
  BY <1>1, <1>2 DEF QueryProxy
<1>. HIDE DEF V
<1>4. PICK r \in ZoneQueries(views[Proxy].zones[z], z) : V(r)
  BY <1>3
<1>5. Told(r.does.lines)
  <2>1. Tells(r.does)
    BY <1>1, TypedHas, TellsZoneQueries
  <2>. QED  BY <2>1 DEF Tells
<1>6. r.call.expects \cap {"group volume up", "group volume down"} = {}
  <2>1. \/ \E o : r = Directly(C!Query(z), o)
        \/ \E o : r = Directly(C!QueryMute(z), o)
        \/ \E o : r = Directly(C!QuerySource(z), o)
        \/ \E o : r = Directly(C!QueryVolume(z), o)
    BY Zenon DEF ZoneQueries
  <2>2. \A call, o : Directly(call, o).call = call
    BY DEF Directly, Ask
  <2>3. \/ r.call = C!Query(z) \/ r.call = C!QueryMute(z)
        \/ r.call = C!QuerySource(z) \/ r.call = C!QueryVolume(z)
    BY <2>1, <2>2
  <2>4. /\ C!Query(z).expects = {"zone query"} /\ C!QueryMute(z).expects = {"mute"}
        /\ C!QuerySource(z).expects = {"source"} /\ C!QueryVolume(z).expects = {"volume"}
    BY DEF C!Query, C!QueryMute, C!QuerySource, C!QueryVolume, C!SendCommand,
           C!QueryCommand, C!QueryMuteCommand, C!QuerySourceCommand, C!QueryVolumeCommand
  <2>. QED  BY <2>3, <2>4
<1>. QED  BY <1>4, <1>5, <1>6 DEF V

\* So does waiting for one of the proxy.
LEMMA AskingProxyFine ==
  ASSUME ViewsFine, NEW k, NEW x
  PROVE  AllFine(AskingProxy(k, x))
<1>1. ASSUME NEW c \in Clients PROVE Fine(AskingProxy(k, x)[c])
  <2>1. Fine(views[c]) /\ DOMAIN views = Clients
    BY DEF ViewsFine, AllFine
  <2>2. AskingProxy(k, x)[c] = views[c] \/ AskingProxy(k, x)[c] = Asks(views[c], x)
    BY <2>1 DEF AskingProxy
  <2>. QED  BY <2>1, <2>2, AsksAlike
<1>. QED  BY <1>1 DEF AllFine

\* A request that the proxy answers from what it knows.
LEMMA FineWhenProxyAnswers ==
  ASSUME Known, NEW k \in Askers \cap Behind, QueryProxy(k)
  PROVE  ViewsFine'
<1>1. PICK x, lines : Told(lines) /\ views' = HeardFromProxy(AskingProxy(k, x), lines)
  BY ProxyAnswers
<1>2. AllFine(AskingProxy(k, x))
  BY AskingProxyFine DEF Known
<1>. QED  BY <1>1, <1>2, AllHear DEF ViewsFine

\* The bounds on the environment hold after each step.
LEMMA CountedNext == Counted /\ [Next]_vars => Counted'
<1> SUFFICES ASSUME Counted, [Next]_vars PROVE Counted'
  OBVIOUS
<1> DEFINE More == requests < MaxRequests /\ requests' = requests + 1 /\ starts' = starts
           Same0 == requests' = requests /\ starts' = starts
<1>1. /\ \A k, r : Answer(k, r) => More
      /\ \A k, r : ConfigurationRequest(k, r) => More
  BY DEF Answer, ConfigurationRequest
<1>2. /\ \A k, z, r : AnswerZone(k, z, r) => More
      /\ \A k, r : AnswerZones(k, r) => More
      /\ \A k, g, r : AnswerGroup(k, g, r) \/ AnswerGroupItself(k, g, r) => More
      /\ \A k, p, r : AnswerPreset(k, p, r) => More
      /\ \A k, name, i, r : AnswerItem(k, name, i, r) => More
      /\ \A k, name, r : AnswerModel(k, name, r) => More
  <2>. HIDE DEF More
  <2>. QED  BY <1>1 DEF AnswerZone, AnswerZones, AnswerGroup, AnswerGroupItself, AnswerPreset,
                        AnswerItem, AnswerModel
<1>3. ASSUME NEW k, Request(k) PROVE More
  <2>. HIDE DEF More
  <2>1. RequestZone(k) \/ RequestToggle(k) \/ RequestAllZones(k) => More
    BY <1>2 DEF RequestZone, RequestToggle, RequestAllZones
  <2>2. RequestGroup(k) \/ RequestGroupToggle(k) \/ RequestGroupAdjust(k) \/ RequestGroupItself(k) => More
    BY <1>2 DEF RequestGroup, RequestGroupToggle, RequestGroupAdjust, RequestGroupItself
  <2>3. RequestGroupSource(k) => More
    BY <1>1 DEF RequestGroupSource
  <2>4. RequestPreset(k) \/ RequestFavorite(k) \/ RequestSource(k) \/ RequestPanel(k) \/ RequestInfrared(k) => More
    BY <1>2 DEF RequestPreset, RequestFavorite, RequestSource, RequestPanel, RequestInfrared
  <2>5. SaveToBackupRequest(k) \/ LoadFromBackupRequest(k) \/ ResetToDefaultsRequest(k) => More
    BY <1>1 DEF SaveToBackupRequest, LoadFromBackupRequest, ResetToDefaultsRequest
  <2>. QED  BY <1>3, <2>1, <2>2, <2>3, <2>4, <2>5 DEF Request
<1>4. ASSUME NEW k, NEW z, RequestBass(k, z) \/ RequestTreble(k, z) PROVE More
  <2>. HIDE DEF More
  <2>. QED  BY <1>2, <1>4 DEF RequestBass, RequestTreble
<1>5. ASSUME NEW k, QueryZone(k) \/ TelnetRequest(k) PROVE More
  <2>. HIDE DEF More
  <2>. QED  BY <1>1, <1>2, <1>5 DEF QueryZone, TelnetRequest, TelnetQuery, TelnetNetwork, TelnetClearGroups
<1>6. ASSUME NEW k, QueryProxy(k) PROVE More
  BY <1>6 DEF QueryProxy
<1>7. ASSUME NEW k, Refresh(k) \/ RefreshFromProxy(k) PROVE Same0
  BY <1>7 DEF Refresh, RefreshFromProxy
<1>8. (Stop \/ TimerDidFire \/ UNCHANGED vars) => Same0
  BY DEF Stop, TimerDidFire, vars
<1>9. Start => requests' = requests /\ starts < MaxStarts /\ starts' = starts + 1
  BY DEF Start
<1>10. \/ More \/ Same0
       \/ requests' = requests /\ starts < MaxStarts /\ starts' = starts + 1
  <2>. HIDE DEF More, Same0
  <2>. QED  BY <1>3, <1>4, <1>5, <1>6, <1>7, <1>8, <1>9 DEF Next
<1>. QED  BY <1>10, BoundsAssumption DEF Counted

\* The inductive step, by the actions of the server and of its clients.
LEMMA KnownNext == Known /\ [Next]_vars => Known'
<1> SUFFICES ASSUME Known, [Next]_vars PROVE Known'
  OBVIOUS
<1>1. Kept' /\ Counted'
  BY KeptNext, CountedNext DEF Known
<1>2. Kept /\ ViewsFine
  BY DEF Known
<1>3. ASSUME NEW k, Request(k) PROVE ToldStep
  BY <1>2, <1>3, ZoneStepsTell, GroupStepsTell, OtherStepsTell DEF Request
<1>4. ASSUME NEW k, TelnetRequest(k) PROVE ToldStep
  BY <1>2, <1>4, OtherStepsTell, TelnetQueryTells DEF TelnetRequest
<1>5. ASSUME NEW k, \/ QueryZone(k)
                    \/ \E z \in 1..ZonesMax : RequestBass(k, z) \/ RequestTreble(k, z)
      PROVE  ToldStep
  BY <1>2, <1>5, ZoneStepsTell
<1>6. ASSUME Start \/ TimerDidFire \/ UNCHANGED vars PROVE ViewsFine'
  <2>1. views' = views
    BY <1>6 DEF Start, TimerDidFire, vars
  <2>. QED  BY <1>2, <2>1 DEF ViewsFine, AllFine
<1>7. ASSUME Stop PROVE ViewsFine'
  <2>1. views' = [k \in Clients |-> ClientNulls]
    BY <1>7 DEF Stop
  <2>. QED  BY <2>1, NullsFine DEF ViewsFine, AllFine
<1>8. ViewsFine'
  BY <1>2, <1>3, <1>4, <1>5, <1>6, <1>7, FineWhenTold, FineWhenRefreshed, FineWhenProxyAnswers DEF Next
<1>. QED  BY <1>1, <1>8 DEF Known

\* The values of typed models are within their limits.
LEMMA TypedWithin ==
  ASSUME NEW models, Typed(models)
  PROVE  /\ \A z \in DOMAIN models.zones : LevelsAreAllowed(models.zones[z])
         /\ \A g \in DOMAIN models.groups :
              /\ models.groups[g].zones \subseteq 1..ZonesMax
              /\ models.groups[g].volume \in Volumes \cup {Null}
         /\ \A p \in DOMAIN models.presets :
              Range(models.presets[p].bands) \subseteq BandLevels \cup {Null}
         /\ models.panel.brightness \in Brightnesses \cup {Null}
<1>1. ASSUME NEW zone \in Zones PROVE LevelsAreAllowed(zone)
  BY DEF Zones, ZonesWith, LevelsAreAllowed, Range
<1>2. ASSUME NEW group \in Groups
      PROVE  group.zones \subseteq 1..ZonesMax /\ group.volume \in Volumes \cup {Null}
  BY DEF Groups
<1>3. ASSUME NEW preset \in Presets PROVE Range(preset.bands) \subseteq BandLevels \cup {Null}
  BY DEF Presets, PresetsWith, Range
<1>4. ASSUME NEW panel \in PanelsWith({Null}) PROVE panel.brightness \in Brightnesses \cup {Null}
  BY DEF PanelsWith
<1>5. /\ DOMAIN models.zones = 1..ZonesMax /\ \A z \in 1..ZonesMax : models.zones[z] \in Zones
      /\ DOMAIN models.groups = 1..GroupsMax /\ \A g \in 1..GroupsMax : models.groups[g] \in Groups
      /\ models.presets \in [1..EqualizerPresetsMax -> Presets]
      /\ models.panel \in PanelsWith({Null})
  BY TypedHas
<1>6. /\ DOMAIN models.presets = 1..EqualizerPresetsMax
      /\ \A p \in 1..EqualizerPresetsMax : models.presets[p] \in Presets
  BY <1>5
<1>. QED  BY <1>1, <1>2, <1>3, <1>4, <1>5, <1>6

\* No request, notification, refresh or backup takes a level beyond its limits,
\* on the server, on a client or on the proxy (the setters of Common::Model
\* behind the NotificationReceived handlers of lib/client).
THEOREM TypesHold == Spec => []TypeOK
<1>1. Init => Known
  BY KnownInit
<1>2. Known /\ [Next]_vars => Known'
  BY KnownNext
<1>3. Known => TypeOK
  <2> SUFFICES ASSUME Known PROVE TypeOK
    OBVIOUS
  <2>1. \A models \in {m} \cup Range(views) : Typed(models)
    BY KeptHas, ServerIsTypedClient DEF Known, ViewsFine, AllFine, Fine, Range
  <2>2. {up, dirty} \subseteq BOOLEAN
    BY DEF Known, Kept, ServerTyped
  <2>3. requests \in 0..MaxRequests /\ starts \in 0..MaxStarts
    BY DEF Known, Counted
  <2>. QED  BY <2>1, <2>2, <2>3, TypedWithin DEF TypeOK
<1>. QED  BY <1>1, <1>2, <1>3, PTL DEF Spec

-----------------------------------------------------------------------------
(***************************************************************************)
(* Groups and zones.  What is derived of the zones of a group, and when it is*)
(* what the group has.                                                     *)
(***************************************************************************)
\* The values of zones that those of a group follow from.
DerivedFields == {"mute", "volume", "source"}

\* What a group is derived from is known of the zones.
AllKnown(zones, Z) == \A z \in Z, field \in DerivedFields : zones[z][field] # Null

\* The mean of the volumes of zones.
MeanOf(zones, Z) == Mean(Accumulated(zones, Z), Cardinality(Z))

\* The group is empty, or is what the zones make of it.
Derived(c, g) ==
  \/ c.groups[g].zones = {}
  \/ DeriveGroupStateForGroup(c.groups[g], c.zones) = c.groups[g]

\* What becomes of a group that is derived, unless it has no zones.
LEMMA DeriveMakes ==
  ASSUME NEW group, NEW zones, group.zones # {}
  PROVE  LET Z == group.zones
         IN DeriveGroupStateForGroup(group, zones) =
              IF AllKnown(zones, Z)
              THEN [group EXCEPT !.mute = \A z \in Z : zones[z].mute,
                                 !.volume = SetVolume(group.volume, MeanOf(zones, Z)).value,
                                 !.sources = {zones[z].source : z \in Z}]
              ELSE group
<1> DEFINE Z == group.zones
           unknown == \E z \in Z : HasNull([f \in {"mute", "volume", "source"} |-> zones[z][f]])
<1>1. unknown <=> ~ AllKnown(zones, Z)
  BY DEF AllKnown, DerivedFields, HasNull
<1>2. DeriveGroupStateForGroup(group, zones) =
        IF unknown
        THEN group
        ELSE [group EXCEPT !.mute = \A z \in Z : zones[z].mute,
                           !.volume = SetVolume(@, MeanOf(zones, Z)).value,
                           !.sources = {zones[z].source : z \in Z}]
  BY DEF DeriveGroupStateForGroup, MeanOf
<1>. HIDE DEF unknown
<1>. QED  BY <1>1, <1>2

\* The zones are muted, each of them.
AllMuted(zones, Z) == \A z \in Z : zones[z].mute

\* The sources of the zones.
SourcesOf(zones, Z) == {zones[z].source : z \in Z}

\* What a group is then.
Fits(group, zones) ==
  AllKnown(zones, group.zones) =>
    /\ group.mute = AllMuted(zones, group.zones)
    /\ group.volume = SetVolume(group.volume, MeanOf(zones, group.zones)).value
    /\ group.sources = SourcesOf(zones, group.zones)

\* A group that is derived and stays as it is has the mute, the mean and the
\* sources of its zones.
LEMMA DerivedMeans ==
  ASSUME NEW group \in Groups, NEW zones, group.zones # {}
  PROVE  DeriveGroupStateForGroup(group, zones) = group <=> Fits(group, zones)
<1> DEFINE Z == group.zones
           mute == \A z \in Z : zones[z].mute
           volume == SetVolume(group.volume, MeanOf(zones, Z)).value
           sources == {zones[z].source : z \in Z}
<1>1. DeriveGroupStateForGroup(group, zones) =
        IF AllKnown(zones, Z)
        THEN [group EXCEPT !.mute = mute, !.volume = volume, !.sources = sources]
        ELSE group
  BY DeriveMakes
<1>. HIDE DEF mute, volume, sources
<1>2. [group EXCEPT !.mute = mute, !.volume = volume, !.sources = sources] = group
        <=> group.mute = mute /\ group.volume = volume /\ group.sources = sources
  BY DEF Groups
<1>3. DeriveGroupStateForGroup(group, zones) = group
        <=> (AllKnown(zones, Z) =>
               group.mute = mute /\ group.volume = volume /\ group.sources = sources)
  BY <1>1, <1>2
<1>. QED  BY <1>3 DEF mute, volume, sources, Fits, AllMuted, SourcesOf

\* The same of the group of a client.
LEMMA DerivedFits ==
  ASSUME NEW c, NEW g, c.groups[g] \in Groups
  PROVE  Derived(c, g) <=> c.groups[g].zones = {} \/ Fits(c.groups[g], c.zones)
<1>1. \A group \in Groups : group.zones # {} =>
        (DeriveGroupStateForGroup(group, c.zones) = group <=> Fits(group, c.zones))
  BY DerivedMeans
<1>. QED  BY <1>1 DEF Derived

\* Zones that have the same mute, volume and source make the same of a group.
AlikeIn(Z, zones, others) ==
  \A z \in Z, field \in DerivedFields : zones[z][field] = others[z][field]

\* Zones that are alike make the same of a group.
LEMMA AlikeMakesAlike ==
  ASSUME NEW Z, NEW zones, NEW others, AlikeIn(Z, zones, others)
  PROVE  /\ AllKnown(zones, Z) <=> AllKnown(others, Z)
         /\ AllMuted(zones, Z) = AllMuted(others, Z)
         /\ MeanOf(zones, Z) = MeanOf(others, Z)
         /\ SourcesOf(zones, Z) = SourcesOf(others, Z)
<1>1. \A z \in Z : /\ zones[z].mute = others[z].mute /\ zones[z].volume = others[z].volume
                   /\ zones[z].source = others[z].source
  BY DEF AlikeIn, DerivedFields
<1>2. AllKnown(zones, Z) <=> AllKnown(others, Z)
  BY DEF AlikeIn, AllKnown
<1>3. [z \in Z |-> zones[z].volume] = [z \in Z |-> others[z].volume]
  BY <1>1
<1>4. MeanOf(zones, Z) = MeanOf(others, Z)
  BY <1>3 DEF MeanOf, Accumulated
<1>5. AllMuted(zones, Z) = AllMuted(others, Z)
  BY <1>1, Zenon DEF AllMuted
<1>6. SourcesOf(zones, Z) = SourcesOf(others, Z)
  BY <1>1 DEF SourcesOf
<1>. QED  BY <1>2, <1>4, <1>5, <1>6

\* A group that has the same state as another, and zones that are alike.
LEMMA DerivedAlike ==
  ASSUME NEW c, NEW d, NEW g \in 1..GroupsMax, c.groups[g] \in Groups, d.groups[g] \in Groups,
         \A field \in {"zones", "mute", "volume", "sources"} : d.groups[g][field] = c.groups[g][field],
         AlikeIn(c.groups[g].zones, d.zones, c.zones), Derived(c, g)
  PROVE  Derived(d, g)
<1> DEFINE Z == c.groups[g].zones
<1>1. /\ d.groups[g].zones = Z /\ d.groups[g].mute = c.groups[g].mute
      /\ d.groups[g].volume = c.groups[g].volume /\ d.groups[g].sources = c.groups[g].sources
  OBVIOUS
<1>2. Z = {} \/ Fits(c.groups[g], c.zones)
  BY DerivedFits
<1>3. /\ AllKnown(d.zones, Z) <=> AllKnown(c.zones, Z)
      /\ AllMuted(d.zones, Z) = AllMuted(c.zones, Z)
      /\ MeanOf(d.zones, Z) = MeanOf(c.zones, Z)
      /\ SourcesOf(d.zones, Z) = SourcesOf(c.zones, Z)
  <2>. HIDE DEF Z
  <2>1. AlikeIn(Z, d.zones, c.zones)
    BY DEF Z
  <2>. QED  BY <2>1, AlikeMakesAlike
<1>. HIDE DEF Z
<1>4. Fits(c.groups[g], c.zones) => Fits(d.groups[g], d.zones)
  BY <1>1, <1>3 DEF Fits, Z
<1>. QED  BY <1>1, <1>2, <1>4, DerivedFits

\* To derive twice is to derive once.
LEMMA DerivedOnce ==
  ASSUME NEW group \in Groups, NEW zones \in ZoneLists, group.zones # {}
  PROVE  LET left == DeriveGroupStateForGroup(group, zones)
         IN DeriveGroupStateForGroup(left, zones) = left
<1> DEFINE Z == group.zones
           mean == MeanOf(zones, Z)
           left == DeriveGroupStateForGroup(group, zones)
<1>1. left = IF AllKnown(zones, Z)
             THEN [group EXCEPT !.mute = \A z \in Z : zones[z].mute,
                                !.volume = SetVolume(group.volume, mean).value,
                                !.sources = {zones[z].source : z \in Z}]
             ELSE group
  BY DeriveMakes
<1>2. left \in Groups /\ left.zones = Z
  BY DerivedTyped
<1>3. ASSUME AllKnown(zones, Z)
      PROVE  /\ left.mute = (\A z \in Z : zones[z].mute)
             /\ left.volume = SetVolume(group.volume, mean).value
             /\ left.sources = {zones[z].source : z \in Z}
  <2> DEFINE mute == \A z \in Z : zones[z].mute
             sources == {zones[z].source : z \in Z}
             volume == SetVolume(group.volume, mean).value
  <2>1. left = [group EXCEPT !.mute = mute, !.volume = volume, !.sources = sources]
    BY <1>1, <1>3
  <2>. HIDE DEF mute, volume, sources, left
  <2>2. left.mute = mute /\ left.volume = volume /\ left.sources = sources
    BY <2>1 DEF Groups
  <2>. QED  BY <2>2 DEF mute, volume, sources
<1>4. SetVolume(SetVolume(group.volume, mean).value, mean).value = SetVolume(group.volume, mean).value
  BY DEF SetVolume, SetWithin, Set
<1>. HIDE DEF left, mean
<1>5. left.zones # {}
  BY <1>2
<1>6. Fits(left, zones)
  BY <1>2, <1>3, <1>4 DEF mean, Fits, AllMuted, SourcesOf
<1>7. DeriveGroupStateForGroup(left, zones) = left
  BY <1>2, <1>5, <1>6, DerivedMeans
<1>. QED  BY <1>7 DEF left

-----------------------------------------------------------------------------
(***************************************************************************)
(* A client derives the groups of zones that change.                       *)
(***************************************************************************)
\* A group is derived again, or neither it nor its zones changed.
Redone(c, d, g) ==
  \/ Derived(d, g)
  \/ d.groups[g] = c.groups[g] /\ AlikeIn(c.groups[g].zones, d.zones, c.zones)

\* A group follows from its zones when it is derived again, or when neither it
\* nor they change.
LEMMA RedoneKeeps ==
  ASSUME NEW c, NEW d, NEW g \in 1..GroupsMax, Typed(c), Typed(d), Redone(c, d, g), Derived(c, g)
  PROVE  Derived(d, g)
<1>1. c.groups[g] \in Groups /\ d.groups[g] \in Groups
  BY TypedHas
<1>. QED  BY <1>1, DerivedAlike DEF Redone

\* What a client has with other groups.
LEMMA GroupsAre ==
  ASSUME NEW c, Typed(c), NEW groups
  PROVE  WithGroups(c, groups).groups = groups /\ WithGroups(c, groups).zones = c.zones
<1>1. DOMAIN c = ClientFields /\ {"zones", "groups"} \subseteq ClientFields
  BY DEF Typed, ClientFields, Parts
<1>. QED  BY <1>1 DEF WithGroups

\* A refreshed client derives the groups of zones that change.
LEMMA ChangesRederive ==
  ASSUME NEW c, Typed(c), c.refreshed, NEW zones \in ZoneLists, NEW g \in 1..GroupsMax
  PROVE  Redone(c, MaybeHandleZoneStateChanges(c, zones), g)
<1> DEFINE moved == {z \in DOMAIN zones :
                       \/ zones[z].mute # c.zones[z].mute
                       \/ zones[z].source # c.zones[z].source
                       \/ zones[z].volume # c.zones[z].volume}
           left == [c EXCEPT !.zones = zones]
           some == [h \in DOMAIN left.groups |->
                      IF left.groups[h].zones \cap moved # {}
                      THEN DeriveGroupStateForGroup(left.groups[h], left.zones)
                      ELSE left.groups[h]]
           d == MaybeHandleZoneStateChanges(c, zones)
<1>0. /\ DOMAIN c.groups = 1..GroupsMax /\ c.groups[g] \in Groups /\ c.groups[g].zones \subseteq 1..ZonesMax
      /\ DOMAIN zones = 1..ZonesMax
  BY TypedHas DEF Groups, ZoneLists
<1>1. CASE zones = c.zones
  <2>1. d = c
    BY <1>1 DEF MaybeHandleZoneStateChanges
  <2>. HIDE DEF d
  <2>2. Redone(c, d, g)
    BY <2>1 DEF Redone, AlikeIn
  <2>. QED  BY <2>2 DEF d
<1>2. CASE zones # c.zones
  <2>1. Took(c, left, "zones", zones)
    BY TakesPart
  <2>2. Typed(left) /\ left.zones = zones /\ left.groups = c.groups
    BY <2>1 DEF Took, ClientFields, Parts
  <2>3. d = DeriveGroupStateForGroupsIncludingZones(left, moved)
    BY <1>2 DEF MaybeHandleZoneStateChanges
  <2>4. d = WithGroups(left, some)
    BY <2>3 DEF DeriveGroupStateForGroupsIncludingZones
  <2>. HIDE DEF d, left
  <2>5. d.groups = some /\ d.zones = zones
    <3>. HIDE DEF some
    <3>. QED  BY <2>2, <2>4, GroupsAre
  <2>6. some[g] = IF c.groups[g].zones \cap moved # {}
                  THEN DeriveGroupStateForGroup(c.groups[g], zones)
                  ELSE c.groups[g]
    BY <1>0, <2>2
  <2>7. CASE c.groups[g].zones \cap moved # {}
    <3>1. c.groups[g].zones # {}
      BY <2>7
    <3>2. \A group \in Groups : group.zones # {} =>
            DeriveGroupStateForGroup(DeriveGroupStateForGroup(group, zones), zones)
              = DeriveGroupStateForGroup(group, zones)
      BY DerivedOnce
    <3>. HIDE DEF some, moved
    <3>3. DeriveGroupStateForGroup(d.groups[g], d.zones) = d.groups[g]
      BY <1>0, <2>5, <2>6, <2>7, <3>1, <3>2
    <3>. QED  BY <3>3 DEF Redone, Derived, d
  <2>8. CASE c.groups[g].zones \cap moved = {}
    <3>1. AlikeIn(c.groups[g].zones, zones, c.zones)
      BY <1>0, <2>8 DEF AlikeIn, DerivedFields
    <3>. HIDE DEF some, moved
    <3>. QED  BY <2>5, <2>6, <2>8, <3>1 DEF Redone, d
  <2>. QED  BY <2>7, <2>8
<1>. QED  BY <1>1, <1>2

\* So do the changes of mutes, sources and volumes.
LEMMA HandlersRederive ==
  ASSUME NEW c, Typed(c), c.refreshed, NEW Z, NEW g \in 1..GroupsMax
  PROVE  /\ \A mute \in BOOLEAN : Redone(c, HandleMuteChange(c, Z, mute), g)
         /\ \A s \in 1..SourcesMax : Redone(c, HandleSourceChange(c, Z, s), g)
         /\ \A volume : Redone(c, HandleVolumeChange(c, Z, volume), g)
<1>0. c.zones \in ZoneLists
  BY TypedHas
<1>1. ASSUME NEW mute \in BOOLEAN PROVE Redone(c, HandleMuteChange(c, Z, mute), g)
  <2>1. HandleMuteChange(c, Z, mute) = MaybeHandleZoneStateChanges(c, Muted(c.zones, Z, mute))
    BY DEF HandleMuteChange, Muted
  <2>2. Muted(c.zones, Z, mute) \in ZoneLists
    BY <1>0, ChangesTyped
  <2>. QED  BY <2>1, <2>2, ChangesRederive
<1>2. ASSUME NEW s \in 1..SourcesMax PROVE Redone(c, HandleSourceChange(c, Z, s), g)
  <2>1. HandleSourceChange(c, Z, s) = MaybeHandleZoneStateChanges(c, Sourced(c.zones, Z, s))
    BY DEF HandleSourceChange, Sourced
  <2>2. Sourced(c.zones, Z, s) \in ZoneLists
    BY <1>0, ChangesTyped
  <2>. QED  BY <2>1, <2>2, ChangesRederive
<1>3. ASSUME NEW volume PROVE Redone(c, HandleVolumeChange(c, Z, volume), g)
  <2>1. HandleVolumeChange(c, Z, volume) = MaybeHandleZoneStateChanges(c, Leveled(c.zones, Z, volume))
    BY DEF HandleVolumeChange, Leveled
  <2>2. Leveled(c.zones, Z, volume) \in ZoneLists
    BY <1>0, ChangesTyped
  <2>. QED  BY <2>1, <2>2, ChangesRederive
<1>. QED  BY <1>1, <1>2, <1>3

-----------------------------------------------------------------------------
(***************************************************************************)
(* Sums and means.  The mean of equal volumes is their volume.             *)
(***************************************************************************)
\* Division undoes multiplication.
LEMMA QuotientOfProduct ==
  ASSUME NEW v \in Nat, NEW n \in Nat, n > 0
  PROVE  (v * n) \div n = v
<1> DEFINE q == (v * n) \div n
<1>1. q \in Int /\ n * q <= v * n /\ v * n < n * (q + 1)
  OBVIOUS
<1>. HIDE DEF q
<1>2. n * q <= n * v /\ n * v < n * (q + 1)
  BY <1>1
<1>3. ~ q < v
  <2>1. ASSUME q < v PROVE FALSE
    <3>1. q + 1 <= v
      BY <1>1, <2>1
    <3>2. n * (q + 1) <= n * v
      BY <1>1, <3>1
    <3>. QED  BY <1>1, <1>2, <3>2
  <2>. QED  BY <2>1
<1>4. ~ q > v
  <2>1. ASSUME q > v PROVE FALSE
    <3>1. q - v >= 1
      BY <1>1, <2>1
    <3>2. n * (q - v) >= n
      BY <1>1, <3>1
    <3>3. n * (q - v) = n * q - n * v
      BY <1>1
    <3>. QED  BY <1>1, <1>2, <3>2, <3>3
  <2>. QED  BY <2>1
<1>5. q = v
  BY <1>1, <1>3, <1>4
<1>. QED  BY <1>5 DEF q

\* The mean of equal levels is that level.
LEMMA MeanOfEquals ==
  ASSUME NEW v \in Int, NEW n \in Nat, n > 0
  PROVE  Mean(v * n, n) = v
<1>1. CASE v >= 0
  <2>1. v \in Nat /\ (v * n) \div n = v
    BY <1>1, QuotientOfProduct
  <2>2. v * n >= 0
    BY <1>1
  <2>. QED  BY <2>1, <2>2 DEF Mean
<1>2. CASE v < 0
  <2>1. -v \in Nat
    BY <1>2
  <2>2. ((-v) * n) \div n = -v
    BY <2>1, QuotientOfProduct
  <2>3. v * n < 0 /\ -(v * n) = (-v) * n
    BY <1>2
  <2>. QED  BY <2>2, <2>3 DEF Mean
<1>. QED  BY <1>1, <1>2

\* The sum of values that are all the same.
LEMMA SumOfEquals ==
  ASSUME NEW Z, IsFiniteSet(Z), NEW v \in Int
  PROVE  SumFunction([z \in Z |-> v]) = v * Cardinality(Z)
<1> DEFINE f == [z \in Z |-> v]
           H(g) == g = [s \in SUBSET Z |->
                          IF s = {}
                          THEN 0
                          ELSE f[CHOOSE x \in s : TRUE] + g[s \ {CHOOSE x \in s : TRUE}]]
           h == CHOOSE g : H(g)
<1>1. SumFunction(f) = h[Z]
  BY DEF SumFunction, SumFunctionOnSet, FoldFunctionOnSet, MapThenFoldSet
<1>2. \A s \in SUBSET Z : IsFiniteSet(s) /\ Cardinality(s) \in Nat
  BY FS_Subset, FS_CardinalityType
<1>3. ASSUME NEW s \in SUBSET Z, s # {}, NEW x, x = CHOOSE y \in s : TRUE
      PROVE  x \in s /\ s \ {x} \in SUBSET Z /\ Cardinality(s \ {x}) = Cardinality(s) - 1
  <2>1. x \in s
    BY <1>3
  <2>. QED  BY <1>2, <2>1, FS_RemoveElement
<1>4. \A s \in SUBSET Z : Cardinality(s) = 0 <=> s = {}
  BY <1>2, FS_EmptySet
<1> DEFINE k == [s \in SUBSET Z |-> v * Cardinality(s)]
<1>5. H(k)
  <2>1. ASSUME NEW s \in SUBSET Z
        PROVE  k[s] = IF s = {}
                      THEN 0
                      ELSE f[CHOOSE x \in s : TRUE] + k[s \ {CHOOSE x \in s : TRUE}]
    <3>1. CASE s = {}
      BY <1>4, <3>1
    <3>2. CASE s # {}
      <4> DEFINE x == CHOOSE y \in s : TRUE
      <4>1. x \in s /\ s \ {x} \in SUBSET Z /\ Cardinality(s \ {x}) = Cardinality(s) - 1
        BY <1>3, <3>2
      <4>. HIDE DEF x
      <4>2. f[x] = v /\ k[s \ {x}] = v * (Cardinality(s) - 1)
        BY <4>1
      <4>3. Cardinality(s) \in Nat /\ k[s] = v * Cardinality(s)
        BY <1>2
      <4>4. v * Cardinality(s) = v + v * (Cardinality(s) - 1)
        BY <4>3
      <4>5. k[s] = f[x] + k[s \ {x}]
        BY <4>2, <4>3, <4>4
      <4>. QED  BY <3>2, <4>5 DEF x
    <3>. QED  BY <3>1, <3>2
  <2>. HIDE DEF f
  <2>. QED  BY <2>1
<1>6. H(h)
  <2>. HIDE DEF H, k
  <2>. QED  BY <1>5
<1>. HIDE DEF h
<1> DEFINE T == {n \in Nat : \A s \in SUBSET Z : Cardinality(s) = n => h[s] = v * n}
<1>7. T = Nat
  <2>1. 0 \in T
    <3>1. \A s \in SUBSET Z : Cardinality(s) = 0 => h[s] = 0
      BY <1>4, <1>6
    <3>. QED  BY <3>1
  <2>2. ASSUME NEW n \in T PROVE n + 1 \in T
    <3>1. ASSUME NEW s \in SUBSET Z, Cardinality(s) = n + 1 PROVE h[s] = v * (n + 1)
      <4> DEFINE x == CHOOSE y \in s : TRUE
      <4>0. s # {}
        BY <1>4, <3>1
      <4>1. x \in s /\ s \ {x} \in SUBSET Z /\ Cardinality(s \ {x}) = Cardinality(s) - 1
        BY <1>3, <4>0
      <4>2. h[s] = f[x] + h[s \ {x}]
        BY <1>6, <4>0
      <4>. HIDE DEF x, H, h
      <4>3. f[x] = v /\ h[s \ {x}] = v * n
        BY <3>1, <4>1
      <4>. HIDE DEF f
      <4>4. v + v * n = v * (n + 1)
        OBVIOUS
      <4>. QED  BY <4>2, <4>3, <4>4
    <3>. QED  BY <3>1
  <2>. HIDE DEF T
  <2>3. T \in SUBSET Nat
    BY DEF T
  <2>. QED  BY <2>1, <2>2, <2>3, SetInduction
<1>8. Cardinality(Z) \in T /\ Z \in SUBSET Z
  BY <1>2, <1>7
<1>. QED  BY <1>1, <1>8

\* Zones that are equally loud.
LEMMA EqualLevels ==
  ASSUME NEW zones \in ZoneLists, NEW Z \in SUBSET (1..ZonesMax), Z # {}, NEW v \in Volumes,
         \A z \in Z : zones[z].volume = v
  PROVE  MeanOf(zones, Z) = v
<1>1. v \in Int
  BY RangesAssumption DEF IsRange
<1>2. IsFiniteSet(Z) /\ Cardinality(Z) \in Nat /\ Cardinality(Z) # 0
  <2>1. IsFiniteSet(1..ZonesMax)
    BY RangesAssumption, FS_Interval
  <2>2. IsFiniteSet(Z)
    BY <2>1, FS_Subset
  <2>. QED  BY <2>2, FS_EmptySet, FS_CardinalityType
<1>3. [z \in Z |-> zones[z].volume] = [z \in Z |-> v]
  OBVIOUS
<1>4. Accumulated(zones, Z) = v * Cardinality(Z)
  BY <1>1, <1>2, <1>3, SumOfEquals DEF Accumulated
<1>5. Mean(v * Cardinality(Z), Cardinality(Z)) = v
  BY <1>1, <1>2, MeanOfEquals
<1>. QED  BY <1>4, <1>5 DEF MeanOf

-----------------------------------------------------------------------------
(***************************************************************************)
(* A group that is muted, or given a source or a volume, gives it to its   *)
(* zones, so that it follows from them.                                    *)
(***************************************************************************)
\* A client that takes a group.
WithGroup(c, g, group) == [c EXCEPT !.groups[g] = group]

\* A client that is told of a group has its other models as they were.
LEMMA GroupTaken ==
  ASSUME NEW c, Typed(c), NEW g \in 1..GroupsMax, NEW group \in Groups
  PROVE  LET d == WithGroup(c, g, group)
         IN
         /\ Typed(d) /\ d.refreshed = c.refreshed /\ d.zones = c.zones /\ d.groups[g] = group
         /\ \A h \in 1..GroupsMax \ {g} : /\ d.groups[h] = c.groups[h]
                                          /\ Derived(c, h) => Derived(d, h)
<1> DEFINE v == [c.groups EXCEPT ![g] = group]
           d == WithGroup(c, g, group)
<1>0. DOMAIN c.groups = 1..GroupsMax
  BY TypedHas
<1>1. v[g] = group /\ \A h \in 1..GroupsMax \ {g} : v[h] = c.groups[h]
  BY <1>0
<1>. HIDE DEF v
<1>2. Took(c, d, "groups", v)
  BY TakesGroup DEF v, WithGroup
<1>. HIDE DEF d
<1>3. {"refreshed", "zones"} \subseteq ClientFields \ {"groups"}
  BY DEF ClientFields, Parts
<1>4. Typed(d) /\ d.refreshed = c.refreshed /\ d.zones = c.zones /\ d.groups = v
  BY <1>2, <1>3 DEF Took
<1>5. \A h \in 1..GroupsMax \ {g} : /\ d.groups[h] = c.groups[h]
                                    /\ Derived(c, h) => Derived(d, h)
  BY <1>1, <1>4 DEF Derived
<1>. QED  BY <1>1, <1>4, <1>5 DEF d

\* A group of zones that are not all known is what they make of it.
LEMMA UnknownDerived ==
  ASSUME NEW c, NEW g, c.groups[g] \in Groups, ~ AllKnown(c.zones, c.groups[g].zones)
  PROVE  Derived(c, g)
BY DerivedFits DEF Fits

\* A mute a group is told is that of its zones.
LEMMA GroupMuteRederives ==
  ASSUME NEW c, Typed(c), c.refreshed, NEW g \in 1..GroupsMax, NEW mute \in BOOLEAN
  PROVE  LET d == GroupHandleMuteChange(c, g, mute)
         IN /\ \A h \in 1..GroupsMax : Derived(c, h) => Derived(d, h)
            /\ Derived(d, g) \/ AlikeIn(c.groups[g].zones, d.zones, c.zones)
<1> DEFINE Z == c.groups[g].zones
           group == [c.groups[g] EXCEPT !.mute = mute]
           left == WithGroup(c, g, group)
           e == HandleMuteChange(left, Z, mute)
           d == GroupHandleMuteChange(c, g, mute)
<1>0. c.groups[g] \in Groups /\ Z \in SUBSET (1..ZonesMax) /\ c.zones \in ZoneLists
  BY TypedHas DEF Groups
<1>1. group \in Groups /\ group.zones = Z
  BY <1>0, GroupSetters
<1>2. (d = c /\ c.groups[g].mute = mute) \/ (d = e /\ c.groups[g].mute # mute)
  BY DEF WithGroup, GroupHandleMuteChange, SetMute, Set, Changed
<1>. HIDE DEF group, d
<1>3. /\ Typed(left) /\ left.refreshed = c.refreshed /\ left.zones = c.zones /\ left.groups[g] = group
      /\ \A h \in 1..GroupsMax \ {g} : Derived(c, h) => Derived(left, h)
  <2>1. Typed(left)
    BY <1>0, <1>1, GroupTaken
  <2>2. left.refreshed = c.refreshed
    BY <1>0, <1>1, GroupTaken
  <2>3. left.zones = c.zones
    BY <1>0, <1>1, GroupTaken
  <2>4. left.groups[g] = group
    BY <1>0, <1>1, GroupTaken
  <2>5. ASSUME NEW h \in 1..GroupsMax \ {g}, Derived(c, h) PROVE Derived(left, h)
    BY <1>0, <1>1, <2>5, GroupTaken, Zenon
  <2>. QED  BY <2>1, <2>2, <2>3, <2>4, <2>5
<1>. HIDE DEF left
<1>4. \A h \in 1..GroupsMax : Redone(left, e, h)
  BY <1>3, HandlersRederive
<1>5. Rezoned(left, e, Muted(left.zones, Z, mute))
  BY <1>3, HandledChanges
<1>. HIDE DEF e
<1>6. Typed(e) /\ e.zones = Muted(c.zones, Z, mute) /\ e.groups[g].zones = Z
  BY <1>1, <1>3, <1>5 DEF Rezoned
<1>7. \A h \in 1..GroupsMax \ {g} : Derived(c, h) => Derived(e, h)
  BY <1>3, <1>4, <1>6, RedoneKeeps
<1>8. Derived(e, g) \/ AlikeIn(Z, e.zones, c.zones)
  BY <1>1, <1>3, <1>4 DEF Redone
<1>9. ASSUME c.groups[g].mute # mute, Derived(c, g), ~ Derived(e, g) PROVE FALSE
  <2>0. e.groups[g] \in Groups
    BY <1>6, TypedHas
  <2>1. AlikeIn(Z, e.zones, c.zones) /\ Z # {}
    BY <1>6, <1>8, <1>9 DEF Derived
  <2>2. AllKnown(e.zones, Z)
    BY <1>6, <1>9, <2>0, UnknownDerived
  <2>3. AllKnown(c.zones, Z)
    BY <2>1, <2>2, AlikeMakesAlike
  <2>4. \A z \in Z : c.zones[z].mute = mute
    <3>1. ASSUME NEW z \in Z PROVE c.zones[z].mute = mute
      <4>1. e.zones[z].mute = c.zones[z].mute
        BY <2>1 DEF AlikeIn, DerivedFields
      <4>2. z \in 1..ZonesMax /\ c.zones[z] \in Zones /\ DOMAIN c.zones = 1..ZonesMax
        BY <1>0 DEF ZoneLists
      <4>3. e.zones[z] = [c.zones[z] EXCEPT !.mute = mute]
        BY <1>6, <4>2 DEF Muted, SetMute, Set
      <4>4. e.zones[z].mute = mute
        BY <4>2, <4>3 DEF Zones, ZonesWith
      <4>. QED  BY <4>1, <4>4
    <3>. QED  BY <3>1
  <2>5. AllMuted(c.zones, Z) = mute
    BY <2>1, <2>4, Zenon DEF AllMuted
  <2>6. Fits(c.groups[g], c.zones)
    BY <1>0, <1>9, <2>1, DerivedFits
  <2>. QED  BY <1>9, <2>3, <2>5, <2>6 DEF Fits
<1>10. \A h \in 1..GroupsMax : Derived(c, h) => Derived(d, h)
  BY <1>2, <1>7, <1>9
<1>11. Derived(d, g) \/ AlikeIn(Z, d.zones, c.zones)
  BY <1>2, <1>8 DEF AlikeIn
<1>. QED  BY <1>10, <1>11 DEF d

\* So is a source.
LEMMA GroupSourceRederives ==
  ASSUME NEW c, Typed(c), c.refreshed, NEW g \in 1..GroupsMax, NEW s \in 1..SourcesMax,
         NEW h \in 1..GroupsMax, Derived(c, h)
  PROVE  Derived(GroupHandleSourceChange(c, g, s), h)
<1> DEFINE Z == c.groups[g].zones
           r == GroupSetSource(c.groups[g], s)
           group == r.value
           left == WithGroup(c, g, group)
           e == HandleSourceChange(left, Z, s)
           d == GroupHandleSourceChange(c, g, s)
<1>0. c.groups[g] \in Groups /\ Z \in SUBSET (1..ZonesMax) /\ c.zones \in ZoneLists
  BY TypedHas DEF Groups
<1>1. group \in Groups /\ group.zones = Z
  BY <1>0, GroupSetters
<1>2. d = c \/ (d = e /\ Changed(r))
  BY <1>1 DEF WithGroup, GroupHandleSourceChange, GetZones
<1>3. Changed(r) => c.groups[g].sources # {s}
  <2>1. {<<s>>[i] : i \in DOMAIN <<s>>} = {s} /\ Len(<<s>>) = 1
    OBVIOUS
  <2>2. r.status = SetIdentifiers(c.groups[g].sources, <<s>>).status
    BY DEF GroupSetSource, SetField
  <2>. QED  BY <2>1, <2>2 DEF SetIdentifiers, Set, Changed
<1>. HIDE DEF group, d, r
<1>4. /\ Typed(left) /\ left.refreshed = c.refreshed /\ left.zones = c.zones /\ left.groups[g] = group
      /\ \A i \in 1..GroupsMax \ {g} : Derived(c, i) => Derived(left, i)
  <2>1. Typed(left)
    BY <1>0, <1>1, GroupTaken
  <2>2. left.refreshed = c.refreshed
    BY <1>0, <1>1, GroupTaken
  <2>3. left.zones = c.zones
    BY <1>0, <1>1, GroupTaken
  <2>4. left.groups[g] = group
    BY <1>0, <1>1, GroupTaken
  <2>5. ASSUME NEW i \in 1..GroupsMax \ {g}, Derived(c, i) PROVE Derived(left, i)
    BY <1>0, <1>1, <2>5, GroupTaken, Zenon
  <2>. QED  BY <2>1, <2>2, <2>3, <2>4, <2>5
<1>. HIDE DEF left
<1>5. \A i \in 1..GroupsMax : Redone(left, e, i)
  BY <1>4, HandlersRederive
<1>6. Rezoned(left, e, Sourced(left.zones, Z, s))
  BY <1>4, HandledChanges
<1>. HIDE DEF e
<1>7. Typed(e) /\ e.zones = Sourced(c.zones, Z, s) /\ e.groups[g].zones = Z
  BY <1>1, <1>4, <1>6 DEF Rezoned
<1>8. CASE h # g
  BY <1>2, <1>4, <1>5, <1>7, <1>8, RedoneKeeps DEF d
<1>9. ASSUME h = g, Changed(r), ~ Derived(e, g) PROVE FALSE
  <2>0. e.groups[g] \in Groups
    BY <1>7, TypedHas
  <2>1. AlikeIn(Z, e.zones, c.zones) /\ Z # {}
    BY <1>1, <1>4, <1>5, <1>7, <1>9 DEF Derived, Redone
  <2>2. AllKnown(e.zones, Z)
    BY <1>7, <1>9, <2>0, UnknownDerived
  <2>3. AllKnown(c.zones, Z)
    BY <2>1, <2>2, AlikeMakesAlike
  <2>4. \A z \in Z : c.zones[z].source = s
    <3>1. ASSUME NEW z \in Z PROVE c.zones[z].source = s
      <4>1. e.zones[z].source = c.zones[z].source
        BY <2>1 DEF AlikeIn, DerivedFields
      <4>2. z \in 1..ZonesMax /\ c.zones[z] \in Zones /\ DOMAIN c.zones = 1..ZonesMax
        BY <1>0 DEF ZoneLists
      <4>3. e.zones[z] = [c.zones[z] EXCEPT !.source = s]
        BY <1>7, <4>2 DEF Sourced, SetIdentifier, Set
      <4>4. e.zones[z].source = s
        BY <4>2, <4>3 DEF Zones, ZonesWith
      <4>. QED  BY <4>1, <4>4
    <3>. QED  BY <3>1
  <2>5. SourcesOf(c.zones, Z) = {s}
    BY <2>1, <2>4 DEF SourcesOf
  <2>6. Fits(c.groups[g], c.zones)
    BY <1>0, <1>9, <2>1, DerivedFits
  <2>. QED  BY <1>3, <1>9, <2>3, <2>5, <2>6 DEF Fits
<1>. QED  BY <1>2, <1>8, <1>9 DEF d

\* And a volume, which unmutes first.
LEMMA GroupVolumeRederives ==
  ASSUME NEW c, Typed(c), c.refreshed, NEW g \in 1..GroupsMax, NEW level,
         NEW h \in 1..GroupsMax, Derived(c, h)
  PROVE  Derived(GroupHandleVolumeChange(c, g, level), h)
<1> DEFINE Z == c.groups[g].zones
           r == OutputSetVolume(c.groups[g], level)
           group == r.value
           left == WithGroup(c, g, group)
           u == GroupHandleMuteChange(left, g, FALSE)
           levels == [z \in Z |-> level]
           e == HandleVolumeChange(u, Z, levels)
           d == GroupHandleVolumeChange(c, g, level)
<1>0. c.groups[g] \in Groups /\ Z \in SUBSET (1..ZonesMax) /\ c.zones \in ZoneLists
  BY TypedHas DEF Groups
<1>1. group \in Groups /\ group.zones = Z
  BY <1>0, GroupSetters
<1>2. d = c \/ (d = e /\ Changed(r))
  BY <1>1 DEF WithGroup, GroupHandleVolumeChange, GetZones
<1>3. Changed(r) => level \in Volumes /\ c.groups[g].volume # level
  BY DEF OutputSetVolume, SetField, SetVolume, SetWithin, Set, Changed
<1>. HIDE DEF group, d, r
<1>4. /\ Typed(left) /\ left.refreshed = c.refreshed /\ left.zones = c.zones /\ left.groups[g] = group
      /\ \A i \in 1..GroupsMax \ {g} : Derived(c, i) => Derived(left, i)
  <2>1. Typed(left)
    BY <1>0, <1>1, GroupTaken
  <2>2. left.refreshed = c.refreshed
    BY <1>0, <1>1, GroupTaken
  <2>3. left.zones = c.zones
    BY <1>0, <1>1, GroupTaken
  <2>4. left.groups[g] = group
    BY <1>0, <1>1, GroupTaken
  <2>5. ASSUME NEW i \in 1..GroupsMax \ {g}, Derived(c, i) PROVE Derived(left, i)
    BY <1>0, <1>1, <2>5, GroupTaken, Zenon
  <2>. QED  BY <2>1, <2>2, <2>3, <2>4, <2>5
<1>. HIDE DEF left
<1>5. /\ \A i \in 1..GroupsMax : Derived(left, i) => Derived(u, i)
      /\ Derived(u, g) \/ AlikeIn(Z, u.zones, c.zones)
  BY <1>1, <1>4, GroupMuteRederives
<1>6. Spread(left, u, Z)
  BY <1>1, <1>4, GroupMuteSpreads
<1>7. Typed(u) /\ u.refreshed /\ u.groups[g].zones = Z
  <2>1. "refreshed" \in ClientFields \ {"zones", "groups"}
    BY DEF ClientFields, Parts
  <2>2. left.groups[g].zones = Z /\ left.refreshed
    BY <1>1, <1>4
  <2>. HIDE DEF Z, u
  <2>. QED  BY <1>6, <2>1, <2>2 DEF Spread
<1>. HIDE DEF u, levels
<1>8. \A i \in 1..GroupsMax : Redone(u, e, i)
  BY <1>7, HandlersRederive
<1>9. Rezoned(u, e, Leveled(u.zones, Z, levels))
  BY <1>7, HandledChanges
<1>. HIDE DEF e
<1>10. Typed(e) /\ e.zones = Leveled(u.zones, Z, levels) /\ e.groups[g].zones = Z
  BY <1>7, <1>9 DEF Rezoned
<1>11. CASE h # g
  BY <1>2, <1>4, <1>5, <1>7, <1>8, <1>10, <1>11, RedoneKeeps DEF d
<1>12. ASSUME h = g, Changed(r), ~ Derived(e, g) PROVE FALSE
  <2>0. e.groups[g] \in Groups
    BY <1>10, TypedHas
  <2>1. AlikeIn(Z, e.zones, u.zones) /\ Z # {}
    BY <1>7, <1>8, <1>10, <1>12 DEF Derived, Redone
  <2>2. ~ Derived(u, g)
    BY <1>7, <1>8, <1>10, <1>12, RedoneKeeps
  <2>3. AlikeIn(Z, u.zones, c.zones)
    BY <1>5, <2>2
  <2>4. AllKnown(e.zones, Z)
    BY <1>10, <1>12, <2>0, UnknownDerived
  <2>5. AllKnown(c.zones, Z)
    BY <2>1, <2>3, <2>4, AlikeMakesAlike
  <2>6. level \in Volumes
    BY <1>3, <1>12
  <2>7. \A z \in Z : c.zones[z].volume = level
    <3>1. ASSUME NEW z \in Z PROVE c.zones[z].volume = level
      <4>1. e.zones[z].volume = c.zones[z].volume
        BY <2>1, <2>3 DEF AlikeIn, DerivedFields
      <4>2. z \in 1..ZonesMax /\ u.zones[z] \in Zones /\ DOMAIN u.zones = 1..ZonesMax
        BY <1>0, <1>7, TypedHas
      <4>3. e.zones[z] = [u.zones[z] EXCEPT !.volume = level]
        BY <1>10, <2>6, <4>2 DEF Leveled, SetVolume, SetWithin, Set, levels
      <4>4. e.zones[z].volume = level
        BY <4>2, <4>3 DEF Zones, ZonesWith
      <4>. QED  BY <4>1, <4>4
    <3>. QED  BY <3>1
  <2>8. MeanOf(c.zones, Z) = level
    BY <1>0, <2>1, <2>6, <2>7, EqualLevels
  <2>9. Fits(c.groups[g], c.zones)
    BY <1>0, <1>12, <2>1, DerivedFits
  <2>10. c.groups[g].volume = SetVolume(c.groups[g].volume, level).value
    BY <2>5, <2>8, <2>9 DEF Fits
  <2>11. SetVolume(c.groups[g].volume, level).value = level
    BY <2>6 DEF SetVolume, SetWithin, Set
  <2>. QED  BY <1>3, <1>12, <2>10, <2>11
<1>. QED  BY <1>2, <1>11, <1>12 DEF d

-----------------------------------------------------------------------------
(***************************************************************************)
(* Groups that are toggled or adjusted, and lines about zones.             *)
(***************************************************************************)
\* A client that asked for a toggle assumes what came of it.
LEMMA ToggleRederives ==
  ASSUME NEW c, Typed(c), c.refreshed, NEW g \in 1..GroupsMax, NEW h \in 1..GroupsMax, Derived(c, h)
  PROVE  Derived(ToggleMuteCompleteHandler(c, g), h)
<1> DEFINE mute == c.groups[g].mute
           d == ToggleMuteCompleteHandler(c, g)
<1>1. c.groups[g] \in Groups /\ mute \in BOOLEAN \cup {Null}
  BY TypedHas DEF Groups
<1>2. CASE mute = Null
  <2>1. Failed(OutputGetMute(c.groups[g]))
    BY <1>2 DEF OutputGetMute, GetMute, Get, Failed
  <2>2. d = c
    BY <2>1 DEF ToggleMuteCompleteHandler
  <2>. QED  BY <2>2
<1>3. CASE mute # Null
  <2>1. (~ mute) \in BOOLEAN
    BY <1>1, <1>3
  <2>2. d = c \/ d = GroupHandleMuteChange(c, g, ~ mute)
    BY DEF ToggleMuteCompleteHandler
  <2>. HIDE DEF d, mute
  <2>3. Derived(GroupHandleMuteChange(c, g, ~ mute), h)
    BY <2>1, GroupMuteRederives
  <2>. QED  BY <2>2, <2>3 DEF d
<1>. QED  BY <1>2, <1>3

\* One that asked for an adjustment makes a mean of its own, of the one group.
LEMMA AdjustRederives ==
  ASSUME NEW c, Typed(c), c.refreshed, NEW g \in 1..GroupsMax, NEW by,
         NEW h \in 1..GroupsMax, h # g, Derived(c, h)
  PROVE  Derived(AdjustVolumeCompleteHandler(c, g, by), h)
<1> DEFINE u == GroupHandleMuteChange(c, g, FALSE)
           Y == {z \in GetZones(u.groups[g]) : ~Failed(OutputGetVolume(u.zones[z]))}
           level == [z \in Y |-> u.zones[z].volume + by]
           mean == Mean(Accumulated(u.zones, Y) + by * Cardinality(Y),
                        Cardinality(u.groups[g].zones))
           d == HandleVolumeChange(u, Y, level)
           group == OutputSetVolume(d.groups[g], mean).value
           e == WithGroup(d, g, group)
<1>1. AdjustVolumeCompleteHandler(c, g, by) \in {u, e}
  BY DEF AdjustVolumeCompleteHandler, WithGroup
<1>2. Derived(u, h)
  BY GroupMuteRederives
<1>3. Spread(c, u, c.groups[g].zones)
  BY GroupMuteSpreads
<1>. HIDE DEF u
<1>4. Hears(c, u)
  BY <1>3, ChangedHears
<1>5. Typed(u) /\ u.refreshed
  BY <1>4 DEF Hears, Controls
<1>. HIDE DEF level, mean
<1>6. Redone(u, d, h)
  BY <1>5, HandlersRederive
<1>7. Rezoned(u, d, Leveled(u.zones, Y, level))
  BY <1>5, HandledChanges
<1>. HIDE DEF d
<1>8. Typed(d) /\ d.groups[g] \in Groups
  <2>1. Typed(d)
    BY <1>7 DEF Rezoned
  <2>. QED  BY <2>1, TypedHas
<1>9. Derived(d, h)
  BY <1>2, <1>5, <1>6, <1>8, RedoneKeeps
<1>10. group \in Groups
  BY <1>8, GroupSetters
<1>. HIDE DEF group
<1>11. Derived(e, h)
  BY <1>8, <1>9, <1>10, GroupTaken, Zenon
<1>. HIDE DEF e
<1>. QED  BY <1>1, <1>2, <1>11

\* Lines about zones that do not bear on groups.
QuietKinds == {"fixed", "balance", "band", "preset", "tone", "highpass", "lowpass", "mode", "name"}

\* Lines about zones that do.
MovingKinds == {"mute", "source", "source all", "volume", "volume all"}

\* The first leave of a zone what groups are derived from.
LEMMA QuietZone ==
  ASSUME NEW zone \in Zones, NEW l, l[1] \in QuietKinds, NEW field \in DerivedFields
  PROVE  ZoneHears(zone, l)[field] = zone[field]
<1>1. ASSUME NEW v PROVE [zone EXCEPT !.bands = v][field] = zone[field]
  BY DEF Zones, ZonesWith, DerivedFields
<1>2. ASSUME NEW other \in {"fixed", "balance", "preset", "tone", "highpass", "lowpass",
                            "mode", "name"}, NEW r
      PROVE  SetField(zone, other, r).value[field] = zone[field]
  <2>1. SetField(zone, other, r).value = [zone EXCEPT ![other] = r.value]
    BY DEF SetField
  <2>2. [zone EXCEPT ![other] = r.value][field] = zone[field]
    BY DEF Zones, ZonesWith, DerivedFields
  <2>. QED  BY <2>1, <2>2
<1>3. CASE l[1] = "band"
  <2> DEFINE v == SetLevel(zone.bands[l[3]], l[4]).value
             bands == [zone.bands EXCEPT ![l[3]] = v]
  <2>1. ZoneHears(zone, l) = [zone EXCEPT !.bands = bands]
    BY <1>3 DEF ZoneHears, SetBand
  <2>. HIDE DEF bands
  <2>2. [zone EXCEPT !.bands = bands][field] = zone[field]
    BY <1>1
  <2>. QED  BY <2>1, <2>2
<1>4. ASSUME l[1] # "band"
      PROVE  \E other \in {"fixed", "balance", "preset", "tone", "highpass", "lowpass",
                           "mode", "name"} : \E r : ZoneHears(zone, l) = SetField(zone, other, r).value
  BY <1>4 DEF QuietKinds, ZoneHears, ZoneSetVolumeFixed, ZoneSetBalance, ZoneSetEqualizerPreset,
              ZoneSetTone, ZoneSetHighpassFrequency, ZoneSetLowpassFrequency, ZoneSetSoundMode,
              OutputSetName, SoundSetEqualizerPreset, SoundSetTone, SoundSetHighpassFrequency,
              SoundSetLowpassFrequency, SoundSetSoundMode
<1>. QED  BY <1>2, <1>3, <1>4

\* A line about zones, of either sort.
LEMMA ZoneLineRederives ==
  ASSUME NEW c, Typed(c), c.refreshed, NEW l, GoodLine(l), l[1] \in ZoneKinds \cup AllKinds,
         NEW g \in 1..GroupsMax, Derived(c, g)
  PROVE  Derived(HearZone(c, l), g)
<1> DEFINE zones == ZonesHear(c.zones, l)
           d == HearZone(c, l)
<1>0. /\ c.zones \in ZoneLists /\ DOMAIN c.zones = 1..ZonesMax
      /\ \A z \in 1..ZonesMax : c.zones[z] \in Zones
      /\ c.groups[g] \in Groups /\ c.groups[g].zones \subseteq 1..ZonesMax
  BY TypedHas DEF Groups
<1>1. zones \in ZoneLists
  BY <1>0, ZonesHearTyped
<1>2. Rezoned(c, d, zones)
  BY HearsZones
<1>3. Typed(d) /\ d.zones = zones
  BY <1>2 DEF Rezoned
<1>4. CASE l[1] \in MovingKinds
  <2>1. d = MaybeHandleZoneStateChanges(c, zones)
    BY <1>4, HearsZones DEF MovingKinds
  <2>. HIDE DEF d, zones
  <2>2. Redone(c, d, g)
    BY <1>1, <2>1, ChangesRederive
  <2>3. Derived(d, g)
    BY <1>3, <2>2, RedoneKeeps
  <2>. QED  BY <2>3 DEF d
<1>5. CASE l[1] \notin MovingKinds
  <2>1. l[1] \in QuietKinds
    BY <1>5 DEF QuietKinds, MovingKinds, ZoneKinds, AllKinds
  <2>2. d = [c EXCEPT !.zones = zones]
    BY <1>5, HearsZones DEF MovingKinds
  <2>3. AlikeIn(c.groups[g].zones, zones, c.zones)
    <3>1. ASSUME NEW z \in c.groups[g].zones, NEW field \in DerivedFields
          PROVE  zones[z][field] = c.zones[z][field]
      <4>1. zones[z] = IF l[1] \in AllKinds \/ z = l[2] THEN ZoneHears(c.zones[z], l) ELSE c.zones[z]
        BY <1>0 DEF ZonesHear
      <4>. QED  BY <1>0, <2>1, <4>1, QuietZone
    <3>. HIDE DEF zones
    <3>. QED  BY <3>1 DEF AlikeIn
  <2>4. d.groups = c.groups
    BY <2>2
  <2>. HIDE DEF d, zones
  <2>5. Redone(c, d, g)
    BY <1>3, <2>3, <2>4 DEF Redone
  <2>6. Derived(d, g)
    BY <1>3, <2>5, RedoneKeeps
  <2>. QED  BY <2>6 DEF d
<1>. QED  BY <1>4, <1>5

-----------------------------------------------------------------------------
(***************************************************************************)
(* Groups follow from zones after each line that leaves their zones.       *)
(***************************************************************************)
\* Lines that move the volumes of the zones of a group up or down.
Adjusts == {"group volume up", "group volume down"}

\* A line that leaves the zones Z of a group g.
LeavesZones(l, g, Z) ==
  /\ l[1] = "group zone added" /\ l[2] = g => l[3] \in Z
  /\ l[1] = "group zone removed" /\ l[2] = g => l[3] \notin Z

\* The group has its zones yet, and follows from them.
KeepsDerived(c, d, g) == Derived(d, g) /\ d.groups[g].zones = c.groups[g].zones

\* What is given to the zones of a group leaves which zones those are.
LEMMA SpreadKeepsZones ==
  ASSUME NEW c, NEW d, NEW Z, Spread(c, d, Z), NEW g \in 1..GroupsMax, Derived(d, g)
  PROVE  KeepsDerived(c, d, g)
BY DEF Spread, KeepsDerived

\* A line about a group that is given to its zones.
LEMMA GroupLineRederives ==
  ASSUME NEW c, Typed(c), c.refreshed, NEW l, GoodLine(l), l[1] \in SpreadKinds,
         NEW g \in 1..GroupsMax, Derived(c, g)
  PROVE  KeepsDerived(c, HearGroup(c, l), g)
<1> DEFINE d == HearGroup(c, l)
<1>1. Spread(c, d, c.groups[l[2]].zones)
  BY HearsGroup
<1>2. l[2] \in 1..GroupsMax
  BY DEF GoodLine, GroupKinds, SpreadKinds
<1>3. CASE l[1] = "group mute"
  <2>1. d = GroupHandleMuteChange(c, l[2], l[3]) /\ l[3] \in BOOLEAN
    BY <1>3 DEF HearGroup, GoodLine
  <2>. HIDE DEF d
  <2>2. Derived(d, g)
    BY <1>2, <2>1, GroupMuteRederives
  <2>. QED  BY <1>1, <2>2, SpreadKeepsZones DEF d
<1>4. CASE l[1] = "group source"
  <2>1. d = GroupHandleSourceChange(c, l[2], l[3]) /\ l[3] \in 1..SourcesMax
    BY <1>4 DEF HearGroup, GoodLine
  <2>. HIDE DEF d
  <2>2. Derived(d, g)
    BY <1>2, <2>1, GroupSourceRederives
  <2>. QED  BY <1>1, <2>2, SpreadKeepsZones DEF d
<1>5. CASE l[1] = "group volume"
  <2>1. d = GroupHandleVolumeChange(c, l[2], l[3])
    BY <1>5 DEF HearGroup
  <2>. HIDE DEF d
  <2>2. Derived(d, g)
    BY <1>2, <2>1, GroupVolumeRederives
  <2>. QED  BY <1>1, <2>2, SpreadKeepsZones DEF d
<1>. QED  BY <1>3, <1>4, <1>5 DEF SpreadKinds

\* A line about a group itself, that leaves its zones.
LEMMA ItselfLineKeeps ==
  ASSUME NEW c, Typed(c), NEW l, GoodLine(l), l[1] \in ItselfKinds,
         NEW g \in 1..GroupsMax, Derived(c, g), LeavesZones(l, g, c.groups[g].zones)
  PROVE  KeepsDerived(c, HearGroup(c, l), g)
<1> DEFINE d == HearGroup(c, l)
           group == GroupHears(c.groups[l[2]], l)
           groups == [c.groups EXCEPT ![l[2]] = group]
<1>0. c.groups[g] \in Groups /\ DOMAIN c.groups = 1..GroupsMax
  BY TypedHas
<1>1. group \in Groups /\ Took(c, d, "groups", groups)
  BY HearsGroup
<1>2. l[2] = g => \A field \in {"zones", "mute", "volume", "sources"} : group[field] = c.groups[g][field]
  <2>1. CASE l[1] = "group name"
    BY <1>0, <2>1 DEF GroupHears, OutputSetName, SetField, Groups
  <2>2. ASSUME l[1] = "group zone added", l[2] = g
        PROVE  \A field \in {"zones", "mute", "volume", "sources"} : group[field] = c.groups[g][field]
    <3>1. c.groups[g].zones \cup {l[3]} = c.groups[g].zones
      BY <2>2 DEF LeavesZones
    <3>2. group = [c.groups[g] EXCEPT !.zones = c.groups[g].zones \cup {l[3]}]
      BY <2>2 DEF GroupHears, GroupAddZone, SetField, AddIdentifier
    <3>3. group = [c.groups[g] EXCEPT !.zones = c.groups[g].zones]
      BY <3>1, <3>2
    <3>. HIDE DEF group
    <3>. QED  BY <1>0, <3>3 DEF Groups
  <2>3. ASSUME l[1] = "group zone removed", l[2] = g
        PROVE  \A field \in {"zones", "mute", "volume", "sources"} : group[field] = c.groups[g][field]
    <3>1. RemoveIdentifier(c.groups[g].zones, l[3]).value = c.groups[g].zones
      BY <2>3 DEF LeavesZones, RemoveIdentifier
    <3>2. group = [c.groups[g] EXCEPT !.zones = RemoveIdentifier(c.groups[g].zones, l[3]).value]
      BY <2>3 DEF GroupHears, GroupRemoveZone, SetField
    <3>3. group = [c.groups[g] EXCEPT !.zones = c.groups[g].zones]
      BY <3>1, <3>2
    <3>. HIDE DEF group
    <3>. QED  BY <1>0, <3>3 DEF Groups
  <2>. QED  BY <2>1, <2>2, <2>3 DEF ItselfKinds
<1>. HIDE DEF group
<1>3. groups[g] = IF l[2] = g THEN group ELSE c.groups[g]
  BY <1>0
<1>. HIDE DEF groups, d
<1>4. Typed(d) /\ d.groups = groups /\ d.zones = c.zones
  BY <1>1 DEF Took, ClientFields, Parts
<1>5. \A field \in {"zones", "mute", "volume", "sources"} : d.groups[g][field] = c.groups[g][field]
  BY <1>2, <1>3, <1>4
<1>6. AlikeIn(c.groups[g].zones, d.zones, c.zones)
  BY <1>4 DEF AlikeIn
<1>7. d.groups[g] \in Groups
  BY <1>4, TypedHas
<1>8. Derived(d, g)
  BY <1>0, <1>5, <1>6, <1>7, DerivedAlike
<1>9. KeepsDerived(c, d, g)
  BY <1>5, <1>8 DEF KeepsDerived
<1>. QED  BY <1>9 DEF d

\* Other lines leave zones and groups.
LEMMA OtherLineKeeps ==
  ASSUME NEW c, Typed(c), NEW l, GoodLine(l), NEW g \in 1..GroupsMax, Derived(c, g)
  PROVE  KeepsDerived(c, HearOther(c, l), g)
<1> DEFINE d == HearOther(c, l)
<1>1. d = c \/ (Took(c, d, OtherPart(l), OtherHears(c, l)) /\ l[1] \in OtherKinds)
  BY HearsOther
<1>2. l[1] \in OtherKinds => OtherPart(l) \notin {"zones", "groups"}
  BY DEF OtherKinds, OtherPart
<1>. HIDE DEF d
<1>3. d.groups = c.groups /\ d.zones = c.zones
  BY <1>1, <1>2 DEF Took, ClientFields, Parts
<1>4. KeepsDerived(c, d, g)
  BY <1>3 DEF KeepsDerived, Derived
<1>. QED  BY <1>4 DEF d

\* The answer to an adjustment aside, every line a refreshed client hears
\* leaves a group what its zones make of it, while the zones are the same.
LEMMA LineKeepsGroup ==
  ASSUME NEW c, Typed(c), c.refreshed, NEW l, GoodLine(l), NEW answer, NEW g \in 1..GroupsMax,
         Derived(c, g), LeavesZones(l, g, c.groups[g].zones),
         ~ (answer /\ l[1] \in Adjusts /\ l[2] = g)
  PROVE  KeepsDerived(c, HearLine(c, l, answer), g)
<1> DEFINE d == HearLine(c, l, answer)
<1>1. CASE answer /\ l[1] \in CompletionKinds
  <2>1. Spread(c, d, c.groups[l[2]].zones)
    BY <1>1, HearsLine
  <2>2. l[2] \in 1..GroupsMax
    BY <1>1 DEF GoodLine, CompletionKinds, GroupKinds
  <2>3. Derived(d, g)
    <3>1. CASE l[1] = "group mute toggle"
      <4>1. d = ToggleMuteCompleteHandler(c, l[2])
        BY <1>1, <3>1 DEF HearLine
      <4>. HIDE DEF d
      <4>. QED  BY <2>2, <4>1, ToggleRederives
    <3>2. CASE l[1] \in Adjusts
      <4>1. d = AdjustVolumeCompleteHandler(c, l[2], 1) \/ d = AdjustVolumeCompleteHandler(c, l[2], -1)
        BY <1>1, <3>2 DEF HearLine, Adjusts
      <4>2. l[2] # g
        BY <1>1, <3>2
      <4>3. \A by : Derived(AdjustVolumeCompleteHandler(c, l[2], by), g)
        BY <2>2, <4>2, AdjustRederives
      <4>. HIDE DEF d
      <4>. QED  BY <4>1, <4>3
    <3>. QED  BY <1>1, <3>1, <3>2 DEF CompletionKinds, Adjusts
  <2>. QED  BY <2>1, <2>3, SpreadKeepsZones
<1>2. CASE ~ (answer /\ l[1] \in CompletionKinds)
  <2>1. d = HearZone(c, l)
    BY <1>2, HearsLine
  <2>2. CASE l[1] \in ZoneKinds \cup AllKinds
    <3>1. Derived(HearZone(c, l), g)
      BY <2>2, ZoneLineRederives
    <3>2. Rezoned(c, HearZone(c, l), ZonesHear(c.zones, l))
      BY <2>2, HearsZones
    <3>. QED  BY <2>1, <3>1, <3>2 DEF Rezoned, KeepsDerived
  <2>3. CASE l[1] \notin ZoneKinds \cup AllKinds
    <3>1. d = HearGroup(c, l)
      BY <2>1, <2>3, HearsLine
    <3>2. CASE l[1] \in SpreadKinds
      BY <3>1, <3>2, GroupLineRederives
    <3>3. CASE l[1] \in ItselfKinds
      BY <3>1, <3>3, ItselfLineKeeps
    <3>4. CASE l[1] \notin ItselfKinds \cup SpreadKinds
      <4>1. d = HearOther(c, l)
        BY <3>1, <3>4, HearsGroup
      <4>. QED  BY <4>1, OtherLineKeeps
    <3>. QED  BY <3>2, <3>3, <3>4
  <2>. QED  BY <2>2, <2>3
<1>. QED  BY <1>1, <1>2

\* So do lines.
LEMMA LinesKeepGroup ==
  ASSUME NEW c, Typed(c), c.refreshed, NEW lines, Told(lines), NEW answered, NEW g \in 1..GroupsMax,
         Derived(c, g), \A i \in 1..Len(lines) : LeavesZones(lines[i], g, c.groups[g].zones),
         ~ (answered /\ lines # <<>> /\ lines[Len(lines)][1] \in Adjusts /\ lines[Len(lines)][2] = g)
  PROVE  KeepsDerived(c, HearLines(c, lines, answered), g)
<1>0. Len(lines) \in Nat /\ (\A i \in 1..Len(lines) : GoodLine(lines[i]))
      /\ (1..Len(lines) # {} => lines # <<>>)
  <2>1. Len(lines) \in Nat /\ \A i \in 1..Len(lines) : GoodLine(lines[i])
    BY ToldHas
  <2>. QED  BY <2>1
<1>1. PICK f : HeardTo(f, c, lines, answered) /\ HearLines(c, lines, answered) = f[Len(lines)]
  BY <1>0, HeardEach
<1> DEFINE Good(d) == Typed(d) /\ d.refreshed /\ KeepsDerived(c, d, g)
           T == {k \in Nat : k <= Len(lines) => Good(f[k])}
<1>2. 0 \in T
  <2>1. f[0] = c
    BY <1>1 DEF HeardTo
  <2>2. Good(c)
    BY DEF KeepsDerived
  <2>. HIDE DEF Good
  <2>. QED  BY <2>1, <2>2
<1>3. ASSUME NEW k \in T, k + 1 <= Len(lines) PROVE Good(f[k + 1])
  <2> DEFINE d == f[k]
             l == lines[k + 1]
             answer == answered /\ k + 1 = Len(lines)
             e == HearLine(d, l, answer)
  <2>1. Good(d) /\ k + 1 \in 1..Len(lines) /\ (k + 1) - 1 = k
    BY <1>0, <1>3
  <2>2. f[k + 1] = e
    BY <1>1, <2>1 DEF HeardTo
  <2>3. GoodLine(l) /\ LeavesZones(l, g, d.groups[g].zones)
    <3>1. d.groups[g].zones = c.groups[g].zones
      BY <2>1 DEF KeepsDerived
    <3>. QED  BY <1>0, <2>1, <3>1
  <2>4. ~ (answer /\ l[1] \in Adjusts /\ l[2] = g)
    BY <1>0, <2>1
  <2>5. Typed(d) /\ d.refreshed /\ Derived(d, g) /\ d.groups[g].zones = c.groups[g].zones
    BY <2>1 DEF KeepsDerived
  <2>. HIDE DEF d, l, answer, e
  <2>6. KeepsDerived(d, e, g)
    BY <2>3, <2>4, <2>5, LineKeepsGroup DEF e
  <2>7. Hears(d, e)
    BY <2>3, <2>5, LineHeard DEF e
  <2>8. Good(e)
    BY <2>5, <2>6, <2>7 DEF Hears, Controls, KeepsDerived
  <2>. QED  BY <2>2, <2>8
<1>4. \A k \in T : k + 1 \in T
  BY <1>3
<1>. HIDE DEF T
<1>5. T = Nat
  <2>1. T \in SUBSET Nat
    BY DEF T
  <2>. QED  BY <1>2, <1>4, <2>1, SetInduction
<1>. QED  BY <1>0, <1>1, <1>5 DEF T

-----------------------------------------------------------------------------
(***************************************************************************)
(* What a client keeps while it waits for the end of an exchange.          *)
(***************************************************************************)
\* Lines that leave the zones Z of a group g.
Leaves(lines, g, Z) == \A i \in 1..Len(lines) : LeavesZones(lines[i], g, Z)

\* Lines one of which adjusts the group g, of the kinds expected.
Adjusting(lines, g, expected) ==
  \E i \in 1..Len(lines) : lines[i][1] \in expected \cap Adjusts /\ lines[i][2] = g

\* The lines of two sequences, one after the other.
LEMMA ToldAfter ==
  ASSUME NEW s, NEW t, Told(s), Told(t)
  PROVE  /\ Len(s) \in Nat /\ Len(t) \in Nat /\ Len(s \o t) = Len(s) + Len(t)
         /\ \A i \in 1..Len(s) + Len(t) : (s \o t)[i] = IF i <= Len(s) THEN s[i] ELSE t[i - Len(s)]
         /\ t # <<>> => /\ Last(s \o t) = t[Len(t)] /\ (s \o t)[Len(s \o t)] = t[Len(t)]
                        /\ Len(t) \in 1..Len(t) /\ s \o t # <<>>
<1>1. PICK S : s \in Seq(S)
  BY DEF Told
<1>2. PICK T : t \in Seq(T)
  BY DEF Told
<1> DEFINE U == S \cup T
<1>3. s \in Seq(U) /\ t \in Seq(U)
  BY <1>1, <1>2
<1>. HIDE DEF U
<1>4. Len(s) \in Nat /\ Len(t) \in Nat
  BY <1>3, LenProperties
<1>5. /\ Len(s \o t) = Len(s) + Len(t) /\ s \o t \in Seq(U)
      /\ \A i \in 1..Len(s) + Len(t) : (s \o t)[i] = IF i <= Len(s) THEN s[i] ELSE t[i - Len(s)]
  BY <1>3, ConcatProperties
<1>6. ASSUME t # <<>>
      PROVE  /\ Last(s \o t) = t[Len(t)] /\ (s \o t)[Len(s \o t)] = t[Len(t)]
             /\ Len(t) \in 1..Len(t) /\ s \o t # <<>>
  <2>1. Len(t) # 0
    BY <1>3, <1>6, EmptySeq
  <2> DEFINE b == s \o t
  <2>2. Len(b) = Len(s) + Len(t) /\ b \in Seq(U) /\ b[Len(s) + Len(t)] = t[Len(t)]
    BY <1>4, <1>5, <2>1
  <2>3. Last(b) = b[Len(b)]
    BY DEF Last
  <2>. HIDE DEF b
  <2>4. b # <<>>
    BY <1>4, <2>1, <2>2
  <2>. QED  BY <1>4, <2>1, <2>2, <2>3, <2>4 DEF b
<1>. QED  BY <1>4, <1>5, <1>6

\* They leave a group when those of both do.
LEMMA LeavesAfter ==
  ASSUME NEW s, NEW t, Told(s), Told(t), NEW g
  PROVE  /\ \A Z : Leaves(s, g, Z) /\ Leaves(t, g, Z) => Leaves(s \o t, g, Z)
         /\ \A x : ~ Adjusting(s, g, x) /\ ~ Adjusting(t, g, x) => ~ Adjusting(s \o t, g, x)
<1>1. ASSUME NEW i \in 1..Len(s \o t)
      PROVE  \/ i \in 1..Len(s) /\ (s \o t)[i] = s[i]
             \/ \E j \in 1..Len(t) : (s \o t)[i] = t[j]
  <2>1. /\ Len(s) \in Nat /\ Len(t) \in Nat /\ i \in 1..Len(s) + Len(t)
        /\ (s \o t)[i] = IF i <= Len(s) THEN s[i] ELSE t[i - Len(s)]
    BY ToldAfter
  <2>2. CASE i <= Len(s)
    BY <2>1, <2>2
  <2>3. CASE ~ i <= Len(s)
    <3>1. i - Len(s) \in 1..Len(t) /\ (s \o t)[i] = t[i - Len(s)]
      BY <2>1, <2>3
    <3>. QED  BY <3>1
  <2>. QED  BY <2>2, <2>3
<1>2. ASSUME NEW Z, Leaves(s, g, Z), Leaves(t, g, Z) PROVE Leaves(s \o t, g, Z)
  <2>1. ASSUME NEW i \in 1..Len(s \o t) PROVE LeavesZones((s \o t)[i], g, Z)
    <3>1. CASE i \in 1..Len(s) /\ (s \o t)[i] = s[i]
      BY <1>2, <3>1 DEF Leaves
    <3>2. CASE \E j \in 1..Len(t) : (s \o t)[i] = t[j]
      BY <1>2, <3>2 DEF Leaves
    <3>. QED  BY <1>1, <3>1, <3>2
  <2>. QED  BY <2>1 DEF Leaves
<1>3. ASSUME NEW x, ~ Adjusting(s, g, x), ~ Adjusting(t, g, x) PROVE ~ Adjusting(s \o t, g, x)
  <2>1. ASSUME NEW i \in 1..Len(s \o t)
        PROVE  ~ ((s \o t)[i][1] \in x \cap Adjusts /\ (s \o t)[i][2] = g)
    <3>1. CASE i \in 1..Len(s) /\ (s \o t)[i] = s[i]
      BY <1>3, <3>1 DEF Adjusting
    <3>2. CASE \E j \in 1..Len(t) : (s \o t)[i] = t[j]
      BY <1>3, <3>2 DEF Adjusting
    <3>. QED  BY <1>1, <3>1, <3>2
  <2>. QED  BY <2>1 DEF Adjusting
<1>. QED  BY <1>2, <1>3

\* No lines at all leave a group.
LEMMA NothingLeaves == \A g, Z, x : Leaves(<<>>, g, Z) /\ ~ Adjusting(<<>>, g, x)
BY DEF Leaves, Adjusting

\* What is left of the exchange of a client that hears of an error.
LEMMA ErrorHeard ==
  ASSUME NEW c, Typed(c), NEW b
  PROVE  LET d == HearError(c, b)
         IN /\ d.buffer = <<>> /\ d.expects = {} /\ d.refreshed = c.refreshed
            /\ d.groups = c.groups /\ d.zones = c.zones
<1>1. PICK x : HearError(c, b) = [Idle(c) EXCEPT !.missed = x]
  BY DEF HearError
<1> DEFINE d == [Idle(c) EXCEPT !.missed = x]
<1>2. /\ Typed(Idle(c)) /\ Idle(c).expects = {} /\ Idle(c).buffer = <<>>
      /\ \A f \in ClientFields \ {"expects", "buffer"} : Idle(c)[f] = c[f]
  BY IdleTyped
<1>3. \A f \in ClientFields \ {"missed"} : d[f] = Idle(c)[f]
  BY <1>2, Controlled
<1>4. /\ {"buffer", "expects", "refreshed", "groups", "zones"} \subseteq ClientFields \ {"missed"}
      /\ {"refreshed", "groups", "zones"} \subseteq ClientFields \ {"expects", "buffer"}
  BY DEF ClientFields, Parts
<1>. HIDE DEF d
<1>5. /\ d.buffer = <<>> /\ d.expects = {} /\ d.refreshed = c.refreshed
      /\ d.groups = c.groups /\ d.zones = c.zones
  BY <1>2, <1>3, <1>4
<1>. QED  BY <1>1, <1>5 DEF d

\* What a client is left with when it hears lines: that it is refreshed, the
\* end of an exchange that it waits for or none, and what it keeps.
LEMMA HearLeaves ==
  ASSUME NEW c, Fine(c), NEW lines, Told(lines), c.expects = {} => c.buffer = <<>>
  PROVE  LET d == Hear(c, lines)
         IN /\ d.refreshed = c.refreshed /\ d.expects \in {{}, c.expects}
            /\ d.buffer \in {<<>>, c.buffer, c.buffer \o lines}
            /\ d.expects = {} => d.buffer = <<>>
<1> DEFINE b == c.buffer \o lines
           last == Last(b)[1]
           d == Hear(c, lines)
           idle == HearLines(Idle(c), b, c.expects # {})
           lost == HearError(c, b)
           kept == [c EXCEPT !.buffer = b]
           Ended(e) == /\ e.refreshed = c.refreshed /\ e.expects \in {{}, c.expects}
                       /\ e.buffer \in {<<>>, c.buffer, b}
                       /\ e.expects = {} => e.buffer = <<>>
<1>1. Typed(c) /\ Told(b)
  BY ToldLines DEF Fine
<1>2. Typed(Idle(c)) /\ Idle(c).buffer = <<>> /\ Idle(c).expects = {} /\ Idle(c).refreshed = c.refreshed
  <2>1. "refreshed" \in ClientFields \ {"expects", "buffer"}
    BY DEF ClientFields, Parts
  <2>. QED  BY <1>1, <2>1, IdleTyped
<1>3. Ended(idle)
  <2>1. Hears(Idle(c), idle)
    <3>. HIDE DEF b
    <3>. QED  BY <1>1, <1>2, LinesHeard
  <2>. HIDE DEF b, idle
  <2>. QED  BY <1>2, <2>1 DEF Hears, Controls
<1>4. Ended(lost)
  <2>1. lost.buffer = <<>> /\ lost.expects = {} /\ lost.refreshed = c.refreshed
    BY <1>1, ErrorHeard
  <2>. HIDE DEF lost, b
  <2>. QED  BY <2>1
<1>5. c.expects # {} => Ended(kept)
  <2>. HIDE DEF b
  <2>1. /\ kept.buffer = b /\ \A f \in ClientFields \ {"buffer"} : kept[f] = c[f]
    BY <1>1, Controlled
  <2>2. {"expects", "refreshed"} \subseteq ClientFields \ {"buffer"}
    BY DEF ClientFields, Parts
  <2>. HIDE DEF kept
  <2>. QED  BY <2>1, <2>2
<1>6. Ended(c)
  OBVIOUS
<1>7. \/ lines = <<>>
      \/ lines # <<>> /\ (c.expects = {} \/ last \in c.expects)
      \/ lines # <<>> /\ c.expects # {} /\ last \notin c.expects /\ last = "error"
      \/ lines # <<>> /\ c.expects # {} /\ last \notin c.expects /\ last # "error"
  OBVIOUS
<1>8. /\ lines = <<>> => d = c
      /\ lines # <<>> /\ (c.expects = {} \/ last \in c.expects) => d = idle
      /\ lines # <<>> /\ c.expects # {} /\ last \notin c.expects /\ last = "error" => d = lost
      /\ lines # <<>> /\ c.expects # {} /\ last \notin c.expects /\ last # "error" => d = kept
  BY HearCases
<1>. HIDE DEF b, last, d, idle, lost, kept, Ended
<1>9. Ended(d)
  BY <1>3, <1>4, <1>5, <1>6, <1>7, <1>8
<1>. QED  BY <1>9 DEF Ended, b, d

\* A group that follows from the zones of a client does so when the client has heard lines that
\* leave the zones of the group, none an adjustment the client would take for its own.
LEMMA HearKeepsGroup ==
  ASSUME NEW c, Fine(c), c.refreshed, NEW lines, Told(lines), NEW g \in 1..GroupsMax, Derived(c, g),
         Leaves(c.buffer, g, c.groups[g].zones), Leaves(lines, g, c.groups[g].zones),
         ~ Adjusting(lines, g, c.expects)
  PROVE  KeepsDerived(c, Hear(c, lines), g)
<1> DEFINE b == c.buffer \o lines
           last == Last(b)[1]
           d == Hear(c, lines)
           idle == HearLines(Idle(c), b, c.expects # {})
           lost == HearError(c, b)
           kept == [c EXCEPT !.buffer = b]
           SameModels(e) == e.groups = c.groups /\ e.zones = c.zones
<1>1. Typed(c) /\ Told(c.buffer) /\ Told(b)
  BY ToldLines DEF Fine
<1>2. Typed(Idle(c)) /\ Idle(c).refreshed /\ SameModels(Idle(c))
  <2>1. {"refreshed", "groups", "zones"} \subseteq ClientFields \ {"expects", "buffer"}
    BY DEF ClientFields, Parts
  <2>. QED  BY <1>1, <2>1, IdleTyped
<1>3. \A e : SameModels(e) => KeepsDerived(c, e, g)
  BY DEF KeepsDerived, Derived
<1>4. ASSUME lines # <<>>, c.expects = {} \/ last \in c.expects PROVE KeepsDerived(c, idle, g)
  <2>1. Leaves(b, g, c.groups[g].zones)
    BY <1>1, LeavesAfter
  <2>2. /\ Last(b) = lines[Len(lines)] /\ b[Len(b)] = lines[Len(lines)]
        /\ Len(lines) \in 1..Len(lines)
    BY <1>1, <1>4, ToldAfter
  <2>3. ~ (c.expects # {} /\ b # <<>> /\ b[Len(b)][1] \in Adjusts /\ b[Len(b)][2] = g)
    <3>. SUFFICES ASSUME c.expects # {}, b[Len(b)][1] \in Adjusts, b[Len(b)][2] = g PROVE FALSE
      OBVIOUS
    <3>1. lines[Len(lines)][1] \in c.expects \cap Adjusts /\ lines[Len(lines)][2] = g
      BY <1>4, <2>2
    <3>. QED  BY <2>2, <3>1 DEF Adjusting
  <2>4. Derived(Idle(c), g) /\ Idle(c).groups[g].zones = c.groups[g].zones
    BY <1>2, <1>3 DEF KeepsDerived
  <2>5. \A i \in 1..Len(b) : LeavesZones(b[i], g, Idle(c).groups[g].zones)
    BY <2>1, <2>4 DEF Leaves
  <2>. HIDE DEF b
  <2>6. KeepsDerived(Idle(c), idle, g)
    BY <1>1, <1>2, <2>3, <2>4, <2>5, LinesKeepGroup
  <2>. QED  BY <2>4, <2>6 DEF KeepsDerived
<1>5. KeepsDerived(c, lost, g)
  <2>1. SameModels(lost)
    BY <1>1, ErrorHeard
  <2>. HIDE DEF lost
  <2>. QED  BY <1>3, <2>1
<1>6. KeepsDerived(c, kept, g)
  <2>. HIDE DEF b
  <2>1. \A f \in ClientFields \ {"buffer"} : kept[f] = c[f]
    BY <1>1, Controlled
  <2>2. {"groups", "zones"} \subseteq ClientFields \ {"buffer"}
    BY DEF ClientFields, Parts
  <2>. HIDE DEF kept
  <2>. QED  BY <1>3, <2>1, <2>2
<1>7. \/ lines = <<>>
      \/ lines # <<>> /\ (c.expects = {} \/ last \in c.expects)
      \/ lines # <<>> /\ c.expects # {} /\ last \notin c.expects /\ last = "error"
      \/ lines # <<>> /\ c.expects # {} /\ last \notin c.expects /\ last # "error"
  OBVIOUS
<1>8. /\ lines = <<>> => d = c
      /\ lines # <<>> /\ (c.expects = {} \/ last \in c.expects) => d = idle
      /\ lines # <<>> /\ c.expects # {} /\ last \notin c.expects /\ last = "error" => d = lost
      /\ lines # <<>> /\ c.expects # {} /\ last \notin c.expects /\ last # "error" => d = kept
  BY HearCases
<1>9. KeepsDerived(c, c, g)
  BY <1>3
<1>. HIDE DEF b, last, d, idle, lost, kept
<1>10. KeepsDerived(c, d, g)
  BY <1>4, <1>5, <1>6, <1>7, <1>8, <1>9
<1>. QED  BY <1>10 DEF d

-----------------------------------------------------------------------------
(***************************************************************************)
(* Groups of clients that follow from their zones, and what may come between.*)
(***************************************************************************)
\* Lines of which each is one of the lines b.
Among(lines, b) == \A i \in 1..Len(lines) : \E j \in 1..Len(b) : lines[i] = b[j]

\* Lines of which each is among others leave what those leave.
LEMMA AmongLeaves ==
  ASSUME NEW lines, NEW b, Among(lines, b), NEW g
  PROVE  /\ \A Z : Leaves(b, g, Z) => Leaves(lines, g, Z)
         /\ \A x : ~ Adjusting(b, g, x) => ~ Adjusting(lines, g, x)
<1>1. ASSUME NEW Z, Leaves(b, g, Z) PROVE Leaves(lines, g, Z)
  BY <1>1 DEF Among, Leaves
<1>2. ASSUME NEW x, ~ Adjusting(b, g, x) PROVE ~ Adjusting(lines, g, x)
  BY <1>2 DEF Among, Adjusting
<1>. QED  BY <1>1, <1>2

\* A proxy passes on no lines but those it has read.
LEMMA PassedOnAmong ==
  ASSUME NEW proxy, Told(proxy.buffer), NEW lines, Told(lines)
  PROVE  Among(PassedOn(proxy, lines), proxy.buffer \o lines)
<1> DEFINE b == proxy.buffer \o lines
           passed == P!Passed([i \in DOMAIN b |-> b[i][1]], proxy.expects)
           seqs == [i \in DOMAIN b |-> IF i \in passed THEN <<b[i]>> ELSE <<>>]
           S == {b[i] : i \in 1..Len(b)}
<1>1. PassedOn(proxy, lines) = FlattenSeq(seqs) \/ PassedOn(proxy, lines) = <<>>
  BY DEF PassedOn, Buffered
<1>2. Told(b)
  BY ToldLines
<1>. HIDE DEF passed, b
<1>3. Len(b) \in Nat /\ DOMAIN b = 1..Len(b)
  <2>1. Len(b) \in Nat
    BY <1>2, ToldHas
  <2>2. PICK R : b \in Seq(R)
    BY <1>2 DEF Told
  <2>. QED  BY <2>1, <2>2, LenProperties
<1>4. seqs \in [1..Len(b) -> Seq(S)]
  <2>1. ASSUME NEW i \in 1..Len(b) PROVE seqs[i] \in Seq(S)
    <3>1. b[i] \in S
      OBVIOUS
    <3>2. seqs[i] = <<b[i]>> \/ seqs[i] = <<>>
      BY <1>3
    <3>. HIDE DEF S, seqs
    <3>3. <<b[i]>> \in Seq(S)
      BY <3>1
    <3>4. <<>> \in Seq(S)
      OBVIOUS
    <3>. QED  BY <3>2, <3>3, <3>4
  <2>2. seqs = [i \in 1..Len(b) |-> seqs[i]]
    BY <1>3
  <2>. HIDE DEF S, seqs
  <2>. QED  BY <2>1, <2>2
<1>5. PassedOn(proxy, lines) \in Seq(S)
  <2>. HIDE DEF S, seqs
  <2>1. FlattenSeq(seqs) \in Seq(S)
    BY <1>3, <1>4, FlatIn
  <2>2. <<>> \in Seq(S)
    OBVIOUS
  <2>. QED  BY <1>1, <2>1, <2>2
<1>6. ASSUME NEW i \in 1..Len(PassedOn(proxy, lines))
      PROVE  PassedOn(proxy, lines)[i] \in S
  <2>. HIDE DEF S
  <2>. QED  BY <1>5, <1>6, ElementOfSeq
<1>. QED  BY <1>6 DEF Among, b

\* What clients wait for and keep, with the groups that follow from their zones but those that
\* are gone: lines that are kept, by a client or by the proxy it hears, leave the zones of those.
AnchoredGroup(waiting, k, g) ==
  /\ Derived(waiting[k], g)
  /\ Leaves(waiting[k].buffer, g, waiting[k].groups[g].zones)
  /\ k \in Behind => /\ Leaves(waiting[Proxy].buffer, g, waiting[k].groups[g].zones)
                     /\ ~ Adjusting(waiting[Proxy].buffer, g, waiting[k].expects)

\* The state of all clients: who does not wait keeps no lines, and the groups
\* of who has refreshed are anchored, or gone.
AnchoredIn(waiting, gone) ==
  \A k \in Clients :
    /\ waiting[k].expects = {} => waiting[k].buffer = <<>>
    /\ waiting[k].refreshed =>
         \A g \in 1..GroupsMax : <<k, g>> \in gone \/ AnchoredGroup(waiting, k, g)

\* A client of which a group is not among those that drift has heard lines that leave it.
LEMMA HoldsUnlessDrifting ==
  ASSUME NEW listening, NEW waiting, NEW lines, Told(lines), NEW k \in listening, NEW g \in 1..GroupsMax,
         <<k, g>> \notin Drifting(listening, waiting, lines), waiting[k].refreshed
  PROVE  /\ Leaves(lines, g, waiting[k].groups[g].zones)
         /\ ~ Adjusting(lines, g, waiting[k].expects)
<1> DEFINE c == waiting[k]
<1>1. DOMAIN lines = 1..Len(lines)
  <2>1. PICK R : lines \in Seq(R)
    BY DEF Told
  <2>. QED  BY <2>1, LenProperties
<1>2. <<k, g>> \in listening \X (1..GroupsMax) /\ <<k, g>>[1] = k /\ <<k, g>>[2] = g
  OBVIOUS
<1>3. ASSUME NEW i \in 1..Len(lines)
      PROVE  LET l == lines[i]
             IN ~ (\/ l[1] = "group zone added" /\ l[2] = g /\ l[3] \notin c.groups[g].zones
                   \/ l[1] = "group zone removed" /\ l[2] = g /\ l[3] \in c.groups[g].zones
                   \/ l[1] \in c.expects \cap {"group volume up", "group volume down"}
                      /\ l[2] = g)
  BY <1>1, <1>2 DEF Drifting
<1>4. Leaves(lines, g, c.groups[g].zones)
  BY <1>3 DEF Leaves, LeavesZones
<1>5. ~ Adjusting(lines, g, c.expects)
  BY <1>3 DEF Adjusting, Adjusts
<1>. QED  BY <1>4, <1>5

\* A group of a client that follows from its zones does so when that has heard lines that leave
\* it, and the proxy it hears keeps lines that do.
LEMMA GroupStaysAnchored ==
  ASSUME NEW waiting, NEW heard, NEW k \in Clients, NEW g \in 1..GroupsMax, NEW lines, Told(lines),
         Fine(waiting[k]), waiting[k].expects = {} => waiting[k].buffer = <<>>, waiting[k].refreshed,
         AnchoredGroup(waiting, k, g), Leaves(lines, g, waiting[k].groups[g].zones),
         ~ Adjusting(lines, g, waiting[k].expects), heard[k] = Hear(waiting[k], lines),
         k \in Behind => /\ Leaves(heard[Proxy].buffer, g, waiting[k].groups[g].zones)
                         /\ ~ Adjusting(heard[Proxy].buffer, g, waiting[k].expects)
  PROVE  AnchoredGroup(heard, k, g)
<1> DEFINE c == waiting[k]
           d == heard[k]
           Z == c.groups[g].zones
<1>1. Derived(c, g) /\ Leaves(c.buffer, g, Z)
  BY DEF AnchoredGroup
<1>2. KeepsDerived(c, d, g)
  BY <1>1, HearKeepsGroup
<1>3. Derived(d, g) /\ d.groups[g].zones = Z
  BY <1>2 DEF KeepsDerived
<1>4. d.buffer \in {<<>>, c.buffer, c.buffer \o lines} /\ d.expects \in {{}, c.expects}
  BY HearLeaves
<1>5. Leaves(d.buffer, g, Z)
  <2>1. Told(c.buffer)
    BY DEF Fine
  <2>. QED  BY <1>1, <1>4, <2>1, LeavesAfter, NothingLeaves
<1>6. \A b : ~ Adjusting(b, g, {})
  BY DEF Adjusting
<1>7. k \in Behind => ~ Adjusting(heard[Proxy].buffer, g, d.expects)
  BY <1>4, <1>6
<1>. QED  BY <1>3, <1>5, <1>7 DEF AnchoredGroup

\* The groups of all clients are anchored when they have heard the same lines,
\* directly or by way of the proxy.
LEMMA HeardAnchors ==
  ASSUME NEW waiting, AllFine(waiting), NEW gone, AnchoredIn(waiting, gone), NEW lines, Told(lines)
  PROVE  AnchoredIn(HeardByAll(waiting, lines), gone \cup Drifting(Clients, waiting, lines))
<1> DEFINE heard == HeardByAll(waiting, lines)
           told(k) == IF k \in Behind THEN PassedOn(waiting[Proxy], lines) ELSE lines
           proxy == waiting[Proxy]
<1>1. ASSUME NEW k \in Clients
      PROVE  Fine(waiting[k]) /\ Told(waiting[k].buffer) /\ (waiting[k].expects = {} => waiting[k].buffer = <<>>)
  BY DEF AllFine, Fine, AnchoredIn
<1>2. \A k \in Clients : heard[k] = Hear(waiting[k], told(k))
  BY DEF HeardByAll
<1>3. ASSUME NEW k \in Behind
      PROVE  /\ Proxy \in Clients /\ Proxy \notin Behind /\ Told(proxy.buffer) /\ Told(told(k))
             /\ Among(told(k), proxy.buffer \o lines)
             /\ heard[Proxy].buffer \in {<<>>, proxy.buffer, proxy.buffer \o lines}
  <2>1. Proxy \in Clients /\ Proxy \notin Behind
    BY ClientsAssumption
  <2>2. Told(proxy.buffer)
    BY <1>1, <2>1
  <2>3. told(k) = PassedOn(proxy, lines) /\ told(Proxy) = lines
    BY <2>1
  <2>4. heard[Proxy] = Hear(proxy, lines)
    BY <1>2, <2>1, <2>3
  <2>. HIDE DEF heard, told
  <2>5. heard[Proxy].buffer \in {<<>>, proxy.buffer, proxy.buffer \o lines}
    BY <1>1, <2>1, <2>4, HearLeaves
  <2>. QED  BY <2>1, <2>2, <2>3, <2>5, PassedOnTold, PassedOnAmong
<1>4. ASSUME NEW k \in Clients PROVE Told(told(k))
  BY <1>3
<1>5. ASSUME NEW k \in Clients
      PROVE  /\ heard[k].expects = {} => heard[k].buffer = <<>>
             /\ heard[k].refreshed = waiting[k].refreshed
  <2>. HIDE DEF heard, told
  <2>. QED  BY <1>1, <1>2, <1>4, HearLeaves
<1>6. ASSUME NEW k \in Clients, waiting[k].refreshed, NEW g \in 1..GroupsMax,
             <<k, g>> \notin gone, <<k, g>> \notin Drifting(Clients, waiting, lines)
      PROVE  AnchoredGroup(heard, k, g)
  <2> DEFINE c == waiting[k]
             Z == c.groups[g].zones
             x == c.expects
  <2>1. Leaves(lines, g, Z) /\ ~ Adjusting(lines, g, x)
    BY <1>6, HoldsUnlessDrifting
  <2>2. AnchoredGroup(waiting, k, g)
    BY <1>6 DEF AnchoredIn
  <2>3. ASSUME k \in Behind
        PROVE  /\ Leaves(told(k), g, Z) /\ ~ Adjusting(told(k), g, x)
               /\ Leaves(heard[Proxy].buffer, g, Z) /\ ~ Adjusting(heard[Proxy].buffer, g, x)
    <3> DEFINE b == proxy.buffer \o lines
    <3>1. Leaves(proxy.buffer, g, Z) /\ ~ Adjusting(proxy.buffer, g, x)
      BY <2>2, <2>3 DEF AnchoredGroup
    <3>2. Leaves(b, g, Z) /\ ~ Adjusting(b, g, x)
      BY <1>3, <2>1, <2>3, <3>1, LeavesAfter
    <3>. HIDE DEF heard, told, b
    <3>3. Among(told(k), b) /\ heard[Proxy].buffer \in {<<>>, proxy.buffer, b}
      BY <1>3, <2>3 DEF b
    <3>4. Leaves(told(k), g, Z) /\ ~ Adjusting(told(k), g, x)
      BY <3>2, <3>3, AmongLeaves
    <3>. QED  BY <3>1, <3>2, <3>3, <3>4, NothingLeaves
  <2>4. Leaves(told(k), g, Z) /\ ~ Adjusting(told(k), g, x)
    <3>1. CASE k \in Behind
      BY <2>3, <3>1
    <3>2. CASE k \notin Behind
      BY <2>1, <3>2
    <3>. QED  BY <3>1, <3>2
  <2>. HIDE DEF heard, told
  <2>. QED  BY <1>1, <1>2, <1>4, <1>6, <2>2, <2>3, <2>4, GroupStaysAnchored
<1>. HIDE DEF heard
<1>. QED  BY <1>5, <1>6 DEF AnchoredIn, heard

\* The same of what the proxy answers the clients behind it, which leaves the others as they are.
LEMMA AnsweredAnchors ==
  ASSUME NEW waiting, AllFine(waiting), NEW gone, AnchoredIn(waiting, gone), NEW lines, Told(lines)
  PROVE  AnchoredIn(HeardFromProxy(waiting, lines), gone \cup Drifting(Behind, waiting, lines))
<1> DEFINE heard == HeardFromProxy(waiting, lines)
<1>1. ASSUME NEW k \in Clients
      PROVE  Fine(waiting[k]) /\ (waiting[k].expects = {} => waiting[k].buffer = <<>>)
  BY DEF AllFine, AnchoredIn
<1>2. \A k \in Clients : heard[k] = IF k \in Behind THEN Hear(waiting[k], lines) ELSE waiting[k]
  BY DEF HeardFromProxy
<1>3. ASSUME NEW k \in Clients
      PROVE  /\ heard[k].expects = {} => heard[k].buffer = <<>>
             /\ heard[k].refreshed = waiting[k].refreshed
  <2>1. CASE k \in Behind
    <3>1. heard[k] = Hear(waiting[k], lines)
      BY <1>2, <2>1
    <3>. HIDE DEF heard
    <3>. QED  BY <1>1, <3>1, HearLeaves
  <2>2. CASE k \notin Behind
    BY <1>1, <1>2, <2>2
  <2>. QED  BY <2>1, <2>2
<1>4. ASSUME NEW k \in Clients, waiting[k].refreshed, NEW g \in 1..GroupsMax,
             <<k, g>> \notin gone, <<k, g>> \notin Drifting(Behind, waiting, lines)
      PROVE  AnchoredGroup(heard, k, g)
  <2> DEFINE Z == waiting[k].groups[g].zones
             x == waiting[k].expects
  <2>1. AnchoredGroup(waiting, k, g)
    BY <1>4 DEF AnchoredIn
  <2>2. CASE k \in Behind
    <3>1. Leaves(lines, g, Z) /\ ~ Adjusting(lines, g, x)
      BY <1>4, <2>2, HoldsUnlessDrifting
    <3>2. heard[k] = Hear(waiting[k], lines)
      BY <1>2, <2>2
    <3>3. heard[Proxy] = waiting[Proxy]
      BY <1>2, <2>2, ClientsAssumption
    <3>4. /\ Leaves(heard[Proxy].buffer, g, Z)
          /\ ~ Adjusting(heard[Proxy].buffer, g, x)
      BY <2>1, <2>2, <3>3 DEF AnchoredGroup
    <3>. HIDE DEF heard
    <3>. QED  BY <1>1, <1>4, <2>1, <3>1, <3>2, <3>4, GroupStaysAnchored
  <2>3. CASE k \notin Behind
    <3>1. heard[k] = waiting[k]
      BY <1>2, <2>3
    <3>. HIDE DEF heard
    <3>. QED  BY <2>1, <2>3, <3>1 DEF AnchoredGroup
  <2>. QED  BY <2>2, <2>3
<1>. HIDE DEF heard
<1>. QED  BY <1>3, <1>4 DEF AnchoredIn, heard

-----------------------------------------------------------------------------
(***************************************************************************)
(* The steps that have clients wait and hear.                              *)
(***************************************************************************)
\* The groups of clients follow from their zones, but for those that went adrift.
Anchored == AnchoredIn(views, adrift)

\* The fields of a client that waits, one by one.
LEMMA SaysAlike ==
  ASSUME NEW c, Fine(c), NEW x
  PROVE  LET d == Asks(c, x)
         IN /\ d.expects = x /\ d.buffer = c.buffer /\ d.refreshed = c.refreshed
            /\ d.groups = c.groups /\ d.zones = c.zones
<1>1. /\ Asks(c, x).expects = x
      /\ \A f \in ClientFields \ {"expects"} : Asks(c, x)[f] = c[f]
  BY AsksAlike
<1>2. {"buffer", "refreshed", "groups", "zones"} \subseteq ClientFields \ {"expects"}
  BY DEF ClientFields, Parts
<1>. QED  BY <1>1, <1>2

\* Clients, of which some wait for other answers: those that begin to wait keep no lines, and if one
\* of them is heard by others or hears the proxy, that keeps none that adjusts a group it waits for.
LEMMA WaitingAnchors ==
  ASSUME ViewsFine, NEW gone, AnchoredIn(views, gone), NEW waiting,
         \A c \in Clients :
           \/ waiting[c] = views[c]
           \/ /\ views[c].expects = {} /\ \E x : waiting[c] = Asks(views[c], x)
              /\ c \in Behind => \/ waiting[c].expects \cap Adjusts = {}
                                 \/ views[Proxy].expects = {}
  PROVE  AnchoredIn(waiting, gone)
<1>1. ASSUME NEW c \in Clients
      PROVE  /\ Fine(views[c]) /\ (views[c].expects = {} => views[c].buffer = <<>>)
             /\ waiting[c].buffer = views[c].buffer /\ waiting[c].refreshed = views[c].refreshed
             /\ waiting[c].groups = views[c].groups /\ waiting[c].zones = views[c].zones
             /\ waiting[c] = views[c] \/ views[c].expects = {}
  <2>1. Fine(views[c]) /\ (views[c].expects = {} => views[c].buffer = <<>>)
    BY DEF ViewsFine, AllFine, AnchoredIn
  <2>2. CASE waiting[c] = views[c]
    BY <2>1, <2>2
  <2>3. ASSUME NEW x, waiting[c] = Asks(views[c], x), views[c].expects = {}
        PROVE  /\ waiting[c].buffer = views[c].buffer /\ waiting[c].refreshed = views[c].refreshed
               /\ waiting[c].groups = views[c].groups /\ waiting[c].zones = views[c].zones
    BY <2>1, <2>3, SaysAlike
  <2>. QED  BY <2>1, <2>2, <2>3
<1>2. ASSUME NEW c \in Clients, waiting[c].expects = {} PROVE waiting[c].buffer = <<>>
  BY <1>1, <1>2
<1>3. ASSUME NEW c \in Clients, waiting[c].refreshed, NEW g \in 1..GroupsMax, <<c, g>> \notin gone
      PROVE  AnchoredGroup(waiting, c, g)
  <2> DEFINE Z == views[c].groups[g].zones
  <2>1. AnchoredGroup(views, c, g)
    BY <1>1, <1>3 DEF AnchoredIn
  <2>2. Derived(waiting[c], g)
    BY <1>1, <2>1 DEF AnchoredGroup, Derived
  <2>3. Leaves(waiting[c].buffer, g, Z) /\ waiting[c].groups[g].zones = Z
    BY <1>1, <2>1 DEF AnchoredGroup
  <2>4. ASSUME c \in Behind
        PROVE  /\ Leaves(waiting[Proxy].buffer, g, Z)
               /\ ~ Adjusting(waiting[Proxy].buffer, g, waiting[c].expects)
    <3>1. Proxy \in Clients /\ waiting[Proxy].buffer = views[Proxy].buffer
      BY <1>1, <2>4, ClientsAssumption
    <3>2. /\ Leaves(views[Proxy].buffer, g, Z)
          /\ ~ Adjusting(views[Proxy].buffer, g, views[c].expects)
      BY <2>1, <2>4 DEF AnchoredGroup
    <3>3. \/ waiting[c] = views[c]
          \/ waiting[c].expects \cap Adjusts = {}
          \/ views[Proxy].buffer = <<>>
      BY <1>1, <2>4, <3>1
    <3>4. waiting[c].expects \cap Adjusts = {} => ~ Adjusting(waiting[Proxy].buffer, g, waiting[c].expects)
      BY DEF Adjusting
    <3>. QED  BY <3>1, <3>2, <3>3, <3>4, NothingLeaves
  <2>. QED  BY <2>2, <2>3, <2>4 DEF AnchoredGroup
<1>. QED  BY <1>2, <1>3 DEF AnchoredIn

\* A request and its answer.
LEMMA AnchoredWhenTold ==
  ASSUME ViewsFine, Anchored, ToldStep
  PROVE  Anchored'
<1>1. PICK k, r : MayAsk(k, r) /\ Respond(k, r) /\ Tells(r.does)
  BY DEF ToldStep
<1> DEFINE waiting == WaitingFor(k, r)
           lines == AnswerLines(r.does)
<1>2. /\ views' = HeardByAll(waiting, lines)
      /\ adrift' = adrift \cup Drifting(Clients, waiting, lines)
  BY <1>1 DEF Respond, WaitingFor
<1>3. AllFine(waiting) /\ Told(lines)
  BY <1>1, WaitingFine, AnswerTold
<1>4. ASSUME NEW c \in Clients
      PROVE  \/ waiting[c] = views[c]
             \/ /\ views[c].expects = {} /\ \E x : waiting[c] = Asks(views[c], x)
                /\ c \in Behind => \/ waiting[c].expects \cap Adjusts = {}
                                   \/ views[Proxy].expects = {}
  <2>1. CASE c = k
    <3>1. waiting[c] = Asks(views[c], r.call.expects)
      BY <2>1, WaitsOrNot
    <3>2. views[c].expects = {} /\ (c \in Behind => views[Proxy].expects = {})
      BY <1>1, <2>1 DEF MayAsk
    <3>. QED  BY <3>1, <3>2
  <2>2. CASE c = Proxy /\ k \in Behind
    <3>1. waiting[c] = Asks(views[c], r.forward.expects)
      BY <2>2, WaitsOrNot
    <3>2. views[c].expects = {} /\ c \notin Behind
      BY <1>1, <2>2, ClientsAssumption DEF MayAsk
    <3>. QED  BY <3>1, <3>2
  <2>3. CASE c # k /\ ~ (c = Proxy /\ k \in Behind)
    BY <2>3, WaitsOrNot
  <2>. QED  BY <2>1, <2>2, <2>3
<1>. HIDE DEF waiting, lines
<1>5. AnchoredIn(waiting, adrift)
  BY <1>4, WaitingAnchors DEF Anchored
<1>6. AnchoredIn(HeardByAll(waiting, lines), adrift \cup Drifting(Clients, waiting, lines))
  BY <1>3, <1>5, HeardAnchors
<1>. QED  BY <1>2, <1>6 DEF Anchored

\* A request that the proxy answers.
LEMMA AnchoredWhenProxyAnswers ==
  ASSUME Known, Anchored, NEW k \in Askers \cap Behind, QueryProxy(k)
  PROVE  Anchored'
<1>1. ViewsFine /\ views[k].expects = {} /\ DOMAIN views = Clients
  BY DEF Known, ViewsFine, QueryProxy
<1>2. PICK x, lines :
         /\ Told(lines) /\ x \cap Adjusts = {}
         /\ views' = HeardFromProxy(AskingProxy(k, x), lines)
         /\ adrift' = adrift \cup Drifting(Behind, AskingProxy(k, x), lines)
  BY ProxyAnswers DEF Adjusts
<1> DEFINE waiting == AskingProxy(k, x)
<1>3. ASSUME NEW c \in Clients
      PROVE  \/ waiting[c] = views[c]
             \/ /\ views[c].expects = {} /\ \E y : waiting[c] = Asks(views[c], y)
                /\ c \in Behind => \/ waiting[c].expects \cap Adjusts = {}
                                   \/ views[Proxy].expects = {}
  <2>1. CASE c = k
    <3>1. waiting[c] = Asks(views[c], x)
      BY <1>1, <2>1 DEF AskingProxy
    <3>2. Fine(views[c])
      BY <1>1 DEF ViewsFine, AllFine
    <3>3. waiting[c].expects = x
      BY <3>1, <3>2, AsksAlike
    <3>. QED  BY <1>1, <1>2, <2>1, <3>1, <3>3
  <2>2. CASE c # k
    BY <1>1, <2>2 DEF AskingProxy
  <2>. QED  BY <2>1, <2>2
<1>4. AllFine(waiting)
  BY <1>1, AskingProxyFine
<1>. HIDE DEF waiting
<1>5. AnchoredIn(waiting, adrift)
  BY <1>1, <1>3, WaitingAnchors DEF Anchored
<1>6. AnchoredIn(HeardFromProxy(waiting, lines), adrift \cup Drifting(Behind, waiting, lines))
  BY <1>2, <1>4, <1>5, AnsweredAnchors
<1>. QED  BY <1>2, <1>6 DEF Anchored, waiting

-----------------------------------------------------------------------------
(***************************************************************************)
(* Clients that refresh.                                                   *)
(***************************************************************************)
\* A client that refreshes has groups that follow from its zones, and waits for what it did.
LEMMA RefreshedDerives ==
  ASSUME NEW c, Fine(c)
  PROVE  LET d == Refreshed(c)
         IN d.expects = c.expects /\ d.buffer = c.buffer /\ \A g \in 1..GroupsMax : Derived(d, g)
<1> DEFINE e == [c EXCEPT !.refreshed = TRUE]
           d == Refreshed(c)
           groups == [g \in DOMAIN e.groups |-> DeriveGroupStateForGroup(e.groups[g], e.zones)]
<1>1. Typed(e) /\ \A f \in ClientFields \ {"refreshed"} : e[f] = c[f]
  <2>1. Typed(c)
    BY DEF Fine
  <2>. QED  BY <2>1, Controlled
<1>2. d = DeriveGroupState(e)
  BY DEF Refreshed
<1>. HIDE DEF e
<1>3. DeriveGroupState(e) = WithGroups(e, groups)
  BY DEF DeriveGroupState
<1>4. e.zones \in ZoneLists /\ DOMAIN e.groups = 1..GroupsMax /\ \A g \in 1..GroupsMax : e.groups[g] \in Groups
  BY <1>1, TypedHas
<1>. HIDE DEF d
<1>5. Rezoned(e, d, e.zones)
  BY <1>1, <1>2, DerivesGroups
<1>6. d.expects = c.expects /\ d.buffer = c.buffer
  <2>1. {"expects", "buffer"} \subseteq (ClientFields \ {"refreshed"}) \cap (ClientFields \ {"zones", "groups"})
    BY DEF ClientFields, Parts
  <2>2. \A f \in ClientFields \ {"zones", "groups"} : d[f] = e[f]
    BY <1>5 DEF Rezoned
  <2>. QED  BY <1>1, <2>1, <2>2
<1>7. d.groups = groups /\ d.zones = e.zones
  <2>. HIDE DEF groups
  <2>. QED  BY <1>1, <1>2, <1>3, GroupsAre
<1>8. ASSUME NEW g \in 1..GroupsMax PROVE Derived(d, g)
  <2> DEFINE group == e.groups[g]
             left == DeriveGroupStateForGroup(group, e.zones)
  <2>1. group \in Groups /\ d.groups[g] = left
    BY <1>4, <1>7
  <2>2. left.zones = group.zones
    BY <1>4, DerivedTyped
  <2>3. CASE group.zones = {}
    BY <2>1, <2>2, <2>3 DEF Derived
  <2>4. CASE group.zones # {}
    <3>1. DeriveGroupStateForGroup(left, e.zones) = left
      BY <1>4, <2>4, DerivedOnce
    <3>. HIDE DEF left
    <3>. QED  BY <1>7, <2>1, <3>1 DEF Derived
  <2>. QED  BY <2>3, <2>4
<1>. QED  BY <1>6, <1>8 DEF d

\* Clients of which none waits.
Resting(clients) == \A c \in Clients : clients[c].expects = {} /\ clients[c].buffer = <<>>

\* Clients that do not wait keep nothing of what they hear.
LEMMA RestingHears ==
  ASSUME NEW waiting, AllFine(waiting), Resting(waiting), NEW lines, Told(lines)
  PROVE  Resting(HeardByAll(waiting, lines)) /\ Resting(HeardFromProxy(waiting, lines))
<1>1. ASSUME NEW c \in Clients, NEW told, Told(told)
      PROVE  Hear(waiting[c], told).expects = {} /\ Hear(waiting[c], told).buffer = <<>>
  <2>1. Fine(waiting[c]) /\ waiting[c].expects = {} /\ waiting[c].buffer = <<>>
    BY DEF AllFine, Resting
  <2>2. Hear(waiting[c], told).expects \in {{}, waiting[c].expects}
    BY <1>1, <2>1, HearLeaves
  <2>3. Hear(waiting[c], told).expects = {} => Hear(waiting[c], told).buffer = <<>>
    BY <1>1, <2>1, HearLeaves
  <2>. QED  BY <2>1, <2>2, <2>3
<1>2. ASSUME NEW c \in Clients
      PROVE  /\ HeardByAll(waiting, lines)[c].expects = {}
             /\ HeardByAll(waiting, lines)[c].buffer = <<>>
  <2> DEFINE told == IF c \in Behind THEN PassedOn(waiting[Proxy], lines) ELSE lines
  <2>1. Told(told)
    <3>1. c \in Behind => Told(PassedOn(waiting[Proxy], lines))
      BY PassedOnTold, ClientsAssumption DEF AllFine, Fine
    <3>. QED  BY <3>1
  <2>2. HeardByAll(waiting, lines)[c] = Hear(waiting[c], told)
    BY DEF HeardByAll
  <2>. HIDE DEF told
  <2>. QED  BY <1>1, <2>1, <2>2
<1>3. ASSUME NEW c \in Clients
      PROVE  /\ HeardFromProxy(waiting, lines)[c].expects = {}
             /\ HeardFromProxy(waiting, lines)[c].buffer = <<>>
  <2>1. CASE c \in Behind
    <3>1. HeardFromProxy(waiting, lines)[c] = Hear(waiting[c], lines)
      BY <2>1 DEF HeardFromProxy
    <3>. QED  BY <1>1, <3>1
  <2>2. CASE c \notin Behind
    BY <2>2 DEF HeardFromProxy, Resting
  <2>. QED  BY <2>1, <2>2
<1>. QED  BY <1>2, <1>3 DEF Resting

\* One of them derives its groups.
LEMMA RefreshedAnchors ==
  ASSUME NEW heard, AllFine(heard), DOMAIN heard = Clients, NEW gone, AnchoredIn(heard, gone),
         Resting(heard), NEW k \in Clients
  PROVE  AnchoredIn([heard EXCEPT ![k] = Refreshed(@)], gone)
<1> DEFINE after == [heard EXCEPT ![k] = Refreshed(@)]
<1>1. ASSUME NEW c \in Clients
      PROVE  /\ after[c].expects = {} /\ after[c].buffer = <<>>
             /\ \A g \in 1..GroupsMax : Derived(after[c], g) \/ after[c] = heard[c]
  <2>1. Fine(heard[c]) /\ heard[c].expects = {} /\ heard[c].buffer = <<>>
    BY DEF AllFine, Resting
  <2>2. CASE c = k
    <3>1. after[c] = Refreshed(heard[c])
      BY <2>2
    <3>. HIDE DEF after
    <3>. QED  BY <2>1, <3>1, RefreshedDerives
  <2>3. CASE c # k
    <3>1. after[c] = heard[c]
      BY <2>3
    <3>. HIDE DEF after
    <3>. QED  BY <2>1, <3>1
  <2>. QED  BY <2>2, <2>3
<1>. HIDE DEF after
<1>2. ASSUME NEW c \in Clients, NEW g \in 1..GroupsMax, Derived(after[c], g)
      PROVE  AnchoredGroup(after, c, g)
  <2>1. after[c].buffer = <<>> /\ (c \in Behind => after[Proxy].buffer = <<>>)
    BY <1>1, ClientsAssumption
  <2>. QED  BY <1>2, <2>1, NothingLeaves DEF AnchoredGroup
<1>3. ASSUME NEW c \in Clients, after[c].refreshed, NEW g \in 1..GroupsMax, <<c, g>> \notin gone
      PROVE  Derived(after[c], g)
  <2>1. CASE after[c] = heard[c]
    <3>1. AnchoredGroup(heard, c, g)
      BY <1>3, <2>1 DEF AnchoredIn
    <3>. QED  BY <2>1, <3>1 DEF AnchoredGroup
  <2>. QED  BY <1>1, <2>1
<1>4. AnchoredIn(after, gone)
  BY <1>1, <1>2, <1>3 DEF AnchoredIn
<1>. QED  BY <1>4 DEF after

\* A refresh, from the server or from the proxy.
LEMMA AnchoredWhenRefreshed ==
  ASSUME Known, Anchored, NEW k \in Clients
  PROVE  /\ Refresh(k) => Anchored'
         /\ k \in Behind /\ RefreshFromProxy(k) => Anchored'
<1>1. AllFine(views) /\ Typed(m) /\ AnchoredIn(views, adrift)
  BY KeptHas, ServerIsTypedClient DEF Known, ViewsFine, Anchored
<1>2. NobodyWaits => Resting(views)
  BY <1>1 DEF NobodyWaits, Resting, AnchoredIn
<1>3. ASSUME Refresh(k) PROVE Anchored'
  <2> DEFINE heard == HeardByAll(views, RefreshLines(m))
             gone == adrift \cup Drifting(Clients, views, RefreshLines(m))
  <2>1. /\ views' = [heard EXCEPT ![k] = Refreshed(@)] \/ views' = heard
        /\ adrift' = gone /\ NobodyWaits
    BY <1>3 DEF Refresh
  <2>2. /\ AllFine(heard) /\ DOMAIN heard = Clients /\ AnchoredIn(heard, gone)
        /\ Resting(heard)
    BY <1>1, <1>2, <2>1, ToldRefresh, AllHear, HeardAnchors, RestingHears
  <2>. HIDE DEF heard, gone
  <2>3. AnchoredIn([heard EXCEPT ![k] = Refreshed(@)], gone)
    BY <2>2, RefreshedAnchors
  <2>. QED  BY <2>1, <2>2, <2>3 DEF Anchored
<1>4. ASSUME k \in Behind, RefreshFromProxy(k) PROVE Anchored'
  <2> DEFINE lines == RefreshLines(views[Proxy])
             heard == HeardFromProxy(views, lines)
             gone == adrift \cup Drifting(Behind, views, lines)
  <2>1. views' = [heard EXCEPT ![k] = Refreshed(@)] /\ adrift' = gone /\ NobodyWaits
    BY <1>4 DEF RefreshFromProxy
  <2>2. Told(lines)
    BY <1>1, <1>4, ClientsAssumption, ToldRefresh DEF AllFine, Fine
  <2>. HIDE DEF lines
  <2>3. /\ AllFine(heard) /\ DOMAIN heard = Clients /\ AnchoredIn(heard, gone)
        /\ Resting(heard)
    BY <1>1, <1>2, <2>1, <2>2, AllHear, AnsweredAnchors, RestingHears
  <2>. HIDE DEF heard, gone
  <2>4. AnchoredIn([heard EXCEPT ![k] = Refreshed(@)], gone)
    BY <2>3, RefreshedAnchors
  <2>. QED  BY <2>1, <2>4 DEF Anchored
<1>. QED  BY <1>3, <1>4

-----------------------------------------------------------------------------
(***************************************************************************)
(* The invariant that groups follow zones.                                 *)
(***************************************************************************)
\* It holds at the start, when no client has refreshed.
LEMMA AnchoredInit == Init => Anchored
<1> SUFFICES ASSUME Init PROVE Anchored
  OBVIOUS
<1>1. ASSUME NEW k \in Clients
      PROVE  views[k].buffer = <<>> /\ ~ views[k].refreshed
  BY DEF Init, ClientNulls
<1>. QED  BY <1>1 DEF Anchored, AnchoredIn

\* The inductive step, by the actions of the server and of its clients.
LEMMA AnchoredNext == Known /\ Anchored /\ [Next]_vars => Anchored'
<1> SUFFICES ASSUME Known, Anchored, [Next]_vars PROVE Anchored'
  OBVIOUS
<1>1. Kept /\ ViewsFine
  BY DEF Known
<1>2. ASSUME NEW k, Request(k) PROVE ToldStep
  BY <1>1, <1>2, ZoneStepsTell, GroupStepsTell, OtherStepsTell DEF Request
<1>3. ASSUME NEW k, TelnetRequest(k) PROVE ToldStep
  BY <1>1, <1>3, OtherStepsTell, TelnetQueryTells DEF TelnetRequest
<1>4. ASSUME NEW k, \/ QueryZone(k)
                    \/ \E z \in 1..ZonesMax : RequestBass(k, z) \/ RequestTreble(k, z)
      PROVE  ToldStep
  BY <1>1, <1>4, ZoneStepsTell
<1>5. ASSUME Start \/ TimerDidFire \/ UNCHANGED vars PROVE Anchored'
  <2>1. views' = views /\ adrift' = adrift
    BY <1>5 DEF Start, TimerDidFire, vars, history
  <2>. QED  BY <2>1 DEF Anchored
<1>6. ASSUME Stop PROVE Anchored'
  <2>1. views' = [k \in Clients |-> ClientNulls]
    BY <1>6 DEF Stop
  <2>2. ASSUME NEW k \in Clients
        PROVE  views'[k].buffer = <<>> /\ ~ views'[k].refreshed
    BY <2>1 DEF ClientNulls
  <2>3. AnchoredIn(views', adrift')
    BY <2>2 DEF AnchoredIn
  <2>. QED  BY <2>3 DEF Anchored
<1>7. ASSUME NEW k \in Clients, \/ Refresh(k)
                                \/ k \in Behind /\ RefreshFromProxy(k)
      PROVE  Anchored'
  BY <1>7, AnchoredWhenRefreshed
<1>8. ASSUME NEW k \in Askers \cap Behind, QueryProxy(k) PROVE Anchored'
  BY <1>8, AnchoredWhenProxyAnswers
<1>9. ToldStep => Anchored'
  BY <1>1, AnchoredWhenTold
<1>. QED  BY <1>2, <1>3, <1>4, <1>5, <1>6, <1>7, <1>8, <1>9, ClientsAssumption DEF Next

\* What it means for the groups of refreshed clients.
LEMMA AnchoredFollows == Known /\ Anchored => GroupsFollowZones
<1> SUFFICES ASSUME Known, Anchored PROVE GroupsFollowZones
  OBVIOUS
<1>1. DOMAIN m.groups = 1..GroupsMax
  BY KeptHas DEF Known
<1>2. ASSUME NEW k \in Clients, views[k].refreshed, NEW g \in 1..GroupsMax, <<k, g>> \notin adrift
      PROVE  Derived(views[k], g)
  BY <1>2 DEF Anchored, AnchoredIn, AnchoredGroup
<1>. QED  BY <1>1, <1>2 DEF GroupsFollowZones, Derived

\* The group state of a refreshed client is what its own zones make of it, whichever of group and
\* zone the changes came to first, for every number of clients, zones and groups.
THEOREM GroupsFollow == Spec => []GroupsFollowZones
<1>1. Init => Known /\ Anchored
  BY KnownInit, AnchoredInit
<1>2. Known /\ Anchored /\ [Next]_vars => Known' /\ Anchored'
  BY KnownNext, AnchoredNext
<1>3. Known /\ Anchored => GroupsFollowZones
  BY AnchoredFollows
<1>. QED  BY <1>1, <1>2, <1>3, PTL DEF Spec

-----------------------------------------------------------------------------
(***************************************************************************)
(* The end of an exchange.  A client that waits for a line hears it, also by*)
(* way of the proxy.                                                       *)
(***************************************************************************)
\* Lines of which the last is of the kinds, or the error.
Ends(lines, kinds) ==
  lines # <<>> /\ lines[Len(lines)][1] \in kinds \cup {"error"}

\* A client that waits hears the end of the exchange, if the last line is one.
LEMMA HearEnds ==
  ASSUME NEW c, Fine(c), NEW lines, Told(lines), Ends(lines, c.expects)
  PROVE  Hear(c, lines).expects = {}
<1> DEFINE b == c.buffer \o lines
           kind == Last(b)[1]
<1>1. Told(b) /\ kind = lines[Len(lines)][1] /\ lines # <<>>
  BY ToldAfter, ToldLines DEF Ends, Fine
<1>2. Typed(c) /\ Typed(Idle(c)) /\ Idle(c).expects = {}
  BY IdleTyped DEF Fine
<1>3. Hears(Idle(c), HearLines(Idle(c), b, c.expects # {}))
  BY <1>1, <1>2, LinesHeard
<1>4. HearLines(Idle(c), b, c.expects # {}).expects = {}
  BY <1>2, <1>3 DEF Hears, Controls
<1>5. HearError(c, b).expects = {}
  BY <1>2, ErrorHeard
<1>6. /\ (c.expects = {} \/ kind \in c.expects)
           => Hear(c, lines) = HearLines(Idle(c), b, c.expects # {})
      /\ c.expects # {} /\ kind \notin c.expects /\ kind = "error"
           => Hear(c, lines) = HearError(c, b)
  BY <1>1, HearCases
<1>7. kind \in c.expects \cup {"error"}
  BY <1>1 DEF Ends
<1>. HIDE DEF kind, b
<1>. QED  BY <1>4, <1>5, <1>6, <1>7

\* A sequence put together of others ends with the last line of the last that
\* has one.
LEMMA FlatEnds ==
  ASSUME NEW S, NEW n \in Nat \ {0}, NEW seqs \in [1..n -> Seq(S)], NEW s \in S, seqs[n] = <<s>>
  PROVE  LET t == FlattenSeq(seqs) IN t # <<>> /\ t[Len(t)] = s
<1>1. PICK f : FlatUpto(f, seqs, n) /\ FlattenSeq(seqs) = f[n]
  BY FlatEach
<1>2. f[n] = f[n - 1] \o <<s>>
  <2>1. n \in 1..n
    OBVIOUS
  <2>2. f[n] = f[n - 1] \o seqs[n]
    BY <1>1, <2>1 DEF FlatUpto
  <2>. QED  BY <2>2
<1>3. f[n - 1] \in Seq(S)
  <2> DEFINE T == {i \in Nat : i <= n => f[i] \in Seq(S)}
  <2>1. 0 \in T
    <3>1. <<>> \in Seq(S)
      OBVIOUS
    <3>. QED  BY <1>1, <3>1 DEF FlatUpto
  <2>2. ASSUME NEW i \in T PROVE i + 1 \in T
    <3>1. CASE i + 1 <= n
      <4>1. f[i + 1] = f[i] \o seqs[i + 1]
        <5>1. i + 1 \in 1..n /\ (i + 1) - 1 = i
          BY <2>2, <3>1
        <5>. QED  BY <1>1, <5>1 DEF FlatUpto
      <4>2. f[i] \in Seq(S) /\ seqs[i + 1] \in Seq(S)
        BY <2>2, <3>1
      <4>3. f[i + 1] \in Seq(S)
        BY <4>1, <4>2
      <4>. QED  BY <4>3, <2>2
    <3>2. CASE ~ (i + 1 <= n)
      BY <2>2, <3>2
    <3>. QED  BY <3>1, <3>2
  <2>3. T \in SUBSET Nat
    OBVIOUS
  <2>. HIDE DEF T
  <2>4. T = Nat
    BY <2>1, <2>2, <2>3, SetInduction
  <2>5. n - 1 \in T /\ n - 1 <= n
    BY <2>4
  <2>. QED  BY <2>5 DEF T
<1>4. <<s>> \in Seq(S) /\ Len(<<s>>) = 1 /\ <<s>>[1] = s
  OBVIOUS
<1>5. Len(f[n]) = Len(f[n - 1]) + 1 /\ Len(f[n - 1]) \in Nat
  BY <1>2, <1>3, <1>4
<1>6. f[n][Len(f[n])] = s
  BY <1>2, <1>3, <1>4, <1>5
<1>7. f[n] # <<>>
  <2>1. Len(f[n]) # 0 /\ Len(<<>>) = 0
    BY <1>5
  <2>. QED  BY <2>1
<1>. QED  BY <1>1, <1>6, <1>7

\* The proxy passes on the line that ends the exchange it waits for.
LEMMA PassedOnEnds ==
  ASSUME NEW proxy, Told(proxy.buffer), proxy.refreshed, proxy.expects # {}, NEW lines, Told(lines),
         Ends(lines, proxy.expects)
  PROVE  LET p == PassedOn(proxy, lines) IN p # <<>> /\ p[Len(p)] = lines[Len(lines)]
<1> DEFINE b == proxy.buffer \o lines
           kinds == [i \in DOMAIN b |-> b[i][1]]
           passed == P!Passed(kinds, proxy.expects)
           seqs == [i \in DOMAIN b |-> IF i \in passed THEN <<b[i]>> ELSE <<>>]
           S == {b[i] : i \in 1..Len(b)}
<1>1. /\ Told(b) /\ lines # <<>> /\ Len(b) \in Nat \ {0} /\ b[Len(b)] = lines[Len(lines)]
      /\ lines[Len(lines)][1] \in proxy.expects \cup {"error"}
  <2>1. /\ Told(b) /\ lines # <<>> /\ lines[Len(lines)][1] \in proxy.expects \cup {"error"}
    BY ToldLines DEF Ends
  <2>2. /\ Len(proxy.buffer) \in Nat /\ Len(lines) \in 1..Len(lines)
        /\ Len(b) = Len(proxy.buffer) + Len(lines) /\ b[Len(b)] = lines[Len(lines)]
    BY <2>1, ToldAfter
  <2>. HIDE DEF b
  <2>. QED  BY <2>1, <2>2
<1>2. PassedOn(proxy, lines) = FlattenSeq(seqs)
  BY <1>1 DEF PassedOn, Buffered
<1>. HIDE DEF b
<1>3. DOMAIN b = 1..Len(b)
  <2>1. PICK R : b \in Seq(R)
    BY <1>1 DEF Told
  <2>. QED  BY <2>1, LenProperties
<1>4. Len(kinds) = Len(b) /\ Len(b) \in DOMAIN b /\ kinds[Len(b)] = b[Len(b)][1]
  <2>1. kinds \in Seq({kinds[i] : i \in 1..Len(b)}) /\ DOMAIN kinds = 1..Len(b)
    BY <1>1, <1>3
  <2>2. Len(kinds) = Len(b)
    BY <1>1, <2>1, LenProperties
  <2>3. Len(b) \in DOMAIN b
    BY <1>1, <1>3
  <2>. QED  BY <2>2, <2>3
<1>5. Len(b) \in passed
  <2>. HIDE DEF kinds
  <2>1. kinds[Len(kinds)] \in proxy.expects \/ kinds[Len(kinds)] = "error"
    BY <1>1, <1>4
  <2>. QED  BY <1>4, <2>1 DEF P!Passed
<1>. HIDE DEF passed
<1>6. seqs[Len(b)] = <<b[Len(b)]>>
  BY <1>4, <1>5
<1>7. seqs \in [1..Len(b) -> Seq(S)]
  <2>1. ASSUME NEW i \in 1..Len(b) PROVE seqs[i] \in Seq(S)
    <3>1. b[i] \in S
      OBVIOUS
    <3>2. seqs[i] = <<b[i]>> \/ seqs[i] = <<>>
      BY <1>3
    <3>. HIDE DEF S, seqs
    <3>3. <<b[i]>> \in Seq(S)
      BY <3>1
    <3>4. <<>> \in Seq(S)
      OBVIOUS
    <3>. QED  BY <3>2, <3>3, <3>4
  <2>2. seqs = [i \in 1..Len(b) |-> seqs[i]]
    BY <1>3
  <2>. HIDE DEF S, seqs
  <2>. QED  BY <2>1, <2>2
<1>8. b[Len(b)] \in S
  BY <1>3, <1>4
<1>. HIDE DEF S, seqs
<1>9. LET t == FlattenSeq(seqs) IN t # <<>> /\ t[Len(t)] = b[Len(b)]
  <2> DEFINE n == Len(b)
             s == b[n]
  <2>1. n \in Nat \ {0} /\ seqs \in [1..n -> Seq(S)] /\ s \in S /\ seqs[n] = <<s>>
    BY <1>1, <1>6, <1>7, <1>8
  <2>. HIDE DEF n, s
  <2>2. LET t == FlattenSeq(seqs) IN t # <<>> /\ t[Len(t)] = s
    BY <2>1, FlatEnds
  <2>. QED  BY <2>2 DEF n, s
<1>. QED  BY <1>1, <1>2, <1>9

\* An outcome is answered with the error, or its last line is of the kinds.
Concludes(o, kinds) == Failed(o) \/ Ends(o.lines, kinds)

\* The answer of such an outcome ends the exchange.
LEMMA AnswerEnds ==
  ASSUME NEW o, NEW kinds, Concludes(o, kinds)
  PROVE  Ends(AnswerLines(o), kinds)
<1>1. CASE Failed(o)
  <2> DEFINE lines == << <<"error">> >>
  <2>1. lines # <<>> /\ Len(lines) = 1 /\ lines[1][1] = "error"
    OBVIOUS
  <2>2. AnswerLines(o) = lines
    BY <1>1 DEF AnswerLines
  <2>. HIDE DEF lines
  <2>. QED  BY <2>1, <2>2 DEF Ends
<1>2. CASE ~ Failed(o)
  BY <1>2 DEF AnswerLines, Concludes
<1>. QED  BY <1>1, <1>2

\* A client asks, and a request by way of the proxy has that wait for what the client waits for.
Says(k, r) ==
  /\ MayAsk(k, r) /\ Respond(k, r) /\ Tells(r.does)
  /\ r.forward.valid => r.forward.expects = r.call.expects

\* What a client waits for after a step is what it waited for, nothing, or x.
WaitsFor(x) == \A c \in Clients : views'[c].expects \in {{}, views[c].expects, x}

\* What the clients wait for when a request has been made, and are then told.
SaidTo(k, r, waiting, lines, told) ==
  /\ AllFine(waiting) /\ Told(lines) /\ lines = AnswerLines(r.does)
  /\ \A c \in Clients :
       /\ Told(told[c]) /\ views'[c] = Hear(waiting[c], told[c])
       /\ waiting[c].expects = {} => waiting[c].buffer = <<>>
       /\ \/ waiting[c].expects = views[c].expects
          \/ /\ waiting[c].expects = r.call.expects
             /\ c # k => k \in Behind /\ c = Proxy /\ told[c] = lines
       /\ c = k => waiting[c].expects = r.call.expects
       /\ c = k /\ k \notin Behind => told[c] = lines
       /\ c = k /\ k \in Behind =>
            /\ told[c] = PassedOn(waiting[Proxy], lines) /\ Told(waiting[Proxy].buffer)
            /\ waiting[Proxy].refreshed /\ waiting[Proxy].expects = r.call.expects

\* Who hears what, when a request is made and answered.
LEMMA SaysHear ==
  ASSUME ViewsFine, Anchored, NEW k, NEW r, Says(k, r)
  PROVE  \E waiting, lines, told : SaidTo(k, r, waiting, lines, told)
<1> DEFINE waiting == WaitingFor(k, r)
           lines == AnswerLines(r.does)
           told == [c \in Clients |-> IF c \in Behind THEN PassedOn(waiting[Proxy], lines) ELSE lines]
<1>1. views' = HeardByAll(waiting, lines)
  BY DEF Says, Respond, WaitingFor
<1>2. AllFine(waiting) /\ Told(lines)
  BY WaitingFine, AnswerTold DEF Says
<1>3. ASSUME NEW c \in Clients
      PROVE  views'[c] = Hear(waiting[c], told[c])
  BY <1>1 DEF HeardByAll
<1>4. Behind # {} => Proxy \in Clients /\ Proxy \notin Behind
  BY ClientsAssumption
<1>5. ASSUME NEW c \in Clients
      PROVE  Told(told[c])
  <2>1. c \in Behind => Told(waiting[Proxy].buffer)
    BY <1>2, <1>4 DEF AllFine, Fine
  <2>. HIDE DEF waiting, lines
  <2>2. c \in Behind => Told(PassedOn(waiting[Proxy], lines))
    BY <1>2, <2>1, PassedOnTold
  <2>. QED  BY <1>2, <2>2
<1>6. ASSUME NEW c \in Clients
      PROVE  /\ Fine(views[c]) /\ (views[c].expects = {} => views[c].buffer = <<>>)
  BY DEF ViewsFine, AllFine, Anchored, AnchoredIn
<1>7. ASSUME NEW c \in Clients, NEW x, waiting[c] = Asks(views[c], x)
      PROVE  /\ waiting[c].expects = x /\ waiting[c].buffer = views[c].buffer
             /\ waiting[c].refreshed = views[c].refreshed
  <2>. HIDE DEF waiting
  <2>. QED  BY <1>6, <1>7, SaysAlike
<1>8. /\ \A c \in Clients : c = k => waiting[c] = Asks(views[c], r.call.expects)
      /\ \A c \in Clients : c = Proxy /\ k \in Behind => waiting[c] = Asks(views[c], r.forward.expects)
      /\ \A c \in Clients : c # k /\ ~ (c = Proxy /\ k \in Behind) => waiting[c] = views[c]
  BY WaitsOrNot
<1>9. k \in Behind => /\ r.forward.expects = r.call.expects
                      /\ views[Proxy].refreshed /\ views[Proxy].expects = {}
  BY DEF Says, MayAsk
<1>10. k \in Clients => views[k].expects = {}
  BY DEF Says, MayAsk
<1>11. Behind \subseteq Clients
  BY ClientsAssumption
<1>12. \A c \in Clients : /\ c \notin Behind => told[c] = lines
                          /\ c \in Behind => told[c] = PassedOn(waiting[Proxy], lines)
  OBVIOUS
<1>. HIDE DEF waiting, told, lines
<1>13. ASSUME NEW c \in Clients
       PROVE  /\ waiting[c].expects = {} => waiting[c].buffer = <<>>
              /\ \/ waiting[c].expects = views[c].expects
                 \/ /\ waiting[c].expects = r.call.expects
                    /\ c # k => k \in Behind /\ c = Proxy /\ told[c] = lines
              /\ c = k => waiting[c].expects = r.call.expects
  <2>1. CASE c = k
    BY <1>6, <1>7, <1>8, <1>10, <2>1
  <2>2. CASE c # k /\ c = Proxy /\ k \in Behind
    <3>1. waiting[c].expects = r.call.expects /\ waiting[c].buffer = <<>>
      BY <1>6, <1>7, <1>8, <1>9, <2>2
    <3>2. told[c] = lines
      BY <1>4, <1>12, <2>2
    <3>. QED  BY <2>2, <3>1, <3>2
  <2>3. CASE c # k /\ ~ (c = Proxy /\ k \in Behind)
    BY <1>6, <1>8, <2>3
  <2>. QED  BY <2>1, <2>2, <2>3
<1>14. ASSUME k \in Behind
       PROVE  /\ Told(waiting[Proxy].buffer) /\ waiting[Proxy].refreshed
              /\ waiting[Proxy].expects = r.call.expects
  <2>1. Proxy \in Clients
    BY <1>4, <1>14
  <2>2. Told(waiting[Proxy].buffer)
    BY <1>2, <2>1 DEF AllFine, Fine
  <2>. QED  BY <1>7, <1>8, <1>9, <1>14, <2>1, <2>2
<1>15. \A c \in Clients :
         /\ Told(told[c]) /\ views'[c] = Hear(waiting[c], told[c])
         /\ waiting[c].expects = {} => waiting[c].buffer = <<>>
         /\ \/ waiting[c].expects = views[c].expects
            \/ /\ waiting[c].expects = r.call.expects
               /\ c # k => k \in Behind /\ c = Proxy /\ told[c] = lines
         /\ c = k => waiting[c].expects = r.call.expects
         /\ c = k /\ k \notin Behind => told[c] = lines
         /\ c = k /\ k \in Behind =>
              /\ told[c] = PassedOn(waiting[Proxy], lines) /\ Told(waiting[Proxy].buffer)
              /\ waiting[Proxy].refreshed /\ waiting[Proxy].expects = r.call.expects
  BY <1>3, <1>5, <1>12, <1>13, <1>14
<1>16. lines = AnswerLines(r.does)
  BY DEF lines
<1>17. SaidTo(k, r, waiting, lines, told)
  BY <1>2, <1>15, <1>16 DEF SaidTo
<1>. QED  BY <1>17

\* After a request none but the client that asked, and the proxy, waits for
\* more than it did, and these not when the answer ends the exchange.
LEMMA SaysWait ==
  ASSUME ViewsFine, Anchored, NEW k, NEW r, Says(k, r)
  PROVE  /\ WaitsFor(r.call.expects)
         /\ k \notin Clients \/ Concludes(r.does, r.call.expects) => WaitsFor({})
<1>0. PICK waiting, lines, told : SaidTo(k, r, waiting, lines, told)
  BY SaysHear
<1>1. /\ AllFine(waiting) /\ Told(lines) /\ lines = AnswerLines(r.does)
      /\ \A c \in Clients :
           /\ Told(told[c]) /\ views'[c] = Hear(waiting[c], told[c])
           /\ waiting[c].expects = {} => waiting[c].buffer = <<>>
           /\ \/ waiting[c].expects = views[c].expects
              \/ /\ waiting[c].expects = r.call.expects
                 /\ c # k => k \in Behind /\ c = Proxy /\ told[c] = lines
           /\ c = k => waiting[c].expects = r.call.expects
           /\ c = k /\ k \notin Behind => told[c] = lines
           /\ c = k /\ k \in Behind =>
                /\ told[c] = PassedOn(waiting[Proxy], lines) /\ Told(waiting[Proxy].buffer)
                /\ waiting[Proxy].refreshed /\ waiting[Proxy].expects = r.call.expects
  BY <1>0 DEF SaidTo
<1>2. ASSUME NEW c \in Clients PROVE Fine(waiting[c]) /\ Told(told[c])
  BY <1>1 DEF AllFine
<1>3. ASSUME NEW c \in Clients
      PROVE  views'[c].expects \in {{}, waiting[c].expects}
  <2>1. waiting[c].expects = {} => waiting[c].buffer = <<>>
    BY <1>1
  <2>2. Hear(waiting[c], told[c]).expects \in {{}, waiting[c].expects}
    BY <1>2, <2>1, HearLeaves
  <2>. QED  BY <1>1, <2>2
<1>4. WaitsFor(r.call.expects)
  BY <1>1, <1>3 DEF WaitsFor
<1>5. ASSUME k \in Clients, Concludes(r.does, r.call.expects)
      PROVE  WaitsFor({})
  <2> DEFINE x == r.call.expects
  <2>1. Ends(lines, x)
    BY <1>1, <1>5, AnswerEnds
  <2>2. ASSUME NEW c \in Clients, waiting[c].expects = x, Ends(told[c], x)
        PROVE  views'[c].expects = {}
    <3>1. Hear(waiting[c], told[c]).expects = {}
      BY <1>2, <2>2, HearEnds
    <3>. QED  BY <1>1, <3>1
  <2>3. ASSUME k \in Behind, x # {}
        PROVE  Ends(told[k], x)
    <3>1. /\ told[k] = PassedOn(waiting[Proxy], lines) /\ Told(waiting[Proxy].buffer)
          /\ waiting[Proxy].refreshed /\ waiting[Proxy].expects = x
      BY <1>1, <1>5, <2>3
    <3>2. told[k] # <<>> /\ told[k][Len(told[k])] = lines[Len(lines)]
      BY <1>1, <2>1, <2>3, <3>1, PassedOnEnds
    <3>. QED  BY <2>1, <3>2 DEF Ends
  <2>4. ASSUME NEW c \in Clients
        PROVE  views'[c].expects \in {{}, views[c].expects}
    <3>1. CASE waiting[c].expects = views[c].expects
      BY <1>3, <3>1
    <3>2. CASE waiting[c].expects # views[c].expects /\ c # k
      <4>1. waiting[c].expects = x /\ told[c] = lines
        BY <1>1, <3>2
      <4>. QED  BY <2>1, <2>2, <4>1
    <3>3. CASE waiting[c].expects # views[c].expects /\ c = k
      <4>1. waiting[c].expects = x
        BY <1>1, <3>3
      <4>2. CASE x = {}
        BY <1>3, <4>1, <4>2
      <4>3. CASE x # {} /\ k \in Behind
        BY <2>2, <2>3, <3>3, <4>1, <4>3
      <4>4. CASE k \notin Behind
        <5>1. told[c] = lines
          BY <1>1, <3>3, <4>4
        <5>. QED  BY <2>1, <2>2, <4>1, <5>1
      <4>. QED  BY <4>2, <4>3, <4>4
    <3>. QED  BY <3>1, <3>2, <3>3
  <2>. QED  BY <2>4 DEF WaitsFor
<1>6. ASSUME k \notin Clients
      PROVE  WaitsFor({})
  <2>1. k \notin Behind
    BY <1>6, ClientsAssumption
  <2>2. \A c \in Clients : waiting[c].expects = views[c].expects
    BY <1>1, <1>6, <2>1
  <2>. QED  BY <1>3, <2>2 DEF WaitsFor
<1>. QED  BY <1>4, <1>5, <1>6

-----------------------------------------------------------------------------
(***************************************************************************)
(* Outcomes whose last line ends the exchange that asked for them.         *)
(***************************************************************************)
\* An outcome with lines.
Lined(o) == {"status", "lines"} \subseteq DOMAIN o /\ \E S : o.lines \in Seq(S)

\* What can be heard has lines.
LEMMA TellsLined == ASSUME NEW o, Tells(o) PROVE Lined(o)
BY DEF Tells, Told, Lined

\* The last line of lines with one more.
LEMMA EndOfAppended ==
  ASSUME NEW S, NEW s \in Seq(S), NEW line
  PROVE  LET t == Append(s, line)
         IN t \in Seq(S \cup {line}) /\ t # <<>> /\ Len(t) \in Nat \ {0} /\ t[Len(t)] = line
<1> DEFINE R == S \cup {line}
           t == Append(s, line)
<1>1. s \in Seq(R) /\ line \in R
  <2>1. Len(s) \in Nat /\ s \in [1..Len(s) -> S]
    OBVIOUS
  <2>. QED  BY <2>1
<1>. HIDE DEF R
<1>2. t \in Seq(R) /\ Len(t) = Len(s) + 1 /\ t[Len(s) + 1] = line /\ Len(s) \in Nat
  BY <1>1
<1>3. t # <<>>
  <2>1. Len(t) # 0 /\ Len(<<>>) = 0
    BY <1>2
  <2>. QED  BY <2>1
<1>. QED  BY <1>2, <1>3 DEF R

\* What is said last ends the exchange, if it is said at all.
LEMMA SaidConcludes ==
  ASSUME NEW o, Lined(o), NEW line, NEW kinds, line[1] \in kinds
  PROVE  /\ Lined(Say(line, o)) /\ Concludes(Say(line, o), kinds)
         /\ Lined(SayIfChanged(line, o))
         /\ Changed(o) \/ Failed(o) => Concludes(SayIfChanged(line, o), kinds)
<1> DEFINE p == [o EXCEPT !.status = "success", !.lines = Append(@, line)]
<1>1. PICK S : o.lines \in Seq(S)
  BY DEF Lined
<1>2. p.lines = Append(o.lines, line) /\ DOMAIN p = DOMAIN o
  BY DEF Lined
<1>3. LET t == Append(o.lines, line)
      IN t \in Seq(S \cup {line}) /\ t # <<>> /\ Len(t) \in Nat \ {0} /\ t[Len(t)] = line
  BY <1>1, EndOfAppended
<1>. HIDE DEF p
<1>4. Lined(p) /\ Ends(p.lines, kinds)
  BY <1>2, <1>3 DEF Lined, Ends
<1>5. Lined(Say(line, o)) /\ Concludes(Say(line, o), kinds)
  <2>1. Say(line, o) = IF Failed(o) THEN o ELSE p
    BY DEF Say, p
  <2>. QED  BY <1>4, <2>1 DEF Concludes
<1>6. SayIfChanged(line, o) = IF Changed(o) THEN Say(line, o) ELSE o
  BY DEF SayIfChanged
<1>7. Failed(o) => Concludes(o, kinds)
  BY DEF Concludes
<1>. QED  BY <1>5, <1>6, <1>7

\* The last line of two sequences, one after the other.
LEMMA EndOfJoined ==
  ASSUME NEW R, NEW s \in Seq(R), NEW S, NEW t \in Seq(S)
  PROVE  /\ s \o t \in Seq(R \cup S)
         /\ t # <<>> => s \o t # <<>> /\ (s \o t)[Len(s \o t)] = t[Len(t)]
<1>1. s \in Seq(R \cup S) /\ t \in Seq(R \cup S)
  <2>1. Len(s) \in Nat /\ s \in [1..Len(s) -> R] /\ Len(t) \in Nat /\ t \in [1..Len(t) -> S]
    OBVIOUS
  <2>. QED  BY <2>1
<1>2. Len(s) \in Nat /\ Len(t) \in Nat
  OBVIOUS
<1>3. s \o t \in Seq(R \cup S) /\ Len(s \o t) = Len(s) + Len(t)
  BY <1>1
<1>4. ASSUME t # <<>>
      PROVE  s \o t # <<>> /\ (s \o t)[Len(s \o t)] = t[Len(t)]
  <2>1. Len(t) # 0
    BY <1>4
  <2>2. Len(s \o t) # 0 /\ Len(<<>>) = 0
    BY <1>2, <1>3, <2>1
  <2>3. (s \o t)[Len(s) + Len(t)] = t[Len(t)]
    BY <1>1, <1>2, <2>1
  <2>. QED  BY <1>3, <2>2, <2>3
<1>. QED  BY <1>3, <1>4

\* An outcome that ends the exchange does so after another.
LEMMA JoinedConcludes ==
  ASSUME NEW o, Lined(o), NEW p, NEW kinds, ~ Failed(o) => Lined(p) /\ Concludes(p, kinds)
  PROVE  Concludes(Joined(o, p), kinds)
<1>1. CASE Failed(o)
  BY <1>1 DEF Joined, Concludes
<1>2. CASE ~ Failed(o)
  <2> DEFINE q == [p EXCEPT !.lines = o.lines \o @, !.dirty = o.dirty \/ @]
  <2>1. {"status", "lines"} \subseteq DOMAIN p
    BY <1>2 DEF Lined
  <2>2. DOMAIN q = DOMAIN p /\ q.lines = o.lines \o p.lines /\ q.status = p.status
    BY <2>1
  <2>3. Joined(o, p) = q
    BY <1>2 DEF Joined
  <2>. HIDE DEF q
  <2>4. PICK R : o.lines \in Seq(R)
    BY DEF Lined
  <2>5. PICK S : p.lines \in Seq(S)
    BY <1>2 DEF Lined
  <2>6. p.lines # <<>> =>
          /\ q.lines # <<>> /\ q.lines[Len(q.lines)] = p.lines[Len(p.lines)]
    <3> DEFINE t == p.lines
               u == o.lines \o t
    <3>1. ASSUME NEW x \in Seq(R), NEW y \in Seq(S)
          PROVE  y # <<>> => x \o y # <<>> /\ (x \o y)[Len(x \o y)] = y[Len(y)]
      BY EndOfJoined
    <3>3. t # <<>> => u # <<>> /\ u[Len(u)] = t[Len(t)]
      BY <2>4, <2>5, <3>1, Zenon
    <3>. HIDE DEF t, u
    <3>2. q.lines = u /\ p.lines = t
      BY <2>2 DEF t, u
    <3>. QED  BY <3>2, <3>3
  <2>7. Failed(q) = Failed(p)
    BY <2>2 DEF Failed
  <2>8. Concludes(p, kinds)
    BY <1>2
  <2>9. Ends(p.lines, kinds) => Ends(q.lines, kinds)
    BY <2>6 DEF Ends
  <2>. QED  BY <2>3, <2>7, <2>8, <2>9 DEF Concludes
<1>. QED  BY <1>1, <1>2

\* An outcome that ends an exchange, whatever it joins.
Final(o, kinds) == Lined(o) /\ Concludes(o, kinds)

\* What is said last is final.
LEMMA SaidFinal ==
  ASSUME NEW o, Lined(o), NEW line, NEW kinds, line[1] \in kinds
  PROVE  Final(Say(line, o), kinds)
BY SaidConcludes DEF Final

\* So is an outcome that joins a final one.
LEMMA JoinedFinal ==
  ASSUME NEW o, Lined(o), NEW p, NEW kinds, Final(p, kinds)
  PROVE  Concludes(Joined(o, p), kinds)
BY JoinedConcludes DEF Final

\* The outcomes that requests begin with.
LEMMA StoredLined ==
  /\ \A r : Lined(Stored(r)) /\ Lined([Stored(r) EXCEPT !.dirty = FALSE])
  /\ \A zone, status : Lined(Silent(zone)) /\ Lined(RefuseZone(zone, status))
  /\ \A status, group, zones : Lined(GroupKept(status, group, zones))
  /\ \A zones, r : /\ Lined(StoredGroup(zones, r)) /\ Lined([StoredGroup(zones, r) EXCEPT !.dirty = FALSE])
  /\ \A r : Lined(StoredPreset(r)) /\ Lined(StoredItem(r)) /\ Lined(StoredModel(r))
BY TellsNothing, TellsLined

\* What comes before the setting of a level.
LEMMA ConditionalLined ==
  ASSUME NEW zone, NEW z
  PROVE  /\ \A mute : Lined(HandleSetMuteConditionally(zone, z, mute))
         /\ \A mode : Lined(HandleSetSoundModeConditionally(zone, z, mode))
<1>1. ASSUME NEW mute PROVE Lined(HandleSetMuteConditionally(zone, z, mute))
  <2> DEFINE line == HandleMuteResponse(z, mute)
             o == SetZoneMute(zone, mute)
  <2>1. line[1] \in {"mute"} /\ Lined(o)
    BY StoredLined DEF HandleMuteResponse, SetZoneMute
  <2>2. HandleSetMuteConditionally(zone, z, mute) = SayIfChanged(line, o)
    BY DEF HandleSetMuteConditionally, HandleSetMute
  <2>. HIDE DEF line, o
  <2>. QED  BY <2>1, <2>2, SaidConcludes
<1>2. ASSUME NEW mode PROVE Lined(HandleSetSoundModeConditionally(zone, z, mode))
  <2> DEFINE line == HandleSoundModeResponse(z, mode)
             o == Stored(ZoneSetSoundMode(zone, mode))
  <2>1. line[1] \in {"mode"} /\ Lined(o)
    BY StoredLined DEF HandleSoundModeResponse
  <2>2. HandleSetSoundModeConditionally(zone, z, mode) = SayIfChanged(line, o)
    BY DEF HandleSetSoundModeConditionally, HandleSetSoundMode
  <2>. HIDE DEF line, o
  <2>. QED  BY <2>1, <2>2, SaidConcludes
<1>. QED  BY <1>1, <1>2

\* Requests for balance, sound mode, crossovers, preset and tone, which say
\* what they were asked even when it was set already.
LEMMA SoundConcludes ==
  ASSUME NEW zone, NEW z
  PROVE  /\ \A toRight : Concludes(AdjustBalanceRequest(zone, z, toRight), {"balance"})
         /\ \A balance : Concludes(SetBalanceRequest(zone, z, balance), {"balance"})
         /\ \A mode : Concludes(SetSoundModeRequest(zone, z, mode), {"mode"})
         /\ \A f : Concludes(SetHighpassCrossoverRequest(zone, z, f), {"highpass"})
         /\ \A f : Concludes(SetLowpassCrossoverRequest(zone, z, f), {"lowpass"})
         /\ \A p : Concludes(SetEqualizerPresetRequest(zone, z, p), {"preset"})
         /\ \A tone : Concludes(SetToneRequest(zone, z, tone), {"tone"})
<1>1. ASSUME NEW r, NEW line, NEW kinds, line[1] \in kinds
      PROVE  /\ Concludes(Say(line, Stored(r)), kinds)
             /\ \A mode : Concludes(Joined(HandleSetSoundModeConditionally(zone, z, mode),
                                           Say(line, Stored(r))), kinds)
  <2>1. Final(Say(line, Stored(r)), kinds)
    BY <1>1, StoredLined, SaidFinal
  <2>. QED  BY <2>1, ConditionalLined, JoinedFinal DEF Final
<1>2. ASSUME NEW toRight PROVE Concludes(AdjustBalanceRequest(zone, z, toRight), {"balance"})
  <2> DEFINE r == IF toRight THEN ZoneIncreaseBalanceRight(zone) ELSE ZoneIncreaseBalanceLeft(zone)
             line == <<"balance", z, Stored(r).zone.balance>>
  <2>1. AdjustBalanceRequest(zone, z, toRight) = Say(line, Stored(r)) /\ line[1] \in {"balance"}
    BY DEF AdjustBalanceRequest, HandleAdjustBalanceReceived
  <2>. HIDE DEF r, line
  <2>. QED  BY <1>1, <2>1
<1>3. ASSUME NEW balance PROVE Concludes(SetBalanceRequest(zone, z, balance), {"balance"})
  <2> DEFINE line == <<"balance", z, balance>>
  <2>1. /\ SetBalanceRequest(zone, z, balance) = Say(line, Stored(ZoneSetBalance(zone, balance)))
        /\ line[1] \in {"balance"}
    BY DEF SetBalanceRequest, HandleSetBalanceReceived
  <2>. HIDE DEF line
  <2>. QED  BY <1>1, <2>1
<1>4. ASSUME NEW mode PROVE Concludes(SetSoundModeRequest(zone, z, mode), {"mode"})
  <2> DEFINE line == HandleSoundModeResponse(z, mode)
  <2>1. /\ SetSoundModeRequest(zone, z, mode) = Say(line, Stored(ZoneSetSoundMode(zone, mode)))
        /\ line[1] \in {"mode"}
    BY DEF SetSoundModeRequest, HandleSetSoundModeUnconditionally, HandleSetSoundMode,
           HandleSoundModeResponse
  <2>. HIDE DEF line
  <2>. QED  BY <1>1, <2>1
<1>5. ASSUME NEW f
      PROVE  /\ Concludes(SetHighpassCrossoverRequest(zone, z, f), {"highpass"})
             /\ Concludes(SetLowpassCrossoverRequest(zone, z, f), {"lowpass"})
  <2> DEFINE high == HandleHighpassCrossoverResponse(z, f)
             low == HandleLowpassCrossoverResponse(z, f)
             o(mode) == HandleSetSoundModeConditionally(zone, z, mode)
             p == ZoneSetHighpassFrequency(o("highpass").zone, f)
             q == ZoneSetLowpassFrequency(o("lowpass").zone, f)
  <2>1. high[1] \in {"highpass"} /\ low[1] \in {"lowpass"}
    BY DEF HandleHighpassCrossoverResponse, HandleLowpassCrossoverResponse
  <2>2. /\ SetHighpassCrossoverRequest(zone, z, f) = Joined(o("highpass"), Say(high, Stored(p)))
        /\ SetLowpassCrossoverRequest(zone, z, f) = Joined(o("lowpass"), Say(low, Stored(q)))
    BY DEF SetHighpassCrossoverRequest, SetLowpassCrossoverRequest
  <2>. HIDE DEF high, low, p, q
  <2>3. /\ Concludes(Joined(o("highpass"), Say(high, Stored(p))), {"highpass"})
        /\ Concludes(Joined(o("lowpass"), Say(low, Stored(q))), {"lowpass"})
    BY <1>1, <2>1
  <2>. QED  BY <2>2, <2>3
<1>6. ASSUME NEW p PROVE Concludes(SetEqualizerPresetRequest(zone, z, p), {"preset"})
  <2> DEFINE line == HandleEqualizerPresetResponse(z, p)
             o == HandleSetSoundModeConditionally(zone, z, "preset")
             r == ZoneSetEqualizerPreset(o.zone, p)
  <2>1. line[1] \in {"preset"}
    BY DEF HandleEqualizerPresetResponse
  <2>2. \/ SetEqualizerPresetRequest(zone, z, p) = RefuseZone(zone, "range")
        \/ SetEqualizerPresetRequest(zone, z, p) = Joined(o, Say(line, Stored(r)))
    BY DEF SetEqualizerPresetRequest
  <2>3. Failed(RefuseZone(zone, "range"))
    BY DEF Failed, RefuseZone, Silent
  <2>. HIDE DEF line, r
  <2>4. Concludes(Joined(o, Say(line, Stored(r))), {"preset"})
    BY <1>1, <2>1
  <2>. QED  BY <2>2, <2>3, <2>4 DEF Concludes
<1>7. ASSUME NEW tone PROVE Concludes(SetToneRequest(zone, z, tone), {"tone"})
  <2> DEFINE line == HandleToneResponse(z, tone)
             o == HandleSetSoundModeConditionally(zone, z, "tone")
             r == ZoneSetTone(o.zone, tone)
  <2>1. line[1] \in {"tone"}
    BY DEF HandleToneResponse
  <2>2. SetToneRequest(zone, z, tone) = Joined(o, Say(line, Stored(r)))
    BY DEF SetToneRequest
  <2>. HIDE DEF line, r
  <2>4. Concludes(Joined(o, Say(line, Stored(r))), {"tone"})
    BY <1>1, <2>1
  <2>. QED  BY <2>2, <2>4
<1>. QED  BY <1>2, <1>3, <1>4, <1>5, <1>6, <1>7

-----------------------------------------------------------------------------
(***************************************************************************)
(* The requests to a zone, and what they end with.                         *)
(***************************************************************************)
\* A bass or treble that is adjusted is told.
LEMMA AdjustedToneConcludes ==
  ASSUME NEW zone, NEW z
  PROVE  /\ \A by : Concludes(HandleAdjustBassReceived(zone, z, by), {"tone"})
         /\ \A by : Concludes(HandleAdjustTrebleReceived(zone, z, by), {"tone"})
<1>1. ASSUME NEW r
      PROVE  /\ Final(Say(HandleToneResponse(z, Stored(r).zone.tone), Stored(r)), {"tone"})
             /\ Final([Stored(r) EXCEPT !.status = "null"], {"tone"})
  <2> DEFINE line == HandleToneResponse(z, Stored(r).zone.tone)
             refused == [Stored(r) EXCEPT !.status = "null"]
  <2>1. line[1] \in {"tone"}
    BY DEF HandleToneResponse
  <2>2. Final(Say(line, Stored(r)), {"tone"})
    <3>. HIDE DEF line
    <3>. QED  BY <2>1, StoredLined, SaidFinal
  <2>3. Lined(refused) /\ Failed(refused)
    <3>1. Lined(Stored(r))
      BY StoredLined
    <3>. QED  BY <3>1 DEF Lined, Failed, Stored
  <2>. QED  BY <2>2, <2>3 DEF Final, Concludes
<1>2. ASSUME NEW left, NEW by
      PROVE  Final(AdjustBassOnly(left, z, by), {"tone"}) /\ Final(AdjustTrebleOnly(left, z, by), {"tone"})
  <2> DEFINE bass == IF by < 0 THEN ZoneDecreaseBass(left) ELSE ZoneIncreaseBass(left)
             treble == IF by < 0 THEN ZoneDecreaseTreble(left) ELSE ZoneIncreaseTreble(left)
  <2>1. AdjustBassOnly(left, z, by) \in {Say(HandleToneResponse(z, Stored(bass).zone.tone), Stored(bass)),
                                        [Stored(bass) EXCEPT !.status = "null"]}
    BY DEF AdjustBassOnly
  <2>2. AdjustTrebleOnly(left, z, by) \in
          {Say(HandleToneResponse(z, Stored(treble).zone.tone), Stored(treble)),
           [Stored(treble) EXCEPT !.status = "null"]}
    BY DEF AdjustTrebleOnly
  <2>. HIDE DEF bass, treble
  <2>. QED  BY <1>1, <2>1, <2>2
<1>. QED
  BY <1>2, ConditionalLined, JoinedFinal DEF HandleAdjustBassReceived, HandleAdjustTrebleReceived

\* A band of the equalizer likewise.
LEMMA BandConcludes ==
  ASSUME NEW zone, NEW z, NEW b
  PROVE  /\ Concludes(DecreaseEqualizerBandRequest(zone, z, b), {"band"})
         /\ Concludes(IncreaseEqualizerBandRequest(zone, z, b), {"band"})
         /\ \A level : Concludes(SetEqualizerBandRequest(zone, z, b, level), {"band"})
<1>1. ASSUME NEW level PROVE HandleEqualizerBandResponse(z, b, level)[1] \in {"band"}
  BY DEF HandleEqualizerBandResponse
<1>2. ASSUME NEW left, NEW status, status \notin {"success", "already"}
      PROVE  Final(RefuseZone(left, status), {"band"})
  <2>1. Failed(RefuseZone(left, status))
    BY <1>2 DEF Failed, RefuseZone, Silent
  <2>. QED  BY <2>1, StoredLined DEF Final, Concludes
<1>3. ASSUME NEW left, NEW by PROVE Final(AdjustBandOnly(left, z, b, by), {"band"})
  <2> DEFINE band == ZoneGetEqualizerBand(left, b)
             r == IF by < 0 THEN DecreaseLevel(band.value) ELSE IncreaseLevel(band.value)
             said == Say(HandleEqualizerBandResponse(z, b, r.value), Stored(SetBand(left, b, r)))
  <2>1. Final(said, {"band"})
    <3>. HIDE DEF r
    <3>. QED  BY <1>1, StoredLined, SaidFinal
  <2>2. AdjustBandOnly(left, z, b, by) = IF Failed(band) THEN RefuseZone(left, band.status) ELSE said
    BY DEF AdjustBandOnly
  <2>. HIDE DEF band, said
  <2>3. Failed(band) => Final(RefuseZone(left, band.status), {"band"})
    BY <1>2 DEF Failed
  <2>. QED  BY <2>1, <2>2, <2>3
<1>4. ASSUME NEW left, NEW level PROVE Final(HandleSetEqualizerBandReceived(left, z, b, level), {"band"})
  <2> DEFINE band == ZoneGetEqualizerBand(left, b)
             line == HandleEqualizerBandResponse(z, b, level)
             left2 == SetBand(left, b, SetLevel(band.value, level)).value
             o == [status |-> "success", zone |-> left2, lines |-> <<line>>, dirty |-> TRUE]
  <2>1. HandleSetEqualizerBandReceived(left, z, b, level)
          = IF Failed(band) THEN RefuseZone(left, band.status) ELSE o
    BY DEF HandleSetEqualizerBandReceived
  <2>2. line[1] \in {"band"}
    BY <1>1
  <2>. HIDE DEF line, left2, band
  <2>3. Final(o, {"band"})
    <3>1. o.lines = <<line>> /\ {"status", "lines"} \subseteq DOMAIN o
      OBVIOUS
    <3>2. <<line>> \in Seq({line}) /\ <<line>> # <<>> /\ Len(<<line>>) = 1 /\ <<line>>[1] = line
      OBVIOUS
    <3>. HIDE DEF o
    <3>3. Lined(o)
      BY <3>1, <3>2 DEF Lined
    <3>4. Ends(o.lines, {"band"})
      BY <2>2, <3>1, <3>2 DEF Ends
    <3>. QED  BY <3>3, <3>4 DEF Final, Concludes
  <2>. HIDE DEF o
  <2>4. Failed(band) => Final(RefuseZone(left, band.status), {"band"})
    BY <1>2 DEF Failed
  <2>. QED  BY <2>1, <2>3, <2>4
<1>5. \A by : Concludes(HandleAdjustEqualizerBandReceived(zone, z, b, by), {"band"})
  BY <1>3, ConditionalLined, JoinedFinal DEF HandleAdjustEqualizerBandReceived
<1>6. \A level : Concludes(SetEqualizerBandRequest(zone, z, b, level), {"band"})
  BY <1>4, ConditionalLined, JoinedFinal DEF SetEqualizerBandRequest
<1>. QED  BY <1>5, <1>6 DEF DecreaseEqualizerBandRequest, IncreaseEqualizerBandRequest

\* A volume is not answered when it was set already.
LEMMA VolumeConcludes ==
  ASSUME NEW zone \in Zones, NEW z
  PROVE  /\ Concludes(DecreaseVolumeRequest(zone, z), {"volume"})
         /\ Concludes(IncreaseVolumeRequest(zone, z), {"volume"})
         /\ \A mute : Concludes(MuteRequest(zone, z, mute), {"mute"})
         /\ \A level : LET o == SetVolumeRequest(zone, z, level)
                       IN Concludes(o, {"volume"}) \/ o.zone.volume = zone.volume
         /\ Concludes(ToggleMuteRequest(zone, z), {"mute"})
<1>1. ASSUME NEW level PROVE HandleVolumeResponse(z, level)[1] \in {"volume"}
  BY DEF HandleVolumeResponse
<1>2. ASSUME NEW mute PROVE HandleMuteResponse(z, mute)[1] \in {"mute"}
  BY DEF HandleMuteResponse
<1>3. ASSUME NEW left, NEW by PROVE Final(HandleAdjustVolumeReceived(left, z, by), {"volume"})
  <2>1. Lined(AdjustZoneVolume(left, by))
    BY StoredLined DEF AdjustZoneVolume
  <2>. QED  BY <1>1, <2>1, SaidFinal DEF HandleAdjustVolumeReceived
<1>4. Concludes(DecreaseVolumeRequest(zone, z), {"volume"}) /\ Concludes(IncreaseVolumeRequest(zone, z), {"volume"})
  BY <1>3, ConditionalLined, JoinedFinal DEF DecreaseVolumeRequest, IncreaseVolumeRequest
<1>5. ASSUME NEW mute PROVE Concludes(MuteRequest(zone, z, mute), {"mute"})
  <2>1. Lined(SetZoneMute(zone, mute))
    BY StoredLined DEF SetZoneMute
  <2>2. MuteRequest(zone, z, mute) = Say(HandleMuteResponse(z, mute), SetZoneMute(zone, mute))
    BY DEF MuteRequest, HandleSetMuteUnconditionally, HandleSetMute
  <2>. QED  BY <1>2, <2>1, <2>2, SaidConcludes
<1>6. Concludes(ToggleMuteRequest(zone, z), {"mute"})
  <2>1. Lined(ToggleZoneMute(zone))
    BY StoredLined DEF ToggleZoneMute
  <2>. QED  BY <1>2, <2>1, SaidConcludes DEF ToggleMuteRequest
<1>7. ASSUME NEW level
      PROVE  LET o == SetVolumeRequest(zone, z, level)
             IN Concludes(o, {"volume"}) \/ o.zone.volume = zone.volume
  <2> DEFINE unmuted == HandleSetMuteConditionally(zone, z, FALSE)
             set == SetZoneVolume(unmuted.zone, level)
             line == HandleVolumeResponse(z, level)
             p == SayIfChanged(line, set)
             o == Joined(unmuted, p)
  <2>1. SetVolumeRequest(zone, z, level) = o
    BY DEF SetVolumeRequest, HandleSetVolumeReceived
  <2>2. unmuted.zone.volume = zone.volume /\ "volume" \in DOMAIN unmuted.zone
    <3>1. unmuted.zone = [zone EXCEPT !.mute = FALSE]
      <4> DEFINE muted == SetZoneMute(zone, FALSE)
      <4>1. muted.zone = [zone EXCEPT !.mute = FALSE] /\ "zone" \in DOMAIN muted
        BY DEF SetZoneMute, Stored, OutputSetMute, SetField, SetMute, Set
      <4>2. \A line2 : Say(line2, muted).zone = muted.zone
        <5>. HIDE DEF muted
        <5>. QED  BY <4>1 DEF Say
      <4>. QED
        BY <4>1, <4>2 DEF HandleSetMuteConditionally, HandleSetMute, SayIfChanged
    <3>2. "volume" \in DOMAIN zone
      BY DEF Zones, ZonesWith
    <3>. QED  BY <3>1, <3>2
  <2>3. Lined(set) /\ line[1] \in {"volume"} /\ Lined(unmuted)
    BY <1>1, StoredLined, ConditionalLined DEF SetZoneVolume
  <2>4. CASE Changed(set) \/ Failed(set)
    <3>. HIDE DEF unmuted, set, line
    <3>1. Final(p, {"volume"})
      BY <2>3, <2>4, SaidConcludes DEF Final
    <3>. HIDE DEF p
    <3>. QED  BY <2>1, <2>3, <3>1, JoinedFinal
  <2>5. CASE ~ Changed(set) /\ ~ Failed(set)
    <3>1. set.zone.volume = unmuted.zone.volume
      <4> DEFINE left == unmuted.zone
                 r == SetVolume(left.volume, level)
      <4>. HIDE DEF left, r
      <4>1. left.volume = unmuted.zone.volume /\ "volume" \in DOMAIN left
        BY <2>2 DEF left
      <4>2. r.status = "already" => r.value = left.volume
        BY DEF r, SetVolume, SetWithin, Set
      <4>3. set = Stored([status |-> r.status, value |-> [left EXCEPT !.volume = r.value]])
        BY DEF SetZoneVolume, OutputSetVolume, SetField, r, left
      <4>4. set.status = r.status /\ set.zone = [left EXCEPT !.volume = r.value]
        <5>1. \A x : Stored(x).status = x.status /\ Stored(x).zone = x.value
          BY DEF Stored
        <5> DEFINE x == [status |-> r.status, value |-> [left EXCEPT !.volume = r.value]]
        <5>2. x.status = r.status /\ x.value = [left EXCEPT !.volume = r.value]
          OBVIOUS
        <5>. HIDE DEF x, set
        <5>3. set = Stored(x)
          BY <4>3 DEF x
        <5>. QED  BY <5>1, <5>2, <5>3
      <4>5. r.status = "already"
        BY <2>5, <4>4 DEF Failed, Changed
      <4>. QED  BY <4>1, <4>2, <4>4, <4>5
    <3>2. o.zone = unmuted.zone \/ o.zone = set.zone
      <4>1. p = set
        BY <2>5 DEF SayIfChanged
      <4>2. "zone" \in DOMAIN set
        BY DEF SetZoneVolume, Stored
      <4>. HIDE DEF set, unmuted
      <4>3. CASE Failed(unmuted)
        BY <4>3 DEF Joined
      <4>4. CASE ~ Failed(unmuted)
        BY <4>1, <4>2, <4>4 DEF Joined
      <4>. QED  BY <4>3, <4>4
    <3>. HIDE DEF unmuted, set, o
    <3>. QED  BY <2>1, <2>2, <3>1, <3>2
  <2>. QED  BY <2>4, <2>5
<1>. QED  BY <1>4, <1>5, <1>6, <1>7

\* What else can be set of a zone.
LEMMA OtherConcludes ==
  ASSUME NEW zone, NEW z
  PROVE  /\ \A fixed : Concludes(SetVolumeFixedRequest(zone, z, fixed), {"fixed"})
         /\ \A s : Concludes(SetSourceRequest(zone, z, s), {"source"})
         /\ \A name : Concludes(SetZoneNameRequest(zone, z, name), {"name"})
<1>1. ASSUME NEW fixed PROVE Concludes(SetVolumeFixedRequest(zone, z, fixed), {"fixed"})
  <2>1. HandleVolumeFixedResponse(z, fixed)[1] \in {"fixed"}
    BY DEF HandleVolumeFixedResponse
  <2>. QED  BY <2>1, StoredLined, SaidConcludes DEF SetVolumeFixedRequest
<1>2. ASSUME NEW s PROVE Concludes(SetSourceRequest(zone, z, s), {"source"})
  <2> DEFINE line == <<"source", z, s>>
  <2>1. line[1] \in {"source"}
    OBVIOUS
  <2>2. \/ SetSourceRequest(zone, z, s) = RefuseZone(zone, "range")
        \/ SetSourceRequest(zone, z, s) = Say(line, SetZoneSource(zone, s))
    BY DEF SetSourceRequest
  <2>3. Failed(RefuseZone(zone, "range"))
    BY DEF Failed, RefuseZone, Silent
  <2>4. Lined(SetZoneSource(zone, s))
    BY StoredLined DEF SetZoneSource
  <2>. HIDE DEF line
  <2>. QED  BY <2>1, <2>2, <2>3, <2>4, SaidConcludes DEF Concludes
<1>3. ASSUME NEW name PROVE Concludes(SetZoneNameRequest(zone, z, name), {"name"})
  <2> DEFINE line == <<"name", z, name>>
  <2>1. line[1] \in {"name"}
    OBVIOUS
  <2>2. SetZoneNameRequest(zone, z, name) = Say(line, Stored(OutputSetName(zone, name)))
    BY DEF SetZoneNameRequest
  <2>. HIDE DEF line
  <2>. QED  BY <2>1, <2>2, StoredLined, SaidConcludes
<1>. QED  BY <1>1, <1>2, <1>3

-----------------------------------------------------------------------------
(***************************************************************************)
(* The other requests.                                                     *)
(***************************************************************************)
\* An outcome of one line.
LEMMA OneLine ==
  ASSUME NEW o, NEW line, NEW kinds, o.lines = <<line>>, line[1] \in kinds
  PROVE  Concludes(o, kinds)
<1>1. <<line>> # <<>> /\ Len(<<line>>) = 1 /\ <<line>>[1] = line
  OBVIOUS
<1>. QED  BY <1>1 DEF Concludes, Ends

\* The answer to a query of one value is that, or an error.
LEMMA KnownConcludes ==
  ASSUME NEW zone, NEW get, NEW line, NEW kinds, line[1] \in kinds
  PROVE  Concludes(AnswerKnown(zone, get, line), kinds)
<1>1. CASE Failed(get)
  <2>1. RefuseZone(zone, get.status).status = get.status
    BY DEF RefuseZone, Silent
  <2>. QED  BY <1>1, <2>1 DEF AnswerKnown, Failed, Concludes
<1>2. CASE ~ Failed(get)
  <2>1. [Silent(zone) EXCEPT !.lines = <<line>>].lines = <<line>>
    BY DEF Silent
  <2>. QED  BY <1>2, <2>1, OneLine DEF AnswerKnown
<1>. QED  BY <1>1, <1>2

\* The queries of a zone.
LEMMA QueriesConclude ==
  ASSUME NEW zone \in Zones, NEW z \in 1..ZonesMax
  PROVE  /\ Concludes(QueryRequest(zone, z), {"zone query"})
         /\ Concludes(QueryMuteRequest(zone, z), {"mute"})
         /\ Concludes(QuerySourceRequest(zone, z), {"source"})
         /\ Concludes(QueryVolumeRequest(zone, z), {"volume"})
<1>1. Concludes(QueryRequest(zone, z), {"zone query"})
  <2> DEFINE line == <<"zone query", z>>
             o == HandleQueryReceived(FALSE, zone, z)
  <2>1. line[1] \in {"zone query"}
    OBVIOUS
  <2>2. Lined(o)
    <3>1. Tells(o)
      BY TellsZoneQueries
    <3>. HIDE DEF o
    <3>. QED  BY <3>1, TellsLined
  <2>3. QueryRequest(zone, z) = Say(line, o)
    BY DEF QueryRequest
  <2>. HIDE DEF line, o
  <2>. QED  BY <2>1, <2>2, <2>3, SaidConcludes
<1>2. /\ HandleMuteResponse(z, zone.mute)[1] \in {"mute"}
      /\ <<"source", z, zone.source>>[1] \in {"source"}
      /\ HandleVolumeResponse(z, zone.volume)[1] \in {"volume"}
  BY DEF HandleMuteResponse, HandleVolumeResponse
<1>. QED
  BY <1>1, <1>2, KnownConcludes DEF QueryMuteRequest, HandleQueryMute, QuerySourceRequest,
     HandleQuerySource, QueryVolumeRequest, HandleQueryVolume

\* Requests for all zones.
LEMMA AllConclude ==
  ASSUME NEW zones \in ZoneLists
  PROVE  /\ \A level : Concludes(SetVolumeAllRequest(zones, level), {"volume all"})
         /\ \A s : Concludes(SetSourceAllRequest(zones, s), {"source all"})
<1>1. DOMAIN zones = 1..ZonesMax
  BY DEF ZoneLists
<1>2. ASSUME NEW level PROVE Concludes(SetVolumeAllRequest(zones, level), {"volume all"})
  <2> DEFINE unmuted == [z \in DOMAIN zones |-> HandleSetMuteConditionally(zones[z], z, FALSE)]
             o == [z \in DOMAIN zones |-> Joined(unmuted[z], SetZoneVolume(unmuted[z].zone, level))]
             line == <<"volume all", level>>
  <2>1. ASSUME NEW z \in 1..ZonesMax PROVE Tells(o[z])
    <3>1. Tells(unmuted[z])
      BY <1>1, TellsShared
    <3>2. Tells(SetZoneVolume(unmuted[z].zone, level))
      BY TellsNothing DEF SetZoneVolume
    <3>. HIDE DEF unmuted
    <3>. QED  BY <1>1, <3>1, <3>2, TellsJoined
  <2>2. SetVolumeAllRequest(zones, level) = Say(line, EachZone(zones, o))
    BY DEF SetVolumeAllRequest
  <2>3. line[1] \in {"volume all"}
    OBVIOUS
  <2>. HIDE DEF o, line
  <2>4. Lined(EachZone(zones, o))
    BY <2>1, TellsEach, TellsLined
  <2>. QED  BY <2>2, <2>3, <2>4, SaidConcludes
<1>3. ASSUME NEW s PROVE Concludes(SetSourceAllRequest(zones, s), {"source all"})
  <2> DEFINE o == [z \in DOMAIN zones |-> SetZoneSource(zones[z], s)]
             line == <<"source all", s>>
             refused == [status |-> "range", zones |-> zones, lines |-> <<>>, dirty |-> FALSE]
  <2>1. SetSourceAllRequest(zones, s) \in {Say(line, EachZone(zones, o)), refused}
    BY DEF SetSourceAllRequest
  <2>2. \A z \in 1..ZonesMax : Tells(o[z])
    BY <1>1, TellsNothing DEF SetZoneSource
  <2>3. line[1] \in {"source all"} /\ Failed(refused)
    BY DEF Failed
  <2>. HIDE DEF o, line, refused
  <2>4. Lined(EachZone(zones, o))
    BY <2>2, TellsEach, TellsLined
  <2>. QED  BY <2>1, <2>3, <2>4, SaidConcludes DEF Concludes
<1>. QED  BY <1>2, <1>3

\* Presets, favorites, sources, the panel and infrared.
LEMMA ElementsConclude ==
  /\ \A preset, p, b : /\ Concludes(DecreaseBandRequest(preset, p, b), {"preset band"})
                       /\ Concludes(IncreaseBandRequest(preset, p, b), {"preset band"})
  /\ \A preset, p, b, level : Concludes(SetBandRequest(preset, p, b, level), {"preset band"})
  /\ \A preset, p, name : Concludes(SetPresetNameRequest(preset, p, name), {"preset name"})
  /\ \A item, f, name : Concludes(SetFavoriteNameRequest(item, f, name), {"favorite name"})
  /\ \A item, s, name : Concludes(SetSourceNameRequest(item, s, name), {"source name"})
  /\ \A panel, b : Concludes(SetBrightnessRequest(panel, b), {"brightness"})
  /\ \A panel, b : Concludes(SetLockedRequest(panel, b), {"locked"})
  /\ \A infrared, b : Concludes(SetDisabledRequest(infrared, b), {"disabled"})
<1>1. ASSUME NEW preset, NEW p, NEW b
      PROVE  /\ \A by : Concludes(HandleAdjustBandReceived(preset, p, b, by), {"preset band"})
             /\ \A level : Concludes(HandleSetBandReceived(preset, p, b, level), {"preset band"})
  <2> DEFINE band == PresetGetEqualizerBand(preset, b)
  <2>1. ASSUME NEW v PROVE Concludes(AnswerBand(preset, p, b, v), {"preset band"})
    <3>1. HandleBandResponse(p, b, v.value)[1] \in {"preset band"}
      BY DEF HandleBandResponse
    <3>. QED  BY <3>1, StoredLined, SaidConcludes DEF AnswerBand
  <2>2. CASE Failed(band)
    <3>1. PresetKept(band.status, preset).status = band.status
      BY DEF PresetKept
    <3>2. Concludes(PresetKept(band.status, preset), {"preset band"})
      BY <2>2, <3>1 DEF Failed, Concludes
    <3>. QED  BY <2>2, <3>2 DEF HandleAdjustBandReceived, HandleSetBandReceived
  <2>3. CASE ~ Failed(band)
    BY <2>1, <2>3 DEF HandleAdjustBandReceived, HandleSetBandReceived
  <2>. QED  BY <2>2, <2>3
<1>2. ASSUME NEW preset, NEW p, NEW name
      PROVE  Concludes(SetPresetNameRequest(preset, p, name), {"preset name"})
  <2>1. <<"preset name", p, name>>[1] \in {"preset name"}
    OBVIOUS
  <2>. QED  BY <2>1, StoredLined, SaidConcludes DEF SetPresetNameRequest
<1>3. ASSUME NEW item, NEW i, NEW name
      PROVE  /\ Concludes(SetFavoriteNameRequest(item, i, name), {"favorite name"})
             /\ Concludes(SetSourceNameRequest(item, i, name), {"source name"})
  <2>1. <<"favorite name", i, name>>[1] \in {"favorite name"} /\ <<"source name", i, name>>[1] \in {"source name"}
    OBVIOUS
  <2>. QED  BY <2>1, StoredLined, SaidConcludes DEF SetFavoriteNameRequest, SetSourceNameRequest
<1>4. ASSUME NEW model, NEW b
      PROVE  /\ Concludes(SetBrightnessRequest(model, b), {"brightness"})
             /\ Concludes(SetLockedRequest(model, b), {"locked"})
             /\ Concludes(SetDisabledRequest(model, b), {"disabled"})
  <2>1. /\ HandleBrightnessResponse(b)[1] \in {"brightness"} /\ HandleLockedResponse(b)[1] \in {"locked"}
        /\ HandleDisabledResponse(b)[1] \in {"disabled"}
    BY DEF HandleBrightnessResponse, HandleLockedResponse, HandleDisabledResponse
  <2>. QED
    BY <2>1, StoredLined, SaidConcludes DEF SetBrightnessRequest, SetLockedRequest, SetDisabledRequest
<1>. QED
  BY <1>1, <1>2, <1>3, <1>4 DEF DecreaseBandRequest, IncreaseBandRequest, SetBandRequest

-----------------------------------------------------------------------------
(***************************************************************************)
(* What stays as it was when a request is not answered: a field of a zone, or*)
(* of the last zone of a group.                                            *)
(***************************************************************************)
\* A setter that changes nothing leaves its field as it was.
LEMMA FieldKept ==
  ASSUME NEW zone, NEW field \in DOMAIN zone, NEW r, r.status # "success" => r.value = zone[field]
  PROVE  LET o == Stored(SetField(zone, field, r))
         IN /\ o.status = r.status
            /\ o.status # "success" => o.zone[field] = zone[field]
<1> DEFINE x == [status |-> r.status, value |-> [zone EXCEPT ![field] = r.value]]
<1>1. SetField(zone, field, r) = x
  BY DEF SetField
<1>2. x.status = r.status /\ x.value[field] = r.value
  OBVIOUS
<1>3. Stored(x).status = x.status /\ Stored(x).zone = x.value
  BY DEF Stored
<1>. HIDE DEF x
<1>. QED  BY <1>1, <1>2, <1>3

\* A level or a source that was set already stays.
LEMMA LevelKept ==
  ASSUME NEW zone \in Zones
  PROVE  /\ \A level : LET o == ShouldSetVolume(zone, level)
                       IN o.status = "already" => o.zone.volume = zone.volume
         /\ \A by : LET o == ShouldAdjustVolume(zone, by)
                    IN o.status = "already" => o.zone.volume = zone.volume
         /\ \A s : LET o == ShouldSetSource(zone, s)
                   IN o.status = "already" => o.zone.source = zone.source
<1>1. {"volume", "source"} \subseteq DOMAIN zone
  BY DEF Zones, ZonesWith
<1>2. \A old, new : LET r == SetVolume(old, new) IN r.status # "success" => r.value = old
  BY DEF SetVolume, SetWithin, Set
<1>3. \A old, by : LET r == AdjustVolume(old, by) IN r.status # "success" => r.value = old
  BY DEF AdjustVolume, AdjustWithin, SetWithin, Set
<1>4. \A old, new : LET r == SetIdentifier(old, new) IN r.status # "success" => r.value = old
  BY DEF SetIdentifier, Set
<1>5. ASSUME NEW level, ShouldSetVolume(zone, level).status = "already"
      PROVE  ShouldSetVolume(zone, level).zone.volume = zone.volume
  <2> DEFINE r == SetVolume(zone.volume, level)
  <2>1. ShouldSetVolume(zone, level) = Stored(SetField(zone, "volume", r))
    BY DEF ShouldSetVolume, SetZoneVolume, OutputSetVolume
  <2>2. r.status # "success" => r.value = zone["volume"]
    BY <1>2
  <2>. HIDE DEF r
  <2>. QED  BY <1>1, <1>5, <2>1, <2>2, FieldKept
<1>6. ASSUME NEW by
      PROVE  LET o == AdjustZoneVolume(zone, by)
             IN o.status # "success" => o.zone.volume = zone.volume
  <2> DEFINE r == AdjustVolume(zone.volume, IF by < 0 THEN -1 ELSE 1)
  <2>1. AdjustZoneVolume(zone, by) = Stored(SetField(zone, "volume", r))
    BY DEF AdjustZoneVolume, OutputDecreaseVolume, OutputIncreaseVolume, DecreaseVolume, IncreaseVolume
  <2>2. r.status # "success" => r.value = zone["volume"]
    BY <1>3
  <2>. HIDE DEF r
  <2>. QED  BY <1>1, <2>1, <2>2, FieldKept
<1>7. ASSUME NEW by, ShouldAdjustVolume(zone, by).status = "already"
      PROVE  ShouldAdjustVolume(zone, by).zone.volume = zone.volume
  <2> DEFINE o == AdjustZoneVolume(zone, by)
  <2>1. ShouldAdjustVolume(zone, by) = IF o.status = "range" THEN [o EXCEPT !.status = "already"] ELSE o
    BY DEF ShouldAdjustVolume
  <2>2. o.status # "success" => o.zone.volume = zone.volume
    BY <1>6
  <2>. HIDE DEF o
  <2>3. [o EXCEPT !.status = "already"].zone = o.zone
    OBVIOUS
  <2>. QED  BY <1>7, <2>1, <2>2, <2>3
<1>8. ASSUME NEW s, ShouldSetSource(zone, s).status = "already"
      PROVE  ShouldSetSource(zone, s).zone.source = zone.source
  <2> DEFINE r == SetIdentifier(zone.source, s)
  <2>1. ShouldSetSource(zone, s) = Stored(SetField(zone, "source", r))
    BY DEF ShouldSetSource, SetZoneSource, ZoneSetSource
  <2>2. r.status # "success" => r.value = zone["source"]
    BY <1>4
  <2>. HIDE DEF r
  <2>. QED  BY <1>1, <1>8, <2>1, <2>2, FieldKept
<1>. QED  BY <1>5, <1>7, <1>8

\* The last of the zones of a group.
LastIn(S) == CHOOSE z \in S : \A y \in S : y <= z

\* The last zone of a group is one of its zones.
LEMMA LastInIs ==
  ASSUME NEW n \in Nat, NEW S \in SUBSET (1..n), S # {}
  PROVE  LastIn(S) \in S /\ \A y \in S : y <= LastIn(S)
<1> DEFINE T == {n - z : z \in S}
<1>1. T \in SUBSET Nat /\ T # {}
  <2>1. \A z \in S : z \in 1..n /\ n - z \in Nat
    OBVIOUS
  <2>2. PICK z \in S : TRUE
    OBVIOUS
  <2>3. n - z \in T
    OBVIOUS
  <2>. QED  BY <2>1, <2>3
<1>2. PICK k \in T : \A f \in T : k <= f
  <2>. HIDE DEF T
  <2>. QED  BY <1>1, LeastNatural
<1>3. PICK z \in S : k = n - z
  OBVIOUS
<1>4. \A y \in S : y <= z
  <2>1. ASSUME NEW y \in S PROVE y <= z
    <3>1. n - y \in T /\ y \in 1..n /\ z \in 1..n
      OBVIOUS
    <3>2. n - z <= n - y
      BY <1>2, <1>3, <3>1
    <3>. QED  BY <3>1, <3>2
  <2>. QED  BY <2>1
<1>. QED  BY <1>3, <1>4 DEF LastIn

\* The status is that of the last zone, or of one that fails before it.
LEMMA GroupStatus ==
  ASSUME NEW group, group.zones \in SUBSET (1..ZonesMax), group.zones # {},
         NEW zones, DOMAIN zones = 1..ZonesMax, NEW o
  PROVE  LET x == ShouldDoForGroupZones(group, zones, o)
         IN /\ \E z \in group.zones : x.status = o[z].status
            /\ ~ Failed(x) => /\ x.status = o[LastIn(group.zones)].status
                              /\ LastIn(group.zones) \in group.zones
                              /\ x.zones[LastIn(group.zones)] = o[LastIn(group.zones)].zone
<1> DEFINE failed == {z \in group.zones : Failed(o[z])}
           reached == {z \in group.zones : \A f \in failed : z <= f}
           last == LastIn(reached)
           x == ShouldDoForGroupZones(group, zones, o)
<1>0. ZonesMax \in Nat
  BY RangesAssumption
<1>1. /\ x.status = o[last].status
      /\ x.zones = [z \in DOMAIN zones |-> IF z \in reached THEN o[z].zone ELSE zones[z]]
  BY DEF ShouldDoForGroupZones, GroupKept, LastIn
<1>2. failed \subseteq group.zones /\ reached \subseteq group.zones
  OBVIOUS
<1>3. ASSUME failed = {}
      PROVE  /\ \E z \in group.zones : x.status = o[z].status
             /\ ~ Failed(x) => /\ x.status = o[LastIn(group.zones)].status
                               /\ LastIn(group.zones) \in group.zones
                               /\ x.zones[LastIn(group.zones)] = o[LastIn(group.zones)].zone
  <2>1. reached = group.zones
    BY <1>3
  <2>2. last \in group.zones
    BY <1>0, <2>1, LastInIs
  <2>3. x.zones[last] = o[last].zone
    <3>. HIDE DEF x, last, reached
    <3>. QED  BY <1>1, <2>1, <2>2
  <2>. HIDE DEF x, failed, reached
  <2>4. last = LastIn(group.zones)
    BY <2>1
  <2>. HIDE DEF last
  <2>. QED  BY <1>1, <2>2, <2>3, <2>4
<1>4. ASSUME failed # {}
      PROVE  /\ \E z \in group.zones : x.status = o[z].status
             /\ ~ Failed(x) => /\ x.status = o[LastIn(group.zones)].status
                               /\ LastIn(group.zones) \in group.zones
                               /\ x.zones[LastIn(group.zones)] = o[LastIn(group.zones)].zone
  <2>1. failed \in SUBSET Nat
    BY <1>0
  <2>2. PICK f \in failed : \A y \in failed : f <= y
    <3>. HIDE DEF failed
    <3>. QED  BY <1>4, <2>1, LeastNatural
  <2>3. f \in reached /\ \A z \in reached : z <= f
    BY <2>2
  <2>4. last \in reached /\ f <= last
    <3>. HIDE DEF reached
    <3>. QED  BY <1>0, <1>2, <2>3, LastInIs
  <2>5. last = f
    <3>1. last <= f /\ last \in Nat /\ f \in Nat
      BY <1>0, <1>2, <2>3, <2>4
    <3>. HIDE DEF last
    <3>. QED  BY <2>4, <3>1
  <2>6. Failed(o[f])
    BY <2>2
  <2>7. x.status = o[f].status /\ f \in group.zones
    BY <1>1, <2>2, <2>5
  <2>. HIDE DEF x
  <2>. QED  BY <2>6, <2>7 DEF Failed
<1>. QED  BY <1>3, <1>4

\* The last zone of the group keeps a field.
LastKeeps(group, zones, left, field) ==
  /\ group.zones # {}
  /\ left[LastIn(group.zones)][field] = zones[LastIn(group.zones)][field]

\* What is done for the zones of a group is answered, unless the last of them stayed as it was.
LEMMA DoneForZones ==
  ASSUME NEW group, group.zones \in SUBSET (1..ZonesMax), NEW zones \in ZoneLists, NEW o,
         NEW line, NEW kinds, line[1] \in kinds
  PROVE  LET p == ShouldDoForGroupZones(group, zones, o)
         IN /\ (\A z \in group.zones : Changed(o[z]) \/ Failed(o[z]))
                 => Concludes(SayIfChanged(line, p), kinds)
            /\ \A field :
                 (\A z \in group.zones : o[z].status = "already" => o[z].zone[field] = zones[z][field])
                   => \/ Concludes(SayIfChanged(line, p), kinds)
                      \/ LastKeeps(group, zones, SayIfChanged(line, p).zones, field)
<1> DEFINE p == ShouldDoForGroupZones(group, zones, o)
<1>1. Lined(p)
  <2>1. Told(<<>>)
    BY ToldLines
  <2>2. \A status, left, d : Tells([GroupKept(status, group, left) EXCEPT !.dirty = d])
    BY <2>1 DEF Tells, GroupKept
  <2>3. Tells(p)
    BY <2>2, TellsNothing DEF ShouldDoForGroupZones
  <2>. HIDE DEF p
  <2>. QED  BY <2>3, TellsLined
<1>2. Changed(p) \/ Failed(p) => Concludes(SayIfChanged(line, p), kinds)
  <2>. HIDE DEF p
  <2>. QED  BY <1>1, SaidConcludes
<1>3. DOMAIN zones = 1..ZonesMax
  BY DEF ZoneLists
<1>4. group.zones = {} => Changed(p)
  BY DEF ShouldDoForGroupZones, GroupKept, Changed
<1>5. group.zones # {} =>
        /\ \E z \in group.zones : p.status = o[z].status
        /\ ~ Failed(p) => /\ p.status = o[LastIn(group.zones)].status
                          /\ LastIn(group.zones) \in group.zones
                          /\ p.zones[LastIn(group.zones)] = o[LastIn(group.zones)].zone
  BY <1>3, GroupStatus
<1>. HIDE DEF p
<1>6. ASSUME \A z \in group.zones : Changed(o[z]) \/ Failed(o[z])
      PROVE  Concludes(SayIfChanged(line, p), kinds)
  <2>1. Changed(p) \/ Failed(p)
    BY <1>4, <1>5, <1>6 DEF Changed, Failed
  <2>. QED  BY <1>2, <2>1
<1>7. ASSUME NEW field,
             \A z \in group.zones : o[z].status = "already" => o[z].zone[field] = zones[z][field],
             ~ Concludes(SayIfChanged(line, p), kinds)
      PROVE  LastKeeps(group, zones, SayIfChanged(line, p).zones, field)
  <2>1. ~ Changed(p) /\ ~ Failed(p)
    BY <1>2, <1>7
  <2>2. SayIfChanged(line, p) = p /\ p.status = "already"
    BY <2>1 DEF SayIfChanged, Changed, Failed
  <2>. QED  BY <1>4, <1>5, <1>7, <2>1, <2>2 DEF LastKeeps
<1>. QED  BY <1>6, <1>7 DEF p

\* Requests to a group that are always answered.
LEMMA GroupConcludes ==
  ASSUME NEW group, group.zones \in SUBSET (1..ZonesMax), NEW zones \in ZoneLists, NEW g
  PROVE  /\ \A mute : Concludes(MuteGroupRequest(group, zones, g, mute), {"group mute"})
         /\ Concludes(ToggleGroupMuteRequest(group, zones, g), {"group mute toggle"})
         /\ \A z : LET kinds == {"group zone added", "group zone removed"}
                   IN /\ Concludes(AddZoneRequest(group, zones, g, z), kinds)
                      /\ Concludes(RemoveZoneRequest(group, zones, g, z), kinds)
         /\ \A name : Concludes(SetGroupNameRequest(group, zones, g, name), {"group name"})
<1>1. ASSUME NEW mute PROVE Concludes(MuteGroupRequest(group, zones, g, mute), {"group mute"})
  <2>1. HandleSetMuteResponse(g, mute)[1] \in {"group mute"}
    BY DEF HandleSetMuteResponse
  <2>. QED  BY <2>1, StoredLined, SaidConcludes DEF MuteGroupRequest
<1>2. Concludes(ToggleGroupMuteRequest(group, zones, g), {"group mute toggle"})
  <2> DEFINE o == [z \in group.zones |-> ShouldToggleMute(zones[z])]
             line == HandleToggleMuteResponse(g)
  <2>1. line[1] \in {"group mute toggle"}
    BY DEF HandleToggleMuteResponse
  <2>2. ASSUME NEW z \in group.zones PROVE Changed(o[z]) \/ Failed(o[z])
    <3>1. \A mute : ToggleMute(mute).status # "already"
      BY DEF ToggleMute
    <3>2. \A zone : ToggleZoneMute(zone).status = ToggleMute(zone.mute).status
      BY DEF ToggleZoneMute, Stored, OutputToggleMute, SetField
    <3>. QED  BY <3>1, <3>2 DEF ShouldToggleMute, Changed, Failed
  <2>3. ToggleGroupMuteRequest(group, zones, g) = SayIfChanged(line, ShouldDoForGroupZones(group, zones, o))
    BY DEF ToggleGroupMuteRequest
  <2>. HIDE DEF o, line
  <2>. QED  BY <2>1, <2>2, <2>3, DoneForZones
<1>3. ASSUME NEW z
      PROVE  LET kinds == {"group zone added", "group zone removed"}
             IN /\ Concludes(AddZoneRequest(group, zones, g, z), kinds)
                /\ Concludes(RemoveZoneRequest(group, zones, g, z), kinds)
  <2> DEFINE kinds == {"group zone added", "group zone removed"}
             added == <<"group zone added", g, z>>
             removed == <<"group zone removed", g, z>>
             refused == GroupKept("range", group, zones)
  <2>1. added[1] \in kinds /\ removed[1] \in kinds
    OBVIOUS
  <2>2. Concludes(refused, kinds)
    BY DEF Concludes, Failed, GroupKept
  <2>3. /\ AddZoneRequest(group, zones, g, z)
             \in {refused, Say(added, StoredGroup(zones, GroupAddZone(group, z)))}
        /\ RemoveZoneRequest(group, zones, g, z)
             \in {refused, Say(removed, StoredGroup(zones, GroupRemoveZone(group, z)))}
    BY DEF AddZoneRequest, RemoveZoneRequest
  <2>. HIDE DEF kinds, added, removed, refused
  <2>4. /\ Concludes(Say(added, StoredGroup(zones, GroupAddZone(group, z))), kinds)
        /\ Concludes(Say(removed, StoredGroup(zones, GroupRemoveZone(group, z))), kinds)
    BY <2>1, StoredLined, SaidConcludes
  <2>5. /\ Concludes(AddZoneRequest(group, zones, g, z), kinds)
        /\ Concludes(RemoveZoneRequest(group, zones, g, z), kinds)
    BY <2>2, <2>3, <2>4
  <2>. QED  BY <2>5 DEF kinds
<1>4. ASSUME NEW name PROVE Concludes(SetGroupNameRequest(group, zones, g, name), {"group name"})
  <2>1. <<"group name", g, name>>[1] \in {"group name"}
    OBVIOUS
  <2>. QED  BY <2>1, StoredLined, SaidConcludes DEF SetGroupNameRequest
<1>. QED  BY <1>1, <1>2, <1>3, <1>4

\* A request for the level or the source of the zones of a group.
LEMMA GroupConcludesOrKeeps ==
  ASSUME NEW group, group.zones \in SUBSET (1..ZonesMax), NEW zones \in ZoneLists, NEW g
  PROVE  /\ LET o == DecreaseGroupVolumeRequest(group, zones, g)
            IN Concludes(o, {"group volume down"}) \/ LastKeeps(group, zones, o.zones, "volume")
         /\ LET o == IncreaseGroupVolumeRequest(group, zones, g)
            IN Concludes(o, {"group volume up"}) \/ LastKeeps(group, zones, o.zones, "volume")
         /\ \A level : LET o == SetGroupVolumeRequest(group, zones, g, level)
                       IN Concludes(o, {"group volume"}) \/ LastKeeps(group, zones, o.zones, "volume")
         /\ \A s : LET o == SetGroupSourceRequest(group, zones, g, s)
                   IN Concludes(o, {"group source"}) \/ LastKeeps(group, zones, o.zones, "source")
<1>1. \A z \in group.zones : zones[z] \in Zones
  BY DEF ZoneLists
<1>2. ASSUME NEW by, NEW kinds, HandleAdjustVolumeResponse(g, by)[1] \in kinds
      PROVE  LET o == HandleAdjustGroupVolume(group, zones, g, by)
             IN Concludes(o, kinds) \/ LastKeeps(group, zones, o.zones, "volume")
  <2> DEFINE o == [z \in group.zones |-> ShouldAdjustVolume(zones[z], by)]
             line == HandleAdjustVolumeResponse(g, by)
  <2>1. \A z \in group.zones : o[z].status = "already" => o[z].zone["volume"] = zones[z]["volume"]
    BY <1>1, LevelKept
  <2>2. HandleAdjustGroupVolume(group, zones, g, by)
          = SayIfChanged(line, ShouldDoForGroupZones(group, zones, o))
    BY DEF HandleAdjustGroupVolume
  <2>3. line[1] \in kinds
    BY <1>2
  <2>. HIDE DEF o, line
  <2>. QED  BY <2>1, <2>2, <2>3, DoneForZones
<1>3. ASSUME NEW level
      PROVE  LET o == SetGroupVolumeRequest(group, zones, g, level)
             IN Concludes(o, {"group volume"}) \/ LastKeeps(group, zones, o.zones, "volume")
  <2> DEFINE o == [z \in group.zones |-> ShouldSetVolume(zones[z], level)]
             line == HandleSetVolumeResponse(g, level)
  <2>1. \A z \in group.zones : o[z].status = "already" => o[z].zone["volume"] = zones[z]["volume"]
    BY <1>1, LevelKept
  <2>2. SetGroupVolumeRequest(group, zones, g, level)
          = SayIfChanged(line, ShouldDoForGroupZones(group, zones, o))
    BY DEF SetGroupVolumeRequest
  <2>3. line[1] \in {"group volume"}
    BY DEF HandleSetVolumeResponse
  <2>. HIDE DEF o, line
  <2>. QED  BY <2>1, <2>2, <2>3, DoneForZones
<1>4. ASSUME NEW s
      PROVE  LET o == SetGroupSourceRequest(group, zones, g, s)
             IN Concludes(o, {"group source"}) \/ LastKeeps(group, zones, o.zones, "source")
  <2> DEFINE o == [z \in group.zones |-> ShouldSetSource(zones[z], s)]
             line == <<"group source", g, s>>
             refused == GroupKept("range", group, zones)
  <2>1. \A z \in group.zones : o[z].status = "already" => o[z].zone["source"] = zones[z]["source"]
    BY <1>1, LevelKept
  <2>2. SetGroupSourceRequest(group, zones, g, s)
          \in {refused, SayIfChanged(line, ShouldDoForGroupZones(group, zones, o))}
    BY DEF SetGroupSourceRequest
  <2>3. line[1] \in {"group source"}
    OBVIOUS
  <2>4. Concludes(refused, {"group source"})
    BY DEF Concludes, Failed, GroupKept
  <2>. HIDE DEF o, line, refused
  <2>. QED  BY <2>1, <2>2, <2>3, <2>4, DoneForZones
<1>5. /\ HandleAdjustVolumeResponse(g, -1)[1] \in {"group volume down"}
      /\ HandleAdjustVolumeResponse(g, 1)[1] \in {"group volume up"}
  BY DEF HandleAdjustVolumeResponse
<1>. QED
  BY <1>2, <1>3, <1>4, <1>5 DEF DecreaseGroupVolumeRequest, IncreaseGroupVolumeRequest

-----------------------------------------------------------------------------
(***************************************************************************)
(* The requests that end the exchanges they began.                         *)
(***************************************************************************)
\* A request whose answer ends the exchange it began.
Settles(r) == \E kinds : AwaitsKinds(r, kinds) /\ Concludes(r.does, kinds)

\* An outcome that ends an exchange settles the request.
LEMMA AskSettles ==
  ASSUME NEW does, NEW kinds, Concludes(does, kinds)
  PROVE  /\ \A call, forward : Pairs(call, forward, kinds) => Settles(Ask(call, forward, does))
         /\ \A call : call.expects = kinds => Settles(Directly(call, does))
<1>1. \A call : Directly(call, does).does = does
  BY AskDoes DEF Directly
<1>. QED  BY <1>1, AskDoes, AskAwaits DEF Settles

\* Every request to a zone is settled, or is for the volume that the zone has.
LEMMA ZoneSettles ==
  ASSUME NEW zone \in Zones, NEW z \in 1..ZonesMax, NEW r \in ZoneRequests(zone, z)
  PROVE  Settles(r) \/ (AwaitsKinds(r, {"volume"}) /\ r.does.zone.volume = zone.volume)
<1>1. CASE r \in BandRequests(zone, z)
  <2>1. \/ \E b : r = Ask(C!DecreaseEqualizerBand(z, b), P!ZoneLevelRequests.DecreaseEqualizerBand,
                          DecreaseEqualizerBandRequest(zone, z, b))
        \/ \E b : r = Ask(C!IncreaseEqualizerBand(z, b), P!ZoneLevelRequests.IncreaseEqualizerBand,
                          IncreaseEqualizerBandRequest(zone, z, b))
        \/ \E b, level : r = Ask(C!SetEqualizerBand(z, b), P!ZoneEqualizerRequests.SetEqualizerBand,
                                 SetEqualizerBandRequest(zone, z, b, level))
    BY <1>1 DEF BandRequests
  <2>. QED  BY <2>1, BandPairs, BandConcludes, AskSettles
<1>2. CASE r \in ToneRequests(zone, z)
  <2> DEFINE d1 == DecreaseBassRequest(zone, z)
             d2 == IncreaseBassRequest(zone, z)
             d3 == DecreaseTrebleRequest(zone, z)
             d4 == IncreaseTrebleRequest(zone, z)
  <2>1. /\ Concludes(d1, {"tone"}) /\ Concludes(d2, {"tone"})
        /\ Concludes(d3, {"tone"}) /\ Concludes(d4, {"tone"})
    BY AdjustedToneConcludes DEF DecreaseBassRequest, IncreaseBassRequest, DecreaseTrebleRequest,
       IncreaseTrebleRequest
  <2>2. ASSUME NEW bass, NEW treble,
               r = Ask(C!SetTone(z), P!ZoneVolumeRequests.SetTone,
                       SetToneRequest(zone, z, [bass |-> bass, treble |-> treble]))
        PROVE  Settles(r)
    <3> DEFINE o == SetToneRequest(zone, z, [bass |-> bass, treble |-> treble])
    <3>1. Concludes(o, {"tone"})
      BY SoundConcludes
    <3>2. r = Ask(C!SetTone(z), P!ZoneVolumeRequests.SetTone, o)
      BY <2>2
    <3>. HIDE DEF o
    <3>. QED  BY <3>1, <3>2, SoundPairs, AskSettles
  <2>3. \/ r \in {Ask(C!DecreaseBass(z), P!ZoneToneRequests.DecreaseBass, d1),
                  Ask(C!IncreaseBass(z), P!ZoneToneRequests.IncreaseBass, d2),
                  Ask(C!DecreaseTreble(z), P!ZoneToneRequests.DecreaseTreble, d3),
                  Ask(C!IncreaseTreble(z), P!ZoneToneRequests.IncreaseTreble, d4)}
        \/ \E bass, treble \in Tried(Tones) :
             r = Ask(C!SetTone(z), P!ZoneVolumeRequests.SetTone,
                     SetToneRequest(zone, z, [bass |-> bass, treble |-> treble]))
    <3> DEFINE four == {Ask(C!DecreaseBass(z), P!ZoneToneRequests.DecreaseBass, d1),
                        Ask(C!IncreaseBass(z), P!ZoneToneRequests.IncreaseBass, d2),
                        Ask(C!DecreaseTreble(z), P!ZoneToneRequests.DecreaseTreble, d3),
                        Ask(C!IncreaseTreble(z), P!ZoneToneRequests.IncreaseTreble, d4)}
               toned == {Ask(C!SetTone(z), P!ZoneVolumeRequests.SetTone,
                             SetToneRequest(zone, z, [bass |-> bass, treble |-> treble])) :
                           bass, treble \in Tried(Tones)}
    <3>1. r \in four \cup toned
      <4>1. ToneRequests(zone, z) = four \cup toned
        BY DEF ToneRequests
      <4>. HIDE DEF four, toned
      <4>. QED  BY <1>2, <4>1
    <3>2. r \in toned =>
            \E bass, treble \in Tried(Tones) :
              r = Ask(C!SetTone(z), P!ZoneVolumeRequests.SetTone,
                      SetToneRequest(zone, z, [bass |-> bass, treble |-> treble]))
      OBVIOUS
    <3>3. r \in four \/ r \in toned
      <4>. HIDE DEF four, toned
      <4>. QED  BY <3>1
    <3>. HIDE DEF toned
    <3>. QED  BY <3>2, <3>3, Zenon
  <2>. HIDE DEF d1, d2, d3, d4
  <2>4. r \in {Ask(C!DecreaseBass(z), P!ZoneToneRequests.DecreaseBass, d1),
               Ask(C!IncreaseBass(z), P!ZoneToneRequests.IncreaseBass, d2),
               Ask(C!DecreaseTreble(z), P!ZoneToneRequests.DecreaseTreble, d3),
               Ask(C!IncreaseTreble(z), P!ZoneToneRequests.IncreaseTreble, d4)} => Settles(r)
    BY <2>1, SoundPairs, AskSettles
  <2>. QED  BY <2>2, <2>3, <2>4
<1>3. CASE r \in SoundModeRequests(zone, z)
  <2>1. \/ \E mode : r = Ask(C!SetSoundMode(z), P!ZoneSourceRequests.SetSoundMode,
                             SetSoundModeRequest(zone, z, mode))
        \/ \E p : r = Ask(C!SetEqualizerPreset(z, p), P!ZoneEqualizerRequests.SetEqualizerPreset,
                          SetEqualizerPresetRequest(zone, z, p))
        \/ \E f : r = Ask(C!SetHighpassCrossover(z), P!ZoneEqualizerRequests.SetHighpassCrossover,
                          SetHighpassCrossoverRequest(zone, z, f))
        \/ \E f : r = Ask(C!SetLowpassCrossover(z), P!ZoneEqualizerRequests.SetLowpassCrossover,
                          SetLowpassCrossoverRequest(zone, z, f))
    BY <1>3 DEF SoundModeRequests
  <2>. QED  BY <2>1, BandPairs, SoundPairs, SoundConcludes, AskSettles
<1>4. CASE r \in BalanceRequests(zone, z)
  <2> DEFINE left == AdjustBalanceRequest(zone, z, FALSE)
             right == AdjustBalanceRequest(zone, z, TRUE)
  <2>1. Concludes(left, {"balance"}) /\ Concludes(right, {"balance"})
    BY SoundConcludes
  <2>2. r \in {Ask(C!IncreaseBalanceLeft(z), P!ZoneToneRequests.AdjustBalance, left),
              Ask(C!IncreaseBalanceRight(z), P!ZoneToneRequests.AdjustBalance, right)}
          \cup {Ask(C!SetBalance(z), P!ZoneEqualizerRequests.SetBalance,
                    SetBalanceRequest(zone, z, balance)) : balance \in Tried(Balances)}
    BY <1>4, Zenon DEF BalanceRequests
  <2>. HIDE DEF left, right
  <2>3. \/ r = Ask(C!IncreaseBalanceLeft(z), P!ZoneToneRequests.AdjustBalance, left)
        \/ r = Ask(C!IncreaseBalanceRight(z), P!ZoneToneRequests.AdjustBalance, right)
        \/ \E balance : r = Ask(C!SetBalance(z), P!ZoneEqualizerRequests.SetBalance,
                                SetBalanceRequest(zone, z, balance))
    BY <2>2
  <2>. QED  BY <2>1, <2>3, SoundPairs, SoundConcludes, AskSettles
<1>5. CASE r \in VolumeRequests(zone, z)
  <2> DEFINE down == DecreaseVolumeRequest(zone, z)
             upward == IncreaseVolumeRequest(zone, z)
  <2>1. Concludes(down, {"volume"}) /\ Concludes(upward, {"volume"})
    BY VolumeConcludes
  <2>2. \/ r = Ask(C!DecreaseVolume(z), P!ZoneLevelRequests.DecreaseVolume, down)
        \/ r = Ask(C!IncreaseVolume(z), P!ZoneLevelRequests.IncreaseVolume, upward)
        \/ \E level : r = Ask(C!SetVolume(z), P!ZoneVolumeRequests.SetVolume, SetVolumeRequest(zone, z, level))
        \/ \E mute : r = Ask(C!Mute(z, mute), P!ZoneLevelRequests.Mute, MuteRequest(zone, z, mute))
    BY <1>5 DEF VolumeRequests
  <2>. HIDE DEF down, upward
  <2>3. ASSUME NEW level, r = Ask(C!SetVolume(z), P!ZoneVolumeRequests.SetVolume, SetVolumeRequest(zone, z, level))
        PROVE  Settles(r) \/ (AwaitsKinds(r, {"volume"}) /\ r.does.zone.volume = zone.volume)
    <3> DEFINE o == SetVolumeRequest(zone, z, level)
    <3>1. Concludes(o, {"volume"}) \/ o.zone.volume = zone.volume
      BY VolumeConcludes
    <3>2. r.does = o
      BY <2>3, AskDoes
    <3>3. Pairs(C!SetVolume(z), P!ZoneVolumeRequests.SetVolume, {"volume"})
      BY VolumePairs
    <3>. HIDE DEF o
    <3>4. AwaitsKinds(r, {"volume"})
      BY <2>3, <3>3, AskAwaits
    <3>. QED  BY <3>1, <3>2, <3>4 DEF Settles
  <2>4. ASSUME NEW mute, r = Ask(C!Mute(z, mute), P!ZoneLevelRequests.Mute, MuteRequest(zone, z, mute))
        PROVE  Settles(r)
    BY <2>4, VolumePairs, VolumeConcludes, AskSettles
  <2>. QED  BY <2>1, <2>2, <2>3, <2>4, VolumePairs, AskSettles
<1>6. CASE r \in OtherZoneRequests(zone, z)
  <2>1. \/ \E fixed : r = Ask(C!SetVolumeLocked(z), P!ZoneVolumeRequests.SetVolumeFixed,
                              SetVolumeFixedRequest(zone, z, fixed))
        \/ \E s : r = Ask(C!SetSource(z, s), P!ZoneSourceRequests.SetSource, SetSourceRequest(zone, z, s))
        \/ \E name : r = Ask(C!SetName(z, name), P!ZoneSourceRequests.SetName, SetZoneNameRequest(zone, z, name))
    BY <1>6 DEF OtherZoneRequests
  <2>. QED  BY <2>1, VolumePairs, OtherConcludes, AskSettles
<1>. QED  BY <1>1, <1>2, <1>3, <1>4, <1>5, <1>6 DEF ZoneRequests

\* The queries of a zone are settled.
LEMMA QueriesSettle ==
  ASSUME NEW zone \in Zones, NEW z \in 1..ZonesMax, NEW r \in ZoneQueries(zone, z)
  PROVE  Settles(r) /\ Concludes(r.does, r.call.expects)
<1> DEFINE query == QueryRequest(zone, z)
           mute == QueryMuteRequest(zone, z)
           source == QuerySourceRequest(zone, z)
           volume == QueryVolumeRequest(zone, z)
<1>1. /\ Concludes(query, {"zone query"}) /\ Concludes(mute, {"mute"})
      /\ Concludes(source, {"source"}) /\ Concludes(volume, {"volume"})
  BY QueriesConclude
<1>2. r \in {Directly(C!Query(z), query), Directly(C!QueryMute(z), mute),
             Directly(C!QuerySource(z), source), Directly(C!QueryVolume(z), volume)}
  BY Zenon DEF ZoneQueries
<1>. HIDE DEF query, mute, source, volume
<1>3. ASSUME NEW call, NEW does, NEW kinds, Concludes(does, kinds), call.expects = kinds
      PROVE  Settles(Directly(call, does)) /\ Concludes(does, call.expects)
  BY <1>3, AskSettles
<1>4. /\ Settles(Directly(C!Query(z), query)) /\ Concludes(query, C!Query(z).expects)
      /\ Settles(Directly(C!QueryMute(z), mute)) /\ Concludes(mute, C!QueryMute(z).expects)
      /\ Settles(Directly(C!QuerySource(z), source)) /\ Concludes(source, C!QuerySource(z).expects)
      /\ Settles(Directly(C!QueryVolume(z), volume)) /\ Concludes(volume, C!QueryVolume(z).expects)
  BY <1>1, <1>3, QueryKinds
<1>5. Settles(r)
  BY <1>2, <1>4
<1>. QED  BY <1>5 DEF Settles, AwaitsKinds

\* So are requests to presets, favorites, sources, the panel and infrared.
LEMMA OthersSettle ==
  /\ \A preset, p : \A r \in PresetRequests(preset, p) : Settles(r)
  /\ \A item, f : \A r \in FavoriteRequests(item, f) : Settles(r)
  /\ \A item, s : \A r \in SourceRequests(item, s) : Settles(r)
  /\ \A panel : \A r \in PanelRequests(panel) : Settles(r)
  /\ \A infrared : \A r \in InfraredRequests(infrared) : Settles(r)
<1>1. ASSUME NEW preset, NEW p, NEW r \in PresetRequests(preset, p) PROVE Settles(r)
  <2>1. \/ \E b : r = Ask(C!EqualizerPresetDecreaseBand(p, b), P!PresetRequests.DecreaseBand,
                          DecreaseBandRequest(preset, p, b))
        \/ \E b : r = Ask(C!EqualizerPresetIncreaseBand(p, b), P!PresetRequests.IncreaseBand,
                          IncreaseBandRequest(preset, p, b))
        \/ \E b, level : r = Ask(C!EqualizerPresetSetBand(p, b), P!PresetRequests.SetBand,
                                 SetBandRequest(preset, p, b, level))
        \/ \E name : r = Ask(C!EqualizerPresetSetName(p, name), P!PresetRequests.SetName,
                             SetPresetNameRequest(preset, p, name))
    BY DEF PresetRequests
  <2>. QED  BY <2>1, OtherPairs, ElementsConclude, AskSettles
<1>2. ASSUME NEW item, NEW f, NEW r \in FavoriteRequests(item, f) PROVE Settles(r)
  BY OtherPairs, ElementsConclude, AskSettles DEF FavoriteRequests
<1>3. ASSUME NEW item, NEW s, NEW r \in SourceRequests(item, s) PROVE Settles(r)
  BY OtherPairs, ElementsConclude, AskSettles DEF SourceRequests
<1>4. ASSUME NEW panel, NEW r \in PanelRequests(panel) PROVE Settles(r)
  BY OtherPairs, ElementsConclude, AskSettles DEF PanelRequests
<1>5. ASSUME NEW infrared, NEW r \in InfraredRequests(infrared) PROVE Settles(r)
  BY OtherPairs, ElementsConclude, AskSettles DEF InfraredRequests
<1>. QED  BY <1>1, <1>2, <1>3, <1>4, <1>5

-----------------------------------------------------------------------------
(***************************************************************************)
(* The steps, and whom they leave waiting.                                 *)
(***************************************************************************)
\* A request is made and answered.
Made(k, r) == MayAsk(k, r) /\ Respond(k, r) /\ Tells(r.does)

\* Every request that the simulator answers is made.
LEMMA AnswersMade ==
  ASSUME NEW k, NEW r, Tells(r.does)
  PROVE  /\ Answer(k, r) => Made(k, r)
         /\ ConfigurationRequest(k, r) => Made(k, r)
         /\ \A z : AnswerZone(k, z, r) => Made(k, r)
         /\ AnswerZones(k, r) => Made(k, r)
         /\ \A g : AnswerGroup(k, g, r) \/ AnswerGroupItself(k, g, r) => Made(k, r)
         /\ \A p : AnswerPreset(k, p, r) => Made(k, r)
         /\ \A name, i : AnswerItem(k, name, i, r) => Made(k, r)
         /\ \A name : AnswerModel(k, name, r) => Made(k, r)
<1>1. Answer(k, r) => Made(k, r)
  BY DEF Answer, Made
<1>2. ConfigurationRequest(k, r) => Made(k, r)
  BY DEF ConfigurationRequest, Made
<1>3. /\ \A z : AnswerZone(k, z, r) => Answer(k, r)
      /\ AnswerZones(k, r) => Answer(k, r)
      /\ \A g : AnswerGroup(k, g, r) \/ AnswerGroupItself(k, g, r) => Answer(k, r)
      /\ \A p : AnswerPreset(k, p, r) => Answer(k, r)
      /\ \A name, i : AnswerItem(k, name, i, r) => Answer(k, r)
      /\ \A name : AnswerModel(k, name, r) => Answer(k, r)
  BY Zenon DEF AnswerZone, AnswerZones, AnswerGroup, AnswerGroupItself, AnswerPreset, AnswerItem,
               AnswerModel
<1>. QED  BY <1>1, <1>2, <1>3

\* A request that is settled leaves nobody waiting.
LEMMA MadeWaits ==
  ASSUME ViewsFine, Anchored, NEW k, NEW r, Made(k, r)
  PROVE  /\ Settles(r) => WaitsFor({})
         /\ \A kinds : AwaitsKinds(r, kinds) => WaitsFor(kinds)
<1>1. ASSUME NEW kinds, AwaitsKinds(r, kinds)
      PROVE  WaitsFor(kinds) /\ (Concludes(r.does, kinds) => WaitsFor({}))
  <2>1. Says(k, r) /\ r.call.expects = kinds
    BY <1>1 DEF Says, Made, AwaitsKinds
  <2>. QED  BY <2>1, SaysWait
<1>. QED  BY <1>1 DEF Settles

\* What a request leaves as it was: the volume of a zone, or a field of the last zone of a group.
VolumeStays == \E z \in 1..ZonesMax : m'.zones[z].volume = m.zones[z].volume

GroupStays(field) ==
  \E g \in 1..GroupsMax : LastKeeps(m.groups[g], m.zones, m'.zones, field)

\* A step after which a client waits only for what was set already.
StepWaits ==
  \/ WaitsFor({})
  \/ WaitsFor({"volume"}) /\ VolumeStays
  \/ /\ \E kinds \in {{"group volume"}, {"group volume up"}, {"group volume down"}} : WaitsFor(kinds)
     /\ GroupStays("volume")
  \/ WaitsFor({"group source"}) /\ GroupStays("source")

\* The requests for zones are such steps.
LEMMA ZoneStepsWait ==
  ASSUME Kept, ViewsFine, Anchored, NEW k
  PROVE  /\ RequestZone(k) => StepWaits
         /\ \A z \in 1..ZonesMax : RequestBass(k, z) \/ RequestTreble(k, z) => StepWaits
         /\ RequestToggle(k) => StepWaits
         /\ RequestAllZones(k) => StepWaits
         /\ QueryZone(k) => StepWaits
<1>1. /\ m.zones \in ZoneLists /\ DOMAIN m.zones = 1..ZonesMax /\ "zones" \in DOMAIN m
      /\ \A z \in 1..ZonesMax : m.zones[z] \in Zones
  BY KeptHas, ModelsHave
<1>2. ASSUME RequestZone(k) PROVE StepWaits
  <2>1. PICK z \in 1..ZonesMax : \E r \in ZoneRequests(m.zones[z], z) : AnswerZone(k, z, r)
    BY <1>1, <1>2 DEF RequestZone
  <2>2. PICK r \in ZoneRequests(m.zones[z], z) : AnswerZone(k, z, r)
    BY <2>1
  <2>3. Made(k, r)
    <3>1. Tells(r.does)
      BY <1>1, TellsZoneRequests
    <3>. QED  BY <2>2, <3>1, AnswersMade
  <2>4. Settles(r) \/ (AwaitsKinds(r, {"volume"}) /\ r.does.zone.volume = m.zones[z].volume)
    BY <1>1, ZoneSettles
  <2>5. r.does.zone.volume = m.zones[z].volume => VolumeStays
    <3>1. m'.zones[z] = r.does.zone
      BY <1>1, <2>2 DEF AnswerZone
    <3>. QED  BY <3>1 DEF VolumeStays
  <2>. QED  BY <2>3, <2>4, <2>5, MadeWaits DEF StepWaits
<1>3. ASSUME NEW z \in 1..ZonesMax, RequestBass(k, z) \/ RequestTreble(k, z) PROVE StepWaits
  <2> DEFINE O(b, t) == SetToneRequest(m.zones[z], z, [bass |-> b, treble |-> t])
             A(b, t) == Ask(C!SetTone(z), P!ZoneVolumeRequests.SetTone, O(b, t))
  <2>1. \E b, t : AnswerZone(k, z, A(b, t))
    <3>1. CASE RequestBass(k, z)
      <4>1. PICK bass : AnswerZone(k, z, Ask(C!SetTone(z), P!ZoneVolumeRequests.SetTone,
                                             SetToneRequest(m.zones[z], z,
                                               C!SetBass(views[k].zones[z].tone, bass))))
        BY <3>1 DEF RequestBass
      <4>. QED  BY <4>1 DEF C!SetBass
    <3>2. CASE RequestTreble(k, z)
      <4>1. PICK treble : AnswerZone(k, z, Ask(C!SetTone(z), P!ZoneVolumeRequests.SetTone,
                                               SetToneRequest(m.zones[z], z,
                                                 C!SetTreble(views[k].zones[z].tone, treble))))
        BY <3>2 DEF RequestTreble
      <4>. QED  BY <4>1 DEF C!SetTreble
    <3>. QED  BY <1>3, <3>1, <3>2
  <2>2. PICK b, t : AnswerZone(k, z, A(b, t))
    BY <2>1
  <2>3. Tells(O(b, t)) /\ Concludes(O(b, t), {"tone"})
    BY <1>1, TellsTone, SoundConcludes
  <2>. HIDE DEF O
  <2>4. Settles(A(b, t)) /\ Tells(A(b, t).does)
    BY <2>3, SoundPairs, AskSettles, AskDoes
  <2>. HIDE DEF A
  <2>5. Made(k, A(b, t))
    BY <2>2, <2>4, AnswersMade
  <2>. QED  BY <2>4, <2>5, MadeWaits DEF StepWaits
<1>4. ASSUME RequestToggle(k) PROVE StepWaits
  <2> DEFINE O(z) == ToggleMuteRequest(m.zones[z], z)
             R(z) == Ask(C!ToggleMute(z), P!ZoneVolumeRequests.ToggleMute, O(z))
  <2>1. PICK z \in 1..ZonesMax : AnswerZone(k, z, R(z))
    BY <1>1, <1>4 DEF RequestToggle
  <2>2. Tells(O(z)) /\ Concludes(O(z), {"mute"})
    BY <1>1, TellsOther, VolumeConcludes
  <2>. HIDE DEF O
  <2>3. Settles(R(z)) /\ Tells(R(z).does)
    BY <2>2, VolumePairs, AskSettles, AskDoes
  <2>. HIDE DEF R
  <2>4. Made(k, R(z))
    BY <2>1, <2>3, AnswersMade
  <2>. QED  BY <2>3, <2>4, MadeWaits DEF StepWaits
<1>5. ASSUME RequestAllZones(k) PROVE StepWaits
  <2>1. PICK r \in {Ask(C!SetVolumeAll, P!ZoneVolumeRequests.SetVolumeAll,
                        SetVolumeAllRequest(m.zones, level)) : level \in Tried(Volumes)}
                   \cup {Ask(C!SetSourceAll(s), P!ZoneSourceRequests.SetSourceAll,
                             SetSourceAllRequest(m.zones, s)) : s \in Tried(1..SourcesMax)} :
          AnswerZones(k, r)
    BY <1>5, Zenon DEF RequestAllZones
  <2>2. \/ \E level : r = Ask(C!SetVolumeAll, P!ZoneVolumeRequests.SetVolumeAll,
                              SetVolumeAllRequest(m.zones, level))
        \/ \E s : r = Ask(C!SetSourceAll(s), P!ZoneSourceRequests.SetSourceAll,
                          SetSourceAllRequest(m.zones, s))
    OBVIOUS
  <2>3. Tells(r.does)
    BY <1>1, <2>2, TellsAll, AskDoes
  <2>4. Settles(r)
    BY <1>1, <2>2, AllConclude, VolumePairs, AskSettles
  <2>5. Made(k, r)
    BY <2>1, <2>3, AnswersMade
  <2>. QED  BY <2>4, <2>5, MadeWaits DEF StepWaits
<1>6. ASSUME QueryZone(k) PROVE StepWaits
  <2>1. PICK z \in 1..ZonesMax : \E r \in ZoneQueries(m.zones[z], z) : Answer(k, r)
    BY <1>1, <1>6 DEF QueryZone
  <2>2. PICK r \in ZoneQueries(m.zones[z], z) : Answer(k, r)
    BY <2>1
  <2>3. Tells(r.does) /\ Settles(r)
    BY <1>1, TellsZoneQueries, QueriesSettle
  <2>4. Made(k, r)
    BY <2>2, <2>3, AnswersMade
  <2>. QED  BY <2>3, <2>4, MadeWaits DEF StepWaits
<1>. QED  BY <1>2, <1>3, <1>4, <1>5, <1>6

\* The requests for groups are such steps.
LEMMA GroupStepsWait ==
  ASSUME Kept, ViewsFine, Anchored, NEW k
  PROVE  /\ RequestGroup(k) => StepWaits
         /\ RequestGroupSource(k) => StepWaits
         /\ RequestGroupToggle(k) => StepWaits
         /\ RequestGroupAdjust(k) => StepWaits
         /\ RequestGroupItself(k) => StepWaits
<1>1. /\ m.zones \in ZoneLists /\ DOMAIN m.groups = 1..GroupsMax /\ {"zones", "groups"} \subseteq DOMAIN m
      /\ \A g \in 1..GroupsMax : m.groups[g].zones \in SUBSET (1..ZonesMax)
  <2>1. \A g \in 1..GroupsMax : m.groups[g] \in Groups
    BY KeptHas
  <2>2. \A group \in Groups : group.zones \in SUBSET (1..ZonesMax)
    BY DEF Groups
  <2>. QED  BY <2>1, <2>2, KeptHas, ModelsHave
<1>2. ASSUME NEW g \in 1..GroupsMax, NEW r, AnswerGroup(k, g, r), Tells(r.does)
      PROVE  /\ Made(k, r) /\ m'.zones = r.does.zones
             /\ \A field : LastKeeps(m.groups[g], m.zones, r.does.zones, field) => GroupStays(field)
  <2>1. m'.zones = r.does.zones
    BY <1>1, <1>2 DEF AnswerGroup
  <2>2. \A field : LastKeeps(m.groups[g], m.zones, r.does.zones, field) => GroupStays(field)
    BY <2>1 DEF GroupStays
  <2>. QED  BY <1>2, <2>1, <2>2, AnswersMade
<1>3. ASSUME NEW r, Made(k, r), NEW kinds \in {{"group volume"}, {"group volume up"}, {"group volume down"}},
             AwaitsKinds(r, kinds), Concludes(r.does, kinds) \/ GroupStays("volume")
      PROVE  StepWaits
  <2>1. WaitsFor(kinds) /\ (Concludes(r.does, kinds) => WaitsFor({}))
    BY <1>3, MadeWaits DEF Settles
  <2>. QED  BY <1>3, <2>1 DEF StepWaits
<1>4. ASSUME RequestGroup(k) PROVE StepWaits
  <2>1. PICK g \in 1..GroupsMax :
          \E r \in {Ask(C!GroupMute(g, mute), P!GroupLevelRequests.Mute,
                        MuteGroupRequest(m.groups[g], m.zones, g, mute)) : mute \in BOOLEAN}
                   \cup {Ask(C!GroupSetVolume(g), P!GroupSettingRequests.SetVolume,
                             SetGroupVolumeRequest(m.groups[g], m.zones, g, v)) :
                           v \in Tried(Volumes)} :
            AnswerGroup(k, g, r)
    BY <1>1, <1>4 DEF RequestGroup
  <2>2. PICK r \in {Ask(C!GroupMute(g, mute), P!GroupLevelRequests.Mute,
                        MuteGroupRequest(m.groups[g], m.zones, g, mute)) : mute \in BOOLEAN}
                   \cup {Ask(C!GroupSetVolume(g), P!GroupSettingRequests.SetVolume,
                             SetGroupVolumeRequest(m.groups[g], m.zones, g, v)) :
                           v \in Tried(Volumes)} :
          AnswerGroup(k, g, r)
    BY <2>1
  <2>3. \/ \E mute : r = Ask(C!GroupMute(g, mute), P!GroupLevelRequests.Mute,
                             MuteGroupRequest(m.groups[g], m.zones, g, mute))
        \/ \E v : r = Ask(C!GroupSetVolume(g), P!GroupSettingRequests.SetVolume,
                          SetGroupVolumeRequest(m.groups[g], m.zones, g, v))
    OBVIOUS
  <2>4. Tells(r.does)
    <3>1. \/ \E mute \in BOOLEAN : r.does = MuteGroupRequest(m.groups[g], m.zones, g, mute)
          \/ \E v : r.does = SetGroupVolumeRequest(m.groups[g], m.zones, g, v)
      BY <2>2, AskDoes
    <3>. QED  BY <3>1, TellsGroup
  <2>5. /\ Made(k, r)
        /\ LastKeeps(m.groups[g], m.zones, r.does.zones, "volume") => GroupStays("volume")
    BY <1>2, <2>2, <2>4
  <2>6. ASSUME NEW mute, r = Ask(C!GroupMute(g, mute), P!GroupLevelRequests.Mute,
                                 MuteGroupRequest(m.groups[g], m.zones, g, mute))
        PROVE  StepWaits
    <3> DEFINE o == MuteGroupRequest(m.groups[g], m.zones, g, mute)
    <3>1. Concludes(o, {"group mute"})
      BY <1>1, GroupConcludes
    <3>2. r = Ask(C!GroupMute(g, mute), P!GroupLevelRequests.Mute, o)
      BY <2>6
    <3>. HIDE DEF o
    <3>3. Settles(r)
      BY <3>1, <3>2, GroupPairs, AskSettles
    <3>. QED  BY <2>5, <3>3, MadeWaits DEF StepWaits
  <2>7. ASSUME NEW v, r = Ask(C!GroupSetVolume(g), P!GroupSettingRequests.SetVolume,
                              SetGroupVolumeRequest(m.groups[g], m.zones, g, v))
        PROVE  StepWaits
    <3> DEFINE o == SetGroupVolumeRequest(m.groups[g], m.zones, g, v)
    <3>1. Concludes(o, {"group volume"}) \/ LastKeeps(m.groups[g], m.zones, o.zones, "volume")
      BY <1>1, GroupConcludesOrKeeps
    <3>2. r = Ask(C!GroupSetVolume(g), P!GroupSettingRequests.SetVolume, o)
      BY <2>7
    <3>. HIDE DEF o
    <3>3. AwaitsKinds(r, {"group volume"}) /\ r.does = o
      BY <3>2, GroupPairs, AskAwaits, AskDoes
    <3>. QED  BY <1>3, <2>5, <3>1, <3>3
  <2>. QED  BY <2>3, <2>6, <2>7
<1>5. ASSUME RequestGroupSource(k) PROVE StepWaits
  <2> DEFINE O(g, s) == SetGroupSourceRequest(m.groups[g], m.zones, g, s)
             R(g, s) == Ask(C!GroupSetSource(g, s), P!GroupSettingRequests.SetSource, O(g, s))
  <2>1. PICK g \in 1..GroupsMax :
          \E s : /\ Answer(k, R(g, s))
                 /\ m' = [m EXCEPT !.groups[g] = O(g, s).group, !.zones = O(g, s).zones]
    BY <1>1, <1>5 DEF RequestGroupSource
  <2>2. PICK s : /\ Answer(k, R(g, s))
                 /\ m' = [m EXCEPT !.groups[g] = O(g, s).group, !.zones = O(g, s).zones]
    BY <2>1
  <2>3. Tells(O(g, s))
    BY TellsGroup
  <2>4. Concludes(O(g, s), {"group source"}) \/ LastKeeps(m.groups[g], m.zones, O(g, s).zones, "source")
    BY <1>1, GroupConcludesOrKeeps
  <2>. HIDE DEF O
  <2>5. m'.zones = O(g, s).zones
    BY <1>1, <2>2
  <2>6. R(g, s).does = O(g, s) /\ AwaitsKinds(R(g, s), {"group source"})
    BY AskDoes, GroupPairs, AskAwaits
  <2>. HIDE DEF R
  <2>7. Made(k, R(g, s))
    BY <2>2, <2>3, <2>6, AnswersMade
  <2>8. WaitsFor({"group source"}) /\ (Settles(R(g, s)) => WaitsFor({}))
    BY <2>6, <2>7, MadeWaits
  <2>9. Settles(R(g, s)) \/ GroupStays("source")
    BY <2>4, <2>5, <2>6 DEF Settles, GroupStays
  <2>. QED  BY <2>8, <2>9 DEF StepWaits
<1>6. ASSUME RequestGroupToggle(k) PROVE StepWaits
  <2> DEFINE O(g) == ToggleGroupMuteRequest(m.groups[g], m.zones, g)
             R(g) == Ask(C!GroupToggleMute(g), P!GroupSettingRequests.ToggleMute, O(g))
  <2>1. PICK g \in 1..GroupsMax : AnswerGroup(k, g, R(g))
    BY <1>1, <1>6 DEF RequestGroupToggle
  <2>2. Tells(O(g)) /\ Concludes(O(g), {"group mute toggle"})
    BY <1>1, TellsGroup, GroupConcludes
  <2>. HIDE DEF O
  <2>3. Settles(R(g)) /\ Tells(R(g).does)
    BY <2>2, GroupPairs, AskSettles, AskDoes
  <2>. HIDE DEF R
  <2>4. Made(k, R(g))
    BY <2>1, <2>3, AnswersMade
  <2>. QED  BY <2>3, <2>4, MadeWaits DEF StepWaits
<1>7. ASSUME RequestGroupAdjust(k) PROVE StepWaits
  <2> DEFINE down(g) == DecreaseGroupVolumeRequest(m.groups[g], m.zones, g)
             upward(g) == IncreaseGroupVolumeRequest(m.groups[g], m.zones, g)
  <2>1. PICK g \in 1..GroupsMax :
          \E r \in {Ask(C!GroupDecreaseVolume(g), P!GroupLevelRequests.DecreaseVolume, down(g)),
                    Ask(C!GroupIncreaseVolume(g), P!GroupLevelRequests.IncreaseVolume, upward(g))} :
            AnswerGroup(k, g, r)
    BY <1>1, <1>7, Zenon DEF RequestGroupAdjust
  <2>2. PICK r \in {Ask(C!GroupDecreaseVolume(g), P!GroupLevelRequests.DecreaseVolume, down(g)),
                    Ask(C!GroupIncreaseVolume(g), P!GroupLevelRequests.IncreaseVolume, upward(g))} :
          AnswerGroup(k, g, r)
    BY <2>1
  <2>3. /\ Tells(down(g)) /\ Tells(upward(g))
        /\ Concludes(down(g), {"group volume down"})
             \/ LastKeeps(m.groups[g], m.zones, down(g).zones, "volume")
        /\ Concludes(upward(g), {"group volume up"})
             \/ LastKeeps(m.groups[g], m.zones, upward(g).zones, "volume")
    BY <1>1, TellsGroup, GroupConcludesOrKeeps
  <2>. HIDE DEF down, upward
  <2>4. /\ Tells(r.does)
        /\ \E kinds \in {{"group volume up"}, {"group volume down"}} :
             /\ AwaitsKinds(r, kinds)
             /\ Concludes(r.does, kinds) \/ LastKeeps(m.groups[g], m.zones, r.does.zones, "volume")
    <3>1. CASE r = Ask(C!GroupDecreaseVolume(g), P!GroupLevelRequests.DecreaseVolume, down(g))
      <4>1. r.does = down(g) /\ AwaitsKinds(r, {"group volume down"})
        BY <3>1, AskDoes, GroupPairs, AskAwaits
      <4>. QED  BY <2>3, <4>1
    <3>2. CASE r = Ask(C!GroupIncreaseVolume(g), P!GroupLevelRequests.IncreaseVolume, upward(g))
      <4>1. r.does = upward(g) /\ AwaitsKinds(r, {"group volume up"})
        BY <3>2, AskDoes, GroupPairs, AskAwaits
      <4>. QED  BY <2>3, <4>1
    <3>. QED  BY <3>1, <3>2
  <2>5. /\ Made(k, r)
        /\ LastKeeps(m.groups[g], m.zones, r.does.zones, "volume") => GroupStays("volume")
    BY <1>2, <2>2, <2>4
  <2>. QED  BY <1>3, <2>4, <2>5
<1>8. ASSUME RequestGroupItself(k) PROVE StepWaits
  <2>1. PICK g \in 1..GroupsMax :
          \E r \in GroupItselfRequests(m.groups[g], g) : AnswerGroupItself(k, g, r)
    BY <1>1, <1>8 DEF RequestGroupItself
  <2>2. PICK r \in GroupItselfRequests(m.groups[g], g) : AnswerGroupItself(k, g, r)
    BY <2>1
  <2>3. \/ \E z : r = Ask(C!GroupAddZone(g, z), P!GroupLevelRequests.AddZone,
                          AddZoneRequest(m.groups[g], m.zones, g, z))
        \/ \E z : r = Ask(C!GroupRemoveZone(g, z), P!GroupSettingRequests.RemoveZone,
                          RemoveZoneRequest(m.groups[g], m.zones, g, z))
        \/ \E name \in Names : r = Ask(C!GroupSetName(g, name), P!GroupSettingRequests.SetName,
                                       SetGroupNameRequest(m.groups[g], m.zones, g, name))
    BY DEF GroupItselfRequests
  <2>4. Tells(r.does)
    <3>1. \/ \E z : r.does = AddZoneRequest(m.groups[g], m.zones, g, z)
          \/ \E z : r.does = RemoveZoneRequest(m.groups[g], m.zones, g, z)
          \/ \E name \in Names : r.does = SetGroupNameRequest(m.groups[g], m.zones, g, name)
      BY <2>3, AskDoes
    <3>. QED  BY <3>1, TellsGroup
  <2>5. Settles(r)
    <3> DEFINE kinds == {"group zone added", "group zone removed"}
    <3>1. /\ \A z : /\ Concludes(AddZoneRequest(m.groups[g], m.zones, g, z), kinds)
                   /\ Concludes(RemoveZoneRequest(m.groups[g], m.zones, g, z), kinds)
          /\ \A name : Concludes(SetGroupNameRequest(m.groups[g], m.zones, g, name), {"group name"})
      BY <1>1, GroupConcludes
    <3>2. /\ \A z : /\ Pairs(C!GroupAddZone(g, z), P!GroupLevelRequests.AddZone, kinds)
                   /\ Pairs(C!GroupRemoveZone(g, z), P!GroupSettingRequests.RemoveZone, kinds)
          /\ \A name : Pairs(C!GroupSetName(g, name), P!GroupSettingRequests.SetName, {"group name"})
      BY GroupPairs
    <3>. HIDE DEF kinds
    <3>. QED  BY <2>3, <3>1, <3>2, AskSettles
  <2>6. Made(k, r)
    BY <2>2, <2>4, AnswersMade
  <2>. QED  BY <2>5, <2>6, MadeWaits DEF StepWaits
<1>. QED  BY <1>4, <1>5, <1>6, <1>7, <1>8

\* The answers of the configuration controller.
LEMMA ConfigurationConcludes ==
  /\ \A saved : LET o == Said(<< <<"saving">>, <<IF saved THEN "saved" ELSE "error">> >>)
                IN Tells(o) /\ Concludes(o, {"saved"})
  /\ Tells(Said(<< <<"loaded">> >>)) /\ Concludes(Said(<< <<"loaded">> >>), {"loaded"})
  /\ Tells(Said(<< <<"reset">> >>)) /\ Concludes(Said(<< <<"reset">> >>), {"reset"})
<1>1. ASSUME NEW lines, Told(lines) PROVE Tells(Said(lines))
  BY <1>1 DEF Tells, Said
<1>2. ASSUME NEW word \in {"loaded", "reset"}
      PROVE  Tells(Said(<< <<word>> >>)) /\ Concludes(Said(<< <<word>> >>), {word})
  <2>1. Said(<< <<word>> >>).lines = << <<word>> >>
    BY DEF Said
  <2>2. <<word>>[1] = word
    OBVIOUS
  <2>3. Concludes(Said(<< <<word>> >>), {word})
    BY <2>1, <2>2, OneLine
  <2>4. Told(<< <<word>> >>)
    BY OtherLines, ToldLines
  <2>. QED  BY <1>1, <2>3, <2>4
<1>3. ASSUME NEW word \in {"saved", "error"}
      PROVE  LET o == Said(<< <<"saving">>, <<word>> >>)
             IN Tells(o) /\ Concludes(o, {"saved"})
  <2> DEFINE lines == << <<"saving">>, <<word>> >>
  <2>1. GoodLine(<<"saving">>) /\ GoodLine(<<word>>)
    BY OtherLines
  <2>2. Told(lines)
    BY <2>1, ToldTwo
  <2>3. lines # <<>> /\ Len(lines) = 2 /\ lines[2][1] = word
    OBVIOUS
  <2>. HIDE DEF lines
  <2>4. Ends(lines, {"saved"})
    BY <2>3 DEF Ends
  <2>5. Said(lines).lines = lines
    BY DEF Said
  <2>6. Tells(Said(lines)) /\ Concludes(Said(lines), {"saved"})
    BY <1>1, <2>2, <2>4, <2>5 DEF Concludes
  <2>. QED  BY <2>6 DEF lines
<1>4. ASSUME NEW saved
      PROVE  LET o == Said(<< <<"saving">>, <<IF saved THEN "saved" ELSE "error">> >>)
             IN Tells(o) /\ Concludes(o, {"saved"})
  <2> DEFINE word == IF saved THEN "saved" ELSE "error"
  <2>1. word \in {"saved", "error"}
    OBVIOUS
  <2>. HIDE DEF word
  <2>2. LET o == Said(<< <<"saving">>, <<word>> >>)
        IN Tells(o) /\ Concludes(o, {"saved"})
    BY <1>3, <2>1
  <2>. QED  BY <2>2 DEF word
<1>. QED  BY <1>2, <1>4

\* All other requests of clients are such steps.
LEMMA OtherStepsWait ==
  ASSUME Kept, ViewsFine, Anchored, NEW k
  PROVE  /\ RequestPreset(k) \/ RequestFavorite(k) \/ RequestSource(k) => StepWaits
         /\ RequestPanel(k) \/ RequestInfrared(k) => StepWaits
         /\ SaveToBackupRequest(k) \/ LoadFromBackupRequest(k) \/ ResetToDefaultsRequest(k) => StepWaits
<1>1. /\ DOMAIN m.presets = 1..EqualizerPresetsMax /\ DOMAIN m.favorites = 1..FavoritesMax
      /\ DOMAIN m.sources = 1..SourcesMax
  BY KeptHas, ModelsHave
<1>2. ASSUME NEW r, Made(k, r), Settles(r) PROVE StepWaits
  BY <1>2, MadeWaits DEF StepWaits
<1>3. ASSUME RequestPreset(k) PROVE StepWaits
  <2>1. PICK p \in 1..EqualizerPresetsMax :
          \E r \in PresetRequests(m.presets[p], p) : AnswerPreset(k, p, r)
    BY <1>1, <1>3 DEF RequestPreset
  <2>2. PICK r \in PresetRequests(m.presets[p], p) : AnswerPreset(k, p, r)
    BY <2>1
  <2>3. Tells(r.does)
    BY TellsPreset
  <2>4. Made(k, r)
    BY <2>2, <2>3, AnswersMade
  <2>. QED  BY <1>2, <2>4, OthersSettle
<1>4. ASSUME RequestFavorite(k) PROVE StepWaits
  <2>1. PICK f \in 1..FavoritesMax :
          \E r \in FavoriteRequests(m.favorites[f], f) : AnswerItem(k, "favorites", f, r)
    BY <1>1, <1>4 DEF RequestFavorite
  <2>2. PICK r \in FavoriteRequests(m.favorites[f], f) : AnswerItem(k, "favorites", f, r)
    BY <2>1
  <2>3. Made(k, r)
    BY <2>2, TellsModels, AnswersMade
  <2>. QED  BY <1>2, <2>3, OthersSettle
<1>5. ASSUME RequestSource(k) PROVE StepWaits
  <2>1. PICK s \in 1..SourcesMax :
          \E r \in SourceRequests(m.sources[s], s) : AnswerItem(k, "sources", s, r)
    BY <1>1, <1>5 DEF RequestSource
  <2>2. PICK r \in SourceRequests(m.sources[s], s) : AnswerItem(k, "sources", s, r)
    BY <2>1
  <2>3. Made(k, r)
    BY <2>2, TellsModels, AnswersMade
  <2>. QED  BY <1>2, <2>3, OthersSettle
<1>6. ASSUME RequestPanel(k) PROVE StepWaits
  <2>1. PICK r \in PanelRequests(m.panel) : AnswerModel(k, "panel", r)
    BY <1>6 DEF RequestPanel
  <2>2. Made(k, r)
    BY <2>1, TellsModels, AnswersMade
  <2>. QED  BY <1>2, <2>2, OthersSettle
<1>7. ASSUME RequestInfrared(k) PROVE StepWaits
  <2>1. PICK r \in InfraredRequests(m.infrared) : AnswerModel(k, "infrared", r)
    BY <1>7 DEF RequestInfrared
  <2>2. Made(k, r)
    BY <2>1, TellsModels, AnswersMade
  <2>. QED  BY <1>2, <2>2, OthersSettle
<1>8. ASSUME NEW call, NEW forward, NEW o, NEW kinds, Tells(o), Concludes(o, kinds), Pairs(call, forward, kinds),
             ConfigurationRequest(k, Ask(call, forward, o))
      PROVE  StepWaits
  <2>1. Settles(Ask(call, forward, o)) /\ Tells(Ask(call, forward, o).does)
    BY <1>8, AskSettles, AskDoes
  <2>2. Made(k, Ask(call, forward, o))
    BY <1>8, <2>1, AnswersMade
  <2>. QED  BY <1>2, <2>1, <2>2
<1>9. ASSUME SaveToBackupRequest(k) PROVE StepWaits
  <2> DEFINE O(saved) == Said(<< <<"saving">>, <<IF saved THEN "saved" ELSE "error">> >>)
  <2>1. PICK saved \in BOOLEAN :
          ConfigurationRequest(k, Ask(C!ConfigurationSaveToBackup, P!ConfigurationRequests.SaveToBackup, O(saved)))
    BY <1>9 DEF SaveToBackupRequest
  <2>2. Tells(O(saved)) /\ Concludes(O(saved), {"saved"})
    BY ConfigurationConcludes
  <2>. HIDE DEF O
  <2>. QED  BY <1>8, <2>1, <2>2, OtherPairs
<1>10. ASSUME LoadFromBackupRequest(k) PROVE StepWaits
  <2>1. ConfigurationRequest(k, Ask(C!ConfigurationLoadFromBackup, P!ConfigurationRequests.LoadFromBackup,
                                    Said(<< <<"loaded">> >>)))
    BY <1>10 DEF LoadFromBackupRequest
  <2>. QED  BY <1>8, <2>1, ConfigurationConcludes, OtherPairs
<1>11. ASSUME ResetToDefaultsRequest(k) PROVE StepWaits
  <2>1. ConfigurationRequest(k, Ask(C!ConfigurationResetToDefaults, P!ConfigurationRequests.ResetToDefaults,
                                    Said(<< <<"reset">> >>)))
    BY <1>11 DEF ResetToDefaultsRequest
  <2>. QED  BY <1>8, <2>1, ConfigurationConcludes, OtherPairs
<1>. QED  BY <1>3, <1>4, <1>5, <1>6, <1>7, <1>9, <1>10, <1>11

\* A telnet user waits for nothing that a client waits for.
LEMMA TelnetStepsWait ==
  ASSUME Kept, ViewsFine, Anchored, NEW t, TelnetRequest(t)
  PROVE  StepWaits
<1>1. ASSUME NEW o, Tells(o), \/ Answer(t, ByTelnet(o))
                              \/ \E name : AnswerModel(t, name, ByTelnet(o))
      PROVE  StepWaits
  <2>1. ByTelnet(o).does = o /\ AwaitsKinds(ByTelnet(o), {})
    BY AskDoes, AskAwaits, CallKinds DEF ByTelnet, Directly
  <2>2. Made(t, ByTelnet(o))
    BY <1>1, <2>1, AnswersMade
  <2>. QED  BY <2>1, <2>2, MadeWaits DEF StepWaits
<1>2. CASE TelnetQuery(t)
  <2>1. PICK o \in TelnetQueries : Answer(t, ByTelnet(o))
    BY <1>2 DEF TelnetQuery
  <2>. QED  BY <1>1, <2>1, TelnetQueriesTell
<1>3. CASE TelnetNetwork(t)
  <2>1. PICK o \in NetworkRequests(m.network) : AnswerModel(t, "network", ByTelnet(o))
    BY <1>3 DEF TelnetNetwork
  <2>. QED  BY <1>1, <2>1, TellsModels
<1>4. CASE TelnetClearGroups(t)
  <2> DEFINE o == ClearZonesRequest(m.groups)
  <2>1. Answer(t, ByTelnet(o))
    BY <1>4 DEF TelnetClearGroups
  <2>2. Tells(o)
    BY OtherLines, ToldLines DEF Tells, ClearZonesRequest
  <2>. HIDE DEF o
  <2>. QED  BY <1>1, <2>1, <2>2
<1>. QED  BY <1>2, <1>3, <1>4 DEF TelnetRequest

\* The proxy answers every query, and ends the exchange of the client that asked.
LEMMA WaitsWhenProxyAnswers ==
  ASSUME Known, Anchored, NEW k \in Askers \cap Behind, QueryProxy(k)
  PROVE  WaitsFor({})
<1>1. AllFine(views) /\ DOMAIN views = Clients /\ Typed(views[Proxy]) /\ DOMAIN m.zones = 1..ZonesMax
  BY KeptHas, ClientsAssumption DEF Known, ViewsFine, AllFine, Fine
<1> DEFINE V(r) == /\ ~ Failed(r.does)
                   /\ views' = HeardFromProxy(AskingProxy(k, r.call.expects), r.does.lines)
<1>2. \A x : AskingProxy(k, x) = [views EXCEPT ![k].expects = x]
  BY <1>1 DEF AskingProxy, Asks
<1>3. PICK z \in 1..ZonesMax : \E r \in ZoneQueries(views[Proxy].zones[z], z) : V(r)
  BY <1>1, <1>2 DEF QueryProxy
<1>. HIDE DEF V
<1>4. PICK r \in ZoneQueries(views[Proxy].zones[z], z) : V(r)
  BY <1>3
<1>5. Told(r.does.lines) /\ Concludes(r.does, r.call.expects)
  <2>1. views[Proxy].zones[z] \in Zones
    BY <1>1, TypedHas
  <2>2. Tells(r.does)
    BY <2>1, TellsZoneQueries
  <2>. QED  BY <2>1, <2>2, QueriesSettle DEF Tells
<1> DEFINE lines == r.does.lines
           waiting == AskingProxy(k, r.call.expects)
<1>6. /\ views' = HeardFromProxy(waiting, lines) /\ Told(lines)
      /\ Ends(lines, r.call.expects)
  BY <1>4, <1>5 DEF V, Concludes
<1>7. AllFine(waiting)
  BY <1>1, AskingProxyFine DEF Known
<1>8. /\ waiting[k].expects = r.call.expects
      /\ \A c \in Clients \ {k} : waiting[c] = views[c]
  <2>1. waiting[k] = Asks(views[k], r.call.expects) /\ \A c \in Clients \ {k} : waiting[c] = views[c]
    BY <1>1, ClientsAssumption DEF AskingProxy
  <2>2. Fine(views[k])
    BY <1>1, ClientsAssumption DEF AllFine
  <2>. QED  BY <2>1, <2>2, AsksAlike
<1>. HIDE DEF lines, waiting
<1>9. ASSUME NEW c \in Clients
      PROVE  views'[c].expects \in {{}, views[c].expects}
  <2>1. c \in Behind => views'[c] = Hear(waiting[c], lines)
    BY <1>6 DEF HeardFromProxy
  <2>2. c \notin Behind => views'[c] = waiting[c]
    BY <1>6 DEF HeardFromProxy
  <2>3. Fine(waiting[c])
    BY <1>7 DEF AllFine
  <2>4. CASE c = k
    <3>1. views'[c].expects = {}
      BY <1>6, <1>8, <2>1, <2>3, <2>4, HearEnds
    <3>. QED  BY <3>1
  <2>5. CASE c # k /\ c \in Behind
    <3>1. views[c].expects = {} => views[c].buffer = <<>>
      BY DEF Anchored, AnchoredIn
    <3>2. waiting[c] = views[c]
      BY <1>8, <2>5
    <3>3. Hear(waiting[c], lines).expects \in {{}, waiting[c].expects}
      BY <1>6, <2>3, <3>1, <3>2, HearLeaves
    <3>. QED  BY <2>1, <2>5, <3>2, <3>3
  <2>6. CASE c # k /\ c \notin Behind
    BY <1>8, <2>2, <2>6
  <2>. QED  BY <2>4, <2>5, <2>6
<1>. QED  BY <1>9 DEF WaitsFor

\* A refresh is begun by no client that waits, and leaves none waiting.
LEMMA WaitsWhenRefreshed ==
  ASSUME Known, Anchored, NEW k \in Clients
  PROVE  /\ Refresh(k) => WaitsFor({})
         /\ k \in Behind /\ RefreshFromProxy(k) => WaitsFor({})
<1>1. AllFine(views) /\ Typed(m) /\ AnchoredIn(views, adrift)
  BY KeptHas, ServerIsTypedClient DEF Known, ViewsFine, Anchored
<1>2. NobodyWaits => Resting(views)
  BY <1>1 DEF NobodyWaits, Resting, AnchoredIn
<1>3. ASSUME NEW heard, AllFine(heard), DOMAIN heard = Clients, Resting(heard),
             views' = [heard EXCEPT ![k] = Refreshed(@)] \/ views' = heard
      PROVE  WaitsFor({})
  <2>1. ASSUME NEW c \in Clients PROVE views'[c].expects = {}
    <3>1. Fine(heard[c]) /\ heard[c].expects = {}
      BY <1>3 DEF AllFine, Resting
    <3>2. views'[c] = Refreshed(heard[c]) \/ views'[c] = heard[c]
      BY <1>3
    <3>. QED  BY <3>1, <3>2, RefreshedDerives
  <2>. QED  BY <2>1 DEF WaitsFor
<1>4. ASSUME Refresh(k) PROVE WaitsFor({})
  <2> DEFINE heard == HeardByAll(views, RefreshLines(m))
  <2>1. /\ views' = [heard EXCEPT ![k] = Refreshed(@)] \/ views' = heard
        /\ NobodyWaits
    BY <1>4 DEF Refresh
  <2>2. AllFine(heard) /\ DOMAIN heard = Clients /\ Resting(heard)
    BY <1>1, <1>2, <2>1, ToldRefresh, AllHear, RestingHears
  <2>. HIDE DEF heard
  <2>. QED  BY <1>3, <2>1, <2>2
<1>5. ASSUME k \in Behind, RefreshFromProxy(k) PROVE WaitsFor({})
  <2> DEFINE lines == RefreshLines(views[Proxy])
             heard == HeardFromProxy(views, lines)
  <2>1. views' = [heard EXCEPT ![k] = Refreshed(@)] /\ NobodyWaits
    BY <1>5 DEF RefreshFromProxy
  <2>2. Told(lines)
    BY <1>1, <1>5, ClientsAssumption, ToldRefresh DEF AllFine, Fine
  <2>. HIDE DEF lines
  <2>3. AllFine(heard) /\ DOMAIN heard = Clients /\ Resting(heard)
    BY <1>1, <1>2, <2>1, <2>2, AllHear, RestingHears
  <2>. HIDE DEF heard
  <2>. QED  BY <1>3, <2>1, <2>3
<1>. QED  BY <1>4, <1>5

-----------------------------------------------------------------------------
(***************************************************************************)
(* Nobody is left waiting but for what was set already.                    *)
(***************************************************************************)
\* Every step but the end leaves clients waiting only as it may.
LEMMA StepsWait ==
  ASSUME Known, Anchored, [Next]_vars
  PROVE  StepWaits
<1>1. Kept /\ ViewsFine
  BY DEF Known
<1>2. ASSUME NEW k, Request(k) PROVE StepWaits
  BY <1>1, <1>2, ZoneStepsWait, GroupStepsWait, OtherStepsWait DEF Request
<1>3. ASSUME NEW k, TelnetRequest(k) PROVE StepWaits
  BY <1>1, <1>3, TelnetStepsWait
<1>4. ASSUME NEW k, \/ QueryZone(k)
                    \/ \E z \in 1..ZonesMax : RequestBass(k, z) \/ RequestTreble(k, z)
      PROVE  StepWaits
  BY <1>1, <1>4, ZoneStepsWait
<1>5. ASSUME Start \/ TimerDidFire \/ UNCHANGED vars PROVE StepWaits
  <2>1. views' = views
    BY <1>5 DEF Start, TimerDidFire, vars, history
  <2>. QED  BY <2>1 DEF StepWaits, WaitsFor
<1>6. ASSUME Stop PROVE StepWaits
  <2>1. views' = [k \in Clients |-> ClientNulls]
    BY <1>6 DEF Stop
  <2>2. ASSUME NEW k \in Clients PROVE views'[k].expects = {}
    BY <2>1 DEF ClientNulls
  <2>. QED  BY <2>2 DEF StepWaits, WaitsFor
<1>7. ASSUME NEW k \in Clients, \/ Refresh(k)
                                \/ k \in Behind /\ RefreshFromProxy(k)
      PROVE  StepWaits
  BY <1>7, WaitsWhenRefreshed DEF StepWaits
<1>8. ASSUME NEW k \in Askers \cap Behind, QueryProxy(k) PROVE StepWaits
  BY <1>8, WaitsWhenProxyAnswers DEF StepWaits
<1>. QED  BY <1>2, <1>3, <1>4, <1>5, <1>6, <1>7, <1>8, ClientsAssumption DEF Next

\* A group that keeps a field does so as the property says.
LEMMA GroupsKeep ==
  ASSUME Kept, NEW field, GroupStays(field)
  PROVE  SomeGroupKeeps(field)
<1>1. PICK g \in 1..GroupsMax : LastKeeps(m.groups[g], m.zones, m'.zones, field)
  BY DEF GroupStays
<1>2. g \in {h \in DOMAIN m.groups : m.groups[h].zones # {}}
  BY <1>1, KeptHas DEF LastKeeps
<1>3. LastZone(g) = LastIn(m.groups[g].zones)
  BY DEF LastZone, LastIn
<1>4. m'.zones[LastZone(g)][field] = m.zones[LastZone(g)][field]
  BY <1>1, <1>3 DEF LastKeeps
<1>. QED  BY <1>2, <1>4 DEF SomeGroupKeeps

\* A client is left waiting by no request but one for what was set already, in the zone or in the
\* last zone of the group, for any clients, behind the proxy or not, zones and groups, and whatever
\* the clients have still to hear (lib/client commands against hlxsimd controllers).
THEOREM LeftWaiting == Spec => LeftWaitingWhenAlreadySet
<1>1. Init => Known /\ Anchored
  BY KnownInit, AnchoredInit
<1>2. Known /\ Anchored /\ [Next]_vars => Known' /\ Anchored'
  BY KnownNext, AnchoredNext
<1>3. Known /\ Anchored /\ [Next]_vars =>
        [\A k \in Clients :
           LET expects == views'[k].expects
           IN \/ expects \in {{}, views[k].expects}
              \/ expects = {"volume"}
                 /\ \E z \in DOMAIN m.zones : m'.zones[z].volume = m.zones[z].volume
              \/ expects \in {{"group volume"}, {"group volume up"},
                             {"group volume down"}} /\ SomeGroupKeeps("volume")
              \/ expects = {"group source"} /\ SomeGroupKeeps("source")]_vars
  <2> SUFFICES ASSUME Known, Anchored, [Next]_vars, NEW k \in Clients
               PROVE  \/ views'[k].expects \in {{}, views[k].expects}
                      \/ /\ views'[k].expects = {"volume"}
                         /\ \E z \in DOMAIN m.zones : m'.zones[z].volume = m.zones[z].volume
                      \/ /\ views'[k].expects \in {{"group volume"}, {"group volume up"},
                                                   {"group volume down"}}
                         /\ SomeGroupKeeps("volume")
                      \/ views'[k].expects = {"group source"} /\ SomeGroupKeeps("source")
    OBVIOUS
  <2>1. StepWaits /\ Kept /\ DOMAIN m.zones = 1..ZonesMax
    BY StepsWait, KeptHas DEF Known
  <2>2. ASSUME NEW x, WaitsFor(x)
        PROVE  views'[k].expects \in {{}, views[k].expects} \/ views'[k].expects = x
    BY <2>2 DEF WaitsFor
  <2>3. CASE WaitsFor({})
    BY <2>2, <2>3
  <2>4. CASE WaitsFor({"volume"}) /\ VolumeStays
    BY <2>1, <2>2, <2>4 DEF VolumeStays
  <2>5. CASE /\ \E kinds \in {{"group volume"}, {"group volume up"}, {"group volume down"}} : WaitsFor(kinds)
             /\ GroupStays("volume")
    BY <2>1, <2>2, <2>5, GroupsKeep
  <2>6. CASE WaitsFor({"group source"}) /\ GroupStays("source")
    BY <2>1, <2>2, <2>6, GroupsKeep
  <2>. QED  BY <2>1, <2>3, <2>4, <2>5, <2>6 DEF StepWaits
<1>. QED  BY <1>1, <1>2, <1>3, PTL DEF Spec, LeftWaitingWhenAlreadySet

=============================================================================

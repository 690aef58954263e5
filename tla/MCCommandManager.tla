-------------------------- MODULE MCCommandManager --------------------------
(***************************************************************************)
(* Small instances of CommandManager.                                      *)
(***************************************************************************)
EXTENDS CommandManager

CONSTANTS k1, c1, c2, name, query, n1, q1

\* One client owns every command.
MCOwner == [c \in Commands |-> k1]

\* The name of a zone, and the line that ends what there is to tell of it.
MCPatternOf == [m \in Messages |-> IF m = n1 THEN name ELSE query]

\* The first command sets the name, the second queries the zone.
MCResponsePattern == [c \in Commands |-> IF c = c1 THEN name ELSE query]

\* What there is to tell.
MCLeading == [c \in Commands |-> IF c = c1 THEN { <<>> } ELSE { <<n1>> }]

\* The name that is set ends the request within.
MCSurplus == [c \in Commands |-> IF c = c1 THEN { <<Error>> } ELSE { <<>> }]

=============================================================================

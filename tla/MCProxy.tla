------------------------------ MODULE MCProxy ------------------------------
(***************************************************************************)
(* Small instances of Proxy.  Connections are interchangeable, and so are  *)
(* items and values.                                                       *)
(***************************************************************************)
EXTENDS Proxy, TLC

MCSymmetry ==
  Permutations(Connections) \cup Permutations(Items) \cup Permutations(Values)
=============================================================================

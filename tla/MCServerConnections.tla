------------------------ MODULE MCServerConnections -------------------------
(***************************************************************************)
(* Small instances of ServerConnections.  Connections are interchangeable, *)
(* and so are requests.                                                    *)
(***************************************************************************)
EXTENDS ServerConnections, TLC

MCSymmetry == Permutations(Connections) \cup Permutations(Requests)

=============================================================================

-------------------------- MODULE MCClientConnection --------------------------
(***************************************************************************)
(* Small instances of ClientConnection: the constants are numbers, given in*)
(* each configuration.                                                     *)
(***************************************************************************)
EXTENDS ClientConnection

=============================================================================

---------------------------- MODULE MCStreamGateway ----------------------------
(***************************************************************************)
(* Instances of StreamGateway for TLC.                                     *)
(***************************************************************************)
EXTENDS StreamGateway, TLC

Symmetry == Permutations(Session) \cup Permutations(Caller)
=============================================================================

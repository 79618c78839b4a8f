--------------------------- MODULE MCTorrentPlayback ---------------------------
(***************************************************************************)
(* Instances of TorrentPlayback for TLC.                                   *)
(***************************************************************************)
EXTENDS TorrentPlayback, TLC

Symmetry == Permutations(Output)
=============================================================================

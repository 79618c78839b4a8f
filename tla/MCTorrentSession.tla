--------------------------- MODULE MCTorrentSession ---------------------------
(***************************************************************************)
(* Instances of TorrentSession for TLC.                                    *)
(***************************************************************************)
EXTENDS TorrentSession, TLC

Symmetry == Permutations(Owner) \cup Permutations(Session)
              \cup Permutations(Key) \cup Permutations(Digest)
              \cup Permutations(File) \cup Permutations(Output)
              \cup Permutations(EngineKey)
=============================================================================

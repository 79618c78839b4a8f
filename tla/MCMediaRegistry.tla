---------------------------- MODULE MCMediaRegistry ----------------------------
(***************************************************************************)
(* The registry with two works, a film and an anime, and two providers     *)
(* that find out at the same time that they are one: the one bridge says   *)
(* it is a film, the other that it is an anime.                            *)
(***************************************************************************)
EXTENDS MediaRegistry

MCAlias == {"i1", "i2", "k1", "t1", "s1"}

\* i1 and i2 are two values of one provider; the others are of a provider each.
MCSpace == [a \in MCAlias |-> IF a \in {"i1", "i2"} THEN "imdb" ELSE a]

MCRequests ==
  {[type |-> "movie", aliases |-> {"i1", "k1"}],
   [type |-> "anime", aliases |-> {"t1", "s1"}],
   [type |-> "movie", aliases |-> {"i1", "t1"}],
   [type |-> "anime", aliases |-> {"k1", "s1"}],
   [type |-> "anime", aliases |-> {"k1", "i2"}]}
================================================================================

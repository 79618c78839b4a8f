---- MODULE AnimeSeasons ----
(***************************************************************************)
(* The chain of seasons of an anime franchise (anime-season-chain.ts) and  *)
(* the cache through which every part of the franchise shares one chain    *)
(* (getAnimeSeasonChain of media.service.ts).                              *)
(*                                                                         *)
(* The page of one part walks the providers' prequel and sequel relations  *)
(* to the whole chain; the pages of the other parts must then number their *)
(* episodes in the same way.  The relations are external data: they are    *)
(* chosen once, in Init, among those that respect the order of release,    *)
(* and any answer may fail.  A part stands for its public reference, which *)
(* the registry gives to every identity of the release (registerRoute).    *)
(***************************************************************************)
EXTENDS Integers, FiniteSets, SequencesExt

CONSTANTS
  Parts,     \* the releases of the franchise are 1..Parts, by date
  Request,   \* loads of the service in flight
  MaxChain,  \* MAX_ANIME_SEASON_CHAIN_LENGTH
  MaxLoads,  \* bound: loads in a behaviour
  MaxFaults  \* bound: provider answers that fail within one load

VARIABLES
  tv,         \* tv[p]: a season; otherwise a special or an OVA between two
  prequels, sequels,   \* the releases each provider answer relates to p
  cache,      \* cache[p]: the load that fills it, or a chain
  request,    \* request[r]: the part that load is for
  loads

vars == <<tv, prequels, sequels, cache, request, loads>>

Part == 1..Parts
None == 0
Ambiguous == -1
Hops == 3     \* specials a continuation looks through

(* selectRelation: the only candidate, if there is one *)
Only(S) == IF S = {} THEN None
           ELSE IF Cardinality(S) = 1 THEN CHOOSE p \in S : TRUE ELSE Ambiguous

(* continuation: the next season, through specials that are unambiguous.   *)
(* A release whose answer fails has no relations.                          *)
Continuation(start, related, failed) ==
  LET Answer(n) == IF n \in failed THEN {} ELSE related[n]
      from[hop \in 0..Hops + 1, n \in Part] ==
        LET season == Only({p \in Answer(n) : tv[p]})
            bridge == Only({p \in Answer(n) : ~tv[p]})
        IN  IF hop > Hops THEN None
            ELSE IF season # None THEN season
            ELSE IF bridge \in Part THEN from[hop + 1, bridge] ELSE bridge
  IN  from[0, start]

(* The walk to the first season; nothing when a prequel is ambiguous. *)
Backwards(part, failed) ==
  LET walk[n \in 1..MaxChain] ==
        IF n = 1 THEN <<part>>
        ELSE LET chain == walk[n - 1]
                 prequel == IF chain = <<>> THEN None
                            ELSE Continuation(Head(chain), prequels, failed)
             IN  IF prequel = None THEN chain
                 ELSE IF prequel = Ambiguous THEN <<>> ELSE <<prequel>> \o chain
  IN  walk[MaxChain]

(* The walk to the last season: a sequel joins only if it names the season *)
(* before it as its own prequel.                                           *)
Forwards(chain, failed) ==
  LET walk[n \in Len(chain)..MaxChain] ==
        IF n = Len(chain) THEN chain
        ELSE LET c == walk[n - 1]
                 sequel == Continuation(Last(c), sequels, failed)
             IN  IF /\ sequel \in Part
                    /\ Continuation(sequel, prequels, failed) = Last(c)
                 THEN Append(c, sequel) ELSE c
  IN  walk[MaxChain]

(* Mutant: any way back will do. *)
AnyWayBack(chain, failed) == TRUE

(* The way back must lead through the seasons that led to the first one. *)
Reciprocal(chain, failed) ==
  \A i \in 1..Len(chain) - 1 : Continuation(chain[i], sequels, failed) = chain[i + 1]

(* buildAnimeSeasonChain: the seasons with their numbers of episodes, which *)
(* differ between the answer about a relation and the release's own answer *)
Chain(part, failed, missing) ==
  LET back == Backwards(part, failed)
      seasons == IF back = <<>> \/ ~Reciprocal(back, failed) THEN <<>>
                 ELSE Forwards(back, failed)
  IN  IF ~tv[part] THEN <<>>
      ELSE [i \in 1..Len(seasons) |->
              [part |-> seasons[i],
               own |-> seasons[i] = part \/ seasons[i] \notin missing]]

Entry(by, chain, complete) ==
  [by |-> by, chain |-> chain, complete |-> complete, fresh |-> TRUE]
Absent == [Entry(None, <<>>, FALSE) EXCEPT !.fresh = FALSE]
SeasonsOf(chain) == {chain[i].part : i \in 1..Len(chain)}

Init ==
  /\ tv \in [Part -> BOOLEAN]
  /\ prequels \in {f \in [Part -> SUBSET Part] : \A p \in Part : f[p] \subseteq 1..p - 1}
  /\ sequels \in {f \in [Part -> SUBSET Part] : \A p \in Part : f[p] \subseteq p + 1..Parts}
  /\ cache = [p \in Part |-> Absent]
  /\ request = [r \in Request |-> None]
  /\ loads = 0

(* A page asks for the chain: a fresh entry answers, finished or not, and  *)
(* otherwise a load starts and takes the part's entry.                     *)
GetAnimeSeasonChain(r, p) ==
  /\ request[r] = None /\ loads < MaxLoads
  /\ ~cache[p].fresh
  /\ cache' = [cache EXCEPT ![p] = Entry(r, <<>>, FALSE)]
  /\ request' = [request EXCEPT ![r] = p]
  /\ loads' = loads + 1
  /\ UNCHANGED <<tv, prequels, sequels>>

(* A longer chain that is known by now wins; otherwise every part of the   *)
(* new chain gets it, unless that part knows a longer one.                 *)
Keeps(q, chain) ==
  cache[q].fresh /\ Len(cache[q].chain) > Len(chain)

Stores(p, chain, complete) ==
  IF Keeps(p, chain) THEN cache
  ELSE [q \in Part |->
          IF chain = <<>> /\ q = p THEN Absent
          ELSE IF q \in SeasonsOf(chain) /\ ~Keeps(q, chain)
          THEN Entry(None, chain, complete) ELSE cache[q]]

Loaded(r) ==
  /\ request[r] # None
  /\ \E failed, missing \in SUBSET Part :
       /\ Cardinality(failed) + Cardinality(missing) <= MaxFaults
       /\ cache' = Stores(request[r], Chain(request[r], failed, missing),
                          failed = {} /\ missing = {})
  /\ request' = [request EXCEPT ![r] = None]
  /\ UNCHANGED <<tv, prequels, sequels, loads>>

(* An answer is refused altogether: the entry goes, if it is still ours. *)
LoadFails(r) ==
  /\ request[r] # None
  /\ cache' = [cache EXCEPT ![request[r]] = IF @.by = r THEN Absent ELSE @]
  /\ request' = [request EXCEPT ![r] = None]
  /\ UNCHANGED <<tv, prequels, sequels, loads>>

(* The entry's time to live passes, while it is built or after. *)
Expires(p) ==
  /\ cache[p].fresh
  /\ cache' = [cache EXCEPT ![p].fresh = FALSE]
  /\ UNCHANGED <<tv, prequels, sequels, request, loads>>

(* cacheAnimeSeasonChain: other works push the entry out of the cache. *)
Evicted(p) ==
  /\ cache[p] # Absent
  /\ cache' = [cache EXCEPT ![p] = Absent]
  /\ UNCHANGED <<tv, prequels, sequels, request, loads>>

Next ==
  \/ \E r \in Request, p \in Part : GetAnimeSeasonChain(r, p)
  \/ \E r \in Request : Loaded(r) \/ LoadFails(r)
  \/ \E p \in Part : Expires(p) \/ Evicted(p)

Spec == Init /\ [][Next]_vars

(* Properties *)

TypeOK ==
  /\ tv \in [Part -> BOOLEAN]
  /\ prequels \in [Part -> SUBSET Part] /\ sequels \in [Part -> SUBSET Part]
  /\ \A p \in Part :
       /\ cache[p].by \in Request \cup {None}
       /\ SeasonsOf(cache[p].chain) \subseteq Part
       /\ Len(cache[p].chain) <= MaxChain
       /\ cache[p].complete \in BOOLEAN /\ cache[p].fresh \in BOOLEAN
  /\ request \in [Request -> Part \cup {None}] /\ loads \in 0..MaxLoads

(* Two parts of one franchise whose chains were loaded without a failed    *)
(* answer number their episodes in the same way, whatever the order in     *)
(* which the pages were opened and the loads finished: a chain is what     *)
(* each of its parts would find (reciprocal relations), and a part never   *)
(* keeps a chain another one has left.  ("Opening another part must use    *)
(* the same release counts and offsets", media.service.ts:278.)            *)
PartsAgree ==
  \A p \in Part : \A q \in SeasonsOf(cache[p].chain) :
    (cache[p].fresh /\ cache[p].complete /\ cache[q].fresh /\ cache[q].complete)
      => cache[q].chain = cache[p].chain
====

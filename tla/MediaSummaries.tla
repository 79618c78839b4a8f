---- MODULE MediaSummaries ----
(***************************************************************************)
(* How a list of media references becomes summaries (resolveMediaRefs and  *)
(* assertMediaRefsExist of media-catalog.service.ts): published items of   *)
(* the editorial catalog first, then a cache with a stale window in front  *)
(* of the providers, one load per reference at a time and a few at once    *)
(* per list.  Favourites, history, ratings and collections ask through it. *)
(***************************************************************************)
EXTENDS Integers, FiniteSets

CONSTANTS
  Ref,         \* references
  Batch,       \* lists being resolved
  Concurrency, \* FALLBACK_CONCURRENCY
  Ttl, Stale,  \* FALLBACK_CACHE_TTL_MS and FALLBACK_STALE_TTL_MS, in ticks
  MaxVersion,  \* bound: changes of what the providers know
  MaxTime,     \* bound: ticks of the clock
  MaxAsks      \* bound: lists asked for

VARIABLES
  clock,
  source,      \* source[m]: the version the providers know; 0: none
  published,   \* references the published revision has
  cache,       \* fallbackCache
  flight,      \* pendingFallbacks: a load, with what it read before it
  batch,       \* the lists: what is left, what is awaited, what came back
  asks

vars == <<clock, source, published, cache, flight, batch, asks>>

Nothing == [version |-> 0, at |-> -1 - Ttl - Stale]
Grounded == [on |-> FALSE, at |-> 0, cached |-> Nothing, read |-> 0]
Idle == [on |-> FALSE, left |-> {}, waiting |-> {}, failed |-> {}, got |-> [m \in Ref |-> 0],
         absent |-> {}, down |-> {}, answer |-> "none"]

Init ==
  /\ clock = 0
  /\ source \in [Ref -> {0, 1}]
  /\ published \in SUBSET Ref
  /\ cache = [m \in Ref |-> Nothing]
  /\ flight = [m \in Ref |-> Grounded]
  /\ batch = [b \in Batch |-> Idle]
  /\ asks = 0

Tick ==
  /\ clock < MaxTime
  /\ clock' = clock + 1
  /\ UNCHANGED <<source, published, cache, flight, batch, asks>>

(* A provider learns of a release or corrects it. *)
SourceChanges(m) ==
  /\ source[m] < MaxVersion
  /\ source' = [source EXCEPT ![m] = @ + 1]
  /\ UNCHANGED <<clock, published, cache, flight, batch, asks>>

(* resolveRequestedRefs: the published items are read at once; the rest is *)
(* left to the workers of the list.                                        *)
ResolveRequestedRefs(b, refs) ==
  /\ ~batch[b].on /\ asks < MaxAsks
  /\ batch' = [batch EXCEPT ![b] = [Idle EXCEPT !.on = TRUE,
                                                !.left = refs \ published]]
  /\ asks' = asks + 1
  /\ UNCHANGED <<clock, source, published, cache, flight>>

(* What a load that ends with these facts tells every list that awaits it. *)
Tells(m, version, absent, down) ==
  [b \in Batch |->
     IF m \notin batch[b].waiting THEN batch[b]
     ELSE [batch[b] EXCEPT
            !.waiting = @ \ {m}, !.got[m] = version,
            !.absent = IF absent THEN @ \cup {m} ELSE @,
            !.down = IF down THEN @ \cup {m} ELSE @]]

(* A worker of the list is free to take this reference: an error it awaited ends a worker. *)
Takes(b, m) ==
  m \in batch[b].left /\ Cardinality(batch[b].waiting \cup batch[b].failed) < Concurrency

(* resolveFallback: a worker joins the load in flight ... *)
Joins(b, m) ==
  /\ Takes(b, m)
  /\ flight[m].on
  /\ batch' = [batch EXCEPT ![b].left = @ \ {m}, ![b].waiting = @ \cup {m}]
  /\ UNCHANGED <<clock, source, published, cache, flight, asks>>

(* ... or takes the fresh entry ... *)
Hits(b, m) ==
  /\ Takes(b, m)
  /\ ~flight[m].on
  /\ cache[m].version # 0 /\ clock < cache[m].at + Ttl
  /\ batch' = [batch EXCEPT ![b].left = @ \ {m}, ![b].got[m] = cache[m].version]
  /\ UNCHANGED <<clock, source, published, cache, flight, asks>>

(* ... or loads, from what the cache and the clock say now. *)
Misses(b, m) ==
  /\ Takes(b, m)
  /\ ~flight[m].on
  /\ cache[m].version = 0 \/ clock >= cache[m].at + Ttl
  /\ flight' = [flight EXCEPT
       ![m] = [on |-> TRUE, at |-> clock, cached |-> cache[m], read |-> -1]]
  /\ batch' = [batch EXCEPT ![b].left = @ \ {m}, ![b].waiting = @ \cup {m}]
  /\ UNCHANGED <<clock, source, published, cache, asks>>

(* The engine reads what the providers know, at some moment of the load,   *)
(* and may not recognise the work in it; its answer arrives later.         *)
ProviderReads(m) ==
  /\ flight[m].on /\ flight[m].read = -1
  /\ \E read \in {source[m], 0} : flight' = [flight EXCEPT ![m].read = read]
  /\ UNCHANGED <<clock, source, published, cache, batch, asks>>

UseStale(m) ==
  IF flight[m].at < flight[m].cached.at + Ttl + Stale THEN flight[m].cached.version ELSE 0

(* resolveFallbackUncached: details arrive and are cached from the time of *)
(* the request, or nothing is known of the reference, or the providers are *)
(* down and what was known before it serves while it is not too old.       *)
Answered(m) ==
  /\ flight[m].on /\ flight[m].read > 0
  /\ cache' = [cache EXCEPT ![m] = [version |-> flight[m].read, at |-> flight[m].at]]
  /\ batch' = Tells(m, flight[m].read, FALSE, FALSE)
  /\ flight' = [flight EXCEPT ![m] = Grounded]
  /\ UNCHANGED <<clock, source, published, asks>>

(* Mutant: the empty answer is cached as well. *)
AnsweredEmptyCached(m) ==
  /\ flight[m].on /\ flight[m].read = 0
  /\ cache' = [cache EXCEPT ![m].version = 0]
  /\ batch' = Tells(m, UseStale(m), TRUE, FALSE)
  /\ flight' = [flight EXCEPT ![m] = Grounded]
  /\ UNCHANGED <<clock, source, published, asks>>

AnsweredEmpty(m) ==
  /\ flight[m].on /\ flight[m].read = 0
  /\ batch' = Tells(m, UseStale(m), TRUE, FALSE)
  /\ flight' = [flight EXCEPT ![m] = Grounded]
  /\ UNCHANGED <<clock, source, published, cache, asks>>

ProvidersDown(m) ==
  /\ flight[m].on
  /\ batch' = Tells(m, UseStale(m), FALSE, TRUE)
  /\ flight' = [flight EXCEPT ![m] = Grounded]
  /\ UNCHANGED <<clock, source, published, cache, asks>>

(* Any other error of the engine: it rejects every list that awaits the    *)
(* load; their other workers go on with what is left.                      *)
LoadFails(m) ==
  /\ flight[m].on
  /\ batch' = [b \in Batch |->
       IF m \notin batch[b].waiting THEN batch[b]
       ELSE [batch[b] EXCEPT !.waiting = @ \ {m}, !.failed = @ \cup {m}]]
  /\ flight' = [flight EXCEPT ![m] = Grounded]
  /\ UNCHANGED <<clock, source, published, cache, asks>>

(* assertMediaRefsExist: not found outweighs unavailable. *)
Verdict(b) ==
  LET missing == {m \in batch[b].absent \cup batch[b].down : batch[b].got[m] = 0}
  IN  IF batch[b].failed # {} THEN "error"
      ELSE IF missing \ batch[b].down # {} THEN "not found"
      ELSE IF missing # {} THEN "unavailable" ELSE "found"

Replies(b) ==
  /\ batch[b].on /\ batch[b].waiting = {}
  /\ batch[b].left = {} \/ Cardinality(batch[b].failed) >= Concurrency
  /\ batch' = [batch EXCEPT ![b].on = FALSE, ![b].answer = Verdict(b)]
  /\ UNCHANGED <<clock, source, published, cache, flight, asks>>

Next ==
  \/ Tick
  \/ \E m \in Ref : \/ SourceChanges(m) \/ ProviderReads(m)
                    \/ Answered(m) \/ AnsweredEmpty(m) \/ ProvidersDown(m) \/ LoadFails(m)
  \/ \E b \in Batch :
       \/ \E refs \in SUBSET Ref \ {{}} : ResolveRequestedRefs(b, refs)
       \/ \E m \in Ref : Joins(b, m) \/ Hits(b, m) \/ Misses(b, m)
       \/ Replies(b)

Spec == Init /\ [][Next]_vars

(* Properties *)

TypeOK ==
  /\ clock \in 0..MaxTime /\ asks \in 0..MaxAsks
  /\ source \in [Ref -> 0..MaxVersion] /\ published \subseteq Ref
  /\ \A m \in Ref : cache[m].version \in 0..MaxVersion /\ cache[m].at <= clock
  /\ \A m \in Ref : flight[m].read \in -1..MaxVersion
  /\ \A b \in Batch :
       /\ batch[b].waiting \subseteq {m \in Ref : flight[m].on}
       /\ Cardinality(batch[b].waiting \cup batch[b].failed) <= Concurrency
       /\ batch[b].got \in [Ref -> 0..MaxVersion]

(* What is known of a reference never goes back: a slow answer that was    *)
(* read before a newer one does not replace it, because every list that    *)
(* asks meanwhile waits for the load in flight (media-catalog.service.ts,  *)
(* resolveFallback).                                                       *)
CacheNeverGoesBack ==
  [][\A m \in Ref : cache'[m].version >= cache[m].version]_vars
====

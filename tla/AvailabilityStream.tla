------------------------- MODULE AvailabilityStream -------------------------
(***************************************************************************)
(* Where a work, or an episode of it, can be watched: the server asks      *)
(* providers and streams what they answer, first the answers so far, then  *)
(* all of them (media.service, media.controller); the page merges that into *)
(* what it showed before, keeps it in a query that is loaded again when it *)
(* is incomplete or expires, and drops what has expired when it reads it   *)
(* (media-source).  A provider has one source here, and a source expires   *)
(* Ttl after its provider answered.                                        *)
(*                                                                         *)
(* An interrupted load leaves what it merged: the query keeps data set by  *)
(* hand when it is cancelled.                                              *)
(***************************************************************************)
EXTENDS Integers, FiniteSets

CONSTANTS Provider,
          Ttl,         \* time a source can be used, at least 1
          MaxTime,     \* bound: the clock
          MaxLoads     \* bound: streams that are opened

MaxTries == 4  \* the first attempt, and one per delay of backgroundRetryDelaysMs

VARIABLES
  clock,
  data,     \* the query's data: until when each source lasts (0: none), and its flags
  stream,   \* the load in progress: what each provider has answered, and its attempt
  waiting,  \* attempts that failed before the next one
  watched,  \* whether the page observes the query
  loads

vars == <<clock, data, stream, waiting, watched, loads>>

NoSources == [p \in Provider |-> 0]
NoData == [present |-> FALSE, until |-> NoSources, settled |-> FALSE, degraded |-> FALSE,
           expired |-> FALSE]
NoStream == [open |-> FALSE, again |-> FALSE, until |-> NoSources, asked |-> {},
             failed |-> {}, expired |-> FALSE]

Has(a) == {p \in Provider : a.until[p] # 0}
Usable(a) == {p \in Provider : a.until[p] > clock}   \* selectUsableAvailability
SomeExpired(a) == Has(a) # Usable(a)                 \* getMediaAvailabilityExpirationDelay = 0

Init == /\ clock = 1 /\ data = NoData /\ stream = NoStream /\ waiting = 0
        /\ watched = FALSE /\ loads = 0

-----------------------------------------------------------------------------
\* needsBackgroundRefresh and the times of refetchInterval and staleTime.
Due == \/ ~data.present \/ ~data.settled
       \/ data.degraded \/ data.expired \/ SomeExpired(data)

\* Only a load that the page observes is tried again.
Open(again) == /\ loads < MaxLoads /\ loads' = loads + 1
               /\ stream' = [NoStream EXCEPT !.open = TRUE, !.again = again]

\* The page opens, or its timer finds the data incomplete or expired.
Watch ==
  /\ ~watched /\ watched' = TRUE
  /\ IF Due /\ ~stream.open /\ waiting = 0 THEN Open(TRUE)
     ELSE UNCHANGED <<stream, loads>>
  /\ UNCHANGED <<clock, data, waiting>>

Refresh ==
  /\ watched /\ Due /\ ~stream.open /\ waiting = 0 /\ Open(TRUE)
  /\ UNCHANGED <<clock, data, waiting, watched>>

\* A prefetch, or a command that lacks a track of what is cached (fetchQuery).
Fetch ==
  /\ ~stream.open /\ waiting = 0 /\ Open(FALSE)
  /\ UNCHANGED <<clock, data, waiting, watched>>

\* The next attempt, after its delay.
Again ==
  /\ waiting # 0 /\ ~stream.open /\ Open(TRUE)
  /\ UNCHANGED <<clock, data, waiting, watched>>

\* The page leaves, another episode is selected, or the prefetch is no longer wanted: the load
\* is aborted.
Leave ==
  /\ watched \/ stream.open
  /\ watched' = FALSE
  /\ stream' = NoStream /\ waiting' = 0
  /\ UNCHANGED <<clock, data, loads>>

-----------------------------------------------------------------------------
\* One provider answers with a source, with nothing, or with one that has expired already;
\* or it fails, which only the complete answer tells.
ProviderAnswers(p, kind) ==
  /\ stream.open /\ p \notin stream.asked
  /\ stream' = [stream EXCEPT !.asked = @ \cup {p},
                  !.until[p] = IF kind = "source" THEN clock + Ttl ELSE 0,
                  !.expired = @ \/ kind = "expired",
                  !.failed = IF kind = "fails" THEN @ \cup {p} ELSE @]

\* mergeProgressiveAvailability
Merged(a) == [present |-> TRUE, settled |-> FALSE, degraded |-> FALSE,
              until |-> [p \in Provider |-> IF a.until[p] # 0 THEN a.until[p]
                                            ELSE data.until[p]],
              expired |-> data.expired \/ a.expired]

Progress ==
  /\ \E p \in Provider, kind \in {"source", "nothing", "expired", "fails"} :
       ProviderAnswers(p, kind)
  /\ data' = IF stream'.failed # stream.failed THEN data ELSE Merged(stream')
  /\ UNCHANGED <<clock, waiting, watched, loads>>

\* selectSettledAvailability
Answer == [present |-> TRUE, settled |-> TRUE, until |-> stream.until,
           degraded |-> stream.failed # {}, expired |-> stream.expired]
KeepsCurrent == /\ data.present /\ Answer.degraded /\ ~SomeExpired(data)
                /\ ~data.degraded \/ Cardinality(Has(Answer)) < Cardinality(Has(data))

Complete ==
  /\ stream.open /\ stream.asked = Provider /\ stream' = NoStream /\ waiting' = 0
  /\ IF KeepsCurrent
     THEN data' = [data EXCEPT !.settled = TRUE]
     ELSE data' = Answer
  /\ UNCHANGED <<clock, watched, loads>>

\* The stream ends without its complete answer, or the server refuses: the query tries
\* again a few times, then rests in error until its interval.
Fails ==
  /\ stream.open /\ stream' = NoStream
  /\ waiting' = IF stream.again /\ waiting + 1 < MaxTries THEN waiting + 1 ELSE 0
  /\ UNCHANGED <<clock, data, watched, loads>>

Tick == clock < MaxTime /\ clock' = clock + 1
        /\ UNCHANGED <<data, stream, waiting, watched, loads>>

Next == \/ Watch \/ Refresh \/ Fetch \/ Again \/ Leave
        \/ Progress \/ Complete \/ Fails \/ Tick

Spec == Init /\ [][Next]_vars

-----------------------------------------------------------------------------
Times == 0..(MaxTime + Ttl)

TypeOK ==
  /\ clock \in 1..MaxTime
  /\ data \in [present : BOOLEAN, until : [Provider -> Times], settled : BOOLEAN,
               degraded : BOOLEAN, expired : BOOLEAN]
  /\ stream \in [open : BOOLEAN, again : BOOLEAN, until : [Provider -> Times],
                 asked : SUBSET Provider, failed : SUBSET Provider, expired : BOOLEAN]
  /\ waiting \in 0..MaxTries - 1 /\ watched \in BOOLEAN
  /\ loads \in 0..MaxLoads

\* A source that can be used stays on the page while it is loaded again, whatever fails, is
\* aborted or tried again: it goes only with time, or with a complete answer that every
\* provider took part in, that has as many sources, or that replaces some that had expired.
NothingUsableLost ==
  Usable(data) \ Usable(data)' # {} =>
    \/ clock' > clock
    \/ /\ data'.settled /\ stream.asked = Provider
       /\ \/ stream.failed = {}
          \/ SomeExpired(data)
          \/ Cardinality(Has(data)') >= Cardinality(Has(data))
=============================================================================

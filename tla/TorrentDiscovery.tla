--------------------------- MODULE TorrentDiscovery ---------------------------
(***************************************************************************)
(* The search for releases of a work: TorrentDiscoveryService asks         *)
(* TorrentCatalogsService for each title, which asks each catalog, or      *)
(* answers from a minute's cache, or with older results while a catalog    *)
(* fails and cools down; JacRed has several mirrors of its own.  What is   *)
(* found is kept under references that only their owner may use, for ten   *)
(* minutes at most.                                                        *)
(*                                                                         *)
(* A catalog's answer is abstracted to whether it has releases, and the    *)
(* time it was given.  Releases are the catalogs they come from: their     *)
(* order and what is left out of a long list are ReleaseRanking's.  A tick *)
(* is as long as a search may last.                                        *)
(***************************************************************************)
EXTENDS Integers, Sequences, FiniteSets, FiniteSetsExt

CONSTANTS Owners,           \* accounts and guests
          Catalogs,         \* the enabled catalogs
          Jacred, Mirrors,  \* the one with mirrors, and how many it has
          Titles,           \* titles of the work, each searched for
          Minute,           \* a result is fresh, a catalog avoided, searches counted for so long
          Stale, Ttl,       \* how long an older result and a reference are good
          MaxCandidates, MaxPerMinute,
          MaxTime, MaxSearches, MaxFaults   \* bounds of the model

VARIABLES
  time,
  cache,        \* [Catalogs -> [1..Titles -> <<>> or <<[at, some, degraded]>>]]
  cooling,      \* [Catalogs -> time until which the catalog is not asked]
  mirror,       \* [1..Mirrors -> the same, of each mirror of JacRed]
  admitted,     \* [Owners -> the times of the searches of the last minute]
  searches,     \* running searches
  held,         \* sequence of references kept, oldest first
  answer,       \* what the last step answered: <<>>, or <<record>>
  failed,       \* history: [Catalogs -> time of its last failed request, or of none, -Minute]
  begun,        \* number of searches begun
  faults        \* number of requests that failed

vars == <<time, cache, cooling, mirror, admitted, searches, held, answer, failed, begun, faults>>

Asked == [state |-> "asked", mirror |-> 0, at |-> 0, some |-> FALSE, degraded |-> FALSE, stale |-> FALSE]
Given(at, some, degraded, stale) ==
  [state |-> "given", mirror |-> 0, at |-> at, some |-> some, degraded |-> degraded, stale |-> stale]
Refused == [Asked EXCEPT !.state = "refused"]

Init ==
  /\ time = 0 /\ begun = 0 /\ faults = 0 /\ searches = {} /\ held = <<>> /\ answer = <<>>
  /\ cache = [c \in Catalogs |-> [t \in 1..Titles |-> <<>>]]
  /\ cooling = [c \in Catalogs |-> 0] /\ mirror = [m \in 1..Mirrors |-> 0]
  /\ admitted = [o \in Owners |-> <<>>]
  /\ failed = [c \in Catalogs |-> -Minute]

-----------------------------------------------------------------------------
\* TorrentCatalogsService: one title, all catalogs at once.

Swept(c, t) == cache[c][t] # <<>> /\ time - cache[c][t][1].at < Stale

\* What is left when a catalog fails: the older result, marked, if it has anything.
Fallback(cached) ==
  IF cached # <<>> /\ cached[1].some /\ time - cached[1].at < Stale
  THEN Given(cached[1].at, TRUE, TRUE, TRUE) ELSE Refused

\* JacRed's first mirror from m on that is not avoided; 0 if there is none.
NextMirror(m, avoided) ==
  LET open == {n \in m..Mirrors : avoided[n] <= time} IN IF open = {} THEN 0 ELSE Min(open)

\* What each catalog does with a search at once: answer from the cache, be skipped, or ask.
AsksAtOnce(c, t) ==
  LET cached == IF Swept(c, t) THEN cache[c][t] ELSE <<>>
  IN IF cached # <<>> /\ time - cached[1].at < Minute
     THEN Given(cached[1].at, cached[1].some, cached[1].degraded, FALSE)
     ELSE IF cooling[c] > time THEN Fallback(cached)
     ELSE IF c # Jacred THEN [Asked EXCEPT !.mirror = 1]
     ELSE IF NextMirror(1, mirror) = 0 THEN Fallback(cached)
     ELSE [Asked EXCEPT !.mirror = NextMirror(1, mirror),
                        !.degraded = NextMirror(1, mirror) # 1]

\* With every mirror avoided the catalog has failed without a request.
NoMirror(c) == c = Jacred /\ cooling[c] <= time /\ NextMirror(1, mirror) = 0
NotCached(c, t) == ~(Swept(c, t) /\ time - cache[c][t][1].at < Minute)

\* The cached result a catalog's request found when it began, if it is still not too old.
Begin(s, t) ==
  [s EXCEPT !.title = t, !.since = time,
            !.cached = [c \in Catalogs |-> IF Swept(c, t) THEN cache[c][t] ELSE <<>>],
            !.result = [c \in Catalogs |-> AsksAtOnce(c, t)]]

\* Only a new failure starts a cooldown: that of a search which began during one does not.
Cooled(c, since) == IF cooling[c] <= since THEN time + Minute ELSE cooling[c]

\* The expired entries are dropped first, of every title.  A catalog that is skipped has
\* failed as well, and so has JacRed with every mirror avoided, without a request.
Begun(t) ==
  /\ cache' = [c \in Catalogs |-> [u \in 1..Titles |-> IF Swept(c, u) THEN cache[c][u] ELSE <<>>]]
  /\ cooling' = [c \in Catalogs |-> IF NotCached(c, t) /\ (cooling[c] > time \/ NoMirror(c))
                                     THEN Cooled(c, time) ELSE cooling[c]]

-----------------------------------------------------------------------------
\* TorrentDiscoveryService.search: six a minute for an owner.
Recent(o) == SelectSeq(admitted[o], LAMBDA t : t > time - Minute)

NewSearch(o) ==
  [owner |-> o, id |-> begun + 1, started |-> time, since |-> time, title |-> 0,
   cached |-> [c \in Catalogs |-> <<>>], result |-> [c \in Catalogs |-> Refused],
   found |-> {}, failures |-> 0, answers |-> 0,
   missing |-> {}]   \* history: the catalogs without a fresh result for some title

Search(o) ==
  /\ begun < MaxSearches
  /\ Len(Recent(o)) < MaxPerMinute
  /\ begun' = begun + 1
  /\ admitted' = [admitted EXCEPT ![o] = Append(Recent(o), time)]
  /\ searches' = searches \cup {Begin(NewSearch(o), 1)}
  /\ Begun(1)
  /\ answer' = <<>> /\ UNCHANGED <<time, mirror, held, failed, faults>>

\* A request to a catalog ends.  Its result is kept for others and ends the cooldown.
Succeeds(s, c, some) ==
  /\ s.result[c].state = "asked"
  /\ LET degraded == s.result[c].degraded
     IN /\ cache' = [cache EXCEPT ![c][s.title] = <<[at |-> time, some |-> some, degraded |-> degraded]>>]
        /\ searches' = (searches \ {s})
                       \cup {[s EXCEPT !.result[c] = Given(time, some, degraded, FALSE)]}
  /\ cooling' = [cooling EXCEPT ![c] = 0]
  /\ mirror' = IF c = Jacred THEN [mirror EXCEPT ![s.result[c].mirror] = 0] ELSE mirror
  /\ answer' = <<>> /\ UNCHANGED <<time, admitted, held, failed, begun, faults>>

\* Another mirror is tried.
FailsOver(s, c) ==
  /\ s.result[c].state = "asked" /\ c = Jacred
  /\ faults < MaxFaults /\ faults' = faults + 1
  /\ mirror' = [mirror EXCEPT ![s.result[c].mirror] = time + Minute]
  /\ LET next == NextMirror(s.result[c].mirror + 1, mirror)
     IN /\ next # 0
        /\ searches' = (searches \ {s})
                       \cup {[s EXCEPT !.result[c].mirror = next, !.result[c].degraded = TRUE]}
  /\ answer' = <<>> /\ UNCHANGED <<time, cache, cooling, admitted, held, failed, begun>>

Fails(s, c) ==
  /\ s.result[c].state = "asked"
  /\ faults < MaxFaults /\ faults' = faults + 1
  /\ c = Jacred => NextMirror(s.result[c].mirror + 1, mirror) = 0
  /\ mirror' = IF c = Jacred THEN [mirror EXCEPT ![s.result[c].mirror] = time + Minute] ELSE mirror
  /\ cooling' = [cooling EXCEPT ![c] = Cooled(c, s.since)]
  /\ failed' = [failed EXCEPT ![c] = time]
  /\ searches' = (searches \ {s}) \cup {[s EXCEPT !.result[c] = Fallback(s.cached[c])]}
  /\ answer' = <<>> /\ UNCHANGED <<time, cache, admitted, held, begun>>

-----------------------------------------------------------------------------
\* All catalogs have settled: what one title adds to the search.
Successful(s) == {c \in Catalogs : s.result[c].state = "given"}
Settled(s) == \A c \in Catalogs : s.result[c].state # "asked"

Degraded(s) == Successful(s) # Catalogs \/ \E c \in Successful(s) : s.result[c].degraded

Releases(s) ==
  {[catalog |-> c, at |-> s.result[c].at, stale |-> s.result[c].stale] :
     c \in {d \in Successful(s) : s.result[d].some}}

\* dedupeReleases: the copy found first stays, but a stale one gives way to a current one.
Merged(first, more) ==
  LET gives(r, R) == \E q \in R : q.catalog = r.catalog /\ r.stale /\ ~q.stale
      stays(r, R) == \A q \in R : q.catalog = r.catalog => q.stale /\ ~r.stale
  IN {r \in first : ~gives(r, more)} \cup {r \in more : stays(r, first)}

Added(s) ==
  [s EXCEPT !.found = Merged(@, Releases(s)),
            !.answers = @ + (IF Successful(s) = {} THEN 0 ELSE 1),
            !.failures = @ + (IF Successful(s) = {} \/ Degraded(s) THEN 1 ELSE 0),
            !.missing = @ \cup {c \in Catalogs : s.result[c].state # "given" \/ s.result[c].stale}]

NextTitle(s) ==
  /\ Settled(s) /\ s.title < Titles
  /\ searches' = (searches \ {s}) \cup {Begin(Added(s), s.title + 1)}
  /\ Begun(s.title + 1)
  /\ answer' = <<>> /\ UNCHANGED <<time, mirror, admitted, held, failed, begun, faults>>

\* The references of an answer are kept, the oldest of everyone's dropped for them.
Unexpired(h) == SelectSeq(h, LAMBDA r : r.expires > time)
Cut(h) == IF Len(h) > MaxCandidates THEN SubSeq(h, Len(h) - MaxCandidates + 1, Len(h)) ELSE h

Reference(s, r) == [owner |-> s.owner, id |-> s.id, catalog |-> r.catalog, expires |-> time + Ttl]

Listed(s, R) == [i \in 1..Cardinality(R) |->
                   Reference(s, CHOOSE r \in R : Cardinality({q \in R : q.catalog < r.catalog}) = i - 1)]

Answered(s, done) ==
  /\ searches' = searches \ {s}
  /\ IF done.answers = 0
     THEN answer' = <<>> /\ UNCHANGED held          \* 503
     ELSE /\ held' = Cut(Unexpired(Cut(Unexpired(held)) \o Listed(s, done.found)))
          /\ answer' = <<[owner |-> s.owner, id |-> s.id, started |-> s.started, at |-> time,
                          found |-> done.found, degraded |-> done.failures > 0,
                          missing |-> done.missing,
                          refs |-> Listed(s, done.found)]>>
  /\ UNCHANGED <<time, cache, cooling, mirror, admitted, failed, begun, faults>>

Finish(s) == Settled(s) /\ s.title = Titles /\ Answered(s, Added(s))

\* After 25 seconds the titles that remain are given up, and the one that is being searched.
Deadline(s) ==
  /\ ~Settled(s) /\ s.started < time
  /\ Answered(s, [s EXCEPT !.failures = @ + 1, !.missing = Catalogs])

-----------------------------------------------------------------------------
\* resolve and homeCandidate: a reference is used only by its owner, in its time.
Resolvable(o, r) == \E i \in DOMAIN held : held[i] = r /\ r.owner = o /\ r.expires > time

Tick ==
  /\ time < MaxTime /\ \A s \in searches : s.started = time
  /\ time' = time + 1 /\ answer' = <<>>
  /\ UNCHANGED <<cache, cooling, mirror, admitted, searches, held, failed, begun, faults>>

\* What follows a catalog's answer follows it at once.
Idle == \A s \in searches : ~Settled(s)

Next ==
  \/ Idle /\ \E o \in Owners : Search(o)
  \/ Idle /\ Tick
  \/ \E s \in searches :
       \/ Idle /\ \E c \in Catalogs, some \in BOOLEAN : Succeeds(s, c, some)
       \/ Idle /\ \E c \in Catalogs : FailsOver(s, c)
       \/ Idle /\ \E c \in Catalogs : Fails(s, c)
       \/ NextTitle(s)
       \/ Finish(s)
       \/ Deadline(s)

Spec == Init /\ [][Next]_vars

-----------------------------------------------------------------------------
TypeOK ==
  /\ time \in 0..MaxTime /\ begun \in 0..MaxSearches
  /\ Cardinality(searches) <= begun
  /\ Len(held) <= MaxCandidates
  /\ \A o \in Owners : Len(admitted[o]) <= MaxPerMinute

\* An answer does not hide that a catalog is missing: unless it says that it is degraded,
\* each catalog has a result of the minute before the search in it for each title.  No
\* release is listed as current that is older, nor any whose result is too old altogether.
NothingOldUnmarked ==
  answer # <<>> =>
    LET a == answer[1]
    IN /\ a.missing # {} => a.degraded
       /\ \A r \in a.found :
            /\ r.at > a.started - Stale
            /\ ~r.stale => r.at > a.started - Minute

\* A catalog that failed is asked again a minute later, however many searches went without
\* it since; with mirrors that all failed within the minute, in the next one.
CooldownEnds ==
  \A c \in Catalogs :
    cooling[c] <= Max({failed[c] + (IF c = Jacred THEN 2 * Minute ELSE Minute), 0})

OnlyForOwner ==
  \A i \in DOMAIN answer[1].refs, o \in Owners :
    Resolvable(o, answer[1].refs[i]) <=> o = answer[1].owner

\* A reference of an answer can be chosen at once, by the one who was answered and no one
\* else; it takes the place of older ones only, and only when there is no place left.
AnswersCanBeChosen ==
  answer' # answer /\ answer' # <<>> =>
    /\ OnlyForOwner'
    /\ \A i \in DOMAIN held :
         held[i].expires > time /\ (\A j \in DOMAIN held' : held'[j] # held[i]) =>
           /\ Len(held') = MaxCandidates
           /\ \A j \in 1..i : \A k \in DOMAIN held' : held'[k] # held[j]
=============================================================================

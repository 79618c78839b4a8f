----------------------------- MODULE ReleaseRanking -----------------------------
(***************************************************************************)
(* How the releases the catalogs found become the list a viewer chooses    *)
(* from: the server drops duplicates, scores each release by what its      *)
(* title claims, sorts, and shares a limited list among the trackers       *)
(* (torrent-candidate-ranking and the end of TorrentDiscoveryService's     *)
(* search); the page filters and sorts it again (candidateView).           *)
(*                                                                         *)
(* A release is a record of what was read from its title: tracker, title   *)
(* and size are numbers so that they have an order, and match is the share *)
(* of the wanted words, in percent.                                        *)
(***************************************************************************)
EXTENDS Integers, Sequences, FiniteSets, SequencesExt, FiniteSetsExt

CONSTANTS Inputs     \* searches: the releases found, what was wanted, the limit

VARIABLES input, shown

vars == <<input, shown>>

-----------------------------------------------------------------------------
\* dedupeReleases: the first of one key, or the first that is not stale.
Key(r) ==
  IF r.hash # 0 THEN <<"hash", r.tracker, r.hash>>
  ELSE IF r.guid # 0 THEN <<"guid", r.tracker, r.guid>>
  ELSE <<"attrs", r.tracker, r.title, r.size>>

Pick(s, S) == [k \in 1..Cardinality(S) |-> s[SetToSortSeq(S, <)[k]]]

Dedupe(s) ==
  LET Alike(i) == {j \in DOMAIN s : Key(s[j]) = Key(s[i])}
      Firsts == {i \in DOMAIN s : i = Min(Alike(i))}
      Better(i) == LET fresh == {j \in Alike(i) : ~s[j].stale}
                   IN IF fresh = {} THEN s[i] ELSE s[Min(fresh)]
  IN Pick([i \in DOMAIN s |-> Better(i)], Firsts)

-----------------------------------------------------------------------------
\* limitByTracker: each tracker its share, in order, then whatever is left of the places.
Smallest(S, n) == {i \in S : Cardinality({j \in S : j < i}) < n}

Quota(s, limit) == Max({1, limit \div Max({1, Cardinality({s[i].tracker : i \in DOMAIN s})})})

LimitByTracker(s, limit) ==
  LET InQuota == {i \in DOMAIN s :
                    Cardinality({j \in 1..(i - 1) : s[j].tracker = s[i].tracker})
                      < Quota(s, limit)}
      first == Smallest(InQuota, limit)
      rest == Smallest(DOMAIN s \ first, limit - Cardinality(first))
  IN Pick(s, first \cup rest)

-----------------------------------------------------------------------------
\* rankRelease: what a title says for and against being what was searched for.
Log2Cubed(n) == Max({k \in 0..15 : 2^k <= n * n * n} \cup {0})     \* floor(3 log2 n), to 15

Seeded(r) == IF r.seeders = <<>> THEN 0
             ELSE IF r.seeders[1] = 0 THEN -20 ELSE Log2Cubed(r.seeders[1] + 1)

When(condition, points) == IF condition THEN points ELSE 0

Title(r) == (70 * r.match + 50) \div 100 - When(r.match < 50, 75)

Year(r, wanted) ==
  IF wanted.year = 0 \/ r.years = {} THEN 0 ELSE IF wanted.year \in r.years THEN 18 ELSE -25

Part(r, wanted) ==
  When(wanted.kind = "movie" /\ r.season # 0, -35)
  + (IF wanted.season = 0 \/ r.season = 0 THEN 0 ELSE IF r.season = wanted.season THEN 14 ELSE -60)
  + (IF wanted.episode = 0 \/ r.episode = 0 THEN 0
     ELSE IF r.episode = wanted.episode THEN 12 ELSE -45)

Quality(r) == IF r.quality = "cam" THEN -40 ELSE When(r.quality # "none" \/ r.resolution # 0, 8)

Bulk(r, wanted) ==
  When(r.size > (IF wanted.kind = "movie" THEN 35 ELSE 100), -25) + When(r.size > 200, -100)

Score(r, wanted) ==
  Title(r) + Year(r, wanted) + Part(r, wanted) + Quality(r)
  + When(r.voice # 0, 8) + When(r.studio # 0, 3) + Seeded(r) + Bulk(r, wanted)
  + When(r.recent, 3) + When(r.suspicious, -50)

-----------------------------------------------------------------------------
\* The order of both lists: score, then tracker, title, size.
Before(a, b) ==
  \/ a.score > b.score
  \/ a.score = b.score /\ a.tracker < b.tracker
  \/ a.score = b.score /\ a.tracker = b.tracker /\ a.title < b.title
  \/ a.score = b.score /\ a.tracker = b.tracker /\ a.title = b.title /\ a.size < b.size

\* A stable sort.
Sorted(s, Earlier(_, _)) ==
  LET order == SetToSortSeq(DOMAIN s, LAMBDA i, j :
                 Earlier(s[i], s[j]) \/ (~Earlier(s[j], s[i]) /\ i < j))
  IN [k \in DOMAIN s |-> s[order[k]]]

Scored(r, wanted) ==
  [score |-> Score(r, wanted), tracker |-> r.tracker, title |-> r.title, size |-> r.size,
   seeders |-> r.seeders, voice |-> r.voice, studio |-> r.studio, key |-> Key(r)]

Ranked(q) ==
  LET releases == Dedupe(q.releases)
      scored == [i \in DOMAIN releases |-> Scored(releases[i], q.wanted)]
  IN Sorted(SelectSeq(scored, LAMBDA c : c.score > -50 /\ c.size <= 200), Before)

Candidates(q) == LimitByTracker(Ranked(q), q.limit)

-----------------------------------------------------------------------------
\* selectCandidates: the page's filters and order; a seeder count that is not known is last.
Voice(c) == IF c.voice # 0 THEN c.voice ELSE c.studio

Chosen(c, filters) ==
  /\ filters.tracker # 0 => c.tracker = filters.tracker
  /\ filters.voice # 0 => Voice(c) = filters.voice
  /\ filters.seeded => c.seeders # <<>> /\ c.seeders[1] > 0

MoreSeeders(a, b) ==
  \/ a.seeders # <<>> /\ (b.seeders = <<>> \/ a.seeders[1] > b.seeders[1])
  \/ a.seeders = b.seeders /\ Before(a, b)

SelectCandidates(s, sort, filters) ==
  LET chosen == SelectSeq(s, LAMBDA c : Chosen(c, filters))
  IN IF sort = "seeders" THEN Sorted(chosen, MoreSeeders) ELSE Sorted(chosen, Before)

-----------------------------------------------------------------------------
Init == input \in Inputs /\ shown = <<>>
Next ==
  /\ shown = <<>>
  /\ LET list == Candidates(input)
     IN shown' = <<[list |-> list,
                    page |-> SelectCandidates(list, input.sort, input.filters)]>>
  /\ UNCHANGED input

Spec == Init /\ [][Next]_vars

-----------------------------------------------------------------------------
List == shown[1].list
Of(s, tracker) == {i \in DOMAIN s : s[i].tracker = tracker}

\* The places are shared: none is left empty while a release waits, and a tracker gets its
\* share of them before another gets more than its own.
PlacesShared ==
  shown # <<>> =>
    LET all == Ranked(input)
        trackers == {all[i].tracker : i \in DOMAIN all}
    IN /\ Len(List) = Min({input.limit, Len(all)})
       /\ Cardinality(trackers) <= input.limit =>
            \A t \in trackers :
              Cardinality(Of(List, t)) >=
                Min({Cardinality(Of(all, t)), input.limit \div Cardinality(trackers)})

\* What two catalogs or two titles found twice is listed once, and under its fresh entry: a
\* stale one stands in only while no catalog has answered for it.
ListedOnceFresh ==
  shown # <<>> =>
  LET unique == Dedupe(input.releases)
  IN \A r \in ToSet(input.releases) :
       /\ Cardinality({i \in DOMAIN unique : Key(unique[i]) = Key(r)}) = 1
       /\ ~r.stale => \E i \in DOMAIN unique : Key(unique[i]) = Key(r) /\ ~unique[i].stale

\* The page's default order is the server's, so what the server ranked first is shown
\* first; with any order and filter it shows each chosen candidate once.
PageKeepsOrder ==
  shown # <<>> =>
    /\ input.sort = "best" =>
         shown[1].page = SelectSeq(List, LAMBDA c : Chosen(c, input.filters))
    /\ Len(shown[1].page) = Cardinality({i \in DOMAIN List : Chosen(List[i], input.filters)})
    /\ \A i, j \in DOMAIN shown[1].page :
         i < j /\ input.sort = "seeders" /\ shown[1].page[j].seeders # <<>> =>
           /\ shown[1].page[i].seeders # <<>>
           /\ shown[1].page[i].seeders[1] >= shown[1].page[j].seeders[1]

\* A title that contradicts what is wanted never ranks above the same release saying
\* nothing of it, and that one never above the release that confirms it.
EvidenceCounts ==
  shown # <<>> =>
  \A r \in ToSet(input.releases) :
    LET Of3(a, b, c) == Score(a, input.wanted) < Score(b, input.wanted)
                        /\ Score(b, input.wanted) < Score(c, input.wanted)
        w == input.wanted
    IN /\ Of3([r EXCEPT !.years = {w.year - 1}], [r EXCEPT !.years = {}],
              [r EXCEPT !.years = {w.year, w.year - 1}])
       /\ w.kind # "movie" =>
            /\ Of3([r EXCEPT !.season = w.season + 1], [r EXCEPT !.season = 0],
                   [r EXCEPT !.season = w.season])
            /\ Of3([r EXCEPT !.episode = w.episode + 1], [r EXCEPT !.episode = 0],
                   [r EXCEPT !.episode = w.episode])
=============================================================================

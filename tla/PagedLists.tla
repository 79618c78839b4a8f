------------------------------- MODULE PagedLists -------------------------------
(***************************************************************************)
(* Lists that a page loads piece by piece.  The reviews of a work are      *)
(* frozen in a snapshot, for their order changes with every edit and       *)
(* rating; the reviews, ratings and favourites of a profile continue after *)
(* the last entry by the time they were made.  The page keeps the pieces   *)
(* in a cache, asks for the next one, and loads all of them again when the *)
(* cache is invalidated.                                                   *)
(*                                                                         *)
(* Entries are numbered in the order they are made; a snapshot is found    *)
(* and read by two queries.                                                *)
(***************************************************************************)
EXTENDS Naturals, Sequences, FiniteSets, SequencesExt

CONSTANTS
  MaxEntries, \* bound on the entries ever made
  PageSize,
  Ttl,        \* life of a snapshot and of a cursor
  MaxTime,    \* bound on the clock
  MaxLoads,   \* bound on the lists begun, the failed ones included
  MaxActs     \* bound on the edits, removals and hidings together

Entries == 1 .. MaxEntries
Kinds == {"work", "profile", "own"}

VARIABLES
  entry,    \* what has been written: the place it has in the order, and whether it is public
  snapshot, \* the snapshots of the list of a work, in the order of their creation
  list,     \* the list on the page: its pieces and how it goes on
  fetch,    \* the request of the page
  kept,     \* entries that were public since the list began (history)
  clock, acts, loads

vars == <<entry, snapshot, list, fetch, kept, clock, acts, loads>>

Unmade == [state |-> "none", rank |-> 0]
End == [last |-> 0, snap |-> 0, expires |-> 0]
Closed == [kind |-> "none", pages |-> <<>>, next |-> End, cut |-> FALSE]
NoFetch == [step |-> "none"]

\* One type invariant: entries, snapshots and cursors are within their bounds.
TypeOK ==
  /\ entry \in [Entries -> [state : {"none", "public", "hidden", "removed"},
                            rank : 0 .. MaxEntries + MaxActs]]
  /\ \A i \in DOMAIN snapshot : /\ ToSet(snapshot[i].order) \subseteq Entries
                                /\ snapshot[i].expires \in Ttl .. MaxTime + Ttl
  /\ list.kind \in Kinds \cup {"none"} /\ list.next.snap \in 0 .. Len(snapshot)
  /\ fetch.step \in {"none", "asked", "found"}
  /\ kept \subseteq Entries /\ clock \in 0 .. MaxTime /\ acts \in 0 .. MaxActs
  /\ loads \in 0 .. MaxLoads

Made == {e \in Entries : entry[e].state # "none"}
Public == {e \in Entries : entry[e].state = "public"}

Init ==
  /\ entry = [e \in Entries |-> IF e < MaxEntries THEN [state |-> "public", rank |-> e] ELSE Unmade]
  /\ snapshot = <<>> /\ list = Closed /\ fetch = NoFetch
  /\ kept = {} /\ clock = 0 /\ acts = 0 /\ loads = 0

Newest == Cardinality(Made) + acts
Act == acts < MaxActs /\ acts' = acts + 1

Tick ==
  /\ clock < MaxTime /\ clock' = clock + 1
  /\ UNCHANGED <<entry, snapshot, list, fetch, kept, acts, loads>>

-----------------------------------------------------------------------------
(* What happens to the entries meanwhile. *)

Make ==
  /\ Cardinality(Made) < MaxEntries
  /\ entry' = [entry EXCEPT ![Cardinality(Made) + 1] = [state |-> "public", rank |-> Newest + 1]]
  /\ UNCHANGED <<snapshot, list, fetch, kept, clock, acts, loads>>

\* An edit or a rating moves a review in the orders of the list of a work.
Move(e) ==
  /\ Act /\ entry[e].state = "public"
  /\ entry' = [entry EXCEPT ![e].rank = Newest + 1]
  /\ UNCHANGED <<snapshot, list, fetch, kept, clock, loads>>

\* The page on which its author deletes a review drops it from every list in its cache.
Without(e, pages) == [i \in DOMAIN pages |-> SelectSeq(pages[i], LAMBDA x : x # e)]

\* The pieces as one list, each entry once.
Shown(pages) == ToSet(FlattenSeq(pages))

Delete(e, here) ==
  /\ Act /\ entry[e].state \in {"public", "hidden"}
  /\ entry' = [entry EXCEPT ![e].state = "removed"]
  /\ kept' = kept \ {e}
  /\ list' = IF here THEN [list EXCEPT !.pages = Without(e, @)] ELSE list
  /\ UNCHANGED <<snapshot, fetch, clock, loads>>

\* A moderator hides a review, or shows it again.
Moderate(e) ==
  /\ Act
  /\ \/ entry[e].state = "public" /\ entry' = [entry EXCEPT ![e].state = "hidden"]
     \/ entry[e].state = "hidden" /\ entry' = [entry EXCEPT ![e].state = "public"]
  /\ kept' = kept \ {e}
  /\ UNCHANGED <<snapshot, list, fetch, clock, loads>>

-----------------------------------------------------------------------------
(* The server. *)

\* createListSnapshot: the order of that moment; expired snapshots are deleted by the way.
InOrder == SetToSortSeq(Public, LAMBDA a, b : entry[a].rank > entry[b].rank)
Swept == [i \in DOMAIN snapshot |-> IF snapshot[i].expires < clock
                                    THEN [snapshot[i] EXCEPT !.order = <<>>, !.gone = TRUE]
                                    ELSE snapshot[i]]
CreateListSnapshot ==
  snapshot' = Append(Swept, [order |-> InOrder, expires |-> clock + Ttl, gone |-> FALSE])

\* findListSnapshot.
SnapshotLives(snap) == ~snapshot[snap].gone /\ snapshot[snap].expires > clock

\* The signed time of the cursor, then the snapshot it names.
Valid(cursor) == cursor.expires > clock /\ (cursor.snap # 0 => SnapshotLives(cursor.snap))

\* findPublicSnapshotPage: rows with their positions, from a position on.
SnapshotPage(snap, position) ==
  LET order == snapshot[snap].order IN
    SelectSeq([i \in DOMAIN order |-> <<i, order[i]>>],
              LAMBDA row : row[1] >= position /\ row[2] \in Public)

\* findOwnProfilePage shows the author what is hidden, too.
Listable(kind) == IF kind = "own" THEN {e \in Entries : entry[e].state \in {"public", "hidden"}}
                  ELSE Public

\* findPublicProfilePage, findRatingsPage, findPublicFavoritesPage: the newest first, after
\* the boundary.
KeysetPage(kind, boundary) ==
  LET rows == SetToSortSeq({e \in Listable(kind) : boundary = 0 \/ e < boundary},
                           LAMBDA a, b : a > b)
  IN [i \in DOMAIN rows |-> <<rows[i], rows[i]>>]

\* Cursors: the position of the first row of the next page in the snapshot, or the last row
\* of this page of a profile.
SnapshotCursor(snap, row) == [last |-> row[1], snap |-> snap, expires |-> snapshot[snap].expires]
ProfileCursor(row) == [last |-> row[1], snap |-> 0, expires |-> clock + Ttl]

\* One row more than the page tells whether there is a next one.
PageOf(rows, next) ==
  LET more == Len(rows) > PageSize
  IN [items |-> [i \in 1 .. (IF more THEN PageSize ELSE Len(rows)) |-> rows[i][2]],
      next |-> IF more THEN next ELSE End]

ListOfWork(cursor) ==
  LET rows == SnapshotPage(cursor.snap, cursor.last)
  IN PageOf(rows, SnapshotCursor(cursor.snap, rows[PageSize + 1]))
ListOfProfile(kind, cursor) ==
  LET rows == KeysetPage(kind, cursor.last) IN PageOf(rows, ProfileCursor(rows[PageSize]))

-----------------------------------------------------------------------------
(* The page. *)

\* all: the whole list is loaded anew, as many pages as there were.
Ask(kind, cursor, all, fresh) ==
  [step |-> "asked", kind |-> kind, cursor |-> cursor, all |-> all, fresh |-> fresh]

Open(kind) ==
  /\ list.kind = "none"
  /\ list' = [Closed EXCEPT !.kind = kind]
  /\ fetch' = Ask(kind, End, 1, <<>>)
  /\ UNCHANGED <<entry, snapshot, kept, clock, acts, loads>>

\* fetchNextPage({ cancelRefetch: false }): not while anything is loading.
FetchNextPage ==
  /\ fetch.step = "none" /\ list.pages # <<>> /\ list.next # End
  /\ fetch' = Ask(list.kind, list.next, 0, <<>>)
  /\ UNCHANGED <<entry, snapshot, list, kept, clock, acts, loads>>

\* An invalidation cancels what is loading.
Invalidate ==
  /\ loads < MaxLoads /\ list.pages # <<>>
  /\ fetch' = Ask(list.kind, End, Len(list.pages), <<>>)
  /\ UNCHANGED <<entry, snapshot, list, kept, clock, acts, loads>>

\* The first request begins a new list; kept starts over with it.
Find ==
  /\ fetch.step = "asked"
  /\ IF fetch.cursor = End
     THEN /\ loads < MaxLoads /\ loads' = loads + 1
          /\ kept' = Public
          /\ IF fetch.kind = "work"
             THEN /\ CreateListSnapshot
                  /\ fetch' = [fetch EXCEPT !.step = "found",
                                            !.cursor = [End EXCEPT !.snap = Len(snapshot) + 1]]
             ELSE fetch' = [fetch EXCEPT !.step = "found"] /\ UNCHANGED snapshot
     ELSE /\ Valid(fetch.cursor)
          /\ fetch' = [fetch EXCEPT !.step = "found"]
          /\ UNCHANGED <<snapshot, kept, loads>>
  /\ UNCHANGED <<entry, list, clock, acts>>

\* Another reader's first page deletes what has expired.
OthersSweep ==
  /\ \E i \in DOMAIN snapshot : ~snapshot[i].gone /\ snapshot[i].expires < clock
  /\ snapshot' = Swept
  /\ UNCHANGED <<entry, list, fetch, kept, clock, acts, loads>>

\* The answer: the next piece of the list, or one of the pieces that replace it.  cut: the
\* snapshot was deleted between its two queries.
Read ==
  /\ fetch.step = "found"
  /\ LET got == IF fetch.kind = "work" THEN ListOfWork(fetch.cursor)
                ELSE ListOfProfile(fetch.kind, fetch.cursor)
         fresh == Append(fetch.fresh, got.items)
         cut == fetch.cursor.snap # 0 /\ snapshot[fetch.cursor.snap].gone
     IN IF fetch.all = 0
        THEN /\ list' = [list EXCEPT !.pages = Append(@, got.items), !.next = got.next,
                                     !.cut = @ \/ cut]
             /\ fetch' = NoFetch
        ELSE IF Len(fresh) < fetch.all /\ got.next # End
        THEN /\ fetch' = Ask(fetch.kind, got.next, fetch.all, fresh)
             /\ UNCHANGED list
        ELSE /\ list' = [list EXCEPT !.pages = fresh, !.next = got.next, !.cut = cut]
             /\ fetch' = NoFetch
  /\ UNCHANGED <<entry, snapshot, kept, clock, acts, loads>>

\* An invalid cursor, or no answer: what was loaded stays.  A list that began anew and did not
\* get through keeps its old pieces.
Fails ==
  /\ fetch.step # "none"
  /\ fetch' = NoFetch
  /\ list' = IF list.pages = <<>> THEN Closed ELSE [list EXCEPT !.cut = @ \/ fetch.all > 0]
  /\ UNCHANGED <<entry, snapshot, kept, clock, acts, loads>>

Next ==
  \/ Tick \/ Make \/ FetchNextPage \/ Invalidate \/ Find \/ OthersSweep \/ Read \/ Fails
  \/ \E e \in Entries : Move(e) \/ Moderate(e) \/ \E here \in BOOLEAN : Delete(e, here)
  \/ \E kind \in Kinds : Open(kind)

Spec == Init /\ [][Next]_vars

-----------------------------------------------------------------------------
\* A list loaded to its end shows everything that has been public all the time, and nothing
\* twice, however its entries moved meanwhile and wherever the list was begun anew.  (It
\* ends early when the snapshot is deleted between its two queries; a list that could not
\* be loaded anew keeps pieces from before.)
ReachesAll ==
  /\ list.pages # <<>> /\ list.next = End /\ fetch.step = "none" /\ ~list.cut
     => kept \subseteq Shown(list.pages)
  /\ ~list.cut => Len(FlattenSeq(list.pages)) = Cardinality(Shown(list.pages))
=============================================================================

------------------------------- MODULE Community -------------------------------
(***************************************************************************)
(* Reviews, the comments on a review, the comments on a work and their     *)
(* replies, the reports about them and moderation.  One work is enough:    *)
(* everything is keyed by the work or by the review.  A tab is a browser   *)
(* tab of a signed-in user; it keeps the pages of one discussion that it   *)
(* loaded and edits what it shows.                                         *)
(*                                                                         *)
(* A transaction that creates a comment is two actions, for it holds a row *)
(* lock while the clock goes on; a tab reads before it asks for an edit.   *)
(***************************************************************************)
EXTENDS Naturals, Sequences, FiniteSets

CONSTANTS
  Tabs,       \* browser tabs
  Writers,    \* those where something is written
  Readers,    \* those where a discussion is read
  User,       \* tab -> its user
  Verified,   \* users with a verified email
  Admins,     \* users who moderate
  MaxItems,   \* bound on what is ever written
  MaxTime,    \* bound on the clock
  MaxActs,    \* bound on the edits, deletions, reports and hidings together
  PageSize    \* comments in a page

Users == {User[t] : t \in Tabs}

VARIABLES
  item,     \* reviews, review_comments and media_comments in the order of their commits
  creating, \* tab -> the creation whose transaction is open, or NoCreation
  view,     \* tab -> the discussion it has opened and what it has loaded of it
  edit,     \* tab -> the edit it has asked for and that passed the first check
  report,   \* user -> item -> "none", "open", "resolved" or "rejected"
  clock,
  acts      \* edits, deletions, reports and hidings so far (a bound)

vars == <<item, creating, view, edit, report, clock, acts>>

Ids == 1 .. Len(item)
Works == 0                        \* the parent of what is written about the work itself
NoCreation == [open |-> FALSE]
NoEdit == [item |-> 0, base |-> 0]
Closed == [of |-> "none", id |-> 0]
Forever == MaxTime + 1

TypeOK ==
  /\ \A i \in Ids : /\ item[i].kind \in {"review", "comment", "post"} /\ item[i].author \in Users
                    /\ item[i].parent \in 0 .. (i - 1) /\ item[i].at \in 0 .. MaxTime
                    /\ item[i].hidden \in BOOLEAN /\ item[i].deleted \in BOOLEAN
                    /\ item[i].version \in 0 .. MaxActs
  /\ \A t \in Tabs : /\ creating[t].open \in BOOLEAN
                     /\ edit[t].item \in 0 .. MaxItems
                     /\ view[t].of \in {"none", "comment", "post"}
  /\ report \in [Users -> [1 .. MaxItems -> {"none", "open", "resolved", "rejected"}]]
  /\ clock \in 0 .. MaxTime /\ acts \in 0 .. MaxActs

Init ==
  /\ item = <<>>
  /\ creating = [t \in Tabs |-> NoCreation]
  /\ view = [t \in Tabs |-> Closed]
  /\ edit = [t \in Tabs |-> NoEdit]
  /\ report = [u \in Users |-> [i \in 1 .. MaxItems |-> "none"]]
  /\ clock = 0 /\ acts = 0

Written(kind, author, parent, at) ==
  [kind |-> kind, author |-> author, parent |-> parent, at |-> at, hidden |-> FALSE,
   deleted |-> FALSE, version |-> 0, touched |-> FALSE]

Act == acts < MaxActs /\ acts' = acts + 1

Live(i) == ~item[i].hidden /\ ~item[i].deleted

\* publicCommentCondition: a comment needs its review; a reply needs its root published,
\* and a deleted root stays in place while it has a visible reply.
Public(i) ==
  CASE item[i].kind = "review"  -> Live(i)
    [] item[i].kind = "comment" -> Live(i) /\ Live(item[i].parent)
    [] item[i].kind = "post"    ->
         /\ ~item[i].hidden
         /\ item[i].parent # 0 => ~item[item[i].parent].hidden
         /\ item[i].deleted => \E j \in Ids : item[j].kind = "post" /\ item[j].parent = i /\ Live(j)

Tick ==
  /\ clock < MaxTime
  /\ clock' = clock + 1
  /\ UNCHANGED <<item, creating, view, edit, report, acts>>

-----------------------------------------------------------------------------
(* Writing. *)

\* One active review of a user about a work (reviews_user_id_media_ref_active_unique).
CreateReview(t) ==
  /\ User[t] \in Verified /\ Len(item) < MaxItems
  /\ ~\E i \in Ids : item[i].kind = "review" /\ item[i].author = User[t] /\ ~item[i].deleted
  /\ item' = Append(item, Written("review", User[t], 0, clock))
  /\ UNCHANGED <<creating, view, edit, report, clock, acts>>

\* Mutant: no lock.
NeverLocked(kind, id) == TRUE

\* The transaction of a comment locks the review, or the work, before it reads the clock.
Unlocked(kind, id) == \A t \in Tabs : creating[t].open => creating[t].kind # kind \/ creating[t].lock # id

BeginComment(t, r) ==
  /\ ~creating[t].open /\ User[t] \in Verified
  /\ item[r].kind = "review" /\ Live(r)
  /\ Unlocked("comment", r)
  /\ creating' = [creating EXCEPT ![t] = [open |-> TRUE, kind |-> "comment", lock |-> r,
                                          parent |-> r, at |-> clock]]
  /\ UNCHANGED <<item, view, edit, report, clock, acts>>

\* A reply to a reply belongs to the root; what it answers must be live, and is locked too.
BeginMediaComment(t, p) ==
  /\ ~creating[t].open /\ User[t] \in Verified
  /\ p # 0 => item[p].kind = "post" /\ Live(p)
  /\ Unlocked("post", Works)
  /\ creating' = [creating EXCEPT ![t] =
                    [open |-> TRUE, kind |-> "post", lock |-> Works, at |-> clock,
                     parent |-> IF p = 0 \/ item[p].parent = 0 THEN p ELSE item[p].parent]]
  /\ UNCHANGED <<item, view, edit, report, clock, acts>>

\* The answer is added to the last page of the discussion that the tab shows.
Appended(t, parent) ==
  IF \/ view[t].of # creating[t].kind
     \/ view[t].of = "comment" /\ view[t].id # parent
  THEN view ELSE [view EXCEPT ![t].seen = @ \cup {Len(item) + 1}]

\* The insert commits, a millisecond of the clock later at least.
CommitComment(t) ==
  /\ creating[t].open /\ clock > creating[t].at /\ Len(item) < MaxItems
  /\ item' = Append(item, Written(creating[t].kind, User[t], creating[t].parent, creating[t].at))
  /\ view' = Appended(t, creating[t].parent)
  /\ creating' = [creating EXCEPT ![t] = NoCreation]
  /\ UNCHANGED <<edit, report, clock, acts>>

\* A row that an open transaction has locked: the review or the comment answered.
RowFree(i) == \A t \in Tabs : creating[t].open => creating[t].lock # i /\ creating[t].parent # i

\* update, first the check of the owner and of the version the tab shows...
RequestEdit(t, i, base) ==
  /\ edit[t] = NoEdit
  /\ item[i].author = User[t] /\ ~item[i].deleted
  /\ base = item[i].version
  /\ edit' = [edit EXCEPT ![t] = [item |-> i, base |-> base]]
  /\ Act
  /\ UNCHANGED <<item, creating, view, report, clock>>

\* Mutant: only the first check.
MatchesAny(t) == ~item[edit[t].item].deleted

\* ... then an update that matches this version only: the later of two edits is a conflict.
Matches(t) ==
  LET i == edit[t].item IN ~item[i].deleted /\ item[i].version = edit[t].base
Update(t) ==
  /\ edit[t] # NoEdit
  /\ RowFree(edit[t].item)
  /\ item' = IF Matches(t) THEN [item EXCEPT ![edit[t].item].version = @ + 1] ELSE item
  /\ edit' = [edit EXCEPT ![t] = NoEdit]
  /\ UNCHANGED <<creating, view, report, clock, acts>>

\* requireOwned, softDelete; the tab drops it, or keeps the place of a root with replies.
SoftDelete(t, i) ==
  /\ item[i].author = User[t] /\ RowFree(i)
  /\ item' = [item EXCEPT ![i].deleted = TRUE, ![i].touched = TRUE]
  /\ Act
  /\ UNCHANGED <<creating, view, edit, report, clock>>

-----------------------------------------------------------------------------
(* Reports and moderation. *)

\* The target is locked and must be public to the reporter; one open report a user and target.
CreateReport(t, i) ==
  /\ User[t] \in Verified /\ item[i].author # User[t]
  /\ Live(i) /\ Public(i) /\ RowFree(i)
  /\ report[User[t]][i] # "open"
  /\ report' = [report EXCEPT ![User[t]][i] = "open"]
  /\ Act
  /\ UNCHANGED <<item, creating, view, edit, clock>>

DecideReport(t, u, i, status) ==
  /\ User[t] \in Admins /\ report[u][i] = "open"
  /\ report' = [report EXCEPT ![u][i] = status]
  /\ UNCHANGED <<item, creating, view, edit, clock, acts>>

\* setReviewVisibility, setCommentVisibility, setMediaCommentVisibility.
SetVisibility(t, i, hidden) ==
  /\ User[t] \in Admins /\ ~item[i].deleted /\ item[i].hidden # hidden /\ RowFree(i)
  /\ item' = [item EXCEPT ![i].hidden = hidden, ![i].touched = TRUE]
  /\ IF hidden THEN Act ELSE UNCHANGED acts
  /\ UNCHANGED <<creating, view, edit, report, clock>>

-----------------------------------------------------------------------------
(* Reading. *)

\* The comments of a discussion that are public, and those after one time up to another.
Discussion(of, id) ==
  {i \in Ids : item[i].kind = of /\ Public(i) /\ (of = "comment" => item[i].parent = id)}
Between(of, id, after, ceiling) ==
  {i \in Discussion(of, id) : item[i].at >= after /\ item[i].at <= ceiling}
Latest(of, id) ==
  LET times == {item[i].at : i \in Discussion(of, id)}
  IN  CHOOSE m \in times : \A n \in times : n <= m
FirstOf(rows) ==
  {i \in rows : Cardinality({j \in rows : item[j].at < item[i].at}) < PageSize}

\* The cursor of an answer: the boundary of its last row, or the ceiling once all is read.
Cursor(of, rows, page, after, ceiling) ==
  LET last == CHOOSE i \in page : \A j \in page : item[j].at <= item[i].at
  IN  CASE rows # page -> item[last].at + 1
        [] of = "comment" /\ rows = page -> ceiling + 1
        [] of = "post" /\ rows = page -> IF rows = {} THEN after ELSE item[last].at + 1

\* A page: what it adds to the tab, and where the next one begins.
Load(t, of, id, after, ceiling) ==
  LET rows == Between(of, id, after, ceiling)
      page == FirstOf(rows)
  IN  view' = [view EXCEPT ![t] =
        [of |-> of, id |-> id, ceiling |-> ceiling,
         seen |-> (IF view[t] = Closed THEN {} ELSE view[t].seen) \cup page,
         more |-> rows # page, after |-> Cursor(of, rows, page, after, ceiling)]]

\* The first page of the comments of a review fixes the ceiling of those that follow; the
\* pages of the comments on a work have none.
OpenReview(t, r) ==
  /\ view[t] = Closed /\ item[r].kind = "review" /\ Live(r)
  /\ Discussion("comment", r) # {}
  /\ Load(t, "comment", r, 0, Latest("comment", r))
  /\ UNCHANGED <<item, creating, edit, report, clock, acts>>

OpenWork(t) ==
  /\ view[t] = Closed
  /\ Load(t, "post", Works, 0, Forever)
  /\ UNCHANGED <<item, creating, edit, report, clock, acts>>

NextPage(t) ==
  /\ view[t] # Closed /\ view[t].more
  /\ view[t].of = "comment" => Live(view[t].id)
  /\ Load(t, view[t].of, view[t].id, view[t].after, view[t].ceiling)
  /\ UNCHANGED <<item, creating, edit, report, clock, acts>>

\* The "newer" cursor of the last answer: what came after its ceiling, up to the latest now.
Newer(t) ==
  /\ view[t] # Closed /\ view[t].of = "comment" /\ ~view[t].more /\ Live(view[t].id)
  /\ Discussion("comment", view[t].id) # {}
  /\ LET latest == Latest("comment", view[t].id) IN
       IF latest < view[t].after
       THEN view' = [view EXCEPT ![t].after = latest + 1, ![t].ceiling = latest]
       ELSE Load(t, "comment", view[t].id, view[t].after, latest)
  /\ UNCHANGED <<item, creating, edit, report, clock, acts>>

-----------------------------------------------------------------------------
Next ==
  \/ Tick
  \/ \E t \in Writers :
       \/ CreateReview(t) \/ CommitComment(t) \/ BeginMediaComment(t, 0)
       \/ \E i \in Ids : BeginComment(t, i) \/ BeginMediaComment(t, i)
  \/ \E t \in Readers : \/ OpenWork(t) \/ NextPage(t) \/ Newer(t)
                        \/ \E i \in Ids : OpenReview(t, i)
  \/ \E t \in Tabs :
       \/ Update(t)
       \/ \E i \in Ids :
            \/ RequestEdit(t, i, item[i].version) \/ SoftDelete(t, i) \/ CreateReport(t, i)
            \/ \E u \in Users, status \in {"resolved", "rejected"} : DecideReport(t, u, i, status)
            \/ \E hidden \in BOOLEAN : SetVisibility(t, i, hidden)

Spec == Init /\ [][Next]_vars

-----------------------------------------------------------------------------
(* Properties. *)

\* A tab that reads on from where it stopped never misses a comment: every one before its
\* cursor that has always been published has reached it (creations take their time under
\* the lock of the review or of the work, so that they commit in the order of their times).
ReadersMissNothing ==
  \A t \in Tabs : view[t] # Closed =>
    \A i \in Discussion(view[t].of, view[t].id) :
      item[i].at < view[t].after /\ ~item[i].touched
        /\ ~item[IF item[i].parent = 0 THEN i ELSE item[i].parent].touched => i \in view[t].seen

\* An edit replaces only the text its author was shown, whatever two tabs do at once
\* (the version in the where of the update; the first check alone is not enough).
EditsAreBased ==
  \A i \in Ids : item'[i].version # item[i].version =>
    \E t \in Tabs : /\ edit[t].item = i /\ edit[t].base = item[i].version
                    /\ edit'[t] = NoEdit /\ ~item[i].deleted
NoLostEdit == [][EditsAreBased]_vars
=============================================================================

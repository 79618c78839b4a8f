----------------------------- MODULE DiscussionPage -----------------------------
(***************************************************************************)
(* A tab that shows a discussion, of a review or of a work, and writes in  *)
(* it: what it has loaded is changed in place when the server confirms     *)
(* what the user did, while pages are loaded and others write, edit,       *)
(* delete and hide.                                                        *)
(*                                                                         *)
(* A comment is its place in row; a text is the number of its typing.      *)
(***************************************************************************)
EXTENDS Naturals, Sequences, FiniteSets, SequencesExt

CONSTANTS
  PageSize, \* comments of a page
  MaxRows,  \* bound on the comments ever written
  MaxTexts, \* bound on the texts typed
  MaxActs,  \* bound on the edits, deletions and hidings
  MaxFaults \* bound on the requests that fail

VARIABLES
  of,       \* what is discussed: a review ("review") or a work ("work")
  row,      \* the comments
  live,     \* the review, or the work, is there
  data,     \* what the tab has loaded, once it has: <<pages>>
  fetch,    \* its request for pages
  draft,    \* the text in its form
  creating, \* creations under way
  pending,  \* the text whose creation the form waits for, or 0
  form,     \* the comment being edited in its card, and the version it was opened with
  op,       \* operations under way on the comments
  told,     \* what the tab was last told of each comment it changed (history)
  crossed,  \* comments it was told of while pages, or another change of theirs, were under way
            \* (history)
  unsure,   \* texts whose creation failed, or whose answer was lost (history)
  typed, acts, faults

vars == <<of, row, live, data, fetch, draft, creating, pending, form, op, told, crossed,
          unsure, typed, acts, faults>>

Ids == 1 .. Len(row)
NoFetch == [step |-> "none", kind |-> "none"]
NoForm == [id |-> 0, base |-> 0]
\* What the tab was told of a comment: nothing, that it is gone, or its version.
Untold == 0
Gone == 1
Known(v) == v + 2

\* One type invariant: everything the tab refers to was written, requests are in a step.
TypeOK ==
  /\ of \in {"review", "work"} /\ live \in BOOLEAN
  /\ \A i \in Ids : /\ row[i].parent \in 0 .. i - 1 /\ row[i].version \in 0 .. MaxActs
                    /\ row[i].text \in 0 .. MaxTexts
                    /\ {row[i].mine, row[i].deleted, row[i].hidden} \subseteq BOOLEAN
  /\ data # <<>> => DOMAIN data[1].shown \subseteq Ids /\ data[1].after \in 0 .. Len(row)
  /\ fetch.step \in {"none", "asked", "read"}
  /\ {draft, pending} \subseteq 0 .. MaxTexts
  /\ \A c \in creating : c.text \in 1 .. MaxTexts /\ c.step \in {"sent", "done"}
  /\ form.id \in 0 .. Len(row)
  /\ \A o \in op : o.id \in Ids /\ o.step \in {"sent", "done", "gone", "conflict"}
  /\ told \in [1 .. MaxRows -> 0 .. MaxActs + 2] /\ crossed \subseteq Ids /\ unsure \subseteq 1 .. MaxTexts
  /\ typed \in 0 .. MaxTexts /\ acts \in 0 .. MaxActs /\ faults \in 0 .. MaxFaults

Row(mine, parent, text) ==
  [mine |-> mine, parent |-> parent, text |-> text, version |-> 0, deleted |-> FALSE,
   hidden |-> FALSE]

\* A discussion that somebody else may have begun.
Init ==
  /\ of \in {"review", "work"} /\ live = TRUE
  /\ row \in {<<>>, <<Row(FALSE, 0, 0)>>}
  /\ data = <<>> /\ fetch = NoFetch
  /\ draft = 0 /\ creating = {} /\ pending = 0 /\ form = NoForm /\ op = {}
  /\ told = [i \in 1 .. MaxRows |-> Untold] /\ crossed = {}
  /\ unsure = {} /\ typed = 0 /\ acts = 0 /\ faults = 0

Act == acts < MaxActs /\ acts' = acts + 1

\* publicCommentCondition: what anyone is shown.
Open(i) == ~row[i].deleted /\ ~row[i].hidden
Public(i) ==
  /\ ~row[i].hidden
  /\ row[i].parent # 0 => ~row[row[i].parent].hidden
  /\ row[i].deleted => \E j \in Ids : row[j].parent = i /\ Open(j)

Fetching == fetch # NoFetch
\* What a page shows of a comment: its version, and whether only its place is left.
Shown(i) == [version |-> row[i].version, kept |-> row[i].deleted]

-----------------------------------------------------------------------------
(* Loading. *)

\* At first, after an error, and when the tab is visited or connected again.
Load ==
  /\ ~Fetching
  /\ fetch' = [step |-> "asked", kind |-> "all",
               pages |-> IF data = <<>> THEN 1 ELSE data[1].pages, mends |-> crossed]
  /\ UNCHANGED <<of, row, live, data, draft, creating, pending, form, op, told, crossed, unsure,
                 typed, acts, faults>>

\* The next page, after those there are.  The review's button takes the place of a reload,
\* the work's waits for it.
LoadMore ==
  /\ data # <<>> /\ data[1].more
  /\ ~Fetching \/ (of = "review" /\ fetch.kind = "all")
  /\ fetch' = [step |-> "asked", kind |-> "next", old |-> data[1], mends |-> {}]
  /\ UNCHANGED <<of, row, live, data, draft, creating, pending, form, op, told, crossed, unsure,
                 typed, acts, faults>>

After(a, ceiling) == {i \in Ids : i > a /\ i <= ceiling /\ Public(i)}
First(n, ids) == {i \in ids : Cardinality({j \in ids : j < i}) < n}
Largest(ids, none) == IF ids = {} THEN none ELSE CHOOSE i \in ids : \A j \in ids : j <= i

Pages(shown, rest, after, ceiling, n) ==
  [shown |-> shown, after |-> after, more |-> rest # {}, ceiling |-> ceiling, pages |-> n]

\* list: a review's pages end at the comment that was the latest for the first of them.
Ceiling == IF of = "review" THEN Largest({i \in Ids : Public(i)}, 0) ELSE MaxRows

Read(n) ==
  LET all == After(0, Ceiling)
      ids == First(n * PageSize, all)
      used == Cardinality({k \in 1 .. n : Cardinality(ids) > (k - 1) * PageSize})
  IN  Pages([i \in ids |-> Shown(i)], all \ ids, Largest(ids, 0), Ceiling, IF used = 0 THEN 1 ELSE used)

\* A comment that is there already is shown as it was read last.
ReadNext(old) ==
  LET all == After(old.after, old.ceiling)
      ids == First(PageSize, all)
  IN  Pages([i \in DOMAIN old.shown \cup ids |-> IF i \in ids THEN Shown(i) ELSE old.shown[i]],
            all \ ids, Largest(ids, old.after), old.ceiling, old.pages + 1)

Serve ==
  /\ fetch.step = "asked" /\ live
  /\ fetch' = [step |-> "read", kind |-> fetch.kind, mends |-> fetch.mends,
               data |-> IF fetch.kind = "all" THEN Read(fetch.pages) ELSE ReadNext(fetch.old)]
  /\ UNCHANGED <<of, row, live, data, draft, creating, pending, form, op, told, crossed, unsure,
                 typed, acts, faults>>

\* The answer takes the place of what there was; a card that is no longer shown closes.
Loaded ==
  /\ fetch.step = "read"
  /\ data' = <<fetch.data>> /\ fetch' = NoFetch
  /\ form' = IF form.id \in DOMAIN fetch.data.shown THEN form ELSE NoForm
  /\ crossed' = crossed \ fetch.mends
  /\ UNCHANGED <<of, row, live, draft, creating, pending, op, told, unsure, typed, acts, faults>>

\* What is shown stays.
LoadFails ==
  /\ fetch.step = "asked"
  /\ ~live \/ faults < MaxFaults
  /\ faults' = IF live THEN faults + 1 ELSE faults
  /\ fetch' = NoFetch
  /\ UNCHANGED <<of, row, live, data, draft, creating, pending, form, op, told, crossed, unsure,
                 typed, acts>>

-----------------------------------------------------------------------------
(* Writing. *)

\* The form of a work forgets the creation it waits for with every change of its text.
Type ==
  /\ typed < MaxTexts /\ typed' = typed + 1 /\ draft' = typed + 1
  /\ pending' = IF of = "work" THEN 0 ELSE pending
  /\ UNCHANGED <<of, row, live, data, fetch, creating, form, op, told, crossed, unsure, acts, faults>>

CanSubmit == draft # 0 /\ pending = 0
Submit ==
  /\ CanSubmit /\ Len(row) + Cardinality(creating) < MaxRows
  /\ pending' = draft
  /\ creating' = creating \cup {[text |-> draft, step |-> "sent", id |-> 0,
                                         nth |-> Cardinality({c \in creating : c.text = draft})]}
  /\ UNCHANGED <<of, row, live, data, fetch, draft, form, op, told, crossed, unsure, typed, acts, faults>>

Create(c) ==
  /\ c.step = "sent" /\ live /\ Len(row) < MaxRows
  /\ row' = Append(row, Row(TRUE, 0, c.text))
  /\ creating' = (creating \ {c}) \cup {[c EXCEPT !.step = "done", !.id = Len(row) + 1]}
  /\ UNCHANGED <<of, live, data, fetch, draft, pending, form, op, told, crossed, unsure, typed, acts,
                 faults>>

\* The tab is told of a comment: what is loaded meanwhile may be older.
Tell(i, what, others) ==
  /\ told' = [told EXCEPT ![i] = what]
  /\ crossed' = IF Fetching \/ \E o \in others : o.id = i THEN crossed \cup {i} ELSE crossed
  /\ fetch' = IF Fetching THEN [fetch EXCEPT !.mends = @ \ {i}] ELSE fetch

\* The new comment joins the last page there is.
Put(i, v) == IF data = <<>> THEN data
             ELSE <<[data[1] EXCEPT !.shown = [j \in DOMAIN @ \cup {i} |-> IF j = i THEN v ELSE @[j]]]>>

\* The form is emptied, whatever has been typed there in the meantime.
Created(c) ==
  /\ c.step = "done"
  /\ data' = Put(c.id, [version |-> 0, kept |-> FALSE]) /\ Tell(c.id, Known(0), op)
  /\ creating' = creating \ {c} /\ draft' = 0
  /\ pending' = IF pending = c.text THEN 0 ELSE pending
  /\ UNCHANGED <<of, row, live, form, op, unsure, typed, acts, faults>>

\* Refused, not answered, or answered to nobody: the text stays in the form.
CreateFails(c) ==
  /\ live => faults < MaxFaults
  /\ faults' = IF live THEN faults + 1 ELSE faults
  /\ creating' = creating \ {c} /\ unsure' = unsure \cup {c.text}
  /\ pending' = IF pending = c.text THEN 0 ELSE pending
  /\ UNCHANGED <<of, row, live, data, fetch, draft, form, op, told, crossed, typed, acts>>

-----------------------------------------------------------------------------
(* The card of a comment. *)

\* viewerActions: the author edits and deletes, a moderator hides, anyone answers.
Card(i) == data # <<>> /\ i \in DOMAIN data[1].shown /\ ~data[1].shown[i].kept
Busy(i, kind) == \E o \in op : o.id = i /\ o.kind = kind

Edit(i) ==
  /\ Card(i) /\ row[i].mine /\ form = NoForm
  /\ form' = [id |-> i, base |-> data[1].shown[i].version]
  /\ UNCHANGED <<of, row, live, data, fetch, draft, creating, pending, op, told, crossed, unsure, typed,
                 acts, faults>>

Send(i, kind, base) ==
  /\ ~Busy(i, kind) /\ Act
  /\ op' = op \cup {[id |-> i, kind |-> kind, step |-> "sent", base |-> base,
                     version |-> 0, opened |-> form.base]}
  /\ UNCHANGED <<of, row, live, data, fetch, draft, creating, pending, form, told, crossed, unsure, typed,
                 faults>>

\* An edit expects the version its card shows when it is sent.
Save == form # NoForm /\ Card(form.id) /\ Send(form.id, "edit", data[1].shown[form.id].version)
ConfirmDelete(i) == Card(i) /\ row[i].mine /\ Send(i, "delete", 0)
Hide(i) == Card(i) /\ Send(i, "hide", 0)
Reply(i) == of = "work" /\ Card(i) /\ Len(row) < MaxRows /\ Send(i, "reply", 0)

To(o, step) == op' = (op \ {o}) \cup {[o EXCEPT !.step = step]}

Expects(o) == row[o.id].version = o.base
Update(o) ==
  /\ o.step = "sent" /\ o.kind = "edit"
  /\ IF row[o.id].deleted THEN To(o, "gone") /\ UNCHANGED row
     ELSE IF ~Expects(o) THEN To(o, "conflict") /\ UNCHANGED row
     ELSE /\ row' = [row EXCEPT ![o.id].version = @ + 1]
          /\ op' = (op \ {o}) \cup {[o EXCEPT !.step = "done", !.version = row[o.id].version + 1]}
  /\ UNCHANGED <<of, live, data, fetch, draft, creating, pending, form, told, crossed, unsure, typed,
                 acts, faults>>

\* Deleting what is deleted succeeds; hiding it does not.
Remove1(o) ==
  /\ o.step = "sent" /\ o.kind \in {"delete", "hide"}
  /\ IF o.kind = "hide" /\ row[o.id].deleted THEN To(o, "gone") /\ UNCHANGED row
     ELSE /\ row' = IF o.kind = "delete" THEN [row EXCEPT ![o.id].deleted = TRUE]
                    ELSE [row EXCEPT ![o.id].hidden = TRUE]
          /\ To(o, "done")
  /\ UNCHANGED <<of, live, data, fetch, draft, creating, pending, form, told, crossed, unsure, typed,
                 acts, faults>>

\* A reply belongs to the root of the thread.
Root(i) == IF row[i].parent = 0 THEN i ELSE row[i].parent
Answer(o) ==
  /\ o.step = "sent" /\ o.kind = "reply"
  /\ IF ~Open(o.id) THEN To(o, "gone") /\ UNCHANGED row
     ELSE /\ Len(row) < MaxRows
          /\ row' = Append(row, Row(TRUE, Root(o.id), 0))
          /\ op' = (op \ {o}) \cup {[o EXCEPT !.step = "done", !.version = Len(row) + 1]}
  /\ UNCHANGED <<of, live, data, fetch, draft, creating, pending, form, told, crossed, unsure, typed,
                 acts, faults>>

Elsewhere == UNCHANGED <<of, row, live, draft, creating, pending, unsure, typed, acts>>

\* A version replaces the one shown, and closes the form; a reply joins the last page.
Changed(o) ==
  /\ o.step = "done" /\ o.kind \in {"edit", "reply"}
  /\ LET i == IF o.kind = "edit" THEN o.id ELSE o.version
         v == IF o.kind = "edit" THEN o.version ELSE 0 IN
     /\ data' = IF o.kind = "reply" \/ (data # <<>> /\ i \in DOMAIN data[1].shown)
                THEN Put(i, [version |-> v, kept |-> FALSE]) ELSE data
     /\ Tell(i, Known(v), op \ {o})
  /\ form' = IF o.kind = "edit" /\ form.id = o.id THEN NoForm ELSE form
  /\ op' = op \ {o}
  /\ UNCHANGED faults /\ Elsewhere

\* Of a root that shows replies its place is kept.
KeepsPlace(i) ==
  of = "work" /\ row[i].parent = 0 /\ \E j \in DOMAIN data[1].shown : row[j].parent = i

Without(i) ==
  IF data = <<>> \/ i \notin DOMAIN data[1].shown THEN data
  ELSE IF KeepsPlace(i) THEN Put(i, [version |-> data[1].shown[i].version, kept |-> TRUE])
  ELSE <<[data[1] EXCEPT !.shown = [j \in DOMAIN @ \ {i} |-> @[j]]]>>

Removed(o) ==
  /\ \/ o.step = "done" /\ o.kind \in {"delete", "hide"}
     \/ o.step = "gone" /\ of = "review" /\ o.kind = "edit"
  /\ data' = Without(o.id) /\ Tell(o.id, Gone, op \ {o})
  /\ form' = IF form.id = o.id THEN NoForm ELSE form
  /\ op' = op \ {o}
  /\ UNCHANGED faults /\ Elsewhere

\* A refusal is shown in the card, where the text stays.
OpFails(o) ==
  /\ \/ o.step = "conflict"
     \/ o.step = "gone" /\ ~(of = "review" /\ o.kind = "edit")
     \/ o.step \in {"sent", "done"} /\ faults < MaxFaults
  /\ faults' = IF o.step \in {"sent", "done"} THEN faults + 1 ELSE faults
  /\ op' = op \ {o}
  /\ UNCHANGED <<data, form, told, crossed, fetch>> /\ Elsewhere

-----------------------------------------------------------------------------
(* Others, and the user's other tabs. *)

OthersWrite ==
  /\ live /\ Len(row) < MaxRows /\ Act
  /\ row' = Append(row, Row(FALSE, 0, 0))
  /\ UNCHANGED <<of, live, data, fetch, draft, creating, pending, form, op, told, crossed, unsure, typed,
                 faults>>

OthersChange(i) ==
  /\ ~row[i].deleted /\ Act
  /\ row' \in {[row EXCEPT ![i].version = @ + 1], [row EXCEPT ![i].deleted = TRUE],
               [row EXCEPT ![i].hidden = TRUE]}
  /\ UNCHANGED <<of, live, data, fetch, draft, creating, pending, form, op, told, crossed, unsure, typed,
                 faults>>

\* The review is deleted, or hidden, in another tab.
ReviewGone ==
  /\ of = "review" /\ live /\ Act /\ live' = FALSE
  /\ UNCHANGED <<of, row, data, fetch, draft, creating, pending, form, op, told, crossed, unsure, typed,
                 faults>>

Next ==
  \/ Load \/ LoadMore \/ Serve \/ Loaded \/ LoadFails \/ Type \/ Submit \/ Save
  \/ OthersWrite \/ ReviewGone
  \/ \E c \in creating : Create(c) \/ Created(c) \/ CreateFails(c)
  \/ \E o \in op : \/ Update(o) \/ Remove1(o) \/ Answer(o)
                   \/ Changed(o) \/ Removed(o) \/ OpFails(o)
  \/ \E i \in Ids : Edit(i) \/ ConfirmDelete(i) \/ Hide(i) \/ Reply(i) \/ OthersChange(i)

Spec == Init /\ [][Next]_vars

-----------------------------------------------------------------------------
(* Properties. *)

\* What the server confirmed is what the tab shows from then on, whatever else it loads: what
\* was written is there, in its version or a later one, and what was removed is not.  (Pages
\* that were being loaded in that moment, and two changes of one comment at once, may undo it
\* until the discussion is loaded again.)
ToldIsShown ==
  data # <<>> =>
    \A i \in Ids \ crossed :
      /\ told[i] = Gone /\ i \in DOMAIN data[1].shown => data[1].shown[i].kept
      /\ told[i] > Gone /\ Public(i) =>
           \/ i \in DOMAIN data[1].shown /\ Known(data[1].shown[i].version) >= told[i]
           \/ data[1].more /\ i > data[1].after

\* A text that is sent becomes one comment, unless its creation failed and it was sent again.
SentOnce ==
  \A i, j \in Ids : row[i].mine /\ row[i].text # 0 /\ row[i].text = row[j].text /\ i # j =>
    row[i].text \in unsure

\* An edit replaces the version its card showed when it was sent.
EditsAreSeen ==
  \A i \in Ids : row'[i].version # row[i].version =>
    acts' > acts \/ \E o \in op : o.id = i /\ o.base = row[i].version

\* What is typed stays in the form until a comment written there is confirmed.
DraftKept ==
  draft' # draft => \/ draft' = typed' /\ typed' > typed
                    \/ \E c \in creating \ creating' : c.step = "done"
=================================================================================

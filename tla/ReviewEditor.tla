------------------------------ MODULE ReviewEditor ------------------------------
(***************************************************************************)
(* The form in which a user writes the one review of a work, in several    *)
(* tabs.  A form starts from the review its tab has loaded, keeps what the *)
(* user types while that is loaded again, saves against the version it     *)
(* started from, and adopts a review that another tab created.             *)
(*                                                                         *)
(* A text is the number of its typing; zero is an empty form.              *)
(***************************************************************************)
EXTENDS Naturals, FiniteSets

CONSTANTS
  Tabs,
  MaxTexts,  \* bound on the texts typed
  MaxSends,  \* bound on the saves and deletions
  MaxReloads \* bound on the reloads that are not part of a save or a deletion

Texts == 0 .. MaxTexts

VARIABLES
  review, \* the active review: its identity, version and text
  cached, \* what each tab has loaded
  fetch,  \* its request
  form,   \* what the form shows and what it will be saved against
  op,     \* the save or deletion under way
  seen,   \* texts each form has shown (history)
  under,  \* texts that were adopted under an unsaved draft (history)
  typed, sends, reloads, reviews

vars == <<review, cached, fetch, form, op, seen, under, typed, sends, reloads, reviews>>

NoReview == [id |-> 0, version |-> 0, text |-> 0]
Review == [id : 0 .. MaxSends + 1, version : 0 .. MaxSends + 1, text : Texts]
Unloaded == [state |-> "pending"]
Closed == [open |-> FALSE]
NoFetch == [step |-> "none"]
NoOp == [step |-> "none"]

\* One type invariant: reviews are known, requests and operations are in one of their steps.
TypeOK ==
  /\ review \in Review
  /\ \A t \in Tabs :
       /\ cached[t].state \in {"pending", "loaded", "error"}
       /\ fetch[t].step \in {"none", "asked", "read"}
       /\ form[t].open => /\ {form[t].draft, form[t].initial} \subseteq Texts
                          /\ form[t].review \in Review
       /\ op[t].step \in {"none", "sent", "done", "exists", "refused"}
       /\ seen[t] \subseteq Texts /\ under[t] \subseteq Texts
  /\ typed \in Texts /\ sends \in 0 .. MaxSends /\ reloads \in 0 .. MaxReloads
  /\ reviews \in 0 .. MaxSends + 1

Init ==
  /\ review \in {NoReview, [id |-> 1, version |-> 1, text |-> 1]} /\ reviews = review.id
  /\ cached = [t \in Tabs |-> Unloaded] /\ fetch = [t \in Tabs |-> NoFetch]
  /\ form = [t \in Tabs |-> Closed] /\ op = [t \in Tabs |-> NoOp]
  /\ seen = [t \in Tabs |-> {}] /\ under = [t \in Tabs |-> {}]
  /\ typed = 1 /\ sends = 0 /\ reloads = 0

Dirty(f) == f.draft # f.initial
Saw(t, f) == seen' = [seen EXCEPT ![t] = @ \cup {f.draft, f.initial}]

-----------------------------------------------------------------------------
(* Loading the review of the user. *)

\* The effect: another review than the form's is adopted, and its text unless the user has
\* typed something.  A review that is gone, or a newer version, is not.
Adopted(f, r) ==
  IF r.id = 0 \/ r.id = f.review.id THEN f
  ELSE [f EXCEPT !.review = r, !.initial = r.text, !.draft = IF Dirty(f) THEN @ ELSE r.text]

Ask(t) == fetch' = [fetch EXCEPT ![t] = [step |-> "asked"]]

\* At first, when the user tries again, and when a rating of the work invalidates it.
Load(t) ==
  /\ fetch[t] = NoFetch /\ op[t].step = "none"
  /\ IF cached[t].state = "loaded" THEN reloads < MaxReloads /\ reloads' = reloads + 1
     ELSE UNCHANGED reloads
  /\ Ask(t)
  /\ UNCHANGED <<review, cached, form, op, seen, under, typed, sends, reviews>>

\* getOwnForMedia.
Serve(t) ==
  /\ fetch[t].step = "asked"
  /\ fetch' = [fetch EXCEPT ![t] = [step |-> "read", review |-> review]]
  /\ UNCHANGED <<review, cached, form, op, seen, under, typed, sends, reloads, reviews>>

Opened(r) == [open |-> TRUE, review |-> r, draft |-> r.text, initial |-> r.text]

\* The page gives what is cached to the form there is, or makes one.
Given(t, r) == IF form[t].open THEN Adopted(form[t], r) ELSE Opened(r)

\* The form is made with the first answer, and given every later one.
Loaded(t) ==
  /\ fetch[t].step = "read"
  /\ LET r == fetch[t].review
         f == Given(t, r) IN
     /\ form' = [form EXCEPT ![t] = f]
     /\ IF form[t].open /\ Dirty(form[t]) /\ f # form[t]
        THEN under' = [under EXCEPT ![t] = @ \cup {r.text}] /\ UNCHANGED seen
        ELSE Saw(t, f) /\ UNCHANGED under
     /\ cached' = [cached EXCEPT ![t] = [state |-> "loaded", review |-> r]]
  /\ fetch' = [fetch EXCEPT ![t] = NoFetch]
  /\ UNCHANGED <<review, op, typed, sends, reloads, reviews>>

\* An error of the query takes the place of the form, with what was typed there.  A save under
\* way goes on without its form.
LoadFails(t) ==
  /\ reloads < MaxReloads /\ reloads' = reloads + 1
  /\ fetch[t] # NoFetch
  /\ fetch' = [fetch EXCEPT ![t] = NoFetch]
  /\ cached' = [cached EXCEPT ![t] = [state |-> "error"]]
  /\ form' = [form EXCEPT ![t] = Closed]
  /\ op' = IF op[t].step = "none" THEN op ELSE [op EXCEPT ![t].orphan = TRUE]
  /\ UNCHANGED <<review, seen, under, typed, sends, reviews>>

-----------------------------------------------------------------------------
(* The form. *)

Ready(t) == form[t].open /\ op[t].step = "none"

Type(t) ==
  /\ Ready(t) /\ typed < MaxTexts
  /\ typed' = typed + 1 /\ form' = [form EXCEPT ![t].draft = typed + 1]
  /\ UNCHANGED <<review, cached, fetch, op, seen, under, sends, reloads, reviews>>

Send(t, kind) ==
  /\ sends < MaxSends /\ sends' = sends + 1
  /\ op' = [op EXCEPT ![t] = [step |-> "sent", kind |-> kind, text |-> form[t].draft,
                              review |-> form[t].review, orphan |-> FALSE]]
  /\ UNCHANGED <<review, cached, fetch, form, seen, under, typed, reloads, reviews>>

Submit(t) ==
  /\ Ready(t) /\ Dirty(form[t])
  /\ Send(t, IF form[t].review.id = 0 THEN "create" ELSE "update")

ConfirmDelete(t) == Ready(t) /\ form[t].review.id # 0 /\ Send(t, "delete")

-----------------------------------------------------------------------------
(* The server. *)

\* One active review of a work for each user.
Create(t) ==
  /\ op[t].step = "sent" /\ op[t].kind = "create"
  /\ IF review.id # 0
     THEN op' = [op EXCEPT ![t].step = "exists"] /\ UNCHANGED <<review, reviews>>
     ELSE /\ reviews' = reviews + 1
          /\ review' = [id |-> reviews + 1, version |-> 1, text |-> op[t].text]
          /\ op' = [op EXCEPT ![t].step = "done", ![t].review = review']
  /\ UNCHANGED <<cached, fetch, form, seen, under, typed, sends, reloads>>

Expected(t) == op[t].review.version

Update(t) ==
  /\ op[t].step = "sent" /\ op[t].kind = "update"
  /\ IF review.id = op[t].review.id /\ review.version = Expected(t)
     THEN LET now == IF op[t].text = review.text THEN review
                     ELSE [review EXCEPT !.version = @ + 1, !.text = op[t].text] IN
          /\ review' = now
          /\ op' = [op EXCEPT ![t].step = "done", ![t].review = now]
     ELSE op' = [op EXCEPT ![t].step = "refused"] /\ UNCHANGED review
  /\ UNCHANGED <<cached, fetch, form, seen, under, typed, sends, reloads, reviews>>

\* Deleting what is deleted succeeds.
Delete(t) ==
  /\ op[t].step = "sent" /\ op[t].kind = "delete"
  /\ review' = IF review.id = op[t].review.id THEN NoReview ELSE review
  /\ op' = [op EXCEPT ![t].step = "done"]
  /\ UNCHANGED <<cached, fetch, form, seen, under, typed, sends, reloads, reviews>>

-----------------------------------------------------------------------------
(* The answer. *)

\* synchronize: the cache is set, and loaded anew.
Synchronize(t, r) ==
  /\ cached' = [cached EXCEPT ![t] = [state |-> "loaded", review |-> r]]
  /\ Ask(t)

Saved(t) ==
  /\ op[t].step = "done" /\ op[t].kind # "delete"
  /\ LET r == op[t].review
         f == IF op[t].orphan THEN Given(t, r) ELSE Opened(r) IN
     /\ form' = [form EXCEPT ![t] = f] /\ Saw(t, f)
     /\ Synchronize(t, r)
  /\ op' = [op EXCEPT ![t] = NoOp]
  /\ UNCHANGED <<review, under, typed, sends, reloads, reviews>>

\* The emptied form may be drawn before the page has noticed that its review is gone: then
\* it is adopted once more.
Deleted(t) ==
  /\ op[t].step = "done" /\ op[t].kind = "delete"
  /\ \E f \in IF op[t].orphan THEN {Given(t, NoReview)}
              ELSE {Opened(NoReview)} \cup {Adopted(Opened(NoReview), cached[t].review)} :
       form' = [form EXCEPT ![t] = f] /\ Saw(t, f)
  /\ Synchronize(t, NoReview)
  /\ op' = [op EXCEPT ![t] = NoOp]
  /\ UNCHANGED <<review, under, typed, sends, reloads, reviews>>

\* A refusal or no answer: the text stays.  If there is a review already, it is loaded.
Fails(t) ==
  /\ op[t].step # "none"
  /\ IF op[t].step = "exists" THEN Ask(t) ELSE UNCHANGED fetch
  /\ op' = [op EXCEPT ![t] = NoOp]
  /\ UNCHANGED <<review, cached, form, seen, under, typed, sends, reloads, reviews>>

Next ==
  \E t \in Tabs :
    \/ Load(t) \/ Serve(t) \/ Loaded(t) \/ LoadFails(t)
    \/ Type(t) \/ Submit(t) \/ ConfirmDelete(t)
    \/ Create(t) \/ Update(t) \/ Delete(t)
    \/ Saved(t) \/ Deleted(t) \/ Fails(t)

Spec == Init /\ [][Next]_vars

-----------------------------------------------------------------------------
\* A save replaces a text that its form has shown: another tab's edit is never overwritten
\* unseen.  (The text of a review that was adopted under an unsaved draft was not shown.)
OverwritesSeen ==
  review'.id = review.id /\ review'.text # review.text =>
    \E t \in Tabs : op'[t] # op[t] /\ review.text \in seen[t] \cup under[t]

\* What is typed and not saved stays in the form until it is saved, or its review deleted,
\* there, through every reload and refusal.  (A reload that fails takes the form away.)
DraftKept ==
  \A t \in Tabs :
    form[t].open /\ Dirty(form[t]) /\ form'[t].open /\ form'[t].draft # form[t].draft =>
      typed' > typed \/ op[t].step = "done"

NoLostText == [][OverwritesSeen /\ DraftKept]_vars
=================================================================================

-------------------------------- MODULE Ratings --------------------------------
(***************************************************************************)
(* A user's rating of a work.  The page shows it in two places that change *)
(* it independently and share the cache: a change is shown before it is    *)
(* sent, put back if it fails, and followed by loading the rating and the  *)
(* summary of all ratings again.  The server inserts the rating, or        *)
(* updates the one it has.                                                 *)
(***************************************************************************)
EXTENDS Integers

CONSTANTS
  Widgets,    \* the places of the page
  Values,     \* positive numbers; zero is no rating
  MaxChanges, \* bound on the changes
  MaxFaults   \* bound on the lost requests and answers

Keys == {"rating", "summary"}
Unloaded == <<>>
Distribution == [Values -> Int]

VARIABLES
  row,      \* the rating in the database
  cache,    \* what the page has loaded: nothing, or one value
  fetch,    \* the request for it, and the place that waits for it
  failed,   \* its last request failed
  widget,   \* the change each place has under way
  changes, faults

vars == <<row, cache, fetch, failed, widget, changes, faults>>

Quiet == [step |-> "none", for |-> "page"]
Idle == [step |-> "idle"]

\* One type invariant: caches hold what the server may answer, changes are in one of their steps.
TypeOK ==
  /\ row \in Values \cup {0}
  /\ \A k \in Keys : cache[k] # Unloaded =>
       cache[k][1] \in IF k = "rating" THEN Values \cup {0} ELSE Distribution
  /\ \A k \in Keys : fetch[k].step \in {"none", "asked", "read"}
  /\ failed \in [Keys -> BOOLEAN]
  /\ \A w \in Widgets : widget[w].step \in {"idle", "cancelling", "sent", "conflict", "done",
                                            "refused", "settling", "loading"}
  /\ changes \in 0 .. MaxChanges /\ faults \in 0 .. MaxFaults

Init ==
  /\ row \in Values \cup {0}
  /\ cache = [k \in Keys |-> Unloaded]
  /\ fetch = [k \in Keys |-> Quiet] /\ failed = [k \in Keys |-> FALSE]
  /\ widget = [w \in Widgets |-> Idle]
  /\ changes = 0 /\ faults = 0

-----------------------------------------------------------------------------
(* Loading. *)

Ask(w) == [k \in Keys |-> [step |-> "asked", for |-> w]]

\* The first time, and when the user tries again.
Load(k) ==
  /\ fetch[k] = Quiet /\ (cache[k] = Unloaded \/ failed[k])
  /\ fetch' = [fetch EXCEPT ![k] = [step |-> "asked", for |-> "page"]]
  /\ UNCHANGED <<row, cache, failed, widget, changes, faults>>

\* getSummary: how many gave each value.  Only the user's own rating is counted here.
Summary == [v \in Values |-> IF v = row THEN 1 ELSE 0]

Serve(k) ==
  /\ fetch[k].step = "asked"
  /\ fetch' = [fetch EXCEPT ![k] = [step |-> "read", for |-> @.for,
                                    value |-> IF k = "rating" THEN row ELSE Summary]]
  /\ UNCHANGED <<row, cache, failed, widget, changes, faults>>

Loaded(k) ==
  /\ fetch[k].step = "read"
  /\ cache' = [cache EXCEPT ![k] = <<fetch[k].value>>]
  /\ fetch' = [fetch EXCEPT ![k] = Quiet] /\ failed' = [failed EXCEPT ![k] = FALSE]
  /\ UNCHANGED <<row, widget, changes, faults>>

Fault == faults < MaxFaults /\ faults' = faults + 1

LoadFails(k) ==
  /\ Fault /\ fetch[k] # Quiet
  /\ fetch' = [fetch EXCEPT ![k] = Quiet] /\ failed' = [failed EXCEPT ![k] = TRUE]
  /\ UNCHANGED <<row, cache, widget, changes>>

-----------------------------------------------------------------------------
(* A change. *)

\* The choice is offered while the rating is there and this place has nothing under way.
\* onMutate first waits until what is loading has been cancelled.
Choose(w, v) ==
  /\ changes < MaxChanges /\ changes' = changes + 1
  /\ widget[w] = Idle /\ cache["rating"] \notin {Unloaded, <<v>>} /\ ~failed["rating"]
  /\ widget' = [widget EXCEPT ![w] = [step |-> "cancelling", value |-> v]]
  /\ fetch' = [k \in Keys |-> Quiet]
  /\ UNCHANGED <<row, cache, failed, faults>>

\* applyRatingSummaryChange: one fewer with the previous value, one more with the next.
Recounted(summary, previous, next) ==
  [v \in Values |-> summary[v] + (IF v = next THEN 1 ELSE 0) - (IF v = previous THEN 1 ELSE 0)]

\* The rest of onMutate; setting the cache clears an error of its query.
Apply(w) ==
  /\ widget[w].step = "cancelling"
  /\ LET next == widget[w].value IN
     /\ cache' = [cache EXCEPT
          !["rating"] = <<next>>,
          !["summary"] = IF @ = Unloaded THEN @
                         ELSE <<Recounted(@[1], cache["rating"][1], next)>>]
     /\ widget' = [widget EXCEPT ![w] = [step |-> "sent", value |-> next, snapshot |-> cache]]
  /\ failed' = [k \in Keys |-> failed[k] /\ cache[k] = Unloaded]
  /\ UNCHANGED <<row, fetch, changes, faults>>

\* upsert: an insert that does nothing on a conflict, an update, and a look whether the row
\* is gone.
Insert(w) ==
  /\ widget[w].step = "sent" /\ widget[w].value # 0
  /\ IF row = 0
     THEN row' = widget[w].value /\ widget' = [widget EXCEPT ![w].step = "done"]
     ELSE widget' = [widget EXCEPT ![w].step = "conflict"] /\ UNCHANGED row
  /\ UNCHANGED <<cache, fetch, failed, changes, faults>>

Update(w) ==
  /\ widget[w].step = "conflict"
  /\ IF row = 0
     THEN widget' = [widget EXCEPT ![w].step = "refused"] /\ UNCHANGED row
     ELSE row' = widget[w].value /\ widget' = [widget EXCEPT ![w].step = "done"]
  /\ UNCHANGED <<cache, fetch, failed, changes, faults>>

Delete(w) ==
  /\ widget[w].step = "sent" /\ widget[w].value = 0
  /\ row' = 0 /\ widget' = [widget EXCEPT ![w].step = "done"]
  /\ UNCHANGED <<cache, fetch, failed, changes, faults>>

Answered(w) ==
  /\ widget[w].step = "done"
  /\ cache' = [cache EXCEPT !["rating"] = <<widget[w].value>>]
  /\ failed' = [failed EXCEPT !["rating"] = FALSE]
  /\ widget' = [widget EXCEPT ![w] = [step |-> "settling"]]
  /\ UNCHANGED <<row, fetch, changes, faults>>

\* The server refused, the request did not reach it, or its answer was lost: everything is put
\* back as it was before this change.  What had not been loaded stays as it is.
Fails(w) ==
  /\ \/ widget[w].step = "refused" /\ UNCHANGED faults
     \/ widget[w].step \in {"sent", "done"} /\ Fault
  /\ LET before == widget[w].snapshot IN
     /\ cache' = [k \in Keys |-> IF before[k] = Unloaded THEN cache[k] ELSE before[k]]
     /\ failed' = [k \in Keys |-> failed[k] /\ before[k] = Unloaded]
  /\ widget' = [widget EXCEPT ![w] = [step |-> "settling"]]
  /\ UNCHANGED <<row, fetch, changes>>

\* invalidateAfterSocialMutation cancels what is loading and loads anew.
Invalidated(w) == Ask(w)

Settled(w) ==
  /\ widget[w].step = "settling"
  /\ fetch' = Invalidated(w) /\ widget' = [widget EXCEPT ![w] = [step |-> "loading"]]
  /\ UNCHANGED <<row, cache, failed, changes, faults>>

\* The change is over when what it asked for was loaded, failed or was cancelled.
Over(w) ==
  /\ widget[w].step = "loading" /\ \A k \in Keys : fetch[k].for # w
  /\ widget' = [widget EXCEPT ![w] = Idle]
  /\ UNCHANGED <<row, cache, fetch, failed, changes, faults>>

Next ==
  \/ \E k \in Keys : Load(k) \/ Serve(k) \/ Loaded(k) \/ LoadFails(k)
  \/ \E w \in Widgets :
       \/ \E v \in Values \cup {0} : Choose(w, v)
       \/ Apply(w) \/ Insert(w) \/ Update(w) \/ Delete(w) \/ Answered(w) \/ Fails(w)
       \/ Settled(w) \/ Over(w)

Spec == Init /\ [][Next]_vars

-----------------------------------------------------------------------------
AtRest == \A w \in Widgets, k \in Keys : widget[w] = Idle /\ fetch[k] = Quiet /\ ~failed[k]

\* Once nothing is under way and nothing failed to load, the page shows the rating and the
\* summary that the server has, whatever two places changed at once, in which order the
\* answers came and what was put back.
RatingSettles ==
  AtRest => /\ cache["rating"] \in {Unloaded, <<row>>}
            /\ cache["summary"] \in {Unloaded, <<Summary>>}
================================================================================

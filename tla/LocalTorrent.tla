----------------------------- MODULE LocalTorrent -----------------------------
(***************************************************************************)
(* A torrent loaded on the viewer's own computer (useLocalTorrent): the    *)
(* page opens a controller of the helper, renews its lease, has the helper *)
(* admit the torrent, polls it until its files are known, and lets the     *)
(* viewer choose one.  Every start, stop or loss of the lease disposes of  *)
(* the controller before, while its requests may still be in flight.       *)
(*                                                                         *)
(* The helper is not part of the repository.  A request that only reads is *)
(* served when it is answered; an admission or a choice of a file may lose *)
(* its answer.  A start is a member of 1..Len(run), its controller too.    *)
(***************************************************************************)
EXTENDS Integers, Sequences

CONSTANTS MaxStarts, MaxChoices, MaxFaults   \* bounds: what the viewer does, calls that fail

VARIABLES
  helper,     \* per start: its controller, its torrent and the operations it has served
  run,        \* the calls of start: the await each is at, and its abort signal
  current,    \* the start whose controller the page holds, or 0
  selection,  \* the ref that lets one start or choice be made at a time
  choice,     \* the call of select
  snapshot,   \* what the page shows of the torrent: <<>>, or one record
  pending,    \* the page is waiting
  closing,    \* controllers whose DELETE is in flight
  choices, faults

vars == <<helper, run, current, selection, choice, snapshot, pending, closing, choices, faults>>

Fault == faults < MaxFaults /\ faults' = faults + 1
Sure == UNCHANGED faults

NoTorrent == [lease |-> "none", torrent |-> "none", revision |-> 0,
              chosen |-> "none"]
NoChoice == [at |-> "none", of |-> 0, revision |-> 0]

Init ==
  /\ helper = <<>> /\ run = <<>> /\ current = 0 /\ selection = FALSE /\ choice = NoChoice
  /\ snapshot = <<>> /\ pending = FALSE /\ closing = {} /\ choices = 0 /\ faults = 0

-----------------------------------------------------------------------------
\* The helper: the torrent's files become known or it fails, a chosen file is prepared, a
\* controller is closed, and a lease that nobody renews ends.
Helper ==
  /\ \E r \in DOMAIN helper :
       \/ /\ helper[r].torrent = "metadata" /\ closing' = closing
          /\ \E t \in {"awaiting_file", "failed"} :
               helper' = [helper EXCEPT ![r].torrent = t]
       \/ /\ helper[r].chosen = "pending" /\ closing' = closing
          /\ \E s \in {"ready", "failed"} : helper' = [helper EXCEPT ![r].chosen = s]
       \/ /\ r \in closing /\ closing' = closing \ {r}
          /\ helper' = [helper EXCEPT ![r].lease = "ended"] \/ helper' = helper
       \/ /\ helper[r].lease = "held" /\ (run[r].aborted \/ run[r].at = "done")
          /\ helper' = [helper EXCEPT ![r].lease = "ended"] /\ closing' = closing
  /\ UNCHANGED <<run, current, selection, choice, snapshot, pending, choices, faults>>

-----------------------------------------------------------------------------
\* dispose: whatever was opening or open is aborted, and its controller closed.
AllAborted(s) == [r \in DOMAIN s |-> [s[r] EXCEPT !.aborted = TRUE]]
Dispose ==
  /\ current' = 0 /\ closing' = closing \cup ({current} \ {0})

At(r, step) == run' = [run EXCEPT ![r].at = step]
Rest == UNCHANGED <<helper, choice, choices>>
Page == <<current, snapshot, pending, closing>>

\* The page's buttons are disabled while it waits, and once a torrent is shown.
Start ==
  /\ ~pending /\ snapshot = <<>> /\ ~selection /\ Len(run) < MaxStarts
  /\ selection' = TRUE /\ pending' = TRUE /\ snapshot' = <<>> /\ Dispose
  /\ run' = Append(AllAborted(run), [at |-> "open", aborted |-> FALSE, tries |-> 0])
  /\ helper' = Append(helper, NoTorrent)
  /\ UNCHANGED <<choice, choices, faults>>

\* The button that ends it, the page's hiding, another player's start, another account.
Stop ==
  /\ pending \/ snapshot # <<>>
  /\ Dispose /\ run' = AllAborted(run) /\ snapshot' = <<>> /\ pending' = FALSE
  /\ UNCHANGED <<helper, selection, choice, choices, faults>>

\* A heartbeat is refused or fails: the lease is given up.
HeartbeatFails(r) ==
  /\ current = r /\ ~run[r].aborted /\ run[r].at # "done"
  /\ \/ helper[r].lease = "ended" /\ Sure /\ helper' = helper
     \/ Fault /\ helper' \in {helper, [helper EXCEPT ![r].lease = "ended"]}
  /\ Dispose /\ run' = AllAborted(run) /\ snapshot' = <<>> /\ pending' = FALSE
  /\ UNCHANGED <<selection, choice, choices>>

-----------------------------------------------------------------------------
\* start, from one await to the next.
Working(r, step) == r \in DOMAIN run /\ run[r].at = step /\ ~run[r].aborted

\* The helper admits one torrent on the computer at a time.
Busy == \E r \in DOMAIN helper : helper[r].lease = "held" /\ helper[r].torrent # "none"
Admitting(r) == [helper EXCEPT ![r].torrent = "metadata", ![r].revision = 1]

\* A call that gets no answer may have been served.
Perhaps(r) ==
  \/ helper' = helper
  \/ run[r].at = "open" /\ helper' = [helper EXCEPT ![r].lease = "held"]
  \/ run[r].at = "admit" /\ helper[r].lease = "held" /\ ~Busy /\ helper' = Admitting(r)

\* Ended by an error that is not its abort, or by the end of the torrent.
Ended(r) ==
  /\ At(r, "done") /\ selection' = FALSE /\ pending' = FALSE
  /\ IF current = r THEN Dispose /\ snapshot' = <<>>
     ELSE UNCHANGED <<current, closing, snapshot>>

Opened(r) ==
  /\ Working(r, "open") /\ At(r, "resolve") /\ current' = r
  /\ helper' = [helper EXCEPT ![r].lease = "held"]
  /\ UNCHANGED <<selection, snapshot, pending, closing, choice, choices, faults>>

Resolved(r) ==
  /\ Working(r, "resolve") /\ At(r, "admit")
  /\ UNCHANGED <<selection, Page, faults>> /\ Rest

Admit(r) ==
  /\ Working(r, "admit") /\ UNCHANGED <<choice, choices>>
  /\ IF Busy \/ helper[r].lease # "held" THEN Ended(r) /\ Sure /\ UNCHANGED helper
     ELSE /\ helper' = Admitting(r) /\ At(r, "poll") /\ selection' = FALSE
          /\ UNCHANGED <<Page, faults>>

\* No answer: the operation is looked for, thrice at most, and never made again.
AdmitLost(r) ==
  /\ Working(r, "admit") /\ Fault /\ At(r, "reread") /\ Perhaps(r)
  /\ UNCHANGED <<selection, Page, choice, choices>>

Reread(r) ==
  /\ Working(r, "reread") /\ Sure /\ Rest
  /\ IF helper[r].torrent # "none"
     THEN At(r, "poll") /\ selection' = FALSE /\ UNCHANGED Page
     ELSE IF run[r].tries < 2
     THEN run' = [run EXCEPT ![r].tries = @ + 1] /\ UNCHANGED <<selection, Page>>
     ELSE Ended(r)

Shown(r) == <<[of |-> r, torrent |-> helper[r].torrent, revision |-> helper[r].revision,
               chosen |-> helper[r].chosen]>>

\* The poll ends when the files are known; the picker then lives on heartbeats alone.
Poll(r) ==
  /\ Working(r, "poll") /\ Sure /\ Rest
  /\ IF helper[r].lease # "held" \/ helper[r].torrent = "failed" THEN Ended(r)
     ELSE /\ current = r /\ snapshot' = Shown(r)
          /\ pending' = (helper[r].torrent = "metadata" \/ selection)
          /\ At(r, IF helper[r].torrent = "metadata" THEN "poll" ELSE "idle")
          /\ UNCHANGED <<current, selection, closing>>

RequestFails(r) ==
  /\ r \in DOMAIN run /\ run[r].at \in {"open", "resolve", "admit", "reread", "poll"}
  /\ ~run[r].aborted /\ Fault /\ Ended(r) /\ Perhaps(r)
  /\ UNCHANGED <<choice, choices>>

\* What was aborted ends at its await, whatever it was waiting for; it may have been served.
\* The ref is free again even if a later start holds it.
Unwinds(r) ==
  /\ r \in DOMAIN run /\ run[r].aborted /\ run[r].at # "done"
  /\ At(r, "done") /\ selection' = FALSE /\ Perhaps(r)
  /\ UNCHANGED <<choice, choices, faults, Page>>

-----------------------------------------------------------------------------
\* select: one file of the torrent that is shown, against the revision that is shown.
Select ==
  /\ current # 0 /\ snapshot # <<>> /\ snapshot[1].torrent = "awaiting_file" /\ ~pending
  /\ ~selection /\ choice.at = "none" /\ choices < MaxChoices /\ choices' = choices + 1
  /\ choice' = [at |-> "post", of |-> current, revision |-> snapshot[1].revision]
  /\ selection' = TRUE /\ pending' = TRUE
  /\ UNCHANGED <<helper, run, current, snapshot, closing, faults>>

Choosing(step) == choice.at = step /\ ~run[choice.of].aborted
Held == helper[choice.of].lease = "held"
Chosen == [helper EXCEPT ![choice.of].revision = @ + 1, ![choice.of].chosen = "pending"]
ChoiceAt(step) == choice' = [choice EXCEPT !.at = step]
Alone == UNCHANGED <<run, selection, Page, choices>>

Post ==
  /\ Choosing("post") /\ Alone
  /\ \/ /\ Held /\ choice.revision = helper[choice.of].revision
        /\ helper' = Chosen /\ ChoiceAt("operation") /\ Sure
     \/ /\ ~Held \/ choice.revision # helper[choice.of].revision
        /\ ChoiceAt("recover") /\ UNCHANGED helper /\ Sure
     \/ /\ Fault /\ ChoiceAt("reread")
        /\ \/ helper' = helper
           \/ Held /\ choice.revision = helper[choice.of].revision /\ helper' = Chosen

\* The operation of a choice whose answer was lost, then its outcome.
Reading ==
  /\ Choosing("reread") /\ Alone /\ UNCHANGED helper /\ Sure
  /\ ChoiceAt(IF Held /\ helper[choice.of].revision > choice.revision
              THEN "operation" ELSE "recover")

Operation ==
  /\ Choosing("operation") /\ Alone /\ UNCHANGED helper /\ Sure
  /\ ~Held \/ helper[choice.of].chosen # "pending"
  /\ ChoiceAt(IF Held /\ helper[choice.of].chosen = "ready" THEN "state" ELSE "recover")

Freed == choice' = NoChoice /\ selection' = FALSE

State ==
  /\ Choosing("state") /\ Sure
  /\ IF Held
     THEN /\ Freed /\ UNCHANGED <<closing, current>>
          /\ IF current = choice.of THEN snapshot' = Shown(choice.of) /\ pending' = FALSE
             ELSE UNCHANGED <<snapshot, pending>>
     ELSE ChoiceAt("recover") /\ UNCHANGED <<selection, Page>>
  /\ UNCHANGED <<helper, run, choices>>

ChoiceFails ==
  /\ choice.at \in {"reread", "operation", "state"} /\ Choosing(choice.at) /\ Fault
  /\ ChoiceAt("recover") /\ Alone /\ UNCHANGED helper

\* After an error the torrent is read again; if that fails too, the controller is given up.
Recover ==
  /\ Choosing("recover") /\ Freed
  /\ \/ /\ Held /\ Sure /\ snapshot' = Shown(choice.of) /\ pending' = FALSE
        /\ UNCHANGED <<current, closing, run>>
     \/ /\ (~Held /\ Sure) \/ Fault
        /\ Dispose /\ run' = AllAborted(run) /\ snapshot' = <<>> /\ pending' = FALSE
  /\ UNCHANGED <<helper, choices>>

ChoiceUnwinds ==
  /\ choice.at # "none" /\ run[choice.of].aborted /\ Freed
  /\ UNCHANGED <<helper, run, Page, choices, faults>>

Next ==
  \/ Helper \/ Start \/ Stop
  \/ \E r \in DOMAIN run :
       \/ HeartbeatFails(r) \/ Opened(r) \/ Resolved(r) \/ Admit(r) \/ AdmitLost(r) \/ Reread(r)
       \/ Poll(r) \/ RequestFails(r) \/ Unwinds(r)
  \/ Select \/ Post \/ Reading \/ Operation \/ State \/ ChoiceFails \/ Recover \/ ChoiceUnwinds

Spec == Init /\ [][Next]_vars

-----------------------------------------------------------------------------
TypeOK ==
  /\ Len(helper) = Len(run) /\ current \in {0} \cup DOMAIN run /\ closing \subseteq DOMAIN run
  /\ choice.of \in {0} \cup DOMAIN run /\ selection \in BOOLEAN /\ pending \in BOOLEAN

\* What the page shows can be used: the files it offers are of the controller it holds, and
\* when it waits, some call of that controller will end the waiting - in particular after a
\* stop or a lost lease in the middle of a start or a choice.
ShownIsHeld ==
  /\ snapshot # <<>> => snapshot[1].of = current
  /\ pending =>
       \/ \E r \in DOMAIN run : ~run[r].aborted /\ run[r].at \notin {"done", "idle"}
       \/ choice.at # "none" /\ choice.of = current

\* Only the last start can still have the helper do anything: whoever stopped or replaced one
\* aborted it, at whatever call it was.
OneStart == \A r \in DOMAIN run : r < Len(run) => run[r].aborted \/ run[r].at = "done"
=============================================================================

---------------------------- MODULE TorrentEngine ----------------------------
(***************************************************************************)
(* The torrents loaded in TorrServer against the sessions of the database. *)
(*                                                                         *)
(* Three parties change the engine without a common lock: the start task   *)
(* of a session (add the torrent, bind it, go on), the clean-up of a       *)
(* session (the request that stops it, or the sweep), and the sweep's      *)
(* search for orphans.  Each asks the database or the engine first and     *)
(* acts afterwards.  The server may restart between any two steps, TorrServer *)
(* may lose everything, and the answer of an add may be lost.              *)
(*                                                                         *)
(* The rows are reduced to what matters here: a state, the binding, and    *)
(* whether the row is older than the orphan grace.  States only move       *)
(* forward, so a state read before stands for the version read before.     *)
(***************************************************************************)
EXTENDS Naturals, FiniteSets

CONSTANTS Session,      \* sessions
          Torrent,      \* torrents, by their info hash
          Wants,        \* Wants[s]: the torrent session s asks for
          Stopping,     \* sessions whose user may ask to stop them
          MaxEvents     \* stops by a user, restarts of either process and lost answers

NoKey == "no torrent"

VARIABLES row,      \* row[s]: [state, key, old]: session row and engine binding
          engine,   \* torrents TorrServer holds
          start,    \* start[s]: step of TorrentInputService.start
          task,     \* task[p]: clean-up by the stop of session p, or by the sweep
          sweep,    \* the running sweep: what it listed and what is left
          seen,     \* orphanSeenAt: "no", "seen", or "due" once the grace is over
          events

vars == <<row, engine, start, task, sweep, seen, events>>

Active == {"created", "fetching", "live"}
States == Active \union {"free", "failed", "closing", "closed"}
Sweeper == "sweep"
Idle == [step |-> "idle", s |-> Sweeper, key |-> NoKey, finish |-> FALSE]
Asleep == [step |-> "off", owned |-> {}, left |-> {}, orphans |-> {}]
Tasks == Session \union {Sweeper}

TypeOK ==
  /\ row \in [Session -> [state : States, key : Torrent \union {NoKey}, old : BOOLEAN]]
  /\ engine \subseteq Torrent
  /\ start \in [Session -> {"none", "add", "bind", "bound", "check", "drop", "fail"}]
  /\ task \in [Tasks -> [step : {"idle", "list", "check", "drop", "clear", "end"},
                         s : Tasks, key : Torrent \union {NoKey}, finish : BOOLEAN]]
  /\ sweep.step \in {"off", "owned", "rows"} /\ sweep.owned \subseteq Torrent /\ sweep.orphans \subseteq Torrent
  /\ seen \in [Torrent -> {"no", "seen", "due"}]
  /\ events \in 0 .. MaxEvents

Init ==
  /\ row = [s \in Session |-> [state |-> "free", key |-> NoKey, old |-> FALSE]]
  /\ engine = {}
  /\ start = [s \in Session |-> "none"]
  /\ task = [p \in Tasks |-> Idle]
  /\ sweep = Asleep
  /\ seen = [k \in Torrent |-> "no"]
  /\ events = 0

State(s) == row[s].state
Bound(k) == \E s \in Session : row[s].key = k
Ages(state) == state \in Active \union {"failed"}
Moves(s, from, to) ==
  /\ State(s) = from
  /\ row' = [row EXCEPT ![s].state = to, ![s].old = @ /\ Ages(to)]
StartGoes(s, step) == start' = [start EXCEPT ![s] = step]
KeepSweep == UNCHANGED <<task, sweep, seen, events>>

-----------------------------------------------------------------------------
(* TorrentInputService. *)

\* create: the row is reserved and its start task runs on after the answer.
Create(s) ==
  /\ Moves(s, "free", "created")
  /\ StartGoes(s, "add")
  /\ UNCHANGED engine /\ KeepSweep

\* addMagnet / addMetainfo; the add may reach TorrServer and its answer be lost.
Add(s) ==
  /\ start[s] = "add"
  /\ engine' = engine \union {Wants[s]}
  /\ StartGoes(s, "bind")
  /\ UNCHANGED row /\ KeepSweep

AddFails(s) ==
  /\ start[s] = "add" /\ events < MaxEvents
  /\ events' = events + 1
  /\ engine' \in {engine, engine \union {Wants[s]}}
  /\ StartGoes(s, "fail")
  /\ UNCHANGED <<row, task, sweep, seen>>

\* bindEngine: an active session and a torrent no other session is bound to.
Binds(s) == State(s) \in Active /\ ~Bound(Wants[s])

BindEngine(s) ==
  /\ start[s] = "bind"
  /\ IF Binds(s)
     THEN row' = [row EXCEPT ![s].key = Wants[s]] /\ StartGoes(s, "bound")
     ELSE StartGoes(s, "check") /\ UNCHANGED row
  /\ UNCHANGED engine /\ KeepSweep

\* The torrent of a refused binding is dropped when nobody is bound to it.
IsEngineBound(s) ==
  /\ start[s] = "check"
  /\ StartGoes(s, IF Bound(Wants[s]) THEN "fail" ELSE "drop")
  /\ UNCHANGED <<row, engine>> /\ KeepSweep

\* A failed drop is ignored: the sweep will find the torrent.
StartDrops(s) ==
  /\ start[s] = "drop"
  /\ \/ engine' = engine \ {Wants[s]} /\ UNCHANGED events
     \/ events < MaxEvents /\ events' = events + 1 /\ UNCHANGED engine
  /\ StartGoes(s, "fail")
  /\ UNCHANGED <<row, task, sweep, seen>>

\* The last write of the task, at the version of the reservation.
Started(s) ==
  /\ start[s] \in {"bound", "fail"}
  /\ IF State(s) = "created"
     THEN Moves(s, "created", IF start[s] = "bound" THEN "fetching" ELSE "failed")
     ELSE UNCHANGED row
  /\ StartGoes(s, "none")
  /\ UNCHANGED engine /\ KeepSweep

\* pollMetadata: the files of a loaded torrent, or the deadline.
PollMetadata(s) ==
  /\ \/ row[s].key \in engine /\ Moves(s, "fetching", "live")
     \/ row[s].old /\ Moves(s, "fetching", "failed")
  /\ UNCHANGED <<engine, start>> /\ KeepSweep

-----------------------------------------------------------------------------
(* The clean-up of one session: finishSession, and the branch of a failed row. *)

TaskGoes(p, step) == task' = [task EXCEPT ![p].step = step]
Cleans(p, s, finish, step) ==
  task' = [task EXCEPT ![p] = [step |-> step, s |-> s, key |-> row[s].key, finish |-> finish]]

\* stop: requestStop, findForCleanup, finishSession in one request.
RequestStop(s) ==
  /\ s \in Stopping /\ Ages(State(s)) /\ task[s] = Idle
  /\ events < MaxEvents /\ events' = events + 1
  /\ Moves(s, State(s), "closing")
  /\ Cleans(s, s, TRUE, IF row[s].key = NoKey THEN "end" ELSE "list")
  /\ UNCHANGED <<engine, start, sweep, seen>>

ListOwned(s) ==
  /\ task[s].step = "list"
  /\ TaskGoes(s, IF task[s].key \in engine THEN "check" ELSE "clear")
  /\ UNCHANGED <<row, engine, start, sweep, seen, events>>

HasOtherEngineReference(p) ==
  /\ task[p].step = "check"
  /\ TaskGoes(p, IF \E s \in Session \ {task[p].s} : row[s].key = task[p].key
                 THEN "clear" ELSE "drop")
  /\ UNCHANGED <<row, engine, start, sweep, seen, events>>

Drop(p) ==
  /\ task[p].step = "drop"
  /\ engine' = engine \ {task[p].key}
  /\ TaskGoes(p, "clear")
  /\ UNCHANGED <<row, start, sweep, seen, events>>

ClearEngine(p) ==
  /\ task[p].step = "clear"
  /\ row' = [row EXCEPT ![task[p].s].key = NoKey]
  /\ IF task[p].finish THEN TaskGoes(p, "end") ELSE task' = [task EXCEPT ![p] = Idle]
  /\ UNCHANGED <<engine, start, sweep, seen, events>>

Close(p) ==
  /\ task[p].step = "end"
  /\ IF State(task[p].s) = "closing" THEN Moves(task[p].s, "closing", "closed") ELSE UNCHANGED row
  /\ task' = [task EXCEPT ![p] = Idle]
  /\ UNCHANGED <<engine, start, sweep, seen, events>>

-----------------------------------------------------------------------------
(* The sweep. *)

\* listOwned, then listForReconciliation: two reads at two moments.
SweepLists ==
  /\ sweep.step = "off"
  /\ sweep' = [Asleep EXCEPT !.step = "owned", !.owned = engine]
  /\ UNCHANGED <<row, engine, start, task, seen, events>>

Listed == {s \in Session : State(s) \in Active \union {"failed", "closing"}}
ListForReconciliation ==
  /\ sweep.step = "owned"
  /\ LET known == {row[s].key : s \in Listed} IN
       /\ sweep' = [sweep EXCEPT
                      !.step = "rows",
                      !.left = {[s |-> s, state |-> State(s), key |-> row[s].key] : s \in Listed},
                      !.orphans = sweep.owned \ known]
       /\ seen' = [k \in Torrent |-> IF k \in sweep.owned \ known THEN seen[k] ELSE "no"]
  /\ UNCHANGED <<row, engine, start, task, events>>

Takes(r) == r \in sweep.left /\ task[Sweeper] = Idle
Leaves(r) == sweep' = [sweep EXCEPT !.left = @ \ {r}]

\* A closing row, or one whose lease is over: finishSession.
SweepFinishes(r) ==
  /\ Takes(r)
  /\ \/ r.state = "closing" /\ UNCHANGED row
     \/ r.state \in Active \union {"failed"} /\ row[r.s].old /\ Moves(r.s, r.state, "closing")
  /\ task' = [task EXCEPT ![Sweeper] =
       [step |-> IF r.key = NoKey THEN "end" ELSE IF r.key \in sweep.owned THEN "check" ELSE "clear",
        s |-> r.s, key |-> r.key, finish |-> TRUE]]
  /\ Leaves(r)
  /\ UNCHANGED <<engine, start, seen, events>>

\* A failed row keeps its place, but not its torrent.
SweepFailed(r) ==
  /\ Takes(r) /\ r.state = "failed"
  /\ task' = [task EXCEPT ![Sweeper] = IF r.key = NoKey THEN Idle ELSE
       [step |-> IF r.key \in sweep.owned THEN "check" ELSE "clear",
        s |-> r.s, key |-> r.key, finish |-> FALSE]]
  /\ Leaves(r)
  /\ UNCHANGED <<row, engine, start, seen, events>>

\* An active row without a torrent fails, unless its start task may still be at work.
Missing(r) == r.key = NoKey \/ r.key \notin sweep.owned
\* Mutant: however old the row is.
SparedForever(r) == r.state = "created"

Spared(r) == r.state = "created" /\ ~row[r.s].old

SweepFails(r) ==
  /\ Takes(r) /\ r.state \in Active /\ Missing(r) /\ ~Spared(r)
  /\ IF State(r.s) = r.state THEN Moves(r.s, r.state, "failed") ELSE UNCHANGED row
  /\ Leaves(r)
  /\ UNCHANGED <<engine, start, task, seen, events>>

\* A created row whose torrent is there goes on; the rest needs nothing here.
SweepPasses(r) ==
  /\ Takes(r) /\ r.state \in Active
  /\ Missing(r) => Spared(r)
  /\ IF ~Missing(r) /\ r.state = "created" /\ State(r.s) = "created"
     THEN Moves(r.s, "created", "fetching") ELSE UNCHANGED row
  /\ Leaves(r)
  /\ UNCHANGED <<engine, start, task, seen, events>>

\* Mutant: the first sight is not remembered.
NotNoted(k) == seen

Noted(k) == [seen EXCEPT ![k] = "seen"]

\* Orphans: noted the first time, dropped when still there after the grace.
SweepOrphan(k) ==
  /\ sweep.left = {} /\ task[Sweeper] = Idle
  /\ k \in sweep.orphans
  /\ IF seen[k] = "due"
     THEN engine' = engine \ {k} /\ seen' = [seen EXCEPT ![k] = "no"]
     ELSE seen' = Noted(k) /\ UNCHANGED engine
  /\ sweep' = [sweep EXCEPT !.orphans = @ \ {k}]
  /\ UNCHANGED <<row, start, task, events>>

SweepEnds ==
  /\ sweep.step = "rows" /\ sweep.left = {} /\ sweep.orphans = {} /\ task[Sweeper] = Idle
  /\ sweep' = Asleep
  /\ UNCHANGED <<row, engine, start, task, seen, events>>

-----------------------------------------------------------------------------
(* Time and faults. *)

\* The orphan grace of two minutes passes for a row whose start is over: it has 15
\* seconds to add the torrent and 5 to drop it.  (The lease is longer still) ...
RowAges(s) ==
  /\ Ages(State(s)) /\ ~row[s].old
  /\ start[s] = "none"
  /\ row' = [row EXCEPT ![s].old = TRUE]
  /\ UNCHANGED <<engine, start>> /\ KeepSweep

\* ... and for an orphan.
OrphanAges(k) ==
  /\ seen[k] = "seen"
  /\ seen' = [seen EXCEPT ![k] = "due"]
  /\ UNCHANGED <<row, engine, start, task, sweep, events>>

\* The server restarts: every task, the sweep and what it remembered are gone.
Restart ==
  /\ events < MaxEvents
  /\ events' = events + 1
  /\ start' = [s \in Session |-> "none"]
  /\ task' = [p \in Tasks |-> Idle]
  /\ sweep' = Asleep
  /\ seen' = [k \in Torrent |-> "no"]
  /\ UNCHANGED <<row, engine>>

\* TorrServer restarts: nothing was saved to its database (save_to_db: false).
EngineRestart ==
  /\ events < MaxEvents /\ engine # {}
  /\ events' = events + 1
  /\ engine' = {}
  /\ UNCHANGED <<row, start, task, sweep, seen>>

StartStep(s) ==
  Add(s) \/ BindEngine(s) \/ IsEngineBound(s) \/ StartDrops(s) \/ Started(s)
TaskStep(p) ==
  (p \in Session /\ ListOwned(p)) \/ HasOtherEngineReference(p) \/ Drop(p) \/ ClearEngine(p) \/ Close(p)
SweepStep ==
  \/ SweepLists \/ ListForReconciliation \/ SweepEnds
  \/ \E r \in sweep.left : SweepFinishes(r) \/ SweepFailed(r) \/ SweepFails(r) \/ SweepPasses(r)
  \/ \E k \in Torrent : SweepOrphan(k)

Next ==
  \/ \E s \in Session :
       Create(s) \/ StartStep(s) \/ AddFails(s) \/ PollMetadata(s) \/ RequestStop(s) \/ RowAges(s)
  \/ \E p \in Tasks : TaskStep(p)
  \/ SweepStep
  \/ \E k \in Torrent : OrphanAges(k)
  \/ Restart \/ EngineRestart

\* Tasks run on, the sweep is on a timer, and time passes.  Starts and stops take
\* finitely many steps, so that none of them can keep another from its own.
Fairness ==
  /\ WF_vars(\E s \in Session : StartStep(s) \/ TaskStep(s))
  /\ WF_vars(TaskStep(Sweeper) \/ SweepStep)
  /\ WF_vars(\E s \in Session : RowAges(s))
  /\ \A k \in Torrent : WF_vars(OrphanAges(k))

Spec == Init /\ [][Next]_vars
FairSpec == Spec /\ Fairness

-----------------------------------------------------------------------------
(* What must hold. *)

\* A torrent no session is bound to does not stay in the engine: whatever is added
\* after a refused binding, a lost answer or a restart, the sweep collects it.
OrphansDropped == \A k \in Torrent : (k \in engine /\ ~Bound(k)) ~> (k \notin engine \/ Bound(k))

\* A session that counts as active while its torrent is not loaded (its start died, the
\* engine lost it, or a clean-up that had asked before dropped it) does not stay so.
Stranded(s) == State(s) \in Active /\ (row[s].key = NoKey \/ row[s].key \notin engine)
StrandedResolves == <>[](\A s \in Session : ~Stranded(s))
=============================================================================

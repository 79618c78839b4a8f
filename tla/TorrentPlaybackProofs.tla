------------------------- MODULE TorrentPlaybackProofs -------------------------
(***************************************************************************)
(* Proofs about TorrentPlayback, for any number of sessions, generations,  *)
(* restarts and outputs, whatever actors there are and, but for            *)
(* PreparingWatched, whether or not the database fails.                    *)
(*                                                                         *)
(* The rows, the workers and the tasks of the process agree without a      *)
(* common lock because each task holds on to the version it last wrote and *)
(* the versions only grow.  The invariants are taken in layers: the types, *)
(* with what the gateway keeps on its own (GWP!GatewayOK); what a task     *)
(* knows of its row (TasksOK); what is on disk for whom (DiskOK); and what *)
(* the sweep still owes the sessions a restart left behind (SweepOwes).    *)
(***************************************************************************)
EXTENDS TorrentPlayback, TLAPS

GWP == INSTANCE StreamGatewayProofs

USE DEF DB!Active, DB!Visible, DB!Closing, DB!Terminal, DB!Vacant, DB!States

RowsOK ==
  /\ DB!TypeOK
  /\ \A s \in Session : state[s] \notin DB!Vacant => owner[s] \in Owner

RequestStep == {"none", "chosen", "broken", "find", "stopping", "write", "clear"}
SweepStep == {"idle", "next", "finish", "stopping", "clear", "write"}
SweptRow == [state : DB!States \cup {"none"}, version : Nat, gen : Nat,
             late : BOOLEAN]

TasksTyped ==
  /\ task \in [Session \X Generation -> [step : TaskStep, version : Nat]]
  /\ handler \in [Handler \X Session ->
                    [step : RequestStep, version : Nat, gen : GW!Slot]]
  /\ sweep \in [step : SweepStep, known : SUBSET Session, todo : SUBSET Session,
                cur : Session \cup {None}, rows : [Session -> SweptRow],
                deferred : BOOLEAN]
  /\ startup \in {"boot", "pending", "done"}
  /\ restarts \in 0..MaxRestarts

\* A generation that has no task yet, or whose task has read its source only,
\* has not been started.
StartsOnce ==
  \A s \in Session, g \in Generation :
    task[<<s, g>>].step \in {"none", "source"} => mode[<<s, g>>] = "unstarted"

Ended(s) == state[s] \in DB!Terminal \cup DB!Vacant

TaskOK(s, g) ==
  LET t == task[<<s, g>>] IN
  /\ g > generation[s] => t.step = "none"
  /\ t.version <= version[s]
  /\ t.step # "none" /\ t.version = version[s] => generation[s] = g
  /\ state[s] = "preparing" /\ generation[s] = g =>
       /\ t.step # "wait_complete"
       /\ t.step \in {"none", "done"} \/ t.version = version[s]

TasksOK ==
  /\ \A s \in Session :
       state[s] \in {"preparing", "ready"} => generation[s] \in Generation
  /\ \A s \in Session, g \in Generation : TaskOK(s, g)

DiskOK ==
  /\ sweep.step # "idle" => \A s \in Session : ~Ended(s) => s \in sweep.known
  /\ \A s \in Session, g \in Generation :
       ~Ended(s) /\ GW!HasGeneration(s, g) => <<s, g>> \in dirs

Unwatched(s) ==
  /\ state[s] = "preparing" /\ ~lapsed[s]
  /\ task[<<s, generation[s]>>].step \in {"none", "done"}

SweepOwes ==
  \A s \in Session :
    Unwatched(s) =>
      /\ startup # "done"
      /\ sweep.step # "idle" /\ ~sweep.deferred =>
           /\ s \in sweep.todo
           /\ sweep.rows[s].state = "preparing" /\ ~sweep.rows[s].late
           /\ sweep.rows[s].version = version[s]

AllOK == RowsOK /\ GWP!GatewayOK /\ TasksTyped /\ StartsOnce /\ TasksOK /\ DiskOK

-----------------------------------------------------------------------------
(***************************************************************************)
(* What StreamGatewayProofs proves is about its own instance of the        *)
(* gateway, which is the one of this system.                               *)
(***************************************************************************)
LEMMA PlaybackConstants ==
  /\ GWP!IsFiniteSet(Session) /\ IsFiniteSet(Session)
  /\ None \notin Caller
  /\ MaxGeneration \in Nat
  /\ MaxWorkers \in Nat \ {0}
BY PlaybackAssumption DEF GWP!IsFiniteSet, IsFiniteSet

LEMMA CallersDiffer ==
  /\ SweepCaller \in Caller
  /\ \A s \in Session, g \in Generation : PlayCaller(s, g) \in Caller
  /\ \A s \in Session, h \in Handler : HandlerCaller(h, s) \in Caller
BY DEF Caller

LEMMA SameInit == GW!Init <=> GWP!Init
BY DEF GW!Init, GWP!Init, GW!Idle, GWP!Idle, GW!Generation, GWP!Generation

LEMMA SameTypeOK == GW!TypeOK <=> GWP!TypeOK
BY DEF GW!TypeOK, GWP!TypeOK, GW!Slot, GWP!Slot, GW!Generation, GWP!Generation,
   GW!ProcessState, GWP!ProcessState, GW!Mode, GWP!Mode, GW!Call, GWP!Call,
   GW!Step, GWP!Step, GW!AnyGen, GWP!AnyGen

LEMMA SameStart ==
  ASSUME NEW c \in Caller, NEW s \in Session, NEW g \in Generation,
         NEW video \in BOOLEAN
  PROVE  /\ GW!Start(c, s, g, video) => GWP!Start(c, s, g, video)
         /\ GW!StartRefused(c, s, g, video) => GWP!StartRefused(c, s, g, video)
<1>1. GW!HasCapacity(video, s) <=> GWP!HasCapacity(video, s)
  BY DEF GW!HasCapacity, GWP!HasCapacity, GW!Others, GWP!Others, GW!Encodes,
     GWP!Encodes, GW!Cardinality, GWP!Cardinality, GW!IsFiniteSet, GWP!IsFiniteSet
<1>2. GW!StopWorker(c, s) <=> GWP!StopWorker(c, s)
  BY DEF GW!StopWorker, GWP!StopWorker, GW!Generation, GWP!Generation
<1>3. GW!Idle = GWP!Idle
  BY DEF GW!Idle, GWP!Idle
<1>4. QED
  BY <1>1, <1>2, <1>3 DEF GW!Start, GWP!Start, GW!StartRefused,
     GWP!StartRefused

LEMMA SameStop ==
  ASSUME NEW c \in Caller, NEW s \in Session, NEW g,
         GW!Stop(c, s, g)
  PROVE  GWP!Stop(c, s, g)
<1>1. /\ GW!StopWorker(c, s) <=> GWP!StopWorker(c, s)
      /\ GW!Spares(s, g) <=> GWP!Spares(s, g)
      /\ GW!Cancels(s, g) <=> GWP!Cancels(s, g)
      /\ GW!Targets(s, g) = GWP!Targets(s, g)
      /\ GW!Idle = GWP!Idle
  BY DEF GW!StopWorker, GWP!StopWorker, GW!Generation, GWP!Generation,
     GW!Spares, GWP!Spares, GW!Cancels, GWP!Cancels, GW!Targets, GWP!Targets,
     GW!Idle, GWP!Idle, GW!AnyGen, GWP!AnyGen
<1>2. QED
  BY <1>1 DEF GW!Stop, GWP!Stop

LEMMA SameReturn ==
  ASSUME NEW c \in Caller, GW!Return(c)
  PROVE  GWP!Return(c)
BY DEF GW!Return, GWP!Return, GW!Idle, GWP!Idle

LEMMA SameInternal ==
  ASSUME NEW c \in Caller, GW!Internal(c)
  PROVE  GWP!Internal(c)
BY DEF GW!Internal, GWP!Internal, GW!StopWorkerDone, GWP!StopWorkerDone,
   GW!KillLeftover, GWP!KillLeftover, GW!Joined, GWP!Joined, GW!Resume,
   GWP!Resume, GW!Seek, GWP!Seek, GW!Spawn, GWP!Spawn, GW!SpawnedAs,
   GWP!SpawnedAs, GW!SpawnCancelled, GWP!SpawnCancelled, GW!StartFailed,
   GWP!StartFailed, GW!Generation, GWP!Generation

LEMMA SameProcesses == GW!Processes => GWP!Processes
BY DEF GW!Processes, GWP!Processes, GW!Exit, GWP!Exit, GW!Ended, GWP!Ended,
   GW!Generation, GWP!Generation

-----------------------------------------------------------------------------
(***************************************************************************)
(* The rows.  Every step but the one that begins a playback moves them the *)
(* same way: versions grow, a row that changes is not left in preparing,   *)
(* only preparing leads to ready, and what has ended stays ended.          *)
(***************************************************************************)
RowMoves(t) ==
  /\ lapsed[t] => lapsed'[t]
  /\ version'[t] >= version[t] /\ generation'[t] >= generation[t]
  /\ version'[t] = version[t] =>
       state'[t] = state[t] /\ generation'[t] = generation[t]
  /\ state'[t] = "preparing" => version'[t] = version[t]
  /\ state'[t] = "ready" =>
       state[t] \in {"preparing", "ready"} /\ generation'[t] = generation[t]
  /\ Ended(t) => Ended(t)'

RowsMove == RowsOK' /\ \A t \in Session : RowMoves(t)

LEMMA SameRowsMove ==
  ASSUME RowsOK, UNCHANGED db
  PROVE  RowsMove
<1>1. RowsOK'
  BY DEF RowsOK, DB!TypeOK, db
<1>2. QED
  BY <1>1 DEF RowsMove, RowMoves, Ended, db, RowsOK, DB!TypeOK

LEMMA TransitionMoves ==
  ASSUME RowsOK, NEW s \in Session, NEW v, NEW to, NEW advance \in {0, 1},
         NEW late, DB!Transition(s, v, to, advance, late),
         to # "preparing", to = "ready" => advance = 0
  PROVE  /\ RowsMove
         /\ version[s] = v /\ DB!CanTransition(state[s], to)
         /\ lapsed' = lapsed
         /\ \A t \in Session :
              /\ state'[t] = IF t = s THEN to ELSE state[t]
              /\ version'[t] = IF t = s THEN v + 1 ELSE version[t]
              /\ generation'[t] = IF t = s THEN generation[t] + advance
                                           ELSE generation[t]
<1>1. /\ to \in DB!States \ DB!Vacant /\ ~Ended(s)
      /\ to = "ready" => state[s] = "preparing"
      /\ version[s] = v /\ DB!CanTransition(state[s], to)
  BY DEF DB!Transition, DB!CanCommit, DB!CanTransition, RowsOK, DB!TypeOK, Ended
<1>2. /\ lapsed' = lapsed /\ owner' = owner
      /\ \A t \in Session :
           /\ state'[t] = IF t = s THEN to ELSE state[t]
           /\ version'[t] = IF t = s THEN v + 1 ELSE version[t]
           /\ generation'[t] = IF t = s THEN generation[t] + advance
                                        ELSE generation[t]
  BY <1>1 DEF DB!Transition, RowsOK, DB!TypeOK
<1>3. DB!TypeOK'
  <2>1. state' \in [Session -> DB!States]
    BY <1>1 DEF DB!Transition, RowsOK, DB!TypeOK
  <2>2. version' \in [Session -> Nat] /\ generation' \in [Session -> Nat]
    BY DEF DB!Transition, RowsOK, DB!TypeOK
  <2>3. selected' \in [Session -> File \cup {None}] /\ files' \in [Session -> SUBSET File]
    BY DEF DB!Transition, RowsOK, DB!TypeOK
  <2>4. QED
    BY <2>1, <2>2, <2>3 DEF DB!Transition, RowsOK, DB!TypeOK, DB!ReplayRow
<1>4. RowsOK'
  BY <1>1, <1>2, <1>3 DEF RowsOK, Ended
<1>5. ASSUME NEW t \in Session PROVE RowMoves(t)
  BY <1>1, <1>2 DEF RowMoves, Ended, RowsOK, DB!TypeOK
<1>6. QED
  BY <1>1, <1>2, <1>4, <1>5 DEF RowsMove

LEMMA CommandMoves ==
  ASSUME RowsOK, NEW s \in Session,
         \/ \E f \in File : DB!SelectFile(s, f) \/ DB!SaveProbe(s, version[s], f)
         \/ DB!RequestStop(s) \/ DB!ClearEngine(s) \/ DB!Lapse(s)
  PROVE  RowsMove
<1>1. ASSUME NEW f \in File, DB!SelectFile(s, f)
      PROVE  RowsMove
  BY <1>1 DEF DB!SelectFile, RowsOK, DB!TypeOK, RowsMove, RowMoves, Ended,
     DB!ReplayRow
<1>2. ASSUME NEW f \in File, DB!SaveProbe(s, version[s], f)
      PROVE  RowsMove
  BY <1>2 DEF DB!SaveProbe, DB!ProbeAwaited, RowsOK, DB!TypeOK, RowsMove,
     RowMoves, Ended, DB!ReplayRow
<1>3. CASE DB!RequestStop(s)
  BY <1>3 DEF DB!RequestStop, RowsOK, DB!TypeOK, RowsMove, RowMoves, Ended,
     DB!ReplayRow
<1>4. CASE DB!ClearEngine(s)
  BY <1>4 DEF DB!ClearEngine, RowsOK, DB!TypeOK, RowsMove, RowMoves, Ended,
     DB!ReplayRow
<1>5. CASE DB!Lapse(s)
  BY <1>5 DEF DB!Lapse, RowsOK, DB!TypeOK, RowsMove, RowMoves, Ended,
     DB!ReplayRow
<1>6. QED
  BY <1>1, <1>2, <1>3, <1>4, <1>5

LEMMA LogoutMoves ==
  ASSUME RowsOK, NEW o \in Owner, DB!Logout(o)
  PROVE  RowsMove
<1>1. RowsOK'
  BY DEF DB!Logout, RowsOK, DB!TypeOK, DB!ReplayRow
<1>2. ASSUME NEW t \in Session PROVE RowMoves(t)
  BY DEF DB!Logout, RowsOK, DB!TypeOK, RowMoves, Ended
<1>3. QED
  BY <1>1, <1>2 DEF RowsMove

\* A compare-and-set of a task, won or lost.
LEMMA WriteMoves ==
  ASSUME RowsOK, NEW s \in Session, NEW v, NEW to, NEW advance \in {0, 1},
         NEW late, to # "preparing", to = "ready" => advance = 0,
         Write(s, v, to, advance, late) \/ WriteLost(s, v, to, late)
  PROVE  RowsMove
<1>1. CASE Write(s, v, to, advance, late)
  BY <1>1, TransitionMoves DEF Write
<1>2. CASE WriteLost(s, v, to, late)
  BY <1>2, SameRowsMove DEF WriteLost
<1>3. QED
  BY <1>1, <1>2

LEMMA PlaybackMoves ==
  ASSUME RowsOK, NEW s \in Session, NEW p \in Output, Playback(s, p)
  PROVE  /\ RowsOK'
         /\ generation[s] + 1 \in Generation /\ ~Ended(s)
         /\ lapsed' = lapsed
         /\ \A t \in Session :
              /\ state'[t] = IF t = s THEN "preparing" ELSE state[t]
              /\ version'[t] = IF t = s THEN version[t] + 1 ELSE version[t]
              /\ generation'[t] = IF t = s THEN generation[t] + 1
                                           ELSE generation[t]
<1>1. PICK k \in Key : DB!BeginPlayback(s, k, p)
  BY DEF Playback
<1>2. ~(state[s] = "ready" /\ output[s] = p)
  BY DEF Playback
<1>3. /\ state[s] \in {"awaiting_playback", "ready"}
      /\ generation[s] < MaxGeneration
      /\ state' = [state EXCEPT ![s] = "preparing"]
      /\ version' = [version EXCEPT ![s] = @ + 1]
      /\ generation' = [generation EXCEPT ![s] = generation[s] + 1]
      /\ output' = [output EXCEPT ![s] = p]
      /\ replay' = replay \cup {[owner |-> owner[s], route |-> "playback",
                                 key |-> k, digest |-> p, session |-> s]}
      /\ UNCHANGED <<owner, lapsed, selected, files, probe, engine>>
  BY <1>1, <1>2 DEF DB!BeginPlayback, DB!NextGeneration
<1>4. owner[s] \in Owner
  BY <1>3 DEF RowsOK
<1>5. replay' \subseteq DB!ReplayRow
  BY <1>3, <1>4 DEF RowsOK, DB!TypeOK, DB!ReplayRow
<1>6. DB!TypeOK'
  BY <1>3, <1>5 DEF RowsOK, DB!TypeOK, DB!ReplayRow
<1>7. RowsOK'
  BY <1>3, <1>6 DEF RowsOK, DB!TypeOK
<1>8. generation[s] + 1 \in Generation
  BY <1>3, PlaybackConstants DEF RowsOK, DB!TypeOK, Generation
<1>9. QED
  BY <1>3, <1>7, <1>8 DEF RowsOK, DB!TypeOK, Ended

\* The rows in the steps of each task.
LEMMA PlayTaskMoves ==
  ASSUME RowsOK, NEW s \in Session, NEW g \in Generation, PlayTask(s, g)
  PROVE  RowsMove
<1>1. CASE Publish(s, g)
  BY <1>1, WriteMoves DEF Publish
<1>2. CASE Revoke(s, g)
  BY <1>2, WriteMoves DEF Revoke
<1>3. CASE ~Publish(s, g) /\ ~Revoke(s, g)
  <2>1. UNCHANGED db
    BY <1>3 DEF PlayTask, StartWorker, SourceMissing, Started, Buffered,
       NotBuffered, Complete, Interrupted, Abort, Aborted
  <2>2. QED
    BY <2>1, SameRowsMove
<1>4. QED
  BY <1>1, <1>2, <1>3

LEMMA RequestMoves ==
  ASSUME RowsOK, NEW s \in Session, Request(s)
  PROVE  RowsMove
<1>1. CASE UNCHANGED db
  BY <1>1, SameRowsMove
<1>2. CASE DB!RequestStop(s) \/ \E f \in File : DB!SelectFile(s, f)
  BY <1>2, CommandMoves
<1>3. QED
  BY <1>1, <1>2 DEF Request, SelectFile, BrokenPlaylist, RequestStop

LEMMA HandlingMoves ==
  ASSUME RowsOK, NEW s \in Session, Handling(s)
  PROVE  RowsMove
<1>1. CASE UNCHANGED db
  BY <1>1, SameRowsMove
<1>2. CASE BrokenPlaylistDone(s)
  BY <1>2, WriteMoves DEF BrokenPlaylistDone
<1>3. CASE StopDone(s)
  BY <1>3, WriteMoves DEF StopDone
<1>4. CASE DB!ClearEngine(s)
  BY <1>4, CommandMoves
<1>5. QED
  BY <1>1, <1>2, <1>3, <1>4 DEF Handling, SelectFileStops, SelectFileDone,
     BrokenPlaylistStops, BrokenPlaylistStopped, CallStop, Stopped,
     FindForCleanup, StopWorkerGone, StopClearsEngine, StopDeferred

LEMMA SweepWriteMoves ==
  ASSUME RowsOK, NEW s \in Session, SweepWrites(s)
  PROVE  RowsMove
<1> DEFINE to == CASE Row(s).state = "stopping" -> "stopped"
                   [] Row(s).state = "expiring" -> "expired"
                   [] OTHER -> "awaiting_playback"
           advance == IF to = "awaiting_playback" THEN 1 ELSE 0
<1>1. to \in {"stopped", "expired", "awaiting_playback"}
  <2>1. CASE Row(s).state \in {"stopping", "expiring"}
    BY <2>1
  <2>2. CASE Row(s).state \notin {"stopping", "expiring"}
    BY <2>2
  <2>3. QED
    BY <2>1, <2>2
<1>2. advance \in {0, 1}
  OBVIOUS
<1>3. \/ Write(s, Row(s).version, to, advance, Row(s).late)
      \/ WriteLost(s, Row(s).version, to, Row(s).late)
  BY DEF SweepWrites
<1> HIDE DEF to, advance
<1>4. QED
  BY <1>1, <1>2, <1>3, WriteMoves

LEMMA SweepMoves ==
  ASSUME RowsOK, Sweep
  PROVE  RowsMove
<1>1. CASE UNCHANGED db
  BY <1>1, SameRowsMove
<1>2. ASSUME NEW s \in Session, SweepExpires(s) \/ SweepFails(s)
      PROVE  RowsMove
  BY <1>2, WriteMoves DEF SweepExpires, SweepFails
<1>3. ASSUME NEW s \in Session, SweepClearsEngine(s)
      PROVE  RowsMove
  BY <1>1, <1>3, CommandMoves DEF SweepClearsEngine
<1>4. QED
  BY <1>1, <1>2, <1>3, SweepWriteMoves DEF Sweep, SweepBegins, SweepEnds,
     SweepStops, SweepPasses, SweepStopped, SweepDefers

LEMMA RowsOwnMoves ==
  ASSUME RowsOK, Rows
  PROVE  RowsMove
<1>1. ASSUME NEW s \in Session, DB!SaveProbe(s, version[s], selected[s])
      PROVE  RowsMove
  <2>1. selected[s] \in File \cup {None}
    BY DEF RowsOK, DB!TypeOK
  <2>2. CASE selected[s] \in File
    BY <1>1, <2>2, CommandMoves
  <2>3. CASE selected[s] = None
    BY <1>1, <2>3 DEF DB!SaveProbe, DB!ProbeAwaited, RowsOK, DB!TypeOK,
       RowsMove, RowMoves, Ended, DB!ReplayRow
  <2>4. QED
    BY <2>1, <2>2, <2>3
<1>2. ASSUME NEW s \in Session, DB!Fail(s)
      PROVE  RowsMove
  BY <1>2, TransitionMoves DEF DB!Fail
<1>3. ASSUME NEW s \in Session, DB!Lapse(s)
      PROVE  RowsMove
  BY <1>3, CommandMoves
<1>4. QED
  BY <1>1, <1>2, <1>3, LogoutMoves DEF Rows

LEMMA StepMoves ==
  ASSUME RowsOK, [Next]_vars
  PROVE  RowsMove \/ \E s \in Session, p \in Output : Playback(s, p)
<1>1. CASE UNCHANGED vars
  BY <1>1, SameRowsMove DEF vars
<1>2. CASE BootWithoutEngine \/ Restart \/ Gateway
  BY <1>2, SameRowsMove DEF BootWithoutEngine, Restart, Gateway, db
<1>3. QED
  BY <1>1, <1>2, PlayTaskMoves, RequestMoves, HandlingMoves, SweepMoves,
     RowsOwnMoves DEF Next

-----------------------------------------------------------------------------
(***************************************************************************)
(* The workers.  The tasks of this process are callers the gateway can     *)
(* count on: they start a generation once, and a restart leaves nothing    *)
(* but directories.                                                        *)
(***************************************************************************)
GatewayMoves == GWP!GatewayOK' /\ GWP!KeepsArtifacts

LEMMA SameGatewayMoves ==
  ASSUME GWP!GatewayOK, UNCHANGED gw
  PROVE  GatewayMoves
<1>1. UNCHANGED GWP!vars
  BY DEF gw, GWP!vars
<1>2. QED
  BY <1>1, PlaybackConstants, GWP!StepGatewayOK DEF GatewayMoves

LEMMA CallMoves ==
  ASSUME GWP!GatewayOK, NEW c \in Caller, NEW s \in Session,
         \/ \E g \in GW!Slot \cup {GW!AnyGen} : GW!Stop(c, s, g)
         \/ GW!Return(c)
  PROVE  GatewayMoves
<1>1. ASSUME NEW g \in GW!Slot \cup {GW!AnyGen}, GW!Stop(c, s, g)
      PROVE  GatewayMoves
  <2>1. g \in GWP!Slot \cup {GWP!AnyGen}
    BY DEF GW!Slot, GWP!Slot, GW!AnyGen, GWP!AnyGen
  <2>2. QED
    BY <1>1, <2>1, SameStop, PlaybackConstants, GWP!StopGatewayOK DEF GatewayMoves
<1>2. CASE GW!Return(c)
  BY <1>2, SameReturn, PlaybackConstants, GWP!ReturnGatewayOK DEF GatewayMoves
<1>3. QED
  BY <1>1, <1>2

LEMMA StartMoves ==
  ASSUME GWP!GatewayOK, StartsOnce, NEW s \in Session, NEW g \in Generation,
         StartWorker(s, g)
  PROVE  GatewayMoves
<1> DEFINE c == PlayCaller(s, g)
           video == output[s] \in Encoded
<1>1. c \in Caller /\ video \in BOOLEAN
  BY CallersDiffer
<1>2. task[<<s, g>>].step = "source"
  BY DEF StartWorker, MoveTask
<1>3. mode[<<s, g>>] = "unstarted"
  BY <1>2 DEF StartsOnce
<1>4. g \in GWP!Generation /\ GWP!Unstarted(s, g)
  BY <1>3 DEF GWP!Generation, Generation, GWP!Unstarted
<1>5. GW!Start(c, s, g, video) \/ GW!StartRefused(c, s, g, video)
  BY DEF StartWorker
<1> HIDE DEF c, video
<1>6. GWP!Start(c, s, g, video) \/ GWP!StartRefused(c, s, g, video)
  BY <1>1, <1>5, SameStart
<1>7. QED
  BY <1>1, <1>4, <1>6, PlaybackConstants, GWP!StartGatewayOK,
     GWP!StartRefusedGatewayOK DEF GatewayMoves

LEMMA DirsGatewayOK ==
  ASSUME GWP!GatewayOK, dirs' \subseteq dirs,
         UNCHANGED <<worker, completed, starting, cancelled, stopping, process,
                     mode, call>>
  PROVE  GWP!GatewayOK'
<1>1. GWP!TypeOK'
  BY DEF GWP!GatewayOK, GWP!TypeOK
<1>2. GWP!CallsOK' /\ GWP!OneStart' /\ GWP!MapsOK'
  BY DEF GWP!GatewayOK, GWP!CallsOK, GWP!CallOK, GWP!OneStart, GWP!MapsOK,
     GWP!Unstarted
<1>3. GWP!ProcessesOK' /\ GWP!TargetsOK'
  BY DEF GWP!GatewayOK, GWP!ProcessesOK, GWP!TargetsOK, GWP!Unstarted
<1>4. QED
  BY <1>1, <1>2, <1>3 DEF GWP!GatewayOK

LEMMA RestartGatewayOK ==
  ASSUME GWP!GatewayOK, Restart
  PROVE  GWP!GatewayOK'
<1>0. GW!Idle = GWP!Idle /\ Generation = GWP!Generation
  BY DEF GW!Idle, GWP!Idle, Generation, GWP!Generation
<1>1. GWP!TypeOK'
  <2>1. GWP!Idle \in GWP!Call
    BY PlaybackConstants, GWP!IdleIsCall
  <2>2. /\ worker' \in [Session -> GWP!Slot] /\ completed' \in [Session -> GWP!Slot]
        /\ starting' \in [Session -> GWP!Slot]
    BY PlaybackConstants DEF Restart, GWP!Slot
  <2>3. /\ process' \in [Session \X GWP!Generation -> GWP!ProcessState]
        /\ mode' \in [Session \X GWP!Generation -> GWP!Mode]
    BY <1>0 DEF Restart, GWP!ProcessState, GWP!Mode
  <2>4. QED
    BY <1>0, <2>1, <2>2, <2>3 DEF Restart, GWP!GatewayOK, GWP!TypeOK
<1>2. GWP!CallsOK' /\ GWP!OneStart' /\ GWP!TargetsOK'
  <2>1. \A c \in Caller : call'[c].step = "idle"
    BY DEF Restart, GW!Idle
  <2>2. QED
    BY <2>1 DEF GWP!CallsOK, GWP!CallOK, GWP!OneStart, GWP!TargetsOK,
       GWP!StartStep, GWP!Stopper, GWP!Waiter
<1>3. GWP!MapsOK' /\ GWP!ProcessesOK'
  BY <1>0 DEF Restart, GWP!MapsOK, GWP!ProcessesOK
<1>4. QED
  BY <1>1, <1>2, <1>3 DEF GWP!GatewayOK

LEMMA HandlerGen ==
  ASSUME TasksTyped, NEW h \in Handler, NEW s \in Session
  PROVE  handler[<<h, s>>].gen \in GW!Slot
BY DEF TasksTyped

LEMMA TaskGatewayMoves ==
  ASSUME GWP!GatewayOK, StartsOnce, NEW s \in Session, NEW g \in Generation,
         PlayTask(s, g)
  PROVE  GatewayMoves
<1>1. CASE StartWorker(s, g)
  BY <1>1, StartMoves
<1>2. CASE Started(s, g) \/ Aborted(s, g)
  BY <1>2, CallMoves, CallersDiffer DEF Started, Aborted
<1>3. CASE Abort(s, g)
  <2>1. g \in GW!Slot
    BY DEF GW!Slot, Generation
  <2>2. QED
    BY <1>3, <2>1, CallMoves, CallersDiffer DEF Abort
<1>4. CASE UNCHANGED gw
  BY <1>4, SameGatewayMoves
<1>5. QED
  BY <1>1, <1>2, <1>3, <1>4 DEF PlayTask, SourceMissing, Buffered, NotBuffered,
     Publish, Complete, Interrupted, Revoke

LEMMA HandlingGatewayMoves ==
  ASSUME GWP!GatewayOK, TasksTyped, NEW s \in Session, Handling(s)
  PROVE  GatewayMoves
<1>1. CASE UNCHANGED gw
  BY <1>1, SameGatewayMoves
<1>2. ASSUME NEW h \in Handler, NEW from, CallStop(h, s, handler[<<h, s>>].gen, from)
      PROVE  GatewayMoves
  BY <1>2, CallMoves, CallersDiffer, HandlerGen DEF CallStop
<1>3. ASSUME NEW h \in Handler, NEW to, Stopped(h, s, to)
      PROVE  GatewayMoves
  BY <1>3, CallMoves, CallersDiffer DEF Stopped
<1>4. ASSUME "stop" \in Actors, FindForCleanup(s)
      PROVE  GatewayMoves
  <2>1. "stop" \in Handler
    BY <1>4 DEF Handler
  <2>2. QED
    BY <1>1, <1>4, <2>1, CallMoves, CallersDiffer DEF FindForCleanup
<1>5. CASE "select" \in Actors /\ (SelectFileStops(s) \/ SelectFileDone(s))
  <2>1. "select" \in Handler
    BY <1>5 DEF Handler
  <2>2. QED
    BY <1>2, <1>3, <1>5, <2>1 DEF SelectFileStops, SelectFileDone
<1>6. CASE "hls" \in Actors /\ (BrokenPlaylistStops(s) \/ BrokenPlaylistStopped(s))
  <2>1. "hls" \in Handler
    BY <1>6 DEF Handler
  <2>2. QED
    BY <1>2, <1>3, <1>6, <2>1 DEF BrokenPlaylistStops, BrokenPlaylistStopped
<1>7. CASE "stop" \in Actors /\ StopWorkerGone(s)
  <2>1. "stop" \in Handler
    BY <1>7 DEF Handler
  <2>2. QED
    BY <1>3, <1>7, <2>1 DEF StopWorkerGone
<1>8. QED
  BY <1>1, <1>4, <1>5, <1>6, <1>7 DEF Handling, BrokenPlaylistDone,
     StopClearsEngine, StopDeferred, StopDone

LEMMA SweepGatewayMoves ==
  ASSUME GWP!GatewayOK, Sweep, ~SweepEnds
  PROVE  GatewayMoves
<1>1. CASE UNCHANGED gw
  BY <1>1, SameGatewayMoves
<1>2. ASSUME NEW s \in Session, SweepStops(s) \/ SweepStopped(s)
      PROVE  GatewayMoves
  BY <1>2, CallMoves, CallersDiffer DEF SweepStops, SweepStopped
<1>3. QED
  BY <1>1, <1>2 DEF Sweep, SweepBegins, SweepExpires, SweepFails, SweepPasses,
     SweepClearsEngine, SweepDefers, SweepWrites

LEMMA SweepEndsGatewayOK ==
  ASSUME GWP!GatewayOK, SweepEnds
  PROVE  GWP!GatewayOK'
<1>1. CASE UNCHANGED gw
  BY <1>1, SameGatewayMoves DEF GatewayMoves
<1>2. CASE GW!CleanupStaleDirectories(sweep.known)
  BY <1>2, DirsGatewayOK DEF GW!CleanupStaleDirectories
<1>3. QED
  BY <1>1, <1>2 DEF SweepEnds

LEMMA GatewayOwnMoves ==
  ASSUME GWP!GatewayOK, Gateway
  PROVE  GatewayMoves
BY SameInternal, SameProcesses, PlaybackConstants, GWP!InternalGatewayOK,
   GWP!ProcessesGatewayOK DEF Gateway, GatewayMoves

LEMMA StepGateway ==
  ASSUME GWP!GatewayOK, StartsOnce, TasksTyped, [Next]_vars
  PROVE  GatewayMoves \/ (GWP!GatewayOK' /\ (Restart \/ SweepEnds))
<1>1. CASE UNCHANGED gw
  BY <1>1, SameGatewayMoves
<1>2. CASE Restart \/ SweepEnds
  BY <1>2, RestartGatewayOK, SweepEndsGatewayOK
<1>3. CASE ~(Restart \/ SweepEnds) /\ Next
  BY <1>1, <1>3, TaskGatewayMoves, HandlingGatewayMoves, SweepGatewayMoves,
     GatewayOwnMoves DEF Next, Playback, Request, SelectFile, BrokenPlaylist,
     RequestStop, BootWithoutEngine, Rows
<1>4. QED
  BY <1>1, <1>2, <1>3 DEF vars, gw

-----------------------------------------------------------------------------
(***************************************************************************)
(* What kind of values the tasks hold.                                     *)
(***************************************************************************)
LEMMA MoveTaskTyped ==
  ASSUME TasksTyped, NEW s \in Session, NEW g \in Generation, NEW from,
         NEW to \in TaskStep, MoveTask(s, g, from, to)
  PROVE  TasksTyped'
<1>1. task' \in [Session \X Generation -> [step : TaskStep, version : Nat]]
  BY DEF MoveTask, TasksTyped
<1>2. QED
  BY <1>1 DEF MoveTask, TasksTyped

LEMMA AskTyped ==
  ASSUME TasksTyped, NEW h \in Handler, NEW s \in Session,
         NEW step \in RequestStep, NEW v \in Nat, NEW g \in GW!Slot,
         Ask(h, s, step, v, g)
  PROVE  TasksTyped'
BY DEF Ask, TasksTyped

LEMMA ProceedTyped ==
  ASSUME TasksTyped, NEW h \in Handler, NEW s \in Session, NEW from,
         NEW to \in RequestStep, Proceed(h, s, from, to)
  PROVE  TasksTyped'
<1>1. NoRequest \in [step : RequestStep, version : Nat, gen : GW!Slot]
  BY PlaybackConstants DEF NoRequest, RequestStep, GW!Slot
<1>2. [handler[<<h, s>>] EXCEPT !.step = to]
        \in [step : RequestStep, version : Nat, gen : GW!Slot]
  BY DEF TasksTyped
<1>3. handler' \in [Handler \X Session ->
                      [step : RequestStep, version : Nat, gen : GW!Slot]]
  BY <1>1, <1>2 DEF Proceed, TasksTyped
<1>4. QED
  BY <1>3 DEF Proceed, TasksTyped

LEMMA PlayTaskTyped ==
  ASSUME RowsOK, TasksTyped, NEW s \in Session, NEW g \in Generation, PlayTask(s, g)
  PROVE  TasksTyped'
<1>1. CASE Publish(s, g)
  <2>1. task[<<s, g>>] \in [step : TaskStep, version : Nat]
    BY DEF TasksTyped
  <2>2. [task[<<s, g>>] EXCEPT !.step = "abort"] \in [step : TaskStep, version : Nat]
    BY <2>1 DEF TaskStep
  <2>3. [step |-> "wait_complete", version |-> task[<<s, g>>].version + 1]
          \in [step : TaskStep, version : Nat]
    BY <2>1 DEF TaskStep
  <2>4. task' \in [Session \X Generation -> [step : TaskStep, version : Nat]]
    BY <1>1, <2>2, <2>3 DEF Publish, TasksTyped
  <2>5. QED
    BY <1>1, <2>4 DEF Publish, TasksTyped
<1>2. CASE ~Publish(s, g)
  <2>1. \E from : \E to \in TaskStep : MoveTask(s, g, from, to)
    BY <1>2 DEF PlayTask, StartWorker, SourceMissing, Started, Buffered,
       NotBuffered, Complete, Interrupted, Abort, Aborted, Revoke, TaskStep
  <2>2. QED
    BY <2>1, MoveTaskTyped
<1>3. QED
  BY <1>1, <1>2

LEMMA RequestTyped ==
  ASSUME RowsOK, TasksTyped, TasksOK, NEW s \in Session, Request(s)
  PROVE  TasksTyped'
<1>1. version[s] \in Nat /\ generation[s] \in Nat
  BY DEF RowsOK, DB!TypeOK
<1>2. CASE "select" \in Actors /\ SelectFile(s)
  <2>1. "select" \in Handler
    BY <1>2 DEF Handler
  <2>2. generation[s] \in GW!Slot
    BY <1>1, <1>2, PlaybackConstants DEF SelectFile, DB!SelectFile, GW!Slot
  <2>3. "chosen" \in RequestStep
    BY DEF RequestStep
  <2>4. Ask("select", s, "chosen", version[s] + 1, generation[s])
    BY <1>2 DEF SelectFile
  <2>5. QED
    BY <1>1, <2>1, <2>2, <2>3, <2>4, AskTyped
<1>3. CASE "hls" \in Actors /\ BrokenPlaylist(s)
  <2>1. "hls" \in Handler
    BY <1>3 DEF Handler
  <2>2. generation[s] \in GW!Slot
    BY <1>3 DEF BrokenPlaylist, TasksOK, GW!Slot, Generation
  <2>3. "broken" \in RequestStep
    BY DEF RequestStep
  <2>4. Ask("hls", s, "broken", version[s], generation[s])
    BY <1>3 DEF BrokenPlaylist
  <2>5. QED
    BY <1>1, <2>1, <2>2, <2>3, <2>4, AskTyped
<1>4. CASE "stop" \in Actors /\ RequestStop(s)
  <2>1. "stop" \in Handler
    BY <1>4 DEF Handler
  <2>2. 0 \in GW!Slot
    BY PlaybackConstants DEF GW!Slot
  <2>3. "find" \in RequestStep
    BY DEF RequestStep
  <2>4. Ask("stop", s, "find", 0, 0)
    BY <1>4 DEF RequestStop
  <2>5. QED
    BY <2>1, <2>2, <2>3, <2>4, AskTyped
<1>5. QED
  BY <1>2, <1>3, <1>4 DEF Request

LEMMA HandlingTyped ==
  ASSUME RowsOK, TasksTyped, NEW s \in Session, Handling(s)
  PROVE  TasksTyped'
<1>1. ASSUME NEW h \in Handler, NEW from,
             \E to \in {"none", "stopping", "write", "clear"} : Proceed(h, s, from, to)
      PROVE  TasksTyped'
  BY <1>1, ProceedTyped DEF RequestStep
<1>2. CASE "select" \in Actors /\ (SelectFileStops(s) \/ SelectFileDone(s))
  <2>1. "select" \in Handler
    BY <1>2 DEF Handler
  <2>2. QED
    BY <1>1, <1>2, <2>1 DEF SelectFileStops, SelectFileDone, CallStop, Stopped
<1>3. CASE /\ "hls" \in Actors
           /\ BrokenPlaylistStops(s) \/ BrokenPlaylistStopped(s) \/ BrokenPlaylistDone(s)
  <2>1. "hls" \in Handler
    BY <1>3 DEF Handler
  <2>2. QED
    BY <1>1, <1>3, <2>1 DEF BrokenPlaylistStops, BrokenPlaylistStopped,
       BrokenPlaylistDone, CallStop, Stopped
<1>4. CASE /\ "stop" \in Actors
           /\ StopWorkerGone(s) \/ StopClearsEngine(s) \/ StopDeferred(s) \/ StopDone(s)
  <2>1. "stop" \in Handler
    BY <1>4 DEF Handler
  <2>2. QED
    BY <1>1, <1>4, <2>1 DEF StopWorkerGone, StopClearsEngine, StopDeferred,
       StopDone, Stopped
<1>5. CASE "stop" \in Actors /\ FindForCleanup(s)
  <2>1. /\ NoRequest \in [step : RequestStep, version : Nat, gen : GW!Slot]
        /\ [step |-> "stopping", version |-> version[s], gen |-> 0]
             \in [step : RequestStep, version : Nat, gen : GW!Slot]
    BY PlaybackConstants DEF NoRequest, RequestStep, GW!Slot, RowsOK, DB!TypeOK
  <2>2. handler' \in [Handler \X Session ->
                        [step : RequestStep, version : Nat, gen : GW!Slot]]
    BY <1>5, <2>1 DEF FindForCleanup, TasksTyped
  <2>3. QED
    BY <1>5, <2>2 DEF FindForCleanup, TasksTyped
<1>6. QED
  BY <1>2, <1>3, <1>4, <1>5 DEF Handling

SweepType == [step : SweepStep, known : SUBSET Session, todo : SUBSET Session,
              cur : Session \cup {None}, rows : [Session -> SweptRow],
              deferred : BOOLEAN]

LEMMA NoSweepTyped == NoSweep \in SweepType /\ NoRow \in SweptRow
BY DEF NoSweep, NoRow, SweepType, SweepStep, SweptRow

LEMMA StayLeaveTyped ==
  ASSUME sweep \in SweepType, NEW s \in Session
  PROVE  /\ \A step \in SweepStep : Stay(step, s) \in SweepType
         /\ \A deferred \in BOOLEAN : Leave(s, deferred) \in SweepType
<1>1. ASSUME NEW step \in SweepStep PROVE Stay(step, s) \in SweepType
  BY DEF Stay, SweepType
<1>2. ASSUME NEW deferred \in BOOLEAN PROVE Leave(s, deferred) \in SweepType
  <2>1. [sweep.rows EXCEPT ![s] = NoRow] \in [Session -> SweptRow]
    BY NoSweepTyped DEF SweepType
  <2>2. /\ sweep.todo \ {s} \in SUBSET Session
        /\ (sweep.deferred \/ deferred) \in BOOLEAN
        /\ "next" \in SweepStep
    BY DEF SweepType, SweepStep
  <2>3. QED
    BY <2>1, <2>2 DEF Leave, SweepType
<1>3. QED
  BY <1>1, <1>2

LEMMA SweepTyped ==
  ASSUME RowsOK, TasksTyped, Sweep
  PROVE  TasksTyped'
<1>1. sweep \in SweepType
  BY DEF TasksTyped, SweepType
<1>2. SUFFICES /\ sweep' \in SweepType /\ task' = task /\ handler' = handler
               /\ startup' \in {"boot", "pending", "done"} /\ restarts' = restarts
  BY DEF TasksTyped, SweepType
<1>3. CASE SweepBegins
  <2> DEFINE listed == {s \in Session : Listed(s)}
             rows == [s \in Session |->
                        IF s \in listed
                          THEN [state |-> state[s], version |-> version[s],
                                gen |-> generation[s], late |-> lapsed[s]]
                          ELSE NoRow]
  <2>1. rows \in [Session -> SweptRow]
    <3>1. \A s \in Session : /\ state[s] \in DB!States /\ version[s] \in Nat
                             /\ generation[s] \in Nat /\ lapsed[s] \in BOOLEAN
      BY DEF RowsOK, DB!TypeOK
    <3>2. QED
      BY <3>1, NoSweepTyped DEF SweptRow
  <2>2. sweep' = [NoSweep EXCEPT !.step = "next", !.known = listed,
                    !.todo = listed, !.rows = rows]
    BY <1>3 DEF SweepBegins
  <2>3. listed \in SUBSET Session /\ "next" \in SweepStep
    BY DEF SweepStep
  <2> HIDE DEF rows, listed
  <2>4. sweep' \in SweepType
    BY <2>1, <2>2, <2>3, NoSweepTyped DEF SweepType
  <2>5. QED
    BY <1>3, <2>4 DEF SweepBegins, TasksTyped
<1>4. CASE SweepEnds
  BY <1>4, NoSweepTyped DEF SweepEnds, TasksTyped, StartupDone
<1>5. ASSUME NEW s \in Session, SweepExpires(s)
      PROVE  sweep' \in SweepType
  <2>1. CASE sweep' = Leave(s, TRUE)
    BY <1>1, <2>1, StayLeaveTyped
  <2>2. CASE sweep' = [Stay("finish", s) EXCEPT !.rows[s].state = "expiring",
                         !.rows[s].version = Row(s).version + 1]
    <3>1. Stay("finish", s) \in SweepType
      BY <1>1, StayLeaveTyped DEF SweepStep
    <3>2. Row(s).version \in Nat
      BY <1>1 DEF Row, SweepType, SweptRow
    <3> DEFINE base == Stay("finish", s)
               late == [base.rows[s] EXCEPT !.state = "expiring"]
               row == [late EXCEPT !.version = Row(s).version + 1]
    <3>3. base.rows \in [Session -> SweptRow] /\ base.rows[s] \in SweptRow
      BY <3>1 DEF SweepType
    <3>4. row \in SweptRow
      <4>1. late \in SweptRow
        BY <3>3 DEF SweptRow
      <4> HIDE DEF late
      <4>2. QED
        BY <3>2, <4>1 DEF SweptRow
    <3>5. sweep' = [base EXCEPT !.rows = [base.rows EXCEPT ![s] = row]]
      <4> HIDE DEF base
      <4>1. [base EXCEPT !.rows[s].state = "expiring",
                         !.rows[s].version = Row(s).version + 1]
              = [base EXCEPT !.rows = [base.rows EXCEPT ![s] = row]]
        BY <3>1, <3>3 DEF SweepType, SweptRow
      <4>2. QED
        BY <2>2, <4>1 DEF base
    <3>6. [base.rows EXCEPT ![s] = row] \in [Session -> SweptRow]
      BY <3>3, <3>4
    <3> HIDE DEF base, row
    <3>7. QED
      BY <3>1, <3>5, <3>6 DEF SweepType, base
  <2>3. QED
    BY <1>5, <2>1, <2>2 DEF SweepExpires
<1>6. ASSUME NEW s \in Session,
             \/ SweepFails(s) \/ SweepStops(s) \/ SweepPasses(s) \/ SweepStopped(s)
             \/ SweepClearsEngine(s) \/ SweepDefers(s) \/ SweepWrites(s)
      PROVE  sweep' \in SweepType
  <2>1. \/ \E step \in {"stopping", "clear", "write"} : sweep' = Stay(step, s)
        \/ \E deferred \in BOOLEAN : sweep' = Leave(s, deferred)
    BY <1>6 DEF SweepFails, SweepStops, SweepPasses, SweepStopped,
       SweepClearsEngine, SweepDefers, SweepWrites
  <2>2. QED
    BY <1>1, <2>1, StayLeaveTyped DEF SweepStep
<1>7. ASSUME NEW s \in Session,
             \/ SweepExpires(s) \/ SweepFails(s) \/ SweepStops(s) \/ SweepPasses(s)
             \/ SweepStopped(s) \/ SweepClearsEngine(s) \/ SweepDefers(s)
             \/ SweepWrites(s)
      PROVE  UNCHANGED <<task, handler, startup, restarts>>
  BY <1>7 DEF SweepExpires, SweepFails, SweepStops, SweepPasses, SweepStopped,
     SweepClearsEngine, SweepDefers, SweepWrites, Sweeping
<1>8. QED
  BY <1>3, <1>4, <1>5, <1>6, <1>7 DEF Sweep, TasksTyped

LEMMA StepTyped ==
  ASSUME RowsOK, TasksTyped, TasksOK, [Next]_vars
  PROVE  TasksTyped'
<1>1. CASE UNCHANGED tasks
  BY <1>1 DEF tasks, TasksTyped
<1>2. ASSUME NEW s \in Session, NEW p \in Output, Playback(s, p)
      PROVE  TasksTyped'
  <2>1. version[s] + 1 \in Nat
    BY DEF RowsOK, DB!TypeOK
  <2>2. [step |-> "source", version |-> version[s] + 1]
          \in [step : TaskStep, version : Nat]
    BY <2>1 DEF TaskStep
  <2>3. task' \in [Session \X Generation -> [step : TaskStep, version : Nat]]
    BY <1>2, <2>2 DEF Playback, TasksTyped
  <2>4. QED
    BY <1>2, <2>3 DEF Playback, TasksTyped
<1>3. CASE Restart
  <2>1. restarts' \in 0..MaxRestarts
    BY <1>3, PlaybackAssumption DEF Restart, TasksTyped
  <2>2. /\ NoTask \in [step : TaskStep, version : Nat]
        /\ NoRequest \in [step : RequestStep, version : Nat, gen : GW!Slot]
    BY PlaybackConstants DEF NoTask, NoRequest, TaskStep, RequestStep, GW!Slot
  <2>3. /\ task' \in [Session \X Generation -> [step : TaskStep, version : Nat]]
        /\ handler' \in [Handler \X Session ->
                           [step : RequestStep, version : Nat, gen : GW!Slot]]
    BY <1>3, <2>2 DEF Restart
  <2>4. QED
    BY <1>3, <2>1, <2>3, NoSweepTyped DEF Restart, TasksTyped, SweepType
<1>4. CASE BootWithoutEngine
  BY <1>4 DEF BootWithoutEngine, TasksTyped
<1>5. QED
  BY <1>1, <1>2, <1>3, <1>4, PlayTaskTyped, RequestTyped, HandlingTyped,
     SweepTyped DEF Next, Rows, Gateway, vars, tasks

-----------------------------------------------------------------------------
(***************************************************************************)
(* What a task knows of its row.  A task that has the row's version speaks *)
(* for the generation the row plays, and one that has not is overruled:    *)
(* its write will lose.                                                    *)
(***************************************************************************)
LEMMA TaskFields ==
  ASSUME TasksTyped, NEW s \in Session, NEW g \in Generation
  PROVE  task[<<s, g>>].version \in Nat /\ task[<<s, g>>].step \in TaskStep
BY DEF TasksTyped

LEMMA RowFields ==
  ASSUME RowsMove, RowsOK, NEW t \in Session
  PROVE  /\ version[t] \in Nat /\ generation[t] \in Nat
         /\ version'[t] \in Nat /\ generation'[t] \in Nat
         /\ RowMoves(t)
BY DEF RowsMove, RowsOK, DB!TypeOK

\* Whatever else happens, a task that stands still stays right about its row.
LEMMA StillTaskOK ==
  ASSUME RowsMove, RowsOK, TasksTyped, NEW t \in Session, NEW h \in Generation,
         TaskOK(t, h), task'[<<t, h>>] = task[<<t, h>>]
  PROVE  TaskOK(t, h)'
BY RowFields, TaskFields DEF TaskOK, RowMoves, Generation

LEMMA PlayingHasGeneration ==
  ASSUME RowsMove, RowsOK, TasksOK
  PROVE  \A t \in Session :
           state'[t] \in {"preparing", "ready"} => generation'[t] \in Generation
BY RowFields DEF TasksOK, RowMoves

LEMMA SameTasksOK ==
  ASSUME RowsMove, RowsOK, TasksTyped, TasksOK, task' = task
  PROVE  TasksOK'
BY StillTaskOK, PlayingHasGeneration DEF TasksOK

LEMMA MoveTaskFields ==
  ASSUME TasksTyped, NEW s \in Session, NEW g \in Generation, NEW from, NEW to,
         MoveTask(s, g, from, to)
  PROVE  /\ task'[<<s, g>>].step = to
         /\ task'[<<s, g>>].version = task[<<s, g>>].version
         /\ \A t \in Session, h \in Generation :
              <<t, h>> # <<s, g>> => task'[<<t, h>>] = task[<<t, h>>]
BY DEF MoveTask, TasksTyped

LEMMA MoveTaskOK ==
  ASSUME RowsMove, RowsOK, TasksTyped, TasksOK, NEW s \in Session,
         NEW g \in Generation, NEW from \in TaskStep \ {"none", "done"},
         NEW to \in TaskStep \ {"none", "wait_complete"},
         MoveTask(s, g, from, to)
  PROVE  TasksOK'
<1>1. TaskOK(s, g) /\ task[<<s, g>>].step = from
  BY DEF TasksOK, MoveTask
<1>2. TaskOK(s, g)'
  BY <1>1, MoveTaskFields, RowFields, TaskFields DEF TaskOK, RowMoves, Generation
<1>3. \A t \in Session, h \in Generation : TaskOK(t, h)'
  <2>1. ASSUME NEW t \in Session, NEW h \in Generation, <<t, h>> # <<s, g>>
        PROVE  TaskOK(t, h)'
    <3>1. \A u \in Session, k \in Generation :
            <<u, k>> # <<s, g>> => task'[<<u, k>>] = task[<<u, k>>]
      BY MoveTaskFields
    <3>2. task'[<<t, h>>] = task[<<t, h>>] /\ TaskOK(t, h)
      BY <2>1, <3>1 DEF TasksOK
    <3>3. QED
      BY <3>2, StillTaskOK
  <2>2. QED
    BY <1>2, <2>1
<1>4. QED
  BY <1>3, PlayingHasGeneration DEF TasksOK

LEMMA PublishOK ==
  ASSUME RowsMove, RowsOK, TasksTyped, TasksOK, NEW s \in Session,
         NEW g \in Generation, Publish(s, g)
  PROVE  TasksOK'
<1> DEFINE v == task[<<s, g>>].version
<1>0. TaskOK(s, g) /\ task[<<s, g>>].step = "publish"
  BY DEF TasksOK, Publish
<1>1. ASSUME NEW t \in Session, NEW h \in Generation, <<t, h>> # <<s, g>>
      PROVE  TaskOK(t, h)'
  <2>1. task'[<<t, h>>] = task[<<t, h>>]
    BY <1>1 DEF Publish, TasksTyped
  <2>2. QED
    BY <2>1, StillTaskOK DEF TasksOK
<1>2. TaskOK(s, g)'
  <2>1. CASE Write(s, v, "ready", 0, lapsed[s])
    <3>1. /\ version[s] = v /\ state'[s] = "ready" /\ version'[s] = v + 1
          /\ generation'[s] = generation[s]
      <4>1. DB!Transition(s, v, "ready", 0, lapsed[s])
        BY <2>1 DEF Write
      <4>2. /\ version[s] = v
            /\ \A t \in Session :
                 /\ state'[t] = IF t = s THEN "ready" ELSE state[t]
                 /\ version'[t] = IF t = s THEN v + 1 ELSE version[t]
                 /\ generation'[t] = IF t = s THEN generation[t] + 0
                                              ELSE generation[t]
        BY <4>1, TransitionMoves
      <4>3. QED
        BY <4>2, RowFields
    <3>2. generation[s] = g
      BY <1>0, <3>1 DEF TaskOK
    <3>3. task'[<<s, g>>] = [step |-> "wait_complete", version |-> v + 1]
             \/ task'[<<s, g>>] = [task[<<s, g>>] EXCEPT !.step = "abort"]
      BY DEF Publish, TasksTyped
    <3>4. task'[<<s, g>>].version \in {v, v + 1} /\ task'[<<s, g>>].step # "none"
      <4>1. task[<<s, g>>] \in [step : TaskStep, version : Nat]
        BY DEF TasksTyped
      <4>2. QED
        BY <3>3, <4>1
    <3>5. QED
      BY <3>1, <3>2, <3>4, RowFields, TaskFields DEF TaskOK, Generation
  <2>2. CASE WriteLost(s, v, "ready", lapsed[s])
    <3>1. UNCHANGED <<state, version, generation>>
      BY <2>2 DEF WriteLost, db
    <3>2. CASE task'[<<s, g>>] = [task[<<s, g>>] EXCEPT !.step = "abort"]
      <4>1. task'[<<s, g>>].version = v /\ task'[<<s, g>>].step = "abort"
        BY <3>2 DEF TasksTyped
      <4>2. QED
        BY <1>0, <3>1, <4>1 DEF TaskOK
    <3>3. CASE Write(s, v, "ready", 0, lapsed[s])
      BY <2>1, <3>3
    <3>4. QED
      BY <2>2, <3>2, <3>3 DEF Publish, TasksTyped
  <2>3. QED
    BY <2>1, <2>2 DEF Publish
<1>3. QED
  BY <1>1, <1>2, PlayingHasGeneration DEF TasksOK

LEMMA PlayTaskOK ==
  ASSUME RowsOK, TasksTyped, TasksOK, NEW s \in Session, NEW g \in Generation,
         PlayTask(s, g)
  PROVE  TasksOK'
<1>1. RowsMove
  BY PlayTaskMoves
<1>2. CASE Publish(s, g)
  BY <1>1, <1>2, PublishOK
<1>3. CASE ~Publish(s, g)
  <2>1. \E from \in TaskStep \ {"none", "done"},
           to \in TaskStep \ {"none", "wait_complete"} : MoveTask(s, g, from, to)
    BY <1>3 DEF PlayTask, StartWorker, SourceMissing, Started, Buffered,
       NotBuffered, Complete, Interrupted, Abort, Aborted, Revoke, TaskStep
  <2>2. QED
    BY <1>1, <2>1, MoveTaskOK
<1>4. QED
  BY <1>2, <1>3

LEMMA PlaybackTasksOK ==
  ASSUME RowsOK, TasksTyped, TasksOK, NEW s \in Session, NEW p \in Output,
         Playback(s, p)
  PROVE  TasksOK'
<1>0. PICK new \in Generation : new = generation[s] + 1
  BY PlaybackMoves
<1>1. /\ new \in Generation /\ generation[s] \in Nat
      /\ \A t \in Session :
           /\ version[t] \in Nat
           /\ state'[t] = IF t = s THEN "preparing" ELSE state[t]
           /\ version'[t] = IF t = s THEN version[t] + 1 ELSE version[t]
           /\ generation'[t] = IF t = s THEN generation[t] + 1 ELSE generation[t]
  BY PlaybackMoves DEF RowsOK, DB!TypeOK
<1>2. task'[<<s, new>>] = [step |-> "source", version |-> version[s] + 1]
  BY <1>0, <1>1 DEF Playback, TasksTyped
<1>3. ASSUME NEW t \in Session, NEW h \in Generation, <<t, h>> # <<s, new>>
      PROVE  TaskOK(t, h)'
  <2>1. task'[<<t, h>>] = task[<<t, h>>] /\ TaskOK(t, h)
    BY <1>0, <1>3 DEF Playback, TasksTyped, TasksOK
  <2>2. QED
    BY <1>0, <1>1, <1>3, <2>1, TaskFields DEF TaskOK, Generation
<1>4. TaskOK(s, new)'
  <2>1. /\ task'[<<s, new>>].step = "source"
        /\ task'[<<s, new>>].version = version'[s]
        /\ generation'[s] = new /\ new \in Nat /\ version'[s] \in Nat
    BY <1>0, <1>1, <1>2 DEF Generation
  <2>2. QED
    BY <2>1 DEF TaskOK
<1>5. \A t \in Session :
        state'[t] \in {"preparing", "ready"} => generation'[t] \in Generation
  BY <1>0, <1>1 DEF TasksOK
<1>6. \A t \in Session, h \in Generation : TaskOK(t, h)'
  <2>1. ASSUME NEW t \in Session, NEW h \in Generation
        PROVE  TaskOK(t, h)'
    <3>1. CASE <<t, h>> = <<s, new>>
      BY <1>4, <3>1
    <3>2. CASE <<t, h>> # <<s, new>>
      BY <1>3, <3>2
    <3>3. QED
      BY <3>1, <3>2
  <2>2. QED
    BY <2>1
<1>7. QED
  BY <1>5, <1>6 DEF TasksOK

LEMMA TaskStays ==
  ASSUME [Next]_vars, ~Restart,
         ~(\E s \in Session, p \in Output : Playback(s, p)),
         ~(\E s \in Session, g \in Generation : PlayTask(s, g))
  PROVE  task' = task
<1>1. ASSUME NEW s \in Session, Request(s) \/ Handling(s)
      PROVE  task' = task
  BY <1>1 DEF Request, Handling, SelectFile, BrokenPlaylist, RequestStop, Ask,
     SelectFileStops, SelectFileDone, BrokenPlaylistStops, BrokenPlaylistStopped,
     BrokenPlaylistDone, FindForCleanup, StopWorkerGone, StopClearsEngine,
     StopDeferred, StopDone, CallStop, Stopped, Proceed
<1>2. Sweep => task' = task
  BY DEF Sweep, SweepBegins, SweepEnds, SweepExpires, SweepFails,
     SweepStops, SweepPasses, SweepStopped, SweepClearsEngine, SweepDefers,
     SweepWrites, Sweeping
<1>3. QED
  BY <1>1, <1>2 DEF Next, BootWithoutEngine, Rows, Gateway, vars, tasks

LEMMA StepTasksOK ==
  ASSUME RowsOK, TasksTyped, TasksOK, [Next]_vars
  PROVE  TasksOK'
<1>1. CASE Restart
  <2>1. RowsMove
    BY <1>1, SameRowsMove DEF Restart
  <2>2. \A s \in Session, g \in Generation : TaskOK(s, g)'
    BY <1>1, <2>1, RowFields DEF Restart, NoTask, TaskOK
  <2>3. QED
    BY <2>1, <2>2, PlayingHasGeneration DEF TasksOK
<1>2. CASE /\ ~Restart
           /\ ~(\E s \in Session, p \in Output : Playback(s, p))
           /\ ~(\E s \in Session, g \in Generation : PlayTask(s, g))
  BY <1>2, TaskStays, StepMoves, SameTasksOK
<1>3. QED
  BY <1>1, <1>2, PlayTaskOK, PlaybackTasksOK

\* A generation is started once: its task begins where no task was.
LEMMA ModeStays ==
  ASSUME [Next]_vars, ~Restart, \A s \in Session, g \in Generation : ~StartWorker(s, g)
  PROVE  mode' = mode
<1>1. CASE UNCHANGED gw
  BY <1>1 DEF gw
<1>2. ASSUME NEW s \in Session, NEW g \in Generation, PlayTask(s, g)
      PROVE  mode' = mode
  BY <1>1, <1>2 DEF PlayTask, SourceMissing, Started, Buffered, NotBuffered,
     Publish, Complete, Interrupted, Abort, Aborted, Revoke, GW!Return, GW!Stop
<1>3. ASSUME NEW s \in Session, Handling(s)
      PROVE  mode' = mode
  BY <1>1, <1>3 DEF Handling, SelectFileStops, SelectFileDone,
     BrokenPlaylistStops, BrokenPlaylistStopped, BrokenPlaylistDone, CallStop,
     Stopped, FindForCleanup, StopWorkerGone, StopClearsEngine, StopDeferred,
     StopDone, GW!Return, GW!Stop
<1>4. CASE Sweep
  BY <1>1, <1>4 DEF Sweep, SweepBegins, SweepEnds, SweepExpires, SweepFails,
     SweepStops, SweepPasses, SweepStopped, SweepClearsEngine, SweepDefers,
     SweepWrites, GW!Return, GW!Stop, GW!CleanupStaleDirectories
<1>5. CASE Gateway
  BY <1>5 DEF Gateway, GW!Internal, GW!StopWorkerDone, GW!Seek, GW!Spawn,
     GW!SpawnCancelled, GW!StartFailed, GW!Processes, GW!Exit, GW!Ended
<1>6. QED
  BY <1>1, <1>2, <1>3, <1>4, <1>5 DEF Next, Playback, Request, SelectFile,
     BrokenPlaylist, RequestStop, BootWithoutEngine, Rows, vars, gw

\* The steps that move no task but by MoveTask and Publish.
Unbegun(s, g) == task[<<s, g>>].step \in {"none", "source"}

LEMMA PlayTaskUnbegun ==
  ASSUME TasksTyped, NEW s \in Session, NEW g \in Generation, PlayTask(s, g)
  PROVE  /\ ~Unbegun(s, g)'
         /\ \A t \in Session, h \in Generation :
              <<t, h>> # <<s, g>> => task'[<<t, h>>] = task[<<t, h>>]
<1>1. CASE Publish(s, g)
  <2>1. task[<<s, g>>] \in [step : TaskStep, version : Nat]
    BY DEF TasksTyped
  <2>2. \/ task'[<<s, g>>] = [step |-> "wait_complete",
                              version |-> task[<<s, g>>].version + 1]
        \/ task'[<<s, g>>] = [task[<<s, g>>] EXCEPT !.step = "abort"]
    BY <1>1 DEF Publish, TasksTyped
  <2>3. task'[<<s, g>>].step \in {"wait_complete", "abort"}
    BY <2>1, <2>2
  <2>4. QED
    BY <1>1, <2>3 DEF Publish, TasksTyped, Unbegun
<1>2. CASE ~Publish(s, g)
  <2>1. \E from : \E to \in TaskStep \ {"none", "source"} : MoveTask(s, g, from, to)
    BY <1>2 DEF PlayTask, StartWorker, SourceMissing, Started, Buffered,
       NotBuffered, Complete, Interrupted, Abort, Aborted, Revoke, TaskStep
  <2>2. PICK from, to : to \notin {"none", "source"} /\ MoveTask(s, g, from, to)
    BY <2>1
  <2>3. /\ task'[<<s, g>>].step = to
        /\ \A t \in Session, h \in Generation :
             <<t, h>> # <<s, g>> => task'[<<t, h>>] = task[<<t, h>>]
    BY <2>2, MoveTaskFields
  <2>4. QED
    BY <2>2, <2>3 DEF Unbegun
<1>3. QED
  BY <1>1, <1>2

LEMMA StepStartsOnce ==
  ASSUME RowsOK, GWP!GatewayOK, TasksTyped, StartsOnce, TasksOK, [Next]_vars
  PROVE  StartsOnce'
<1>1. SUFFICES ASSUME NEW s \in Session, NEW g \in Generation, Unbegun(s, g)'
               PROVE  mode'[<<s, g>>] = "unstarted"
  BY DEF StartsOnce, Unbegun
<1>2. Unbegun(s, g) => mode[<<s, g>>] = "unstarted"
  BY DEF StartsOnce, Unbegun
<1>3. CASE Restart
  BY <1>3, CallersDiffer DEF Restart, Generation, GW!Generation
<1>4. ASSUME NEW t \in Session, NEW h \in Generation, PlayTask(t, h), ~Restart
      PROVE  mode'[<<s, g>>] = "unstarted"
  <2>1. <<s, g>> # <<t, h>> /\ Unbegun(s, g)
    BY <1>1, <1>4, PlayTaskUnbegun DEF Unbegun
  <2>2. CASE StartWorker(t, h)
    <3>1. \/ mode' = mode
          \/ \E m : mode' = [mode EXCEPT ![<<t, h>>] = m]
      BY <2>2 DEF StartWorker, GW!Start, GW!StartRefused
    <3>2. mode \in [Session \X Generation -> GWP!Mode]
      BY DEF GWP!GatewayOK, GWP!TypeOK, GWP!Generation, Generation
    <3>3. mode'[<<s, g>>] = mode[<<s, g>>]
      BY <2>1, <3>1, <3>2
    <3>4. QED
      BY <1>2, <2>1, <3>3
  <2>3. CASE ~StartWorker(t, h)
    <3>1. mode' = mode
      BY <1>4, <2>3 DEF PlayTask, SourceMissing, Started, Buffered, NotBuffered,
         Publish, Complete, Interrupted, Abort, Aborted, Revoke, GW!Return,
         GW!Stop, gw
    <3>2. QED
      BY <1>2, <2>1, <3>1
  <2>4. QED
    BY <2>2, <2>3
<1>5. ASSUME NEW t \in Session, NEW p \in Output, Playback(t, p)
      PROVE  mode'[<<s, g>>] = "unstarted"
  <2>1. PICK new \in Generation : new = generation[t] + 1
    BY <1>5, PlaybackMoves
  <2>2. mode' = mode /\ TaskOK(t, new) /\ generation[t] \in Nat
    BY <1>5 DEF Playback, gw, TasksOK, RowsOK, DB!TypeOK
  <2>3. CASE <<s, g>> = <<t, new>>
    <3>1. Unbegun(s, g)
      BY <2>1, <2>2, <2>3 DEF TaskOK, Unbegun
    <3>2. QED
      BY <1>2, <2>2, <3>1
  <2>4. CASE <<s, g>> # <<t, new>>
    <3>1. task'[<<s, g>>] = task[<<s, g>>]
      BY <1>5, <2>1, <2>4 DEF Playback, TasksTyped
    <3>2. QED
      BY <1>1, <1>2, <2>2, <3>1 DEF Unbegun
  <2>5. QED
    BY <2>3, <2>4
<1>6. CASE /\ ~Restart
           /\ ~(\E t \in Session, p \in Output : Playback(t, p))
           /\ ~(\E t \in Session, h \in Generation : PlayTask(t, h))
  <2>1. task' = task
    BY <1>6, TaskStays
  <2>2. \A t \in Session, h \in Generation : ~StartWorker(t, h)
    BY <1>6 DEF PlayTask
  <2>3. mode' = mode
    BY <1>6, <2>2, ModeStays
  <2>4. QED
    BY <1>1, <1>2, <2>1, <2>3 DEF Unbegun
<1>7. QED
  BY <1>3, <1>4, <1>5, <1>6

-----------------------------------------------------------------------------
(***************************************************************************)
(* What is on disk.  The sweep protects every session it listed, and what  *)
(* was not listed had ended before and has not come back.                  *)
(***************************************************************************)
LEMMA EndedStays ==
  ASSUME RowsOK, [Next]_vars, NEW t \in Session, Ended(t)
  PROVE  Ended(t)'
<1>1. CASE RowsMove
  BY <1>1 DEF RowsMove, RowMoves
<1>2. ASSUME NEW s \in Session, NEW p \in Output, Playback(s, p)
      PROVE  Ended(t)'
  BY <1>2, PlaybackMoves DEF Ended
<1>3. QED
  BY <1>1, <1>2, StepMoves

LEMMA KnownStays ==
  ASSUME TasksTyped, [Next]_vars
  PROVE  \/ sweep'.step = "idle"
         \/ sweep.step # "idle" /\ sweep'.known = sweep.known
         \/ \A s \in Session : ~Ended(s) => s \in sweep'.known /\ Ended(s)' = Ended(s)
<1>0. sweep \in SweepType
  BY DEF TasksTyped, SweepType
<1>1. CASE sweep' = sweep
  BY <1>1
<1>2. CASE SweepBegins
  <2> DEFINE listed == {s \in Session : Listed(s)}
  <2>1. sweep'.known = listed
    BY <1>2 DEF SweepBegins, NoSweep
  <2>2. \A s \in Session : ~Ended(s) => s \in listed
    BY DEF Listed, Ended
  <2>3. state' = state
    BY <1>2 DEF SweepBegins, db
  <2>4. QED
    BY <2>1, <2>2, <2>3 DEF Ended
<1>3. CASE SweepEnds \/ Restart
  BY <1>3 DEF SweepEnds, Restart, NoSweep
<1>4. ASSUME NEW s \in Session,
             \/ SweepExpires(s) \/ SweepFails(s) \/ SweepStops(s) \/ SweepPasses(s)
             \/ SweepStopped(s) \/ SweepClearsEngine(s) \/ SweepDefers(s)
             \/ SweepWrites(s)
      PROVE  sweep.step # "idle" /\ sweep'.known = sweep.known
  <2>1. sweep.step # "idle"
    BY <1>4 DEF SweepExpires, SweepFails, SweepStops, SweepPasses, SweepStopped,
       SweepClearsEngine, SweepDefers, SweepWrites, Sweeping
  <2>2. /\ \A step : Stay(step, s).known = sweep.known
        /\ \A deferred : Leave(s, deferred).known = sweep.known
    BY <1>0 DEF Stay, Leave, SweepType
  <2>3. CASE SweepExpires(s)
    <3>1. [Stay("finish", s) EXCEPT !.rows[s].state = "expiring",
             !.rows[s].version = Row(s).version + 1].known = sweep.known
      BY <1>0 DEF Stay, SweepType
    <3>2. QED
      BY <2>1, <2>2, <2>3, <3>1 DEF SweepExpires
  <2>4. CASE ~SweepExpires(s)
    <3>1. \/ \E step : sweep' = Stay(step, s)
          \/ \E deferred : sweep' = Leave(s, deferred)
      BY <1>4, <2>4 DEF SweepFails, SweepStops, SweepPasses, SweepStopped,
         SweepClearsEngine, SweepDefers, SweepWrites
    <3>2. QED
      BY <2>1, <2>2, <3>1
  <2>5. QED
    BY <2>3, <2>4
<1>5. CASE Next /\ ~Sweep /\ ~Restart
  <2>1. ASSUME NEW s \in Session, Request(s) \/ Handling(s)
        PROVE  sweep' = sweep
    BY <2>1 DEF Request, Handling, SelectFile, BrokenPlaylist, RequestStop, Ask,
       SelectFileStops, SelectFileDone, BrokenPlaylistStops,
       BrokenPlaylistStopped, BrokenPlaylistDone, FindForCleanup,
       StopWorkerGone, StopClearsEngine, StopDeferred, StopDone, CallStop,
       Stopped, Proceed
  <2>2. ASSUME NEW s \in Session, NEW g \in Generation, PlayTask(s, g)
        PROVE  sweep' = sweep
    BY <2>2 DEF PlayTask, StartWorker, SourceMissing, Started, Buffered,
       NotBuffered, Publish, Complete, Interrupted, Abort, Aborted, Revoke,
       MoveTask
  <2>3. sweep' = sweep
    BY <1>5, <2>1, <2>2 DEF Next, Playback, BootWithoutEngine, Rows, Gateway,
       tasks
  <2>4. QED
    BY <1>1, <2>3
<1>6. QED
  BY <1>1, <1>2, <1>3, <1>4, <1>5 DEF Sweep, vars, tasks

LEMMA StepDiskOK ==
  ASSUME RowsOK, GWP!GatewayOK, StartsOnce, TasksTyped, DiskOK, [Next]_vars
  PROVE  DiskOK'
<1>1. ASSUME sweep'.step # "idle", NEW s \in Session, ~Ended(s)'
      PROVE  s \in sweep'.known
  <2>1. ~Ended(s)
    BY <1>1, EndedStays
  <2>2. QED
    BY <1>1, <2>1, KnownStays DEF DiskOK
<1>2. ASSUME NEW s \in Session, NEW g \in Generation, ~Ended(s)',
             GW!HasGeneration(s, g)'
      PROVE  <<s, g>> \in dirs'
  <2>1. ~Ended(s)
    BY <1>2, EndedStays
  <2>2. GW!HasGeneration(s, g) => <<s, g>> \in dirs
    BY <2>1 DEF DiskOK
  <2>3. CASE GatewayMoves
    <3>1. g \in GWP!Generation
      BY DEF Generation, GWP!Generation
    <3>2. GWP!HasGeneration(s, g)' /\ (GWP!HasGeneration(s, g) => <<s, g>> \in dirs)
      BY <1>2, <2>2 DEF GW!HasGeneration, GWP!HasGeneration
    <3>3. QED
      BY <2>3, <3>1, <3>2 DEF GatewayMoves, GWP!KeepsArtifacts
  <2>4. CASE Restart
    BY <1>2, <2>4 DEF Restart, GW!HasGeneration, Generation
  <2>5. CASE SweepEnds
    <3>1. sweep.step # "idle" /\ s \in sweep.known
      BY <2>1, <2>5 DEF SweepEnds, DiskOK
    <3>2. GW!HasGeneration(s, g)
      BY <1>2, <2>5 DEF SweepEnds, GW!CleanupStaleDirectories, gw,
         GW!HasGeneration
    <3>3. <<s, g>> \in dirs
      BY <2>2, <3>2
    <3>4. CASE GW!CleanupStaleDirectories(sweep.known)
      BY <3>1, <3>3, <3>4 DEF GW!CleanupStaleDirectories
    <3>5. CASE UNCHANGED gw
      BY <3>3, <3>5 DEF gw
    <3>6. QED
      BY <2>5, <3>4, <3>5 DEF SweepEnds
  <2>6. QED
    BY <2>3, <2>4, <2>5, StepGateway
<1>3. QED
  BY <1>1, <1>2 DEF DiskOK

-----------------------------------------------------------------------------

LEMMA InitAllOK == Init => AllOK
<1> SUFFICES ASSUME Init PROVE AllOK
  OBVIOUS
<1>1. RowsOK
  <2>1. /\ version \in [Session -> Nat]
        /\ generation \in [Session -> Nat]
        /\ probe \in [Session -> File]
        /\ files = [s \in Session |-> File]
    BY DEF Init
  <2>2. QED
    BY <2>1 DEF Init, RowsOK, DB!TypeOK
<1>2. GWP!GatewayOK
  BY SameInit, PlaybackConstants, GWP!InitGatewayOK DEF Init
<1>3. TasksTyped
  <2>1. /\ NoTask \in [step : TaskStep, version : Nat]
        /\ NoRequest \in [step : RequestStep, version : Nat, gen : GW!Slot]
    BY PlaybackConstants DEF NoTask, NoRequest, TaskStep, RequestStep, GW!Slot
  <2>2. QED
    BY <2>1, NoSweepTyped, PlaybackAssumption DEF Init, TasksTyped, SweepType
<1>4. StartsOnce
  BY DEF Init, StartsOnce, GW!Init, GW!Generation, Generation
<1>5. TasksOK
  BY <1>1 DEF Init, TasksOK, TaskOK, NoTask, RowsOK, DB!TypeOK
<1>6. DiskOK
  BY DEF Init, DiskOK, NoSweep, GW!Init, GW!HasGeneration, Generation
<1>7. QED
  BY <1>1, <1>2, <1>3, <1>4, <1>5, <1>6 DEF AllOK

LEMMA StepAllOK ==
  ASSUME AllOK, [Next]_vars
  PROVE  AllOK'
<1>1. RowsOK'
  BY StepMoves, PlaybackMoves DEF AllOK, RowsMove
<1>2. GWP!GatewayOK'
  BY StepGateway DEF AllOK, GatewayMoves
<1>3. QED
  BY <1>1, <1>2, StepTyped, StepStartsOnce, StepTasksOK, StepDiskOK DEF AllOK

(***************************************************************************)
(* The rows, the workers and the tasks keep in step.                       *)
(***************************************************************************)
THEOREM PlaybackInvariant == Spec => []AllOK
BY InitAllOK, StepAllOK, PTL DEF Spec

(***************************************************************************)
(* Every variable of the three parts holds a value of its kind, whatever   *)
(* the interleaving of tasks, requests, sweeps and restarts.               *)
(***************************************************************************)
THEOREM TypeCorrect == Spec => []TypeOK
<1>1. AllOK => TypeOK
  BY SameTypeOK DEF AllOK, RowsOK, GWP!GatewayOK, TasksTyped, TypeOK
<1>2. QED
  BY <1>1, PlaybackInvariant, PTL

(***************************************************************************)
(* What a ready session offers is on disk.                                 *)
(***************************************************************************)
THEOREM ArtifactsAreThere == Spec => []ReadyHasArtifacts
<1>1. AllOK => ReadyHasArtifacts
  BY DEF AllOK, TasksOK, DiskOK, ReadyHasArtifacts, Ended
<1>2. QED
  BY <1>1, PlaybackInvariant, PTL

-----------------------------------------------------------------------------
(***************************************************************************)
(* A task that reports moves the row only while its own generation plays.  *)
(***************************************************************************)
LEMMA ReportsOwn ==
  ASSUME AllOK, [Next]_vars, NEW s \in Session, NEW g \in Generation, Reports(s, g)
  PROVE  generation[s] = g
<1>0. TaskOK(s, g) /\ task[<<s, g>>].step \in {"publish", "revoke"}
  BY DEF AllOK, TasksOK, Reports
<1>1. CASE Restart
  BY <1>1 DEF Restart, db, Reports
<1>2. ASSUME NEW t \in Session, NEW p \in Output, Playback(t, p)
      PROVE  FALSE
  <2>1. PICK new \in Generation : new = generation[t] + 1
    BY <1>2, PlaybackMoves DEF AllOK
  <2>2. TaskOK(t, new) /\ generation[t] \in Nat
    BY DEF AllOK, TasksOK, RowsOK, DB!TypeOK
  <2>3. task[<<t, new>>].step = "none"
    BY <2>1, <2>2 DEF TaskOK
  <2>4. <<t, new>> # <<s, g>>
    BY <1>0, <2>3
  <2>5. task'[<<s, g>>] = task[<<s, g>>]
    BY <1>2, <2>1, <2>4 DEF Playback, AllOK, TasksTyped
  <2>6. QED
    BY <2>5 DEF Reports
<1>3. ASSUME NEW t \in Session, NEW h \in Generation, PlayTask(t, h)
      PROVE  generation[s] = g
  <2>1. t = s /\ h = g
    BY <1>3, PlayTaskUnbegun DEF AllOK, Reports
  <2>2. \/ Publish(s, g) \/ Revoke(s, g)
    BY <1>0, <1>3, <2>1 DEF PlayTask, StartWorker, SourceMissing, Started,
       Buffered, NotBuffered, Complete, Interrupted, Abort, Aborted, MoveTask
  <2>3. \E to, late : DB!Transition(s, task[<<s, g>>].version, to, 0, late)
    BY <2>2 DEF Publish, Revoke, Write, WriteLost, Reports, db
  <2>4. version[s] = task[<<s, g>>].version
    BY <2>3 DEF DB!Transition, DB!CanCommit
  <2>5. QED
    BY <1>0, <2>4 DEF TaskOK
<1>4. CASE /\ ~Restart
           /\ ~(\E t \in Session, p \in Output : Playback(t, p))
           /\ ~(\E t \in Session, h \in Generation : PlayTask(t, h))
  BY <1>4, TaskStays DEF Reports
<1>5. QED
  BY <1>1, <1>2, <1>3, <1>4

THEOREM TasksSpeakForTheirOwn == Spec => OnlyOwnGeneration
<1>1. AllOK /\ [Next]_vars =>
        [\A s \in Session, g \in Generation : Reports(s, g) => generation[s] = g]_vars
  BY ReportsOwn
<1>2. QED
  BY <1>1, PlaybackInvariant, PTL DEF Spec, OnlyOwnGeneration

-----------------------------------------------------------------------------
(***************************************************************************)
(* Who stops a worker.  Only Start and Stop enter the stopping map, under  *)
(* the name of their caller, and a stop that names a generation spares     *)
(* every other.                                                            *)
(***************************************************************************)
LEMMA StopKills ==
  ASSUME NEW c \in Caller, NEW d \in Caller, NEW s \in Session, NEW t \in Session,
         NEW g, GWP!GatewayOK, GW!Stop(d, t, g), Killed(s, c)
  PROVE  c = d /\ t = s /\ (g # GW!AnyGen => worker[s] = g)
<1>1. c # None /\ stopping \in [Session -> Caller \cup {None}]
  BY PlaybackConstants DEF GWP!GatewayOK, GWP!TypeOK
<1>2. GW!StopWorker(d, t) /\ ~GW!Spares(t, g)
  BY <1>1 DEF GW!Stop, Killed
<1>3. stopping' = [stopping EXCEPT ![t] = d]
  BY <1>2 DEF GW!StopWorker
<1>4. t = s /\ c = d
  BY <1>1, <1>3 DEF Killed
<1>5. QED
  BY <1>2, <1>4 DEF GW!Spares, Killed

LEMMA StartKills ==
  ASSUME NEW c \in Caller, NEW d \in Caller, NEW s \in Session, NEW t \in Session,
         NEW g \in Generation, NEW video, GWP!GatewayOK,
         GW!Start(d, t, g, video) \/ GW!StartRefused(d, t, g, video), Killed(s, c)
  PROVE  c = d /\ t = s
<1>1. c # None /\ stopping \in [Session -> Caller \cup {None}]
  BY PlaybackConstants DEF GWP!GatewayOK, GWP!TypeOK
<1>2. GW!StopWorker(d, t)
  BY <1>1 DEF GW!Start, GW!StartRefused, Killed
<1>3. stopping' = [stopping EXCEPT ![t] = d]
  BY <1>2 DEF GW!StopWorker
<1>4. QED
  BY <1>1, <1>3 DEF Killed

LEMMA OthersKillNone ==
  ASSUME NEW c \in Caller, NEW s \in Session, GWP!GatewayOK, Killed(s, c)
  PROVE  ~Gateway /\ ~Restart /\ ~UNCHANGED gw
         /\ \A d \in Caller : ~GW!Return(d)
<1>1. c # None /\ stopping \in [Session -> Caller \cup {None}]
  BY PlaybackConstants DEF GWP!GatewayOK, GWP!TypeOK
<1>2. stopping' # stopping /\ stopping'[s] # None
  BY <1>1 DEF Killed
<1>3. ~Gateway
  <2>1. \A d \in Caller : ~GW!StopWorkerDone(d)
    BY <1>1, <1>2 DEF GW!StopWorkerDone, Killed
  <2>2. QED
    BY <1>2, <2>1 DEF Gateway, GW!Processes, GW!Exit, GW!Ended, GW!Internal,
       GW!Seek, GW!Spawn, GW!SpawnCancelled, GW!StartFailed
<1>4. QED
  BY <1>2, <1>3 DEF Restart, gw, GW!Return

\* Which task a caller acts for, read off the step that kills the worker.
LEMMA KillsWhose ==
  ASSUME AllOK, [Next]_vars, NEW c \in Caller, NEW s \in Session, Killed(s, c)
  PROVE  \/ \E g \in Generation :
              /\ c = PlayCaller(s, g)
              /\ StartWorker(s, g) \/ (Abort(s, g) /\ worker[s] = g)
         \/ \E h \in Handler \ {"stop"} :
              c = HandlerCaller(h, s) /\ worker[s] = handler[<<h, s>>].gen
         \/ c = HandlerCaller("stop", s)
         \/ c = SweepCaller
<1>0. GWP!GatewayOK /\ TasksTyped
  BY DEF AllOK
<1>1. ~UNCHANGED gw /\ Next /\ ~Gateway /\ ~Restart
      /\ \A d \in Caller : ~GW!Return(d)
  BY <1>0, OthersKillNone DEF vars, gw
<1>2. ASSUME NEW t \in Session, NEW g \in Generation, StartWorker(t, g)
      PROVE  t = s /\ c = PlayCaller(s, g)
  <2>1. PlayCaller(t, g) \in Caller
    BY CallersDiffer
  <2>2. PICK video : GW!Start(PlayCaller(t, g), t, g, video)
                       \/ GW!StartRefused(PlayCaller(t, g), t, g, video)
    BY <1>2 DEF StartWorker
  <2>3. QED
    BY <1>0, <2>1, <2>2, StartKills
<1>3. ASSUME NEW t \in Session, NEW g \in Generation, Abort(t, g)
      PROVE  t = s /\ c = PlayCaller(s, g) /\ worker[s] = g
  <2>1. PlayCaller(t, g) \in Caller /\ g # GW!AnyGen
    BY CallersDiffer DEF Generation, GW!AnyGen
  <2>2. GW!Stop(PlayCaller(t, g), t, g)
    BY <1>3 DEF Abort
  <2>3. QED
    BY <1>0, <2>1, <2>2, StopKills
<1>4. ASSUME NEW t \in Session, NEW h \in Handler, NEW from,
             CallStop(h, t, handler[<<h, t>>].gen, from)
      PROVE  t = s /\ c = HandlerCaller(h, s) /\ worker[s] = handler[<<h, s>>].gen
  <2>1. HandlerCaller(h, t) \in Caller
    BY CallersDiffer
  <2>2. handler[<<h, t>>].gen # GW!AnyGen
    BY <1>0, HandlerGen DEF GW!Slot, GW!AnyGen
  <2>3. GW!Stop(HandlerCaller(h, t), t, handler[<<h, t>>].gen)
    BY <1>4 DEF CallStop
  <2>4. QED
    BY <1>0, <2>1, <2>2, <2>3, StopKills
<1>5. ASSUME NEW t \in Session, "stop" \in Actors, FindForCleanup(t)
      PROVE  c = HandlerCaller("stop", s)
  <2>1. HandlerCaller("stop", t) \in Caller
    BY <1>5, CallersDiffer DEF Handler
  <2>2. GW!Stop(HandlerCaller("stop", t), t, GW!AnyGen)
    BY <1>1, <1>5 DEF FindForCleanup
  <2>3. QED
    BY <1>0, <2>1, <2>2, StopKills
<1>6. ASSUME NEW t \in Session, SweepStops(t)
      PROVE  c = SweepCaller
  <2>1. GW!Stop(SweepCaller, t, GW!AnyGen)
    BY <1>6 DEF SweepStops
  <2>2. QED
    BY <1>0, <2>1, StopKills, CallersDiffer
<1>7. CASE Sweep
  <2>1. ~SweepEnds
    BY <1>1, <1>0, OthersKillNone DEF SweepEnds, GW!CleanupStaleDirectories, gw, Killed
  <2>2. \E t \in Session : SweepStops(t)
    BY <1>1, <1>7, <2>1, CallersDiffer DEF Sweep, SweepBegins, SweepExpires,
       SweepFails, SweepPasses, SweepStopped, SweepClearsEngine, SweepDefers,
       SweepWrites
  <2>3. QED
    BY <1>6, <2>2
<1>8. ASSUME NEW t \in Session, NEW g \in Generation, PlayTask(t, g)
      PROVE  StartWorker(t, g) \/ Abort(t, g)
  BY <1>1, <1>8, CallersDiffer DEF PlayTask, SourceMissing, Started, Buffered,
     NotBuffered, Publish, Complete, Interrupted, Aborted, Revoke
<1>9. ASSUME NEW t \in Session, Handling(t)
      PROVE  \/ "stop" \in Actors /\ FindForCleanup(t)
             \/ \E h \in Handler \ {"stop"} : \E from :
                  CallStop(h, t, handler[<<h, t>>].gen, from)
  <2>1. /\ "select" \in Actors => "select" \in Handler \ {"stop"}
        /\ "hls" \in Actors => "hls" \in Handler \ {"stop"}
        /\ "stop" \in Actors => "stop" \in Handler
    BY DEF Handler
  <2>2. \A h \in Handler : \A to : ~Stopped(h, t, to)
    BY <1>1, CallersDiffer DEF Stopped
  <2>3. QED
    BY <1>1, <1>9, <2>1, <2>2 DEF Handling, SelectFileStops, SelectFileDone,
       BrokenPlaylistStops, BrokenPlaylistStopped, BrokenPlaylistDone,
       StopWorkerGone, StopClearsEngine, StopDeferred, StopDone
<1>10. QED
  <2>1. \/ \E t \in Session, g \in Generation : PlayTask(t, g)
        \/ \E t \in Session : Handling(t)
        \/ Sweep
    BY <1>1 DEF Next, Playback, Request, SelectFile, BrokenPlaylist,
       RequestStop, BootWithoutEngine, Rows
  <2>2. CASE \E t \in Session, g \in Generation : PlayTask(t, g)
    BY <1>2, <1>3, <1>8, <2>2
  <2>3. CASE \E t \in Session : Handling(t)
    BY <1>4, <1>5, <1>9, <2>3
  <2>4. QED
    BY <1>7, <2>1, <2>2, <2>3

LEMMA CallerNames ==
  /\ \A s \in Session, g, k \in Generation : PlayCaller(s, g) = PlayCaller(s, k) => g = k
  /\ \A s, t \in Session, h \in Handler, g \in Generation :
       HandlerCaller(h, s) # PlayCaller(t, g)
  /\ \A s \in Session, h, k \in Handler :
       HandlerCaller(h, s) = HandlerCaller(k, s) => h = k
  /\ \A s \in Session, h \in Handler : HandlerCaller(h, s) # SweepCaller
  /\ \A s \in Session, g \in Generation :
       PlayCaller(s, g) # SweepCaller /\ PlayCaller(s, g) # HandlerCaller("stop", s)
BY DEF PlayCaller, HandlerCaller, SweepCaller, Handler, Generation

LEMMA KillsSpareNewer ==
  ASSUME AllOK, [Next]_vars, NEW s \in Session
  PROVE  /\ \A h \in Handler \ {"stop"} :
              Killed(s, HandlerCaller(h, s)) => worker[s] = handler[<<h, s>>].gen
         /\ \A g \in Generation :
              Killed(s, PlayCaller(s, g)) /\ task[<<s, g>>].step = "abort"
                => worker[s] = g
<1>1. ASSUME NEW h \in Handler \ {"stop"}, Killed(s, HandlerCaller(h, s))
      PROVE  worker[s] = handler[<<h, s>>].gen
  <2>1. HandlerCaller(h, s) \in Caller /\ HandlerCaller(h, s) # HandlerCaller("stop", s)
    BY CallersDiffer DEF HandlerCaller
  <2>2. PICK k \in Handler \ {"stop"} :
          HandlerCaller(h, s) = HandlerCaller(k, s) /\ worker[s] = handler[<<k, s>>].gen
    BY <1>1, <2>1, KillsWhose, CallerNames
  <2>3. QED
    BY <2>2, CallerNames
<1>2. ASSUME NEW g \in Generation, Killed(s, PlayCaller(s, g)),
             task[<<s, g>>].step = "abort"
      PROVE  worker[s] = g
  <2>1. PlayCaller(s, g) \in Caller
    BY CallersDiffer
  <2>2. PICK k \in Generation :
          /\ PlayCaller(s, g) = PlayCaller(s, k)
          /\ StartWorker(s, k) \/ (Abort(s, k) /\ worker[s] = k)
    <3>1. /\ \A h \in Handler : PlayCaller(s, g) # HandlerCaller(h, s)
          /\ PlayCaller(s, g) # HandlerCaller("stop", s)
          /\ PlayCaller(s, g) # SweepCaller
      BY CallerNames
    <3>2. QED
      BY <1>2, <2>1, <3>1, KillsWhose
  <2>3. g = k
    BY <2>2, CallerNames
  <2>4. ~StartWorker(s, g)
    BY <1>2 DEF StartWorker, MoveTask
  <2>5. QED
    BY <2>2, <2>3, <2>4
<1>3. QED
  BY <1>1, <1>2

(***************************************************************************)
(* The file selection, the broken playlist and the playback task stop the  *)
(* generation they were called for and no other, however late they are.    *)
(***************************************************************************)
THEOREM StopsSpareOthers == Spec => StopsSpareNewer
<1>1. AllOK /\ [Next]_vars =>
        [\A s \in Session :
           /\ \A h \in Handler \ {"stop"} :
                Killed(s, HandlerCaller(h, s)) => worker[s] = handler[<<h, s>>].gen
           /\ \A g \in Generation :
                Killed(s, PlayCaller(s, g)) /\ task[<<s, g>>].step = "abort"
                  => worker[s] = g]_vars
  BY KillsSpareNewer
<1>2. QED
  BY <1>1, PlaybackInvariant, PTL DEF Spec, StopsSpareNewer

-----------------------------------------------------------------------------
(***************************************************************************)
(* What a restart leaves behind.  A row in preparing whose task is gone is *)
(* one the sweep still owes a reset: until it has looked at the row as it  *)
(* is now, the sweep cannot end without having deferred something, and     *)
(* startup stays open.  This needs a database that does not fail: a task   *)
(* whose last write is lost leaves its row in preparing for nobody.        *)
(***************************************************************************)
\* The task of a row in preparing comes to its end only by writing the row.
LEMMA TaskWatches ==
  ASSUME AllOK, ~Faults, NEW s \in Session, NEW g \in Generation, PlayTask(s, g),
         NEW t \in Session, Unwatched(t)'
  PROVE  Unwatched(t)
<1>1. RowsMove /\ RowsOK /\ TasksTyped /\ TasksOK
  BY PlayTaskMoves DEF AllOK
<1>2. /\ state[t] = "preparing" /\ ~lapsed[t] /\ version'[t] = version[t]
      /\ generation'[t] = generation[t] /\ generation[t] \in Generation
  BY <1>1, RowFields DEF Unwatched, RowMoves, TasksOK
<1>3. task'[<<t, generation[t]>>].step \in {"none", "done"}
  BY <1>2 DEF Unwatched
<1>4. CASE <<t, generation[t]>> # <<s, g>>
  BY <1>1, <1>2, <1>3, <1>4, PlayTaskUnbegun DEF Unwatched
<1>5. CASE t = s /\ generation[t] = g
  <2>1. TaskOK(s, g)
    BY <1>1 DEF TasksOK
  <2>2. CASE Publish(s, g)
    <3>1. task'[<<s, g>>].step \in {"wait_complete", "abort"}
      <4>1. task[<<s, g>>] \in [step : TaskStep, version : Nat]
        BY <1>1 DEF TasksTyped
      <4>2. \/ task'[<<s, g>>] = [step |-> "wait_complete",
                                  version |-> task[<<s, g>>].version + 1]
            \/ task'[<<s, g>>] = [task[<<s, g>>] EXCEPT !.step = "abort"]
        BY <1>1, <2>2 DEF Publish, TasksTyped
      <4>3. QED
        BY <4>1, <4>2
    <3>2. QED
      BY <1>3, <1>5, <3>1
  <2>3. CASE Revoke(s, g)
    <3>1. task[<<s, g>>].version = version[s]
      BY <1>2, <1>5, <2>1, <2>3 DEF TaskOK, Revoke, MoveTask
    <3>2. DB!CanCommit(s, version[s], "awaiting_playback", lapsed[s])
      BY <1>2, <1>5 DEF DB!CanCommit, DB!CanTransition
    <3>3. Write(s, version[s], "awaiting_playback", 0, lapsed[s])
      BY <2>3, <3>1, <3>2 DEF Revoke, WriteLost
    <3>4. version'[s] # version[s]
      BY <1>1, <3>3 DEF Write, DB!Transition, RowsOK, DB!TypeOK
    <3>5. QED
      BY <1>2, <1>5, <3>4
  <2>4. CASE ~Publish(s, g) /\ ~Revoke(s, g)
    <3>1. \/ Complete(s, g)
          \/ \E from : \E to \in TaskStep \ {"none", "done"} : MoveTask(s, g, from, to)
      BY <2>4 DEF PlayTask, StartWorker, SourceMissing, Started, Buffered,
         NotBuffered, Interrupted, Abort, Aborted, TaskStep
    <3>2. CASE Complete(s, g)
      BY <1>2, <1>5, <2>1, <3>2 DEF Complete, MoveTask, TaskOK
    <3>3. ASSUME NEW from, NEW to \in TaskStep \ {"none", "done"}, MoveTask(s, g, from, to)
          PROVE  FALSE
      <4>1. task'[<<s, g>>].step = to
        BY <1>1, <3>3, MoveTaskFields
      <4>2. QED
        BY <1>3, <1>5, <3>3, <4>1
    <3>4. QED
      BY <3>1, <3>2, <3>3
  <2>5. QED
    BY <2>2, <2>3, <2>4
<1>6. QED
  BY <1>4, <1>5

LEMMA NoneUnwatched ==
  ASSUME AllOK, ~Faults, [Next]_vars, ~Restart, NEW t \in Session, Unwatched(t)'
  PROVE  /\ Unwatched(t) /\ version'[t] = version[t]
<1>1. ASSUME NEW s \in Session, NEW p \in Output, Playback(s, p)
      PROVE  Unwatched(t) /\ version'[t] = version[t]
  <2>1. PICK new \in Generation : new = generation[s] + 1
    BY <1>1, PlaybackMoves DEF AllOK
  <2>2. /\ lapsed' = lapsed
        /\ \A u \in Session :
             /\ state'[u] = IF u = s THEN "preparing" ELSE state[u]
             /\ version'[u] = IF u = s THEN version[u] + 1 ELSE version[u]
             /\ generation'[u] = IF u = s THEN new ELSE generation[u]
    BY <1>1, <2>1, PlaybackMoves DEF AllOK
  <2>3. task' = [task EXCEPT ![<<s, new>>] =
                   [step |-> "source", version |-> version[s] + 1]]
    BY <1>1, <2>1 DEF Playback
  <2>4. CASE t = s
    <3>1. task'[<<s, new>>].step = "source"
      BY <2>3 DEF AllOK, TasksTyped
    <3>2. QED
      BY <2>2, <2>4, <3>1 DEF Unwatched
  <2>5. CASE t # s
    <3>1. state[t] = "preparing" /\ generation'[t] = generation[t]
      BY <2>2, <2>5 DEF Unwatched
    <3>2. generation[t] \in Generation
      BY <3>1 DEF AllOK, TasksOK
    <3>3. task'[<<t, generation[t]>>] = task[<<t, generation[t]>>]
      BY <2>3, <2>5, <3>2 DEF AllOK, TasksTyped
    <3>4. QED
      BY <2>2, <2>5, <3>1, <3>3 DEF Unwatched
  <2>6. QED
    BY <2>4, <2>5
<1>2. CASE ~(\E s \in Session, p \in Output : Playback(s, p))
  <2>1. RowsMove /\ RowsOK
    BY <1>2, StepMoves DEF AllOK
  <2>2. /\ state[t] = "preparing" /\ ~lapsed[t] /\ version'[t] = version[t]
        /\ generation'[t] = generation[t]
    BY <2>1, RowFields DEF Unwatched, RowMoves
  <2>3. CASE \E s \in Session, g \in Generation : PlayTask(s, g)
    BY <2>2, <2>3, TaskWatches
  <2>4. CASE ~(\E s \in Session, g \in Generation : PlayTask(s, g))
    <3>1. task' = task
      BY <1>2, <2>4, TaskStays
    <3>2. QED
      BY <2>2, <3>1 DEF Unwatched
  <2>5. QED
    BY <2>3, <2>4
<1>3. QED
  BY <1>1, <1>2

\* What the sweep has ahead of it for the session it looks at next.
Owed(s) ==
  /\ s \in sweep.todo
  /\ sweep.rows[s].state = "preparing" /\ ~sweep.rows[s].late
  /\ sweep.rows[s].version = version[s]

LEMMA SweepFields ==
  ASSUME sweep \in SweepType, NEW s \in Session, NEW step, NEW deferred \in BOOLEAN
  PROVE  /\ Stay(step, s).todo = sweep.todo /\ Stay(step, s).rows = sweep.rows
         /\ Stay(step, s).deferred = sweep.deferred
         /\ Leave(s, deferred).todo = sweep.todo \ {s}
         /\ Leave(s, deferred).rows = [sweep.rows EXCEPT ![s] = NoRow]
         /\ Leave(s, deferred).deferred = (sweep.deferred \/ deferred)
BY DEF Stay, Leave, SweepType

\* The sweep's steps for one session leave what it owes another.
LEMMA SweepOwesOthers ==
  ASSUME sweep \in SweepType, NEW s \in Session, NEW t \in Session, t # s,
         \/ SweepExpires(s) \/ SweepFails(s) \/ SweepStops(s) \/ SweepPasses(s)
         \/ SweepStopped(s) \/ SweepClearsEngine(s) \/ SweepDefers(s)
         \/ SweepWrites(s)
  PROVE  /\ sweep'.deferred = FALSE => sweep.deferred = FALSE
         /\ t \in sweep.todo => t \in sweep'.todo
         /\ sweep'.rows[t] = sweep.rows[t]
         /\ sweep.step # "idle"
<1>1. sweep.step # "idle"
  BY DEF SweepExpires, SweepFails, SweepStops, SweepPasses, SweepStopped,
     SweepClearsEngine, SweepDefers, SweepWrites, Sweeping
<1>2. sweep.rows \in [Session -> SweptRow] /\ sweep.deferred \in BOOLEAN
  BY DEF SweepType
<1>3. CASE \E step : sweep' = Stay(step, s)
  BY <1>1, <1>2, <1>3 DEF Stay, SweepType
<1>4. CASE \E deferred \in BOOLEAN : sweep' = Leave(s, deferred)
  <2>1. PICK deferred \in BOOLEAN : sweep' = Leave(s, deferred)
    BY <1>4
  <2>2. /\ sweep'.todo = sweep.todo \ {s}
        /\ sweep'.rows = [sweep.rows EXCEPT ![s] = NoRow]
        /\ sweep'.deferred = (sweep.deferred \/ deferred)
    BY <2>1, SweepFields
  <2>3. QED
    BY <1>1, <1>2, <2>2
<1>5. CASE SweepExpires(s)
  <2>1. CASE sweep' = Leave(s, TRUE)
    BY <1>4, <2>1
  <2>2. CASE sweep' = [Stay("finish", s) EXCEPT !.rows[s].state = "expiring",
                         !.rows[s].version = Row(s).version + 1]
    BY <1>1, <1>2, <2>2 DEF Stay, SweepType
  <2>3. QED
    BY <1>5, <2>1, <2>2 DEF SweepExpires
<1>6. CASE ~SweepExpires(s)
  <2>1. \/ \E step : sweep' = Stay(step, s)
        \/ \E deferred \in BOOLEAN : sweep' = Leave(s, deferred)
    BY <1>6 DEF SweepFails, SweepStops, SweepPasses, SweepStopped,
       SweepClearsEngine, SweepDefers, SweepWrites
  <2>2. QED
    BY <1>3, <1>4, <2>1
<1>7. QED
  BY <1>5, <1>6

\* For a session it owes a reset, the sweep stops and writes, or defers.
LEMMA SweepOwesOwn ==
  ASSUME AllOK, ~Faults, startup # "done", NEW s \in Session, Unwatched(s), Owed(s),
         version'[s] = version[s], sweep'.deferred = FALSE,
         \/ SweepExpires(s) \/ SweepFails(s) \/ SweepStops(s) \/ SweepPasses(s)
         \/ SweepStopped(s) \/ SweepClearsEngine(s) \/ SweepDefers(s)
         \/ SweepWrites(s)
  PROVE  Owed(s)'
<1>0. /\ sweep \in SweepType /\ version[s] \in Nat
      /\ Row(s).state = "preparing" /\ ~Row(s).late /\ Row(s).version = version[s]
      /\ state[s] = "preparing" /\ ~lapsed[s]
  BY DEF AllOK, TasksTyped, SweepType, RowsOK, DB!TypeOK, Owed, Row, Unwatched
<1>1. ASSUME NEW step, sweep' = Stay(step, s)
      PROVE  Owed(s)'
  BY <1>0, <1>1, SweepFields DEF Owed
<1>2. ASSUME NEW to, NEW advance, NEW late, Write(s, version[s], to, advance, late)
      PROVE  FALSE
  BY <1>0, <1>2 DEF Write, DB!Transition, AllOK, RowsOK, DB!TypeOK
<1>3. sweep' # Leave(s, TRUE)
  BY <1>0, SweepFields
<1>4. CASE SweepExpires(s) \/ SweepPasses(s)
  BY <1>0, <1>4 DEF SweepExpires, SweepPasses, Resets
<1>5. CASE SweepFails(s)
  BY <1>0, <1>2, <1>3, <1>5 DEF SweepFails
<1>6. CASE SweepStops(s) \/ SweepStopped(s)
  BY <1>1, <1>6 DEF SweepStops, SweepStopped
<1>7. CASE SweepClearsEngine(s) \/ SweepDefers(s)
  BY <1>0, <1>1, <1>3, <1>7 DEF SweepClearsEngine, SweepDefers
<1>8. CASE SweepWrites(s)
  BY <1>0, <1>2, <1>3, <1>8 DEF SweepWrites
<1>9. QED
  BY <1>4, <1>5, <1>6, <1>7, <1>8

LEMMA SweepStays ==
  ASSUME [Next]_vars, ~Restart, ~Sweep
  PROVE  sweep' = sweep /\ (startup # "done" => startup' # "done")
<1>1. ASSUME NEW s \in Session, Request(s) \/ Handling(s)
      PROVE  UNCHANGED <<sweep, startup>>
  BY <1>1 DEF Request, Handling, SelectFile, BrokenPlaylist, RequestStop, Ask,
     SelectFileStops, SelectFileDone, BrokenPlaylistStops,
     BrokenPlaylistStopped, BrokenPlaylistDone, FindForCleanup,
     StopWorkerGone, StopClearsEngine, StopDeferred, StopDone, CallStop,
     Stopped, Proceed
<1>2. ASSUME NEW s \in Session, NEW g \in Generation, PlayTask(s, g)
      PROVE  UNCHANGED <<sweep, startup>>
  BY <1>2 DEF PlayTask, StartWorker, SourceMissing, Started, Buffered,
     NotBuffered, Publish, Complete, Interrupted, Abort, Aborted, Revoke,
     MoveTask
<1>3. QED
  BY <1>1, <1>2 DEF Next, Playback, BootWithoutEngine, Rows, Gateway, vars, tasks

LEMMA StepSweepOwes ==
  ASSUME AllOK, SweepOwes, ~Faults, [Next]_vars
  PROVE  SweepOwes'
<1>0. sweep \in SweepType
  BY DEF AllOK, TasksTyped, SweepType
<1>1. SUFFICES ASSUME NEW s \in Session, Unwatched(s)'
               PROVE  /\ startup' # "done"
                      /\ sweep'.step # "idle" /\ ~sweep'.deferred => Owed(s)'
  BY DEF SweepOwes, Owed
<1>2. CASE Restart
  BY <1>2 DEF Restart, NoSweep
<1>3. CASE ~Restart
  <2>1. Unwatched(s) /\ version'[s] = version[s]
    BY <1>1, <1>3, NoneUnwatched
  <2>2. /\ startup # "done"
        /\ sweep.step # "idle" /\ ~sweep.deferred => Owed(s)
    BY <2>1 DEF SweepOwes, Owed
  <2>3. CASE ~Sweep
    BY <1>3, <2>1, <2>2, <2>3, SweepStays DEF Owed
  <2>4. CASE SweepBegins
    <3>1. /\ sweep'.todo = {t \in Session : Listed(t)}
          /\ sweep'.rows = [t \in Session |->
                   IF t \in {u \in Session : Listed(u)}
                     THEN [state |-> state[t], version |-> version[t],
                           gen |-> generation[t], late |-> lapsed[t]]
                     ELSE NoRow]
      BY <2>4 DEF SweepBegins, NoSweep
    <3>2. Listed(s) /\ state[s] = "preparing" /\ ~lapsed[s]
      BY <2>1 DEF Unwatched, Listed
    <3>3. Owed(s)'
      BY <2>1, <3>1, <3>2 DEF Owed
    <3>4. QED
      BY <2>2, <2>4, <3>3 DEF SweepBegins
  <2>5. CASE SweepEnds
    <3>1. sweep.step # "idle" /\ ~Owed(s)
      BY <2>5 DEF SweepEnds, Owed
    <3>2. sweep.deferred
      BY <2>2, <3>1
    <3>3. QED
      BY <2>2, <2>5, <3>2 DEF SweepEnds, NoSweep
  <2>6. ASSUME NEW t \in Session,
               \/ SweepExpires(t) \/ SweepFails(t) \/ SweepStops(t)
               \/ SweepPasses(t) \/ SweepStopped(t) \/ SweepClearsEngine(t)
               \/ SweepDefers(t) \/ SweepWrites(t)
        PROVE  /\ startup' # "done"
               /\ sweep'.step # "idle" /\ ~sweep'.deferred => Owed(s)'
    <3>1. startup' = startup /\ sweep.step # "idle"
      BY <2>6 DEF SweepExpires, SweepFails, SweepStops, SweepPasses,
         SweepStopped, SweepClearsEngine, SweepDefers, SweepWrites, Sweeping
    <3>2. sweep.deferred \in BOOLEAN /\ sweep'.deferred \in BOOLEAN
      BY <1>0, StepTyped DEF AllOK, SweepType, TasksTyped
    <3>3. CASE t # s
      BY <1>0, <2>1, <2>2, <2>6, <3>1, <3>2, <3>3, SweepOwesOthers DEF Owed
    <3>4. CASE t = s
      <4>1. ASSUME sweep'.deferred = FALSE PROVE sweep.deferred = FALSE
        <5>1. \/ \E step : sweep'.deferred = Stay(step, s).deferred
              \/ \E deferred \in BOOLEAN : sweep' = Leave(s, deferred)
          <6>1. CASE SweepExpires(s)
            <7>1. [Stay("finish", s) EXCEPT !.rows[s].state = "expiring",
                     !.rows[s].version = Row(s).version + 1].deferred
                    = Stay("finish", s).deferred
              BY <1>0 DEF Stay, SweepType
            <7>2. QED
              BY <6>1, <7>1 DEF SweepExpires
          <6>2. CASE ~SweepExpires(s)
            BY <2>6, <3>4, <6>2 DEF SweepFails, SweepStops, SweepPasses,
               SweepStopped, SweepClearsEngine, SweepDefers, SweepWrites
          <6>3. QED
            BY <6>1, <6>2
        <5>2. QED
          BY <1>0, <3>2, <4>1, <5>1, SweepFields
      <4>2. QED
        BY <2>1, <2>2, <2>6, <3>1, <3>2, <3>4, <4>1, SweepOwesOwn
    <3>5. QED
      BY <3>3, <3>4
  <2>7. QED
    BY <2>3, <2>4, <2>5, <2>6 DEF Sweep
<1>4. QED
  BY <1>2, <1>3

(***************************************************************************)
(* While the database answers, no session waits in preparing for nobody,   *)
(* however often the process restarts under it.                            *)
(***************************************************************************)
THEOREM PreparingWatched ==
  ASSUME ~Faults
  PROVE  Spec => []PreparingIsWatched
<1>1. Init => SweepOwes
  BY DEF Init, SweepOwes, Unwatched
<1>2. AllOK /\ SweepOwes /\ [Next]_vars => SweepOwes'
  BY StepSweepOwes
<1>3. SweepOwes => PreparingIsWatched
  BY DEF SweepOwes, Unwatched, PreparingIsWatched
<1>4. QED
  BY <1>1, <1>2, <1>3, PlaybackInvariant, PTL DEF Spec

-----------------------------------------------------------------------------
(***************************************************************************)
(* TorrentPlayback implements TorrentSession: whatever the playback tasks, *)
(* the handlers and the sweep do to a row, they do by a transaction of     *)
(* TorrentSession whose guard the row meets.  The repository itself looks  *)
(* at no more than the version and the transition table; that the caller   *)
(* of transition() is in a place where it may ask for what it asks for     *)
(* follows from what each of them still knows of the row by then (SeesOK). *)
(***************************************************************************)
\* A task that has the row's version is the task of what the row plays.
TasksSee ==
  \A s \in Session, g \in Generation :
    task[<<s, g>>].step # "none" /\ task[<<s, g>>].version = version[s] =>
      state[s] \in {"preparing", "ready"}

HandlersSee ==
  /\ "hls" \in Handler => \A s \in Session :
       LET h == handler[<<"hls", s>>] IN
       /\ h.version <= version[s]
       /\ h.step # "none" /\ h.version = version[s] => state[s] = "ready"
  /\ "stop" \in Handler => \A s \in Session :
       handler[<<"stop", s>>].step = "write" => engine[s] = None

\* What the sweep listed of a session is what the row says, or the row's version
\* has moved on; a lapsed session has lapsed for good.
SweepRowOK(s) ==
  LET r == sweep.rows[s] IN
  /\ r.late => lapsed[s]
  /\ r.version <= version[s]
  /\ r.state # "none" /\ r.version = version[s] => r.state = state[s]

\* By the step the sweep has come to with a session it is known what for.
SweepStepOK(s) ==
  LET r == sweep.rows[s] IN
  sweep.cur = s =>
    /\ sweep.step = "finish" => r.state = "expiring"
    /\ sweep.step = "stopping" =>
         r.state \in DB!Closing \cup {"failed", "preparing", "ready"}
    /\ sweep.step = "clear" => r.state \in DB!Closing \cup {"failed"}
    /\ sweep.step = "write" =>
         \/ r.state \in {"preparing", "ready"}
         \/ r.state \in DB!Closing /\ engine[s] = None

SweepSees == \A s \in Session : SweepRowOK(s) /\ SweepStepOK(s)

FileChosen == \A s \in Session : ~Ended(s) => selected[s] \in File

SeesOK == TasksSee /\ HandlersSee /\ SweepSees /\ FileChosen

-----------------------------------------------------------------------------
(***************************************************************************)
(* What every step leaves of an engine binding and of a selected file.     *)
(***************************************************************************)
Keeps(t) ==
  /\ engine[t] = None => engine'[t] = None
  /\ ~Ended(t)' => selected'[t] = selected[t] \/ selected'[t] \in File

KeepsAll == \A t \in Session : Keeps(t)

LEMMA SameKeeps ==
  ASSUME UNCHANGED db
  PROVE  KeepsAll
BY DEF KeepsAll, Keeps, db

LEMMA WriteKeeps ==
  ASSUME RowsOK, NEW s \in Session, NEW v, NEW to, NEW advance, NEW late,
         Write(s, v, to, advance, late) \/ WriteLost(s, v, to, late)
  PROVE  KeepsAll
<1>1. ASSUME NEW t \in Session, Write(s, v, to, advance, late)
      PROVE  Keeps(t)
  <2>1. engine' = engine /\ state'[s] = to
    BY <1>1 DEF Write, DB!Transition, RowsOK, DB!TypeOK
  <2>2. selected'[t] = IF t = s /\ to \in DB!Terminal THEN None ELSE selected[t]
    BY <1>1 DEF Write, DB!Transition, RowsOK, DB!TypeOK
  <2>3. QED
    BY <2>1, <2>2 DEF Keeps, Ended
<1>2. QED
  BY <1>1, SameKeeps DEF WriteLost, KeepsAll

LEMMA CommandKeeps ==
  ASSUME RowsOK, NEW s \in Session,
         \/ \E f \in File : DB!SelectFile(s, f)
         \/ \E k, p : DB!BeginPlayback(s, k, p)
         \/ \E v, f : DB!SaveProbe(s, v, f)
         \/ DB!RequestStop(s) \/ DB!ClearEngine(s) \/ DB!Lapse(s)
         \/ DB!Fail(s) \/ \E o : DB!Logout(o)
  PROVE  KeepsAll
<1>1. CASE \E f \in File : DB!SelectFile(s, f)
  BY <1>1 DEF DB!SelectFile, RowsOK, DB!TypeOK, KeepsAll, Keeps
<1>2. CASE DB!ClearEngine(s)
  BY <1>2 DEF DB!ClearEngine, RowsOK, DB!TypeOK, KeepsAll, Keeps
<1>3. CASE DB!Fail(s)
  BY <1>3, WriteKeeps DEF DB!Fail, Write
<1>4. CASE \/ \E k, p : DB!BeginPlayback(s, k, p)
           \/ \E v, f : DB!SaveProbe(s, v, f)
           \/ DB!RequestStop(s) \/ DB!Lapse(s) \/ \E o : DB!Logout(o)
  <2>1. engine' = engine /\ selected' = selected
    BY <1>4 DEF DB!BeginPlayback, DB!SaveProbe, DB!RequestStop, DB!Lapse, DB!Logout
  <2>2. QED
    BY <2>1 DEF KeepsAll, Keeps
<1>5. QED
  BY <1>1, <1>2, <1>3, <1>4

LEMMA SweepKeeps ==
  ASSUME RowsOK, Sweep
  PROVE  KeepsAll
<1>1. CASE UNCHANGED db
  BY <1>1, SameKeeps
<1>2. ASSUME NEW s \in Session, SweepExpires(s) \/ SweepFails(s) \/ SweepWrites(s)
      PROVE  KeepsAll
  <2>1. \E v, to, advance, late :
          Write(s, v, to, advance, late) \/ WriteLost(s, v, to, late)
    BY <1>2 DEF SweepExpires, SweepFails, SweepWrites
  <2>2. QED
    BY <2>1, WriteKeeps
<1>3. ASSUME NEW s \in Session, SweepClearsEngine(s)
      PROVE  KeepsAll
  BY <1>1, <1>3, CommandKeeps DEF SweepClearsEngine
<1>4. QED
  BY <1>1, <1>2, <1>3 DEF Sweep, SweepBegins, SweepEnds, SweepStops, SweepPasses,
     SweepStopped, SweepDefers

LEMMA StepKeeps ==
  ASSUME RowsOK, [Next]_vars
  PROVE  KeepsAll
<1>1. ASSUME NEW s \in Session, NEW p \in Output, Playback(s, p)
      PROVE  KeepsAll
  BY <1>1, CommandKeeps DEF Playback
<1>2. ASSUME NEW s \in Session, NEW g \in Generation, PlayTask(s, g)
      PROVE  KeepsAll
  <2>1. CASE Publish(s, g)
    BY <2>1, WriteKeeps DEF Publish
  <2>2. CASE Revoke(s, g)
    BY <2>2, WriteKeeps DEF Revoke
  <2>3. CASE ~Publish(s, g) /\ ~Revoke(s, g)
    <3>1. UNCHANGED db
      BY <1>2, <2>3 DEF PlayTask, StartWorker, SourceMissing, Started, Buffered,
         NotBuffered, Complete, Interrupted, Abort, Aborted
    <3>2. QED
      BY <3>1, SameKeeps
  <2>4. QED
    BY <2>1, <2>2, <2>3
<1>3. ASSUME NEW s \in Session, Request(s)
      PROVE  KeepsAll
  BY <1>3, SameKeeps, CommandKeeps DEF Request, SelectFile, BrokenPlaylist,
     RequestStop
<1>4. ASSUME NEW s \in Session, Handling(s)
      PROVE  KeepsAll
  <2>1. CASE UNCHANGED db
    BY <2>1, SameKeeps
  <2>2. CASE BrokenPlaylistDone(s)
    BY <2>2, WriteKeeps DEF BrokenPlaylistDone
  <2>3. CASE StopDone(s)
    BY <2>3, WriteKeeps DEF StopDone
  <2>4. CASE DB!ClearEngine(s)
    BY <2>4, CommandKeeps
  <2>5. QED
    BY <1>4, <2>1, <2>2, <2>3, <2>4 DEF Handling, SelectFileStops, SelectFileDone,
       BrokenPlaylistStops, BrokenPlaylistStopped, CallStop, Stopped,
       FindForCleanup, StopWorkerGone, StopClearsEngine, StopDeferred
<1>5. Rows => KeepsAll
  <2>1. ASSUME NEW s \in Session,
               \/ DB!SaveProbe(s, version[s], selected[s]) \/ DB!Fail(s)
               \/ DB!Lapse(s) \/ \E o : DB!Logout(o)
        PROVE  KeepsAll
    BY <2>1, CommandKeeps
  <2>2. ASSUME NEW o \in Owner, DB!Logout(o) PROVE KeepsAll
    <3>1. engine' = engine /\ selected' = selected
      BY <2>2 DEF DB!Logout
    <3>2. QED
      BY <3>1 DEF KeepsAll, Keeps
  <2>3. QED
    BY <2>1, <2>2 DEF Rows
<1>6. CASE BootWithoutEngine \/ Restart \/ Gateway \/ UNCHANGED vars
  BY <1>6, SameKeeps DEF BootWithoutEngine, Restart, Gateway, vars, db
<1>7. QED
  BY <1>1, <1>2, <1>3, <1>4, <1>5, <1>6, SweepKeeps DEF Next

-----------------------------------------------------------------------------
(***************************************************************************)
(* What is known of a row stays true: a row that changes takes a new       *)
(* version, so that what was known of the old one claims nothing any more. *)
(***************************************************************************)
LEMMA StepFileChosen ==
  ASSUME RowsOK, FileChosen, [Next]_vars
  PROVE  FileChosen'
BY StepKeeps, EndedStays DEF FileChosen, KeepsAll, Keeps

LEMMA StillTaskSees ==
  ASSUME RowsMove, RowsOK, TasksTyped, TasksOK, TasksSee,
         NEW t \in Session, NEW h \in Generation,
         task'[<<t, h>>].version = task[<<t, h>>].version,
         task[<<t, h>>].step = "none" => task'[<<t, h>>].step = "none",
         task'[<<t, h>>].step # "none", task'[<<t, h>>].version = version'[t]
  PROVE  state'[t] \in {"preparing", "ready"}
<1>1. TaskOK(t, h)
  BY DEF TasksOK
<1>2. /\ version[t] \in Nat /\ version'[t] \in Nat /\ RowMoves(t)
      /\ task[<<t, h>>].version \in Nat
  BY RowFields, TaskFields
<1>3. version[t] = task[<<t, h>>].version /\ version'[t] = version[t]
  BY <1>1, <1>2 DEF TaskOK, RowMoves
<1>4. QED
  BY <1>2, <1>3 DEF TasksSee, RowMoves

LEMMA PlayTaskSees ==
  ASSUME RowsOK, TasksTyped, TasksOK, TasksSee, NEW s \in Session,
         NEW g \in Generation, PlayTask(s, g)
  PROVE  TasksSee'
<1>1. RowsMove
  BY PlayTaskMoves
<1>2. SUFFICES ASSUME NEW t \in Session, NEW h \in Generation,
                      task'[<<t, h>>].step # "none",
                      task'[<<t, h>>].version = version'[t]
               PROVE  state'[t] \in {"preparing", "ready"}
  BY DEF TasksSee
<1>3. CASE ~Publish(s, g)
  <2>1. PICK from \in TaskStep \ {"none", "done"},
             to \in TaskStep \ {"none", "wait_complete"} : MoveTask(s, g, from, to)
    BY <1>3 DEF PlayTask, StartWorker, SourceMissing, Started, Buffered,
       NotBuffered, Complete, Interrupted, Abort, Aborted, Revoke, TaskStep
  <2>2. task[<<s, g>>].step = from
    BY <2>1 DEF MoveTask
  <2>3. /\ task'[<<t, h>>].version = task[<<t, h>>].version
        /\ task[<<t, h>>].step = "none" => task'[<<t, h>>].step = "none"
    <3>1. CASE <<t, h>> = <<s, g>>
      BY <2>1, <2>2, <3>1, MoveTaskFields
    <3>2. CASE <<t, h>> # <<s, g>>
      BY <2>1, <3>2 DEF MoveTask, TasksTyped
    <3>3. QED
      BY <3>1, <3>2
  <2>4. QED
    BY <1>1, <1>2, <2>3, StillTaskSees
<1>4. CASE Publish(s, g) /\ <<t, h>> # <<s, g>>
  <2>1. task'[<<t, h>>] = task[<<t, h>>]
    BY <1>4 DEF Publish, TasksTyped
  <2>2. QED
    BY <1>1, <1>2, <2>1, StillTaskSees
<1>5. CASE Publish(s, g) /\ <<t, h>> = <<s, g>>
  <2> DEFINE v == task[<<s, g>>].version
  <2>1. CASE Write(s, v, "ready", 0, lapsed[s])
    <3>1. \A u \in Session : state'[u] = IF u = s THEN "ready" ELSE state[u]
      <4>1. DB!Transition(s, v, "ready", 0, lapsed[s])
        BY <2>1 DEF Write
      <4>2. QED
        BY <4>1, TransitionMoves
    <3>2. QED
      BY <1>5, <3>1
  <2>2. CASE task' = [task EXCEPT ![<<s, g>>].step = "abort"]
    <3>1. /\ task'[<<s, g>>].version = v
          /\ task[<<s, g>>].step = "publish"
      BY <1>5, <2>2 DEF TasksTyped, Publish
    <3>2. QED
      BY <1>1, <1>2, <1>5, <3>1, StillTaskSees
  <2>3. QED
    BY <1>5, <2>1, <2>2 DEF Publish
<1>6. QED
  BY <1>3, <1>4, <1>5

LEMMA PlaybackSees ==
  ASSUME RowsOK, TasksTyped, TasksOK, TasksSee, NEW s \in Session,
         NEW p \in Output, Playback(s, p)
  PROVE  TasksSee'
<1>1. PICK new \in Generation : new = generation[s] + 1
  BY PlaybackMoves
<1>2. /\ state'[s] = "preparing"
      /\ \A t \in Session :
           /\ version[t] \in Nat
           /\ state'[t] = IF t = s THEN "preparing" ELSE state[t]
           /\ version'[t] = IF t = s THEN version[t] + 1 ELSE version[t]
  BY PlaybackMoves DEF RowsOK, DB!TypeOK
<1>3. ASSUME NEW t \in Session, NEW h \in Generation, t # s
      PROVE  task'[<<t, h>>] = task[<<t, h>>]
  BY <1>1, <1>3 DEF Playback, TasksTyped
<1>4. ASSUME NEW t \in Session, NEW h \in Generation,
             task'[<<t, h>>].step # "none", task'[<<t, h>>].version = version'[t]
      PROVE  state'[t] \in {"preparing", "ready"}
  <2>1. CASE t = s
    BY <1>2, <2>1
  <2>2. CASE t # s
    <3>1. state'[t] = state[t] /\ version'[t] = version[t]
      BY <1>2, <2>2
    <3>2. QED
      BY <1>3, <1>4, <2>2, <3>1 DEF TasksSee
  <2>3. QED
    BY <2>1, <2>2
<1>5. QED
  BY <1>4 DEF TasksSee

LEMMA StepTasksSee ==
  ASSUME RowsOK, TasksTyped, TasksOK, TasksSee, [Next]_vars
  PROVE  TasksSee'
<1>1. CASE Restart
  BY <1>1 DEF Restart, TasksSee, NoTask
<1>2. CASE /\ ~Restart
           /\ ~(\E s \in Session, p \in Output : Playback(s, p))
           /\ ~(\E s \in Session, g \in Generation : PlayTask(s, g))
  <2>1. RowsMove /\ task' = task
    BY <1>2, TaskStays, StepMoves
  <2>2. QED
    BY <2>1, StillTaskSees DEF TasksSee
<1>3. QED
  BY <1>1, <1>2, PlayTaskSees, PlaybackSees

LEMMA AskFields ==
  ASSUME TasksTyped, NEW h \in Handler, NEW t \in Session, NEW step, NEW v, NEW g,
         Ask(h, t, step, v, g)
  PROVE  /\ handler'[<<h, t>>] = [step |-> step, version |-> v, gen |-> g]
         /\ \A i \in Handler, s \in Session :
              i # h \/ s # t => handler'[<<i, s>>] = handler[<<i, s>>]
BY DEF Ask, TasksTyped

LEMMA ProceedFields ==
  ASSUME TasksTyped, NEW h \in Handler, NEW t \in Session, NEW from, NEW to,
         Proceed(h, t, from, to)
  PROVE  /\ handler[<<h, t>>].step = from
         /\ to # "none" => /\ handler'[<<h, t>>].step = to
                           /\ handler'[<<h, t>>].version = handler[<<h, t>>].version
         /\ to = "none" => handler'[<<h, t>>] = NoRequest
         /\ \A i \in Handler, s \in Session :
              i # h \/ s # t => handler'[<<i, s>>] = handler[<<i, s>>]
BY DEF Proceed, TasksTyped

\* How the request of an HLS client, and the handler of stop, come about.
HandlerSteps(s) ==
  /\ "hls" \in Handler =>
       LET h == handler[<<"hls", s>>] IN
       \/ /\ handler'[<<"hls", s>>].version = h.version
          /\ h.step = "none" => handler'[<<"hls", s>>].step = "none"
       \/ handler'[<<"hls", s>>] = NoRequest
       \/ /\ handler'[<<"hls", s>>].version = version[s]
          /\ state[s] = "ready" /\ UNCHANGED db
  /\ "stop" \in Handler =>
       (handler'[<<"stop", s>>].step = "write" =>
          handler[<<"stop", s>>].step = "write" \/ engine'[s] = None)

LEMMA RequestSteps ==
  ASSUME TasksTyped, NEW t \in Session, Request(t), NEW s \in Session
  PROVE  HandlerSteps(s)
<1>1. CASE "select" \in Actors /\ SelectFile(t)
  <2>1. "select" \in Handler
    BY <1>1 DEF Handler
  <2>2. Ask("select", t, "chosen", version[t] + 1, generation[t])
    BY <1>1 DEF SelectFile
  <2>3. /\ handler'[<<"select", t>>] = [step |-> "chosen", version |-> version[t] + 1,
                                      gen |-> generation[t]]
        /\ \A i \in Handler, u \in Session :
             i # "select" \/ u # t => handler'[<<i, u>>] = handler[<<i, u>>]
    BY <2>1, <2>2, AskFields
  <2>4. QED
    BY <2>1, <2>3 DEF HandlerSteps
<1>2. CASE "hls" \in Actors /\ BrokenPlaylist(t)
  <2>1. "hls" \in Handler
    BY <1>2 DEF Handler
  <2>2. Ask("hls", t, "broken", version[t], generation[t])
    BY <1>2 DEF BrokenPlaylist
  <2>3. /\ handler'[<<"hls", t>>] = [step |-> "broken", version |-> version[t],
                                   gen |-> generation[t]]
        /\ \A i \in Handler, u \in Session :
             i # "hls" \/ u # t => handler'[<<i, u>>] = handler[<<i, u>>]
    BY <2>1, <2>2, AskFields
  <2>4. state[t] = "ready" /\ UNCHANGED db
    BY <1>2 DEF BrokenPlaylist
  <2>5. QED
    BY <2>1, <2>3, <2>4 DEF HandlerSteps
<1>3. CASE "stop" \in Actors /\ RequestStop(t)
  <2>1. "stop" \in Handler
    BY <1>3 DEF Handler
  <2>2. Ask("stop", t, "find", 0, 0)
    BY <1>3 DEF RequestStop
  <2>3. /\ handler'[<<"stop", t>>] = [step |-> "find", version |-> 0, gen |-> 0]
        /\ \A i \in Handler, u \in Session :
             i # "stop" \/ u # t => handler'[<<i, u>>] = handler[<<i, u>>]
    BY <2>1, <2>2, AskFields
  <2>4. QED
    BY <2>1, <2>3 DEF HandlerSteps
<1>4. QED
  BY <1>1, <1>2, <1>3 DEF Request

LEMMA HandlingSteps ==
  ASSUME RowsOK, TasksTyped, NEW t \in Session, Handling(t), NEW s \in Session
  PROVE  HandlerSteps(s)
<1>1. CASE "select" \in Actors /\ (SelectFileStops(t) \/ SelectFileDone(t))
  <2>1. "select" \in Handler
    BY <1>1 DEF Handler
  <2>2. PICK from, to : Proceed("select", t, from, to)
    BY <1>1 DEF SelectFileStops, SelectFileDone, CallStop, Stopped
  <2>3. /\ handler[<<"select", t>>].step = from
        /\ to # "none" =>
             /\ handler'[<<"select", t>>].step = to
             /\ handler'[<<"select", t>>].version = handler[<<"select", t>>].version
        /\ to = "none" => handler'[<<"select", t>>] = NoRequest
        /\ \A i \in Handler, u \in Session :
             i # "select" \/ u # t => handler'[<<i, u>>] = handler[<<i, u>>]
    BY <2>1, <2>2, ProceedFields
  <2>4. QED
    BY <2>1, <2>3 DEF HandlerSteps
<1>2. CASE /\ "hls" \in Actors
           /\ \/ BrokenPlaylistStops(t) \/ BrokenPlaylistStopped(t)
              \/ BrokenPlaylistDone(t)
  <2>1. "hls" \in Handler
    BY <1>2 DEF Handler
  <2>2. PICK from, to : Proceed("hls", t, from, to) /\ from # "none"
    BY <1>2 DEF BrokenPlaylistStops, BrokenPlaylistStopped, BrokenPlaylistDone,
       CallStop, Stopped
  <2>3. /\ handler[<<"hls", t>>].step = from
        /\ to # "none" =>
             /\ handler'[<<"hls", t>>].step = to
             /\ handler'[<<"hls", t>>].version = handler[<<"hls", t>>].version
        /\ to = "none" => handler'[<<"hls", t>>] = NoRequest
        /\ \A i \in Handler, u \in Session :
             i # "hls" \/ u # t => handler'[<<i, u>>] = handler[<<i, u>>]
    BY <2>1, <2>2, ProceedFields
  <2>4. QED
    BY <2>1, <2>2, <2>3 DEF HandlerSteps
<1>3. CASE /\ "stop" \in Actors
           /\ StopWorkerGone(t) \/ StopDeferred(t) \/ StopDone(t)
  <2>1. "stop" \in Handler
    BY <1>3 DEF Handler
  <2>2. PICK from \in RequestStep, to \in RequestStep \ {"write"} :
             Proceed("stop", t, from, to)
    BY <1>3 DEF StopWorkerGone, StopDeferred, StopDone, Stopped, RequestStep
  <2>3. /\ handler[<<"stop", t>>].step = from
        /\ to # "none" =>
             /\ handler'[<<"stop", t>>].step = to
             /\ handler'[<<"stop", t>>].version = handler[<<"stop", t>>].version
        /\ to = "none" => handler'[<<"stop", t>>] = NoRequest
        /\ \A i \in Handler, u \in Session :
             i # "stop" \/ u # t => handler'[<<i, u>>] = handler[<<i, u>>]
    BY <2>1, <2>2, ProceedFields
  <2>4. QED
    BY <2>1, <2>2, <2>3 DEF HandlerSteps, NoRequest
<1>4. CASE "stop" \in Actors /\ StopClearsEngine(t)
  <2>1. "stop" \in Handler
    BY <1>4 DEF Handler
  <2>2. Proceed("stop", t, "clear", "write")
    BY <1>4 DEF StopClearsEngine
  <2>3. engine'[t] = None
    BY <1>4 DEF StopClearsEngine, DB!ClearEngine, db, RowsOK, DB!TypeOK
  <2>4. /\ handler[<<"stop", t>>].step = "clear"
        /\ "write" # "none" =>
             /\ handler'[<<"stop", t>>].step = "write"
             /\ handler'[<<"stop", t>>].version = handler[<<"stop", t>>].version
        /\ "write" = "none" => handler'[<<"stop", t>>] = NoRequest
        /\ \A i \in Handler, u \in Session :
             i # "stop" \/ u # t => handler'[<<i, u>>] = handler[<<i, u>>]
    BY <2>1, <2>2, ProceedFields
  <2>5. QED
    BY <2>1, <2>3, <2>4 DEF HandlerSteps
<1>5. CASE "stop" \in Actors /\ FindForCleanup(t)
  <2>1. "stop" \in Handler
    BY <1>5 DEF Handler
  <2>2. /\ handler'[<<"stop", t>>].step # "write"
        /\ \A i \in Handler, u \in Session :
             i # "stop" \/ u # t => handler'[<<i, u>>] = handler[<<i, u>>]
    BY <1>5, <2>1 DEF FindForCleanup, TasksTyped, NoRequest
  <2>3. QED
    BY <2>1, <2>2 DEF HandlerSteps
<1>6. QED
  BY <1>1, <1>2, <1>3, <1>4, <1>5 DEF Handling

LEMMA HandlerStays ==
  ASSUME [Next]_vars, ~Restart, ~(\E t \in Session : Request(t) \/ Handling(t))
  PROVE  handler' = handler
<1>1. ASSUME NEW s \in Session, NEW g \in Generation, PlayTask(s, g)
      PROVE  handler' = handler
  BY <1>1 DEF PlayTask, StartWorker, SourceMissing, Started, Buffered,
     NotBuffered, Publish, Complete, Interrupted, Abort, Aborted, Revoke, MoveTask
<1>2. Sweep => handler' = handler
  BY DEF Sweep, SweepBegins, SweepEnds, SweepExpires, SweepFails,
     SweepStops, SweepPasses, SweepStopped, SweepClearsEngine, SweepDefers,
     SweepWrites, Sweeping
<1>3. QED
  BY <1>1, <1>2 DEF Next, Playback, BootWithoutEngine, Rows, Gateway, vars, tasks

LEMMA StepHandlers ==
  ASSUME RowsOK, TasksTyped, [Next]_vars, NEW s \in Session
  PROVE  HandlerSteps(s)
<1>1. CASE handler' = handler
  BY <1>1 DEF HandlerSteps
<1>2. CASE Restart
  <2>1. \A h \in Handler : handler'[<<h, s>>] = NoRequest
    BY <1>2 DEF Restart
  <2>2. QED
    BY <2>1 DEF HandlerSteps, NoRequest
<1>3. QED
  BY <1>1, <1>2, HandlerStays, RequestSteps, HandlingSteps

\* How versions and states move together in every step.
LEMMA StepRows ==
  ASSUME RowsOK, [Next]_vars, NEW t \in Session
  PROVE  /\ version[t] \in Nat /\ version'[t] \in Nat /\ version[t] <= version'[t]
         /\ version'[t] = version[t] => state'[t] = state[t]
         /\ lapsed[t] => lapsed'[t]
<1>1. CASE RowsMove
  BY <1>1, RowFields DEF RowMoves
<1>2. ASSUME NEW s \in Session, NEW p \in Output, Playback(s, p)
      PROVE  /\ version[t] \in Nat /\ version'[t] \in Nat /\ version[t] <= version'[t]
             /\ version'[t] = version[t] => state'[t] = state[t]
             /\ lapsed[t] => lapsed'[t]
  <2>1. /\ version'[t] = IF t = s THEN version[t] + 1 ELSE version[t]
        /\ state'[t] = IF t = s THEN "preparing" ELSE state[t]
        /\ lapsed' = lapsed /\ version[t] \in Nat
    BY <1>2, PlaybackMoves DEF RowsOK, DB!TypeOK
  <2>2. QED
    BY <2>1
<1>3. QED
  BY <1>1, <1>2, StepMoves

LEMMA StepHandlersSee ==
  ASSUME RowsOK, TasksTyped, HandlersSee, [Next]_vars
  PROVE  HandlersSee'
<1>1. ASSUME "hls" \in Handler, NEW s \in Session
      PROVE  /\ handler'[<<"hls", s>>].version <= version'[s]
             /\ handler'[<<"hls", s>>].step # "none"
                /\ handler'[<<"hls", s>>].version = version'[s]
                  => state'[s] = "ready"
  <2> DEFINE h == handler[<<"hls", s>>]
             n == handler'[<<"hls", s>>]
  <2>1. /\ h.version \in Nat
        /\ h.version <= version[s]
        /\ h.step # "none" /\ h.version = version[s] => state[s] = "ready"
    BY <1>1 DEF HandlersSee, TasksTyped
  <2>2. /\ version[s] \in Nat /\ version'[s] \in Nat /\ version[s] <= version'[s]
        /\ version'[s] = version[s] => state'[s] = state[s]
    BY StepRows
  <2>3. \/ n.version = h.version /\ (h.step = "none" => n.step = "none")
        \/ n = NoRequest
        \/ n.version = version[s] /\ state[s] = "ready" /\ UNCHANGED db
    BY <1>1, StepHandlers DEF HandlerSteps
  <2>4. CASE n = NoRequest
    BY <2>2, <2>4 DEF NoRequest
  <2>5. CASE n.version = version[s] /\ state[s] = "ready" /\ UNCHANGED db
    BY <2>2, <2>5 DEF db
  <2>6. CASE n.version = h.version /\ (h.step = "none" => n.step = "none")
    <3> HIDE DEF h, n
    <3>1. QED
      BY <2>1, <2>2, <2>6 DEF n
  <2>7. QED
    BY <2>3, <2>4, <2>5, <2>6
<1>2. ASSUME "stop" \in Handler, NEW s \in Session,
             handler'[<<"stop", s>>].step = "write"
      PROVE  engine'[s] = None
  BY <1>2, StepHandlers, StepKeeps DEF HandlerSteps, HandlersSee, KeepsAll, Keeps
<1>3. QED
  BY <1>1, <1>2 DEF HandlersSee

-----------------------------------------------------------------------------
(***************************************************************************)
(* The sweep, and the rows it listed.                                      *)
(***************************************************************************)
LEMMA StillRowOK ==
  ASSUME RowsOK, TasksTyped, [Next]_vars, NEW t \in Session, SweepRowOK(t),
         sweep'.rows[t] = sweep.rows[t]
  PROVE  SweepRowOK(t)'
<1>1. sweep.rows[t].version \in Nat /\ sweep.rows[t].late \in BOOLEAN
  BY DEF TasksTyped, SweptRow
<1>2. QED
  BY <1>1, StepRows DEF SweepRowOK

LEMMA StillStepOK ==
  ASSUME RowsOK, [Next]_vars, NEW t \in Session, SweepStepOK(t),
         sweep'.rows[t] = sweep.rows[t], sweep'.step = sweep.step,
         sweep'.cur = sweep.cur
  PROVE  SweepStepOK(t)'
<1>1. engine[t] = None => engine'[t] = None
  BY StepKeeps DEF KeepsAll, Keeps
<1>2. QED
  BY <1>1 DEF SweepStepOK

LEMMA NoRowOK ==
  ASSUME RowsOK, [Next]_vars, NEW t \in Session, sweep'.rows[t] = NoRow
  PROVE  SweepRowOK(t)'
BY StepRows DEF NoRow, SweepRowOK

LEMMA SweepBeginsSees ==
  ASSUME RowsOK, SweepBegins
  PROVE  SweepSees'
<1>1. /\ sweep'.step = "next"
      /\ sweep'.rows = [s \in Session |->
             IF s \in {u \in Session : Listed(u)}
               THEN [state |-> state[s], version |-> version[s],
                     gen |-> generation[s], late |-> lapsed[s]]
               ELSE NoRow]
  BY DEF SweepBegins, NoSweep
<1>2. UNCHANGED <<state, version, lapsed>>
  BY DEF SweepBegins, db
<1>3. ASSUME NEW s \in Session PROVE SweepRowOK(s)' /\ SweepStepOK(s)'
  <2>1. version[s] \in Nat
    BY DEF RowsOK, DB!TypeOK
  <2>2. CASE Listed(s)
    <3>1. sweep'.rows[s] = [state |-> state[s], version |-> version[s],
                            gen |-> generation[s], late |-> lapsed[s]]
      BY <1>1, <2>2
    <3>2. QED
      BY <1>1, <1>2, <2>1, <3>1 DEF SweepRowOK, SweepStepOK
  <2>3. CASE ~Listed(s)
    <3>1. sweep'.rows[s] = NoRow
      BY <1>1, <2>3
    <3>2. QED
      BY <1>1, <1>2, <2>1, <3>1 DEF SweepRowOK, SweepStepOK, NoRow
  <2>4. QED
    BY <2>2, <2>3
<1>4. QED
  BY <1>3 DEF SweepSees

LEMMA NoSweepSees ==
  ASSUME RowsOK, [Next]_vars, sweep' = NoSweep
  PROVE  SweepSees'
<1>1. ASSUME NEW s \in Session PROVE SweepRowOK(s)' /\ SweepStepOK(s)'
  <2>1. sweep'.rows[s] = NoRow /\ sweep'.step = "idle"
    BY DEF NoSweep
  <2>2. QED
    BY <2>1, NoRowOK DEF SweepStepOK
<1>2. QED
  BY <1>1 DEF SweepSees

\* The session the sweep deals with, by what it does next.
LEMMA LeaveFields ==
  ASSUME sweep \in SweepType, NEW s \in Session, NEW deferred \in BOOLEAN
  PROVE  /\ Leave(s, deferred).step = "next"
         /\ Leave(s, deferred).rows = [sweep.rows EXCEPT ![s] = NoRow]
BY DEF Leave, SweepType

LEMMA SweepOwnSees ==
  ASSUME RowsOK, TasksTyped, SweepSees, [Next]_vars, NEW s \in Session,
         \/ SweepExpires(s) \/ SweepFails(s) \/ SweepStops(s) \/ SweepPasses(s)
         \/ SweepStopped(s) \/ SweepClearsEngine(s) \/ SweepDefers(s)
         \/ SweepWrites(s)
  PROVE  SweepRowOK(s)' /\ SweepStepOK(s)'
<1>0. /\ sweep \in SweepType /\ sweep.rows \in [Session -> SweptRow]
      /\ SweepRowOK(s) /\ SweepStepOK(s)
  BY DEF TasksTyped, SweepType, SweepSees
<1>1. ASSUME NEW deferred \in BOOLEAN, sweep' = Leave(s, deferred)
      PROVE  SweepRowOK(s)' /\ SweepStepOK(s)'
  <2>1. sweep'.step = "next" /\ sweep'.rows[s] = NoRow
    BY <1>0, <1>1, LeaveFields
  <2>2. QED
    BY <2>1, NoRowOK DEF SweepStepOK
<1>2. ASSUME NEW step, sweep' = Stay(step, s)
      PROVE  /\ SweepRowOK(s)'
             /\ sweep'.step = step /\ sweep'.rows[s] = Row(s)
  <2>1. sweep'.step = step /\ sweep'.rows = sweep.rows
    BY <1>0, <1>2 DEF Stay, SweepType
  <2>2. QED
    BY <1>0, <2>1, StillRowOK DEF Row
<1>3. CASE SweepStops(s)
  <2>1. sweep' = Stay("stopping", s)
    BY <1>3 DEF SweepStops
  <2>2. Row(s).state \in DB!Closing \cup {"failed", "preparing", "ready"}
    <3>1. CASE sweep.step = "finish" /\ sweep.cur = s
      BY <1>0, <3>1 DEF SweepStepOK, Row
    <3>2. CASE Row(s).state \in DB!Closing \cup {"failed"}
      BY <3>2
    <3>3. CASE Resets(s)
      BY <3>3 DEF Resets
    <3>4. QED
      BY <1>3, <3>1, <3>2, <3>3 DEF SweepStops, Sweeping
  <2>3. SweepRowOK(s)' /\ sweep'.step = "stopping" /\ sweep'.rows[s] = Row(s)
    BY <1>2, <2>1
  <2>4. QED
    BY <2>2, <2>3 DEF SweepStepOK
<1>4. CASE SweepStopped(s)
  <2> DEFINE step == IF Row(s).state \in DB!Closing \cup {"failed"}
                       THEN "clear" ELSE "write"
  <2>1. sweep' = Stay(step, s)
    BY <1>4 DEF SweepStopped
  <2>2. Row(s).state \in DB!Closing \cup {"failed", "preparing", "ready"}
    BY <1>0, <1>4 DEF SweepStopped, Sweeping, SweepStepOK, Row
  <2>3. SweepRowOK(s)' /\ sweep'.step = step /\ sweep'.rows[s] = Row(s)
    BY <1>2, <2>1
  <2>4. QED
    BY <2>2, <2>3 DEF SweepStepOK
<1>5. CASE SweepClearsEngine(s)
  <2>1. CASE sweep' = Stay("write", s) /\ Row(s).state # "failed"
    <3>1. SweepRowOK(s)' /\ sweep'.step = "write" /\ sweep'.rows[s] = Row(s)
      BY <1>2, <2>1
    <3>2. Row(s).state \in DB!Closing
      BY <1>0, <1>5, <2>1 DEF SweepClearsEngine, Sweeping, SweepStepOK, Row
    <3>3. engine'[s] = None
      BY <1>5 DEF SweepClearsEngine, DB!ClearEngine, db, RowsOK, DB!TypeOK
    <3>4. QED
      BY <3>1, <3>2, <3>3 DEF SweepStepOK
  <2>2. QED
    BY <1>1, <1>5, <2>1 DEF SweepClearsEngine
<1>6. CASE SweepExpires(s)
  <2> DEFINE v == Row(s).version
  <2>1. CASE sweep' = Leave(s, TRUE)
    BY <1>1, <2>1
  <2>2. CASE /\ Write(s, v, "expiring", 0, TRUE)
             /\ sweep' = [Stay("finish", s) EXCEPT !.rows[s].state = "expiring",
                            !.rows[s].version = v + 1]
    <3>1. /\ state'[s] = "expiring" /\ version'[s] = v + 1 /\ lapsed' = lapsed
      <4>1. DB!Transition(s, v, "expiring", 0, TRUE)
        BY <2>2 DEF Write
      <4>2. /\ lapsed' = lapsed
            /\ \A t \in Session :
                 /\ state'[t] = IF t = s THEN "expiring" ELSE state[t]
                 /\ version'[t] = IF t = s THEN v + 1 ELSE version[t]
        BY <4>1, TransitionMoves
      <4>3. QED
        BY <4>2
    <3>2. /\ sweep'.step = "finish"
          /\ sweep'.rows[s].state = "expiring" /\ sweep'.rows[s].version = v + 1
          /\ sweep'.rows[s].late = Row(s).late
      BY <1>0, <2>2 DEF Stay, SweepType, SweptRow, Row
    <3>3. v \in Nat
      BY <1>0 DEF Row, SweptRow
    <3>4. SweepRowOK(s)'
      BY <1>0, <3>1, <3>2, <3>3 DEF SweepRowOK, Row
    <3>5. QED
      BY <3>2, <3>4 DEF SweepStepOK
  <2>3. QED
    BY <1>6, <2>1, <2>2 DEF SweepExpires
<1>7. CASE SweepFails(s) \/ SweepPasses(s) \/ SweepDefers(s) \/ SweepWrites(s)
  <2>1. \E deferred \in BOOLEAN : sweep' = Leave(s, deferred)
    BY <1>7 DEF SweepFails, SweepPasses, SweepDefers, SweepWrites
  <2>2. QED
    BY <1>1, <2>1
<1>8. QED
  BY <1>3, <1>4, <1>5, <1>6, <1>7

\* It has the others' rows as they were, and is at work on none of them.
LEMMA SweepOthersSee ==
  ASSUME RowsOK, TasksTyped, SweepSees, [Next]_vars, NEW s \in Session,
         \/ SweepExpires(s) \/ SweepFails(s) \/ SweepStops(s) \/ SweepPasses(s)
         \/ SweepStopped(s) \/ SweepClearsEngine(s) \/ SweepDefers(s)
         \/ SweepWrites(s),
         NEW t \in Session, t # s
  PROVE  SweepRowOK(t)' /\ SweepStepOK(t)'
<1>0. sweep \in SweepType /\ SweepRowOK(t)
  BY DEF TasksTyped, SweepType, SweepSees
<1>1. sweep'.rows[t] = sweep.rows[t]
  BY <1>0, SweepOwesOthers
<1>2. sweep'.step = "next" \/ sweep'.cur = s
  <2>1. CASE SweepExpires(s)
    <3>1. [Stay("finish", s) EXCEPT !.rows[s].state = "expiring",
             !.rows[s].version = Row(s).version + 1].cur = s
      BY <1>0 DEF Stay, SweepType
    <3>2. QED
      BY <1>0, <2>1, <3>1, LeaveFields DEF SweepExpires
  <2>2. CASE ~SweepExpires(s)
    <3>1. \/ \E step : sweep' = Stay(step, s)
          \/ \E deferred \in BOOLEAN : sweep' = Leave(s, deferred)
      BY <2>2 DEF SweepFails, SweepStops, SweepPasses, SweepStopped,
         SweepClearsEngine, SweepDefers, SweepWrites
    <3>2. \A step : Stay(step, s).cur = s
      BY <1>0 DEF Stay, SweepType
    <3>3. QED
      BY <1>0, <3>1, <3>2, LeaveFields
  <2>3. QED
    BY <2>1, <2>2
<1>3. QED
  BY <1>0, <1>1, <1>2, StillRowOK DEF SweepStepOK

LEMMA StepSweepSees ==
  ASSUME RowsOK, TasksTyped, SweepSees, [Next]_vars
  PROVE  SweepSees'
<1>1. CASE sweep' = sweep
  BY <1>1, StillRowOK, StillStepOK DEF SweepSees
<1>2. CASE SweepEnds \/ Restart
  BY <1>2, NoSweepSees DEF SweepEnds, Restart
<1>3. ASSUME NEW s \in Session,
             \/ SweepExpires(s) \/ SweepFails(s) \/ SweepStops(s) \/ SweepPasses(s)
             \/ SweepStopped(s) \/ SweepClearsEngine(s) \/ SweepDefers(s)
             \/ SweepWrites(s)
      PROVE  SweepSees'
  BY <1>3, SweepOwnSees, SweepOthersSee DEF SweepSees
<1>4. QED
  BY <1>1, <1>2, <1>3, SweepBeginsSees, SweepStays DEF Sweep

-----------------------------------------------------------------------------
(***************************************************************************)
(* The transaction each step is.                                           *)
(***************************************************************************)
RowStep == DB!Next \/ UNCHANGED db

LEMMA CommandIsRowStep ==
  ASSUME NEW s \in Session, DB!Command(s) \/ DB!Background(s) \/ DB!Time(s)
  PROVE  RowStep
BY DEF RowStep, DB!Next

LEMMA WonWrite ==
  ASSUME RowsOK, NEW s \in Session, NEW v, NEW to, NEW advance, NEW late,
         Write(s, v, to, advance, late)
  PROVE  /\ version[s] = v /\ DB!CanTransition(state[s], to)
         /\ to \notin DB!Closing \cup DB!Terminal => ~late
         /\ \A any : (to \in DB!Closing \cup DB!Terminal \/ ~any) =>
              DB!Transition(s, version[s], to, advance, any)
BY DEF Write, DB!Transition, DB!CanCommit

LEMMA PlayTaskIsRowStep ==
  ASSUME RowsOK, TasksTyped, SeesOK, NEW s \in Session, NEW g \in Generation,
         PlayTask(s, g)
  PROVE  RowStep
<1> DEFINE v == task[<<s, g>>].version
<1>1. CASE Publish(s, g)
  <2>1. CASE Write(s, v, "ready", 0, lapsed[s])
    <3>1. DB!Transition(s, version[s], "ready", 0, lapsed[s])
      BY <2>1 DEF Write, DB!Transition, DB!CanCommit
    <3>2. state[s] = "preparing"
      BY <2>1, WonWrite DEF DB!CanTransition
    <3>3. DB!Background(s)
      BY <3>1, <3>2 DEF DB!Background, DB!PlaybackReady
    <3>4. QED
      BY <3>3, CommandIsRowStep
  <2>2. QED
    BY <1>1, <2>1 DEF Publish, WriteLost, RowStep
<1>2. CASE Revoke(s, g)
  <2>1. CASE Write(s, v, "awaiting_playback", 0, lapsed[s])
    <3>1. version[s] = v /\ DB!Transition(s, version[s], "awaiting_playback", 0, lapsed[s])
      BY <2>1 DEF Write, DB!Transition, DB!CanCommit
    <3>2. state[s] \in {"preparing", "ready"}
      BY <1>2, <3>1 DEF Revoke, MoveTask, SeesOK, TasksSee
    <3>3. DB!Background(s)
      BY <3>1, <3>2 DEF DB!Background, DB!PlaybackRevoked
    <3>4. QED
      BY <3>3, CommandIsRowStep
  <2>2. QED
    BY <1>2, <2>1 DEF Revoke, WriteLost, RowStep
<1>3. CASE ~Publish(s, g) /\ ~Revoke(s, g)
  BY <1>3 DEF PlayTask, StartWorker, SourceMissing, Started, Buffered,
     NotBuffered, Complete, Interrupted, Abort, Aborted, RowStep
<1>4. QED
  BY <1>1, <1>2, <1>3

LEMMA RequestIsRowStep ==
  ASSUME NEW s \in Session, Request(s)
  PROVE  RowStep
<1>1. CASE UNCHANGED db
  BY <1>1 DEF RowStep
<1>2. CASE DB!RequestStop(s) \/ \E f \in File : DB!SelectFile(s, f)
  BY <1>2, CommandIsRowStep DEF DB!Command
<1>3. QED
  BY <1>1, <1>2 DEF Request, SelectFile, BrokenPlaylist, RequestStop

LEMMA HandlingIsRowStep ==
  ASSUME RowsOK, TasksTyped, SeesOK, NEW s \in Session, Handling(s)
  PROVE  RowStep
<1>1. CASE UNCHANGED db
  BY <1>1 DEF RowStep
<1>2. CASE DB!ClearEngine(s)
  BY <1>2, CommandIsRowStep DEF DB!Background
<1>3. CASE "hls" \in Actors /\ BrokenPlaylistDone(s)
  <2> DEFINE v == handler[<<"hls", s>>].version
  <2>1. CASE Write(s, v, "awaiting_playback", 0, lapsed[s])
    <3>1. version[s] = v /\ DB!Transition(s, version[s], "awaiting_playback", 0, lapsed[s])
      BY <2>1 DEF Write, DB!Transition, DB!CanCommit
    <3>2. "hls" \in Handler /\ handler[<<"hls", s>>].step = "write"
      BY <1>3 DEF BrokenPlaylistDone, Proceed, Handler
    <3>3. state[s] = "ready"
      BY <3>1, <3>2 DEF SeesOK, HandlersSee
    <3>4. DB!Background(s)
      BY <3>1, <3>3 DEF DB!Background, DB!PlaybackRevoked
    <3>5. QED
      BY <3>4, CommandIsRowStep
  <2>2. QED
    BY <1>3, <2>1 DEF BrokenPlaylistDone, WriteLost, RowStep
<1>4. CASE "stop" \in Actors /\ StopDone(s)
  <2> DEFINE v == handler[<<"stop", s>>].version
  <2>1. CASE Write(s, v, "stopped", 0, TRUE)
    <3>1. version[s] = v /\ DB!Transition(s, version[s], "stopped", 0, TRUE)
      BY <2>1 DEF Write, DB!Transition, DB!CanCommit
    <3>2. "stop" \in Handler /\ handler[<<"stop", s>>].step = "write"
      BY <1>4 DEF StopDone, Proceed, Handler
    <3>3. engine[s] = None
      BY <3>2 DEF SeesOK, HandlersSee
    <3>4. state[s] = "stopping"
      <4>1. DB!CanTransition(state[s], "stopped")
        BY <2>1 DEF Write, DB!Transition, DB!CanCommit
      <4>2. QED
        BY <4>1 DEF DB!CanTransition
    <3>5. DB!Background(s)
      BY <3>1, <3>3, <3>4 DEF DB!Background, DB!Finish
    <3>6. QED
      BY <3>5, CommandIsRowStep
  <2>2. QED
    BY <1>4, <2>1 DEF StopDone, WriteLost, RowStep
<1>5. QED
  BY <1>1, <1>2, <1>3, <1>4 DEF Handling, SelectFileStops, SelectFileDone,
     BrokenPlaylistStops, BrokenPlaylistStopped, CallStop, Stopped,
     FindForCleanup, StopWorkerGone, StopClearsEngine, StopDeferred

\* The last write of the sweep: a session closed, or a playback reset.
LEMMA SweepWritesIsRowStep ==
  ASSUME RowsOK, TasksTyped, SeesOK, NEW s \in Session, SweepWrites(s)
  PROVE  RowStep
<1> DEFINE v == Row(s).version
           late == Row(s).late
<1>1. /\ late => lapsed[s]
      /\ v = version[s] /\ Row(s).state # "none" => Row(s).state = state[s]
      /\ \/ Row(s).state \in {"preparing", "ready"}
         \/ Row(s).state \in DB!Closing /\ engine[s] = None
  BY DEF SeesOK, SweepSees, SweepRowOK, SweepStepOK, SweepWrites, Sweeping, Row
<1>2. CASE Row(s).state = "stopping" /\ Write(s, v, "stopped", 0, late)
  <2>1. /\ v = version[s] /\ state[s] = "stopping"
        /\ DB!Transition(s, version[s], "stopped", 0, TRUE)
    BY <1>1, <1>2 DEF Write, DB!Transition, DB!CanCommit
  <2>2. DB!Background(s)
    BY <1>1, <1>2, <2>1 DEF DB!Background, DB!Finish
  <2>3. QED
    BY <2>2, CommandIsRowStep
<1>3. CASE Row(s).state = "expiring" /\ Write(s, v, "expired", 0, late)
  <2>1. /\ v = version[s] /\ state[s] = "expiring"
        /\ DB!Transition(s, version[s], "expired", 0, TRUE)
    BY <1>1, <1>3 DEF Write, DB!Transition, DB!CanCommit
  <2>2. DB!Background(s)
    BY <1>1, <1>3, <2>1 DEF DB!Background, DB!Finish
  <2>3. QED
    BY <2>2, CommandIsRowStep
<1>4. CASE /\ Row(s).state \notin {"stopping", "expiring"}
           /\ Write(s, v, "awaiting_playback", 1, late)
  <2>1. /\ v = version[s] /\ state[s] \in {"preparing", "ready"}
        /\ DB!Transition(s, version[s], "awaiting_playback", 1, FALSE)
    BY <1>1, <1>4 DEF Write, DB!Transition, DB!CanCommit
  <2>2. DB!Background(s)
    BY <2>1 DEF DB!Background, DB!GenerationReset
  <2>3. QED
    BY <2>2, CommandIsRowStep
<1>5. CASE UNCHANGED db
  BY <1>5 DEF RowStep
<1>6. QED
  BY <1>2, <1>3, <1>4, <1>5 DEF SweepWrites, WriteLost

LEMMA SweepIsRowStep ==
  ASSUME RowsOK, TasksTyped, SeesOK, Sweep
  PROVE  RowStep
<1>1. CASE UNCHANGED db
  BY <1>1 DEF RowStep
<1>2. ASSUME NEW s \in Session, SweepExpires(s)
      PROVE  RowStep
  <2>1. CASE Write(s, Row(s).version, "expiring", 0, TRUE)
    <3>1. DB!Transition(s, version[s], "expiring", 0, TRUE)
      BY <2>1 DEF Write, DB!Transition, DB!CanCommit
    <3>2. state[s] \in DB!Visible
      BY <2>1, WonWrite DEF DB!CanTransition
    <3>3. lapsed[s]
      BY <1>2 DEF SweepExpires, Row, SeesOK, SweepSees, SweepRowOK
    <3>4. DB!Background(s)
      BY <3>1, <3>2, <3>3 DEF DB!Background, DB!Expire
    <3>5. QED
      BY <3>4, CommandIsRowStep
  <2>2. QED
    BY <1>2, <2>1 DEF SweepExpires, WriteLost, RowStep
<1>3. ASSUME NEW s \in Session, SweepFails(s)
      PROVE  RowStep
  <2>1. CASE Write(s, Row(s).version, "failed", 0, Row(s).late)
    <3>1. DB!Transition(s, version[s], "failed", 0, FALSE)
      BY <2>1 DEF Write, DB!Transition, DB!CanCommit
    <3>2. state[s] \in DB!Active
      BY <2>1, WonWrite DEF DB!CanTransition
    <3>3. DB!Background(s)
      BY <3>1, <3>2 DEF DB!Background, DB!Fail
    <3>4. QED
      BY <3>3, CommandIsRowStep
  <2>2. QED
    BY <1>3, <2>1 DEF SweepFails, WriteLost, RowStep
<1>4. ASSUME NEW s \in Session, SweepClearsEngine(s)
      PROVE  RowStep
  BY <1>1, <1>4, CommandIsRowStep DEF SweepClearsEngine, DB!Background
<1>5. QED
  BY <1>1, <1>2, <1>3, <1>4, SweepWritesIsRowStep DEF Sweep, SweepBegins,
     SweepEnds, SweepStops, SweepPasses, SweepStopped, SweepDefers

LEMMA RowsIsRowStep ==
  ASSUME RowsOK, SeesOK, Rows
  PROVE  RowStep
<1>1. ASSUME NEW s \in Session, DB!SaveProbe(s, version[s], selected[s])
      PROVE  RowStep
  <2>1. selected[s] \in File
    BY <1>1 DEF DB!SaveProbe, DB!ProbeAwaited, SeesOK, FileChosen, Ended
  <2>2. DB!Background(s)
    BY <1>1, <2>1 DEF DB!Background
  <2>3. QED
    BY <2>2, CommandIsRowStep
<1>2. ASSUME NEW s \in Session, DB!Fail(s) \/ DB!Lapse(s)
      PROVE  RowStep
  BY <1>2, CommandIsRowStep DEF DB!Background, DB!Time
<1>3. ASSUME NEW o \in Owner, DB!Logout(o)
      PROVE  RowStep
  BY <1>3 DEF RowStep, DB!Next
<1>4. QED
  BY <1>1, <1>2, <1>3 DEF Rows

LEMMA StepIsRowStep ==
  ASSUME AllOK, SeesOK, [Next]_vars
  PROVE  [DB!Next]_(DB!vars)
<1>1. ASSUME NEW s \in Session, NEW p \in Output, Playback(s, p)
      PROVE  RowStep
  <2>1. DB!Command(s)
    BY <1>1 DEF Playback, DB!Command
  <2>2. QED
    BY <2>1, CommandIsRowStep
<1>2. ASSUME BootWithoutEngine \/ Restart \/ Gateway \/ UNCHANGED vars
      PROVE  RowStep
  <2>1. UNCHANGED db
    BY <1>2 DEF BootWithoutEngine, Restart, Gateway, vars
  <2>2. QED
    BY <2>1 DEF RowStep
<1>3. RowStep
  <2>1. ASSUME NEW s \in Session, NEW g \in Generation, PlayTask(s, g)
        PROVE  RowStep
    BY <2>1, PlayTaskIsRowStep DEF AllOK
  <2>2. ASSUME NEW s \in Session, Request(s) \/ Handling(s)
        PROVE  RowStep
    BY <2>2, RequestIsRowStep, HandlingIsRowStep DEF AllOK
  <2>3. Sweep \/ Rows => RowStep
    BY SweepIsRowStep, RowsIsRowStep DEF AllOK
  <2>4. QED
    BY <1>1, <1>2, <2>1, <2>2, <2>3 DEF Next
<1>4. QED
  BY <1>3 DEF RowStep, db, DB!vars

(***************************************************************************)
(* SeesOK holds from the start and is kept.                                *)
(***************************************************************************)
LEMMA InitSeesOK == Init => SeesOK
<1> SUFFICES ASSUME Init PROVE SeesOK
  OBVIOUS
<1>1. TasksSee /\ FileChosen
  BY DEF Init, TasksSee, NoTask, FileChosen
<1>2. HandlersSee
  <2>1. \A s \in Session : version[s] \in Nat
    BY DEF Init
  <2>2. \A h \in Handler, s \in Session : handler[<<h, s>>] = NoRequest
    BY DEF Init
  <2>3. QED
    BY <2>1, <2>2 DEF HandlersSee, NoRequest
<1>3. SweepSees
  <2>1. \A s \in Session : version[s] \in Nat
    BY DEF Init
  <2>2. sweep.step = "idle" /\ \A s \in Session : sweep.rows[s] = NoRow
    BY DEF Init, NoSweep
  <2>3. QED
    BY <2>1, <2>2 DEF SweepSees, SweepRowOK, SweepStepOK, NoRow
<1>4. QED
  BY <1>1, <1>2, <1>3 DEF SeesOK

LEMMA StepSeesOK ==
  ASSUME AllOK, SeesOK, [Next]_vars
  PROVE  SeesOK'
BY StepFileChosen, StepTasksSee, StepHandlersSee, StepSweepSees DEF AllOK, SeesOK

(***************************************************************************)
(* Every step of the tasks, the handlers, the sweep and the player is a    *)
(* transaction of TorrentSession, with the guard it has there, or leaves   *)
(* the rows as they are.                                                   *)
(***************************************************************************)
THEOREM ImplementsSessions == Spec => [][DB!Next]_(DB!vars)
<1>1. Init => SeesOK
  BY InitSeesOK
<1>2. AllOK /\ SeesOK /\ [Next]_vars => SeesOK'
  BY StepSeesOK
<1>3. AllOK /\ SeesOK /\ [Next]_vars => [DB!Next]_(DB!vars)
  BY StepIsRowStep
<1>4. QED
  BY <1>1, <1>2, <1>3, PlaybackInvariant, PTL DEF Spec

-----------------------------------------------------------------------------
(***************************************************************************)
(* So what TorrentSessionProofs proves of the rows is true of them here,   *)
(* once it is of the sessions TorrentPlayback starts with.                 *)
(***************************************************************************)
Sessions == INSTANCE TorrentSessionProofs

LEMMA SameSets ==
  /\ DB!Active = Sessions!Active /\ DB!Visible = Sessions!Visible
  /\ DB!Closing = Sessions!Closing /\ DB!Terminal = Sessions!Terminal
  /\ DB!Vacant = Sessions!Vacant /\ DB!States = Sessions!States
  /\ DB!ActiveSessions = Sessions!ActiveSessions
  /\ DB!Overdue = Sessions!Overdue
  /\ DB!ReplayRow = Sessions!ReplayRow
BY DEF Sessions!Active, Sessions!Visible, Sessions!Closing, Sessions!Terminal,
   Sessions!Vacant, Sessions!States, DB!ActiveSessions, Sessions!ActiveSessions,
   DB!Overdue, Sessions!Overdue, DB!ReplayRow, Sessions!ReplayRow

LEMMA SameTransition ==
  ASSUME NEW s \in Session, NEW v, NEW to, NEW advance, NEW late,
         DB!Transition(s, v, to, advance, late)
  PROVE  Sessions!Transition(s, v, to, advance, late)
<1>1. DB!CanCommit(s, v, to, late) <=> Sessions!CanCommit(s, v, to, late)
  BY SameSets DEF DB!CanCommit, Sessions!CanCommit, DB!CanTransition,
     Sessions!CanTransition
<1>2. QED
  BY <1>1, SameSets DEF DB!Transition, Sessions!Transition

LEMMA SameReserve ==
  ASSUME NEW o \in Owner, NEW k \in Key, NEW d \in Digest, NEW s \in Session,
         DB!Reserve(o, k, d, s)
  PROVE  Sessions!Reserve(o, k, d, s)
<1> DEFINE held == DB!ActiveSessions \ DB!Overdue
<1>1. /\ DB!Admits(o, held) <=> Sessions!Admits(o, held)
      /\ DB!ReplayRowsOf(o, "create", k) = Sessions!ReplayRowsOf(o, "create", k)
      /\ DB!CreateRow(o, k, d, s) = Sessions!CreateRow(o, k, d, s)
  BY DEF DB!Admits, Sessions!Admits, DB!ReplayRowsOf, Sessions!ReplayRowsOf,
     DB!CreateRow, Sessions!CreateRow, DB!Cardinality, Sessions!Cardinality,
     DB!IsFiniteSet, Sessions!IsFiniteSet
<1>2. QED
  BY <1>1, SameSets DEF DB!Reserve, Sessions!Reserve

LEMMA SameCommand ==
  ASSUME NEW s \in Session, DB!Command(s)
  PROVE  Sessions!Command(s)
<1>1. DB!RequestStop(s) => Sessions!RequestStop(s)
  BY SameSets DEF DB!RequestStop, Sessions!RequestStop
<1>2. ASSUME NEW f \in File, DB!SelectFile(s, f)
      PROVE  Sessions!SelectFile(s, f)
  BY <1>2 DEF DB!SelectFile, Sessions!SelectFile
<1>3. ASSUME NEW k \in Key, NEW p \in Output, DB!BeginPlayback(s, k, p)
      PROVE  Sessions!BeginPlayback(s, k, p)
  <2>1. /\ DB!ReplayRowsOf(owner[s], "playback", k)
             = Sessions!ReplayRowsOf(owner[s], "playback", k)
        /\ DB!NextGeneration(s) = Sessions!NextGeneration(s)
    BY DEF DB!ReplayRowsOf, Sessions!ReplayRowsOf, DB!NextGeneration,
       Sessions!NextGeneration
  <2>2. QED
    BY <1>3, <2>1 DEF DB!BeginPlayback, Sessions!BeginPlayback
<1>4. QED
  BY <1>1, <1>2, <1>3 DEF DB!Command, Sessions!Command

LEMMA SameBackground ==
  ASSUME NEW s \in Session, DB!Background(s)
  PROVE  Sessions!Background(s)
<1>1. ASSUME NEW e \in EngineKey, DB!BindEngine(s, e)
      PROVE  Sessions!BindEngine(s, e)
  BY <1>1, SameSets DEF DB!BindEngine, Sessions!BindEngine, DB!KeyFree,
     Sessions!KeyFree
<1>2. ASSUME NEW F \in SUBSET File, DB!ReplaceFiles(s, F)
      PROVE  Sessions!ReplaceFiles(s, F)
  BY <1>2 DEF DB!ReplaceFiles, Sessions!ReplaceFiles, DB!Cardinality,
     Sessions!Cardinality, DB!IsFiniteSet, Sessions!IsFiniteSet
<1>3. ASSUME NEW f \in File, DB!SaveProbe(s, version[s], f)
      PROVE  Sessions!SaveProbe(s, version[s], f)
  BY <1>3 DEF DB!SaveProbe, Sessions!SaveProbe, DB!ProbeAwaited,
     Sessions!ProbeAwaited
<1>4. DB!ClearEngine(s) => Sessions!ClearEngine(s)
  BY SameSets DEF DB!ClearEngine, Sessions!ClearEngine
<1>5. /\ DB!FetchMetadata(s) => Sessions!FetchMetadata(s)
      /\ DB!Fail(s) => Sessions!Fail(s)
      /\ DB!PlaybackReady(s) => Sessions!PlaybackReady(s)
      /\ DB!PlaybackRevoked(s) => Sessions!PlaybackRevoked(s)
      /\ DB!GenerationReset(s) => Sessions!GenerationReset(s)
      /\ DB!Expire(s) => Sessions!Expire(s)
      /\ DB!Finish(s) => Sessions!Finish(s)
  <2>1. DB!FetchMetadata(s) => Sessions!FetchMetadata(s)
    BY SameTransition DEF DB!FetchMetadata, Sessions!FetchMetadata
  <2>2. DB!Fail(s) => Sessions!Fail(s)
    BY SameTransition, SameSets DEF DB!Fail, Sessions!Fail
  <2>3. DB!PlaybackReady(s) => Sessions!PlaybackReady(s)
    BY SameTransition DEF DB!PlaybackReady, Sessions!PlaybackReady
  <2>4. DB!PlaybackRevoked(s) => Sessions!PlaybackRevoked(s)
    BY SameTransition DEF DB!PlaybackRevoked, Sessions!PlaybackRevoked
  <2>5. DB!GenerationReset(s) => Sessions!GenerationReset(s)
    BY SameTransition DEF DB!GenerationReset, Sessions!GenerationReset
  <2>6. DB!Expire(s) => Sessions!Expire(s)
    BY SameTransition, SameSets DEF DB!Expire, Sessions!Expire
  <2>7. DB!Finish(s) => Sessions!Finish(s)
    BY SameTransition, SameSets DEF DB!Finish, Sessions!Finish
  <2>8. QED
    BY <2>1, <2>2, <2>3, <2>4, <2>5, <2>6, <2>7
<1>6. QED
  BY <1>1, <1>2, <1>3, <1>4, <1>5 DEF DB!Background, Sessions!Background

LEMMA SameNext ==
  ASSUME [DB!Next]_(DB!vars)
  PROVE  [Sessions!Next]_(Sessions!vars)
<1>1. ASSUME NEW s \in Session, DB!Time(s)
      PROVE  Sessions!Time(s)
  BY <1>1, SameSets DEF DB!Time, Sessions!Time, DB!Lapse, Sessions!Lapse,
     DB!PurgeTombstone, Sessions!PurgeTombstone, DB!IdGone, Sessions!IdGone
<1>2. ASSUME NEW o \in Owner, DB!Logout(o)
      PROVE  Sessions!Logout(o)
  BY <1>2, SameSets DEF DB!Logout, Sessions!Logout
<1>3. ASSUME NEW r \in replay, DB!ForgetKey(r)
      PROVE  Sessions!ForgetKey(r)
  BY <1>3 DEF DB!ForgetKey, Sessions!ForgetKey, DB!KeyExpired, Sessions!KeyExpired
<1>4. DB!Next => Sessions!Next
  BY <1>1, <1>2, <1>3, SameReserve, SameCommand, SameBackground DEF DB!Next,
     Sessions!Next
<1>5. QED
  BY <1>4 DEF DB!vars, Sessions!vars

SessionsOK ==
  /\ Sessions!RowsOK /\ Sessions!SourceOK /\ Sessions!FreshOK
  /\ Sessions!OneActivePerOwner /\ Sessions!CapacityRespected
  /\ Sessions!EngineBoundOnce

LEMMA InitSessionsOK == Init => SessionsOK
<1> SUFFICES ASSUME Init PROVE SessionsOK
  OBVIOUS
<1>1. RowsOK
  BY InitAllOK DEF AllOK
<1>2. Sessions!RowsOK
  BY <1>1, SameSets DEF RowsOK, DB!TypeOK, Sessions!RowsOK, Sessions!TypeOK
<1>3. Sessions!SourceOK /\ Sessions!FreshOK
  BY PlaybackAssumption DEF Init, Sessions!SourceOK, Sessions!FreshOK,
     Sessions!Active
<1>4. Sessions!OneActivePerOwner /\ Sessions!EngineBoundOnce
  BY DEF Init, Apart, Sessions!OneActivePerOwner, Sessions!EngineBoundOnce,
     Sessions!ActiveSessions
<1>5. Sessions!CapacityRespected
  <2>1. Sessions!ActiveSessions = Session
    BY DEF Init, Sessions!ActiveSessions, Sessions!Active
  <2>2. Sessions!Cardinality(Session) = Cardinality(Session)
    BY DEF Sessions!Cardinality, Cardinality, Sessions!IsFiniteSet, IsFiniteSet
  <2>3. QED
    BY <2>1, <2>2, PlaybackAssumption DEF Sessions!CapacityRespected
<1>6. QED
  BY <1>2, <1>3, <1>4, <1>5 DEF SessionsOK

LEMMA SessionConstants == Sessions!ConstantAssumption
BY PlaybackConstants, PlaybackAssumption DEF Sessions!ConstantAssumption,
   Sessions!IsFiniteSet, IsFiniteSet

LEMMA StepSessionsOK ==
  ASSUME SessionsOK, [DB!Next]_(DB!vars)
  PROVE  SessionsOK'
<1>1. [Sessions!Next]_(Sessions!vars)
  BY SameNext
<1>2. Sessions!ConstantAssumption
  BY SessionConstants
<1>3. Sessions!RowsOK' /\ Sessions!SourceOK'
  BY <1>1, <1>2, Sessions!StepRowsOK, Sessions!StepSourceOK DEF SessionsOK
<1>4. Sessions!FreshOK'
  BY <1>1, <1>2, Sessions!StepBumps DEF SessionsOK, Sessions!FreshOK, Sessions!Bumped
<1>5. Sessions!OneActivePerOwner' /\ Sessions!EngineBoundOnce'
  BY <1>1, <1>2, Sessions!OneActiveStep, Sessions!EngineStep DEF SessionsOK
<1>6. Sessions!CapacityRespected'
  BY <1>1, <1>2, Sessions!CapacityStep DEF SessionsOK
<1>7. QED
  BY <1>3, <1>4, <1>5, <1>6 DEF SessionsOK

LEMMA SessionsInvariant == Spec => []SessionsOK
BY InitSessionsOK, StepSessionsOK, ImplementsSessions, PTL DEF Spec

(***************************************************************************)
(* Whatever tasks, handlers and sweep do at once: no account has two       *)
(* active sessions, the server's limit holds, no torrent is bound twice,   *)
(* and whoever is told to play finds the probe of the file selected.       *)
(***************************************************************************)
THEOREM SessionsStaySafe ==
  Spec => [](/\ DB!OneActivePerOwner /\ DB!CapacityRespected
             /\ DB!EngineBoundOnce /\ DB!PlayableHasSource)
<1>1. SessionsOK => /\ DB!OneActivePerOwner /\ DB!CapacityRespected
                    /\ DB!EngineBoundOnce /\ DB!PlayableHasSource
  <2> SUFFICES ASSUME SessionsOK
               PROVE  /\ DB!OneActivePerOwner /\ DB!CapacityRespected
                      /\ DB!EngineBoundOnce /\ DB!PlayableHasSource
    OBVIOUS
  <2>1. DB!OneActivePerOwner /\ DB!EngineBoundOnce
    BY SameSets DEF SessionsOK, DB!OneActivePerOwner, DB!EngineBoundOnce,
       Sessions!OneActivePerOwner, Sessions!EngineBoundOnce
  <2>2. DB!CapacityRespected
    BY SameSets DEF SessionsOK, DB!CapacityRespected,
       Sessions!CapacityRespected, DB!Cardinality, Sessions!Cardinality,
       DB!IsFiniteSet, Sessions!IsFiniteSet
  <2>3. DB!PlayableHasSource
    BY DEF SessionsOK, DB!PlayableHasSource, Sessions!SourceOK, Sessions!Active
  <2>4. QED
    BY <2>1, <2>2, <2>3
<1>2. QED
  BY <1>1, SessionsInvariant, PTL

(***************************************************************************)
(* No step of any of them leaves a row it writes at its old version, or    *)
(* has a generation stand for a second output.                             *)
(***************************************************************************)
THEOREM SessionsAdvance ==
  Spec => DB!WritesBumpVersion /\ DB!OneOutputPerGeneration
<1> DEFINE Bumps == \A s \in Session :
                      DB!Row(s)' # DB!Row(s) /\ state'[s] # "purged"
                        => version'[s] = version[s] + 1
           Same == \A s \in Session :
                     DB!Playing(s)' /\ generation'[s] = generation[s] =>
                       /\ DB!Playing(s)
                       /\ <<selected[s], output[s], probe[s]>>' =
                             <<selected[s], output[s], probe[s]>>
<1>1. SessionsOK /\ [DB!Next]_(DB!vars) => Bumps
  <2> SUFFICES ASSUME SessionsOK, [DB!Next]_(DB!vars), NEW s \in Session,
                      ~(version'[s] = version[s] + 1), state'[s] # "purged"
               PROVE  DB!Row(s)' = DB!Row(s)
    OBVIOUS
  <2>1. Sessions!Bumped(s)
    BY SameNext, SessionConstants, Sessions!StepBumps DEF SessionsOK
  <2>2. QED
    BY <2>1 DEF Sessions!Bumped, DB!Row
<1>2. SessionsOK /\ [DB!Next]_(DB!vars) => Same
  <2> SUFFICES ASSUME SessionsOK, [DB!Next]_(DB!vars), NEW s \in Session,
                      DB!Playing(s)', generation'[s] = generation[s]
               PROVE  /\ DB!Playing(s)
                      /\ <<selected[s], output[s], probe[s]>>' =
                            <<selected[s], output[s], probe[s]>>
    OBVIOUS
  <2>1. Sessions!SameOutput(s)
    BY SameNext, SessionConstants, Sessions!StepSameOutput DEF SessionsOK
  <2>2. QED
    BY <2>1 DEF Sessions!SameOutput, DB!Playing, Sessions!Playing
<1>3. QED
  BY <1>1, <1>2, SessionsInvariant, ImplementsSessions, PTL
     DEF DB!WritesBumpVersion, DB!OneOutputPerGeneration
================================================================================

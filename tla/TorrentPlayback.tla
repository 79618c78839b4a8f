---------------------------- MODULE TorrentPlayback ----------------------------
(***************************************************************************)
(* Playback of a torrent session: the rows of TorrentSession, the workers  *)
(* of StreamGateway, and the tasks of the backend process that keep the    *)
(* two in step without a common lock.  They are                            *)
(*   - PlaybackService.start, one detached task per accepted generation;   *)
(*   - the handlers of select file, of stop, and of an HLS request that    *)
(*     finds its playlist broken;                                          *)
(*   - the reconciler's sweep, which works from rows it listed earlier.    *)
(* An action is what a task does between two awaits.  A backend restart    *)
(* forgets everything but the rows and the artifact directories.           *)
(*                                                                         *)
(* A session starts here with its metadata fetched and its file probed;    *)
(* TorrentSession covers what comes before.  The engine is external: its   *)
(* calls succeed, fail, or report that it no longer has the torrent.       *)
(***************************************************************************)
EXTENDS Integers, FiniteSets

CONSTANTS
  Owner, Session, Key, Digest, File, Output, EngineKey, None,
  MaxActive, MaxGeneration,
  MaxWorkers,
  Encoded,       \* outputs that need a video transcode
  Faults,        \* whether the database may fail a task
  Actors,        \* who acts besides the player: all of them in the code
  MaxRestarts    \* model bound on backend restarts

Handler == {"select", "stop", "hls"} \cap Actors

VARIABLES
  owner, state, version, generation, lapsed, selected, output, files, probe,
  engine, replay,
  worker, completed, starting, cancelled, stopping, process, mode, dirs, call,
  task,       \* task[s, g]: the playback task of generation g
  handler,    \* handler[<<h, s>>]: a request whose handler is under way
  sweep,      \* the sweep of the reconciler
  startup,    \* "boot" during module init, then "pending" until a sweep that
              \* defers nothing makes it "done"
  restarts

db == <<owner, state, version, generation, lapsed, selected, output, files,
        probe, engine, replay>>
gw == <<worker, completed, starting, cancelled, stopping, process, mode, dirs,
        call>>
tasks == <<task, handler, sweep, startup, restarts>>
vars == <<db, gw, tasks>>

Generation == 1..MaxGeneration

\* Whoever calls the gateway, with the session it calls for.
PlayCaller(s, g) == <<"play", s, g>>
HandlerCaller(h, s) == <<h, s, 0>>
SweepCaller == <<"sweep", None, 0>>
Caller == {PlayCaller(s, g) : s \in Session, g \in Generation}
            \cup {HandlerCaller(h, s) : h \in Handler, s \in Session}
            \cup {SweepCaller}

ASSUME PlaybackAssumption ==
  /\ IsFiniteSet(Session) /\ Cardinality(Session) <= MaxActive
  /\ None \notin Owner \cup File \cup Output \cup EngineKey \cup Caller
  /\ Encoded \subseteq Output
  /\ Actors \subseteq {"select", "stop", "hls", "logout", "sweep"}
  /\ Faults \in BOOLEAN
  /\ MaxActive \in Nat /\ MaxGeneration \in Nat /\ MaxRestarts \in Nat
  /\ MaxWorkers \in Nat \ {0}

DB == INSTANCE TorrentSession
GW == INSTANCE StreamGateway

NoTask == [step |-> "none", version |-> 0]
NoRequest == [step |-> "none", version |-> 0, gen |-> 0]
NoRow == [state |-> "none", version |-> 0, gen |-> 0, late |-> FALSE]
NoSweep == [step |-> "idle", known |-> {}, todo |-> {}, cur |-> None,
            rows |-> [s \in Session |-> NoRow], deferred |-> FALSE]

\* Sessions whose files have just been probed, of different accounts and with
\* torrents of their own.  With several files one of them was selected, which
\* took a generation.
Apart(f) == \A s, t \in Session : f[s] = f[t] => s = t

Init ==
  /\ owner \in [Session -> Owner] /\ Apart(owner)
  /\ engine \in [Session -> EngineKey] /\ Apart(engine)
  /\ selected \in [Session -> File] /\ probe = selected
  /\ LET chosen == IF Cardinality(File) > 1 THEN 1 ELSE 0 IN
       /\ version = [s \in Session |-> 4 + chosen]
       /\ generation = [s \in Session |-> chosen]
  /\ state = [s \in Session |-> "awaiting_playback"]
  /\ lapsed = [s \in Session |-> FALSE]
  /\ output = [s \in Session |-> None]
  /\ files = [s \in Session |-> File]
  /\ replay = {}
  /\ GW!Init
  /\ task = [p \in Session \X Generation |-> NoTask]
  /\ handler = [p \in Handler \X Session |-> NoRequest]
  /\ sweep = NoSweep
  /\ startup = "done"
  /\ restarts = 0

\* A compare-and-set of a task, with its two outcomes.
Write(s, v, to, advance, late) == DB!Transition(s, v, to, advance, late)
WriteLost(s, v, to, late) ==
  /\ Faults \/ ~DB!CanCommit(s, v, to, late)
  /\ UNCHANGED db

-----------------------------------------------------------------------------
(***************************************************************************)
(* PlaybackService.playback and the task it detaches.  The capacity check  *)
(* before beginPlayback is repeated by start, so it restricts nothing.     *)
(***************************************************************************)
Playback(s, p) ==
  /\ startup # "boot"
  /\ ~(state[s] = "ready" /\ output[s] = p)
  /\ \E k \in Key : k = generation[s] + 1 /\ DB!BeginPlayback(s, k, p)
  /\ task' = [task EXCEPT ![<<s, generation[s] + 1>>] =
                [step |-> "source", version |-> version[s] + 1]]
  /\ UNCHANGED <<gw, handler, sweep, startup, restarts>>

MoveTask(s, g, from, to) ==
  /\ task[<<s, g>>].step = from
  /\ task' = [task EXCEPT ![<<s, g>>].step = to]
  /\ UNCHANGED <<handler, sweep, startup, restarts>>

\* The probe, the file and the engine key are read before the gateway starts.
StartWorker(s, g) ==
  LET c == PlayCaller(s, g)
      video == output[s] \in Encoded
  IN
  /\ MoveTask(s, g, "source", "starting")
  /\ selected[s] \in files[s] /\ probe[s] # None /\ engine[s] # None
  /\ GW!Start(c, s, g, video) \/ GW!StartRefused(c, s, g, video)
  /\ UNCHANGED db

SourceMissing(s, g) ==
  /\ MoveTask(s, g, "source", "abort")
  /\ \/ Faults
     \/ ~(selected[s] \in files[s] /\ probe[s] # None /\ engine[s] # None)
  /\ UNCHANGED <<db, gw>>

Started(s, g) ==
  LET c == PlayCaller(s, g) IN
  /\ \/ call[c].step = "returned" /\ MoveTask(s, g, "starting", "wait_ready")
     \/ call[c].step = "threw" /\ MoveTask(s, g, "starting", "abort")
  /\ GW!Return(c)
  /\ UNCHANGED db

Buffered(s, g) ==
  /\ MoveTask(s, g, "wait_ready", "publish")
  /\ GW!HasGeneration(s, g)
  /\ UNCHANGED <<db, gw>>

\* The worker is gone, or nothing to play came out of it within 90 seconds.
NotBuffered(s, g) ==
  /\ MoveTask(s, g, "wait_ready", "abort")
  /\ UNCHANGED <<db, gw>>

\* The mutant leaves the worker to itself when its write loses.
PublishOrLeave(s, g) ==
  LET v == task[<<s, g>>].version IN
  /\ task[<<s, g>>].step = "publish"
  /\ \/ /\ Write(s, v, "ready", 0, lapsed[s])
        /\ task' = [task EXCEPT ![<<s, g>>] =
                      [step |-> "wait_complete", version |-> v + 1]]
     \/ /\ WriteLost(s, v, "ready", lapsed[s])
        /\ task' = [task EXCEPT ![<<s, g>>].step = "done"]
  /\ UNCHANGED <<gw, handler, sweep, startup, restarts>>

Publish(s, g) ==
  LET v == task[<<s, g>>].version IN
  /\ task[<<s, g>>].step = "publish"
  /\ \/ /\ Write(s, v, "ready", 0, lapsed[s])
        /\ task' = [task EXCEPT ![<<s, g>>] =
                      [step |-> "wait_complete", version |-> v + 1]]
     \/ /\ WriteLost(s, v, "ready", lapsed[s])
        /\ task' = [task EXCEPT ![<<s, g>>].step = "abort"]
  /\ UNCHANGED <<gw, handler, sweep, startup, restarts>>

Complete(s, g) ==
  /\ completed[s] = g
  /\ MoveTask(s, g, "wait_complete", "done")
  /\ UNCHANGED <<db, gw>>

\* The eight hours the task waits are longer than the session's life.
Interrupted(s, g) ==
  /\ completed[s] # g
  /\ worker[s] # g \/ lapsed[s]
  /\ MoveTask(s, g, "wait_complete", "abort")
  /\ UNCHANGED <<db, gw>>

Abort(s, g) ==
  /\ MoveTask(s, g, "abort", "stopping")
  /\ GW!Stop(PlayCaller(s, g), s, g)
  /\ UNCHANGED db

\* The mutant stops the worker and leaves the row as it is.
AbortedInSilence(s, g) ==
  /\ call[PlayCaller(s, g)].step = "returned"
  /\ MoveTask(s, g, "stopping", "done")
  /\ GW!Return(PlayCaller(s, g))
  /\ UNCHANGED db
Aborted(s, g) ==
  /\ call[PlayCaller(s, g)].step = "returned"
  /\ MoveTask(s, g, "stopping", "revoke")
  /\ GW!Return(PlayCaller(s, g))
  /\ UNCHANGED db

Revoke(s, g) ==
  LET v == task[<<s, g>>].version IN
  /\ MoveTask(s, g, "revoke", "done")
  /\ \/ Write(s, v, "awaiting_playback", 0, lapsed[s])
     \/ WriteLost(s, v, "awaiting_playback", lapsed[s])
  /\ UNCHANGED gw

PlayTask(s, g) ==
  \/ StartWorker(s, g) \/ SourceMissing(s, g) \/ Started(s, g)
  \/ Buffered(s, g) \/ NotBuffered(s, g) \/ Publish(s, g)
  \/ Complete(s, g) \/ Interrupted(s, g)
  \/ Abort(s, g) \/ Aborted(s, g) \/ Revoke(s, g)

-----------------------------------------------------------------------------
(***************************************************************************)
(* Requests.  Each holds what it read until its gateway call returns.      *)
(***************************************************************************)
Ask(h, s, step, v, g) ==
  /\ startup # "boot"
  /\ handler[<<h, s>>] = NoRequest
  /\ handler' = [handler EXCEPT ![<<h, s>>] =
                   [step |-> step, version |-> v, gen |-> g]]
  /\ UNCHANGED <<task, sweep, startup, restarts>>

Proceed(h, s, from, to) ==
  /\ handler[<<h, s>>].step = from
  /\ handler' = [handler EXCEPT ![<<h, s>>] =
                   IF to = "none" THEN NoRequest ELSE [@ EXCEPT !.step = to]]
  /\ UNCHANGED <<task, sweep, startup, restarts>>

CallStop(h, s, g, from) ==
  /\ Proceed(h, s, from, "stopping")
  /\ GW!Stop(HandlerCaller(h, s), s, g)
  /\ UNCHANGED db

Stopped(h, s, to) ==
  /\ call[HandlerCaller(h, s)].step = "returned"
  /\ Proceed(h, s, "stopping", to)
  /\ GW!Return(HandlerCaller(h, s))
  /\ UNCHANGED db

\* The generation that was playing is stopped by its number.
SelectFile(s) ==
  /\ \E f \in File : DB!SelectFile(s, f)
  /\ Ask("select", s, "chosen", version[s] + 1, generation[s])
  /\ UNCHANGED gw

\* The mutant stops whatever the session is playing by now.
SelectFileStopsAny(s) == CallStop("select", s, GW!AnyGen, "chosen")
SelectFileStops(s) == CallStop("select", s, handler[<<"select", s>>].gen, "chosen")
SelectFileDone(s) == Stopped("select", s, "none")

\* An HLS request of a ready session finds an invalid playlist.
BrokenPlaylist(s) ==
  /\ state[s] = "ready" /\ ~lapsed[s]
  /\ GW!HasGeneration(s, generation[s])
  /\ Ask("hls", s, "broken", version[s], generation[s])
  /\ UNCHANGED <<db, gw>>

BrokenPlaylistStops(s) == CallStop("hls", s, handler[<<"hls", s>>].gen, "broken")
BrokenPlaylistStopped(s) == Stopped("hls", s, "write")
BrokenPlaylistDone(s) ==
  LET v == handler[<<"hls", s>>].version IN
  /\ Proceed("hls", s, "write", "none")
  /\ \/ Write(s, v, "awaiting_playback", 0, lapsed[s])
     \/ WriteLost(s, v, "awaiting_playback", lapsed[s])
  /\ UNCHANGED gw

(***************************************************************************)
(* stop: DELETE of a session, and the cleanup it does at once if the sweep *)
(* has not done it yet.  A repeated DELETE cleans up again.                *)
(***************************************************************************)
RequestStop(s) ==
  /\ DB!RequestStop(s) \/ (state[s] = "stopping" /\ UNCHANGED db)
  /\ Ask("stop", s, "find", 0, 0)
  /\ UNCHANGED gw

FindForCleanup(s) ==
  /\ handler[<<"stop", s>>].step = "find"
  /\ \/ /\ state[s] = "stopping"
        /\ handler' = [handler EXCEPT ![<<"stop", s>>] =
                         [step |-> "stopping", version |-> version[s], gen |-> 0]]
        /\ GW!Stop(HandlerCaller("stop", s), s, GW!AnyGen)
     \/ /\ state[s] # "stopping"
        /\ handler' = [handler EXCEPT ![<<"stop", s>>] = NoRequest]
        /\ UNCHANGED gw
  /\ UNCHANGED <<db, task, sweep, startup, restarts>>

StopWorkerGone(s) == Stopped("stop", s, "clear")

StopClearsEngine(s) ==
  /\ \/ DB!ClearEngine(s)
     \/ engine[s] = None /\ UNCHANGED db
  /\ Proceed("stop", s, "clear", "write")
  /\ UNCHANGED gw

\* The engine is unreachable: the sweep takes over.
StopDeferred(s) ==
  /\ Proceed("stop", s, "clear", "none")
  /\ UNCHANGED <<db, gw>>

StopDone(s) ==
  LET v == handler[<<"stop", s>>].version IN
  /\ Proceed("stop", s, "write", "none")
  /\ Write(s, v, "stopped", 0, TRUE) \/ WriteLost(s, v, "stopped", TRUE)
  /\ UNCHANGED gw

Request(s) ==
  \/ "select" \in Actors /\ SelectFile(s)
  \/ "hls" \in Actors /\ BrokenPlaylist(s)
  \/ "stop" \in Actors /\ RequestStop(s)

Handling(s) ==
  \/ /\ "select" \in Actors
     /\ SelectFileStops(s) \/ SelectFileDone(s)
  \/ /\ "hls" \in Actors
     /\ BrokenPlaylistStops(s) \/ BrokenPlaylistStopped(s) \/ BrokenPlaylistDone(s)
  \/ /\ "stop" \in Actors
     /\ \/ FindForCleanup(s) \/ StopWorkerGone(s) \/ StopClearsEngine(s)
        \/ StopDeferred(s) \/ StopDone(s)

-----------------------------------------------------------------------------
(***************************************************************************)
(* The sweep.  listOwned failing ends it before it begins.                 *)
(***************************************************************************)
\* The mutant lists only sessions a user can still see.
ListedVisible(s) == state[s] \in DB!Visible
Listed(s) == state[s] \notin DB!Terminal \cup DB!Vacant

SweepBegins ==
  LET listed == {s \in Session : Listed(s)} IN
  /\ "sweep" \in Actors
  /\ sweep.step = "idle"
  /\ sweep' = [NoSweep EXCEPT
       !.step = "next",
       !.known = listed,
       !.todo = listed,
       !.rows = [s \in Session |->
                   IF s \in listed
                     THEN [state |-> state[s], version |-> version[s],
                           gen |-> generation[s], late |-> lapsed[s]]
                     ELSE NoRow]]
  /\ UNCHANGED <<db, gw, task, handler, startup, restarts>>

\* The record being dealt with, and how the sweep leaves it.
Sweeping(step, s) ==
  /\ sweep.step = step
  /\ IF step = "next" THEN s \in sweep.todo ELSE sweep.cur = s
  /\ UNCHANGED <<task, handler, startup, restarts>>

Stay(step, s) == [sweep EXCEPT !.step = step, !.cur = s]

Leave(s, deferred) ==
  [sweep EXCEPT !.step = "next", !.cur = None, !.todo = @ \ {s},
                !.rows[s] = NoRow, !.deferred = @ \/ deferred]

Row(s) == sweep.rows[s]
Closes(s) == Row(s).state \in DB!Closing \/ Row(s).late
Resets(s) ==
  \/ startup # "done" /\ Row(s).state \in {"preparing", "ready"}
  \/ Row(s).state = "ready" /\ ~GW!HasGeneration(s, Row(s).gen)

SweepExpires(s) ==
  LET v == Row(s).version IN
  /\ Sweeping("next", s)
  /\ Row(s).late /\ Row(s).state \notin DB!Closing
  /\ \/ /\ Write(s, v, "expiring", 0, TRUE)
        /\ sweep' = [Stay("finish", s) EXCEPT
             !.rows[s].state = "expiring", !.rows[s].version = v + 1]
     \/ /\ WriteLost(s, v, "expiring", TRUE)
        /\ sweep' = Leave(s, TRUE)
  /\ UNCHANGED gw

\* The engine no longer has the torrent, or probing took too long.
SweepFails(s) ==
  LET v == Row(s).version IN
  /\ Sweeping("next", s)
  /\ ~Closes(s) /\ Row(s).state # "failed"
  /\ \/ Write(s, v, "failed", 0, Row(s).late) /\ sweep' = Leave(s, FALSE)
     \/ WriteLost(s, v, "failed", Row(s).late) /\ sweep' = Leave(s, TRUE)
  /\ UNCHANGED gw

\* Every stop of the sweep is for the session, whatever generation it runs.
SweepStops(s) ==
  /\ \/ Sweeping("next", s) /\ Row(s).state \in DB!Closing
     \/ Sweeping("finish", s)
     \/ Sweeping("next", s) /\ ~Row(s).late /\ Row(s).state = "failed"
     \/ Sweeping("next", s) /\ ~Row(s).late /\ Resets(s)
  /\ GW!Stop(SweepCaller, s, GW!AnyGen)
  /\ sweep' = Stay("stopping", s)
  /\ UNCHANGED db

SweepPasses(s) ==
  /\ Sweeping("next", s)
  /\ ~Closes(s) /\ Row(s).state # "failed" /\ ~Resets(s)
  /\ sweep' = Leave(s, FALSE)
  /\ UNCHANGED <<db, gw>>

SweepStopped(s) ==
  /\ Sweeping("stopping", s)
  /\ call[SweepCaller].step = "returned"
  /\ GW!Return(SweepCaller)
  /\ sweep' = Stay(IF Row(s).state \in DB!Closing \cup {"failed"}
                     THEN "clear" ELSE "write", s)
  /\ UNCHANGED db

SweepClearsEngine(s) ==
  /\ Sweeping("clear", s)
  /\ DB!ClearEngine(s) \/ (engine[s] = None /\ UNCHANGED db)
  /\ sweep' = IF Row(s).state = "failed" THEN Leave(s, FALSE) ELSE Stay("write", s)
  /\ UNCHANGED gw

\* The engine is unreachable.
SweepDefers(s) ==
  /\ Sweeping("clear", s)
  /\ sweep' = Leave(s, TRUE)
  /\ UNCHANGED <<db, gw>>

SweepWrites(s) ==
  LET v == Row(s).version
      to == CASE Row(s).state = "stopping" -> "stopped"
              [] Row(s).state = "expiring" -> "expired"
              [] OTHER -> "awaiting_playback"
      advance == IF to = "awaiting_playback" THEN 1 ELSE 0
  IN
  /\ Sweeping("write", s)
  /\ \/ Write(s, v, to, advance, Row(s).late) /\ sweep' = Leave(s, FALSE)
     \/ WriteLost(s, v, to, Row(s).late) /\ sweep' = Leave(s, TRUE)
  /\ UNCHANGED gw

\* The mutant, for the type invariant, invents a value of startup.
StartupOver == "over"
StartupDone == "done"

SweepEnds ==
  /\ sweep.step = "next" /\ sweep.todo = {}
  /\ GW!CleanupStaleDirectories(sweep.known) \/ UNCHANGED gw
  /\ sweep' = NoSweep
  /\ startup' = IF ~sweep.deferred THEN StartupDone
                ELSE IF startup = "boot" THEN "pending" ELSE startup
  /\ UNCHANGED <<db, task, handler, restarts>>

\* The engine does not answer the first sweep; the next is a minute away.
BootWithoutEngine ==
  /\ startup = "boot" /\ sweep.step = "idle"
  /\ startup' = "pending"
  /\ UNCHANGED <<db, gw, task, handler, sweep, restarts>>

Sweep ==
  \/ SweepBegins \/ SweepEnds
  \/ \E s \in Session :
       \/ SweepExpires(s) \/ SweepFails(s) \/ SweepStops(s) \/ SweepPasses(s)
       \/ SweepStopped(s) \/ SweepClearsEngine(s) \/ SweepDefers(s)
       \/ SweepWrites(s)

-----------------------------------------------------------------------------
Restart ==
  /\ restarts < MaxRestarts
  /\ restarts' = restarts + 1
  /\ worker' = [s \in Session |-> 0]
  /\ completed' = [s \in Session |-> 0]
  /\ starting' = [s \in Session |-> 0]
  /\ cancelled' = {}
  /\ stopping' = [s \in Session |-> None]
  /\ process' = [p \in Session \X Generation |-> "none"]
  /\ mode' = [p \in Session \X Generation |-> "unstarted"]
  /\ call' = [c \in Caller |-> GW!Idle]
  /\ task' = [p \in Session \X Generation |-> NoTask]
  /\ handler' = [p \in Handler \X Session |-> NoRequest]
  /\ sweep' = NoSweep
  /\ startup' = "boot"
  /\ UNCHANGED <<db, dirs>>

\* pollProbes, the clock, and logout, which leaves the cleanup to the sweep.
Rows ==
  /\ \/ /\ startup # "boot"
        /\ \E s \in Session :
             \/ DB!SaveProbe(s, version[s], selected[s])
             \/ state[s] = "probing" /\ DB!Fail(s)
     \/ /\ startup # "boot" /\ "logout" \in Actors
        /\ \E o \in Owner : DB!Logout(o)
     \/ \E s \in Session : DB!Lapse(s)
  /\ UNCHANGED <<gw, tasks>>

Gateway ==
  /\ GW!Processes \/ \E c \in Caller : GW!Internal(c)
  /\ UNCHANGED <<db, tasks>>

Next ==
  \/ \E s \in Session, p \in Output : Playback(s, p)
  \/ \E s \in Session, g \in Generation : PlayTask(s, g)
  \/ \E s \in Session : Request(s) \/ Handling(s)
  \/ Sweep \/ BootWithoutEngine \/ Restart
  \/ Rows \/ Gateway

Spec == Init /\ [][Next]_vars

\* Every await of a task, a handler or the gateway is bounded by a timeout,
\* and the sweep runs every minute; the engine is not down for ever.  The
\* clock and the requests are not fair.
FairSpec ==
  /\ Spec
  /\ \A s \in Session, g \in Generation : WF_vars(PlayTask(s, g))
  /\ \A s \in Session : WF_vars(Handling(s))
  /\ \A c \in Caller : WF_vars(GW!Internal(c) /\ UNCHANGED <<db, tasks>>)
  /\ \A s \in Session : WF_vars(GW!Ended(s) /\ UNCHANGED <<db, tasks>>)
  /\ WF_vars(Sweep)
  /\ SF_vars(\E s \in Session : SweepClearsEngine(s))

-----------------------------------------------------------------------------
TaskStep == {"none", "source", "starting", "wait_ready", "publish",
             "wait_complete", "abort", "stopping", "revoke", "done"}

TypeOK ==
  /\ DB!TypeOK
  /\ GW!TypeOK
  /\ task \in [Session \X Generation -> [step : TaskStep, version : Nat]]
  /\ startup \in {"boot", "pending", "done"}
  /\ restarts \in 0..MaxRestarts

(***************************************************************************)
(* A session never waits in preparing for nobody: the task of its          *)
(* generation will still report, or its session is about to expire, or     *)
(* the reset that follows a restart is still to come.                      *)
(***************************************************************************)
PreparingIsWatched ==
  \A s \in Session :
    state[s] = "preparing" =>
      \/ lapsed[s]
      \/ startup # "done"
      \/ task[<<s, generation[s]>>].step \notin {"none", "done"}

(***************************************************************************)
(* What a ready session offers is on disk, whatever stops, restarts and    *)
(* stale-directory cleanups came before.                                   *)
(***************************************************************************)
ReadyHasArtifacts ==
  \A s \in Session :
    state[s] = "ready" /\ GW!HasGeneration(s, generation[s]) =>
      <<s, generation[s]>> \in dirs

(***************************************************************************)
(* A task speaks for its own generation only: when one that has been       *)
(* replaced reports at last, its write loses.                              *)
(***************************************************************************)
Reports(s, g) ==
  /\ task[<<s, g>>].step \in {"publish", "revoke"}
  /\ task'[<<s, g>>] # task[<<s, g>>]
  /\ state'[s] # state[s]

OnlyOwnGeneration ==
  [][\A s \in Session, g \in Generation : Reports(s, g) => generation[s] = g]_vars

(***************************************************************************)
(* A stop on behalf of one generation spares the worker of another: the    *)
(* file selection, the broken playlist and the playback task may all be    *)
(* late, and the session may be playing again by then.                     *)
(***************************************************************************)
Killed(s, c) ==
  /\ worker[s] # 0 /\ worker'[s] = 0
  /\ stopping[s] = None /\ stopping'[s] = c

StopsSpareNewer ==
  [][\A s \in Session :
       /\ \A h \in Handler \ {"stop"} :
            Killed(s, HandlerCaller(h, s)) => worker[s] = handler[<<h, s>>].gen
       /\ \A g \in Generation :
            Killed(s, PlayCaller(s, g)) /\ task[<<s, g>>].step = "abort"
              => worker[s] = g]_vars

(***************************************************************************)
(* The reconciler's comment on a sweep that meets a concurrent command:    *)
(* the next sweep retries safely.  It is not safe for that command: the    *)
(* sweep stops the session's worker before its own write loses the race,   *)
(* and the worker may already be the one of the generation just begun.     *)
(***************************************************************************)
SweepSparesCurrent ==
  [][\A s \in Session :
       Killed(s, SweepCaller) /\ ~lapsed[s]
       /\ state[s] \in {"preparing", "ready"} => worker[s] # generation[s]]_vars

(***************************************************************************)
(* Nothing plays for a session that has ended: a start that was under way  *)
(* when the session was stopped may still spawn its worker, but finds out  *)
(* and stops it.                                                           *)
(***************************************************************************)
Silent(s) == worker[s] = 0 /\ starting[s] = 0 /\ completed[s] = 0

EndedIsSilenced ==
  \A s \in Session : [](state[s] \in DB!Terminal => <>[]Silent(s))

(***************************************************************************)
(* A stopped or lapsed session is cleaned up to the end, although the      *)
(* handler of stop, the sweep and the playback task work on it at once.    *)
(***************************************************************************)
CleanupCompletes ==
  \A s \in Session :
    lapsed[s] \/ state[s] \in DB!Closing ~> state[s] \in DB!Terminal

(***************************************************************************)
(* A session that claims to be playing and is not gets out of it: the task *)
(* reports, or the sweep notices that the worker is gone.                  *)
(***************************************************************************)
PlaybackResolves ==
  \A s \in Session :
    (state[s] = "preparing"
       \/ (state[s] = "ready" /\ ~GW!HasGeneration(s, generation[s])))
    ~> ~(state[s] = "preparing"
           \/ (state[s] = "ready" /\ ~GW!HasGeneration(s, generation[s])))
=============================================================================

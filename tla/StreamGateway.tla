----------------------------- MODULE StreamGateway -----------------------------
(***************************************************************************)
(* TorrentStreamGateway: the FFmpeg workers of the backend process.  The   *)
(* gateway is a few maps shared by asynchronous calls of start and stop;   *)
(* an action is the code one call runs between two awaits.  A caller makes *)
(* one call at a time and reads its outcome from call[c].                  *)
(*                                                                         *)
(* The process of a worker outlives its entry in the workers map: stop     *)
(* removes the entry when it sends SIGTERM and waits for the exit only     *)
(* afterwards.  A generation is started at most once, so a process is      *)
(* named by its session and generation; generation 0 stands for no entry.  *)
(*                                                                         *)
(* Subtitle jobs, which stop aborts first, are not part of this module.    *)
(***************************************************************************)
EXTENDS Integers, FiniteSets

CONSTANTS
  Session,
  Caller,
  None,
  MaxGeneration,   \* model bound on generations
  MaxWorkers       \* workers and reservations of the server: 2 in the code

ASSUME GatewayAssumption ==
  /\ IsFiniteSet(Session)
  /\ None \notin Caller
  /\ MaxGeneration \in Nat
  /\ MaxWorkers \in Nat \ {0}

VARIABLES
  worker,      \* worker[s]: the generation in the workers map, or 0
  completed,   \* completed[s]: the generation muxed to the end of the film
  starting,    \* starting[s]: the generation holding the reservation
  cancelled,   \* sessions whose reservation was cancelled
  stopping,    \* stopping[s]: the caller whose stopWorker is in progress
  process,     \* process[s, g]: the FFmpeg process of generation g
  mode,        \* mode[s, g]: how generation g was started
  dirs,        \* artifact directories on disk
  call         \* call[c]: the call caller c is making

vars == <<worker, completed, starting, cancelled, stopping, process,
          mode, dirs, call>>

Generation == 1..MaxGeneration
Slot == 0..MaxGeneration
AnyGen == -1     \* stop() without a generation

\* A process runs, has been sent SIGTERM or SIGKILL, or has exited by itself,
\* with or without a finished playlist, and its exit is still to be handled.
ProcessState == {"none", "running", "term", "kill", "exited_ok", "exited_bad"}

Mode == {"unstarted", "copy", "transcode"}

Step == {"idle", "start_stopping", "start_waiting", "start_seek", "start_spawn",
         "start_clean", "stop_stopping", "stop_waiting", "returned", "threw"}
Call == [step : Step, session : Session \cup {None}, gen : Slot \cup {AnyGen},
         awaits : Caller \cup {None}, targets : SUBSET Generation]
Idle == [step |-> "idle", session |-> None, gen |-> 0, awaits |-> None,
         targets |-> {}]

HasGeneration(s, g) == worker[s] = g \/ completed[s] = g

(***************************************************************************)
(* hasCapacity(video, s): counts the entries of the other sessions.        *)
(***************************************************************************)
Encodes(s, g) == mode[<<s, g>>] = "transcode"

Others(map, s) == {t \in Session \ {s} : map[t] # 0}

\* The mutants count only workers that run, and only those that encode.
CapacityOfRunning(video, s) ==
  /\ Cardinality(Others(worker, s)) < MaxWorkers
  /\ video => /\ \A t \in Others(worker, s) : ~Encodes(t, worker[t])
              /\ \A t \in Others(starting, s) : ~Encodes(t, starting[t])
CapacityOfEncoders(video, s) ==
  /\ Cardinality(Others(worker, s)) + Cardinality(Others(starting, s))
       < MaxWorkers
  /\ video => \A t \in Others(worker, s) : ~Encodes(t, worker[t])
HasCapacity(video, s) ==
  /\ Cardinality(Others(worker, s)) + Cardinality(Others(starting, s))
       < MaxWorkers
  /\ video => /\ \A t \in Others(worker, s) : ~Encodes(t, worker[t])
              /\ \A t \in Others(starting, s) : ~Encodes(t, starting[t])

Init ==
  /\ worker = [s \in Session |-> 0]
  /\ completed = [s \in Session |-> 0]
  /\ starting = [s \in Session |-> 0]
  /\ cancelled = {}
  /\ stopping = [s \in Session |-> None]
  /\ process = [p \in Session \X Generation |-> "none"]
  /\ mode = [p \in Session \X Generation |-> "unstarted"]
  /\ dirs = {}
  /\ call = [c \in Caller |-> Idle]

-----------------------------------------------------------------------------
(***************************************************************************)
(* stopWorker up to its first await.  A stop that names a generation and   *)
(* finds another one returns at once.                                      *)
(***************************************************************************)
\* The mutant overlooks a start that has not spawned yet.
SparesRunning(s, g) ==
  /\ g # AnyGen
  /\ \/ worker[s] # 0 /\ worker[s] # g
     \/ worker[s] = 0 /\ completed[s] # 0 /\ completed[s] # g
Spares(s, g) ==
  /\ g # AnyGen
  /\ \/ worker[s] # 0 /\ worker[s] # g
     \/ worker[s] = 0 /\ completed[s] # 0 /\ completed[s] # g
     \/ worker[s] = 0 /\ starting[s] # 0 /\ starting[s] # g

\* The mutant forgets the worker without signalling its process.
ForgetWorker(c, s) ==
  /\ stopping' = [stopping EXCEPT ![s] = c]
  /\ worker' = [worker EXCEPT ![s] = 0]
  /\ completed' = [completed EXCEPT ![s] = 0]
  /\ UNCHANGED process
StopWorker(c, s) ==
  /\ stopping' = [stopping EXCEPT ![s] = c]
  /\ worker' = [worker EXCEPT ![s] = 0]
  /\ completed' = [completed EXCEPT ![s] = 0]
  /\ process' = [p \in Session \X Generation |->
                   IF p = <<s, worker[s]>>
                     THEN IF process[p] = "running" THEN "term" ELSE "none"
                     ELSE process[p]]

(***************************************************************************)
(* start(s, g): reserves, then stops whatever the session was playing.     *)
(***************************************************************************)
Start(c, s, g, video) ==
  /\ call[c].step = "idle"
  /\ starting[s] = 0
  /\ HasCapacity(video, s)
  /\ starting' = [starting EXCEPT ![s] = g]
  /\ mode' = [mode EXCEPT ![<<s, g>>] = IF video THEN "transcode" ELSE "copy"]
  /\ \/ /\ stopping[s] # None
        /\ call' = [call EXCEPT ![c] = [Idle EXCEPT !.step = "start_waiting",
                       !.session = s, !.gen = g, !.awaits = stopping[s]]]
        /\ UNCHANGED <<worker, completed, stopping, process>>
     \/ /\ stopping[s] = None
        /\ StopWorker(c, s)
        /\ call' = [call EXCEPT ![c] = [Idle EXCEPT !.step = "start_stopping",
                       !.session = s, !.gen = g]]
  /\ UNCHANGED <<cancelled, dirs>>

StartRefused(c, s, g, video) ==
  /\ call[c].step = "idle"
  /\ starting[s] # 0 \/ ~HasCapacity(video, s)
  /\ call' = [call EXCEPT ![c] = [Idle EXCEPT !.step = "threw",
                                   !.session = s, !.gen = g]]
  /\ UNCHANGED <<worker, completed, starting, cancelled, stopping, process,
                 mode, dirs>>

(***************************************************************************)
(* stop(s, g): cancels the reservation it names, then either joins the     *)
(* stopWorker in progress or runs its own.  targets remembers what the     *)
(* caller meant to be gone.                                                *)
(***************************************************************************)
Targets(s, g) ==
  {worker[s], starting[s]} \cap (IF g = AnyGen THEN Generation ELSE {g} \ {0})

\* The mutant does not cancel a start that is under way.
CancelsNothing(s, g) == FALSE
Cancels(s, g) == starting[s] # 0 /\ g \in {AnyGen, starting[s]}

Stop(c, s, g) ==
  LET Begin(step) ==
        call' = [call EXCEPT ![c] = [Idle EXCEPT !.step = step, !.session = s,
                   !.gen = g, !.awaits = stopping[s], !.targets = Targets(s, g)]]
  IN
  /\ call[c].step = "idle"
  /\ cancelled' = IF Cancels(s, g) THEN cancelled \cup {s} ELSE cancelled
  /\ \/ /\ stopping[s] # None
        /\ Begin("stop_waiting")
        /\ UNCHANGED <<worker, completed, stopping, process>>
     \/ /\ stopping[s] = None
        /\ Spares(s, g)
        /\ Begin("returned")
        /\ UNCHANGED <<worker, completed, stopping, process>>
     \/ /\ stopping[s] = None
        /\ ~Spares(s, g)
        /\ StopWorker(c, s)
        /\ Begin("stop_stopping")
  /\ UNCHANGED <<starting, mode, dirs>>

-----------------------------------------------------------------------------
(***************************************************************************)
(* The rest of stopWorker: the process has exited, or five seconds passed  *)
(* and it is sent SIGKILL; then the session's directory is removed, and    *)
(* the calls that joined this stop go on together with its owner.          *)
(***************************************************************************)
Resume(d) ==
  [call[d] EXCEPT !.awaits = None, !.step =
     IF @ \in {"start_stopping", "start_waiting"}
       THEN IF call[d].session \in cancelled THEN "start_clean" ELSE "start_seek"
       ELSE "returned"]

Joined(c, d) ==
  /\ call[d].step \in {"start_waiting", "stop_waiting"}
  /\ call[d].session = call[c].session
  /\ call[d].awaits = c

\* The mutant gives up on a process that ignores SIGTERM.
LeaveRunning(s) == process
KillLeftover(s) ==
  [p \in Session \X Generation |->
     IF p[1] = s /\ process[p] = "term" THEN "kill" ELSE process[p]]

StopWorkerDone(c) ==
  LET s == call[c].session IN
  /\ call[c].step \in {"start_stopping", "stop_stopping"}
  /\ process' = KillLeftover(s)
  /\ dirs' = {d \in dirs : d[1] # s}
  /\ stopping' = [stopping EXCEPT ![s] = None]
  /\ call' = [d \in Caller |->
                IF d = c \/ Joined(c, d) THEN Resume(d) ELSE call[d]]
  /\ UNCHANGED <<worker, completed, starting, cancelled, mode>>

(***************************************************************************)
(* The rest of start: the input server and the measured seek, each of      *)
(* which may fail; then the directory and the worker.                      *)
(***************************************************************************)
Seek(c) ==
  /\ call[c].step = "start_seek"
  /\ \E step \in {"start_spawn", "start_clean"} :
       call' = [call EXCEPT ![c].step = step]
  /\ UNCHANGED <<worker, completed, starting, cancelled, stopping, process,
                 mode, dirs>>

\* The mutant counts generations from the next one.
SpawnedAsNext(g) == g + 1
SpawnedAs(g) == g

Spawn(c) ==
  LET s == call[c].session
      g == call[c].gen
  IN
  /\ call[c].step = "start_spawn"
  /\ s \notin cancelled
  /\ completed' = [completed EXCEPT ![s] = 0]
  /\ worker' = [worker EXCEPT ![s] = SpawnedAs(g)]
  /\ process' = [process EXCEPT ![<<s, g>>] = "running"]
  /\ dirs' = dirs \cup {<<s, g>>}
  /\ starting' = [starting EXCEPT ![s] = 0]
  /\ call' = [call EXCEPT ![c].step = "returned"]
  /\ UNCHANGED <<cancelled, stopping, mode>>

SpawnCancelled(c) ==
  LET s == call[c].session IN
  /\ call[c].step = "start_spawn"
  /\ s \in cancelled
  /\ completed' = [completed EXCEPT ![s] = 0]
  /\ dirs' = dirs \cup {<<s, call[c].gen>>}
  /\ call' = [call EXCEPT ![c].step = "start_clean"]
  /\ UNCHANGED <<worker, starting, cancelled, stopping, process, mode>>

\* The mutant keeps the reservation of a start that failed.
StartFailedReserved(c) ==
  LET s == call[c].session IN
  /\ call[c].step = "start_clean"
  /\ dirs' = {d \in dirs : d[1] # s}
  /\ cancelled' = cancelled \ {s}
  /\ call' = [call EXCEPT ![c].step = "threw"]
  /\ UNCHANGED <<worker, completed, starting, stopping, process, mode>>

StartFailed(c) ==
  LET s == call[c].session IN
  /\ call[c].step = "start_clean"
  /\ dirs' = {d \in dirs : d[1] # s}
  /\ starting' = [starting EXCEPT ![s] = 0]
  /\ cancelled' = cancelled \ {s}
  /\ call' = [call EXCEPT ![c].step = "threw"]
  /\ UNCHANGED <<worker, completed, stopping, process, mode>>

\* The caller goes on with the outcome.
Return(c) ==
  /\ call[c].step \in {"returned", "threw"}
  /\ call' = [call EXCEPT ![c] = Idle]
  /\ UNCHANGED <<worker, completed, starting, cancelled, stopping, process,
                 mode, dirs>>

-----------------------------------------------------------------------------
(***************************************************************************)
(* Processes.  A running one may end at any time; its exit handler reads   *)
(* the playlist before it touches the maps, and does nothing if the worker *)
(* has been replaced or stopped meanwhile.                                 *)
(***************************************************************************)
Exit(p) ==
  /\ \/ /\ process[p] = "running"
        /\ \E how \in {"exited_ok", "exited_bad"} :
             process' = [process EXCEPT ![p] = how]
     \/ /\ process[p] \in {"term", "kill"}
        /\ process' = [process EXCEPT ![p] = "none"]
  /\ UNCHANGED <<worker, completed, starting, cancelled, stopping, mode, dirs,
                 call>>

Ended(s) ==
  LET p == <<s, worker[s]>> IN
  /\ worker[s] # 0
  /\ process[p] \in {"exited_ok", "exited_bad"}
  /\ worker' = [worker EXCEPT ![s] = 0]
  /\ process' = [process EXCEPT ![p] = "none"]
  /\ \/ /\ process[p] = "exited_ok"
        /\ completed' = [completed EXCEPT ![s] = worker[s]]
        /\ UNCHANGED dirs
     \/ /\ process[p] = "exited_bad"
        /\ dirs' = dirs \ {p}
        /\ UNCHANGED completed
  /\ UNCHANGED <<starting, cancelled, stopping, mode, call>>

\* The sweep protects the sessions it has listed.
\* The mutant trusts the maps of running and starting workers alone.
CleanupIdleDirectories(protected) ==
  /\ dirs' = {d \in dirs : worker[d[1]] # 0 \/ starting[d[1]] # 0}
  /\ UNCHANGED <<worker, completed, starting, cancelled, stopping, process,
                 mode, call>>
CleanupStaleDirectories(protected) ==
  /\ dirs' = {d \in dirs : \/ d[1] \in protected
                          \/ worker[d[1]] # 0 \/ starting[d[1]] # 0}
  /\ UNCHANGED <<worker, completed, starting, cancelled, stopping, process,
                 mode, call>>

Internal(c) ==
  \/ StopWorkerDone(c)
  \/ Seek(c) \/ Spawn(c) \/ SpawnCancelled(c) \/ StartFailed(c)

Processes ==
  \/ \E p \in Session \X Generation : Exit(p)
  \/ \E s \in Session : Ended(s)

(***************************************************************************)
(* On its own the gateway is driven by arbitrary callers; all they keep to *)
(* is that a generation is started once.                                   *)
(***************************************************************************)
Unstarted(s, g) == mode[<<s, g>>] = "unstarted"

Next ==
  \/ \E c \in Caller, s \in Session, g \in Generation, video \in BOOLEAN :
       Unstarted(s, g) /\ (Start(c, s, g, video) \/ StartRefused(c, s, g, video))
  \/ \E c \in Caller, s \in Session, g \in Slot \cup {AnyGen} : Stop(c, s, g)
  \/ \E c \in Caller : Internal(c) \/ Return(c)
  \/ Processes

Spec == Init /\ [][Next]_vars

\* Timeouts bound every await inside a call, and an exited process is handled.
FairSpec ==
  /\ Spec
  /\ \A c \in Caller : WF_vars(Internal(c))
  /\ \A s \in Session : WF_vars(Ended(s))

-----------------------------------------------------------------------------
TypeOK ==
  /\ worker \in [Session -> Slot]
  /\ completed \in [Session -> Slot]
  /\ starting \in [Session -> Slot]
  /\ cancelled \subseteq Session
  /\ stopping \in [Session -> Caller \cup {None}]
  /\ process \in [Session \X Generation -> ProcessState]
  /\ mode \in [Session \X Generation -> Mode]
  /\ dirs \subseteq Session \X Generation
  /\ call \in [Caller -> Call]

(***************************************************************************)
(* The maps never hold more than MaxWorkers sessions, and never two that   *)
(* encode video, although a start checks the limit for the other sessions  *)
(* only and reserves its own place before it stops its old worker.         *)
(***************************************************************************)
Engaged == {s \in Session : worker[s] # 0 \/ starting[s] # 0}
Encoding == {s \in Session : \/ worker[s] # 0 /\ Encodes(s, worker[s])
                             \/ starting[s] # 0 /\ Encodes(s, starting[s])}

WorkersBounded == Cardinality(Engaged) <= MaxWorkers
OneVideoTranscode == \A s, t \in Encoding : s = t

(***************************************************************************)
(* No process is left behind: one that nobody has signalled is in the      *)
(* workers map, where a later stop finds it.                               *)
(***************************************************************************)
NoLostProcess ==
  \A s \in Session, g \in Generation :
    process[<<s, g>>] = "running" => worker[s] = g

(***************************************************************************)
(* A session's next process is spawned only when the previous one is gone  *)
(* or was sent SIGKILL after its five seconds of grace.                    *)
(***************************************************************************)
NoOverlap ==
  \A s \in Session, g, h \in Generation :
    /\ process[<<s, g>>] \in {"running", "term"}
    /\ process[<<s, h>>] \in {"running", "term"}
    => g = h

(***************************************************************************)
(* What the gateway serves is on disk: nobody's cleanup removes the        *)
(* directory of a generation that is still in the maps.                    *)
(***************************************************************************)
ArtifactsKept ==
  \A s \in Session, g \in Generation :
    HasGeneration(s, g) => <<s, g>> \in dirs

(***************************************************************************)
(* stop() keeps its word: when it returns, the worker or reservation it    *)
(* was called against is not running, even if it only joined the stop of   *)
(* somebody else or caught the start before its spawn.                     *)
(***************************************************************************)
StopIsEffective ==
  \A c \in Caller :
    call[c].step = "returned" =>
      \A g \in call[c].targets : process[<<call[c].session, g>>] # "running"

(***************************************************************************)
(* Every call ends, so a reservation does not hold its slot forever.       *)
(***************************************************************************)
ReservationsReleased ==
  \A s \in Session : starting[s] # 0 ~> starting[s] = 0

(***************************************************************************)
(* OPERATIONS.md: two FFmpeg workers, at most one of them encoding video.  *)
(* The maps keep to it; the processes do not, because a worker leaves the  *)
(* maps when it is sent SIGTERM, up to five seconds before it is gone.     *)
(***************************************************************************)
OneTranscodingProcess ==
  Cardinality({p \in Session \X Generation :
                 /\ mode[p] = "transcode"
                 /\ process[p] \in {"running", "term"}}) <= 1
=============================================================================

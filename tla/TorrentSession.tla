---------------------------- MODULE TorrentSession ----------------------------
(***************************************************************************)
(* The PostgreSQL side of a torrent session: the rows of torrent_sessions  *)
(* and of the tables that hang off it (files, probe, engine binding,       *)
(* idempotency), and the transactions of TorrentSessionRepository, one     *)
(* action each.  A transaction that throws rolls back, so only successful  *)
(* outcomes are steps; a compare-and-set that loses is a stutter.          *)
(*                                                                         *)
(* Time is abstracted to one flag: lapsed[s] says that expiresAt or        *)
(* idleExpiresAt has passed.  No statement of the repository moves either  *)
(* deadline of a session whose deadline has passed (recordViewerActivity   *)
(* and beginPlayback both require it to be in the future), so the flag is  *)
(* never cleared; extending a deadline only delays Lapse.                  *)
(***************************************************************************)
EXTENDS Integers, FiniteSets

CONSTANTS
  Owner,          \* accounts
  Session,        \* pool of session ids; ids are random and never reused
  Key,            \* Idempotency-Key header values
  Digest,         \* digests of create requests
  File,           \* file references of a torrent
  Output,         \* playback parameters: audio track, position and profile
  EngineKey,      \* torrents known to the engine (info hashes)
  None,           \* SQL null
  MaxActive,      \* server-wide limit on active sessions
  MaxGeneration   \* model bound on playback generations

ASSUME ConstantAssumption ==
  /\ IsFiniteSet(Session)
  /\ MaxActive \in Nat
  /\ MaxGeneration \in Nat
  /\ None \notin Owner \cup File \cup Output \cup EngineKey

VARIABLES
  owner, state, version, generation, lapsed, selected, output,
                  \* columns of torrent_sessions
  files,          \* torrent_session_files
  probe,          \* torrent_session_probes: the probed file
  engine,         \* torrent_engine_bindings
  replay          \* torrent_idempotency: live rows only

vars == <<owner, state, version, generation, lapsed, selected, output,
          files, probe, engine, replay>>

Active == {"created", "fetching_metadata", "awaiting_file", "probing",
           "awaiting_playback", "preparing", "ready"}
Visible == Active \cup {"failed"}
Closing == {"stopping", "expiring"}
Terminal == {"stopped", "expired"}
Vacant == {"unused", "purged"}      \* no row: not reserved yet, or deleted
States == Visible \cup Closing \cup Terminal \cup Vacant

ActiveSessions == {s \in Session : state[s] \in Active}

ReplayRow == [owner : Owner, route : {"create", "playback"}, key : Key,
              digest : Digest \cup Output, session : Session]

(***************************************************************************)
(* The transition table of torrent-session.state.ts.                       *)
(***************************************************************************)
CanTransition(from, to) ==
  \/ from \in Active /\ to \in {"failed"} \cup Closing
  \/ from = "failed" /\ to \in Closing
  \/ from = "stopping" /\ to = "stopped"
  \/ from = "expiring" /\ to = "expired"
  \/ from = "created" /\ to = "fetching_metadata"
  \/ from = "fetching_metadata" /\ to \in {"awaiting_file", "probing"}
  \/ from = "awaiting_file" /\ to = "probing"
  \/ from = "probing" /\ to = "awaiting_playback"
  \/ from = "awaiting_playback" /\ to \in {"probing", "preparing"}
  \/ from = "preparing" /\ to \in {"ready", "awaiting_playback"}
  \/ from = "ready" /\ to \in {"preparing", "probing", "awaiting_playback"}

Init ==
  /\ owner = [s \in Session |-> None]
  /\ state = [s \in Session |-> "unused"]
  /\ version = [s \in Session |-> 0]
  /\ generation = [s \in Session |-> 0]
  /\ lapsed = [s \in Session |-> FALSE]
  /\ selected = [s \in Session |-> None]
  /\ output = [s \in Session |-> None]
  /\ files = [s \in Session |-> {}]
  /\ probe = [s \in Session |-> None]
  /\ engine = [s \in Session |-> None]
  /\ replay = {}

-----------------------------------------------------------------------------
(***************************************************************************)
(* Admission.  reserve() runs under an advisory lock: it replays a live    *)
(* idempotency row, retires every lapsed active session, and admits a new  *)
(* one only if the owner has no active session and a slot is free.         *)
(***************************************************************************)
Overdue == {s \in Session : state[s] \in Active /\ lapsed[s]}

ReplayRowsOf(o, route, k) ==
  {r \in replay : r.owner = o /\ r.route = route /\ r.key = k}

\* The mutants forget the owner's own session, and count one slot too many.
AdmitsAnyOwner(o, held) == Cardinality(held) < MaxActive
AdmitsOneMore(o, held) ==
  (\A t \in held : owner[t] # o) /\ Cardinality(held) <= MaxActive
Admits(o, held) ==
  (\A t \in held : owner[t] # o) /\ Cardinality(held) < MaxActive

\* The mutant files the key under a route no lookup uses.
CreateRowElsewhere(o, k, d, s) ==
  [owner |-> o, route |-> "retry", key |-> k, digest |-> d, session |-> s]
CreateRow(o, k, d, s) ==
  [owner |-> o, route |-> "create", key |-> k, digest |-> d, session |-> s]

Reserve(o, k, d, s) ==
  LET held == ActiveSessions \ Overdue IN
  /\ state[s] = "unused"
  /\ ReplayRowsOf(o, "create", k) = {}
  /\ Admits(o, held)
  /\ owner' = [owner EXCEPT ![s] = o]
  /\ state' = [t \in Session |-> IF t = s THEN "created"
                                 ELSE IF t \in Overdue THEN "expiring"
                                 ELSE state[t]]
  /\ version' = [t \in Session |-> IF t = s THEN 1
                                   ELSE IF t \in Overdue THEN version[t] + 1
                                   ELSE version[t]]
  /\ replay' = replay \cup {CreateRow(o, k, d, s)}
  /\ UNCHANGED <<generation, lapsed, selected, output, files, probe, engine>>

\* The key column is unique.  The mutant lets two sessions share a torrent.
KeyShared(e) == TRUE
KeyFree(e) == \A t \in Session : engine[t] # e

BindEngine(s, e) ==
  /\ state[s] \in Active
  /\ ~lapsed[s]
  /\ engine[s] = None
  /\ KeyFree(e)
  /\ engine' = [engine EXCEPT ![s] = e]
  /\ UNCHANGED <<owner, state, version, generation, lapsed, selected, output,
                 files, probe, replay>>

-----------------------------------------------------------------------------
(***************************************************************************)
(* transition(): compare-and-set on the version v the caller last saw.     *)
(* late is the caller's clock against the row's deadlines: background      *)
(* tasks pass the time their round began, and for them a session that has  *)
(* lapsed since is still on time.                                          *)
(***************************************************************************)
\* The mutant forgets the version.
CanCommitBlindly(s, v, to, late) ==
  /\ CanTransition(state[s], to)
  /\ to \notin Closing \cup Terminal => ~late
CanCommit(s, v, to, late) ==
  /\ version[s] = v
  /\ CanTransition(state[s], to)
  /\ to \notin Closing \cup Terminal => ~late

Transition(s, v, to, advance, late) ==
  /\ CanCommit(s, v, to, late)
  /\ state' = [state EXCEPT ![s] = to]
  /\ version' = [version EXCEPT ![s] = @ + 1]
  /\ generation' = [generation EXCEPT ![s] = @ + advance]
  /\ selected' = [selected EXCEPT ![s] = IF to \in Terminal THEN None ELSE @]
  /\ files' = [files EXCEPT ![s] = IF to \in Terminal THEN {} ELSE @]
  /\ UNCHANGED <<owner, lapsed, output, probe, engine, replay>>

\* The start task and the sweep both move a bound session on.
FetchMetadata(s) ==
  /\ state[s] = "created"
  /\ engine[s] # None
  /\ Transition(s, version[s], "fetching_metadata", 0, FALSE)

Fail(s) ==
  /\ state[s] \in Active
  /\ Transition(s, version[s], "failed", 0, FALSE)

PlaybackReady(s) ==
  /\ state[s] = "preparing"
  /\ Transition(s, version[s], "ready", 0, lapsed[s])

\* The playback task gives up, or an HLS request finds the playlist broken.
PlaybackRevoked(s) ==
  /\ state[s] \in {"preparing", "ready"}
  /\ Transition(s, version[s], "awaiting_playback", 0, lapsed[s])

\* The sweep invalidates a generation whose worker is gone.
GenerationReset(s) ==
  /\ state[s] \in {"preparing", "ready"}
  /\ Transition(s, version[s], "awaiting_playback", 1, FALSE)

Expire(s) ==
  /\ state[s] \in Visible
  /\ lapsed[s]
  /\ Transition(s, version[s], "expiring", 0, TRUE)

ClearEngine(s) ==
  /\ state[s] \in {"failed"} \cup Closing
  /\ engine[s] # None
  /\ engine' = [engine EXCEPT ![s] = None]
  /\ UNCHANGED <<owner, state, version, generation, lapsed, selected, output,
                 files, probe, replay>>

Finish(s) ==
  /\ state[s] \in Closing
  /\ engine[s] = None
  /\ Transition(s, version[s],
                IF state[s] = "stopping" THEN "stopped" ELSE "expired", 0, TRUE)

-----------------------------------------------------------------------------
(***************************************************************************)
(* Commands with a transaction of their own.                               *)
(***************************************************************************)
RequestStop(s) ==
  /\ state[s] \in Visible
  /\ ~lapsed[s]
  /\ state' = [state EXCEPT ![s] = "stopping"]
  /\ version' = [version EXCEPT ![s] = @ + 1]
  /\ UNCHANGED <<owner, generation, lapsed, selected, output, files, probe,
                 engine, replay>>

\* The mutant leaves the version of the sessions it closes as it was.
LogoutSilently(o) ==
  LET open == {s \in Session : owner[s] = o /\ state[s] \in Visible} IN
  /\ open # {}
  /\ state' = [s \in Session |-> IF s \in open THEN "stopping" ELSE state[s]]
  /\ UNCHANGED <<owner, version, generation, lapsed, selected, output, files,
                 probe, engine, replay>>

\* Logout and password reset close whatever the account has open.
Logout(o) ==
  LET open == {s \in Session : owner[s] = o /\ state[s] \in Visible} IN
  /\ open # {}
  /\ state' = [s \in Session |-> IF s \in open THEN "stopping" ELSE state[s]]
  /\ version' = [s \in Session |->
                   IF s \in open THEN version[s] + 1 ELSE version[s]]
  /\ UNCHANGED <<owner, generation, lapsed, selected, output, files, probe,
                 engine, replay>>

ReplaceFiles(s, F) ==
  /\ state[s] = "fetching_metadata"
  /\ F # {}
  /\ files' = [files EXCEPT ![s] = F]
  /\ \/ /\ Cardinality(F) = 1
        /\ state' = [state EXCEPT ![s] = "probing"]
        /\ selected' = [selected EXCEPT ![s] = CHOOSE f \in F : TRUE]
     \/ /\ Cardinality(F) # 1
        /\ state' = [state EXCEPT ![s] = "awaiting_file"]
        /\ selected' = [selected EXCEPT ![s] = None]
  /\ version' = [version EXCEPT ![s] = @ + 1]
  /\ UNCHANGED <<owner, generation, lapsed, output, probe, engine, replay>>

SelectFile(s, f) ==
  /\ state[s] \in {"awaiting_file", "awaiting_playback", "ready"}
  /\ ~lapsed[s]
  /\ f \in files[s]
  /\ selected[s] # f
  /\ generation[s] < MaxGeneration
  /\ state' = [state EXCEPT ![s] = "probing"]
  /\ selected' = [selected EXCEPT ![s] = f]
  /\ output' = [output EXCEPT ![s] = None]
  /\ probe' = [probe EXCEPT ![s] = None]
  /\ version' = [version EXCEPT ![s] = @ + 1]
  /\ generation' = [generation EXCEPT ![s] = @ + 1]
  /\ UNCHANGED <<owner, lapsed, files, engine, replay>>

\* The mutant does not look at which file is selected by now.
ProbeOfAnyFile(s, f) == state[s] = "probing"
ProbeAwaited(s, f) == state[s] = "probing" /\ selected[s] = f

\* saveProbe() stores the probe of file f, read at version v.
SaveProbe(s, v, f) ==
  /\ version[s] = v
  /\ ProbeAwaited(s, f)
  /\ ~lapsed[s]
  /\ probe' = [probe EXCEPT ![s] = f]
  /\ state' = [state EXCEPT ![s] = "awaiting_playback"]
  /\ version' = [version EXCEPT ![s] = @ + 1]
  /\ UNCHANGED <<owner, generation, lapsed, selected, output, files, engine,
                 replay>>

\* The mutant plays the new output under the old generation.
SameGeneration(s) == generation[s]
NextGeneration(s) == generation[s] + 1

\* A replayed key is a stutter; the same output of a ready session only
\* records the key.
BeginPlayback(s, k, p) ==
  /\ state[s] \in {"awaiting_playback", "ready"}
  /\ ~lapsed[s]
  /\ probe[s] # None
  /\ ReplayRowsOf(owner[s], "playback", k) = {}
  /\ \/ /\ state[s] = "ready" /\ output[s] = p
        /\ UNCHANGED <<state, version, generation, output>>
     \/ /\ ~(state[s] = "ready" /\ output[s] = p)
        /\ generation[s] < MaxGeneration
        /\ state' = [state EXCEPT ![s] = "preparing"]
        /\ version' = [version EXCEPT ![s] = @ + 1]
        /\ generation' = [generation EXCEPT ![s] = NextGeneration(s)]
        /\ output' = [output EXCEPT ![s] = p]
  /\ replay' = replay \cup {[owner |-> owner[s], route |-> "playback",
                             key |-> k, digest |-> p, session |-> s]}
  /\ UNCHANGED <<owner, lapsed, selected, files, probe, engine>>

-----------------------------------------------------------------------------
(***************************************************************************)
(* The passage of time.  A row of torrent_idempotency lives 24 hours and   *)
(* was written while its session, which lives at most 8, was open: it      *)
(* outlives the session's deadlines.  A tombstone is deleted 24 hours      *)
(* after the last write to its session, when those rows are gone too.      *)
(***************************************************************************)
Lapse(s) ==
  /\ state[s] \notin Vacant
  /\ ~lapsed[s]
  /\ lapsed' = [lapsed EXCEPT ![s] = TRUE]
  /\ UNCHANGED <<owner, state, version, generation, selected, output, files,
                 probe, engine, replay>>

\* The mutant lets a key expire before the session it created.
KeyExpiresEarly(r) == TRUE
KeyExpired(r) == lapsed[r.session]

ForgetKey(r) ==
  /\ r \in replay
  /\ KeyExpired(r)
  /\ replay' = replay \ {r}
  /\ UNCHANGED <<owner, state, version, generation, lapsed, selected, output,
                 files, probe, engine>>

\* The mutant frees the id along with the row.
IdReusable == "unused"
IdGone == "purged"

PurgeTombstone(s) ==
  /\ state[s] \in Terminal
  /\ lapsed[s]
  /\ \A r \in replay : r.session # s
  /\ state' = [state EXCEPT ![s] = IdGone]
  /\ owner' = [owner EXCEPT ![s] = None]
  /\ probe' = [probe EXCEPT ![s] = None]
  /\ engine' = [engine EXCEPT ![s] = None]
  /\ UNCHANGED <<version, generation, lapsed, selected, output, files, replay>>

Command(s) ==
  \/ RequestStop(s)
  \/ \E f \in File : SelectFile(s, f)
  \/ \E k \in Key, p \in Output : BeginPlayback(s, k, p)

Background(s) ==
  \/ \E e \in EngineKey : BindEngine(s, e)
  \/ FetchMetadata(s)
  \/ Fail(s)
  \/ \E F \in SUBSET File : ReplaceFiles(s, F)
  \/ \E f \in File : SaveProbe(s, version[s], f)
  \/ PlaybackReady(s)
  \/ PlaybackRevoked(s)
  \/ GenerationReset(s)
  \/ Expire(s)
  \/ ClearEngine(s)
  \/ Finish(s)

Time(s) == Lapse(s) \/ PurgeTombstone(s)

Next ==
  \/ \E o \in Owner, k \in Key, d \in Digest, s \in Session : Reserve(o, k, d, s)
  \/ \E o \in Owner : Logout(o)
  \/ \E s \in Session : Command(s) \/ Background(s) \/ Time(s)
  \/ \E r \in replay : ForgetKey(r)

Spec == Init /\ [][Next]_vars

-----------------------------------------------------------------------------
TypeOK ==
  /\ owner \in [Session -> Owner \cup {None}]
  /\ state \in [Session -> States]
  /\ version \in [Session -> Nat]
  /\ generation \in [Session -> Nat]
  /\ lapsed \in [Session -> BOOLEAN]
  /\ selected \in [Session -> File \cup {None}]
  /\ output \in [Session -> Output \cup {None}]
  /\ files \in [Session -> SUBSET File]
  /\ probe \in [Session -> File \cup {None}]
  /\ engine \in [Session -> EngineKey \cup {None}]
  /\ replay \subseteq ReplayRow

(***************************************************************************)
(* An account never has two active sessions, whatever the interleaving of  *)
(* creations, retries, expiry and logout (the advisory lock of reserve and *)
(* the partial unique index torrent_sessions_one_active_per_owner).        *)
(***************************************************************************)
OneActivePerOwner ==
  \A s, t \in ActiveSessions : owner[s] = owner[t] => s = t

(***************************************************************************)
(* The server never has more than MaxActive active sessions: a session     *)
(* that has lapsed gives its slot back in the same transaction that takes  *)
(* it.                                                                     *)
(***************************************************************************)
CapacityRespected == Cardinality(ActiveSessions) <= MaxActive

(***************************************************************************)
(* Whoever is told to play finds a source: from awaiting_playback on, the  *)
(* selected file is a file of the torrent, the stored probe is of that     *)
(* file and not of one selected earlier, and the engine binding is there.  *)
(***************************************************************************)
PlayableHasSource ==
  \A s \in Session :
    state[s] \in {"awaiting_playback", "preparing", "ready"} =>
      /\ selected[s] \in files[s]
      /\ probe[s] = selected[s]
      /\ engine[s] # None

(***************************************************************************)
(* A torrent of the engine belongs to at most one session, so that a       *)
(* cleanup that drops it takes it from nobody else.                        *)
(***************************************************************************)
EngineBoundOnce ==
  \A s, t \in Session : engine[s] # None /\ engine[s] = engine[t] => s = t

(***************************************************************************)
(* A retry of the creation of a session that is still visible finds that   *)
(* session: its idempotency row is there, and no other session claims the  *)
(* same key.  Without it the retry of a slow creation would be refused, or *)
(* create a second session next to one that has failed.                    *)
(***************************************************************************)
RetryFindsSession ==
  \A s \in Session :
    state[s] \in Visible /\ ~lapsed[s] =>
      \E r \in replay :
        /\ r.session = s /\ r.owner = owner[s] /\ r.route = "create"
        /\ ReplayRowsOf(r.owner, "create", r.key) = {r}

(***************************************************************************)
(* Every write that another writer could trip over advances the version,   *)
(* by exactly one: a compare-and-set that succeeds has seen the row as it  *)
(* is.  The bulk updates of reserve and of logout are writes too.          *)
(***************************************************************************)
Row(s) == <<owner[s], state[s], generation[s], selected[s], output[s],
            files[s], probe[s]>>

WritesBumpVersion ==
  [][\A s \in Session : Row(s)' # Row(s) /\ state'[s] # "purged"
                            => version'[s] = version[s] + 1]_vars

(***************************************************************************)
(* A generation names one output: HLS artefacts are kept and served by     *)
(* generation, so a session must not come to play another file, track or   *)
(* position, or play again after it stopped playing, under the same one.   *)
(***************************************************************************)
Playing(s) == state[s] \in {"preparing", "ready"}

OneOutputPerGeneration ==
  [][\A s \in Session :
       Playing(s)' /\ generation'[s] = generation[s] =>
         /\ Playing(s)
         /\ <<selected[s], output[s], probe[s]>>' =
               <<selected[s], output[s], probe[s]>>]_vars

(***************************************************************************)
(* The admission promise on its own, with everything a session does        *)
(* between opening and closing hidden.                                     *)
(***************************************************************************)
Slots == INSTANCE SessionSlots WITH
  holder <- [s \in Session |-> IF state[s] \in Active THEN owner[s] ELSE None],
  used <- {s \in Session : state[s] # "unused"}

SlotsSpec == Slots!Spec
=============================================================================

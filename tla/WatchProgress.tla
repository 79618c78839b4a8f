---------------------------- MODULE WatchProgress ----------------------------
(***************************************************************************)
(* How the page keeps the viewing progress: the playback session (one, in  *)
(* memory and in local storage), the guest's list (local storage) and the  *)
(* account's list (server), written through a queue with one request in    *)
(* flight, a throttle, coalescing, optimistic updates and roll-backs.      *)
(*                                                                         *)
(* Positions stand for the moments they were reported at, 0 for no entry,  *)
(* and MaxPosition for a finished film.  Effects of a render run with the  *)
(* change that caused them.  The lists are shorter than their limit (5).   *)
(* Stopping a torrent on the server is TorrentEngine's RequestStop.        *)
(***************************************************************************)
EXTENDS Naturals, Sequences, SequencesExt

CONSTANTS User, Media, MaxPosition, MaxQueue, MaxSwitches

VARIABLES auth,      \* "guest", "loading" (unknown) or a user
          session,   \* the stored session: [owner, ref, position, playing] or NoSession
          guest,     \* guestEntries: position of each media
          cache,     \* the account query's data, or NoData
          get,       \* the account query's request: "none", "sent" or its answer
          queue, active, failed, paused,   \* the account mutations
          trailing,  \* progress waiting for the throttle or the query: [ref, position, waits]
          queued,    \* migrationQueuedRefs of the signed-in user
          server,    \* server[u]: rows of the account
          position,  \* the last position the player reported
          switches,  \* sign-ins, sign-outs and reloads so far
          intent     \* intent[m]: what the user last did to m since signing in

vars == <<auth, session, guest, cache, get, queue, active, failed, paused, trailing, queued,
          server, position, switches, intent>>
sync == <<cache, get, queue, active, failed, paused, trailing, queued, intent>>

Empty == [m \in Media |-> 0]
NoData == [none |-> TRUE]
NoGet == [step |-> "none", data |-> Empty]
NoSession == [owner |-> "none", ref |-> "none", position |-> 0, playing |-> FALSE]
NoEntry == [ref |-> "none", position |-> 0, waits |-> FALSE]
NoMutation == [user |-> "none", ref |-> "none", position |-> 0, origin |-> "none",
               before |-> Empty, step |-> "none"]
Untouched == MaxPosition + 1

Position == 0 .. MaxPosition
Entries == [Media -> Position]
Mutation == [user : User, ref : Media, position : Position, step : {"sent", "saved"},
             origin : {"playback", "migration", "remove"}, before : Entries]

TypeOK ==
  /\ auth \in User \union {"guest", "loading"}
  /\ session = NoSession \/ session \in
       [owner : User \union {"guest"}, ref : Media, position : Position, playing : BOOLEAN]
  /\ guest \in Entries /\ (cache = NoData \/ cache \in Entries)
  /\ get \in [step : {"none", "sent", "read"}, data : Entries]
  /\ \A i \in 1 .. Len(queue) : queue[i] \in Mutation
  /\ \A mu \in {active, failed} : mu = NoMutation \/ mu \in Mutation
  /\ paused \in BOOLEAN
  /\ trailing = NoEntry \/ trailing \in [ref : Media, position : Position, waits : BOOLEAN]
  /\ queued \subseteq Media
  /\ server \in [User -> Entries]
  /\ position \in Position /\ switches \in 0 .. MaxSwitches
  /\ intent \in [Media -> 0 .. Untouched]

Init ==
  /\ auth = "loading" /\ session = NoSession
  /\ guest \in [Media -> {0, 1}] /\ server \in [User -> [Media -> {0, 1}]]
  /\ cache = NoData /\ get = NoGet
  /\ queue = <<>> /\ active = NoMutation /\ failed = NoMutation /\ paused = FALSE
  /\ trailing = NoEntry /\ queued = {}
  /\ position = 1 /\ switches = 0
  /\ intent = [m \in Media |-> Untouched]

SignedIn == auth \in User
Visible == session # NoSession /\ auth # "loading"
Completed(at) == at = MaxPosition
Keeps(at) == IF Completed(at) THEN 0 ELSE at

-----------------------------------------------------------------------------
(* The queue of account mutations. *)

\* applyMutation over the entries, and applyOutstandingMutations over a fresh base.
ApplyMutation(entries, mu) == [entries EXCEPT ![mu.ref] = Keeps(mu.position)]
ApplyOutstanding(base, waiting, tail) ==
  LET afterQueue == FoldLeft(ApplyMutation, base, waiting)
  IN  IF tail = NoEntry THEN afterQueue ELSE ApplyMutation(afterQueue, tail)

\* runNextMutation: one request at a time, none while paused, none of another user.
RunNext(waiting, isPaused, flying) ==
  LET own == SelectSeq(waiting, LAMBDA mu : mu.user = auth) IN
  IF flying # NoMutation \/ isPaused \/ own = <<>>
  THEN active' = flying /\ queue' = waiting
  ELSE active' = Head(own) /\ queue' = Tail(own)

\* runAccountMutation: cancel the query, show the change, coalesce, run.
Coalesce(waiting, mu) ==
  LET same == {i \in 1 .. Len(waiting) : /\ mu.origin # "remove" /\ waiting[i].ref = mu.ref
                                         /\ waiting[i].origin = mu.origin} IN
  IF same = {} THEN Append(waiting, mu)
  ELSE LET i == CHOOSE j \in same : TRUE
       IN  [waiting EXCEPT ![i] = [mu EXCEPT !.before = waiting[i].before]]

Shown == IF cache = NoData THEN Empty ELSE cache
Wants(ref, at, origin) ==
  [user |-> auth, ref |-> ref, position |-> at, origin |-> origin, before |-> Shown, step |-> "sent"]

RunAccountMutation(waiting, ref, at, origin) ==
  LET mu == Wants(ref, at, origin) IN
  /\ Len(waiting) < MaxQueue
  /\ get' = NoGet
  /\ cache' = ApplyMutation(Shown, mu)
  /\ RunNext(Coalesce(waiting, mu), paused, active)
  /\ UNCHANGED <<failed, paused>>

\* A guest's entry waits behind the newer position it will overwrite (FetchAnswered).
Overtaken(ref) ==
  \E i, j \in 1 .. Len(queue) : /\ i < j /\ queue[i].ref = ref /\ queue[j].ref = ref
                                /\ queue[i].origin = "playback" /\ queue[j].origin = "migration"

\* syncAccountProgress: later while the list is not there, at once, or throttled.
SyncAccountProgress(ref, at, immediate) ==
  /\ UNCHANGED queued
  /\ intent' = [intent EXCEPT ![ref] = IF Overtaken(ref) THEN Untouched ELSE Keeps(at)]
  /\ \/ /\ cache = NoData
        /\ trailing' = [ref |-> ref, position |-> at, waits |-> TRUE]
        /\ UNCHANGED <<cache, get, queue, active, failed, paused>>
     \/ /\ cache # NoData
        /\ trailing' = NoEntry
        /\ RunAccountMutation(queue, ref, at, "playback")
     \/ /\ cache # NoData /\ ~immediate
        /\ cache' = [cache EXCEPT ![ref] = Keeps(at)]
        /\ trailing' = [ref |-> ref, position |-> at, waits |-> FALSE]
        /\ UNCHANGED <<get, queue, active, failed, paused>>

\* removeAccountProgress: the saves that still wait are withdrawn first.  A copy in the
\* guest's list stays and is migrated again after a reload, so it promises nothing then.
RemoveAccountProgress(ref) ==
  /\ trailing' = IF trailing.ref = ref THEN NoEntry ELSE trailing
  /\ RunAccountMutation(SelectSeq(queue, LAMBDA mu : mu.ref # ref \/ mu.origin = "remove"),
                        ref, 0, "remove")
  /\ intent' = [intent EXCEPT ![ref] = IF guest[ref] = 0 THEN 0 ELSE Untouched]
  /\ UNCHANGED queued

\* recordSession: the guest's list, or the account's.
RecordSession(ref, at, immediate) ==
  IF SignedIn
  THEN SyncAccountProgress(ref, at, immediate) /\ UNCHANGED guest
  ELSE guest' = [guest EXCEPT ![ref] = Keeps(at)] /\ UNCHANGED sync

\* The throttle's timer: enqueueTrailingProgress.
EnqueueTrailing ==
  /\ trailing # NoEntry /\ ~trailing.waits
  /\ trailing' = NoEntry
  /\ RunAccountMutation(queue, trailing.ref, trailing.position, "playback")
  /\ UNCHANGED <<auth, session, guest, queued, server, position, switches, intent>>

-----------------------------------------------------------------------------
(* The requests. *)

\* Continue-watching rows of the account: a save, or a remove.
Save ==
  /\ active # NoMutation /\ active.step = "sent"
  /\ server' = [server EXCEPT ![active.user] = ApplyMutation(@, active)]
  /\ active' = [active EXCEPT !.step = "saved"]
  /\ UNCHANGED <<auth, session, guest, cache, get, queue, failed, paused, trailing, queued,
                 position, switches, intent>>

\* onSuccess for the same user, then onSettled: the next one.
MutationSucceeds ==
  /\ active # NoMutation /\ active.step = "saved"
  /\ IF active.user = auth
     THEN /\ failed' = NoMutation
          /\ cache' = ApplyOutstanding(server[auth], queue, trailing)
          /\ IF active.origin = "migration"
             THEN queued' = queued \ {active.ref} /\ guest' = [guest EXCEPT ![active.ref] = 0]
             ELSE UNCHANGED <<queued, guest>>
     ELSE UNCHANGED <<failed, cache, queued, guest>>
  /\ RunNext(queue, paused, NoMutation)
  /\ UNCHANGED <<auth, session, get, paused, trailing, server, position, switches, intent>>

\* onError: roll back what is shown and wait for the user; the answer of a request the
\* server has carried out may be lost too.  Nothing follows a failed request.
MutationFails ==
  /\ active # NoMutation /\ switches < MaxSwitches
  /\ switches' = switches + 1
  /\ IF active.user = auth
     THEN /\ failed' = [active EXCEPT !.step = "sent"] /\ paused' = TRUE
          /\ cache' = ApplyOutstanding(active.before, queue, trailing)
     ELSE UNCHANGED <<failed, paused, cache>>
  /\ active' = NoMutation
  /\ UNCHANGED <<auth, session, guest, get, queue, trailing, queued, server, position, intent>>

\* Mutant: the failed one goes last.
RetriedLast(first, waiting) == Append(waiting, first)

\* retry: the failed one goes first, whatever has been queued since.
Retried(first, waiting) == <<first>> \o waiting

Retry ==
  /\ failed # NoMutation /\ failed.user = auth
  /\ failed' = NoMutation /\ paused' = FALSE
  /\ cache' = ApplyMutation(Shown, failed)
  /\ RunNext(Retried([failed EXCEPT !.before = Shown], queue), FALSE, active)
  /\ UNCHANGED <<auth, session, guest, get, trailing, queued, server, position, switches, intent>>

\* The account query and its refetches.
Fetch ==
  /\ SignedIn /\ get = NoGet /\ (cache = NoData \/ position < MaxPosition)
  /\ get' = [NoGet EXCEPT !.step = "sent"]
  /\ UNCHANGED <<auth, session, guest, cache, queue, active, failed, paused, trailing, queued,
                 server, position, switches, intent>>

ListEntries ==
  /\ get.step = "sent" /\ SignedIn
  /\ get' = [step |-> "read", data |-> server[auth]]
  /\ UNCHANGED <<auth, session, guest, cache, queue, active, failed, paused, trailing, queued,
                 server, position, switches, intent>>

\* The answer, and the effect of new data: waiting progress is sent, the guest's entries
\* the account has are dropped, the others are queued for migration.  The entry of a
\* film that went on meanwhile is queued too, behind its newer position: until the next
\* report the account holds the older one, so nothing is promised of that film.
FetchAnswered ==
  /\ get.step = "read" /\ get' = NoGet
  /\ LET own     == IF trailing.waits THEN <<Wants(trailing.ref, trailing.position, "playback")>>
                    ELSE <<>>
         kept    == [m \in Media |-> IF get.data[m] = 0 THEN guest[m] ELSE 0]
         seen    == FoldLeft(ApplyMutation, get.data, own)
         migrate == SetToSeq({m \in Media : guest[m] # 0 /\ get.data[m] = 0 /\ m \notin queued})
         moves   == own \o [i \in 1 .. Len(migrate) |->
                              Wants(migrate[i], guest[migrate[i]], "migration")]
         withBase == [i \in 1 .. Len(moves) |-> [moves[i] EXCEPT !.before = get.data]]
         waiting == FoldLeft(Coalesce, queue, withBase) IN
       /\ Len(waiting) <= MaxQueue
       /\ guest' = kept
       /\ cache' = FoldLeft(ApplyMutation, seen, withBase)
       /\ queued' = queued \union {migrate[i] : i \in 1 .. Len(migrate)}
       /\ trailing' = IF trailing.waits THEN NoEntry ELSE trailing
       /\ RunNext(waiting, paused, active)
       /\ intent' = [m \in Media |-> IF trailing.waits /\ trailing.ref = m /\ m \in ToSet(migrate)
                                     THEN Untouched ELSE intent[m]]
  /\ UNCHANGED <<auth, session, failed, paused, server, position, switches>>

-----------------------------------------------------------------------------
(* The player and the list. *)

Ticks == position < MaxPosition /\ position' = position + 1

\* startSession and restoreSession: both record the new session at once.
StartSession(ref) ==
  /\ auth # "loading" /\ Ticks
  /\ session' = [owner |-> auth, ref |-> ref, position |-> position, playing |-> TRUE]
  /\ RecordSession(ref, position, TRUE)
  /\ UNCHANGED <<auth, server, switches>>

Owned == Visible /\ session.owner = auth

\* updateProgress: a finished film leaves the list, anything else is recorded.
UpdateProgress(immediate) ==
  /\ Owned /\ Ticks
  /\ session' = [session EXCEPT !.position = position']
  /\ IF ~Completed(position') THEN RecordSession(session.ref, position', immediate)
     ELSE IF SignedIn THEN RemoveAccountProgress(session.ref) /\ UNCHANGED guest
     ELSE guest' = [guest EXCEPT ![session.ref] = 0] /\ UNCHANGED sync
  /\ UNCHANGED <<auth, server, switches>>

PauseSession ==
  /\ Owned /\ session.playing
  /\ session' = [session EXCEPT !.playing = FALSE]
  /\ UNCHANGED <<auth, guest, server, position, switches>> /\ UNCHANGED sync

ResumeSession ==
  /\ Owned /\ ~session.playing
  /\ session' = [session EXCEPT !.playing = TRUE]
  /\ RecordSession(session.ref, session.position, TRUE)
  /\ UNCHANGED <<auth, server, position, switches>>

EndSession ==
  /\ Visible
  /\ session' = NoSession
  /\ IF Completed(session.position) THEN UNCHANGED guest /\ UNCHANGED sync
     ELSE RecordSession(session.ref, session.position, TRUE)
  /\ UNCHANGED <<auth, server, position, switches>>

\* removeContinueWatchingEntry, from a list that is ready.
RemoveEntry(ref) ==
  /\ auth = "guest" \/ (SignedIn /\ cache # NoData)
  /\ IF SignedIn THEN RemoveAccountProgress(ref) /\ UNCHANGED guest
     ELSE guest' = [guest EXCEPT ![ref] = 0] /\ UNCHANGED sync
  /\ session' = IF session.ref = ref THEN NoSession ELSE session
  /\ UNCHANGED <<auth, server, position, switches>>

-----------------------------------------------------------------------------
(* Another account, and a reload. *)

\* reconcilePlaybackSessionOwner: a guest's session is adopted, another user's is dropped.
Reconcile(owner, adopts) ==
  IF session.owner \in {owner, "none"} THEN session
  ELSE IF session.owner = "guest" /\ adopts THEN [session EXCEPT !.owner = owner]
  ELSE NoSession

AuthResolves(who) ==
  /\ auth # who /\ (auth = "loading" \/ switches < MaxSwitches)
  /\ switches' = IF auth = "loading" THEN switches ELSE switches + 1
  /\ auth' = who
  /\ session' = Reconcile(who, who # "guest" /\ ~SignedIn)
  /\ cache' = NoData /\ get' = NoGet
  /\ trailing' = NoEntry /\ queue' = <<>> /\ paused' = FALSE /\ failed' = NoMutation
  /\ queued' = {}
  /\ intent' = [m \in Media |-> Untouched]
  /\ UNCHANGED <<guest, active, server, position>>

\* A 401 to the query or to a mutation turns the page into a guest's.
SessionExpired ==
  /\ SignedIn /\ (get # NoGet \/ active # NoMutation)
  /\ AuthResolves("guest")

\* loadPlaybackSession: the stored session, paused.  A request in flight has been sent.
Reload ==
  /\ auth # "loading" /\ switches < MaxSwitches
  /\ switches' = switches + 1
  /\ auth' = "loading"
  /\ session' = [session EXCEPT !.playing = FALSE]
  /\ cache' = NoData /\ get' = NoGet /\ trailing' = NoEntry
  /\ queue' = <<>> /\ active' = NoMutation /\ failed' = NoMutation /\ paused' = FALSE
  /\ queued' = {} /\ intent' = [m \in Media |-> Untouched]
  /\ server' \in {server, IF active # NoMutation /\ active.step = "sent"
                          THEN [server EXCEPT ![active.user] = ApplyMutation(@, active)] ELSE server}
  /\ UNCHANGED <<guest, position>>

Next ==
  \/ \E m \in Media : StartSession(m) \/ RemoveEntry(m)
  \/ \E immediate \in BOOLEAN : UpdateProgress(immediate)
  \/ PauseSession \/ ResumeSession \/ EndSession
  \/ EnqueueTrailing \/ Save \/ MutationSucceeds \/ MutationFails \/ Retry
  \/ Fetch \/ ListEntries \/ FetchAnswered
  \/ \E who \in User \union {"guest"} : AuthResolves(who)
  \/ SessionExpired \/ Reload

Spec == Init /\ [][Next]_vars

-----------------------------------------------------------------------------
(* What must hold. *)

\* When nothing waits to be sent, the account holds what its user did last: requests
\* that failed, were retried, coalesced or overtaken do not leave an older position.
Settled == SignedIn /\ queue = <<>> /\ active = NoMutation /\ ~paused /\ trailing = NoEntry
SavedIsLatest ==
  Settled => \A m \in Media : intent[m] # Untouched => server[auth][m] = intent[m]

\* The session on the page is the signed-in user's or, for a moment nobody sees, unknown.
OwnSession == auth # "loading" /\ session # NoSession => session.owner = auth
=============================================================================

---------------------------- MODULE OpeningHistory ----------------------------
(***************************************************************************)
(* The list of opened films: the guest's in local storage, the account's   *)
(* on the server.  The page sends one change at a time, shows it before it *)
(* is answered and rolls it back when it fails; a cleared list can be      *)
(* brought back for a few seconds by replaying its films, oldest first,    *)
(* because the server sets the times.                                      *)
(*                                                                         *)
(* A list is a sequence of films, the newest first.  Effects of a render   *)
(* run with the change that caused them.  The limit (100) is not reached.  *)
(***************************************************************************)
EXTENDS Naturals, Sequences, SequencesExt

CONSTANTS User, Media, MaxActs, MaxSwitches

VARIABLES auth,      \* "guest" or the signed-in user
          guest,     \* guestEntries
          cache,     \* the account query's data, or NoList
          get,       \* its request: [step, list]
          queue, active, failed, paused,   \* the account mutations
          undo,      \* historyUndo: [owner, list] or NoUndo
          pending,   \* undoPendingOwnerId
          attempt,   \* migrationAttemptRef: the guest's list last migrated
          server,    \* server[u]: the account's list
          cleared,   \* cleared[u]: what the last clear of u deleted, or NoList
          crossed,   \* a list read before a change arrived after its answer
          acts, switches

vars == <<auth, guest, cache, get, queue, active, failed, paused, undo, pending, attempt, server,
          cleared, crossed, acts, switches>>
account == <<cache, queue, active>>

NoList == <<"none">>
NoGet == [step |-> "none", list |-> <<>>]
NoUndo == [owner |-> "none", list |-> <<>>]
NoMutation == [user |-> "none", type |-> "none", refs |-> <<>>, todo |-> <<>>,
               step |-> "none", before |-> NoList]

Lists == {l \in BoundedSeq(Media, 2) : IsInjective(l)}
Types == {"record", "migration", "undo", "remove", "clear"}
Mutation == [user : User, type : Types, refs : Lists, todo : Lists,
             step : {"new", "list", "run", "done"}, before : Lists \union {NoList}]

TypeOK ==
  /\ auth \in User \union {"guest"} /\ guest \in Lists
  /\ cache \in Lists \union {NoList} /\ attempt \in Lists \union {NoList}
  /\ get \in [step : {"none", "sent", "read"}, list : Lists]
  /\ \A i \in 1 .. Len(queue) : queue[i] \in Mutation
  /\ {active, failed} \subseteq Mutation \union {NoMutation}
  /\ {paused, crossed} \subseteq BOOLEAN
  /\ undo \in [owner : User \union {"guest", "none"}, list : Lists]
  /\ pending \in User \union {"none"}
  /\ server \in [User -> Lists] /\ cleared \in [User -> Lists \union {NoList}]
  /\ acts \in 0 .. MaxActs /\ switches \in 0 .. MaxSwitches

Init ==
  /\ auth = "guest" /\ guest \in Lists
  /\ cache = NoList /\ get = NoGet
  /\ queue = <<>> /\ active = NoMutation /\ failed = NoMutation /\ paused = FALSE
  /\ undo = NoUndo /\ pending = "none" /\ attempt = NoList
  /\ server = [u \in User |-> <<>>] /\ cleared = [u \in User |-> NoList]
  /\ crossed = FALSE /\ acts = 0 /\ switches = 0

SignedIn == auth \in User
Without(list, other) == SelectSeq(list, LAMBDA m : m \notin ToSet(other))
\* upsert of a row; restoreOpeningHistory and mergeHistoryEntries of two lists.
Opened(list, m) == <<m>> \o Without(list, <<m>>)
Restore(current, old) == current \o Without(old, current)
Entries == IF cache = NoList THEN <<>> ELSE cache

-----------------------------------------------------------------------------
(* The queue. *)

\* onMutate: the query is cancelled and the change shown.
Optimistic(mu) ==
  CASE mu.type = "remove" -> Without(Entries, mu.refs)
    [] mu.type = "clear"  -> <<>>
    [] mu.type = "undo"   -> Restore(Entries, mu.refs)
    [] OTHER              -> Restore(mu.refs, Entries)

Mutate(mu) ==
  /\ active' = [mu EXCEPT !.step = IF mu.type = "undo" THEN "list" ELSE "run", !.before = cache,
                          !.todo = IF mu.type = "migration" THEN Reverse(mu.refs) ELSE mu.refs]
  /\ cache' = Optimistic(mu)

\* runAccountMutation: at once, or behind the one in flight.
Change(type, refs) ==
  [user |-> auth, type |-> type, refs |-> refs, todo |-> <<>>, step |-> "new", before |-> NoList]
RunAccountMutation(mu) ==
  IF active # NoMutation \/ paused
  THEN queue' = Append(queue, mu) /\ UNCHANGED <<cache, active, get>>
  ELSE Mutate(mu) /\ get' = NoGet /\ UNCHANGED queue

\* runNextMutation, over the cache a success has left; the rest of a queue of others goes.
RunNext ==
  LET own == SelectSeq(queue, LAMBDA mu : mu.user = auth) IN
  IF own = <<>> THEN queue' = <<>> /\ active' = NoMutation
  ELSE /\ queue' = Tail(own)
       /\ active' = [Head(own) EXCEPT !.step = "new"]

\* The next one begins with what is shown by then.
Begin ==
  /\ active.step = "new" /\ Mutate(active)
  /\ get' = NoGet
  /\ UNCHANGED <<auth, guest, queue, failed, paused, undo, pending, attempt, server, cleared,
                 crossed, acts, switches>>

\* executeAccountMutation: a replay for an undo asks first what was opened since.
ListForUndo ==
  /\ active.step = "list"
  /\ active' = [active EXCEPT !.step = "run", !.todo =
                  Reverse(Restore(Without(server[active.user], active.refs), active.refs))]
  /\ UNCHANGED <<auth, guest, cache, get, queue, failed, paused, undo, pending, attempt, server,
                 cleared, crossed, acts, switches>>

\* One request; a replay sends one for each film.
Execute ==
  /\ active.step = "run"
  /\ LET u == active.user
         one == active.type \in {"remove", "clear"} \/ Len(active.todo) <= 1 IN
       /\ server' = [server EXCEPT ![u] =
            CASE active.type = "clear"  -> <<>>
              [] active.type = "remove" -> Without(@, active.refs)
              [] active.todo = <<>>     -> @
              [] OTHER                  -> Opened(@, Head(active.todo))]
       /\ active' = [active EXCEPT !.step = IF one THEN "done" ELSE "run",
                                   !.todo = IF @ = <<>> THEN @ ELSE Tail(@)]
       /\ cleared' = [cleared EXCEPT ![u] =
            IF active.type = "clear" /\ server[u] # <<>> THEN server[u] ELSE @]
  /\ UNCHANGED <<auth, guest, cache, get, queue, failed, paused, undo, pending, attempt, crossed,
                 acts, switches>>

Finishes(owner) == pending' = IF pending = owner THEN "none" ELSE pending
Drops(owner) == undo' = IF undo.owner = owner THEN NoUndo ELSE undo

\* onSuccess and onSettled.
Succeeds ==
  /\ active.step = "done"
  /\ LET u == active.user
         migrated == active.type = "migration" /\ u = auth IN
       /\ IF active.type = "clear" /\ active.before \notin {NoList, <<>>}
          THEN undo' = [owner |-> u, list |-> active.before]
          ELSE IF active.type \in {"clear", "undo"} \/ migrated THEN Drops(u) ELSE UNCHANGED undo
       /\ IF active.type = "undo" THEN Finishes(u) ELSE UNCHANGED pending
       /\ IF u = auth THEN cache' = server[u] /\ failed' = NoMutation ELSE UNCHANGED <<cache, failed>>
       /\ guest' = IF migrated THEN Without(guest, active.refs) ELSE guest
       /\ cleared' = IF active.type = "clear" THEN cleared ELSE [cleared EXCEPT ![u] = NoList]
       /\ crossed' = IF get.step = "read" /\ u = auth THEN TRUE ELSE crossed
  /\ RunNext
  /\ UNCHANGED <<auth, get, paused, attempt, server, acts, switches>>

\* onError: before a request, or after it when its answer is lost.
Fails ==
  /\ active.step \in {"list", "run", "done"} /\ switches < MaxSwitches
  /\ switches' = switches + 1
  /\ IF active.type = "undo" THEN Finishes(active.user) ELSE UNCHANGED pending
  /\ IF active.user = auth
     THEN paused' = TRUE /\ failed' = [active EXCEPT !.step = "new"] /\ cache' = active.before
     ELSE UNCHANGED <<paused, failed, cache>>
  /\ active' = NoMutation
  /\ cleared' = [cleared EXCEPT ![active.user] = NoList]
  /\ UNCHANGED <<auth, guest, get, queue, undo, attempt, server, crossed, acts>>

\* Another user or none: what waits for the old one is dropped, not what is in flight.
Becomes(who) ==
  /\ auth' = who
  /\ cache' = NoList /\ get' = NoGet
  /\ queue' = <<>> /\ paused' = FALSE /\ failed' = NoMutation /\ attempt' = NoList

\* onError for a 401: the user is signed out; nothing is rolled back or left to retry.
Refused ==
  /\ active.step \in {"list", "run"} /\ active.user = auth /\ switches < MaxSwitches
  /\ switches' = switches + 1
  /\ IF active.type = "undo" THEN Finishes(active.user) ELSE UNCHANGED pending
  /\ Becomes("guest")
  /\ active' = NoMutation
  /\ cleared' = [cleared EXCEPT ![active.user] = NoList]
  /\ UNCHANGED <<guest, undo, server, crossed, acts>>

\* retry: the failed change again, before those that wait.
Retry ==
  /\ failed # NoMutation /\ failed.user = auth /\ active = NoMutation
  /\ paused' = FALSE
  /\ Mutate(failed) /\ get' = NoGet
  /\ UNCHANGED <<auth, guest, queue, failed, undo, pending, attempt, server, cleared, crossed,
                 acts, switches>>

-----------------------------------------------------------------------------
(* The query. *)

Fetch ==
  /\ SignedIn /\ get = NoGet /\ (cache = NoList \/ acts < MaxActs)
  /\ get' = [NoGet EXCEPT !.step = "sent"]
  /\ UNCHANGED <<auth, guest, cache, queue, active, failed, paused, undo, pending, attempt,
                 server, cleared, crossed, acts, switches>>

FindByUserId ==
  /\ get.step = "sent" /\ SignedIn
  /\ get' = [step |-> "read", list |-> server[auth]]
  /\ UNCHANGED <<auth, guest, cache, queue, active, failed, paused, undo, pending, attempt,
                 server, cleared, crossed, acts, switches>>

\* The answer replaces what is shown, also the change of a request still in flight.
FetchAnswered ==
  /\ get.step = "read"
  /\ get' = NoGet /\ cache' = get.list
  /\ crossed' = (crossed \/ get.list # server[auth])
  /\ UNCHANGED <<auth, guest, queue, active, failed, paused, undo, pending, attempt, server,
                 cleared, acts, switches>>

\* The guest's list is migrated once for each of its contents.
Migrates == SignedIn /\ cache # NoList /\ guest # <<>> /\ attempt # guest
Migrate ==
  /\ Migrates
  /\ attempt' = guest
  /\ RunAccountMutation(Change("migration", guest))
  /\ UNCHANGED <<auth, guest, failed, paused, undo, pending, server, cleared, crossed, acts, switches>>

-----------------------------------------------------------------------------
(* The user. *)

Acts == acts < MaxActs /\ acts' = acts + 1
Ready == ~SignedIn \/ cache # NoList
Shown == IF SignedIn THEN Restore(guest, Entries) ELSE guest

RecordOpening(m) ==
  /\ Acts
  /\ IF SignedIn THEN RunAccountMutation(Change("record", <<m>>)) /\ UNCHANGED guest
     ELSE guest' = Opened(guest, m) /\ UNCHANGED <<account, get>>
  /\ UNCHANGED <<auth, failed, paused, undo, pending, attempt, server, cleared, crossed, switches>>

RemoveOpening(m) ==
  /\ Acts /\ Ready /\ m \in ToSet(Shown)
  /\ IF SignedIn THEN RunAccountMutation(Change("remove", <<m>>)) /\ UNCHANGED guest
     ELSE guest' = Without(guest, <<m>>) /\ UNCHANGED <<account, get>>
  /\ UNCHANGED <<auth, failed, paused, undo, pending, attempt, server, cleared, crossed, switches>>

ClearHistory ==
  /\ Acts /\ Ready /\ Shown # <<>>
  /\ IF SignedIn THEN RunAccountMutation(Change("clear", <<>>)) /\ UNCHANGED <<guest, undo>>
     ELSE /\ undo' = [owner |-> "guest", list |-> guest] /\ guest' = <<>>
          /\ UNCHANGED <<account, get>>
  /\ UNCHANGED <<auth, failed, paused, pending, attempt, server, cleared, crossed, switches>>

UndoClearHistory ==
  /\ Ready /\ undo.owner = auth /\ pending # auth
  /\ IF SignedIn
     THEN pending' = auth /\ RunAccountMutation(Change("undo", undo.list)) /\ UNCHANGED <<guest, undo>>
     ELSE /\ guest' = Restore(guest, undo.list) /\ undo' = NoUndo
          /\ UNCHANGED <<account, get, pending>>
  /\ UNCHANGED <<auth, failed, paused, attempt, server, cleared, crossed, acts, switches>>

\* The time to undo is over, also while the page is closed.
UndoExpires ==
  /\ undo # NoUndo /\ undo' = NoUndo
  /\ UNCHANGED <<auth, guest, cache, get, queue, active, failed, paused, pending, attempt, server,
                 cleared, crossed, acts, switches>>

\* Signing in or out.
SwitchTo(who) ==
  /\ who # auth /\ switches < MaxSwitches
  /\ switches' = IF auth = "guest" /\ acts = 0 THEN switches ELSE switches + 1
  /\ Becomes(who)
  /\ UNCHANGED <<guest, active, undo, pending, server, cleared, crossed, acts>>

Step ==
  \/ Begin \/ ListForUndo \/ Execute \/ Succeeds \/ Fails \/ Refused \/ Retry
  \/ Fetch \/ FindByUserId \/ FetchAnswered
  \/ \E m \in Media : RecordOpening(m) \/ RemoveOpening(m)
  \/ ClearHistory \/ UndoClearHistory \/ UndoExpires
  \/ \E who \in User \union {"guest"} : SwitchTo(who)

Next == Migrate \/ (~Migrates /\ Step)

Spec == Init /\ [][Next]_vars

-----------------------------------------------------------------------------
(* What must hold. *)

\* What a clear deleted on the server can be brought back while the page offers it: the
\* undo holds those films in their order, whatever was queued, failed or retried before.
ClearCanBeUndone ==
  \A u \in User :
    undo.owner = u /\ active.type # "clear" /\ cleared[u] # NoList /\ ~crossed => undo.list = cleared[u]
=============================================================================

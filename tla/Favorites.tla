------------------------------ MODULE Favorites ------------------------------
(***************************************************************************)
(* The favourites: the guest's in local storage, the account's on the      *)
(* server.  Changes of different films are in flight at the same time; the *)
(* button of a film is disabled while its change is.  A change is shown    *)
(* before it is answered and undone when it fails, and the list is read    *)
(* again once nothing is in flight.                                        *)
(*                                                                         *)
(* Favourites are sets: their order on the page is left out.  Effects of a *)
(* render run with the change that caused them.  Changes in flight are     *)
(* counted for all accounts of the page together, so one account's may     *)
(* keep another's list from being read again (skipped).                    *)
(***************************************************************************)
EXTENDS Naturals, FiniteSets

CONSTANTS User, Media, MaxActs, MaxFaults

VARIABLES auth,      \* "guest" or the signed-in user
          guest,     \* guestMediaRefs
          cache,     \* the account query: [loaded, stale, refs]
          get,       \* its request: [step, refs]
          flying,    \* mutations in flight
          updating,  \* updatingMediaRefs: films whose button is disabled
          failed,    \* failedMutationRef
          attempt,   \* migrationAttemptRef: whose and which guest's set was last migrated
          server,    \* server[u]: the account's favourites
          choice,    \* choice[m]: what the user last asked for m since signing in
          skipped,   \* history: the account's last change settled while another's was in flight
          acts, faults

vars == <<auth, guest, cache, get, flying, updating, failed, attempt, server, choice, skipped,
          acts, faults>>

NoData == [loaded |-> FALSE, stale |-> FALSE, refs |-> {}]
NoGet == [step |-> "none", refs |-> {}]
NoMutation == [user |-> "none", add |-> FALSE, refs |-> {}, origin |-> "none"]
Failed == [user : User, add : BOOLEAN, refs : SUBSET Media, origin : {"manual", "migration"}]
Mutation == [id : 0 .. MaxActs + 2 * MaxFaults + 2, user : User, add : BOOLEAN, refs : SUBSET Media,
             origin : {"manual", "migration"}, before : SUBSET Media, step : {"sent", "done"},
             result : SUBSET Media]
Nothing == <<"nothing tried">>

TypeOK ==
  /\ auth \in User \union {"guest"} /\ guest \subseteq Media
  /\ cache \in [loaded : BOOLEAN, stale : BOOLEAN, refs : SUBSET Media]
  /\ get \in [step : {"none", "sent", "read"}, refs : SUBSET Media]
  /\ flying \subseteq Mutation /\ updating \subseteq Media
  /\ failed \in Failed \union {NoMutation} /\ skipped \in BOOLEAN
  /\ attempt \in {Nothing} \union (User \X SUBSET Media)
  /\ server \in [User -> SUBSET Media]
  /\ choice \in [Media -> {"none", "add", "remove"}]
  /\ acts \in 0 .. MaxActs /\ faults \in 0 .. MaxFaults

NoChoice == [m \in Media |-> "none"]

Init ==
  /\ auth = "guest" /\ guest \in SUBSET Media
  /\ cache = NoData /\ get = NoGet /\ flying = {} /\ updating = {} /\ failed = NoMutation /\ attempt = Nothing
  /\ server \in [User -> SUBSET Media]
  /\ choice = NoChoice /\ skipped = FALSE /\ acts = 0 /\ faults = 0

SignedIn == auth \in User
Apply(refs, mu) == IF mu.add THEN refs \union mu.refs ELSE refs \ mu.refs
Own == {mu \in flying : mu.user = auth}
InFlight == UNION {mu.refs : mu \in Own}

-----------------------------------------------------------------------------
(* The mutations. *)

\* mutate and onMutate: cancel the query, remember what the films were, show the change.
RunAccountMutation(add, refs, origin) ==
  LET new == CHOOSE n \in 0 .. Cardinality(flying) : \A mu \in flying : mu.id # n
      mu == [id |-> new, user |-> auth, add |-> add, refs |-> refs, origin |-> origin,
             before |-> cache.refs \intersect refs, step |-> "sent", result |-> {}] IN
  /\ flying' = flying \union {mu} /\ updating' = updating \union refs
  /\ get' = NoGet
  /\ cache' = [loaded |-> TRUE, stale |-> FALSE, refs |-> Apply(cache.refs, mu)]

Execute(mu) ==
  /\ mu.step = "sent"
  /\ server' = [server EXCEPT ![mu.user] = Apply(@, mu)]
  /\ flying' = (flying \ {mu})
                 \union {[mu EXCEPT !.step = "done", !.result = server'[mu.user]]}
  /\ UNCHANGED <<auth, guest, cache, get, updating, failed, attempt, choice, skipped, acts, faults>>

\* onSettled: the list is read again when nothing else is in flight, of any account.
Invalidates(mu) == flying = {mu} /\ mu.user = auth
Settle(mu, refs, invalidated) ==
  /\ flying' = flying \ {mu} /\ updating' = updating \ mu.refs
  /\ cache' = IF mu.user # auth THEN cache
              ELSE [loaded |-> TRUE, refs |-> refs, stale |-> invalidated \/ Invalidates(mu)]
  /\ skipped' = (skipped \/ (Own = {mu} /\ flying # {mu}))

Succeeds(mu) ==
  /\ mu.step = "done"
  /\ Settle(mu, IF mu.origin = "migration" THEN mu.result
                ELSE Apply(IF cache.loaded THEN cache.refs ELSE mu.result, mu), FALSE)
  /\ failed' = IF mu.user = auth THEN NoMutation ELSE failed
  /\ guest' = IF mu.user = auth /\ (mu.origin = "migration" \/ ~mu.add)
              THEN guest \ mu.refs ELSE guest
  /\ UNCHANGED <<auth, get, attempt, server, choice, acts, faults>>

\* onError: the films are what they were; the change may have reached the server.
Fails(mu) ==
  /\ faults < MaxFaults /\ faults' = faults + 1
  /\ Settle(mu, (cache.refs \ mu.refs) \union mu.before, mu.origin = "migration")
  /\ failed' = IF mu.user = auth
               THEN [user |-> mu.user, add |-> mu.add, refs |-> mu.refs, origin |-> mu.origin]
               ELSE failed
  /\ choice' = [m \in Media |-> IF mu.user = auth /\ m \in mu.refs THEN "none" ELSE choice[m]]
  /\ UNCHANGED <<auth, guest, get, attempt, server, acts>>

\* retry: only films that no other change is updating (the list shows the button).
Retry ==
  /\ failed # NoMutation /\ failed.user = auth /\ failed.refs \intersect updating = {}
  /\ attempt' = Nothing
  /\ RunAccountMutation(failed.add, failed.refs, failed.origin)
  /\ choice' = [m \in Media |-> IF m \in failed.refs THEN "none" ELSE choice[m]]
  /\ UNCHANGED <<auth, guest, failed, server, skipped, acts, faults>>

-----------------------------------------------------------------------------
(* The query. *)

Fetch ==
  /\ SignedIn /\ get = NoGet /\ (~cache.loaded \/ cache.stale \/ flying # {} \/ skipped)
  /\ get' = [NoGet EXCEPT !.step = "sent"]
  /\ cache' = [cache EXCEPT !.stale = FALSE] /\ skipped' = FALSE
  /\ UNCHANGED <<auth, guest, flying, updating, failed, attempt, server, choice, acts, faults>>

FindMediaRefs ==
  /\ get.step = "sent" /\ SignedIn
  /\ get' = [step |-> "read", refs |-> server[auth]]
  /\ UNCHANGED <<auth, guest, cache, flying, updating, failed, attempt, server, choice, skipped, acts,
                 faults>>

FetchAnswered ==
  /\ get.step = "read" /\ get' = NoGet
  /\ cache' = [cache EXCEPT !.loaded = TRUE, !.refs = get.refs]
  /\ UNCHANGED <<auth, guest, flying, updating, failed, attempt, server, choice, skipped, acts,
                 faults>>

\* The guest's favourites are added to the account once for each of their contents; after
\* a failed attempt that may cross the removal of one of them, and then either may win.
Migrates == SignedIn /\ cache.loaded /\ guest # {} /\ attempt # <<auth, guest>>
Migrate ==
  /\ Migrates
  /\ attempt' = <<auth, guest>>
  /\ RunAccountMutation(TRUE, guest, "migration")
  /\ choice' = [m \in Media |-> IF m \in guest \intersect InFlight THEN "none" ELSE choice[m]]
  /\ UNCHANGED <<auth, guest, failed, server, skipped, acts, faults>>

-----------------------------------------------------------------------------
(* The user. *)

\* updateFavorite by the button of a film.  The button is enabled when one of two overlapping
\* changes has settled; then either may win, too.
Toggle(m) ==
  /\ acts < MaxActs /\ acts' = acts + 1
  /\ IF SignedIn
     THEN LET add == m \notin cache.refs \union guest IN
          /\ cache.loaded /\ m \notin updating
          /\ RunAccountMutation(add, {m}, "manual")
          /\ choice' = [choice EXCEPT ![m] = IF m \in InFlight THEN "none"
                                               ELSE IF add THEN "add" ELSE "remove"]
          /\ UNCHANGED guest
     ELSE /\ guest' = IF m \in guest THEN guest \ {m} ELSE guest \union {m}
          /\ UNCHANGED <<cache, get, flying, updating, choice>>
  /\ UNCHANGED <<auth, failed, attempt, server, skipped, faults>>

\* Another user, or a 401: the account's data goes; what is in flight lands later.
SwitchTo(who) ==
  /\ who # auth
  /\ IF auth = "guest" THEN UNCHANGED faults ELSE faults < MaxFaults /\ faults' = faults + 1
  /\ auth' = who
  /\ cache' = NoData /\ get' = NoGet
  /\ choice' = NoChoice /\ skipped' = FALSE
  /\ UNCHANGED <<guest, flying, updating, failed, attempt, server, acts>>

Step ==
  \/ \E mu \in flying : Execute(mu) \/ Succeeds(mu) \/ Fails(mu)
  \/ Retry \/ Fetch \/ FindMediaRefs \/ FetchAnswered
  \/ \E m \in Media : Toggle(m)
  \/ \E who \in User \union {"guest"} : SwitchTo(who)

Next == Migrate \/ (~Migrates /\ Step)

Spec == Init /\ [][Next]_vars

-----------------------------------------------------------------------------
(* What must hold. *)

\* Once nothing is in flight the page shows what the account holds, and the account holds
\* what the user last chose for each film, in whatever order the requests were answered -
\* unless the list was not read again because another account's change was still in flight.
SettledIsChosen ==
  SignedIn /\ cache.loaded /\ ~cache.stale /\ get = NoGet /\ flying = {} =>
    /\ ~skipped => cache.refs = server[auth]
    /\ \A m \in Media : choice[m] # "none" => (m \in server[auth]) = (choice[m] = "add")
=============================================================================

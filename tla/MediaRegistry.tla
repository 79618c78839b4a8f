------------------------------- MODULE MediaRegistry -------------------------------
(***************************************************************************)
(* The registry of canonical media works: every work has an opaque public  *)
(* reference, external identifiers ("aliases", one per namespace) point to *)
(* it, and verified aliases that connect two works merge them: the aliases *)
(* move to the canonical one and the other becomes a redirect.             *)
(*                                                                         *)
(* A registration is a READ COMMITTED transaction: it locks the aliases it *)
(* was given, reads the works they point to, and writes later.  Saved rows *)
(* of users (favourites, history, progress, ratings) follow the works they *)
(* are about; they are one table here, "the newest row of a user wins"     *)
(* being the rule of all of them.                                          *)
(***************************************************************************)
EXTENDS Naturals, FiniteSets

CONSTANTS
  MaxWorks,     \* bound on the works ever created; a work is the number of its creation
  Alias,        \* external identifiers
  Space,        \* alias -> its namespace
  Types,        \* media types
  Requests,     \* the registrations asked for: [type, aliases]
  Tx,           \* registrations in progress together
  Users,        \* users who save media
  MaxTime       \* bound on the clock of the saved rows

Works == 1 .. MaxWorks

VARIABLES
  type,         \* work -> its type, for the works created
  redirect,     \* work -> the work it redirects to, or 0
  owner,        \* alias -> the work it points to, or 0
  tx,           \* registration -> its step and what it has read
  saved,        \* user -> work -> time of the saved row, or 0
  target,       \* user -> the work a save in progress has resolved to, or 0
  clock,
  first,        \* alias -> the first work it pointed to (history)
  latest,       \* user -> work -> time of the last row saved about it (history)
  unsafe,       \* users whose rows changed while a merge held rows it had read (history)
  retaken       \* works that two merges have redirected, to different works (history)

vars == <<type, redirect, owner, tx, saved, target, clock, first, latest, unsafe, retaken>>

Created == DOMAIN type
Idle == [step |-> "idle"]
NoRows == [u \in Users |-> [w \in Works |-> 0]]

TypeOK ==
  /\ Created = 1 .. Cardinality(Created) /\ Created \subseteq Works
  /\ \A w \in Created : type[w] \in Types
  /\ redirect \in [Works -> 0 .. MaxWorks] /\ owner \in [Alias -> 0 .. MaxWorks]
  /\ \A t \in Tx : tx[t].step \in {"idle", "locked", "matched", "carried"}
  /\ saved \in [Users -> [Works -> 0 .. MaxTime]] /\ target \in [Users -> 0 .. MaxWorks]
  /\ clock \in 0 .. MaxTime

Init ==
  /\ type = [w \in {} |-> 0]
  /\ redirect = [w \in Works |-> 0] /\ owner = [a \in Alias |-> 0]
  /\ tx = [t \in Tx |-> Idle]
  /\ saved = NoRows /\ target = [u \in Users |-> 0] /\ clock = 0
  /\ first = [a \in Alias |-> 0] /\ latest = NoRows /\ unsafe = {} /\ retaken = {}

\* followRedirect: the works met from one along its redirects, and the one where they end;
\* if they end nowhere, the work leads to a cycle, which the code refuses.
Closed(ws) == \A p \in ws : redirect[p] # 0 => redirect[p] \in ws
Trail(w) == {p \in Works : \A ws \in SUBSET Works : w \in ws /\ Closed(ws) => p \in ws}
Resolves(w) == \E p \in Trail(w) : redirect[p] = 0
Follow(w) == CHOOSE p \in Trail(w) : redirect[p] = 0

\* Mutant: the row of the canonical work, or the oldest one, is kept.
Oldest(rows, ws) ==
  LET times == {rows[w] : w \in ws} \ {0}
  IN  IF times = {} THEN 0 ELSE CHOOSE m \in times : \A n \in times : m <= n

\* The newest of a user's rows on some works, and those rows moved to the canonical one.
Newest(rows, ws) ==
  LET times == {rows[w] : w \in ws} \cup {0} IN CHOOSE m \in times : \A n \in times : n <= m
Merged(rows, sources, canonical) ==
  [w \in Works |-> IF w = canonical THEN Newest(rows, sources \cup {w})
                   ELSE IF w \in sources THEN 0 ELSE rows[w]]

\* What a step writes to the rows of users may be undone by a merge that has read them before.
Disturbed(others) ==
  IF \E t \in others : tx[t].step = "carried" /\ tx[t].sources # {}
  THEN {u \in Users : saved'[u] # saved[u]} ELSE {}

-----------------------------------------------------------------------------
(* A registration: upsertIdentity(input, true). *)

\* pg_advisory_xact_lock on every alias, always in the order of the namespaces, so
\* that the registrations that share one wait and never deadlock.
LockAliases(t, req) ==
  /\ tx[t] = Idle
  /\ \A s \in Tx : tx[s] # Idle => tx[s].req.aliases \cap req.aliases = {}
  /\ tx' = [tx EXCEPT ![t] = [step |-> "locked", req |-> req]]
  /\ UNCHANGED <<type, redirect, owner, saved, target, clock, first, latest, unsafe, retaken>>

\* The works the aliases point to; of several, those of the requested type compete and
\* the oldest is canonical.  No candidate, or two values in one namespace: refused.
MatchWorks(t) ==
  /\ tx[t].step = "locked"
  /\ LET req == tx[t].req
         refs == {owner[a] : a \in req.aliases} \ {0}
         candidates == {w \in refs : type[w] = req.type}
         stored == {a \in Alias : owner[a] \in refs}
         refused == /\ Cardinality(refs) > 1
                    /\ \/ candidates = {}
                       \/ \E a, b \in stored : a # b /\ Space[a] = Space[b]
         canonical == IF refs = {} THEN 0
                      ELSE IF Cardinality(refs) = 1 THEN CHOOSE w \in refs : TRUE
                      ELSE CHOOSE w \in candidates : \A v \in candidates : w <= v
     IN  tx' = [tx EXCEPT ![t] = IF refused THEN Idle ELSE
                 [step |-> "matched", req |-> req, work |-> canonical, sources |-> refs \ {canonical}]]
  /\ UNCHANGED <<type, redirect, owner, saved, target, clock, first, latest, unsafe, retaken>>

\* canonicalizeUserMediaInTransaction, without a user: of works to be merged the rows of
\* everybody are read, and nothing keeps users from saving more before they are written again.
ReadUserRows(t) ==
  /\ tx[t].step = "matched"
  /\ LET touched == IF tx[t].sources = {} THEN {} ELSE tx[t].sources \cup {tx[t].work}
         rows == [u \in Users |-> [w \in Works |-> IF w \in touched THEN saved[u][w] ELSE 0]]
     IN  tx' = [tx EXCEPT ![t] = [step |-> "carried", req |-> tx[t].req, work |-> tx[t].work,
                                  sources |-> tx[t].sources, rows |-> rows]]
  /\ UNCHANGED <<type, redirect, owner, saved, target, clock, first, latest, unsafe, retaken>>

\* The writes, at the commit: user rows, aliases of the merged works, redirects; then the
\* aliases of the work are compared with the request's, and those still free are inserted.
Commit(t) ==
  /\ tx[t].step = "carried"
  /\ LET req == tx[t].req
         sources == tx[t].sources
         new == tx[t].work = 0
         work == IF new THEN Cardinality(Created) + 1 ELSE tx[t].work
         touched == sources \cup {work}
         some == \E u \in Users, w \in touched : tx[t].rows[u][w] # 0
         moved == [a \in Alias |-> IF owner[a] \in sources THEN work ELSE owner[a]]
         clash == \E a \in req.aliases, b \in Alias :
                    moved[b] = work /\ a # b /\ Space[a] = Space[b]
         inserted == [a \in Alias |-> IF moved[a] = 0 /\ a \in req.aliases THEN work ELSE moved[a]]
     IN  /\ work \in Works
         /\ tx' = [tx EXCEPT ![t] = Idle]
         /\ IF clash THEN UNCHANGED <<type, redirect, owner, saved, first, retaken>> ELSE
              /\ owner' = inserted
              /\ first' = [a \in Alias |-> IF first[a] = 0 THEN inserted[a] ELSE first[a]]
              /\ redirect' = [w \in Works |-> IF w \in sources THEN work ELSE redirect[w]]
              /\ retaken' = retaken \cup {w \in sources : redirect[w] \notin {0, work}}
              /\ saved' = IF sources = {} \/ ~some THEN saved
                          ELSE [u \in Users |-> [w \in Works |->
                                 IF w \in touched THEN Merged(tx[t].rows[u], sources, work)[w]
                                 ELSE saved[u][w]]]
              /\ type' = IF new THEN [w \in Created \cup {work} |-> IF w = work THEN req.type ELSE type[w]]
                         ELSE type
  /\ unsafe' = unsafe \cup Disturbed(Tx \ {t})
  /\ UNCHANGED <<target, clock, latest>>

-----------------------------------------------------------------------------
(* A user's library. *)

\* canonicalizeRegistered: the reference is resolved, a cycle is refused, and the user's
\* rows on it move to its canonical work under a lock on the user.
ResolveSave(u, w) ==
  /\ target[u] = 0 /\ clock < MaxTime /\ w \in Created /\ Resolves(w)
  /\ target' = [target EXCEPT ![u] = Follow(w)]
  /\ saved' = IF Follow(w) = w THEN saved ELSE [saved EXCEPT ![u] = Merged(@, {w}, Follow(w))]
  /\ unsafe' = unsafe \cup Disturbed(Tx)
  /\ UNCHANGED <<type, redirect, owner, tx, clock, first, latest, retaken>>

\* The insert or update of the row itself, on what was resolved before.
SaveRow(u) ==
  /\ target[u] # 0 /\ clock < MaxTime
  /\ clock' = clock + 1
  /\ saved' = [saved EXCEPT ![u][target[u]] = clock + 1]
  /\ latest' = [latest EXCEPT ![u][target[u]] = clock + 1]
  /\ target' = [target EXCEPT ![u] = 0]
  /\ unsafe' = unsafe \cup Disturbed(Tx)
  /\ UNCHANGED <<type, redirect, owner, tx, first, retaken>>

\* A listing moves every row of the user to the canonical work it resolves to.
ListRows(u) ==
  /\ \E w \in Created : saved[u][w] # 0 /\ redirect[w] # 0
  /\ \A w \in Created : saved[u][w] # 0 => Resolves(w)
  /\ saved' = [saved EXCEPT ![u] = [w \in Works |->
                     Newest(@, {v \in Created : @[v] # 0 /\ Follow(v) = w})]]
  /\ unsafe' = unsafe \cup Disturbed(Tx)
  /\ UNCHANGED <<type, redirect, owner, tx, target, clock, first, latest, retaken>>

\* The user takes the work off a list, at the reference resolved before.
RemoveRow(u) ==
  /\ target[u] # 0
  /\ saved' = [saved EXCEPT ![u][target[u]] = 0]
  /\ latest' = [latest EXCEPT ![u] = [w \in Works |-> IF target[u] \in Trail(w) THEN 0 ELSE @[w]]]
  /\ target' = [target EXCEPT ![u] = 0]
  /\ unsafe' = unsafe \cup Disturbed(Tx)
  /\ UNCHANGED <<type, redirect, owner, tx, clock, first, retaken>>

-----------------------------------------------------------------------------
Next ==
  \/ \E t \in Tx : \/ \E req \in Requests : LockAliases(t, req)
                   \/ MatchWorks(t) \/ ReadUserRows(t) \/ Commit(t)
  \/ \E u \in Users : \/ \E w \in Works : ResolveSave(u, w)
                      \/ SaveRow(u) \/ ListRows(u) \/ RemoveRow(u)

Spec == Init /\ [][Next]_vars

-----------------------------------------------------------------------------
(* Properties. *)

\* An old route passes the work its identifiers point to now, so that both lead to the
\* same one, whatever registrations merged at once (the update of aliases and of redirects);
\* unless it passes a work that two merges took, of which the second wrote its redirect over
\* the first one's.
RouteAndAliasAgree ==
  \A a \in Alias : first[a] # 0 =>
    LET way == Trail(first[a]) IN way \cap retaken = {} => owner[a] \in way

\* What a user saved last about a work is still in the library, on a work the old one
\* leads to, through merges, listings and saves on stale references; excepted are again
\* works that two merges took, and rows that change between the reads and the writes of a
\* merge (canonicalizeUserMediaInTransaction).
SavedSurvives ==
  \A u \in Users \ unsafe, w \in Works : latest[u][w] # 0 =>
    LET way == Trail(w) IN
      way \cap retaken = {} => \E v \in way : saved[u][v] >= latest[u][w]

\* Merged works keep their routes: every reference ever given out resolves
\* (the registry's test "keeps old routes as redirects").
OldRoutesResolve == \A w \in Created : Resolves(w)
=============================================================================

------------------------------ MODULE Companion ------------------------------
(***************************************************************************)
(* Pairing the site with yaneCompanion, a helper on the viewer's computer  *)
(* (features/companion).  A connection checks the token that the browser   *)
(* keeps, or asks the helper for a pairing and polls it until the viewer   *)
(* has allowed it there; a disconnection revokes the token and forgets it. *)
(* Several pages share the browser's storage, any call may fail or lose    *)
(* its answer, and the viewer may cancel or leave at any point.            *)
(*                                                                         *)
(* The helper is not part of the repository: it has a list of pairing      *)
(* requests, at most one of them open, and a token for each that was       *)
(* allowed, which cancelling the request takes back.                       *)
(***************************************************************************)
EXTENDS Integers, Sequences

CONSTANTS Pages,        \* uses of useCompanionConnection, in one tab or several
          MaxRequests,  \* bound: pairing requests
          MaxActs,      \* bound: connections and disconnections
          MaxRevokes,   \* bound: tokens the viewer revokes in the helper
          MaxFaults     \* bound: calls that fail

VARIABLES
  request,  \* the pairing requests of the helper, the state of each
  granted,  \* requests whose token the helper honours
  stored,   \* the browser's token: the request that gave it, or 0
  op,       \* what each page is doing
  shown,    \* the status each page shows, and its hasPairing
  mounted,  \* pages that are open
  kept,     \* requests whose connection succeeded
  unsure,   \* requests whose creation or cancellation got no answer
  acts, revokes, faults

vars == <<request, granted, stored, op, shown, mounted, kept, unsure, acts, revokes, faults>>

Fault == faults < MaxFaults /\ faults' = faults + 1

Closed == {"denied", "cancelled", "expired"}
Status(s, has) == [status |-> s, has |-> has]

\* at: the step of connect or disconnect that is awaited; answer: what the helper has
\* replied to it; mine: the pairing request; has: the local hasPairing.
Idle == [at |-> "none", answer |-> "none", token |-> 0, mine |-> 0, written |-> FALSE,
         has |-> FALSE, aborted |-> FALSE]

Init ==
  /\ request = <<>> /\ granted = {} /\ stored = 0 /\ kept = {} /\ unsure = {}
  /\ op = [p \in Pages |-> Idle] /\ mounted = Pages
  /\ shown = [p \in Pages |-> Status("loading", FALSE)]
  /\ acts = 0 /\ revokes = 0 /\ faults = 0

-----------------------------------------------------------------------------
\* The helper.  It answers a call of a page, and the viewer decides there.
Open == {r \in DOMAIN request : request[r] = "pending"}

\* What a call does in the helper, and its answer.
Served(p, answer) == op' = [op EXCEPT ![p].answer = answer]
Serve(p) ==
  /\ op[p].answer = "none"
  /\ \/ op[p].at = "hello" /\ Served(p, "ok") /\ UNCHANGED <<request, granted>>
     \/ /\ op[p].at = "check" /\ UNCHANGED <<request, granted>>
        /\ Served(p, IF op[p].token \in granted THEN "ok" ELSE "unpaired")
     \/ /\ op[p].at = "create" /\ Open # {}
        /\ Served(p, "refused") /\ UNCHANGED <<request, granted>>
     \/ /\ op[p].at = "create" /\ Open = {} /\ Len(request) < MaxRequests
        /\ request' = Append(request, "pending") /\ UNCHANGED granted
        /\ op' = [op EXCEPT ![p].answer = "ok", ![p].mine = Len(request')]
     \/ /\ op[p].at = "poll" /\ Served(p, request[op[p].mine]) /\ UNCHANGED <<request, granted>>
     \/ /\ op[p].at = "cancel" /\ Served(p, "ok")
        /\ request' = [request EXCEPT ![op[p].mine] = IF @ \in Closed THEN @ ELSE "cancelled"]
        /\ granted' = granted \ {op[p].mine}
     \/ /\ op[p].at = "revoke" /\ UNCHANGED request
        /\ Served(p, IF op[p].token \in granted THEN "ok" ELSE "unpaired")
        /\ granted' = granted \ {op[p].token}
  /\ UNCHANGED <<stored, shown, mounted, kept, unsure, acts, revokes, faults>>

Decide(r) ==
  /\ r \in Open
  /\ \E s \in {"approved", "denied", "expired"} :
       /\ request' = [request EXCEPT ![r] = s]
       /\ granted' = IF s = "approved" THEN granted \cup {r} ELSE granted
  /\ UNCHANGED <<stored, op, shown, mounted, kept, unsure, acts, revokes, faults>>

RevokeThere(r) ==
  /\ r \in granted /\ revokes < MaxRevokes /\ revokes' = revokes + 1
  /\ granted' = granted \ {r}
  /\ UNCHANGED <<request, stored, op, shown, mounted, kept, unsure, acts, faults>>

-----------------------------------------------------------------------------
\* The page.
To(p, step) == op' = [op EXCEPT ![p].at = step, ![p].answer = "none"]

Show(p, s) == shown' = IF p \in mounted THEN [shown EXCEPT ![p] = s] ELSE shown

\* connect ends: a pairing that did not succeed is cancelled, then forgotten if it was stored.
End(p, s) == op' = [op EXCEPT ![p] = Idle] /\ Show(p, s)
Unpaired(p, has) == IF op[p].aborted THEN Status(IF has THEN "saved" ELSE "idle", has)
                 ELSE Status("error", has)
Fail(p) ==
  IF op[p].mine # 0 THEN To(p, "cancel") /\ UNCHANGED shown ELSE End(p, Unpaired(p, op[p].has))

Mount(p) ==
  /\ shown[p].status = "loading" /\ p \in mounted
  /\ \/ Show(p, Status(IF stored # 0 THEN "saved" ELSE "idle", stored # 0)) /\ UNCHANGED faults
     \/ Show(p, Status("error", FALSE)) /\ Fault
  /\ UNCHANGED <<request, granted, stored, op, mounted, kept, unsure, acts, revokes>>

\* The buttons of the dialog: none while the page is busy, but for cancelling.
Resting(p) == p \in mounted /\ shown[p].status \in {"idle", "saved", "paired", "error"}
Connect(p) ==
  /\ Resting(p) /\ op[p].at = "none" /\ acts < MaxActs /\ acts' = acts + 1
  /\ op' = [op EXCEPT ![p] = [Idle EXCEPT !.at = "hello", !.has = shown[p].has]]
  /\ shown' = [shown EXCEPT ![p].status = "connecting"]
  /\ UNCHANGED <<request, granted, stored, mounted, kept, unsure, revokes, faults>>

Disconnect(p) ==
  /\ Resting(p) /\ shown[p].has /\ op[p].at = "none" /\ acts < MaxActs /\ acts' = acts + 1
  /\ op' = [op EXCEPT ![p] = [Idle EXCEPT !.at = "readOld"]]
  /\ shown' = [shown EXCEPT ![p] = Status("disconnecting", TRUE)]
  /\ UNCHANGED <<request, granted, stored, mounted, kept, unsure, revokes, faults>>

\* Closing the dialog cancels too, and leaving the page aborts whatever is active.
Cancel(p) ==
  /\ p \in mounted /\ shown[p].status \in {"connecting", "pending"} /\ op[p].at # "none"
  /\ op' = [op EXCEPT ![p].aborted = TRUE]
  /\ shown' = [shown EXCEPT ![p].status = "disconnecting"]
  /\ UNCHANGED <<request, granted, stored, mounted, kept, unsure, acts, revokes, faults>>

Unmount(p) ==
  /\ p \in mounted /\ acts < MaxActs /\ acts' = acts + 1
  /\ mounted' = mounted \ {p}
  /\ op' = [op EXCEPT ![p].aborted = op[p].at # "none"]
  /\ UNCHANGED <<request, granted, stored, shown, kept, unsure, revokes, faults>>

-----------------------------------------------------------------------------
\* connect, from one await to the next.
Keep == UNCHANGED <<request, granted, mounted, acts, revokes>>
Same == UNCHANGED <<stored, kept, unsure, faults>>

Hello(p) ==
  /\ op[p].at = "hello" /\ op[p].answer = "ok" /\ ~op[p].aborted
  /\ To(p, "read") /\ Keep /\ Same /\ UNCHANGED shown

\* The token is read, whoever aborts meanwhile.
ReadToken(p) ==
  /\ op[p].at = "read"
  /\ IF op[p].aborted THEN End(p, Unpaired(p, stored # 0))
     ELSE /\ op' = [op EXCEPT ![p].at = IF stored # 0 THEN "check" ELSE "create",
                              ![p].token = stored, ![p].has = stored # 0]
          /\ UNCHANGED shown
  /\ Keep /\ Same

Succeed(p) ==
  /\ End(p, Status("paired", TRUE))
  /\ kept' = kept \cup ({op[p].mine} \ {0})

Checked(p) ==
  /\ op[p].at = "check" /\ op[p].answer # "none" /\ ~op[p].aborted
  /\ IF op[p].answer = "ok" THEN Succeed(p)
     ELSE To(p, "forget") /\ UNCHANGED <<shown, kept>>
  /\ Keep /\ UNCHANGED <<stored, unsure, faults>>

\* A token that the helper no longer honours is forgotten, and a pairing asked for.
Forget(p) ==
  /\ op[p].at = "forget" /\ stored' = 0
  /\ IF op[p].aborted THEN End(p, Unpaired(p, FALSE))
     ELSE op' = [op EXCEPT ![p].at = "create", ![p].has = FALSE] /\ UNCHANGED shown
  /\ Keep /\ UNCHANGED <<kept, unsure, faults>>

\* The creation is not aborted: the answer is what a cancellation needs.
Created(p) ==
  /\ op[p].at = "create" /\ op[p].answer # "none"
  /\ IF op[p].answer = "refused" \/ op[p].aborted THEN Fail(p)
     ELSE To(p, "poll") /\ shown' = [shown EXCEPT ![p] = Status("pending", FALSE)]
  /\ Keep /\ Same

Polled(p) ==
  /\ op[p].at = "poll" /\ op[p].answer # "none" /\ ~op[p].aborted
  /\ CASE op[p].answer = "approved" -> To(p, "write") /\ UNCHANGED shown
       [] op[p].answer = "pending" -> To(p, "pause") /\ UNCHANGED shown
       [] OTHER -> Fail(p)
  /\ Keep /\ Same

\* A second later it polls again, unless the request has expired by the page's clock.
Pause(p) ==
  /\ op[p].at = "pause" /\ ~op[p].aborted
  /\ (To(p, "poll") /\ UNCHANGED shown) \/ Fail(p)
  /\ Keep /\ Same

Write(p) ==
  /\ op[p].at = "write" /\ stored' = op[p].mine
  /\ IF op[p].aborted
     THEN /\ op' = [op EXCEPT ![p].at = "cancel", ![p].answer = "none", ![p].written = TRUE]
          /\ UNCHANGED <<shown, kept>>
     ELSE Succeed(p)
  /\ Keep /\ UNCHANGED <<unsure, faults>>

Cancelled(p) ==
  /\ op[p].at = "cancel" /\ op[p].answer = "ok"
  /\ IF op[p].written THEN To(p, "unwrite") /\ UNCHANGED shown
     ELSE End(p, Unpaired(p, op[p].has))
  /\ Keep /\ Same

Unwrite(p) ==
  /\ op[p].at = "unwrite"
  /\ (stored' = 0 /\ UNCHANGED faults) \/ (UNCHANGED stored /\ Fault)
  /\ End(p, Unpaired(p, op[p].has))
  /\ Keep /\ UNCHANGED <<kept, unsure>>

\* disconnect: the token is kept unless the helper has revoked it or does not know it.
ReadOld(p) ==
  /\ op[p].at = "readOld"
  /\ op' = [op EXCEPT ![p].at = IF stored # 0 THEN "revoke" ELSE "clear", ![p].token = stored]
  /\ Keep /\ Same /\ UNCHANGED shown

Revoked(p) ==
  /\ op[p].at = "revoke" /\ op[p].answer # "none" /\ ~op[p].aborted
  /\ To(p, "clear") /\ Keep /\ Same /\ UNCHANGED shown

Clear(p) ==
  /\ op[p].at = "clear" /\ stored' = 0
  /\ End(p, Status("idle", FALSE))
  /\ Keep /\ UNCHANGED <<kept, unsure, faults>>

-----------------------------------------------------------------------------
\* An abort ends the calls that take its signal, served or not.
Aborted(p) ==
  /\ op[p].aborted /\ op[p].at \in {"hello", "check", "poll", "pause", "revoke"}
  /\ IF op[p].at = "revoke" THEN End(p, Status("error", TRUE)) ELSE Fail(p)
  /\ Keep /\ Same

\* A call fails, before it is served or after, or the storage does.
Lost(p) ==
  /\ op[p].at \in {"hello", "read", "check", "forget", "create", "poll", "write"}
  /\ Fault /\ UNCHANGED <<stored, kept>>
  /\ unsure' = IF op[p].at = "create" THEN unsure \cup ({op[p].mine} \ {0}) ELSE unsure
  /\ IF op[p].at = "create" THEN End(p, Unpaired(p, op[p].has)) ELSE Fail(p)
  /\ Keep

CancelLost(p) ==
  /\ op[p].at = "cancel" /\ Fault
  /\ unsure' = unsure \cup {op[p].mine}
  /\ IF op[p].written THEN To(p, "unwrite") /\ UNCHANGED shown
     ELSE End(p, Unpaired(p, op[p].has))
  /\ Keep /\ UNCHANGED <<stored, kept>>

DisconnectFails(p) ==
  /\ op[p].at \in {"readOld", "revoke", "clear"} /\ Fault
  /\ End(p, Status("error", TRUE))
  /\ Keep /\ UNCHANGED <<stored, kept, unsure>>

Next ==
  \/ \E p \in Pages :
       \/ Serve(p) \/ Mount(p) \/ Connect(p) \/ Disconnect(p) \/ Cancel(p) \/ Unmount(p)
       \/ Hello(p) \/ ReadToken(p) \/ Checked(p) \/ Forget(p) \/ Created(p) \/ Polled(p)
       \/ Pause(p) \/ Write(p) \/ Cancelled(p) \/ Unwrite(p)
       \/ ReadOld(p) \/ Revoked(p) \/ Clear(p)
       \/ Aborted(p) \/ Lost(p) \/ CancelLost(p) \/ DisconnectFails(p)
  \/ \E r \in DOMAIN request : Decide(r) \/ RevokeThere(r)

Spec == Init /\ [][Next]_vars

-----------------------------------------------------------------------------
TypeOK ==
  /\ request \in Seq({"pending", "approved"} \cup Closed)
  /\ granted \subseteq DOMAIN request /\ stored \in {0} \cup DOMAIN request
  /\ \A p \in Pages : op[p].mine \in {0} \cup DOMAIN request

\* A pairing that was not completed leaves no access behind: once the page that asked for it
\* is through, however it ended, the request is closed in the helper, and a token that was
\* allowed at the last moment is taken back - unless the call that would do so failed.
NothingLeftOpen ==
  \A r \in DOMAIN request :
    \/ r \in kept \cup unsure \/ \E p \in Pages : op[p].mine = r
    \/ request[r] # "pending" /\ r \notin granted

\* A token is only forgotten when the helper no longer honours it, so that a revocation that
\* failed can be repeated - unless another page has stored a new one since this one read it.
ForgottenIsRevoked ==
  stored' # stored /\ stored' = 0 =>
    \/ stored \notin granted \/ stored \in unsure
    \/ \E p \in Pages : op'[p] # op[p] /\ stored \notin {op[p].token, op[p].mine}
=============================================================================

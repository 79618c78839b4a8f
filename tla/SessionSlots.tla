----------------------------- MODULE SessionSlots -----------------------------
(***************************************************************************)
(* What admission promises: at most MaxActive sessions hold a slot, an     *)
(* account holds at most one, and a session that has given its slot back   *)
(* never holds one again.  Admitting a session may, in the same step, take *)
(* slots back from others.                                                 *)
(***************************************************************************)
EXTENDS Integers, FiniteSets

CONSTANTS Owner, Session, None, MaxActive

VARIABLES
  holder,   \* holder[s]: the account whose slot s occupies, or None
  used      \* sessions that were ever admitted

vars == <<holder, used>>

Held == {s \in Session : holder[s] # None}

Init ==
  /\ holder = [s \in Session |-> None]
  /\ used = {}

Admit(o, s, C) ==
  /\ s \notin used
  /\ \A t \in Held \ C : holder[t] # o
  /\ Cardinality(Held \ C) < MaxActive
  /\ holder' = [t \in Session |-> IF t = s THEN o
                                  ELSE IF t \in C THEN None ELSE holder[t]]
  /\ used' = used \cup {s}

Release(C) ==
  /\ holder' = [t \in Session |-> IF t \in C THEN None ELSE holder[t]]
  /\ UNCHANGED used

Next == \E C \in SUBSET Held :
          \/ \E o \in Owner, s \in Session : Admit(o, s, C)
          \/ Release(C)

Spec == Init /\ [][Next]_vars
=============================================================================

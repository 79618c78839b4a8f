---------------------------- MODULE CatalogProofs ----------------------------
(***************************************************************************)
(* Proofs about what the catalog publishes and what the page of a work     *)
(* shows, for any value of the constants.                                  *)
(*                                                                         *)
(* The syncs of the catalog share no lock but the one on a revision while  *)
(* it is written.  What a sync has stored before its current step stays    *)
(* stored as long as its revision is staging, also when another sync of    *)
(* the same edition fills it too (FilledOK); and while syncs run one after *)
(* the other, what was ever listed has been carried over before the last   *)
(* step (CarriedOK).                                                       *)
(*                                                                         *)
(* A page holds copies of what the server has: summaries, the sources that *)
(* are available, the rating and the favourites.  Each of the invariants   *)
(* says of a copy how far it may be from what is stored, by what is in     *)
(* flight.                                                                 *)
(***************************************************************************)
EXTENDS EditorialCatalog, FiniteSetTheorems, WellFoundedInduction, TLAPS

\* What the proofs ask of the constants.
CatalogConstants ==
  MaxRevisions \in Nat /\ ItemsOf \in [Editions -> SUBSET Items]

\* Revisions are numbered, so of some there is a last one.
LEMMA MaximumExists ==
  ASSUME NEW N \in Nat, NEW S \in SUBSET (1 .. N), S # {}
  PROVE  \E m \in S : \A q \in S : q <= m
<1> DEFINE T == {n \in Nat : N - n \in S}
           R == OpToRel(<, Nat)
<1>1. T \subseteq Nat /\ T # {}
  <2>1. PICK q \in S : TRUE
    OBVIOUS
  <2>2. N - q \in Nat /\ N - (N - q) = q
    OBVIOUS
  <2>3. QED
    BY <2>1, <2>2
<1>2. \E x \in T : \A y \in T : <<y, x>> \notin R
  <2>1. IsWellFoundedOn(R, Nat)
    BY NatLessThanWellFounded
  <2> HIDE DEF T, R
  <2>2. QED
    BY <1>1, <2>1, WFMin
<1>3. PICK x \in T : \A y \in T : <<y, x>> \notin R
  BY <1>2
<1>4. \A y \in T : ~(y < x)
  BY <1>1, <1>3 DEF OpToRel
<1>5. N - x \in S
  BY <1>3
<1>6. ASSUME NEW q \in S PROVE q <= N - x
  <2>1. q \in Nat /\ N - q \in Nat /\ N - (N - q) = q /\ x \in Nat
    BY <1>1
  <2>2. ~(N - q < x)
    BY <1>4, <2>1
  <2>3. QED
    BY <2>1, <2>2
<1>7. QED
  BY <1>5, <1>6

-----------------------------------------------------------------------------
Working == Steps \ {"idle", "find", "create"}
Identified == {"carry", "shelves", "publish"}

\* A sync that has a revision works on one of its edition, as long as that is staging.
SyncsOK ==
  \A s \in Syncs :
    /\ At(s, "create") => sync[s].edition \in Editions
    /\ sync[s].step \in Working =>
         /\ sync[s].revision \in Ids /\ sync[s].edition \in Editions
         /\ revision[sync[s].revision].status # "none"
         /\ Staging(s) => revision[sync[s].revision].source = sync[s].edition

\* A revision that is filled, shown or was shown is of an edition.
RevisionsOK ==
  \A r \in Ids : revision[r].status \in {"staging", "published", "retired"} =>
    revision[r].source \in Editions

\* What a sync has stored so far is stored, whatever other syncs did to the revision.
FilledOK ==
  \A s \in Syncs : sync[s].step \in Working /\ Staging(s) =>
    /\ ~At(s, "resolve") /\ ~At(s, "items") =>
         \A i \in Manifest(s) : revision[sync[s].revision].items[i] = "active"
    /\ sync[s].step \in Identified =>
         Manifest(s) \subseteq revision[sync[s].revision].identities
    /\ At(s, "publish") => Manifest(s) \subseteq revision[sync[s].revision].shelves

\* Until two syncs run together there is one at most; something is published once
\* something was listed, and its last steps find all of that carried over.
Carried(r) == \A i \in listed : revision[r].items[i] # "absent" /\ i \in revision[r].identities
CarriedOK ==
  ~overlapped =>
    /\ \A s, t \in Syncs : ~At(s, "idle") /\ ~At(t, "idle") => s = t
    /\ listed # {} => \E r \in Ids : Published(r)
    /\ \A s \in Syncs : sync[s].step \in {"shelves", "publish"} /\ Staging(s) =>
         Carried(sync[s].revision)
    /\ \A r \in Ids : Published(r) => Carried(r)

CatalogOK ==
  TypeOK /\ SyncsOK /\ RevisionsOK /\ FilledOK /\ PublishedComplete /\ CarriedOK

-----------------------------------------------------------------------------
(* What the actions do to the revisions and to the syncs, field by field. *)

Revisions ==
  [source : Editions \cup {None},
   status : {"none", "staging", "published", "retired", "deleted"},
   items : [Items -> {"absent", "active", "inactive"}],
   identities : SUBSET Items, shelves : SUBSET Items]
SyncStates == [step : Steps, edition : Editions \cup {None}, revision : 0 .. MaxRevisions]

Untouched(r) == \A q \in Ids \ {r} : revision'[q] = revision[q]
OnlyMoves(s) == \A t \in Syncs \ {s} : sync'[t] = sync[t]

\* Sync s goes on to a step with what it has.
Advances(s, step) ==
  /\ sync' \in [Syncs -> SyncStates] /\ OnlyMoves(s)
  /\ sync'[s].step = step
  /\ sync'[s].edition = sync[s].edition /\ sync'[s].revision = sync[s].revision

LEMMA GotoAdvances ==
  ASSUME TypeOK, NEW s \in Syncs, NEW step \in Steps, Goto(s, step)
  PROVE  Advances(s, step)
  BY DEF TypeOK, Goto, Advances, OnlyMoves, SyncStates

LEMMA CreateEffect ==
  ASSUME TypeOK, NEW s \in Syncs, CreateStagingRevision(s)
  PROVE  \E r \in Ids :
           /\ revision[r].status = "none" /\ At(s, "create")
           /\ revision' \in [Ids -> Revisions] /\ Untouched(r)
           /\ revision'[r].source = sync[s].edition /\ revision'[r].status = "staging"
           /\ sync' \in [Syncs -> SyncStates] /\ OnlyMoves(s)
           /\ sync'[s].step = "resolve" /\ sync'[s].revision = r
           /\ sync'[s].edition = sync[s].edition
           /\ UNCHANGED <<listed, overlapped>>
<1>1. PICK r \in Ids :
        /\ revision[r].status = "none"
        /\ revision' = [revision EXCEPT ![r].source = sync[s].edition, ![r].status = "staging"]
        /\ sync' = [sync EXCEPT ![s].step = "resolve", ![s].revision = r]
  BY DEF CreateStagingRevision
<1> DEFINE v == [revision EXCEPT ![r].source = sync[s].edition]
           w == [sync EXCEPT ![s].step = "resolve"]
<1>2. /\ v \in [Ids -> Revisions] /\ \A q \in Ids \ {r} : v[q] = revision[q]
      /\ v[r].source = sync[s].edition
  BY DEF TypeOK, Revisions, SyncStates
<1>3. /\ w \in [Syncs -> SyncStates] /\ \A t \in Syncs \ {s} : w[t] = sync[t]
      /\ w[s].step = "resolve" /\ w[s].edition = sync[s].edition
  BY DEF TypeOK, SyncStates, Steps
<1>4. revision' = [v EXCEPT ![r].status = "staging"] /\ sync' = [w EXCEPT ![s].revision = r]
  BY <1>1
<1> HIDE DEF v, w
<1>5. /\ revision' \in [Ids -> Revisions] /\ Untouched(r)
      /\ revision'[r].source = sync[s].edition /\ revision'[r].status = "staging"
  BY <1>2, <1>4 DEF Revisions, Untouched
<1>6. /\ sync' \in [Syncs -> SyncStates] /\ OnlyMoves(s)
      /\ sync'[s].step = "resolve" /\ sync'[s].revision = r
      /\ sync'[s].edition = sync[s].edition
  BY <1>3, <1>4 DEF SyncStates, OnlyMoves, Ids
<1>7. QED
  BY <1>1, <1>5, <1>6 DEF CreateStagingRevision

LEMMA ReusableOpen ==
  ASSUME CatalogConstants, NEW e \in Editions, Reusable(e) # 0
  PROVE  /\ Reusable(e) \in Ids /\ revision[Reusable(e)].source = e
         /\ revision[Reusable(e)].status \in {"staging", "published"}
<1> DEFINE open == {r \in Ids : revision[r].source = e
                                /\ revision[r].status \in {"staging", "published"}}
<1>1. open # {} /\ Reusable(e) = CHOOSE r \in open : \A q \in open : q <= r
  BY DEF Reusable
<1>2. \E r \in open : \A q \in open : q <= r
  <2>1. open \in SUBSET (1 .. MaxRevisions) /\ MaxRevisions \in Nat
    BY DEF Ids, CatalogConstants
  <2> HIDE DEF open
  <2>2. QED
    BY <1>1, <2>1, MaximumExists
<1>3. Reusable(e) \in open
  <2> HIDE DEF open
  <2>1. QED
    BY <1>1, <1>2
<1>4. QED
  BY <1>3

LEMMA FindEffect ==
  ASSUME CatalogConstants, TypeOK, NEW s \in Syncs, NEW e \in Editions, FindRevision(s, e)
  PROVE  /\ sync[s].step \in {"idle", "find"}
         /\ sync' \in [Syncs -> SyncStates] /\ OnlyMoves(s) /\ sync'[s].edition = e
         /\ \/ sync'[s].step = "create"
            \/ /\ sync'[s].step = "resolve" /\ sync'[s].revision \in Ids
               /\ revision[sync'[s].revision].source = e
               /\ revision[sync'[s].revision].status = "staging"
         /\ Meets(s) /\ UNCHANGED <<revision, listed>>
<1> DEFINE r == Reusable(e)
           state == [step |-> IF r = 0 THEN "create" ELSE "resolve", edition |-> e, revision |-> r]
<1>1. /\ r # 0 => ~Published(r)
      /\ sync' = [sync EXCEPT ![s] = state]
  BY DEF FindRevision
<1>2. r # 0 => r \in Ids /\ revision[r].source = e /\ revision[r].status = "staging"
  BY <1>1, ReusableOpen DEF Published
<1>3. r \in 0 .. MaxRevisions
  BY <1>2 DEF Ids, CatalogConstants
<1>4. state \in SyncStates /\ state.edition = e /\ state.revision = r
      /\ state.step = IF r = 0 THEN "create" ELSE "resolve"
  <2> HIDE DEF r
  <2>1. QED
    BY <1>3 DEF SyncStates, Steps
<1> HIDE DEF r, state
<1>5. sync' \in [Syncs -> SyncStates] /\ OnlyMoves(s) /\ sync'[s] = state
  BY <1>1, <1>4 DEF TypeOK, SyncStates, OnlyMoves
<1>6. QED
  BY <1>2, <1>4, <1>5 DEF FindRevision

LEMMA ResetEffect ==
  ASSUME TypeOK, NEW s \in Syncs, ResetCatalog(s)
  PROVE  /\ At(s, "idle") /\ Advances(s, "find") /\ Meets(s) /\ listed' = {}
         /\ revision' \in [Ids -> Revisions]
         /\ \A r \in Ids : /\ revision'[r].status \in {"none", "deleted"}
                           /\ revision'[r].status = "none" => revision[r].status = "none"
<1>1. Unused \in Revisions /\ Unused.status = "none"
  BY DEF Unused, Revisions
<1>2. [Unused EXCEPT !.status = "deleted"] \in Revisions
      /\ [Unused EXCEPT !.status = "deleted"].status = "deleted"
  BY <1>1 DEF Revisions
<1>3. Advances(s, "find")
  BY GotoAdvances DEF ResetCatalog, Steps
<1>4. QED
  BY <1>1, <1>2, <1>3 DEF ResetCatalog

\* The writes of a sync to its staging revision.
Writes(s) ==
  /\ Staging(s) /\ revision' \in [Ids -> Revisions]
  /\ \A q \in Ids : q # sync[s].revision => revision'[q] = revision[q]
  /\ revision'[sync[s].revision].source = revision[sync[s].revision].source
  /\ UNCHANGED <<listed, overlapped>>
KeepsStatus(s) == revision'[sync[s].revision].status = revision[sync[s].revision].status
KeepsItems(s) == revision'[sync[s].revision].items = revision[sync[s].revision].items
KeepsIdentities(s) ==
  revision'[sync[s].revision].identities = revision[sync[s].revision].identities
KeepsShelves(s) == revision'[sync[s].revision].shelves = revision[sync[s].revision].shelves

LEMMA UpsertEffect ==
  ASSUME TypeOK, NEW s \in Syncs, sync[s].revision \in Ids, UpsertStagingItems(s)
  PROVE  /\ At(s, "items") /\ Advances(s, "identities") /\ Writes(s)
         /\ KeepsStatus(s) /\ KeepsIdentities(s) /\ KeepsShelves(s)
         /\ \A i \in Items : revision'[sync[s].revision].items[i] =
              IF i \in Manifest(s) THEN "active" ELSE revision[sync[s].revision].items[i]
<1> DEFINE filled == [i \in Items |-> IF i \in Manifest(s) THEN "active"
                                     ELSE revision[sync[s].revision].items[i]]
<1>1. filled \in [Items -> {"absent", "active", "inactive"}]
  BY DEF TypeOK
<1>2. revision' = [revision EXCEPT ![sync[s].revision].items = filled]
  BY DEF UpsertStagingItems
<1>3. Advances(s, "identities")
  BY GotoAdvances DEF UpsertStagingItems, Steps
<1>4. \A i \in Items : filled[i] = IF i \in Manifest(s) THEN "active"
                                  ELSE revision[sync[s].revision].items[i]
  OBVIOUS
<1> HIDE DEF filled
<1>5. revision' \in [Ids -> Revisions]
      /\ revision'[sync[s].revision].items = filled
      /\ KeepsStatus(s) /\ KeepsIdentities(s) /\ KeepsShelves(s)
      /\ revision'[sync[s].revision].source = revision[sync[s].revision].source
      /\ \A q \in Ids : q # sync[s].revision => revision'[q] = revision[q]
  <2> DEFINE r == sync[s].revision
  <2>1. revision \in [Ids -> Revisions] /\ r \in Ids /\ revision' = [revision EXCEPT ![r].items = filled]
    BY <1>2 DEF TypeOK, Revisions
  <2> HIDE DEF r
  <2>2. revision' \in [Ids -> Revisions] /\ revision'[r].items = filled
    <3> DEFINE row == [revision[r] EXCEPT !.items = filled]
    <3>1. row \in Revisions /\ row.items = filled
      BY <1>1, <2>1 DEF Revisions
    <3>2. revision' = [revision EXCEPT ![r] = row]
      BY <2>1
    <3> HIDE DEF row
    <3>3. QED
      BY <2>1, <3>1, <3>2
  <2>3. /\ revision'[r].source = revision[r].source /\ revision'[r].status = revision[r].status
        /\ revision'[r].identities = revision[r].identities
        /\ revision'[r].shelves = revision[r].shelves
        /\ \A q \in Ids : q # r => revision'[q] = revision[q]
    BY <2>1 DEF Revisions
  <2>4. QED
    BY <2>2, <2>3 DEF r, KeepsStatus, KeepsIdentities, KeepsShelves
<1>6. QED
  BY <1>3, <1>4, <1>5 DEF UpsertStagingItems, Writes

LEMMA IdentitiesEffect ==
  ASSUME CatalogConstants, TypeOK, NEW s \in Syncs, sync[s].revision \in Ids,
         sync[s].edition \in Editions, ReplaceStagingIdentities(s)
  PROVE  /\ At(s, "identities") /\ Advances(s, "carry") /\ Writes(s)
         /\ KeepsStatus(s) /\ KeepsItems(s) /\ KeepsShelves(s)
         /\ revision'[sync[s].revision].identities = Manifest(s)
<1>1. Manifest(s) \in SUBSET Items
  BY DEF CatalogConstants, Manifest
<1>2. revision' = [revision EXCEPT ![sync[s].revision].identities = Manifest(s)]
  BY DEF ReplaceStagingIdentities
<1>3. Advances(s, "carry")
  BY GotoAdvances DEF ReplaceStagingIdentities, Steps
<1>4. /\ revision' \in [Ids -> Revisions]
      /\ revision'[sync[s].revision].identities = Manifest(s)
      /\ KeepsStatus(s) /\ KeepsItems(s) /\ KeepsShelves(s)
      /\ revision'[sync[s].revision].source = revision[sync[s].revision].source
      /\ \A q \in Ids : q # sync[s].revision => revision'[q] = revision[q]
  <2> DEFINE r == sync[s].revision
             whole == Manifest(s)
  <2>1. /\ revision \in [Ids -> Revisions] /\ r \in Ids /\ whole \in SUBSET Items
        /\ revision' = [revision EXCEPT ![r].identities = whole]
    BY <1>1, <1>2 DEF TypeOK, Revisions
  <2> HIDE DEF r, whole
  <2>2. revision' \in [Ids -> Revisions] /\ revision'[r].identities = whole
    BY <2>1 DEF Revisions
  <2>3. /\ revision'[r].source = revision[r].source /\ revision'[r].status = revision[r].status
        /\ revision'[r].items = revision[r].items
        /\ revision'[r].shelves = revision[r].shelves
        /\ \A q \in Ids : q # r => revision'[q] = revision[q]
    BY <2>1 DEF Revisions
  <2>4. QED
    BY <2>2, <2>3 DEF r, whole, KeepsStatus, KeepsItems, KeepsShelves
<1>5. QED
  BY <1>3, <1>4 DEF ReplaceStagingIdentities, Writes

LEMMA CarryEffect ==
  ASSUME TypeOK, NEW s \in Syncs, sync[s].revision \in Ids, CarryPublishedItemsAsInactive(s)
  PROVE  /\ At(s, "carry") /\ Advances(s, "shelves") /\ Writes(s)
         /\ KeepsStatus(s) /\ KeepsShelves(s)
         /\ \A i \in Items :
              LET before == revision[sync[s].revision].items[i]
                  after == revision'[sync[s].revision].items[i]
              IN  /\ before # "absent" \/ i \in Manifest(s) => after = before
                  /\ (\E p \in Ids : Published(p) /\ revision[p].items[i] # "absent")
                       /\ i \notin Manifest(s) => after # "absent"
                  /\ after # "absent" /\ (\E p \in Ids : Published(p) /\ i \in revision[p].identities)
                       => i \in revision'[sync[s].revision].identities
         /\ revision[sync[s].revision].identities \subseteq revision'[sync[s].revision].identities
<1> DEFINE r == sync[s].revision
           known == {i \in Items : \E p \in Ids : Published(p) /\ revision[p].items[i] # "absent"}
           named == UNION {revision[p].identities : p \in {q \in Ids : Published(q)}}
           carried == [i \in Items |-> IF /\ i \in known \ Manifest(s)
                                          /\ revision[r].items[i] = "absent"
                                       THEN "inactive" ELSE revision[r].items[i]]
           more == {i \in named : carried[i] # "absent"}
           v == [revision EXCEPT ![r].items = carried]
<1>1. revision' = [v EXCEPT ![r].identities = @ \cup more]
  <2>1. revision' = [revision EXCEPT ![r].items = carried, ![r].identities = @ \cup more]
    BY DEF CarryPublishedItemsAsInactive
  <2> HIDE DEF carried, more
  <2>2. QED
    BY <2>1
<1>2. carried \in [Items -> {"absent", "active", "inactive"}]
  BY DEF TypeOK
<1>3. more \in SUBSET Items
  BY DEF TypeOK
<1>4. \A i \in Items :
        /\ revision[r].items[i] # "absent" \/ i \in Manifest(s) => carried[i] = revision[r].items[i]
        /\ (\E p \in Ids : Published(p) /\ revision[p].items[i] # "absent")
             /\ i \notin Manifest(s) => carried[i] # "absent"
  BY DEF TypeOK
<1>5. \A i \in Items : carried[i] # "absent"
      /\ (\E p \in Ids : Published(p) /\ i \in revision[p].identities)
                        => i \in more
  <2> HIDE DEF carried
  <2>1. QED
    OBVIOUS
<1> HIDE DEF carried, more
<1>6. /\ v \in [Ids -> Revisions] /\ v[r].items = carried
      /\ v[r].source = revision[r].source /\ v[r].status = revision[r].status
      /\ v[r].identities = revision[r].identities /\ v[r].shelves = revision[r].shelves
      /\ \A q \in Ids : q # r => v[q] = revision[q]
  <2>1. revision \in [Ids -> Revisions] /\ r \in Ids
    BY DEF TypeOK, Revisions
  <2> HIDE DEF r
  <2>2. v \in [Ids -> Revisions] /\ v[r].items = carried
    <3> DEFINE row == [revision[r] EXCEPT !.items = carried]
    <3>1. row \in Revisions /\ row.items = carried
      BY <1>2, <2>1 DEF Revisions
    <3>2. v = [revision EXCEPT ![r] = row]
      OBVIOUS
    <3> HIDE DEF row, v
    <3>3. QED
      BY <2>1, <3>1, <3>2
  <2>3. /\ v[r].source = revision[r].source /\ v[r].status = revision[r].status
        /\ v[r].identities = revision[r].identities /\ v[r].shelves = revision[r].shelves
        /\ \A q \in Ids : q # r => v[q] = revision[q]
    BY <2>1 DEF Revisions
  <2>4. QED
    BY <2>2, <2>3
<1> HIDE DEF v
<1>7. /\ revision' \in [Ids -> Revisions] /\ revision'[r].items = carried
      /\ revision'[r].source = revision[r].source /\ revision'[r].status = revision[r].status
      /\ revision'[r].identities = revision[r].identities \cup more
      /\ revision'[r].shelves = revision[r].shelves
      /\ \A q \in Ids : q # r => revision'[q] = revision[q]
  BY <1>1, <1>3, <1>6 DEF Revisions
<1>8. Advances(s, "shelves")
  BY GotoAdvances DEF CarryPublishedItemsAsInactive, Steps
<1>9. /\ At(s, "carry") /\ Writes(s) /\ KeepsStatus(s) /\ KeepsShelves(s)
  BY <1>7 DEF CarryPublishedItemsAsInactive, Writes, KeepsStatus, KeepsShelves
<1>10. QED
  BY <1>4, <1>5, <1>7, <1>8, <1>9

LEMMA StoreEffect ==
  ASSUME CatalogConstants, TypeOK, NEW s \in Syncs, sync[s].revision \in Ids,
         sync[s].edition \in Editions, StoreCollection(s)
  PROVE  /\ At(s, "shelves") /\ sync' = sync /\ Writes(s)
         /\ KeepsStatus(s) /\ KeepsItems(s) /\ KeepsIdentities(s)
         /\ revision[sync[s].revision].shelves \subseteq revision'[sync[s].revision].shelves
<1>1. PICK i \in Manifest(s) :
        revision' = [revision EXCEPT ![sync[s].revision].shelves = @ \cup {i}]
  BY DEF StoreCollection
<1>2. i \in Items
  BY <1>1 DEF CatalogConstants, Manifest
<1>3. /\ revision' \in [Ids -> Revisions]
      /\ revision'[sync[s].revision].shelves = revision[sync[s].revision].shelves \cup {i}
      /\ KeepsStatus(s) /\ KeepsItems(s) /\ KeepsIdentities(s)
      /\ revision'[sync[s].revision].source = revision[sync[s].revision].source
      /\ \A q \in Ids : q # sync[s].revision => revision'[q] = revision[q]
  <2> DEFINE r == sync[s].revision
             more == revision[r].shelves \cup {i}
  <2>1. /\ revision \in [Ids -> Revisions] /\ r \in Ids
        /\ revision' = [revision EXCEPT ![r].shelves = more]
        /\ more \in SUBSET Items
    BY <1>1, <1>2 DEF TypeOK, Revisions
  <2> HIDE DEF r, more
  <2>2. revision' \in [Ids -> Revisions] /\ revision'[r].shelves = more
    BY <2>1 DEF Revisions
  <2>3. /\ revision'[r].source = revision[r].source /\ revision'[r].status = revision[r].status
        /\ revision'[r].items = revision[r].items
        /\ revision'[r].identities = revision[r].identities
        /\ \A q \in Ids : q # r => revision'[q] = revision[q]
    BY <2>1 DEF Revisions
  <2>4. QED
    BY <2>2, <2>3 DEF r, more, KeepsStatus, KeepsItems, KeepsIdentities
<1>4. QED
  BY <1>3 DEF StoreCollection, Writes

LEMMA PublishEffect ==
  ASSUME CatalogConstants, TypeOK, NEW s \in Syncs, sync[s].revision \in Ids,
         PublishRevision(s)
  PROVE  /\ At(s, "publish") /\ Staging(s)
         /\ sync' \in [Syncs -> SyncStates] /\ OnlyMoves(s) /\ At(s, "idle")'
         /\ revision' \in [Ids -> Revisions]
         /\ \A r \in Ids : /\ revision'[r].source = revision[r].source
                           /\ revision'[r].items = revision[r].items
                           /\ revision'[r].identities = revision[r].identities
                           /\ revision'[r].shelves = revision[r].shelves
                           /\ revision'[r].status =
                                IF r = sync[s].revision THEN "published"
                                ELSE IF Published(r) THEN "retired" ELSE revision[r].status
         /\ listed' = listed \cup Manifest(s) /\ UNCHANGED overlapped
<1>1. ASSUME NEW r \in Ids
      PROVE  /\ revision'[r] \in Revisions
             /\ revision'[r].source = revision[r].source
             /\ revision'[r].items = revision[r].items
             /\ revision'[r].identities = revision[r].identities
             /\ revision'[r].shelves = revision[r].shelves
             /\ revision'[r].status =
                  IF r = sync[s].revision THEN "published"
                  ELSE IF Published(r) THEN "retired" ELSE revision[r].status
  <2>1. revision[r] \in Revisions
    BY DEF TypeOK, Revisions
  <2>2. revision'[r] = IF r = sync[s].revision THEN [revision[r] EXCEPT !.status = "published"]
                       ELSE IF Published(r) THEN [revision[r] EXCEPT !.status = "retired"]
                       ELSE revision[r]
    <3>1. CASE r = sync[s].revision
      <4>1. ~Published(r)
        BY <3>1 DEF PublishRevision, Staging, Published
      <4>2. QED
        BY <3>1, <4>1 DEF PublishRevision
    <3>2. CASE r # sync[s].revision
      BY <3>2 DEF PublishRevision
    <3>3. QED
      BY <3>1, <3>2
  <2>3. QED
    BY <2>1, <2>2 DEF Revisions
<1>2. revision' \in [Ids -> Revisions]
  <2>1. revision' = [r \in Ids |-> revision'[r]]
    BY DEF PublishRevision
  <2>2. QED
    BY <1>1, <2>1
<1>3. IdleSync \in SyncStates /\ IdleSync.step = "idle"
  BY DEF IdleSync, SyncStates, Steps, CatalogConstants
<1>4. sync' \in [Syncs -> SyncStates] /\ OnlyMoves(s) /\ At(s, "idle")'
  BY <1>3 DEF TypeOK, SyncStates, PublishRevision, OnlyMoves, At
<1>5. QED
  BY <1>1, <1>2, <1>4 DEF PublishRevision

LEMMA AbortEffect ==
  ASSUME CatalogConstants, TypeOK, NEW s \in Syncs, AbortSync(s)
  PROVE  /\ sync' \in [Syncs -> SyncStates] /\ OnlyMoves(s) /\ At(s, "idle")'
         /\ UNCHANGED <<revision, listed, overlapped>>
<1>1. IdleSync \in SyncStates /\ IdleSync.step = "idle"
  BY DEF IdleSync, SyncStates, Steps, CatalogConstants
<1>2. QED
  BY <1>1 DEF AbortSync, TypeOK, SyncStates, OnlyMoves, At

-----------------------------------------------------------------------------
(* No step undoes what another sync relies on. *)

LEMMA TypesFrom ==
  ASSUME CatalogConstants, TypeOK, revision' \in [Ids -> Revisions],
         sync' \in [Syncs -> SyncStates], listed' \in SUBSET Items, overlapped' \in BOOLEAN
  PROVE  TypeOK'
  BY DEF TypeOK, Revisions, SyncStates, Ids, Steps

LEMMA ManifestTypes ==
  ASSUME CatalogConstants, NEW e \in Editions
  PROVE  ItemsOf[e] \in SUBSET Items
  BY DEF CatalogConstants

\* Steps that leave the revisions alone: finding one, downloading, the last shelf, the end.
LEMMA MovesStep ==
  ASSUME CatalogConstants, CatalogOK, NEW s \in Syncs,
         sync' \in [Syncs -> SyncStates], OnlyMoves(s), UNCHANGED <<revision, listed>>,
         \/ /\ UNCHANGED overlapped
            /\ At(s, "idle") => At(s, "idle")'
         \/ Meets(s),
         sync'[s].step \in Working =>
           /\ sync'[s].revision \in Ids /\ sync'[s].edition \in Editions
           /\ revision[sync'[s].revision].status # "none"
           /\ Staging(s)' => revision[sync'[s].revision].source = sync'[s].edition,
         At(s, "create")' => sync'[s].edition \in Editions,
         sync'[s].step \in Working /\ Staging(s)' =>
           /\ sync'[s].step \in {"resolve", "items", "publish"}
           /\ sync'[s].step = "publish" =>
                /\ At(s, "shelves") /\ sync'[s].revision = sync[s].revision
                /\ sync'[s].edition = sync[s].edition
                /\ Manifest(s) \subseteq revision[sync[s].revision].shelves
  PROVE  CatalogOK'
<1>1. TypeOK /\ SyncsOK /\ RevisionsOK /\ FilledOK /\ PublishedComplete /\ CarriedOK
  BY DEF CatalogOK
<1>2. TypeOK'
  <2>1. revision' \in [Ids -> Revisions] /\ listed' \in SUBSET Items
    BY <1>1 DEF TypeOK, Revisions
  <2>2. overlapped' \in BOOLEAN
    BY <1>1 DEF TypeOK, Meets
  <2>3. QED
    BY <1>1, <2>1, <2>2, TypesFrom
<1>3. SyncsOK'
  BY <1>1 DEF SyncsOK, OnlyMoves, Staging, At
<1>4. RevisionsOK' /\ PublishedComplete'
  BY <1>1 DEF RevisionsOK, PublishedComplete, Published
<1>5. FilledOK'
  <2>1. ASSUME NEW t \in Syncs, sync'[t].step \in Working, Staging(t)'
        PROVE  /\ ~At(t, "resolve")' /\ ~At(t, "items")' =>
                    \A i \in Manifest(t)' : revision'[sync'[t].revision].items[i] = "active"
               /\ sync'[t].step \in Identified =>
                    Manifest(t)' \subseteq revision'[sync'[t].revision].identities
               /\ At(t, "publish")' => Manifest(t)' \subseteq revision'[sync'[t].revision].shelves
    <3>1. CASE t # s
      BY <1>1, <2>1, <3>1 DEF FilledOK, OnlyMoves, Staging, Manifest, At
    <3>2. CASE t = s
      <4>1. CASE sync'[s].step = "publish"
        BY <1>1, <2>1, <3>2, <4>1
           DEF FilledOK, Staging, Manifest, At, Working, Identified, Steps
      <4>2. CASE sync'[s].step # "publish"
        BY <2>1, <3>2, <4>2 DEF At, Identified
      <4>3. QED
        BY <4>1, <4>2
    <3>3. QED
      BY <3>1, <3>2
  <2>2. QED
    BY <2>1 DEF FilledOK
<1>6. CarriedOK'
  <2> SUFFICES ASSUME ~overlapped'
               PROVE  /\ \A t, u \in Syncs : ~At(t, "idle")' /\ ~At(u, "idle")' => t = u
                      /\ listed' # {} => \E r \in Ids : Published(r)'
                      /\ \A t \in Syncs : sync'[t].step \in {"shelves", "publish"} /\ Staging(t)' =>
                           Carried(sync[t].revision)'
                      /\ \A r \in Ids : Published(r)' => Carried(r)'
    BY DEF CarriedOK
  <2>1. /\ ~overlapped
        /\ ~At(s, "idle")' => \A t \in Syncs \ {s} : At(t, "idle")
    <3>1. CASE Meets(s)
      BY <1>1, <3>1 DEF CarriedOK, Meets
    <3>2. CASE UNCHANGED overlapped /\ (At(s, "idle") => At(s, "idle")')
      BY <1>1, <3>2 DEF CarriedOK
    <3>3. QED
      BY <3>1, <3>2
  <2>2. \A t, u \in Syncs : ~At(t, "idle")' /\ ~At(u, "idle")' => t = u
    BY <1>1, <2>1 DEF CarriedOK, OnlyMoves, At
  <2>3. ASSUME NEW t \in Syncs, sync'[t].step \in {"shelves", "publish"}, Staging(t)'
        PROVE  Carried(sync[t].revision)'
    <3>1. sync[t].step \in {"shelves", "publish"} /\ sync'[t].revision = sync[t].revision
      BY <2>3 DEF OnlyMoves, At, Working, Steps
    <3>2. QED
      BY <1>1, <2>1, <2>3, <3>1 DEF CarriedOK, Carried, Staging
  <2>4. QED
    BY <1>1, <2>1, <2>2, <2>3 DEF CarriedOK, Carried, Published
<1>7. QED
  BY <1>2, <1>3, <1>4, <1>5, <1>6 DEF CatalogOK

LEMMA CreateStep ==
  ASSUME CatalogConstants, CatalogOK, NEW s \in Syncs, CreateStagingRevision(s)
  PROVE  CatalogOK'
<1>1. TypeOK /\ SyncsOK /\ RevisionsOK /\ FilledOK /\ PublishedComplete /\ CarriedOK
  BY DEF CatalogOK
<1>2. PICK n \in Ids :
           /\ revision[n].status = "none" /\ At(s, "create")
           /\ revision' \in [Ids -> Revisions] /\ Untouched(n)
           /\ revision'[n].source = sync[s].edition /\ revision'[n].status = "staging"
           /\ sync' \in [Syncs -> SyncStates] /\ OnlyMoves(s)
           /\ sync'[s].step = "resolve" /\ sync'[s].revision = n
           /\ sync'[s].edition = sync[s].edition
           /\ UNCHANGED <<listed, overlapped>>
  BY <1>1, CreateEffect
<1>3. TypeOK'
  BY <1>1, <1>2, TypesFrom DEF TypeOK
<1>4. \A t \in Syncs \ {s} :
        /\ sync'[t] = sync[t]
        /\ sync[t].step \in Working => revision'[sync[t].revision] = revision[sync[t].revision]
  BY <1>1, <1>2 DEF SyncsOK, OnlyMoves, Untouched
<1>5. \A r \in Ids : revision[r].status # "none" => revision'[r] = revision[r]
  BY <1>2 DEF Untouched
<1>6. \A r \in Ids : Published(r)' <=> Published(r)
  BY <1>2 DEF Untouched, Published
<1>7. SyncsOK'
  BY <1>1, <1>2, <1>4 DEF SyncsOK, Staging, At
<1>8. RevisionsOK' /\ PublishedComplete'
  <2>1. sync[s].edition \in Editions
    BY <1>1, <1>2 DEF SyncsOK
  <2>2. RevisionsOK'
    BY <1>1, <1>2, <2>1 DEF RevisionsOK, Untouched
  <2>3. PublishedComplete'
    BY <1>1, <1>5, <1>6 DEF PublishedComplete, Published
  <2>4. QED
    BY <2>2, <2>3
<1>9. FilledOK'
  <2>1. ~At(s, "publish")' /\ At(s, "resolve")' /\ sync'[s].step \notin Identified
    BY <1>2 DEF At, Identified
  <2>2. \A t \in Syncs \ {s} : sync[t].step \in Working =>
          /\ Staging(t)' <=> Staging(t)
          /\ Manifest(t)' = Manifest(t)
    BY <1>4 DEF Staging, Manifest
  <2>3. QED
    BY <1>1, <1>4, <2>1, <2>2 DEF FilledOK, At
<1>10. CarriedOK'
  <2>1. \A t \in Syncs : At(t, "idle")' => At(t, "idle")
    BY <1>2, <1>4 DEF At
  <2>2. \A t \in Syncs : At(t, "idle") => At(t, "idle")'
    BY <1>2, <1>4 DEF At
  <2>3. \A r \in Ids : Published(r) => (Carried(r)' <=> Carried(r))
    BY <1>2, <1>5 DEF Carried, Published
  <2>4. ASSUME NEW t \in Syncs, sync'[t].step \in {"shelves", "publish"}, Staging(t)', ~overlapped
        PROVE  Carried(sync[t].revision)'
    <3>1. t # s /\ sync[t].step \in Working
      BY <1>2, <1>4, <2>4 DEF Working, Steps
    <3>2. QED
      BY <1>1, <1>2, <1>4, <2>4, <3>1 DEF CarriedOK, Carried, Staging
  <2>5. QED
    BY <1>1, <1>2, <1>6, <2>1, <2>2, <2>3, <2>4 DEF CarriedOK
<1>11. QED
  BY <1>3, <1>7, <1>8, <1>9, <1>10 DEF CatalogOK

\* The writes to a staging revision change nothing readers see.
LEMMA WritesStep ==
  ASSUME CatalogConstants, CatalogOK, NEW s \in Syncs, sync[s].step \in Working,
         Writes(s), KeepsStatus(s), sync' \in [Syncs -> SyncStates]
  PROVE  /\ TypeOK' /\ RevisionsOK' /\ PublishedComplete'
         /\ \A r \in Ids : /\ revision'[r].status = revision[r].status
                           /\ revision'[r].source = revision[r].source
                           /\ Published(r) => revision'[r] = revision[r]
         /\ sync[s].revision \in Ids /\ sync[s].edition \in Editions
         /\ Manifest(s) \in SUBSET Items
         /\ \A t \in Syncs : sync[t].step \in Working /\ Staging(t)
                              /\ sync[t].revision = sync[s].revision =>
              Manifest(t) = Manifest(s)
<1>1. TypeOK /\ SyncsOK /\ RevisionsOK /\ FilledOK /\ PublishedComplete
  BY DEF CatalogOK
<1>2. /\ sync[s].revision \in Ids /\ sync[s].edition \in Editions
      /\ revision[sync[s].revision].source = sync[s].edition
  BY <1>1 DEF SyncsOK, Writes
<1>3. \A r \in Ids : /\ revision'[r].status = revision[r].status
                     /\ revision'[r].source = revision[r].source
                     /\ Published(r) => revision'[r] = revision[r]
  BY <1>2 DEF Writes, KeepsStatus, Staging, Published
<1>4. TypeOK'
  BY <1>1, TypesFrom DEF Writes, TypeOK
<1>5. RevisionsOK'
  BY <1>1, <1>3 DEF RevisionsOK
<1>6. PublishedComplete'
  BY <1>1, <1>3 DEF PublishedComplete, Published
<1>7. \A t \in Syncs : sync[t].step \in Working /\ Staging(t)
                       /\ sync[t].revision = sync[s].revision => Manifest(t) = Manifest(s)
  BY <1>1, <1>2 DEF SyncsOK, Manifest
<1>8. Manifest(s) \in SUBSET Items
  BY <1>2, ManifestTypes DEF Manifest
<1>9. QED
  BY <1>2, <1>3, <1>4, <1>5, <1>6, <1>7, <1>8

\* A sync that writes, and one that may share its revision.
LEMMA OthersKeep ==
  ASSUME CatalogConstants, CatalogOK, NEW s \in Syncs, sync[s].step \in Working,
         Writes(s), KeepsStatus(s), sync' \in [Syncs -> SyncStates],
         \A t \in Syncs : /\ sync'[t].edition = sync[t].edition
                          /\ sync'[t].revision = sync[t].revision,
         sync'[s].step \in Working, OnlyMoves(s)
  PROVE  /\ SyncsOK'
         /\ \A t \in Syncs : Manifest(t)' = Manifest(t)
         /\ \A t \in Syncs : sync[t].step \in Working => (Staging(t)' <=> Staging(t))
<1>1. SyncsOK
  BY DEF CatalogOK
<1>2. \A r \in Ids : /\ revision'[r].status = revision[r].status
                     /\ revision'[r].source = revision[r].source
  BY WritesStep
<1>3. \A t \in Syncs : Manifest(t)' = Manifest(t)
  BY DEF Manifest
<1>4. \A t \in Syncs : sync[t].step \in Working => (Staging(t)' <=> Staging(t))
  BY <1>1, <1>2 DEF SyncsOK, Staging
<1>5. SyncsOK'
  BY <1>1, <1>2, <1>4 DEF SyncsOK, Staging, OnlyMoves, At, Working, Steps
<1>6. QED
  BY <1>3, <1>4, <1>5

\* While syncs do not overlap the writer is the only one there is: the others are idle, and
\* what is published stays.
LEMMA CarriedByWriter ==
  ASSUME CatalogConstants, CatalogOK, NEW s \in Syncs, sync[s].step \in Working,
         Writes(s), KeepsStatus(s), sync' \in [Syncs -> SyncStates], OnlyMoves(s),
         sync'[s].step \in Working,
         \A t \in Syncs : /\ sync'[t].edition = sync[t].edition
                          /\ sync'[t].revision = sync[t].revision,
         ~overlapped /\ sync'[s].step \in {"shelves", "publish"} => Carried(sync[s].revision)'
  PROVE  CarriedOK'
<1>1. CarriedOK /\ SyncsOK
  BY DEF CatalogOK
<1>2. /\ \A r \in Ids : Published(r)' <=> Published(r)
      /\ \A r \in Ids : Published(r) => revision'[r] = revision[r]
  BY WritesStep DEF Published
<1>3. overlapped' = overlapped /\ listed' = listed
  BY DEF Writes
<1>4. ~At(s, "idle") /\ ~At(s, "idle")'
  BY DEF At, Working, Steps
<1>5. SUFFICES ASSUME ~overlapped
               PROVE  /\ \A t, u \in Syncs : ~At(t, "idle")' /\ ~At(u, "idle")' => t = u
                      /\ listed' # {} => \E r \in Ids : Published(r)'
                      /\ \A t \in Syncs : sync'[t].step \in {"shelves", "publish"} /\ Staging(t)' =>
                           Carried(sync[t].revision)'
                      /\ \A r \in Ids : Published(r)' => Carried(r)'
  BY <1>3 DEF CarriedOK
<1>6. \A t \in Syncs \ {s} : At(t, "idle") /\ At(t, "idle")'
  BY <1>1, <1>4, <1>5 DEF CarriedOK, OnlyMoves, At
<1>7. \A t \in Syncs : sync'[t].step \in {"shelves", "publish"} => t = s
  BY <1>6 DEF At
<1>8. \A r \in Ids : Published(r)' => Carried(r)'
  BY <1>1, <1>2, <1>3, <1>5 DEF CarriedOK, Carried
<1>9. QED
  BY <1>1, <1>2, <1>3, <1>5, <1>6, <1>7, <1>8 DEF CarriedOK

LEMMA UpsertStep ==
  ASSUME CatalogConstants, CatalogOK, NEW s \in Syncs, UpsertStagingItems(s)
  PROVE  CatalogOK'
<1> DEFINE r == sync[s].revision
<1>1. TypeOK /\ SyncsOK /\ FilledOK /\ CarriedOK
  BY DEF CatalogOK
<1>2. sync[s].step = "items" /\ sync[s].step \in Working
  BY DEF UpsertStagingItems, At, Working, Steps
<1>3. r \in Ids
  BY <1>1, <1>2 DEF SyncsOK
<1>4. /\ Advances(s, "identities") /\ Writes(s)
      /\ KeepsStatus(s) /\ KeepsIdentities(s) /\ KeepsShelves(s)
      /\ \A i \in Items : revision'[r].items[i] =
           IF i \in Manifest(s) THEN "active" ELSE revision[r].items[i]
  BY <1>1, <1>3, UpsertEffect
<1>5. /\ sync' \in [Syncs -> SyncStates] /\ sync'[s].step = "identities" /\ OnlyMoves(s)
      /\ \A t \in Syncs : /\ sync'[t].edition = sync[t].edition
                          /\ sync'[t].revision = sync[t].revision
  BY <1>4 DEF Advances, OnlyMoves
<1>6. /\ TypeOK' /\ RevisionsOK' /\ PublishedComplete'
      /\ \A q \in Ids : Published(q) => revision'[q] = revision[q]
      /\ \A q \in Ids : revision'[q].status = revision[q].status
      /\ Manifest(s) \in SUBSET Items
      /\ \A t \in Syncs : sync[t].step \in Working /\ Staging(t) /\ sync[t].revision = r =>
           Manifest(t) = Manifest(s)
  BY <1>2, <1>4, <1>5, WritesStep
<1>7. /\ SyncsOK' /\ \A t \in Syncs : Manifest(t)' = Manifest(t)
      /\ \A t \in Syncs : sync[t].step \in Working => (Staging(t)' <=> Staging(t))
  BY <1>2, <1>4, <1>5, OthersKeep DEF Working, Steps
<1>8. \A q \in Ids : q # r => revision'[q] = revision[q]
  BY <1>4 DEF Writes
<1>9. FilledOK'
  <2>1. ASSUME NEW t \in Syncs, sync'[t].step \in Working, Staging(t)'
        PROVE  /\ ~At(t, "resolve")' /\ ~At(t, "items")' =>
                    \A i \in Manifest(t)' : revision'[sync'[t].revision].items[i] = "active"
               /\ sync'[t].step \in Identified =>
                    Manifest(t)' \subseteq revision'[sync'[t].revision].identities
               /\ At(t, "publish")' => Manifest(t)' \subseteq revision'[sync'[t].revision].shelves
    <3>1. sync[t].step \in Working /\ Staging(t) /\ (t # s => sync'[t] = sync[t])
      BY <1>2, <1>5, <1>7, <2>1 DEF OnlyMoves
    <3>2. CASE sync[t].revision = r
      <4>1. \A i \in Manifest(t) : revision'[r].items[i] = "active"
        BY <1>4, <1>6, <3>1, <3>2
      <4>2. /\ revision'[r].identities = revision[r].identities
            /\ revision'[r].shelves = revision[r].shelves
        BY <1>4 DEF KeepsIdentities, KeepsShelves
      <4>3. t = s => sync'[t].step \notin Identified
        BY <1>5 DEF Identified
      <4>4. QED
        BY <1>1, <1>5, <1>7, <3>1, <3>2, <4>1, <4>2, <4>3 DEF FilledOK, At, Identified
    <3>3. CASE sync[t].revision # r
      <4>1. t # s /\ sync[t].revision \in Ids
        BY <1>1, <3>1, <3>3 DEF SyncsOK
      <4>2. QED
        BY <1>1, <1>7, <1>8, <3>1, <3>3, <4>1 DEF FilledOK, At
    <3>4. QED
      BY <3>2, <3>3
  <2>2. QED
    BY <2>1 DEF FilledOK
<1>10. CarriedOK'
  BY <1>2, <1>4, <1>5, CarriedByWriter DEF Working, Steps
<1>11. QED
  BY <1>6, <1>7, <1>9, <1>10 DEF CatalogOK

LEMMA IdentitiesStep ==
  ASSUME CatalogConstants, CatalogOK, NEW s \in Syncs, ReplaceStagingIdentities(s)
  PROVE  CatalogOK'
<1> DEFINE r == sync[s].revision
<1>1. TypeOK /\ SyncsOK /\ FilledOK /\ CarriedOK
  BY DEF CatalogOK
<1>2. sync[s].step = "identities" /\ sync[s].step \in Working
  BY DEF ReplaceStagingIdentities, At, Working, Steps
<1>3. r \in Ids
  BY <1>1, <1>2 DEF SyncsOK
<1>4. /\ Advances(s, "carry") /\ Writes(s)
      /\ KeepsStatus(s) /\ KeepsItems(s) /\ KeepsShelves(s)
      /\ revision'[r].identities = Manifest(s)
  BY <1>1, <1>2, <1>3, IdentitiesEffect DEF SyncsOK
<1>5. /\ sync' \in [Syncs -> SyncStates] /\ sync'[s].step = "carry" /\ OnlyMoves(s)
      /\ \A t \in Syncs : /\ sync'[t].edition = sync[t].edition
                          /\ sync'[t].revision = sync[t].revision
  BY <1>4 DEF Advances, OnlyMoves
<1>6. /\ TypeOK' /\ RevisionsOK' /\ PublishedComplete'
      /\ \A q \in Ids : Published(q) => revision'[q] = revision[q]
      /\ \A q \in Ids : revision'[q].status = revision[q].status
      /\ Manifest(s) \in SUBSET Items
      /\ \A t \in Syncs : sync[t].step \in Working /\ Staging(t) /\ sync[t].revision = r =>
           Manifest(t) = Manifest(s)
  BY <1>2, <1>4, <1>5, WritesStep
<1>7. /\ SyncsOK' /\ \A t \in Syncs : Manifest(t)' = Manifest(t)
      /\ \A t \in Syncs : sync[t].step \in Working => (Staging(t)' <=> Staging(t))
  BY <1>2, <1>4, <1>5, OthersKeep DEF Working, Steps
<1>8. \A q \in Ids : q # r => revision'[q] = revision[q]
  BY <1>4 DEF Writes
<1>9. FilledOK'
  <2>1. ASSUME NEW t \in Syncs, sync'[t].step \in Working, Staging(t)'
        PROVE  /\ ~At(t, "resolve")' /\ ~At(t, "items")' =>
                    \A i \in Manifest(t)' : revision'[sync'[t].revision].items[i] = "active"
               /\ sync'[t].step \in Identified =>
                    Manifest(t)' \subseteq revision'[sync'[t].revision].identities
               /\ At(t, "publish")' => Manifest(t)' \subseteq revision'[sync'[t].revision].shelves
    <3>1. sync[t].step \in Working /\ Staging(t) /\ (t # s => sync'[t] = sync[t])
      BY <1>2, <1>5, <1>7, <2>1 DEF OnlyMoves
    <3>2. CASE sync[t].revision = r
      <4>1. Manifest(t) = Manifest(s)
        BY <1>6, <3>1, <3>2
      <4>2. /\ revision'[r].items = revision[r].items
            /\ revision'[r].shelves = revision[r].shelves
        BY <1>4 DEF KeepsItems, KeepsShelves
      <4>3. sync'[s].step = "carry" /\ sync[s].step = "identities"
        BY <1>2, <1>5
      <4>4. QED
        BY <1>1, <1>4, <1>5, <1>7, <3>1, <3>2, <4>1, <4>2, <4>3 DEF FilledOK, At, Identified
    <3>3. CASE sync[t].revision # r
      <4>1. t # s /\ sync[t].revision \in Ids
        BY <1>1, <3>1, <3>3 DEF SyncsOK
      <4>2. QED
        BY <1>1, <1>7, <1>8, <3>1, <3>3, <4>1 DEF FilledOK, At
    <3>4. QED
      BY <3>2, <3>3
  <2>2. QED
    BY <2>1 DEF FilledOK
<1>10. CarriedOK'
  BY <1>2, <1>4, <1>5, CarriedByWriter DEF Working, Steps
<1>11. QED
  BY <1>6, <1>7, <1>9, <1>10 DEF CatalogOK

LEMMA CarryStep ==
  ASSUME CatalogConstants, CatalogOK, NEW s \in Syncs, CarryPublishedItemsAsInactive(s)
  PROVE  CatalogOK'
<1> DEFINE r == sync[s].revision
<1>1. TypeOK /\ SyncsOK /\ FilledOK /\ CarriedOK
  BY DEF CatalogOK
<1>2. sync[s].step = "carry" /\ sync[s].step \in Working
  BY DEF CarryPublishedItemsAsInactive, At, Working, Steps
<1>3. r \in Ids
  BY <1>1, <1>2 DEF SyncsOK
<1>4. /\ Advances(s, "shelves") /\ Writes(s)
      /\ KeepsStatus(s) /\ KeepsShelves(s)
      /\ revision[r].identities \subseteq revision'[r].identities
      /\ \A i \in Items :
           /\ revision[r].items[i] # "absent" \/ i \in Manifest(s) =>
                revision'[r].items[i] = revision[r].items[i]
           /\ (\E p \in Ids : Published(p) /\ revision[p].items[i] # "absent")
                /\ i \notin Manifest(s) => revision'[r].items[i] # "absent"
           /\ revision'[r].items[i] # "absent"
                /\ (\E p \in Ids : Published(p) /\ i \in revision[p].identities)
                => i \in revision'[r].identities
  BY <1>1, <1>3, CarryEffect
<1>5. /\ sync' \in [Syncs -> SyncStates] /\ sync'[s].step = "shelves" /\ OnlyMoves(s)
      /\ \A t \in Syncs : /\ sync'[t].edition = sync[t].edition
                          /\ sync'[t].revision = sync[t].revision
  BY <1>4 DEF Advances, OnlyMoves
<1>6. /\ TypeOK' /\ RevisionsOK' /\ PublishedComplete'
      /\ \A q \in Ids : Published(q) => revision'[q] = revision[q]
      /\ \A q \in Ids : revision'[q].status = revision[q].status
      /\ Manifest(s) \in SUBSET Items
      /\ \A t \in Syncs : sync[t].step \in Working /\ Staging(t) /\ sync[t].revision = r =>
           Manifest(t) = Manifest(s)
  BY <1>2, <1>4, <1>5, WritesStep
<1>7. /\ SyncsOK' /\ \A t \in Syncs : Manifest(t)' = Manifest(t)
      /\ \A t \in Syncs : sync[t].step \in Working => (Staging(t)' <=> Staging(t))
  BY <1>2, <1>4, <1>5, OthersKeep DEF Working, Steps
<1>8. \A q \in Ids : q # r => revision'[q] = revision[q]
  BY <1>4 DEF Writes
<1>9. FilledOK'
  <2>1. ASSUME NEW t \in Syncs, sync'[t].step \in Working, Staging(t)'
        PROVE  /\ ~At(t, "resolve")' /\ ~At(t, "items")' =>
                    \A i \in Manifest(t)' : revision'[sync'[t].revision].items[i] = "active"
               /\ sync'[t].step \in Identified =>
                    Manifest(t)' \subseteq revision'[sync'[t].revision].identities
               /\ At(t, "publish")' => Manifest(t)' \subseteq revision'[sync'[t].revision].shelves
    <3>1. sync[t].step \in Working /\ Staging(t) /\ (t # s => sync'[t] = sync[t])
      BY <1>2, <1>5, <1>7, <2>1 DEF OnlyMoves
    <3>2. CASE sync[t].revision = r
      <4>1. /\ Manifest(t) = Manifest(s)
            /\ \A i \in Manifest(t) : revision'[r].items[i] = revision[r].items[i]
        BY <1>4, <1>6, <3>1, <3>2
      <4>2. revision'[r].shelves = revision[r].shelves
        BY <1>4 DEF KeepsShelves
      <4>3. sync'[s].step = "shelves" /\ sync[s].step = "carry"
        BY <1>2, <1>5
      <4>4. QED
        BY <1>1, <1>4, <1>5, <1>7, <3>1, <3>2, <4>1, <4>2, <4>3 DEF FilledOK, At, Identified
    <3>3. CASE sync[t].revision # r
      <4>1. t # s /\ sync[t].revision \in Ids
        BY <1>1, <3>1, <3>3 DEF SyncsOK
      <4>2. QED
        BY <1>1, <1>7, <1>8, <3>1, <3>3, <4>1 DEF FilledOK, At
    <3>4. QED
      BY <3>2, <3>3
  <2>2. QED
    BY <2>1 DEF FilledOK
<1>10. CarriedOK'
  <2>1. ASSUME ~overlapped
        PROVE  Carried(sync[s].revision)'
    <3>1. sync'[s].revision = r /\ listed' = listed /\ listed \subseteq Items
      BY <1>1, <1>4, <1>5 DEF Writes, TypeOK
    <3>2. ASSUME NEW i \in listed
          PROVE  revision'[r].items[i] # "absent" /\ i \in revision'[r].identities
      <4>1. PICK p \in Ids : Published(p) /\ Carried(p)
        BY <1>1, <2>1, <3>2 DEF CarriedOK
      <4>2. revision[p].items[i] # "absent" /\ i \in revision[p].identities /\ i \in Items
        BY <3>1, <3>2, <4>1 DEF Carried
      <4>3. i \in Manifest(s) => revision'[r].items[i] = "active"
        BY <1>1, <1>2, <1>4, <4>2 DEF FilledOK, Writes, At
      <4>4. revision'[r].items[i] # "absent"
        BY <1>4, <4>1, <4>2, <4>3
      <4>5. QED
        BY <1>4, <4>1, <4>2, <4>4
    <3>3. QED
      BY <3>1, <3>2 DEF Carried
  <2>2. sync'[s].step \in Working
    BY <1>5 DEF Working, Steps
  <2>3. QED
    BY <1>2, <1>4, <1>5, <2>1, <2>2, CarriedByWriter
<1>11. QED
  BY <1>6, <1>7, <1>9, <1>10 DEF CatalogOK

LEMMA StoreStep ==
  ASSUME CatalogConstants, CatalogOK, NEW s \in Syncs, StoreCollection(s)
  PROVE  CatalogOK'
<1> DEFINE r == sync[s].revision
<1>1. TypeOK /\ SyncsOK /\ FilledOK /\ CarriedOK
  BY DEF CatalogOK
<1>2. sync[s].step = "shelves" /\ sync[s].step \in Working
  BY DEF StoreCollection, At, Working, Steps
<1>3. r \in Ids
  BY <1>1, <1>2 DEF SyncsOK
<1>4. /\ sync' = sync /\ Writes(s)
      /\ KeepsStatus(s) /\ KeepsItems(s) /\ KeepsIdentities(s)
      /\ revision[r].shelves \subseteq revision'[r].shelves
  BY <1>1, <1>2, <1>3, StoreEffect DEF SyncsOK
<1>5. /\ sync' \in [Syncs -> SyncStates] /\ sync'[s].step = "shelves" /\ OnlyMoves(s)
      /\ \A t \in Syncs : /\ sync'[t].edition = sync[t].edition
                          /\ sync'[t].revision = sync[t].revision
  BY <1>1, <1>2, <1>4 DEF OnlyMoves, TypeOK, SyncStates
<1>6. /\ TypeOK' /\ RevisionsOK' /\ PublishedComplete'
      /\ \A q \in Ids : Published(q) => revision'[q] = revision[q]
      /\ \A q \in Ids : revision'[q].status = revision[q].status
      /\ Manifest(s) \in SUBSET Items
      /\ \A t \in Syncs : sync[t].step \in Working /\ Staging(t) /\ sync[t].revision = r =>
           Manifest(t) = Manifest(s)
  BY <1>2, <1>4, <1>5, WritesStep
<1>7. /\ SyncsOK' /\ \A t \in Syncs : Manifest(t)' = Manifest(t)
      /\ \A t \in Syncs : sync[t].step \in Working => (Staging(t)' <=> Staging(t))
  BY <1>2, <1>4, <1>5, OthersKeep DEF Working, Steps
<1>8. \A q \in Ids : q # r => revision'[q] = revision[q]
  BY <1>4 DEF Writes
<1>9. FilledOK'
  <2>1. ASSUME NEW t \in Syncs, sync'[t].step \in Working, Staging(t)'
        PROVE  /\ ~At(t, "resolve")' /\ ~At(t, "items")' =>
                    \A i \in Manifest(t)' : revision'[sync'[t].revision].items[i] = "active"
               /\ sync'[t].step \in Identified =>
                    Manifest(t)' \subseteq revision'[sync'[t].revision].identities
               /\ At(t, "publish")' => Manifest(t)' \subseteq revision'[sync'[t].revision].shelves
    <3>1. sync[t].step \in Working /\ Staging(t) /\ (t # s => sync'[t] = sync[t])
      BY <1>2, <1>5, <1>7, <2>1 DEF OnlyMoves
    <3>2. CASE sync[t].revision = r
      <4>1. sync' = sync
        BY <1>4
      <4>2. /\ revision'[r].items = revision[r].items
            /\ revision'[r].identities = revision[r].identities
        BY <1>4 DEF KeepsItems, KeepsIdentities
      <4>3. revision[r].shelves \subseteq revision'[r].shelves
        BY <1>4
      <4>4. QED
        BY <1>1, <1>5, <1>7, <3>1, <3>2, <4>1, <4>2, <4>3 DEF FilledOK, At, Identified
    <3>3. CASE sync[t].revision # r
      <4>1. t # s /\ sync[t].revision \in Ids
        BY <1>1, <3>1, <3>3 DEF SyncsOK
      <4>2. QED
        BY <1>1, <1>7, <1>8, <3>1, <3>3, <4>1 DEF FilledOK, At
    <3>4. QED
      BY <3>2, <3>3
  <2>2. QED
    BY <2>1 DEF FilledOK
<1>10. CarriedOK'
  <2>1. ASSUME ~overlapped
        PROVE  Carried(sync[s].revision)'
    BY <1>1, <1>2, <1>4, <2>1
       DEF CarriedOK, Carried, Writes, KeepsItems, KeepsIdentities
  <2>2. QED
    BY <1>2, <1>4, <1>5, <2>1, CarriedByWriter DEF Working, Steps
<1>11. QED
  BY <1>6, <1>7, <1>9, <1>10 DEF CatalogOK

LEMMA PublishStep ==
  ASSUME CatalogConstants, CatalogOK, NEW s \in Syncs, PublishRevision(s)
  PROVE  CatalogOK'
<1> DEFINE r == sync[s].revision
<1>1. TypeOK /\ SyncsOK /\ RevisionsOK /\ FilledOK /\ PublishedComplete /\ CarriedOK
  BY DEF CatalogOK
<1>2. sync[s].step = "publish" /\ sync[s].step \in Working
  BY DEF PublishRevision, At, Working, Steps
<1>3. /\ r \in Ids /\ sync[s].edition \in Editions /\ Staging(s)
      /\ revision[r].source = sync[s].edition
  BY <1>1, <1>2 DEF SyncsOK, PublishRevision
<1>4. /\ sync' \in [Syncs -> SyncStates] /\ OnlyMoves(s) /\ At(s, "idle")'
      /\ revision' \in [Ids -> Revisions]
      /\ \A q \in Ids : /\ revision'[q].source = revision[q].source
                        /\ revision'[q].items = revision[q].items
                        /\ revision'[q].identities = revision[q].identities
                        /\ revision'[q].shelves = revision[q].shelves
                        /\ revision'[q].status =
                             IF q = r THEN "published"
                             ELSE IF Published(q) THEN "retired" ELSE revision[q].status
      /\ listed' = listed \cup Manifest(s) /\ UNCHANGED overlapped
  BY <1>1, <1>3, PublishEffect
<1>5. Manifest(s) \in SUBSET Items
  BY <1>3, ManifestTypes DEF Manifest
<1>6. TypeOK'
  BY <1>1, <1>4, <1>5, TypesFrom DEF TypeOK
<1>7. \A q \in Ids : Published(q)' <=> q = r
  BY <1>4 DEF Published
<1>8. \A t \in Syncs : sync'[t].step # "idle" => t # s /\ sync'[t] = sync[t]
  BY <1>4 DEF OnlyMoves, At
<1>9. \A t \in Syncs : sync'[t].step \in Working /\ Staging(t)' =>
        t # s /\ sync'[t] = sync[t] /\ Staging(t) /\ Manifest(t)' = Manifest(t)
  <2>1. ASSUME NEW t \in Syncs, sync'[t].step \in Working, Staging(t)'
        PROVE  t # s /\ sync'[t] = sync[t] /\ Staging(t) /\ Manifest(t)' = Manifest(t)
    <3>1. t # s /\ sync'[t] = sync[t]
      BY <1>8, <2>1 DEF Working
    <3>2. sync[t].revision \in Ids
      BY <1>1, <2>1, <3>1 DEF SyncsOK
    <3>3. QED
      BY <1>4, <2>1, <3>1, <3>2 DEF Staging, Manifest, Published
  <2>2. QED
    BY <2>1
<1>10. SyncsOK'
  <2>1. ASSUME NEW t \in Syncs, sync'[t].step \in Working
        PROVE  /\ sync'[t].revision \in Ids /\ sync'[t].edition \in Editions
               /\ revision'[sync'[t].revision].status # "none"
               /\ Staging(t)' => revision'[sync'[t].revision].source = sync'[t].edition
    <3>1. t # s /\ sync'[t] = sync[t]
      BY <1>8, <2>1 DEF Working
    <3>2. QED
      BY <1>1, <1>4, <1>9, <2>1, <3>1 DEF SyncsOK
  <2>2. ASSUME NEW t \in Syncs, At(t, "create")'
        PROVE  sync'[t].edition \in Editions
    BY <1>1, <1>8, <2>2 DEF SyncsOK, At
  <2>3. QED
    BY <2>1, <2>2 DEF SyncsOK
<1>11. RevisionsOK'
  BY <1>1, <1>3, <1>4 DEF RevisionsOK, Published
<1>12. FilledOK'
  <2>1. ASSUME NEW t \in Syncs, sync'[t].step \in Working, Staging(t)'
        PROVE  /\ ~At(t, "resolve")' /\ ~At(t, "items")' =>
                    \A i \in Manifest(t)' : revision'[sync'[t].revision].items[i] = "active"
               /\ sync'[t].step \in Identified =>
                    Manifest(t)' \subseteq revision'[sync'[t].revision].identities
               /\ At(t, "publish")' => Manifest(t)' \subseteq revision'[sync'[t].revision].shelves
    <3>1. sync'[t] = sync[t] /\ Staging(t) /\ Manifest(t)' = Manifest(t)
      BY <1>9, <2>1
    <3>2. sync[t].revision \in Ids
      BY <1>1, <2>1, <3>1 DEF SyncsOK
    <3>3. QED
      BY <1>1, <1>4, <2>1, <3>1, <3>2 DEF FilledOK, At
  <2>2. QED
    BY <2>1 DEF FilledOK
<1>13. /\ \A i \in Manifest(s) : revision[r].items[i] = "active"
       /\ Manifest(s) \subseteq revision[r].identities
       /\ Manifest(s) \subseteq revision[r].shelves
  BY <1>1, <1>2, <1>3 DEF FilledOK, At, Identified
<1>14. PublishedComplete'
  BY <1>3, <1>4, <1>7, <1>13 DEF PublishedComplete, Manifest
<1>15. CarriedOK'
  <2>1. ASSUME ~overlapped PROVE Carried(r)
    BY <1>1, <1>2, <1>3, <2>1 DEF CarriedOK
  <2>2. ASSUME ~overlapped
        PROVE  \A i \in listed' : revision'[r].items[i] # "absent" /\ i \in revision'[r].identities
    BY <1>3, <1>4, <1>13, <2>1, <2>2 DEF Carried
  <2>3. \A t \in Syncs : ~At(t, "idle")' => ~At(t, "idle") /\ t # s
    BY <1>8 DEF At
  <2>4. ASSUME ~overlapped PROVE \A t \in Syncs : At(t, "idle")'
    BY <1>1, <1>2, <2>3, <2>4 DEF CarriedOK, At
  <2>5. ASSUME ~overlapped PROVE \A q \in Ids : Published(q)' => Carried(q)'
    BY <1>7, <2>2, <2>5 DEF Carried
  <2>6. QED
    BY <1>3, <1>4, <1>7, <2>4, <2>5 DEF CarriedOK, At
<1>16. QED
  BY <1>6, <1>10, <1>11, <1>12, <1>14, <1>15 DEF CatalogOK

LEMMA ResetStep ==
  ASSUME CatalogConstants, CatalogOK, NEW s \in Syncs, ResetCatalog(s)
  PROVE  CatalogOK'
<1>1. TypeOK /\ SyncsOK /\ CarriedOK
  BY DEF CatalogOK
<1>2. /\ At(s, "idle") /\ Advances(s, "find") /\ Meets(s) /\ listed' = {}
      /\ revision' \in [Ids -> Revisions]
      /\ \A r \in Ids : /\ revision'[r].status \in {"none", "deleted"}
                        /\ revision'[r].status = "none" => revision[r].status = "none"
  BY <1>1, ResetEffect
<1>3. /\ sync' \in [Syncs -> SyncStates] /\ sync'[s].step = "find"
      /\ \A t \in Syncs \ {s} : sync'[t] = sync[t]
  BY <1>2 DEF Advances, OnlyMoves
<1>4. TypeOK'
  BY <1>1, <1>2, <1>3, TypesFrom DEF Meets, TypeOK
<1>5. \A t \in Syncs : sync'[t].step \in Working => t # s /\ sync[t].revision \in Ids
  BY <1>1, <1>3 DEF SyncsOK, Working
<1>6. \A t \in Syncs : sync'[t].step \in Working => ~Staging(t)'
  BY <1>2, <1>3, <1>5 DEF Staging
<1>7. SyncsOK'
  <2>1. ASSUME NEW t \in Syncs, sync'[t].step \in Working
        PROVE  /\ sync'[t].revision \in Ids /\ sync'[t].edition \in Editions
               /\ revision'[sync'[t].revision].status # "none"
    BY <1>1, <1>2, <1>3, <1>5, <2>1 DEF SyncsOK
  <2>2. ASSUME NEW t \in Syncs, At(t, "create")' PROVE sync'[t].edition \in Editions
    BY <1>1, <1>3, <2>2 DEF SyncsOK, At
  <2>3. QED
    BY <1>6, <2>1, <2>2 DEF SyncsOK
<1>8. RevisionsOK' /\ PublishedComplete'
  BY <1>2 DEF RevisionsOK, PublishedComplete, Published
<1>9. FilledOK'
  BY <1>6 DEF FilledOK
<1>10. CarriedOK'
  <2>1. ASSUME ~overlapped'
        PROVE  \A t \in Syncs : t # s => At(t, "idle") /\ At(t, "idle")'
    <3>1. \A t \in Syncs \ {s} : At(t, "idle")
      BY <1>2, <2>1 DEF Meets
    <3>2. QED
      BY <1>3, <3>1 DEF At
  <2>2. \A r \in Ids : ~Published(r)'
    BY <1>2 DEF Published
  <2>3. ASSUME ~overlapped'
        PROVE  \A t \in Syncs : sync'[t].step \notin {"shelves", "publish"}
    BY <1>3, <2>1, <2>3 DEF At
  <2>4. QED
    BY <1>2, <2>1, <2>2, <2>3 DEF CarriedOK
<1>11. QED
  BY <1>4, <1>7, <1>8, <1>9, <1>10 DEF CatalogOK

LEMMA InitOK == ASSUME CatalogConstants, Init PROVE CatalogOK
<1>1. Unused \in Revisions /\ Unused.status = "none"
  BY DEF Unused, Revisions
<1>2. IdleSync \in SyncStates /\ IdleSync.step = "idle"
  BY DEF IdleSync, SyncStates, Steps, CatalogConstants
<1>3. /\ revision \in [Ids -> Revisions] /\ sync \in [Syncs -> SyncStates]
      /\ listed = {} /\ overlapped = FALSE
      /\ \A r \in Ids : revision[r].status = "none"
      /\ \A s \in Syncs : sync[s].step = "idle"
  BY <1>1, <1>2 DEF Init
<1>4. TypeOK
  BY <1>3 DEF TypeOK, Revisions, SyncStates
<1>5. SyncsOK /\ FilledOK
  BY <1>3 DEF SyncsOK, FilledOK, Working, At
<1>6. RevisionsOK /\ PublishedComplete
  BY <1>3 DEF RevisionsOK, PublishedComplete, Published
<1>7. CarriedOK
  BY <1>3 DEF CarriedOK, At, Published
<1>8. QED
  BY <1>4, <1>5, <1>6, <1>7 DEF CatalogOK

LEMMA CatalogStep == ASSUME CatalogConstants, CatalogOK, [Next]_vars PROVE CatalogOK'
<1>1. TypeOK /\ SyncsOK
  BY DEF CatalogOK
<1>2. ASSUME NEW s \in Syncs, NEW e \in Editions, FindRevision(s, e) PROVE CatalogOK'
  <2>1. /\ sync[s].step \in {"idle", "find"}
        /\ sync' \in [Syncs -> SyncStates] /\ OnlyMoves(s) /\ sync'[s].edition = e
        /\ \/ sync'[s].step = "create"
           \/ /\ sync'[s].step = "resolve" /\ sync'[s].revision \in Ids
              /\ revision[sync'[s].revision].source = e
              /\ revision[sync'[s].revision].status = "staging"
        /\ Meets(s) /\ UNCHANGED <<revision, listed>>
    BY <1>1, <1>2, FindEffect
  <2>2. sync'[s].step \in Working => sync'[s].step = "resolve"
    BY <2>1 DEF Working
  <2>3. QED
    BY <2>1, <2>2, MovesStep DEF At
<1>3. ASSUME NEW s \in Syncs, ResolveItems(s) PROVE CatalogOK'
  <2>1. Advances(s, "items") /\ sync[s].step = "resolve" /\ UNCHANGED <<revision, listed, overlapped>>
    BY <1>1, <1>3, GotoAdvances DEF ResolveItems, Steps, At
  <2>2. sync[s].step \in Working
    BY <2>1 DEF Working, Steps
  <2>3. QED
    BY <1>1, <2>1, <2>2, MovesStep DEF Advances, SyncsOK, Staging, At
<1>4. ASSUME NEW s \in Syncs, CollectionsStored(s) PROVE CatalogOK'
  <2>1. /\ Advances(s, "publish") /\ sync[s].step = "shelves"
        /\ Manifest(s) \subseteq revision[sync[s].revision].shelves
        /\ UNCHANGED <<revision, listed, overlapped>>
    BY <1>1, <1>4, GotoAdvances DEF CollectionsStored, Steps, At
  <2>2. sync[s].step \in Working
    BY <2>1 DEF Working, Steps
  <2>3. QED
    BY <1>1, <2>1, <2>2, MovesStep DEF Advances, SyncsOK, Staging, At
<1>5. ASSUME NEW s \in Syncs, AbortSync(s) PROVE CatalogOK'
  <2>1. /\ sync' \in [Syncs -> SyncStates] /\ OnlyMoves(s) /\ sync'[s].step = "idle"
        /\ UNCHANGED <<revision, listed, overlapped>>
    BY <1>1, <1>5, AbortEffect DEF At
  <2>2. sync'[s].step \notin Working
    BY <2>1 DEF Working
  <2>3. QED
    BY <2>1, <2>2, MovesStep DEF At
<1>6. ASSUME UNCHANGED vars PROVE CatalogOK'
  BY <1>6 DEF vars, CatalogOK, TypeOK, SyncsOK, RevisionsOK, FilledOK, PublishedComplete,
              CarriedOK, Carried, Staging, Manifest, Published, At
<1>7. QED
  BY <1>2, <1>3, <1>4, <1>5, <1>6, CreateStep, UpsertStep, IdentitiesStep, CarryStep, StoreStep,
     PublishStep, ResetStep DEF Next

(***************************************************************************)
(* The inductive invariant of the catalog: types, what each sync has       *)
(* stored, and what has been carried over.                                 *)
(***************************************************************************)
THEOREM CatalogInvariant == ASSUME CatalogConstants PROVE Spec => []CatalogOK
  BY InitOK, CatalogStep, PTL DEF Spec

(***************************************************************************)
(* Readers never see a half-filled catalog, not even when two syncs of one *)
(* edition share its staging revision (publishRevision).                   *)
(***************************************************************************)
THEOREM PublishedIsComplete ==
  ASSUME CatalogConstants PROVE Spec => []PublishedComplete
<1>1. CatalogOK => PublishedComplete
  BY DEF CatalogOK
<1>2. QED
  BY <1>1, CatalogInvariant, PTL

(***************************************************************************)
(* What was ever published stays known, as long as no two syncs ran        *)
(* together (carryPublishedItemsAsInactive).                               *)
(***************************************************************************)
THEOREM ListedIsKept == ASSUME CatalogConstants PROVE Spec => []NothingForgotten
<1>1. CatalogOK => NothingForgotten
  BY DEF CatalogOK, CarriedOK, Carried, NothingForgotten
<1>2. QED
  BY <1>1, CatalogInvariant, PTL

-----------------------------------------------------------------------------
\* The summaries of works in lists (MediaSummaries).
CONSTANTS Ref, Batch, Concurrency, Ttl, Stale, MaxVersion, MaxTime, MaxAsks
VARIABLES clock, source, published, summary, flight, batch, asks

Summaries == INSTANCE MediaSummaries WITH cache <- summary

\* What is cached was known, and what a load has read is no older than that.
SummariesOK ==
  /\ source \in [Ref -> Nat]
  /\ summary = [m \in Ref |-> summary[m]] /\ flight = [m \in Ref |-> flight[m]]
  /\ \A m \in Ref :
       /\ flight[m] = [on |-> flight[m].on, at |-> flight[m].at, cached |-> flight[m].cached,
                       read |-> flight[m].read]
       /\ flight[m].read \in Int
       /\ summary[m].version \in Nat /\ summary[m].version <= source[m]
       /\ flight[m].on /\ flight[m].read > 0 =>
            summary[m].version <= flight[m].read /\ flight[m].read <= source[m]

\* A load that is over.
LEMMA GroundedLoad ==
  LET f == Summaries!Grounded
  IN  /\ f = [on |-> f.on, at |-> f.at, cached |-> f.cached, read |-> f.read]
      /\ f.on = FALSE /\ f.read \in Int
<1> DEFINE none == Summaries!Nothing
<1> HIDE DEF none
<1>1. Summaries!Grounded = [on |-> FALSE, at |-> 0, cached |-> none, read |-> 0]
  BY DEF Summaries!Grounded, none
<1>2. QED
  BY <1>1

LEMMA SummariesInit == ASSUME Summaries!Init PROVE SummariesOK
<1>1. Summaries!Nothing.version = 0
  BY DEF Summaries!Nothing
<1>2. /\ \A m \in Ref : summary[m] = Summaries!Nothing /\ flight[m] = Summaries!Grounded
      /\ summary = [m \in Ref |-> summary[m]] /\ flight = [m \in Ref |-> flight[m]]
      /\ source \in [Ref -> Nat]
  BY DEF Summaries!Init
<1>3. QED
  BY <1>1, <1>2, GroundedLoad DEF SummariesOK

\* Only an answer changes what is cached, to what its load has read.
Older(m) == summary'[m].version >= summary[m].version

\* A load that goes on or is over without an answer.
LEMMA LoadStep ==
  ASSUME SummariesOK, UNCHANGED <<source, summary>>, NEW m \in Ref, NEW load,
         flight' = [flight EXCEPT ![m] = load],
         load = [on |-> load.on, at |-> load.at, cached |-> load.cached, read |-> load.read],
         load.read \in Int,
         load.on /\ load.read > 0 =>
           summary[m].version <= load.read /\ load.read <= source[m]
  PROVE  SummariesOK' /\ \A n \in Ref : Older(n)
<1>1. /\ flight' = [n \in Ref |-> flight'[n]]
      /\ \A n \in Ref : flight'[n] = IF n = m THEN load ELSE flight[n]
  BY DEF SummariesOK
<1>2. \A n \in Ref : Older(n)
  BY DEF SummariesOK, Older
<1>3. ASSUME NEW n \in Ref
      PROVE /\ flight'[n] = [on |-> flight'[n].on, at |-> flight'[n].at,
                             cached |-> flight'[n].cached, read |-> flight'[n].read]
            /\ flight'[n].read \in Int
            /\ flight'[n].on /\ flight'[n].read > 0 =>
                 summary[n].version <= flight'[n].read /\ flight'[n].read <= source[n]
  <2>1. CASE n = m
    BY <1>1, <2>1
  <2>2. CASE n # m
    BY <1>1, <2>2 DEF SummariesOK
  <2>3. QED
    BY <2>1, <2>2
<1>4. QED
  BY <1>1, <1>2, <1>3 DEF SummariesOK

LEMMA SummariesNext ==
  ASSUME SummariesOK, [Summaries!Next]_(Summaries!vars)
  PROVE  SummariesOK' /\ \A m \in Ref : Older(m)
<1>1. ASSUME NEW m \in Ref, Summaries!SourceChanges(m)
      PROVE  SummariesOK' /\ \A n \in Ref : Older(n)
  BY <1>1 DEF SummariesOK, Summaries!SourceChanges, Older
<1>2. ASSUME NEW m \in Ref, Summaries!ProviderReads(m)
      PROVE  SummariesOK' /\ \A n \in Ref : Older(n)
  <2>1. PICK read \in {source[m], 0} : flight' = [flight EXCEPT ![m].read = read]
    BY <1>2 DEF Summaries!ProviderReads
  <2>2. read \in Nat /\ read <= source[m] /\ (read > 0 => summary[m].version <= read)
    BY DEF SummariesOK
  <2> DEFINE load == [on |-> flight[m].on, at |-> flight[m].at, cached |-> flight[m].cached,
                      read |-> read]
  <2>3. flight' = [flight EXCEPT ![m] = load]
    <3> DEFINE was == flight[m]
               up == flight[m].on
               at == flight[m].at
               entry == flight[m].cached
               old == flight[m].read
    <3>1. was = [on |-> up, at |-> at, cached |-> entry, read |-> old]
      BY DEF SummariesOK
    <3>2. flight' = [flight EXCEPT ![m] = [was EXCEPT !.read = read]]
      BY <2>1
    <3>3. load = [on |-> up, at |-> at, cached |-> entry, read |-> read]
      OBVIOUS
    <3> HIDE DEF was, up, at, entry, old, load
    <3>4. [was EXCEPT !.read = read] = load
      BY <3>1, <3>3
    <3>5. QED
      BY <3>2, <3>4
  <2>4. /\ load = [on |-> load.on, at |-> load.at, cached |-> load.cached, read |-> load.read]
        /\ load.read = read
    OBVIOUS
  <2>5. UNCHANGED <<source, summary>>
    BY <1>2 DEF Summaries!ProviderReads
  <2> HIDE DEF load
  <2>6. /\ load.read \in Int
        /\ load.read > 0 => summary[m].version <= load.read /\ load.read <= source[m]
    BY <2>2, <2>4
  <2>7. QED
    BY <2>3, <2>4, <2>5, <2>6, LoadStep
<1>3. ASSUME NEW m \in Ref, Summaries!Answered(m)
      PROVE  SummariesOK' /\ \A n \in Ref : Older(n)
  <2> DEFINE entry == [version |-> flight[m].read, at |-> flight[m].at]
  <2>1. /\ summary' = [summary EXCEPT ![m] = entry]
        /\ flight' = [flight EXCEPT ![m] = Summaries!Grounded] /\ UNCHANGED source
        /\ flight[m].on /\ flight[m].read > 0
    BY <1>3 DEF Summaries!Answered
  <2>2. entry.version = flight[m].read /\ flight[m].read \in Nat
    BY <2>1 DEF SummariesOK
  <2> HIDE DEF entry
  <2>3. /\ flight' = [n \in Ref |-> flight'[n]] /\ summary' = [n \in Ref |-> summary'[n]]
        /\ \A n \in Ref \ {m} : flight'[n] = flight[n] /\ summary'[n] = summary[n]
        /\ flight'[m] = Summaries!Grounded /\ summary'[m] = entry
    BY <2>1 DEF SummariesOK
  <2>4. summary[m].version <= entry.version /\ entry.version <= source[m]
    BY <2>1, <2>2 DEF SummariesOK
  <2>5. QED
    BY <2>1, <2>2, <2>3, <2>4, GroundedLoad DEF SummariesOK, Older
<1>4. ASSUME NEW m \in Ref,
             Summaries!AnsweredEmpty(m) \/ Summaries!ProvidersDown(m) \/ Summaries!LoadFails(m)
      PROVE  SummariesOK' /\ \A n \in Ref : Older(n)
  <2>1. flight' = [flight EXCEPT ![m] = Summaries!Grounded] /\ UNCHANGED <<source, summary>>
    BY <1>4 DEF Summaries!AnsweredEmpty, Summaries!ProvidersDown, Summaries!LoadFails
  <2>2. QED
    BY <2>1, GroundedLoad, LoadStep
<1>5. ASSUME NEW b, NEW m \in Ref, Summaries!Misses(b, m)
      PROVE  SummariesOK' /\ \A n \in Ref : Older(n)
  <2> DEFINE load == [on |-> TRUE, at |-> clock, cached |-> summary[m], read |-> -1]
  <2>1. flight' = [flight EXCEPT ![m] = load] /\ UNCHANGED <<source, summary>>
    BY <1>5 DEF Summaries!Misses
  <2>2. /\ load = [on |-> load.on, at |-> load.at, cached |-> load.cached, read |-> load.read]
        /\ load.read \in Int /\ ~(load.read > 0)
    OBVIOUS
  <2> HIDE DEF load
  <2>3. QED
    BY <2>1, <2>2, LoadStep
<1>6. ASSUME UNCHANGED <<source, summary, flight>>
      PROVE  SummariesOK' /\ \A n \in Ref : Older(n)
  BY <1>6 DEF SummariesOK, Older
<1>7. CASE Summaries!Tick \/ UNCHANGED Summaries!vars
  BY <1>6, <1>7 DEF Summaries!Tick, Summaries!vars
<1>8. ASSUME NEW b, NEW m,
             (\E refs : Summaries!ResolveRequestedRefs(b, refs))
               \/ Summaries!Joins(b, m) \/ Summaries!Hits(b, m) \/ Summaries!Replies(b)
      PROVE  SummariesOK' /\ \A n \in Ref : Older(n)
  BY <1>6, <1>8 DEF Summaries!ResolveRequestedRefs, Summaries!Joins, Summaries!Hits,
                    Summaries!Replies
<1>9. QED
  BY <1>1, <1>2, <1>3, <1>4, <1>5, <1>7, <1>8 DEF Summaries!Next

(***************************************************************************)
(* What is known of a reference never goes back: a slow answer that was    *)
(* read before a newer one does not replace it (resolveFallback).          *)
(***************************************************************************)
THEOREM SummariesGoForward == Summaries!Spec => Summaries!CacheNeverGoesBack
<1>1. SummariesOK /\ [Summaries!Next]_(Summaries!vars)
        => [\A m \in Ref : summary'[m].version >= summary[m].version]_(Summaries!vars)
  BY SummariesNext DEF Older
<1>2. QED
  BY <1>1, SummariesInit, SummariesNext, PTL DEF Summaries!Spec, Summaries!CacheNeverGoesBack

-----------------------------------------------------------------------------
\* The sources of a work, as its providers answer (AvailabilityStream).
CONSTANTS Provider, MaxLoads
VARIABLES data, stream, waiting, watched, loads

Available == INSTANCE AvailabilityStream

Sources == [Provider -> Int]
Loaded == [present : BOOLEAN, until : Sources, settled : BOOLEAN, degraded : BOOLEAN,
           expired : BOOLEAN]
Streams == [open : BOOLEAN, again : BOOLEAN, until : Sources, asked : SUBSET Provider,
            failed : SUBSET Provider, expired : BOOLEAN]

\* What this load has brought lasts as long as what is shown, which nothing outlasts.
AvailabilityOK ==
  /\ clock \in Nat /\ data \in Loaded /\ stream \in Streams
  /\ \A p \in Provider :
       /\ data.until[p] <= clock + Ttl
       /\ ~data.present => data.until[p] = 0
       /\ stream.until[p] # 0 =>
            data.until[p] <= stream.until[p] /\ stream.until[p] <= clock + Ttl

LEMMA AvailabilityInit == ASSUME Ttl \in Nat, Available!Init PROVE AvailabilityOK
  BY DEF Available!Init, AvailabilityOK, Loaded, Streams, Sources, Available!NoData,
         Available!NoStream, Available!NoSources

Kept == Available!NothingUsableLost
LEMMA SameIsKept == ASSUME AvailabilityOK, data'.until = data.until, clock' = clock PROVE Kept
  BY DEF Kept, Available!NothingUsableLost, Available!Usable

\* A load begins, ends early, or is given up.
LEMMA StreamStep ==
  ASSUME Ttl \in Nat, AvailabilityOK, UNCHANGED <<clock, data>>, stream' \in Streams,
         stream'.until = stream.until \/ stream'.until = Available!NoSources
  PROVE  AvailabilityOK' /\ Kept
  BY SameIsKept DEF AvailabilityOK, Available!NoSources

LEMMA OpenEffect ==
  ASSUME NEW again \in BOOLEAN, Available!Open(again)
  PROVE  stream' \in Streams /\ stream'.until = Available!NoSources
<1>1. stream' = [open |-> TRUE, again |-> again, until |-> Available!NoSources, asked |-> {},
                 failed |-> {}, expired |-> FALSE]
  BY DEF Available!Open, Available!NoStream
<1>2. QED
  BY <1>1 DEF Streams, Sources, Available!NoSources

LEMMA NoStreamTyped ==
  Available!NoStream \in Streams /\ Available!NoStream.until = Available!NoSources
  BY DEF Available!NoStream, Streams, Sources, Available!NoSources

LEMMA ProgressStep ==
  ASSUME Ttl \in Nat, AvailabilityOK, Available!Progress PROVE AvailabilityOK' /\ Kept
<1>1. PICK p \in Provider, kind \in {"source", "nothing", "expired", "fails"} :
        Available!ProviderAnswers(p, kind)
  BY DEF Available!Progress
<1> DEFINE lasts == IF kind = "source" THEN clock + Ttl ELSE 0
           out == IF kind = "fails" THEN stream.failed \cup {p} ELSE stream.failed
           late == stream.expired \/ kind = "expired"
           until == [stream.until EXCEPT ![p] = lasts]
<1>2. stream' = [open |-> stream.open, again |-> stream.again, until |-> until,
                 asked |-> stream.asked \cup {p}, failed |-> out, expired |-> late]
  <2>1. stream' = [stream EXCEPT !.asked = @ \cup {p}, !.until[p] = lasts, !.expired = late,
        !.failed = out]
    BY <1>1 DEF Available!ProviderAnswers
  <2> HIDE DEF lasts, late, out
  <2>2. QED
    BY <2>1 DEF AvailabilityOK, Streams
<1>3. until \in Sources /\ until[p] = lasts /\ lasts \in Int /\ lasts <= clock + Ttl
      /\ \A q \in Provider \ {p} : until[q] = stream.until[q]
  BY DEF AvailabilityOK, Streams, Sources
<1>4. lasts # 0 => lasts = clock + Ttl
  OBVIOUS
<1>5. out \in SUBSET Provider /\ late \in BOOLEAN
  BY DEF AvailabilityOK, Streams
<1> HIDE DEF lasts, out, late, until
<1>6. stream' \in Streams /\ stream'.until = until
  BY <1>2, <1>3, <1>5 DEF AvailabilityOK, Streams
<1>7. \A q \in Provider : until[q] # 0 => data.until[q] <= until[q] /\ until[q] <= clock + Ttl
  <2>1. ASSUME NEW q \in Provider, until[q] # 0
        PROVE  data.until[q] <= until[q] /\ until[q] <= clock + Ttl
    BY <1>3, <1>4, <2>1 DEF AvailabilityOK, Streams, Loaded, Sources
  <2>2. QED
    BY <2>1
<1>8. clock' = clock /\ (data' = data \/ data' = Available!Merged(stream'))
  BY DEF Available!Progress
<1>9. CASE data' = data
  BY <1>6, <1>7, <1>8, <1>9, SameIsKept DEF AvailabilityOK
<1>10. CASE data' = Available!Merged(stream')
  <2> DEFINE shown == [q \in Provider |-> IF until[q] # 0 THEN until[q] ELSE data.until[q]]
             old == data.expired \/ stream'.expired
  <2>1. data' = [present |-> TRUE, settled |-> FALSE, degraded |-> FALSE,
                 until |-> shown, expired |-> old]
    BY <1>6, <1>10 DEF Available!Merged
  <2>2. old \in BOOLEAN /\ shown \in Sources
    BY <1>3, <1>6 DEF AvailabilityOK, Streams, Loaded, Sources
  <2>3. \A q \in Provider : /\ data.until[q] <= shown[q] /\ shown[q] <= clock + Ttl
                            /\ until[q] # 0 => shown[q] = until[q]
    BY <1>3, <1>7 DEF AvailabilityOK, Loaded, Sources
  <2> HIDE DEF shown, old
  <2>4. data' \in Loaded /\ data'.until = shown /\ data'.present
    BY <2>1, <2>2 DEF Loaded
  <2>5. AvailabilityOK'
    BY <1>3, <1>6, <1>7, <1>8, <2>2, <2>3, <2>4 DEF AvailabilityOK, Sources
  <2>6. Kept
    BY <1>8, <2>2, <2>3, <2>4 DEF Kept, Available!NothingUsableLost, Available!Usable,
       AvailabilityOK, Loaded, Sources
  <2>7. QED
    BY <2>5, <2>6
<1>11. QED
  BY <1>8, <1>9, <1>10

\* The instance counts as this module does.
LEMMA SameCardinality == \A S : Available!Cardinality(S) = Cardinality(S)
  BY Zenon DEF Available!Cardinality, Cardinality

LEMMA CompleteStep ==
  ASSUME Ttl \in Nat, IsFiniteSet(Provider), AvailabilityOK, Available!Complete
  PROVE  AvailabilityOK' /\ Kept
<1>1. /\ stream.asked = Provider /\ stream' = Available!NoStream /\ clock' = clock
      /\ stream' \in Streams /\ stream'.until = Available!NoSources
  BY NoStreamTyped DEF Available!Complete
<1>2. \A q \in Provider : stream'.until[q] = 0
  BY <1>1 DEF Available!NoSources
<1>3. CASE Available!KeepsCurrent
  <2>1. data' = [data EXCEPT !.settled = TRUE]
    BY <1>3 DEF Available!Complete
  <2>2. data' \in Loaded /\ data'.until = data.until /\ data'.present = data.present
    BY <2>1 DEF AvailabilityOK, Loaded
  <2>3. QED
    BY <1>1, <1>2, <2>2, SameIsKept DEF AvailabilityOK
<1>4. CASE ~Available!KeepsCurrent
  <2>1. data' = Available!Answer
    BY <1>4 DEF Available!Complete
  <2> DEFINE worse == stream.failed # {}
  <2>2. data' = [present |-> TRUE, settled |-> TRUE, until |-> stream.until,
                 degraded |-> worse, expired |-> stream.expired]
    BY <2>1 DEF Available!Answer
  <2>3. worse \in BOOLEAN
    OBVIOUS
  <2> HIDE DEF worse
  <2>4. data' \in Loaded /\ data'.until = stream.until /\ data'.present /\ data'.settled
    BY <2>2, <2>3 DEF AvailabilityOK, Loaded, Streams
  <2>5. AvailabilityOK'
    BY <1>1, <1>2, <2>4 DEF AvailabilityOK, Streams, Sources
  <2>6. Kept
    <3> DEFINE before == Cardinality(Available!Has(data))
               after == Cardinality(Available!Has(Available!Answer))
    <3>1. Available!Usable(data) # {} => data.present
      BY DEF AvailabilityOK, Available!Usable
    <3>2. Available!Answer.degraded = (stream.failed # {})
      BY DEF Available!Answer
    <3>3. /\ data.present
          /\ stream.failed # {} /\ ~Available!SomeExpired(data)
          => ~(after < before)
      <4> HIDE DEF before, after
      <4>1. \/ ~data.present \/ ~Available!Answer.degraded \/ Available!SomeExpired(data)
            \/ ~(after < before)
        BY <1>4, SameCardinality DEF Available!KeepsCurrent, before, after
      <4>2. QED
        BY <3>2, <4>1
    <3>4. before \in Nat /\ after \in Nat
      <4>1. Available!Has(data) \subseteq Provider
        BY DEF Available!Has
      <4>2. Available!Has(Available!Answer) \subseteq Provider
        BY DEF Available!Has
      <4>3. QED
        BY <4>1, <4>2, FS_Subset, FS_CardinalityType
    <3>5. ~(after < before) => after >= before
      <4> HIDE DEF before, after
      <4>1. QED
        BY <3>4
    <3>6. Available!Has(data)' = Available!Has(Available!Answer)
      BY <2>1 DEF Available!Has
    <3> HIDE DEF before, after
    <3>7. Cardinality(Available!Has(data)') = after
      BY <3>6 DEF after
    <3>8. ASSUME Available!Usable(data) # {}
          PROVE  \/ stream.failed = {} \/ Available!SomeExpired(data)
                 \/ Cardinality(Available!Has(data)') >= Cardinality(Available!Has(data))
      <4>1. after >= before \/ stream.failed = {} \/ Available!SomeExpired(data)
        BY <3>1, <3>3, <3>5, <3>8
      <4>2. QED
        BY <3>7, <4>1 DEF before
    <3>9. Available!Usable(data) \ Available!Usable(data)' # {} => Available!Usable(data) # {}
      OBVIOUS
    <3>10. QED
      BY <1>1, <2>4, <3>8, <3>9, SameCardinality DEF Kept, Available!NothingUsableLost
  <2>7. QED
    BY <2>5, <2>6
<1>5. QED
  BY <1>3, <1>4

LEMMA AvailabilityNext ==
  ASSUME Ttl \in Nat, IsFiniteSet(Provider), AvailabilityOK,
         [Available!Next]_(Available!vars)
  PROVE  AvailabilityOK' /\ Kept
<1>1. CASE Available!Watch \/ Available!Refresh \/ Available!Fetch \/ Available!Again
  <2>1. UNCHANGED <<clock, data>>
    BY <1>1 DEF Available!Watch, Available!Refresh, Available!Fetch, Available!Again
  <2>2. stream' = stream \/ Available!Open(TRUE) \/ Available!Open(FALSE)
    BY <1>1 DEF Available!Watch, Available!Refresh, Available!Fetch, Available!Again
  <2>3. /\ stream' \in Streams
        /\ stream'.until = stream.until \/ stream'.until = Available!NoSources
    BY <2>2, OpenEffect DEF AvailabilityOK
  <2>4. QED
    BY <2>1, <2>3, StreamStep
<1>2. CASE Available!Leave \/ Available!Fails
  BY <1>2, StreamStep, NoStreamTyped DEF Available!Leave, Available!Fails
<1>3. CASE Available!Tick
  <2>1. clock' = clock + 1 /\ UNCHANGED <<data, stream>>
    BY <1>3 DEF Available!Tick
  <2>2. AvailabilityOK'
    BY <2>1 DEF AvailabilityOK, Loaded, Streams, Sources
  <2>3. Kept
    BY <2>1 DEF Kept, Available!NothingUsableLost, AvailabilityOK
  <2>4. QED
    BY <2>2, <2>3
<1>4. CASE UNCHANGED Available!vars
  BY <1>4, SameIsKept DEF Available!vars, AvailabilityOK
<1>5. QED
  BY <1>1, <1>2, <1>3, <1>4, ProgressStep, CompleteStep DEF Available!Next

(***************************************************************************)
(* Loading the sources of a work again loses none that can be used, unless *)
(* a complete answer replaces them (mergeProgressiveAvailability,          *)
(* selectSettledAvailability).                                             *)
(***************************************************************************)
THEOREM UsableAreKept ==
  ASSUME Ttl \in Nat, IsFiniteSet(Provider)
  PROVE  Available!Spec => [][Available!NothingUsableLost]_(Available!vars)
<1>1. AvailabilityOK /\ [Available!Next]_(Available!vars)
        => AvailabilityOK' /\ [Available!NothingUsableLost]_(Available!vars)
  BY AvailabilityNext DEF Kept
<1>2. QED
  BY <1>1, AvailabilityInit, PTL DEF Available!Spec

-----------------------------------------------------------------------------
\* The rating of a work, in two places of its page (Ratings).
CONSTANTS Widgets, Values, MaxChanges, MaxLosses
VARIABLES row, rated, fetch, broken, widget, changes, losses

Rating == INSTANCE Ratings WITH
  cache <- rated, failed <- broken, faults <- losses, MaxFaults <- MaxLosses

\* What the server would answer, and the steps of a change after which all is loaded again.
Stored(k) == IF k = "rating" THEN row ELSE Rating!Summary
Reloads == {"cancelling", "sent", "conflict", "done", "refused", "settling"}

\* What the page has is right, or is about to be loaded again.
Covered(k) ==
  \/ \E w \in Widgets : widget[w].step \in Reloads
  \/ fetch[k].step = "asked"
  \/ fetch[k].step = "read" /\ fetch[k].value = Stored(k)
  \/ fetch[k] = Rating!Quiet /\ (broken[k] \/ rated[k] \in {Rating!Unloaded, <<Stored(k)>>})
RatingOK ==
  /\ DOMAIN widget = Widgets /\ widget = [w \in Widgets |-> widget[w]]
  /\ \A w \in Widgets :
       /\ "step" \in DOMAIN widget[w]
       /\ widget[w] = [x \in DOMAIN widget[w] |-> widget[w][x]]
  /\ DOMAIN fetch = Rating!Keys /\ fetch = [k \in Rating!Keys |-> fetch[k]]
  /\ DOMAIN rated = Rating!Keys /\ rated = [k \in Rating!Keys |-> rated[k]]
  /\ broken \in [Rating!Keys -> BOOLEAN]
  /\ \A k \in Rating!Keys : Covered(k)

LEMMA RatingInit == ASSUME Rating!Init PROVE RatingOK
<1>1. \A w \in Widgets : widget[w] = Rating!Idle /\ "step" \in DOMAIN widget[w]
       /\ widget[w] = [x \in DOMAIN widget[w] |-> widget[w][x]]
  BY DEF Rating!Init, Rating!Idle
<1>2. \A k \in Rating!Keys : fetch[k] = Rating!Quiet /\ rated[k] = Rating!Unloaded
  BY DEF Rating!Init
<1>3. QED
  BY <1>1, <1>2 DEF Rating!Init, RatingOK, Covered

LEMMA RatingNext == ASSUME RatingOK, [Rating!Next]_(Rating!vars) PROVE RatingOK'
<1>1. ASSUME NEW k \in Rating!Keys, Rating!Load(k) PROVE RatingOK'
  BY <1>1 DEF RatingOK, Covered, Rating!Load, Stored, Rating!Summary
<1>2. ASSUME NEW k \in Rating!Keys, Rating!Serve(k) PROVE RatingOK'
  BY <1>2 DEF RatingOK, Covered, Rating!Serve, Stored, Rating!Summary
<1>3. ASSUME NEW k \in Rating!Keys, Rating!Loaded(k) PROVE RatingOK'
  <2>1. /\ rated' = [rated EXCEPT ![k] = <<fetch[k].value>>]
        /\ fetch' = [fetch EXCEPT ![k] = Rating!Quiet] /\ broken' = [broken EXCEPT ![k] = FALSE]
        /\ UNCHANGED <<row, widget>> /\ fetch[k].step = "read"
    BY <1>3 DEF Rating!Loaded
  <2>2. /\ DOMAIN rated' = Rating!Keys /\ rated' = [j \in Rating!Keys |-> rated'[j]]
        /\ DOMAIN fetch' = Rating!Keys /\ fetch' = [j \in Rating!Keys |-> fetch'[j]]
        /\ broken' \in [Rating!Keys -> BOOLEAN]
    BY <2>1 DEF RatingOK
  <2>3. \A j \in Rating!Keys : Stored(j)' = Stored(j)
    BY <2>1 DEF Stored, Rating!Summary
  <2>4. Covered(k)'
    <3>1. rated'[k] = <<fetch[k].value>> /\ fetch'[k] = Rating!Quiet
      BY <2>1 DEF RatingOK
    <3>2. Covered(k) /\ fetch[k] # Rating!Quiet
      BY <2>1 DEF RatingOK, Rating!Quiet
    <3>3. QED
      BY <2>1, <2>3, <3>1, <3>2 DEF Covered
  <2>5. ASSUME NEW j \in Rating!Keys, j # k PROVE Covered(j)'
    BY <2>1, <2>3, <2>5 DEF RatingOK, Covered
  <2>6. QED
    BY <2>1, <2>2, <2>4, <2>5 DEF RatingOK
<1>4. ASSUME NEW k \in Rating!Keys, Rating!LoadFails(k) PROVE RatingOK'
  <2>1. /\ fetch' = [fetch EXCEPT ![k] = Rating!Quiet] /\ broken' = [broken EXCEPT ![k] = TRUE]
        /\ UNCHANGED <<row, rated, widget>>
    BY <1>4 DEF Rating!LoadFails
  <2>2. /\ DOMAIN fetch' = Rating!Keys /\ fetch' = [j \in Rating!Keys |-> fetch'[j]]
        /\ broken' \in [Rating!Keys -> BOOLEAN]
    BY <2>1 DEF RatingOK
  <2>3. \A j \in Rating!Keys : Stored(j)' = Stored(j)
    BY <2>1 DEF Stored, Rating!Summary
  <2>4. Covered(k)'
    BY <2>1 DEF RatingOK, Covered
  <2>5. ASSUME NEW j \in Rating!Keys, j # k PROVE Covered(j)'
    BY <2>1, <2>3, <2>5 DEF RatingOK, Covered
  <2>6. QED
    BY <2>1, <2>2, <2>4, <2>5 DEF RatingOK
<1>5. ASSUME NEW w \in Widgets, NEW v, Rating!Choose(w, v) PROVE RatingOK'
  BY <1>5 DEF RatingOK, Covered, Rating!Choose, Reloads
<1>6. ASSUME NEW w \in Widgets, Rating!Apply(w) PROVE RatingOK'
  <2>1. PICK state : /\ widget' = [widget EXCEPT ![w] = state] /\ state.step = "sent"
                     /\ "step" \in DOMAIN state /\ state = [x \in DOMAIN state |-> state[x]]
    <3> DEFINE state == [step |-> "sent", value |-> widget[w].value, snapshot |-> rated]
    <3>1. widget' = [widget EXCEPT ![w] = state]
      BY <1>6 DEF Rating!Apply
    <3>2. state.step = "sent" /\ "step" \in DOMAIN state /\ state = [x \in DOMAIN state |-> state[x]]
      OBVIOUS
    <3>3. QED
      BY <3>1, <3>2
  <2>2. /\ DOMAIN widget' = Widgets /\ widget' = [x \in Widgets |-> widget'[x]]
        /\ widget'[w].step \in Reloads
        /\ \A v \in Widgets :
             /\ "step" \in DOMAIN widget'[v]
             /\ widget'[v] = [x \in DOMAIN widget'[v] |-> widget'[v][x]]
    BY <2>1 DEF RatingOK, Reloads
  <2>3. /\ DOMAIN rated' = Rating!Keys /\ rated' = [k \in Rating!Keys |-> rated'[k]]
        /\ broken' \in [Rating!Keys -> BOOLEAN] /\ fetch' = fetch
    BY <1>6 DEF Rating!Apply, RatingOK
  <2>4. QED
    BY <2>2, <2>3 DEF RatingOK, Covered
<1>7. ASSUME NEW w \in Widgets, Rating!Insert(w) \/ Rating!Update(w) \/ Rating!Delete(w) PROVE RatingOK'
  BY <1>7 DEF RatingOK, Covered, Rating!Insert, Rating!Update, Rating!Delete, Reloads
<1>8. ASSUME NEW w \in Widgets, Rating!Answered(w) \/ Rating!Fails(w) PROVE RatingOK'
  <2> DEFINE state == [step |-> "settling"]
  <2>1. /\ widget' = [widget EXCEPT ![w] = state] /\ state.step = "settling"
        /\ "step" \in DOMAIN state /\ state = [x \in DOMAIN state |-> state[x]]
    BY <1>8 DEF Rating!Answered, Rating!Fails
  <2> HIDE DEF state
  <2>2. /\ DOMAIN widget' = Widgets /\ widget' = [x \in Widgets |-> widget'[x]]
        /\ widget'[w].step \in Reloads
        /\ \A v \in Widgets :
             /\ "step" \in DOMAIN widget'[v]
             /\ widget'[v] = [x \in DOMAIN widget'[v] |-> widget'[v][x]]
    BY <2>1 DEF RatingOK, Reloads
  <2>3. /\ DOMAIN rated' = Rating!Keys /\ rated' = [k \in Rating!Keys |-> rated'[k]]
        /\ broken' \in [Rating!Keys -> BOOLEAN] /\ fetch' = fetch
    <3>1. CASE Rating!Answered(w)
      BY <3>1 DEF Rating!Answered, RatingOK
    <3>2. CASE Rating!Fails(w)
      BY <3>2 DEF Rating!Fails, RatingOK
    <3>3. QED
      BY <1>8, <3>1, <3>2
  <2>4. QED
    BY <2>2, <2>3 DEF RatingOK, Covered
<1>9. ASSUME NEW w \in Widgets, Rating!Settled(w) PROVE RatingOK'
  BY <1>9 DEF RatingOK, Covered, Rating!Settled, Rating!Invalidated, Rating!Ask
<1>10. ASSUME NEW w \in Widgets, Rating!Over(w) PROVE RatingOK'
  BY <1>10 DEF RatingOK, Covered, Rating!Over, Reloads, Stored, Rating!Summary, Rating!Idle
<1>11. ASSUME UNCHANGED Rating!vars PROVE RatingOK'
  BY <1>11 DEF Rating!vars, RatingOK, Covered, Stored, Rating!Summary
<1>12. QED
  BY <1>1, <1>2, <1>3, <1>4, <1>5, <1>6, <1>7, <1>8, <1>9, <1>10, <1>11 DEF Rating!Next

(***************************************************************************)
(* Once nothing is under way the page shows the rating and the summary     *)
(* that the server has, whatever two places of it changed at once.         *)
(***************************************************************************)
THEOREM RatingIsStored == ASSUME Widgets # {} PROVE Rating!Spec => []Rating!RatingSettles
<1>1. RatingOK => Rating!RatingSettles
  <2> SUFFICES ASSUME RatingOK, Rating!AtRest PROVE
        /\ rated["rating"] \in {Rating!Unloaded, <<row>>}
        /\ rated["summary"] \in {Rating!Unloaded, <<Rating!Summary>>}
    BY DEF Rating!RatingSettles
  <2>1. /\ \A k \in Rating!Keys : fetch[k] = Rating!Quiet /\ ~broken[k]
        /\ \A w \in Widgets : widget[w] = Rating!Idle
    BY DEF Rating!AtRest, Rating!Keys
  <2>2. \A k \in Rating!Keys : rated[k] \in {Rating!Unloaded, <<Stored(k)>>}
    <3>1. \A w \in Widgets : widget[w].step \notin Reloads
      BY <2>1 DEF Rating!Idle, Reloads
    <3>2. \A k \in Rating!Keys : fetch[k].step \notin {"asked", "read"}
      BY <2>1 DEF Rating!Quiet
    <3>3. QED
      BY <2>1, <3>1, <3>2 DEF RatingOK, Covered
  <2>3. QED
    BY <2>2 DEF Rating!Keys, Stored
<1>2. QED
  BY <1>1, RatingInit, RatingNext, PTL DEF Rating!Spec

-----------------------------------------------------------------------------
\* The favourites of a user, by account and for a guest (Favorites).
CONSTANTS User, Media, MaxActs, MaxFaults
VARIABLES auth, guest, cache, get, flying, updating, failed, attempt, server, choice, skipped,
          acts, faults

Favs == INSTANCE Favorites

\* What is in flight has the fields of a mutation, whatever number it goes by.
Whole(mu) ==
  mu = [id |-> mu.id, user |-> mu.user, add |-> mu.add, refs |-> mu.refs, origin |-> mu.origin,
        before |-> mu.before, step |-> mu.step, result |-> mu.result]
SentChanges ==
  \A mu \in flying :
    /\ Whole(mu)
    /\ mu.user \in User /\ mu.add \in BOOLEAN /\ mu.refs \subseteq Media
HeldLists ==
  /\ server \in [User -> SUBSET Media]
  /\ cache = [loaded |-> cache.loaded, stale |-> cache.stale, refs |-> cache.refs]
  /\ cache.loaded \in BOOLEAN /\ cache.stale \in BOOLEAN
  /\ get = [step |-> get.step, refs |-> get.refs]
  /\ choice \in [Media -> {"none", "add", "remove"}] /\ skipped \in BOOLEAN
  /\ guest \subseteq Media
  /\ failed.add \in BOOLEAN /\ failed.refs \subseteq Media
  /\ failed # Favs!NoMutation => failed.user \in User

\* With no change of the user in flight, what is shown or about to be is what is stored.
ListIsStored ==
  Favs!SignedIn /\ Favs!Own = {} /\ ~cache.stale /\ ~skipped =>
    /\ get.step = "read" => get.refs = server[auth]
    /\ get = Favs!NoGet /\ cache.loaded => cache.refs = server[auth]

\* What was chosen is stored or on its way, and nothing on its way undoes it.
Sent(m) == \E mu \in Favs!Own : m \in mu.refs /\ mu.step = "sent"
ChoiceIsSent ==
  /\ ~Favs!SignedIn => choice = Favs!NoChoice
  /\ \A m \in Media : choice[m] # "none" =>
       /\ \A mu \in Favs!Own : m \in mu.refs => mu.add = (choice[m] = "add")
       /\ (m \in server[auth]) = (choice[m] = "add") \/ Sent(m)
       /\ choice[m] = "remove" /\ m \in guest => m \in Favs!InFlight

FavouritesOK == SentChanges /\ HeldLists /\ ListIsStored /\ ChoiceIsSent

LEMMA FavouritesInit == ASSUME Favs!Init PROVE FavouritesOK
<1>1. SentChanges /\ ListIsStored /\ ChoiceIsSent
  BY DEF Favs!Init, SentChanges, ListIsStored, ChoiceIsSent, Favs!SignedIn, Favs!NoData, Favs!NoGet,
     Favs!NoChoice
<1>2. HeldLists
  BY DEF Favs!Init, HeldLists, Favs!NoData, Favs!NoGet, Favs!NoChoice, Favs!NoMutation
<1>3. QED
  BY <1>1, <1>2 DEF FavouritesOK

\* A change of the user is sent.
SentNow(mu, add, refs) ==
  /\ flying' = flying \union {mu} /\ mu.user = auth /\ mu.add = add /\ mu.refs = refs
  /\ mu.step = "sent" /\ Whole(mu)
Begun(add, refs) == \E mu : SentNow(mu, add, refs)

LEMMA RunEffect ==
  ASSUME FavouritesOK, NEW add \in BOOLEAN, NEW refs, NEW origin,
         Favs!RunAccountMutation(add, refs, origin)
  PROVE  /\ Begun(add, refs) /\ get' = Favs!NoGet
         /\ cache'.loaded = TRUE /\ cache'.stale = FALSE
         /\ cache' = [loaded |-> cache'.loaded, stale |-> cache'.stale, refs |-> cache'.refs]
<1>1. PICK new : flying' = flying \union
        {[id |-> new, user |-> auth, add |-> add, refs |-> refs, origin |-> origin,
          before |-> cache.refs \intersect refs, step |-> "sent", result |-> {}]}
  BY DEF Favs!RunAccountMutation
<1> DEFINE mu == [id |-> new, user |-> auth, add |-> add, refs |-> refs, origin |-> origin,
          before |-> cache.refs \intersect refs, step |-> "sent", result |-> {}]
<1>2. Begun(add, refs)
  <2>1. SentNow(mu, add, refs)
    BY <1>1 DEF SentNow, Whole
  <2> HIDE DEF mu
  <2>2. QED
    BY <2>1 DEF Begun
<1>3. QED
  BY <1>2 DEF Favs!RunAccountMutation

\* Such a change keeps the invariant, when what was chosen agrees with it or is given up.
LEMMA SentStep ==
  ASSUME FavouritesOK, NEW add \in BOOLEAN, NEW refs \in SUBSET Media, NEW origin, Favs!SignedIn,
         Favs!RunAccountMutation(add, refs, origin),
         UNCHANGED <<auth, guest, server, skipped, failed>>,
         choice' \in [Media -> {"none", "add", "remove"}],
         \A m \in Media : choice'[m] # "none" =>
            IF m \in refs
            THEN /\ choice'[m] = (IF add THEN "add" ELSE "remove")
                 /\ \A mu \in Favs!Own : m \in mu.refs => mu.add = add
            ELSE choice'[m] = choice[m]
  PROVE  FavouritesOK'
<1>1. PICK mu : SentNow(mu, add, refs)
  <2>1. Begun(add, refs)
    BY RunEffect
  <2>2. QED
    BY <2>1 DEF Begun
<1>2. Favs!Own' = Favs!Own \union {mu}
  BY <1>1 DEF SentNow, Favs!Own
<1>3. get' = Favs!NoGet
      /\ cache' = [loaded |-> cache'.loaded, stale |-> cache'.stale, refs |-> cache'.refs]
      /\ cache'.loaded = TRUE /\ cache'.stale = FALSE
  BY RunEffect
<1>4. SentChanges'
  BY <1>1 DEF SentNow, FavouritesOK, SentChanges, Favs!SignedIn
<1>5. HeldLists'
  BY <1>3 DEF FavouritesOK, HeldLists, Favs!NoGet
<1>6. ListIsStored'
  BY <1>2 DEF ListIsStored
<1>7. ChoiceIsSent'
  <2>1. ASSUME NEW m \in Media, choice'[m] # "none", m \in refs
        PROVE /\ \A nu \in Favs!Own' : m \in nu.refs => nu.add = (choice'[m] = "add")
              /\ Sent(m)' /\ m \in Favs!InFlight'
    BY <1>1, <1>2, <2>1 DEF SentNow, Sent, Favs!InFlight
  <2>2. ASSUME NEW m \in Media, choice'[m] # "none", m \notin refs
        PROVE /\ \A nu \in Favs!Own' : m \in nu.refs => nu.add = (choice'[m] = "add")
              /\ (m \in server[auth]) = (choice'[m] = "add") \/ Sent(m)'
              /\ choice'[m] = "remove" /\ m \in guest => m \in Favs!InFlight'
    BY <1>1, <1>2, <2>2 DEF SentNow, FavouritesOK, ChoiceIsSent, Sent, Favs!InFlight
  <2>3. QED
    BY <2>1, <2>2 DEF ChoiceIsSent, Favs!SignedIn
<1>8. QED
  BY <1>4, <1>5, <1>6, <1>7 DEF FavouritesOK

LEMMA ToggleStep == ASSUME FavouritesOK, NEW m \in Media, Favs!Toggle(m) PROVE FavouritesOK'
<1>1. CASE ~Favs!SignedIn
  <2>1. /\ UNCHANGED <<auth, cache, get, flying, choice, failed, server, skipped>>
        /\ guest' \subseteq Media
    BY <1>1 DEF Favs!Toggle, FavouritesOK, HeldLists
  <2>2. SentChanges' /\ HeldLists' /\ ListIsStored'
    BY <2>1 DEF FavouritesOK, SentChanges, HeldLists, ListIsStored, Favs!SignedIn, Favs!Own
  <2>3. ChoiceIsSent'
    BY <1>1, <2>1 DEF FavouritesOK, ChoiceIsSent, Favs!SignedIn, Favs!NoChoice
  <2>4. QED
    BY <2>2, <2>3 DEF FavouritesOK
<1>2. CASE Favs!SignedIn
  <2> DEFINE add == m \notin cache.refs \union guest
  <2>1. /\ Favs!RunAccountMutation(add, {m}, "manual")
        /\ choice' = [choice EXCEPT ![m] = IF m \in Favs!InFlight THEN "none"
                                           ELSE IF add THEN "add" ELSE "remove"]
        /\ UNCHANGED <<auth, guest, server, skipped, failed>>
    BY <1>2 DEF Favs!Toggle
  <2> HIDE DEF add
  <2>2. add \in BOOLEAN
    BY DEF add
  <2>3. choice' \in [Media -> {"none", "add", "remove"}]
    BY <2>1 DEF FavouritesOK, HeldLists
  <2>4. ASSUME NEW n \in Media, choice'[n] # "none"
        PROVE IF n \in {m}
              THEN /\ choice'[n] = (IF add THEN "add" ELSE "remove")
                   /\ \A mu \in Favs!Own : n \in mu.refs => mu.add = add
              ELSE choice'[n] = choice[n]
    BY <2>1, <2>4 DEF FavouritesOK, HeldLists, Favs!InFlight
  <2>5. QED
    BY <1>2, <2>1, <2>2, <2>3, <2>4, SentStep
<1>3. QED
  BY <1>1, <1>2

LEMMA RetryStep == ASSUME FavouritesOK, Favs!Retry PROVE FavouritesOK'
<1>1. /\ Favs!RunAccountMutation(failed.add, failed.refs, failed.origin)
      /\ choice' = [m \in Media |-> IF m \in failed.refs THEN "none" ELSE choice[m]]
      /\ UNCHANGED <<auth, guest, server, skipped, failed>>
  BY DEF Favs!Retry
<1>2. failed.add \in BOOLEAN /\ failed.refs \in SUBSET Media /\ Favs!SignedIn
      /\ choice \in [Media -> {"none", "add", "remove"}]
  BY DEF Favs!Retry, FavouritesOK, HeldLists, Favs!SignedIn
<1>3. choice' \in [Media -> {"none", "add", "remove"}]
  BY <1>1, <1>2
<1>4. \A m \in Media : choice'[m] # "none" => m \notin failed.refs /\ choice'[m] = choice[m]
  BY <1>1
<1>5. QED
  BY <1>1, <1>2, <1>3, <1>4, SentStep

LEMMA MigrateStep == ASSUME FavouritesOK, Favs!Migrate PROVE FavouritesOK'
<1>1. /\ Favs!RunAccountMutation(TRUE, guest, "migration") /\ Favs!SignedIn
      /\ choice' = [m \in Media |-> IF m \in guest \intersect Favs!InFlight THEN "none" ELSE choice[m]]
      /\ UNCHANGED <<auth, guest, server, skipped, failed>>
  BY DEF Favs!Migrate, Favs!Migrates
<1>2. choice \in [Media -> {"none", "add", "remove"}] /\ guest \in SUBSET Media /\ TRUE \in BOOLEAN
  BY DEF FavouritesOK, HeldLists
<1>3. choice' \in [Media -> {"none", "add", "remove"}]
  BY <1>1, <1>2
<1>4. ASSUME NEW m \in Media, choice'[m] # "none"
      PROVE IF m \in guest
            THEN choice'[m] = "add" /\ \A mu \in Favs!Own : m \in mu.refs => mu.add = TRUE
            ELSE choice'[m] = choice[m]
  <2>1. choice'[m] = choice[m] /\ (m \in guest => m \notin Favs!InFlight)
    BY <1>1, <1>4
  <2>2. m \in guest => choice[m] # "remove"
    BY <1>4, <2>1 DEF FavouritesOK, ChoiceIsSent
  <2>3. QED
    BY <1>2, <1>4, <2>1, <2>2 DEF Favs!InFlight
<1>5. QED
  BY <1>1, <1>2, <1>3, <1>4, SentStep

LEMMA ExecuteStep == ASSUME FavouritesOK, NEW mu \in flying, Favs!Execute(mu) PROVE FavouritesOK'
<1> DEFINE nu == [mu EXCEPT !.step = "done", !.result = server'[mu.user]]
<1>1. /\ mu.step = "sent" /\ server' = [server EXCEPT ![mu.user] = Favs!Apply(@, mu)]
      /\ flying' = (flying \ {mu}) \union {nu}
      /\ UNCHANGED <<auth, guest, cache, get, failed, choice, skipped>>
  BY DEF Favs!Execute
<1>2. /\ Whole(mu)
      /\ mu.user \in User /\ mu.add \in BOOLEAN /\ mu.refs \subseteq Media
  BY DEF FavouritesOK, SentChanges
<1>3. /\ nu = [id |-> mu.id, user |-> mu.user, add |-> mu.add, refs |-> mu.refs,
             origin |-> mu.origin, before |-> mu.before, step |-> "done", result |-> server'[mu.user]]
  <2> DEFINE given == server'[mu.user]
             at == mu.id
             who == mu.user
             added == mu.add
             films == mu.refs
             came == mu.origin
             was == mu.before
             stood == mu.step
             got == mu.result
  <2> HIDE DEF given, at, who, added, films, came, was, stood, got
  <2>1. mu = [id |-> at, user |-> who, add |-> added, refs |-> films, origin |-> came,
              before |-> was, step |-> stood, result |-> got]
    BY <1>2 DEF Whole, at, who, added, films, came, was, stood, got
  <2>2. nu = [mu EXCEPT !.step = "done", !.result = given]
    BY DEF given
  <2> HIDE DEF nu
  <2>3. nu = [id |-> at, user |-> who, add |-> added, refs |-> films, origin |-> came,
              before |-> was, step |-> "done", result |-> given]
    BY <2>1, <2>2
  <2>4. QED
    BY <2>3 DEF given, at, who, added, films, came, was
<1>4. nu.user = mu.user /\ nu.add = mu.add /\ nu.refs = mu.refs /\ nu.step = "done"
      /\ Whole(nu)
  BY <1>3 DEF Whole
<1> HIDE DEF nu
<1>5. SentChanges'
  BY <1>1, <1>2, <1>4 DEF FavouritesOK, SentChanges
<1>6. server' \in [User -> SUBSET Media]
  BY <1>1, <1>2 DEF FavouritesOK, HeldLists, Favs!Apply
<1>7. HeldLists'
  BY <1>1, <1>6 DEF FavouritesOK, HeldLists
<1>8. Favs!Own' = IF mu.user = auth THEN (Favs!Own \ {mu}) \union {nu} ELSE Favs!Own
  BY <1>1, <1>4 DEF Favs!Own
<1>9. Favs!Own # {} \/ server'[auth] = server[auth] \/ ~Favs!SignedIn
  BY <1>1 DEF FavouritesOK, HeldLists, Favs!Own, Favs!SignedIn
<1>10. Favs!Own = {} <=> Favs!Own' = {}
  BY <1>8 DEF Favs!Own
<1>11. ListIsStored'
  BY <1>1, <1>9, <1>10 DEF FavouritesOK, ListIsStored, Favs!SignedIn
<1>12. Favs!InFlight' = Favs!InFlight
  <2>1. ASSUME NEW m PROVE (\E x \in Favs!Own : m \in x.refs) <=> (\E x \in Favs!Own' : m \in x.refs)
    BY <1>4, <1>8 DEF Favs!Own
  <2>2. QED
    BY <2>1 DEF Favs!InFlight
<1>13. ChoiceIsSent'
  <2>1. ASSUME NEW m \in Media, choice[m] # "none", Favs!SignedIn
        PROVE /\ \A x \in Favs!Own' : m \in x.refs => x.add = (choice[m] = "add")
              /\ (m \in server'[auth]) = (choice[m] = "add") \/ Sent(m)'
    <3>1. /\ \A x \in Favs!Own : m \in x.refs => x.add = (choice[m] = "add")
          /\ (m \in server[auth]) = (choice[m] = "add") \/ Sent(m)
      BY <2>1 DEF FavouritesOK, ChoiceIsSent
    <3>2. \A x \in Favs!Own' : m \in x.refs => x.add = (choice[m] = "add")
      BY <1>4, <1>8, <3>1 DEF Favs!Own
    <3>3. CASE mu.user = auth /\ m \in mu.refs
      <4>1. server'[auth] = Favs!Apply(server[auth], mu) /\ mu.add = (choice[m] = "add")
        BY <1>1, <2>1, <3>1, <3>3 DEF FavouritesOK, HeldLists, Favs!SignedIn, Favs!Own
      <4>2. (m \in server'[auth]) = (choice[m] = "add")
        <5>1. CASE mu.add
          BY <3>3, <4>1, <5>1 DEF Favs!Apply
        <5>2. CASE ~mu.add
          <6>1. choice[m] # "add" /\ m \notin server'[auth]
            BY <3>3, <4>1, <5>2 DEF Favs!Apply
          <6>2. QED
            BY <6>1
        <5>3. QED
          BY <5>1, <5>2
      <4>3. QED
        BY <3>2, <4>2
    <3>4. CASE ~(mu.user = auth /\ m \in mu.refs)
      <4>1. m \in server'[auth] <=> m \in server[auth]
        BY <1>1, <2>1, <3>4 DEF FavouritesOK, HeldLists, Favs!SignedIn, Favs!Apply
      <4>2. Sent(m) => Sent(m)'
        BY <1>8, <3>4 DEF Sent
      <4>3. QED
        BY <3>1, <3>2, <4>1, <4>2
    <3>5. QED
      BY <3>3, <3>4
  <2>2. QED
    BY <1>1, <1>12, <2>1 DEF FavouritesOK, ChoiceIsSent, Favs!SignedIn, Favs!NoChoice
<1>14. QED
  BY <1>5, <1>7, <1>11, <1>13 DEF FavouritesOK

\* A change that is over, of which nothing is left to be sent.
LEMMA SettledStep ==
  ASSUME FavouritesOK, NEW mu \in flying, NEW refs, NEW again \in BOOLEAN,
         Favs!Settle(mu, refs, again), UNCHANGED <<auth, get, server>>,
         failed'.add \in BOOLEAN /\ failed'.refs \subseteq Media,
         failed' # Favs!NoMutation => failed'.user \in User,
         choice' \in [Media -> {"none", "add", "remove"}],
         ~Favs!SignedIn => choice' = choice,
         \A m \in Media : choice'[m] # "none" =>
           /\ choice'[m] = choice[m]
           /\ mu.user = auth /\ m \in mu.refs => mu.step = "done",
         guest' = guest \/ (guest' = guest \ mu.refs /\ mu.user = auth),
         \A m \in Media : choice'[m] = "remove" /\ mu.user = auth /\ m \in mu.refs => m \notin guest'
  PROVE  FavouritesOK'
<1>1. /\ flying' = flying \ {mu}
      /\ cache' = IF mu.user # auth THEN cache
              ELSE [loaded |-> TRUE, refs |-> refs, stale |-> again \/ Favs!Invalidates(mu)]
      /\ skipped' = (skipped \/ (Favs!Own = {mu} /\ flying # {mu}))
  BY DEF Favs!Settle
<1>2. Favs!Own' = Favs!Own \ {mu}
  BY <1>1 DEF Favs!Own
<1>3. SentChanges'
  BY <1>1 DEF FavouritesOK, SentChanges
<1>4. HeldLists'
  <2>1. cache' = [loaded |-> cache'.loaded, stale |-> cache'.stale, refs |-> cache'.refs]
        /\ cache'.loaded \in BOOLEAN /\ cache'.stale \in BOOLEAN
    BY <1>1 DEF FavouritesOK, HeldLists, Favs!Invalidates
  <2>2. skipped' \in BOOLEAN
    BY <1>1 DEF FavouritesOK, HeldLists
  <2>3. QED
    BY <2>1, <2>2 DEF FavouritesOK, HeldLists
<1>5. ListIsStored'
  <2>1. CASE mu.user # auth
    <3>1. Favs!Own' = Favs!Own /\ cache' = cache /\ (skipped => skipped')
      BY <1>1, <1>2, <2>1 DEF Favs!Own
    <3>2. QED
      BY <3>1 DEF FavouritesOK, ListIsStored, Favs!SignedIn
  <2>2. CASE mu.user = auth
    <3>1. Favs!Own' = {} => Favs!Own = {mu}
      BY <1>2, <2>2 DEF Favs!Own
    <3>2. Favs!Own' = {} => cache'.stale \/ skipped'
      BY <1>1, <2>2, <3>1 DEF Favs!Invalidates, FavouritesOK, HeldLists
    <3>3. QED
      BY <3>2 DEF ListIsStored
  <2>3. QED
    BY <2>1, <2>2
<1>6. ChoiceIsSent'
  <2>1. ASSUME NEW m \in Media, choice'[m] # "none"
        PROVE /\ \A x \in Favs!Own' : m \in x.refs => x.add = (choice'[m] = "add")
              /\ (m \in server[auth]) = (choice'[m] = "add") \/ Sent(m)'
              /\ choice'[m] = "remove" /\ m \in guest' => m \in Favs!InFlight'
    <3>1. /\ choice'[m] = choice[m]
          /\ mu.user = auth /\ m \in mu.refs => mu.step = "done"
          /\ \A x \in Favs!Own : m \in x.refs => x.add = (choice'[m] = "add")
          /\ (m \in server[auth]) = (choice'[m] = "add") \/ Sent(m)
          /\ choice'[m] = "remove" /\ m \in guest => m \in Favs!InFlight
      BY <2>1 DEF FavouritesOK, ChoiceIsSent
    <3>2. Sent(m) => Sent(m)'
      BY <1>2, <3>1 DEF Sent, Favs!Own
    <3>3. choice'[m] = "remove" /\ m \in guest' => m \in Favs!InFlight'
      <4>1. choice'[m] = "remove" /\ m \in guest' => m \in guest /\ ~(mu.user = auth /\ m \in mu.refs)
        OBVIOUS
      <4>2. QED
        BY <1>2, <3>1, <4>1 DEF Favs!InFlight, Favs!Own
    <3>4. QED
      BY <1>2, <3>1, <3>2, <3>3
  <2>2. QED
    BY <2>1 DEF FavouritesOK, ChoiceIsSent, Favs!SignedIn, Favs!NoChoice
<1>7. QED
  BY <1>3, <1>4, <1>5, <1>6 DEF FavouritesOK

LEMMA SucceedsStep == ASSUME FavouritesOK, NEW mu \in flying, Favs!Succeeds(mu) PROVE FavouritesOK'
<1> DEFINE shown == IF mu.origin = "migration" THEN mu.result
                    ELSE Favs!Apply(IF cache.loaded THEN cache.refs ELSE mu.result, mu)
<1>1. /\ mu.step = "done" /\ Favs!Settle(mu, shown, FALSE)
      /\ failed' = IF mu.user = auth THEN Favs!NoMutation ELSE failed
      /\ guest' = IF mu.user = auth /\ (mu.origin = "migration" \/ ~mu.add)
              THEN guest \ mu.refs ELSE guest
      /\ UNCHANGED <<auth, get, server, choice>>
  BY DEF Favs!Succeeds
<1> HIDE DEF shown
<1>2. /\ failed'.add \in BOOLEAN /\ failed'.refs \subseteq Media
      /\ failed' # Favs!NoMutation => failed'.user \in User
  BY <1>1 DEF Favs!NoMutation, FavouritesOK, HeldLists
<1>3. choice' \in [Media -> {"none", "add", "remove"}]
  BY <1>1 DEF FavouritesOK, HeldLists
<1>4. ASSUME NEW m \in Media, choice'[m] = "remove", mu.user = auth, m \in mu.refs
      PROVE  m \notin guest'
  <2>1. mu.add = FALSE
    BY <1>1, <1>4 DEF FavouritesOK, ChoiceIsSent, Favs!Own
  <2>2. QED
    BY <1>1, <1>4, <2>1
<1>5. guest' = guest \/ (guest' = guest \ mu.refs /\ mu.user = auth)
  BY <1>1
<1>6. \A m \in Media : choice'[m] # "none" =>
           /\ choice'[m] = choice[m]
           /\ mu.user = auth /\ m \in mu.refs => mu.step = "done"
  BY <1>1
<1>7. FALSE \in BOOLEAN /\ choice' = choice
  BY <1>1
<1>8. QED
  BY <1>1, <1>2, <1>3, <1>4, <1>5, <1>6, <1>7, SettledStep

LEMMA FailsStep == ASSUME FavouritesOK, NEW mu \in flying, Favs!Fails(mu) PROVE FavouritesOK'
<1> DEFINE shown == (cache.refs \ mu.refs) \union mu.before
           again == mu.origin = "migration"
<1>1. /\ Favs!Settle(mu, shown, again)
      /\ failed' = IF mu.user = auth
               THEN [user |-> mu.user, add |-> mu.add, refs |-> mu.refs, origin |-> mu.origin]
               ELSE failed
      /\ choice' = [m \in Media |-> IF mu.user = auth /\ m \in mu.refs THEN "none" ELSE choice[m]]
      /\ UNCHANGED <<auth, guest, get, server>>
  BY DEF Favs!Fails
<1>2. again \in BOOLEAN
  OBVIOUS
<1> HIDE DEF shown, again
<1>3. /\ failed'.add \in BOOLEAN /\ failed'.refs \subseteq Media
      /\ failed' # Favs!NoMutation => failed'.user \in User
  BY <1>1 DEF FavouritesOK, HeldLists, SentChanges
<1>4. choice' \in [Media -> {"none", "add", "remove"}]
  BY <1>1 DEF FavouritesOK, HeldLists
<1>5. ~Favs!SignedIn => choice' = choice
  BY <1>1 DEF FavouritesOK, ChoiceIsSent, Favs!NoChoice
<1>6. \A m \in Media : choice'[m] # "none" => 
        choice'[m] = choice[m] /\ ~(mu.user = auth /\ m \in mu.refs)
  BY <1>1
<1>7. \A m \in Media : choice'[m] = "remove" /\ mu.user = auth /\ m \in mu.refs => m \notin guest'
  BY <1>6
<1>8. \A m \in Media : choice'[m] # "none" =>
           /\ choice'[m] = choice[m]
           /\ mu.user = auth /\ m \in mu.refs => mu.step = "done"
  BY <1>6
<1>9. guest' = guest \/ (guest' = guest \ mu.refs /\ mu.user = auth)
  BY <1>1
<1>10. QED
  BY <1>1, <1>2, <1>3, <1>4, <1>5, <1>7, <1>8, <1>9, SettledStep

LEMMA FetchStep ==
  ASSUME FavouritesOK, Favs!Fetch \/ Favs!FindMediaRefs \/ Favs!FetchAnswered
  PROVE  FavouritesOK'
<1>1. UNCHANGED <<auth, guest, flying, failed, server, choice>>
  BY DEF Favs!Fetch, Favs!FindMediaRefs, Favs!FetchAnswered
<1>2. SentChanges' /\ ChoiceIsSent'
  BY <1>1 DEF FavouritesOK, SentChanges, ChoiceIsSent, Sent, Favs!SignedIn, Favs!Own, Favs!InFlight,
     Favs!NoChoice
<1>3. CASE Favs!Fetch
  <2>1. /\ get' = [step |-> "sent", refs |-> {}] /\ get'.step = "sent" /\ skipped' = FALSE
        /\ cache' = [loaded |-> cache.loaded, stale |-> FALSE, refs |-> cache.refs]
    BY <1>3 DEF Favs!Fetch, Favs!NoGet, FavouritesOK, HeldLists
  <2>2. HeldLists'
    BY <1>1, <2>1 DEF FavouritesOK, HeldLists
  <2>3. ListIsStored'
    BY <2>1 DEF ListIsStored, Favs!NoGet
  <2>4. QED
    BY <1>2, <2>2, <2>3 DEF FavouritesOK
<1>4. CASE Favs!FindMediaRefs
  <2>1. get' = [step |-> "read", refs |-> server[auth]] /\ UNCHANGED <<cache, skipped>>
    BY <1>4 DEF Favs!FindMediaRefs
  <2>2. HeldLists'
    BY <1>1, <2>1 DEF FavouritesOK, HeldLists
  <2>3. ListIsStored'
    BY <1>1, <2>1 DEF ListIsStored, Favs!NoGet
  <2>4. QED
    BY <1>2, <2>2, <2>3 DEF FavouritesOK
<1>5. CASE Favs!FetchAnswered
  <2>1. /\ get.step = "read" /\ get' = Favs!NoGet /\ UNCHANGED skipped
        /\ cache' = [loaded |-> TRUE, stale |-> cache.stale, refs |-> get.refs]
    BY <1>5 DEF Favs!FetchAnswered, FavouritesOK, HeldLists
  <2>2. HeldLists'
    BY <1>1, <2>1 DEF FavouritesOK, HeldLists, Favs!NoGet
  <2>3. ListIsStored'
    BY <1>1, <2>1 DEF FavouritesOK, ListIsStored, Favs!NoGet, Favs!SignedIn, Favs!Own
  <2>4. QED
    BY <1>2, <2>2, <2>3 DEF FavouritesOK
<1>6. QED
  BY <1>3, <1>4, <1>5

LEMMA SwitchStep == ASSUME FavouritesOK, NEW who, Favs!SwitchTo(who) PROVE FavouritesOK'
<1>1. /\ cache' = Favs!NoData /\ get' = Favs!NoGet /\ choice' = Favs!NoChoice /\ skipped' = FALSE
      /\ UNCHANGED <<guest, flying, failed, server>>
  BY DEF Favs!SwitchTo
<1>2. SentChanges'
  BY <1>1 DEF FavouritesOK, SentChanges
<1>3. HeldLists'
  BY <1>1 DEF FavouritesOK, HeldLists, Favs!NoData, Favs!NoGet, Favs!NoChoice
<1>4. ListIsStored' /\ ChoiceIsSent'
  BY <1>1 DEF ListIsStored, ChoiceIsSent, Favs!NoData, Favs!NoGet, Favs!NoChoice
<1>5. QED
  BY <1>2, <1>3, <1>4 DEF FavouritesOK

LEMMA FavouritesNext == ASSUME FavouritesOK, [Favs!Next]_(Favs!vars) PROVE FavouritesOK'
<1>1. ASSUME UNCHANGED Favs!vars PROVE FavouritesOK'
  BY <1>1 DEF Favs!vars, FavouritesOK, SentChanges, HeldLists, ListIsStored, ChoiceIsSent, Sent,
              Favs!SignedIn, Favs!Own, Favs!InFlight, Favs!NoChoice, Favs!NoGet
<1>2. QED
  BY <1>1, ToggleStep, RetryStep, MigrateStep, ExecuteStep, SucceedsStep, FailsStep, FetchStep,
     SwitchStep DEF Favs!Next, Favs!Step

(***************************************************************************)
(* Once nothing is in flight the page shows the account's list, and that   *)
(* has what was chosen last (FavoriteProvider, onMutate and onSettled).    *)
(***************************************************************************)
THEOREM ChosenIsStored == Favs!Spec => []Favs!SettledIsChosen
<1>1. FavouritesOK => Favs!SettledIsChosen
  BY DEF FavouritesOK, ListIsStored, ChoiceIsSent, Sent, Favs!SettledIsChosen, Favs!Own
<1>2. QED
  BY <1>1, FavouritesInit, FavouritesNext, PTL DEF Favs!Spec
=============================================================================

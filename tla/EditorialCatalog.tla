------------------------------ MODULE EditorialCatalog ------------------------------
(***************************************************************************)
(* The editorial catalog: revisions that runs of the catalog:sync script   *)
(* fill and publish as a whole.  A transaction of the repository is one    *)
(* action; a sync is a process of several and may stop between any two (an *)
(* error, or the operator's Ctrl-C).  ArtworkStore has the artwork files.  *)
(***************************************************************************)
EXTENDS Naturals, FiniteSets

CONSTANTS
  Syncs,          \* runs of the sync script that may be in progress together
  Items,          \* media references
  Editions,       \* "source@version" of a manifest
  ItemsOf,        \* edition -> the media references it lists
  MaxRevisions,   \* bound on the revisions ever created
  None

VARIABLES
  revision,   \* catalog_revisions and its children, numbered by creation
  sync,       \* process -> its next step, its edition and its revision
  listed,     \* every item some published revision has listed (history)
  overlapped  \* two syncs have been in progress together (history)

vars == <<revision, sync, listed, overlapped>>

Ids == 1 .. MaxRevisions
Steps == {"idle", "find", "create", "resolve", "items", "identities", "carry", "shelves", "publish"}
Unused == [source |-> None, status |-> "none", items |-> [i \in Items |-> "absent"],
           identities |-> {}, shelves |-> {}]
IdleSync == [step |-> "idle", edition |-> None, revision |-> 0]

TypeOK ==
  /\ revision \in [Ids -> [source : Editions \cup {None},
                           status : {"none", "staging", "published", "retired", "deleted"},
                           items : [Items -> {"absent", "active", "inactive"}],
                           identities : SUBSET Items, shelves : SUBSET Items]]
  /\ sync \in [Syncs -> [step : Steps, edition : Editions \cup {None}, revision : 0 .. MaxRevisions]]
  /\ listed \subseteq Items /\ overlapped \in BOOLEAN

Init ==
  /\ revision = [r \in Ids |-> Unused]
  /\ sync = [s \in Syncs |-> IdleSync]
  /\ listed = {} /\ overlapped = FALSE

\* What every read of the catalogue joins with.
Published(r) == revision[r].status = "published"
Manifest(s) == ItemsOf[sync[s].edition]

\* Mutant: the edition is not compared.
ReusableOfAny(e) ==
  LET open == {r \in Ids : revision[r].status \in {"staging", "published"}}
  IN  IF open = {} THEN 0 ELSE CHOOSE r \in open : \A q \in open : q <= r

\* The revision findReusableRevision returns for a source, 0 if there is none.
Reusable(e) ==
  LET open == {r \in Ids : revision[r].source = e /\ revision[r].status \in {"staging", "published"}}
  IN  IF open = {} THEN 0 ELSE CHOOSE r \in open : \A q \in open : q <= r

At(s, step) == sync[s].step = step
Goto(s, step) == sync' = [sync EXCEPT ![s].step = step]
Meets(s) == overlapped' = (overlapped \/ \E t \in Syncs \ {s} : ~At(t, "idle"))

-----------------------------------------------------------------------------
\* --rebuild: every revision is deleted before the sync begins.
ResetCatalog(s) ==
  /\ At(s, "idle")
  /\ revision' = [r \in Ids |-> IF revision[r].status = "none" THEN Unused
                              ELSE [Unused EXCEPT !.status = "deleted"]]
  /\ Goto(s, "find")
  /\ listed' = {}
  /\ Meets(s)

\* findReusableRevision; an edition already published is skipped.
FindRevision(s, e) ==
  /\ sync[s].step \in {"idle", "find"}
  /\ LET r == Reusable(e) IN
       /\ r # 0 => ~Published(r)
       /\ sync' = [sync EXCEPT ![s] = [step |-> IF r = 0 THEN "create" ELSE "resolve",
                                       edition |-> e, revision |-> r]]
  /\ Meets(s)
  /\ UNCHANGED <<revision, listed>>

CreateStagingRevision(s) ==
  /\ At(s, "create")
  /\ \E r \in Ids :
       /\ revision[r].status = "none" /\ \A q \in 1 .. (r - 1) : revision[q].status # "none"
       /\ revision' = [revision EXCEPT ![r].source = sync[s].edition, ![r].status = "staging"]
       /\ sync' = [sync EXCEPT ![s].step = "resolve", ![s].revision = r]
  /\ UNCHANGED <<listed, overlapped>>

\* Metadata and artwork of every item, retried by a bounded pool of workers that
\* stops at the first item that failed for good (AbortSync).
ResolveItems(s) ==
  /\ At(s, "resolve")
  /\ Goto(s, "items")
  /\ UNCHANGED <<revision, listed, overlapped>>

\* Every write below first locks the revision and refuses one that is not staging.
Staging(s) == revision[sync[s].revision].status = "staging"

UpsertStagingItems(s) ==
  /\ At(s, "items") /\ Staging(s)
  /\ revision' = [revision EXCEPT ![sync[s].revision].items =
                    [i \in Items |-> IF i \in Manifest(s) THEN "active" ELSE @[i]]]
  /\ Goto(s, "identities")
  /\ UNCHANGED <<listed, overlapped>>

ReplaceStagingIdentities(s) ==
  /\ At(s, "identities") /\ Staging(s)
  /\ revision' = [revision EXCEPT ![sync[s].revision].identities = Manifest(s)]
  /\ Goto(s, "carry")
  /\ UNCHANGED <<listed, overlapped>>

\* What is published and not in this edition stays known, but inactive.
CarryPublishedItemsAsInactive(s) ==
  /\ At(s, "carry") /\ Staging(s)
  /\ LET known == {i \in Items : \E r \in Ids : Published(r) /\ revision[r].items[i] # "absent"}
         named == UNION {revision[r].identities : r \in {q \in Ids : Published(q)}}
         carried == [i \in Items |-> IF /\ i \in known \ Manifest(s)
                                        /\ revision[sync[s].revision].items[i] = "absent"
                                     THEN "inactive" ELSE revision[sync[s].revision].items[i]]
     IN  revision' = [revision EXCEPT
           ![sync[s].revision].items = carried,
           ![sync[s].revision].identities = @ \cup {i \in named : carried[i] # "absent"}]
  /\ Goto(s, "shelves")
  /\ UNCHANGED <<listed, overlapped>>

\* One transaction per collection; each collection of the model lists one item.
StoreCollection(s) ==
  /\ At(s, "shelves") /\ Staging(s)
  /\ \E i \in Manifest(s) \ revision[sync[s].revision].shelves :
       revision' = [revision EXCEPT ![sync[s].revision].shelves = @ \cup {i}]
  /\ UNCHANGED <<sync, listed, overlapped>>

CollectionsStored(s) ==
  /\ At(s, "shelves") /\ Manifest(s) \subseteq revision[sync[s].revision].shelves
  /\ Goto(s, "publish")
  /\ UNCHANGED <<revision, listed, overlapped>>

PublishRevision(s) ==
  /\ At(s, "publish") /\ Staging(s)
  /\ revision' = [r \in Ids |->
       CASE r = sync[s].revision -> [revision[r] EXCEPT !.status = "published"]
         [] Published(r) -> [revision[r] EXCEPT !.status = "retired"]
         [] OTHER -> revision[r]]
  /\ listed' = listed \cup Manifest(s)
  /\ sync' = [sync EXCEPT ![s] = IdleSync]
  /\ UNCHANGED overlapped

\* The script ends early: a provider or a download failed for good, the
\* revision was not staging any more, or it was killed.
AbortSync(s) ==
  /\ ~At(s, "idle")
  /\ sync' = [sync EXCEPT ![s] = IdleSync]
  /\ UNCHANGED <<revision, listed, overlapped>>

-----------------------------------------------------------------------------
Next ==
  \E s \in Syncs :
       \/ \E e \in Editions : FindRevision(s, e)
       \/ ResetCatalog(s) \/ CreateStagingRevision(s) \/ ResolveItems(s)
       \/ UpsertStagingItems(s) \/ ReplaceStagingIdentities(s)
       \/ CarryPublishedItemsAsInactive(s) \/ StoreCollection(s) \/ CollectionsStored(s)
       \/ PublishRevision(s) \/ AbortSync(s)

Spec == Init /\ [][Next]_vars

-----------------------------------------------------------------------------
(* Properties. *)

\* Readers never see a half-filled catalog: the published revision has every
\* item of its edition active, with its identity and in its collections, even
\* when two syncs of one edition share its staging revision (publishRevision).
PublishedComplete ==
  \A r \in Ids : Published(r) => \A i \in ItemsOf[revision[r].source] :
    revision[r].items[i] = "active" /\ i \in revision[r].identities \cap revision[r].shelves

\* A media reference that was ever published, and that users may have saved,
\* stays known to later revisions, through failed, retried and changing
\* editions, as long as no two syncs ran together (carryPublishedItemsAsInactive).
NothingForgotten ==
  ~overlapped => \A r \in Ids : Published(r) =>
    \A i \in listed : revision[r].items[i] # "absent" /\ i \in revision[r].identities
=============================================================================

--------------------------- MODULE ProfileAvatars ---------------------------
(***************************************************************************)
(* Profile avatars: a file in the asset root, a row of profile_assets, and *)
(* the reference of the user's row.  An upload writes the three one after  *)
(* the other, the replaced avatar is removed in the opposite order, and at *)
(* every start of the server a clean-up collects what was left behind.     *)
(* The server may stop between any two of these steps.  Every upload draws *)
(* a new random key, so a key is used once.                                *)
(***************************************************************************)
EXTENDS Naturals, FiniteSets

CONSTANTS User, Key, Request, MaxRestarts

None == [step |-> "idle"]

VARIABLES file,      \* file[k]: "absent", "fresh", or "old" (past the grace period)
          asset,     \* asset[k]: the row of profile_assets, "absent", "fresh" or "old"
          avatar,    \* avatar[u]: users.avatar_asset_id, as a set of at most one key
          drawn,     \* keys drawn so far
          request,   \* request[r]: the step of an upload or a deletion
          cleanup,   \* the pass of ProfileAssetCleanupService
          unsure,    \* avatars whose commit succeeded but was reported as failed
          restarts

vars == <<file, asset, avatar, drawn, request, cleanup, unsure, restarts>>

Age == {"absent", "fresh", "old"}
Older(f) == [k \in Key |-> IF f[k] = "fresh" THEN "old" ELSE f[k]]

\* waits: the reads of the pass still pending.
Ended == [waits |-> {}, rows |-> {}, files |-> {}, known |-> {}]
Started == [Ended EXCEPT !.waits = {"rows", "keys", "files"}]

TypeOK ==
  /\ file \in [Key -> Age] /\ asset \in [Key -> Age]
  /\ avatar \in [User -> SUBSET Key]
  /\ \A u \in User : Cardinality(avatar[u]) <= 1 /\ \A k \in avatar[u] : asset[k] # "absent"
  /\ drawn \subseteq Key /\ unsure \subseteq Key
  /\ cleanup \in [waits : SUBSET {"rows", "keys", "files"}, rows : SUBSET Key,
                 files : SUBSET Key, known : SUBSET Key]
  /\ restarts \in 0 .. MaxRestarts

Init ==
  /\ file = [k \in Key |-> "absent"] /\ asset = [k \in Key |-> "absent"]
  /\ avatar = [u \in User |-> {}]
  /\ drawn = {} /\ unsure = {}
  /\ request = [r \in Request |-> None]
  /\ cleanup = Started
  /\ restarts = 0

\* Mutant: nobody asks whether the avatar is in use.
NeverReferenced(k) == FALSE

Referenced(k) == \E u \in User : k \in avatar[u]
Rows == {k \in Key : asset[k] # "absent"}
Ends(r) == request' = [request EXCEPT ![r] = None]
KeepsRows == UNCHANGED <<asset, avatar>>
Rest == UNCHANGED <<drawn, cleanup, unsure, restarts>>

\* store.save: the normalised picture is renamed to its final name.
Save(r, u, k) ==
  /\ request[r] = None /\ k \notin drawn
  /\ drawn' = drawn \union {k}
  /\ file' = [file EXCEPT ![k] = "fresh"]
  /\ request' = [request EXCEPT ![r] = [step |-> "save", user |-> u, key |-> k]]
  /\ UNCHANGED <<asset, avatar, cleanup, unsure, restarts>>

\* The previous asset is removed only if no account refers to it any more.
Previous(r, old) ==
  request' = [request EXCEPT ![r] = IF old = {} THEN None
                ELSE [step |-> "previous", key |-> CHOOSE k \in old : TRUE]]

\* replaceAvatar: one transaction locks the user, inserts the row, sets the reference.
ReplaceAvatar(r) ==
  /\ request[r].step = "save"
  /\ LET u == request[r].user
         k == request[r].key IN
       /\ asset' = [asset EXCEPT ![k] = "fresh"]
       /\ avatar' = [avatar EXCEPT ![u] = {k}]
       /\ Previous(r, avatar[u])
  /\ UNCHANGED file /\ Rest

\* The transaction fails and the file is removed; or it committed and only its answer
\* was lost, and the file of a live avatar is removed all the same.
ReplaceFailed(r) ==
  /\ request[r].step = "save"
  /\ LET u == request[r].user
         k == request[r].key IN
       /\ file' = [file EXCEPT ![k] = "absent"]
       /\ \/ KeepsRows /\ UNCHANGED unsure
          \/ /\ asset' = [asset EXCEPT ![k] = "fresh"]
             /\ avatar' = [avatar EXCEPT ![u] = {k}]
             /\ unsure' = unsure \union {k}
  /\ Ends(r)
  /\ UNCHANGED <<drawn, cleanup, restarts>>

\* clearAvatar, behind the same lock.
ClearAvatar(r, u) ==
  /\ request[r] = None /\ avatar[u] # {}
  /\ avatar' = [avatar EXCEPT ![u] = {}]
  /\ Previous(r, avatar[u])
  /\ UNCHANGED <<file, asset>> /\ Rest

\* cleanupPreviousAsset: the row first, then its file; a failure leaves the rest.
DeletePreviousRow(r) ==
  /\ request[r].step = "previous"
  /\ LET k == request[r].key IN
       IF asset[k] # "absent" /\ ~Referenced(k)
       THEN /\ asset' = [asset EXCEPT ![k] = "absent"]
            /\ request' = [request EXCEPT ![r].step = "file"]
       ELSE Ends(r) /\ UNCHANGED asset
  /\ UNCHANGED <<file, avatar>> /\ Rest

DeletePreviousFile(r) ==
  /\ request[r].step = "file"
  /\ \/ file' = [file EXCEPT ![request[r].key] = "absent"]
     \/ UNCHANGED file
  /\ Ends(r)
  /\ KeepsRows /\ Rest

-----------------------------------------------------------------------------
(* The clean-up of a start.  Its three reads run side by side, so they may   *)
(* see the database and the directory at three different moments.            *)

Read(what, value) ==
  /\ what \in cleanup.waits
  /\ cleanup' = [value EXCEPT !.waits = @ \ {what}]
  /\ UNCHANGED <<file, asset, avatar, drawn, request, unsure, restarts>>

FindUnreferencedAssets ==
  Read("rows", [cleanup EXCEPT !.rows = {k \in Key : asset[k] = "old" /\ ~Referenced(k)}])

FindAssetObjectKeys == Read("keys", [cleanup EXCEPT !.known = Rows])

ListStoredAssets == Read("files", [cleanup EXCEPT !.files = {k \in Key : file[k] = "old"}])

\* Files past the grace period whose key no row was known to hold.
Orphans == cleanup.files \ cleanup.known

\* deleteAssetIfUnreferenced asks again whether the avatar is in use.
DeleteAssetIfUnreferenced(k) ==
  /\ cleanup.waits = {} /\ k \in cleanup.rows
  /\ IF asset[k] # "absent" /\ ~Referenced(k)
     THEN /\ asset' = [asset EXCEPT ![k] = "absent"]
          /\ cleanup' = [cleanup EXCEPT !.rows = @ \ {k}, !.files = @ \union {k}, !.known = @ \ {k}]
     ELSE cleanup' = [cleanup EXCEPT !.rows = @ \ {k}] /\ UNCHANGED asset
  /\ UNCHANGED <<file, avatar, drawn, request, unsure, restarts>>

\* The files of a pass belong to different pictures, so their order is left open.
DeleteFile(k) ==
  /\ cleanup.waits = {} /\ k \in Orphans
  /\ file' = [file EXCEPT ![k] = "absent"]
  /\ cleanup' = [cleanup EXCEPT !.files = @ \ {k}]
  /\ UNCHANGED <<asset, avatar, drawn, request, unsure, restarts>>

\* A database or file error ends the pass; the next start tries again.
CleanupFails ==
  /\ cleanup # Ended
  /\ cleanup' = Ended
  /\ UNCHANGED <<file, asset, avatar, drawn, request, unsure, restarts>>

\* The server stops and starts: uploads in progress are forgotten.
Restart ==
  /\ restarts < MaxRestarts
  /\ restarts' = restarts + 1
  /\ request' = [r \in Request |-> None]
  /\ cleanup' = Started
  /\ UNCHANGED <<file, asset, avatar, drawn, unsure>>

\* A day passes.  No request is as slow as that, and a pass computes its cutoff once,
\* before its reads: what becomes old while it reads is not old for this pass.
GracePeriodPasses ==
  /\ cleanup.waits \in {{}, Started.waits}
  /\ \A r \in Request : request[r] = None
  /\ Older(file) # file \/ Older(asset) # asset
  /\ file' = Older(file) /\ asset' = Older(asset)
  /\ UNCHANGED <<avatar, drawn, request, cleanup, unsure, restarts>>

Next ==
  \/ \E r \in Request :
       \/ \E u \in User : (\E k \in Key : Save(r, u, k)) \/ ClearAvatar(r, u)
       \/ ReplaceAvatar(r) \/ ReplaceFailed(r)
       \/ DeletePreviousRow(r) \/ DeletePreviousFile(r)
  \/ FindUnreferencedAssets \/ FindAssetObjectKeys \/ ListStoredAssets
  \/ \E k \in Key : DeleteAssetIfUnreferenced(k) \/ DeleteFile(k)
  \/ CleanupFails \/ Restart \/ GracePeriodPasses

Spec == Init /\ [][Next]_vars

-----------------------------------------------------------------------------
(* What must hold. *)

\* The avatar an account refers to always has its picture, whatever uploads,
\* deletions, clean-up passes and stops of the server overlap.  Left out: an
\* upload whose commit succeeded but was reported as failed.
AvatarHasFile == \A u \in User : \A k \in avatar[u] \ unsure : file[k] # "absent"
=============================================================================

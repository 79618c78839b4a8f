----------------------------- MODULE ServiceProofs -----------------------------
(***************************************************************************)
(* Proofs about services that keep what they were given: the pictures of   *)
(* the catalog and of the users, the access to accounts and to the local   *)
(* helper, and the torrents that are handed to an engine.  Each part has   *)
(* its own constants, variables and theorems, for any values of the        *)
(* constants; a variable that two parts call the same has a name of its    *)
(* own here in one of them.                                                *)
(***************************************************************************)
EXTENDS Integers, Sequences, FiniteSets, SequenceTheorems, WellFoundedInduction, TLAPS

CONSTANTS
  Assets,
  User, Key, Request, MaxRestarts,
  Email, Browser, MaxSerial, MaxResets,
  Pages, MaxRequests, MaxActs, MaxRevokes, MaxFaults,
  Public, Local, Names, MaxTrackers, MaxTotal, Inputs

VARIABLES
  row, file, card, referenced, sync, cleaner, excused,
  picture, asset, avatar, drawn, request, cleanup, unsure, restarts,
  account, token, mail, session, cookie, op, leaving, me, page, cached, serial,
  asked, granted, stored, call, shown, mounted, kept, doubted, acts, revokes, faults,
  input, result

Artwork == INSTANCE ArtworkStore
Avatars == INSTANCE ProfileAvatars WITH
  file <- picture
Account == INSTANCE Accounts
Pairing == INSTANCE Companion WITH
  request <- asked, op <- call, unsure <- doubted
Metainfo == INSTANCE TorrentMetainfo

-----------------------------------------------------------------------------
(***************************************************************************)
(* Proofs about ArtworkStore, for any set of assets.                       *)
(*                                                                         *)
(* The sync and the cleanup share no lock.  An asset is safe from the      *)
(* moment its import starts, unless it was garbage or condemned then       *)
(* (HeldOK): its file and its row are younger than the grace period, so a  *)
(* cleanup that looks now or has looked before does not list the file, and *)
(* it does not age while either script runs.                               *)
(***************************************************************************)

\* What a cleanup has listed: rows past the grace period, and no file to delete yet.
CleanerOK ==
  cleaner.step = "list" =>
    cleaner.unlink = {} /\ \A a \in cleaner.assets : row[a] = "old"

Held(a) == a \notin excused /\ (sync[a] # "idle" \/ a \in referenced)

HeldOK ==
  \A a \in Assets : Held(a) =>
    /\ file[a] # "none"
    /\ a \notin referenced => file[a] = "fresh" /\ row[a] # "old"
    /\ cleaner.step = "list" =>
         a \notin cleaner.assets /\ (a \in cleaner.strays => file[a] = "fresh")
    /\ a \notin Artwork!Condemned

RowsStay == \A a \in referenced : row[a] # "none"

ArtworkOK == Artwork!TypeOK /\ CleanerOK /\ HeldOK /\ RowsStay

LEMMA ArtworkInit == Artwork!Init => ArtworkOK
  BY DEF Artwork!Init, Artwork!Idle, Artwork!Ages, ArtworkOK, Artwork!TypeOK, CleanerOK,
     HeldOK, Held, Artwork!Condemned, RowsStay

LEMMA ArtworkTyped == ASSUME Artwork!TypeOK, [Artwork!Next]_Artwork!vars PROVE Artwork!TypeOK'
<1> USE DEF Artwork!TypeOK, Artwork!Ages
<1>1. ASSUME NEW a \in Assets, Artwork!Import(a) PROVE Artwork!TypeOK'
  BY <1>1 DEF Artwork!Import
<1>2. ASSUME NEW a \in Assets, Artwork!UpsertAsset(a) PROVE Artwork!TypeOK'
  BY <1>2 DEF Artwork!UpsertAsset
<1>3. ASSUME NEW a \in Assets, Artwork!ReferenceAsset(a) PROVE Artwork!TypeOK'
  BY <1>3 DEF Artwork!ReferenceAsset
<1>4. ASSUME NEW a \in Assets, Artwork!AbortSync(a) PROVE Artwork!TypeOK'
  BY <1>4 DEF Artwork!AbortSync
<1>5. ASSUME NEW a \in Assets, Artwork!Dereference(a) PROVE Artwork!TypeOK'
  BY <1>5 DEF Artwork!Dereference
<1>6. ASSUME NEW a \in Assets, Artwork!StartCard(a) \/ Artwork!FinishCard(a) PROVE Artwork!TypeOK'
  BY <1>6 DEF Artwork!StartCard, Artwork!FinishCard
<1>7. ASSUME NEW a \in Assets, Artwork!DeleteAssetIfUnreferenced(a) PROVE Artwork!TypeOK'
  BY <1>7 DEF Artwork!DeleteAssetIfUnreferenced
<1>8. ASSUME NEW a \in Assets, Artwork!DeleteFile(a) PROVE Artwork!TypeOK'
  BY <1>8 DEF Artwork!DeleteFile
<1>9. ASSUME NEW a \in Assets, Artwork!Age(a) PROVE Artwork!TypeOK'
  BY <1>9 DEF Artwork!Age
<1>10. ASSUME Artwork!FindUnreferencedAssets PROVE Artwork!TypeOK'
  BY <1>10 DEF Artwork!FindUnreferencedAssets
<1>11. ASSUME Artwork!ListStoredAssets PROVE Artwork!TypeOK'
  BY <1>11 DEF Artwork!ListStoredAssets
<1>12. ASSUME Artwork!EndCleanup PROVE Artwork!TypeOK'
  BY <1>12 DEF Artwork!EndCleanup, Artwork!Idle
<1>13. ASSUME UNCHANGED Artwork!vars PROVE Artwork!TypeOK'
  BY <1>13 DEF Artwork!vars
<1> HIDE DEF Artwork!TypeOK
<1>14. QED
  BY <1>1, <1>2, <1>3, <1>4, <1>5, <1>6, <1>7, <1>8, <1>9, <1>10, <1>11, <1>12, <1>13
     DEF Artwork!Next

\* Every step keeps what protects an asset; only Import takes one up.
LEMMA ArtworkStep == ASSUME ArtworkOK, [Artwork!Next]_Artwork!vars PROVE ArtworkOK'
<1>1. Artwork!TypeOK /\ Artwork!TypeOK'
  BY ArtworkTyped DEF ArtworkOK
<1> USE DEF ArtworkOK, CleanerOK, HeldOK, Held, Artwork!Condemned, RowsStay
<1>2. ASSUME NEW a \in Assets, Artwork!Import(a) PROVE ArtworkOK'
  BY <1>1, <1>2 DEF Artwork!Import, Artwork!TypeOK, Artwork!Ages
<1>3. ASSUME NEW a \in Assets, Artwork!UpsertAsset(a) PROVE ArtworkOK'
  BY <1>1, <1>3 DEF Artwork!UpsertAsset, Artwork!TypeOK, Artwork!Ages
<1>4. ASSUME NEW a \in Assets, Artwork!ReferenceAsset(a) PROVE ArtworkOK'
  BY <1>1, <1>4 DEF Artwork!ReferenceAsset, Artwork!TypeOK
<1>5. ASSUME NEW a \in Assets, Artwork!AbortSync(a) PROVE ArtworkOK'
  BY <1>1, <1>5 DEF Artwork!AbortSync, Artwork!TypeOK
<1>6. ASSUME NEW a \in Assets, Artwork!Dereference(a) PROVE ArtworkOK'
  BY <1>1, <1>6 DEF Artwork!Dereference, Artwork!TypeOK, Artwork!Ages
<1>7. ASSUME NEW a \in Assets, Artwork!StartCard(a) \/ Artwork!FinishCard(a) PROVE ArtworkOK'
  BY <1>1, <1>7 DEF Artwork!StartCard, Artwork!FinishCard
<1>8. ASSUME NEW a \in Assets, Artwork!DeleteAssetIfUnreferenced(a) PROVE ArtworkOK'
  BY <1>1, <1>8 DEF Artwork!DeleteAssetIfUnreferenced, Artwork!TypeOK
<1>9. ASSUME NEW a \in Assets, Artwork!DeleteFile(a) PROVE ArtworkOK'
  BY <1>1, <1>9 DEF Artwork!DeleteFile, Artwork!TypeOK
<1>10. ASSUME NEW a \in Assets, Artwork!Age(a) PROVE ArtworkOK'
  BY <1>1, <1>10 DEF Artwork!Age, Artwork!TypeOK, Artwork!Idle, Artwork!Ages
<1>11. ASSUME Artwork!FindUnreferencedAssets PROVE ArtworkOK'
  BY <1>1, <1>11 DEF Artwork!FindUnreferencedAssets, Artwork!TypeOK, Artwork!Idle
<1>12. ASSUME Artwork!ListStoredAssets PROVE ArtworkOK'
  BY <1>1, <1>12 DEF Artwork!ListStoredAssets, Artwork!TypeOK
<1>13. ASSUME Artwork!EndCleanup PROVE ArtworkOK'
  BY <1>1, <1>13 DEF Artwork!EndCleanup, Artwork!Idle
<1>14. ASSUME UNCHANGED Artwork!vars PROVE ArtworkOK'
  BY <1>1, <1>14 DEF Artwork!vars
<1> HIDE DEF ArtworkOK
<1>15. QED
  BY <1>2, <1>3, <1>4, <1>5, <1>6, <1>7, <1>8, <1>9, <1>10, <1>11, <1>12, <1>13, <1>14
     DEF Artwork!Next

LEMMA ArtworkKept == ArtworkOK => Artwork!ReferencedHasFile
  BY DEF ArtworkOK, Artwork!TypeOK, RowsStay, HeldOK, Held, Artwork!ReferencedHasFile

(***************************************************************************)
(* The inductive invariant of the artwork: its types, and that what a sync *)
(* has taken up in time is out of every cleanup's reach.                   *)
(***************************************************************************)
THEOREM ArtworkInvariant == Artwork!Spec => []ArtworkOK
  BY ArtworkInit, ArtworkStep, PTL DEF Artwork!Spec

(***************************************************************************)
(* Artwork an item references has its row and its file, whatever syncs and *)
(* cleanups overlap (MediaAssetCleanupService.cleanup).                    *)
(***************************************************************************)
THEOREM ReferencedIsKept == Artwork!Spec => []Artwork!ReferencedHasFile
  BY ArtworkKept, ArtworkInvariant, PTL

-----------------------------------------------------------------------------
(***************************************************************************)
(* Proofs about ProfileAvatars, for any users, keys and requests and any   *)
(* number of restarts.                                                     *)
(*                                                                         *)
(* A key is live while an upload holds its file or an account refers to    *)
(* it.  Keys are drawn once, so a key that stops being live never is again *)
(* (RequestsOK): what a deletion holds stays garbage.  The pass of a start *)
(* reads the rows and the directory at two moments, in either order;       *)
(* PassOK says what it may think of a live key in between.                 *)
(***************************************************************************)

Saving(r) == request[r].step = "save"
Live(k) == Avatars!Referenced(k) \/ \E r \in Request : Saving(r) /\ request[r].key = k

RequestTypes ==
  {Avatars!None} \cup [step : {"save"}, user : User, key : Key]
         \cup [step : {"previous", "file"}, key : Key]

Passes ==
  [waits : SUBSET {"rows", "keys", "files"}, rows : SUBSET Key, files : SUBSET Key,
   known : SUBSET Key]

StoreTypes ==
  /\ picture \in [Key -> Avatars!Age] /\ asset \in [Key -> Avatars!Age]
  /\ avatar \in [User -> SUBSET Key]
  /\ drawn \subseteq Key /\ unsure \subseteq Key
  /\ request \in [Request -> RequestTypes]
  /\ cleanup \in Passes

\* Whatever is stored, held or listed has been drawn, and what is referenced has a row.
DrawnOK ==
  /\ \A k \in Key : picture[k] # "absent" \/ asset[k] # "absent" => k \in drawn
  /\ \A u \in User : \A k \in avatar[u] : asset[k] # "absent"
  /\ \A r \in Request : request[r] # Avatars!None => request[r].key \in drawn
  /\ cleanup.files \subseteq drawn /\ unsure \subseteq drawn

\* An upload alone holds its key, whose file is younger than the grace period; the file a
\* deletion is left with belongs to nobody.
RequestsOK ==
  \A r \in Request :
    /\ Saving(r) =>
         /\ picture[request[r].key] = "fresh" /\ asset[request[r].key] = "absent"
         /\ request[r].key \notin unsure
         /\ \A q \in Request \ {r} : Saving(q) => request[q].key # request[r].key
    /\ request[r].step = "file" => ~Live(request[r].key)

\* A live key whose file the pass lists has a row it knows of, in whatever order it reads.
PassOK ==
  \A k \in Key : Live(k) =>
    /\ {"keys", "files"} \cap cleanup.waits = {} => k \notin Avatars!Orphans
    /\ cleanup.waits \cap {"keys", "files"} = {"files"} /\ k \notin cleanup.known =>
         picture[k] # "old"
    /\ cleanup.waits \cap {"keys", "files"} = {"keys"} /\ k \in cleanup.files =>
         Avatars!Referenced(k)

AvatarsOK == StoreTypes /\ DrawnOK /\ RequestsOK /\ PassOK /\ Avatars!AvatarHasFile

LEMMA AvatarsInit == Avatars!Init => AvatarsOK
  BY DEF Avatars!Init, AvatarsOK, StoreTypes, DrawnOK, RequestsOK, PassOK, Avatars!AvatarHasFile,
     Avatars!Age,
         RequestTypes, Passes, Avatars!None, Avatars!Started, Avatars!Ended, Live, Avatars!Referenced,
           Saving, Avatars!Orphans

LEMMA RequestCases ==
  ASSUME StoreTypes, NEW r \in Request
  PROVE  /\ request[r] = Avatars!None \/ request[r].step \in {"save", "previous", "file"}
         /\ request[r] # Avatars!None => request[r].key \in Key
         /\ Saving(r) => request[r].user \in User
         /\ request[r] = Avatars!None <=> request[r].step = "idle"
  BY DEF StoreTypes, RequestTypes, Avatars!None, Saving

\* The three reads of a pass, and what its deletions make of it.
LEMMA ReadsRows ==
  ASSUME StoreTypes, Avatars!FindUnreferencedAssets
  PROVE  /\ cleanup' \in Passes /\ cleanup'.waits = cleanup.waits \ {"rows"}
         /\ cleanup'.files = cleanup.files /\ cleanup'.known = cleanup.known
         /\ UNCHANGED <<picture, asset, avatar, drawn, request, unsure>>
<1> DEFINE v == [cleanup EXCEPT !.rows = {k \in Key : asset[k] = "old" /\ ~Avatars!Referenced(k)}]
<1>1. v \in Passes /\ v.waits = cleanup.waits /\ v.files = cleanup.files /\ v.known = cleanup.known
  BY DEF StoreTypes, Passes
<1>2. Avatars!Read("rows", v)
  BY DEF Avatars!FindUnreferencedAssets
<1> HIDE DEF v
<1>3. QED
  BY <1>1, <1>2 DEF Avatars!Read, Passes

LEMMA ReadsKeys ==
  ASSUME StoreTypes, Avatars!FindAssetObjectKeys
  PROVE  /\ cleanup' \in Passes /\ cleanup'.waits = cleanup.waits \ {"keys"}
         /\ "keys" \in cleanup.waits
         /\ cleanup'.files = cleanup.files /\ cleanup'.known = Avatars!Rows
         /\ UNCHANGED <<picture, asset, avatar, drawn, request, unsure>>
<1> DEFINE v == [cleanup EXCEPT !.known = Avatars!Rows]
<1>1. v \in Passes /\ v.waits = cleanup.waits /\ v.files = cleanup.files /\ v.known = Avatars!Rows
  BY DEF StoreTypes, Passes, Avatars!Rows
<1>2. Avatars!Read("keys", v)
  BY DEF Avatars!FindAssetObjectKeys
<1> HIDE DEF v
<1>3. QED
  BY <1>1, <1>2 DEF Avatars!Read, Passes

LEMMA ReadsFiles ==
  ASSUME StoreTypes, Avatars!ListStoredAssets
  PROVE  /\ cleanup' \in Passes /\ cleanup'.waits = cleanup.waits \ {"files"}
         /\ "files" \in cleanup.waits
         /\ cleanup'.files = {k \in Key : picture[k] = "old"} /\ cleanup'.known = cleanup.known
         /\ UNCHANGED <<picture, asset, avatar, drawn, request, unsure>>
<1> DEFINE v == [cleanup EXCEPT !.files = {k \in Key : picture[k] = "old"}]
<1>1. /\ v \in Passes /\ v.waits = cleanup.waits /\ v.known = cleanup.known
      /\ v.files = {k \in Key : picture[k] = "old"}
  BY DEF StoreTypes, Passes
<1>2. Avatars!Read("files", v)
  BY DEF Avatars!ListStoredAssets
<1> HIDE DEF v
<1>3. QED
  BY <1>1, <1>2 DEF Avatars!Read, Passes

LEMMA DeletesRow ==
  ASSUME StoreTypes, NEW k \in Key, Avatars!DeleteAssetIfUnreferenced(k)
  PROVE  /\ cleanup' \in Passes /\ cleanup.waits = {} /\ cleanup'.waits = {}
         /\ \/ asset' = asset /\ cleanup'.files = cleanup.files /\ cleanup'.known = cleanup.known
            \/ /\ asset[k] # "absent" /\ ~Avatars!Referenced(k)
               /\ asset' = [asset EXCEPT ![k] = "absent"]
               /\ cleanup'.files = cleanup.files \union {k}
               /\ cleanup'.known = cleanup.known \ {k}
         /\ UNCHANGED <<picture, avatar, drawn, request, unsure>>
<1>1. cleanup \in Passes
  BY DEF StoreTypes
<1>2. CASE asset[k] # "absent" /\ ~Avatars!Referenced(k)
  <2>1. cleanup' = [cleanup EXCEPT !.rows = @ \ {k}, !.files = @ \union {k}, !.known = @ \ {k}]
    BY <1>2 DEF Avatars!DeleteAssetIfUnreferenced
  <2>2. /\ cleanup'.waits = cleanup.waits /\ cleanup'.rows = cleanup.rows \ {k}
        /\ cleanup'.files = cleanup.files \union {k}
        /\ cleanup'.known = cleanup.known \ {k}
        /\ cleanup' \in Passes
    BY ZenonT(30), <1>1, <2>1 DEF Passes
  <2>3. QED
    BY <1>2, <2>2 DEF Avatars!DeleteAssetIfUnreferenced
<1>3. CASE ~(asset[k] # "absent" /\ ~Avatars!Referenced(k))
  BY <1>1, <1>3 DEF Avatars!DeleteAssetIfUnreferenced, Passes
<1>4. QED
  BY <1>2, <1>3

LEMMA DeletesFile ==
  ASSUME StoreTypes, NEW k \in Key, Avatars!DeleteFile(k)
  PROVE  /\ cleanup' \in Passes /\ cleanup.waits = {} /\ cleanup'.waits = {}
         /\ k \in Avatars!Orphans /\ cleanup'.files = cleanup.files \ {k}
         /\ cleanup'.known = cleanup.known /\ picture' = [picture EXCEPT ![k] = "absent"]
         /\ UNCHANGED <<asset, avatar, drawn, request, unsure>>
  BY DEF Avatars!DeleteFile, StoreTypes, Passes

LEMMA AvatarsTyped == ASSUME StoreTypes, [Avatars!Next]_Avatars!vars PROVE StoreTypes'
<1> USE DEF StoreTypes, Avatars!Age, Avatars!Rest, Avatars!KeepsRows, Avatars!Ends
<1>1. ASSUME NEW r \in Request, NEW u \in User, NEW k \in Key, Avatars!Save(r, u, k)
      PROVE  StoreTypes'
  BY <1>1 DEF Avatars!Save, RequestTypes
<1>2. ASSUME NEW r \in Request, NEW u \in User, Avatars!ClearAvatar(r, u)
      PROVE  StoreTypes'
  BY <1>2 DEF Avatars!ClearAvatar, Avatars!Previous, RequestTypes
<1>3. ASSUME NEW r \in Request, Avatars!ReplaceAvatar(r) PROVE StoreTypes'
  BY <1>3, RequestCases DEF Avatars!ReplaceAvatar, Avatars!Previous, RequestTypes, Saving
<1>4. ASSUME NEW r \in Request, Avatars!ReplaceFailed(r) PROVE StoreTypes'
  BY <1>4, RequestCases DEF Avatars!ReplaceFailed, RequestTypes, Saving, Avatars!None
<1>5. ASSUME NEW r \in Request, Avatars!DeletePreviousRow(r) PROVE StoreTypes'
  BY <1>5, RequestCases DEF Avatars!DeletePreviousRow, RequestTypes, Avatars!None
<1>6. ASSUME NEW r \in Request, Avatars!DeletePreviousFile(r) PROVE StoreTypes'
  BY <1>6, RequestCases DEF Avatars!DeletePreviousFile, RequestTypes, Avatars!None
<1>7. ASSUME Avatars!FindUnreferencedAssets \/ Avatars!FindAssetObjectKeys \/ Avatars!ListStoredAssets
      PROVE  StoreTypes'
  BY <1>7, ReadsRows, ReadsKeys, ReadsFiles
<1>8. ASSUME NEW k \in Key, Avatars!DeleteAssetIfUnreferenced(k) \/ Avatars!DeleteFile(k)
      PROVE  StoreTypes'
  BY <1>8, DeletesRow, DeletesFile
<1>9. ASSUME Avatars!CleanupFails \/ Avatars!Restart PROVE StoreTypes'
  BY <1>9 DEF Avatars!CleanupFails, Avatars!Restart, Avatars!Ended, Avatars!Started, RequestTypes,
     Passes
<1>10. ASSUME Avatars!GracePeriodPasses PROVE StoreTypes'
  BY <1>10 DEF Avatars!GracePeriodPasses, Avatars!Older
<1>11. ASSUME UNCHANGED Avatars!vars PROVE StoreTypes'
  BY <1>11 DEF Avatars!vars
<1> HIDE DEF StoreTypes
<1>12. QED
  BY <1>1, <1>2, <1>3, <1>4, <1>5, <1>6, <1>7, <1>8, <1>9, <1>10, <1>11 DEF Avatars!Next

LEMMA AvatarsStep == ASSUME AvatarsOK, [Avatars!Next]_Avatars!vars PROVE AvatarsOK'
<1>1. StoreTypes /\ StoreTypes'
  BY AvatarsTyped DEF AvatarsOK
<1> USE DEF AvatarsOK, DrawnOK, RequestsOK, PassOK, Avatars!AvatarHasFile, Live, Avatars!Referenced,
   Saving,
        Avatars!Orphans, Avatars!Rest, Avatars!KeepsRows, Avatars!Ends
<1>2. ASSUME NEW r \in Request, NEW u \in User, NEW k \in Key, Avatars!Save(r, u, k)
      PROVE  AvatarsOK'
  <2>1. /\ picture' = [picture EXCEPT ![k] = "fresh"] /\ drawn' = drawn \union {k} /\ k \notin drawn
        /\ request[r] = Avatars!None
           /\ request' = [request EXCEPT ![r] = [step |-> "save", user |-> u, key |-> k]]
        /\ UNCHANGED <<asset, avatar, cleanup, unsure>>
    BY <1>2 DEF Avatars!Save
  <2>2. /\ request'[r].step = "save" /\ request'[r].key = k
        /\ \A q \in Request \ {r} : request'[q] = request[q]
    BY <1>1, <2>1 DEF StoreTypes
  <2>3. asset[k] = "absent" /\ ~Avatars!Referenced(k) /\ k \notin cleanup.files
    BY <1>1, <2>1 DEF StoreTypes
  <2>4. \A q \in Request \ {r} : request[q] # Avatars!None => request[q].key # k
    BY <2>1
  <2>5. \A l \in Key : Live(l)' <=> Live(l) \/ l = k
    BY <2>1, <2>2, <2>4, RequestCases DEF Avatars!None
  <2>6. DrawnOK'
    BY <1>1, <2>1, <2>2, RequestCases DEF StoreTypes
  <2>7. RequestsOK'
    BY <1>1, <2>1, <2>2, <2>3, <2>4, <2>5, RequestCases DEF StoreTypes, Avatars!None
  <2>8. PassOK'
    BY <1>1, <2>1, <2>3, <2>5 DEF StoreTypes
  <2>9. Avatars!AvatarHasFile'
    BY <1>1, <2>1, <2>3 DEF StoreTypes
  <2>10. QED
    BY <1>1, <2>6, <2>7, <2>8, <2>9
<1>3. ASSUME NEW r \in Request, NEW u \in User, Avatars!ClearAvatar(r, u)
      PROVE  AvatarsOK'
  BY <1>1, <1>3, RequestCases DEF Avatars!ClearAvatar, Avatars!Previous, StoreTypes, Avatars!None
<1>4. ASSUME NEW r \in Request, Avatars!ReplaceAvatar(r) PROVE AvatarsOK'
  BY <1>1, <1>4, RequestCases DEF Avatars!ReplaceAvatar, Avatars!Previous, StoreTypes, Avatars!None
<1>5. ASSUME NEW r \in Request, Avatars!ReplaceFailed(r) PROVE AvatarsOK'
  BY <1>1, <1>5, RequestCases DEF Avatars!ReplaceFailed, StoreTypes, Avatars!None
<1>6. ASSUME NEW r \in Request, Avatars!DeletePreviousRow(r) PROVE AvatarsOK'
  <2>1. CASE UNCHANGED asset
    BY <1>1, <1>6, <2>1, RequestCases DEF Avatars!DeletePreviousRow, StoreTypes, Avatars!None
  <2>2. CASE asset' # asset
    <3> DEFINE k == request[r].key
    <3>1. /\ request[r].step = "previous" /\ asset[k] # "absent" /\ ~Avatars!Referenced(k)
          /\ asset' = [asset EXCEPT ![k] = "absent"]
          /\ request' = [request EXCEPT ![r].step = "file"]
          /\ UNCHANGED <<picture, avatar, drawn, cleanup, unsure>>
      BY <1>6, <2>2 DEF Avatars!DeletePreviousRow
    <3>2. k \in Key /\ ~Live(k)
      BY <1>1, <3>1, RequestCases
    <3>3. /\ request'[r].step = "file" /\ request'[r].key = k /\ request'[r] # Avatars!None
          /\ \A q \in Request \ {r} : request'[q] = request[q]
      BY <1>1, <3>1, RequestCases DEF StoreTypes, RequestTypes, Avatars!None
    <3> HIDE DEF k
    <3>4. \A l \in Key : Live(l)' <=> Live(l)
      BY <3>1, <3>3
    <3>5. DrawnOK'
      BY <1>1, <3>1, <3>2, <3>3, RequestCases DEF StoreTypes, k
    <3>6. RequestsOK'
      BY <1>1, <3>1, <3>2, <3>3, <3>4, RequestCases DEF StoreTypes
    <3>7. PassOK' /\ Avatars!AvatarHasFile'
      BY <1>1, <3>1, <3>4 DEF StoreTypes
    <3>8. QED
      BY <1>1, <3>5, <3>6, <3>7
  <2>3. QED
    BY <2>1, <2>2
<1>7. ASSUME NEW r \in Request, Avatars!DeletePreviousFile(r) PROVE AvatarsOK'
  BY <1>1, <1>7, RequestCases DEF Avatars!DeletePreviousFile, StoreTypes, Avatars!None
<1>8. ASSUME Avatars!FindUnreferencedAssets PROVE AvatarsOK'
  BY <1>1, <1>8, ReadsRows
<1>9. ASSUME Avatars!FindAssetObjectKeys PROVE AvatarsOK'
  BY <1>1, <1>9, ReadsKeys DEF Avatars!Rows
<1>10. ASSUME Avatars!ListStoredAssets PROVE AvatarsOK'
  BY <1>1, <1>10, ReadsFiles DEF StoreTypes, Avatars!Age
<1>11. ASSUME NEW k \in Key, Avatars!DeleteAssetIfUnreferenced(k) PROVE AvatarsOK'
  <2>1. CASE asset' = asset /\ cleanup'.files = cleanup.files /\ cleanup'.known = cleanup.known
    BY <1>1, <1>11, <2>1, DeletesRow
  <2>2. CASE /\ asset[k] # "absent" /\ ~Avatars!Referenced(k)
             /\ asset' = [asset EXCEPT ![k] = "absent"]
             /\ cleanup'.files = cleanup.files \union {k}
             /\ cleanup'.known = cleanup.known \ {k}
    <3>1. cleanup.waits = {} /\ cleanup'.waits = {}
          /\ UNCHANGED <<picture, avatar, drawn, request, unsure>>
      BY <1>1, <1>11, DeletesRow
    <3>2. ~Live(k) /\ k \in drawn
      BY <1>1, <2>2, RequestCases DEF Avatars!None
    <3>3. \A l \in Key : Live(l)' <=> Live(l)
      BY <3>1
    <3>4. DrawnOK' /\ RequestsOK' /\ Avatars!AvatarHasFile'
      BY <1>1, <2>2, <3>1, <3>2, <3>3, RequestCases DEF StoreTypes
    <3>5. PassOK'
      BY <1>1, <2>2, <3>1, <3>2, <3>3 DEF StoreTypes
    <3>6. QED
      BY <1>1, <3>4, <3>5
  <2>3. QED
    BY <1>1, <1>11, <2>1, <2>2, DeletesRow
<1>12. ASSUME NEW k \in Key, Avatars!DeleteFile(k) PROVE AvatarsOK'
  <2>1. /\ cleanup.waits = {} /\ cleanup'.waits = {} /\ k \in Avatars!Orphans
        /\ cleanup'.files = cleanup.files \ {k} /\ cleanup'.known = cleanup.known
        /\ picture' = [picture EXCEPT ![k] = "absent"]
        /\ UNCHANGED <<asset, avatar, drawn, request, unsure>>
    BY <1>1, <1>12, DeletesFile
  <2>2. ~Live(k)
    BY <2>1
  <2>3. \A l \in Key : Live(l)' <=> Live(l)
    BY <2>1
  <2>4. DrawnOK' /\ RequestsOK' /\ Avatars!AvatarHasFile'
    BY <1>1, <2>1, <2>2, <2>3, RequestCases DEF StoreTypes
  <2>5. PassOK'
    BY <1>1, <2>1, <2>3
  <2>6. QED
    BY <1>1, <2>4, <2>5
<1>13. ASSUME Avatars!CleanupFails PROVE AvatarsOK'
  BY <1>1, <1>13 DEF Avatars!CleanupFails, Avatars!Ended
<1>14. ASSUME Avatars!Restart PROVE AvatarsOK'
  BY <1>1, <1>14 DEF Avatars!Restart, Avatars!Started, Avatars!Ended, Avatars!None
<1>15. ASSUME Avatars!GracePeriodPasses PROVE AvatarsOK'
  <2>1. /\ cleanup.waits \in {{}, {"rows", "keys", "files"}}
        /\ \A q \in Request : request[q] = Avatars!None
        /\ UNCHANGED <<avatar, drawn, request, cleanup, unsure>>
    BY <1>15 DEF Avatars!GracePeriodPasses, Avatars!Started, Avatars!Ended
  <2>2. \A k \in Key : /\ picture'[k] = "absent" <=> picture[k] = "absent"
                       /\ asset'[k] = "absent" <=> asset[k] = "absent"
    BY <1>15 DEF Avatars!GracePeriodPasses, Avatars!Older
  <2>3. \A k \in Key : Live(k)' <=> Live(k)
    BY <2>1
  <2>4. \A u \in User : avatar[u] \subseteq Key
    BY <1>1 DEF StoreTypes
  <2>5. DrawnOK'
    BY <1>1, <2>1, <2>2, <2>4 DEF Avatars!None
  <2>6. RequestsOK'
    BY <2>1 DEF Avatars!None
  <2>7. Avatars!AvatarHasFile'
    BY <2>1, <2>2, <2>4
  <2>8. PassOK'
    BY <2>1, <2>3
  <2>9. QED
    BY <1>1, <2>5, <2>6, <2>7, <2>8
<1>16. ASSUME UNCHANGED Avatars!vars PROVE AvatarsOK'
  BY <1>1, <1>16 DEF Avatars!vars
<1> HIDE DEF AvatarsOK
<1>17. QED
  BY <1>2, <1>3, <1>4, <1>5, <1>6, <1>7, <1>8, <1>9, <1>10, <1>11, <1>12, <1>13, <1>14,
     <1>15, <1>16 DEF Avatars!Next

LEMMA AvatarsKept == AvatarsOK => Avatars!AvatarHasFile
  BY DEF AvatarsOK

(***************************************************************************)
(* The inductive invariant of the avatars: a live key is out of reach of   *)
(* every deletion and of every pass of the clean-up.                       *)
(***************************************************************************)
THEOREM AvatarInvariant == Avatars!Spec => []AvatarsOK
  BY AvatarsInit, AvatarsStep, PTL DEF Avatars!Spec

(***************************************************************************)
(* The avatar an account refers to has its picture, whatever uploads,      *)
(* deletions, clean-up passes and stops of the server overlap              *)
(* (ProfileAssetCleanupService, cleanupPreviousAsset).                     *)
(***************************************************************************)
THEOREM AvatarsAreKept == Avatars!Spec => []Avatars!AvatarHasFile
  BY AvatarsKept, AvatarInvariant, PTL

-----------------------------------------------------------------------------
(***************************************************************************)
(* Accounts: what a form or an /auth/me that is under way may still do.    *)
(* Serials are handed out once, so a cookie without a session never gets   *)
(* one (SerialsOK); an answer of /auth/me that waits speaks of the cookie  *)
(* the page still has, because whatever changes the cookie cancels it.     *)
(***************************************************************************)
Addresses == Account!NoOne \notin Email /\ MaxSerial \in Nat /\ MaxResets \in Nat

Anyone == Email \union {Account!NoOne}
TokenRow == [n : 0 .. MaxSerial, cooling : BOOLEAN, expired : BOOLEAN]

Forms ==
  {Account!None} \cup [kind : {"register", "save"}, user : Email]
    \cup [kind : {"mail"}, token : Account!Kinds, user : Email, n : 1 .. MaxSerial]
    \cup [kind : {"login"}, user : Email, pass : 0 .. MaxResets, overtaken : BOOLEAN]
    \cup [kind : {"loggedIn"}, user : Email, n : 1 .. MaxSerial]

ServerTyped ==
  /\ account \in [Email -> [made : BOOLEAN, verified : BOOLEAN, pass : 0 .. MaxResets]]
  /\ \A e \in Email : ~account[e].made => ~account[e].verified
  /\ token \in [Account!Kinds -> [Email -> TokenRow]]
  /\ mail \subseteq [kind : Account!Kinds, user : Email, n : 1 .. MaxSerial]
  /\ \A l \in mail : account[l.user].made
  /\ session \subseteq [n : 1 .. MaxSerial, user : Email, pass : 0 .. MaxResets,
                        overtaken : BOOLEAN]
  /\ serial \in 0 .. MaxSerial
  /\ \A s \in session : s.n <= serial

PageTyped ==
  /\ page \in [Browser -> [status : {"loading", "guest", "error", "authenticated"},
                           user : Anyone, key : Anyone, late : BOOLEAN]]
  /\ \A b \in Browser : (page[b].status = "authenticated") = (page[b].user # Account!NoOne)
  /\ cached \in [Browser -> SUBSET Email]
  /\ me \in [Browser -> [asked : BOOLEAN, answered : BOOLEAN, user : Anyone]]

BrowserTyped ==
  /\ op \in [Browser -> Forms] /\ leaving \in [Browser -> BOOLEAN]
  /\ cookie \in [Browser -> [n : 0 .. MaxSerial, user : Anyone]]
  /\ \A b \in Browser : cookie[b].n <= serial
  /\ \A b \in Browser : op[b].kind = "loggedIn" => op[b].n <= serial
  /\ \A b \in Browser : op[b].kind = "mail" => account[op[b].user].made

\* A login that verified a password since changed is noted as overtaken.
LoginsOK ==
  \A b \in Browser :
    op[b].kind = "login" => op[b].pass = account[op[b].user].pass \/ op[b].overtaken

\* The cache holds the account of the remembered key only.
KeyOK(b) ==
  /\ cached[b] \subseteq {page[b].key} \ {Account!NoOne}
  /\ page[b].status = "authenticated" => page[b].key = page[b].user
  /\ page[b].status = "guest" => page[b].key = Account!NoOne

AskOK(b) ==
  me[b].answered =>
    me[b].user = IF me[b].user = Account!NoOne THEN Account!UserOf(b) ELSE cookie[b].user

SaveOK(b) ==
  op[b].kind = "save" /\ page[b].key = op[b].user => cookie[b].user = op[b].user

SignedIn(b) ==
  /\ page[b].status = "authenticated" /\ ~page[b].late => cookie[b].user = page[b].user
  /\ page[b].status = "guest" => Account!UserOf(b) = Account!NoOne

PagesOK == \A b \in Browser : KeyOK(b) /\ AskOK(b) /\ SaveOK(b) /\ SignedIn(b)

AccountsOK ==
  ServerTyped /\ PageTyped /\ BrowserTyped /\ LoginsOK /\ PagesOK /\ Account!ResetRevokes

LEMMA AccountsInit == ASSUME Addresses, Account!Init PROVE AccountsOK
<1> USE DEF Addresses, Account!Init, Account!Unmade, Account!NoToken, Account!NoCookie,
            Account!NoAsk, Account!Shown, Account!None, Account!NoOne, Account!Kinds, Anyone
<1>1. ServerTyped
  BY DEF ServerTyped, TokenRow
<1>2. PageTyped
  BY DEF PageTyped
<1>3. BrowserTyped
  BY DEF BrowserTyped, Forms
<1>4. LoginsOK /\ PagesOK
  BY DEF LoginsOK, PagesOK, KeyOK, AskOK, SaveOK, SignedIn
<1>5. Account!ResetRevokes
  BY DEF Account!ResetRevokes
<1>6. QED
  BY <1>1, <1>2, <1>3, <1>4, <1>5 DEF AccountsOK

\* What is known of a form by its kind.
LEMMA FormKinds ==
  ASSUME BrowserTyped, NEW b \in Browser
  PROVE  /\ op[b] = Account!None => op[b].kind = "none"
         /\ op[b].kind \in {"register", "save", "mail", "login", "loggedIn"} => op[b].user \in Email
         /\ op[b].kind = "mail" => op[b].token \in Account!Kinds /\ op[b].n \in 1 .. MaxSerial
         /\ op[b].kind = "login" =>
              op[b] \in [kind : {"login"}, user : Email, pass : 0 .. MaxResets, overtaken : BOOLEAN]
         /\ op[b].kind = "loggedIn" => op[b].n \in 1 .. MaxSerial /\ op[b].n <= serial
  BY DEF BrowserTyped, Forms, Account!None

LEMMA TokenWritten ==
  ASSUME ServerTyped, NEW k \in Account!Kinds, NEW e \in Email, NEW v \in TokenRow
  PROVE  [token EXCEPT ![k][e] = v] \in [Account!Kinds -> [Email -> TokenRow]]
  BY DEF ServerTyped

LEMMA TokenSaved ==
  ASSUME Addresses, ServerTyped, NEW k \in Account!Kinds, NEW e \in Email, Account!SaveToken(k, e)
  PROVE  /\ token' \in [Account!Kinds -> [Email -> TokenRow]]
         /\ serial' \in 0 .. MaxSerial /\ serial <= serial'
         /\ ~token[k][e].cooling => serial' = serial + 1
<1> DEFINE v == [n |-> serial + 1, cooling |-> TRUE, expired |-> FALSE]
<1>1. CASE ~token[k][e].cooling
  <2>1. serial + 1 \in 1 .. MaxSerial /\ v \in TokenRow
    BY <1>1 DEF Addresses, Account!SaveToken, ServerTyped, TokenRow
  <2>2. token' = [token EXCEPT ![k][e] = v] /\ serial' = serial + 1
    BY <1>1 DEF Account!SaveToken
  <2> HIDE DEF v
  <2>3. QED
    BY <2>1, <2>2, TokenWritten DEF ServerTyped
<1>2. CASE token[k][e].cooling
  BY <1>2 DEF Account!SaveToken, ServerTyped, Addresses
<1>3. QED
  BY <1>1, <1>2

LEMMA TokenSpent ==
  ASSUME Addresses, ServerTyped, NEW l \in mail, token' = Account!Spent(l)
  PROVE  token' \in [Account!Kinds -> [Email -> TokenRow]]
<1>1. l.kind \in Account!Kinds /\ l.user \in Email
  BY DEF ServerTyped
<1>2. Account!NoToken \in TokenRow
  <2>1. 0 \in 0 .. MaxSerial
    BY DEF Addresses
  <2>2. QED
    BY <2>1 DEF Account!NoToken, TokenRow
<1>3. QED
  BY <1>1, <1>2, TokenWritten DEF Account!Spent

LEMMA TokenAges ==
  ASSUME ServerTyped, NEW k \in Account!Kinds, NEW e \in Email,
         \/ token' = [token EXCEPT ![k][e].cooling = FALSE]
         \/ token' = [token EXCEPT ![k][e].expired = TRUE]
  PROVE  token' \in [Account!Kinds -> [Email -> TokenRow]]
<1> DEFINE c == [token[k][e] EXCEPT !.cooling = FALSE]
           x == [token[k][e] EXCEPT !.expired = TRUE]
<1>1. token[k][e] \in TokenRow
  BY DEF ServerTyped
<1>2. c \in TokenRow /\ x \in TokenRow
  BY <1>1 DEF TokenRow
<1>3. token' = [token EXCEPT ![k][e] = c] \/ token' = [token EXCEPT ![k][e] = x]
  BY DEF ServerTyped
<1> HIDE DEF c, x
<1>4. QED
  BY <1>2, <1>3, TokenWritten

-----------------------------------------------------------------------------
LEMMA ServerStep ==
  ASSUME Addresses, AccountsOK, [Account!Next]_(Account!vars)
  PROVE  /\ ServerTyped' /\ serial <= serial'
         /\ \A e \in Email : account[e].made => account'[e].made
         /\ \A s \in session' : s \in session \/ s.n > serial
<1> DEFINE Goal == /\ ServerTyped' /\ serial <= serial'
                   /\ \A e \in Email : account[e].made => account'[e].made
                   /\ \A s \in session' : s \in session \/ s.n > serial
<1>0. ServerTyped /\ BrowserTyped /\ MaxSerial \in Nat /\ MaxResets \in Nat
  BY DEF AccountsOK, Addresses
<1>1. ASSUME UNCHANGED Account!server PROVE Goal
  BY <1>0, <1>1 DEF Account!server, ServerTyped
<1>2. ASSUME NEW b \in Browser, Account!CreateUser(b) PROVE Goal
  <2> DEFINE e == op[b].user
  <2>1. e \in Email
    BY <1>0, <1>2, FormKinds DEF Account!CreateUser
  <2>2. CASE account[e].made
    BY <1>1, <1>2, <2>2 DEF Account!CreateUser
  <2>3. CASE ~account[e].made
    <3>1. /\ account' = [account EXCEPT ![e].made = TRUE] /\ UNCHANGED <<mail, session>>
          /\ Account!SaveToken("verify", e)
      BY <1>2, <2>3 DEF Account!CreateUser
    <3>2. /\ token' \in [Account!Kinds -> [Email -> TokenRow]]
          /\ serial' \in 0 .. MaxSerial /\ serial <= serial'
      BY <1>0, <2>1, <3>1, TokenSaved DEF Account!Kinds
    <3>3. /\ account' \in [Email -> [made : BOOLEAN, verified : BOOLEAN, pass : 0 .. MaxResets]]
          /\ \A f \in Email : ~account'[f].made => ~account'[f].verified
          /\ \A f \in Email : account[f].made => account'[f].made
      BY <1>0, <2>1, <3>1 DEF ServerTyped
    <3>4. QED
      BY <1>0, <3>1, <3>2, <3>3 DEF ServerTyped
  <2>4. QED
    BY <2>2, <2>3
<1>3. ASSUME NEW b \in Browser, NEW e \in Email,
             Account!ResendVerification(b, e) \/ Account!RequestPasswordReset(b, e)
      PROVE Goal
  <2>1. PICK k \in Account!Kinds : Account!SaveToken(k, e)
    BY <1>3 DEF Account!ResendVerification, Account!RequestPasswordReset, Account!Kinds
  <2>2. UNCHANGED <<account, mail, session>>
    BY <1>3 DEF Account!ResendVerification, Account!RequestPasswordReset
  <2>3. QED
    BY <1>0, <2>1, <2>2, TokenSaved DEF ServerTyped
<1>4. ASSUME NEW b \in Browser, Account!SendMail(b) PROVE Goal
  <2>1. account[op[b].user].made /\ op[b].user \in Email
    BY <1>0, <1>4, FormKinds DEF Account!SendMail, BrowserTyped
  <2>2. QED
    BY <1>0, <1>4, <2>1, FormKinds DEF Account!SendMail, ServerTyped
<1>5. ASSUME NEW b \in Browser, Account!CreateSession(b) PROVE Goal
  BY <1>0, <1>5, FormKinds DEF Account!CreateSession, ServerTyped
<1>6. ASSUME NEW l \in mail, Account!VerifyEmail(l) \/ Account!ResetPassword(l) PROVE Goal
  <2>1. token' \in [Account!Kinds -> [Email -> TokenRow]]
    BY <1>0, <1>6, TokenSpent DEF Account!VerifyEmail, Account!ResetPassword
  <2>2. l.user \in Email /\ account[l.user].made /\ mail' = mail /\ serial' = serial
        /\ session' \subseteq session
    BY <1>0, <1>6
       DEF Account!VerifyEmail, Account!ResetPassword, Account!SessionsRevoked, ServerTyped
  <2>3. CASE Account!VerifyEmail(l)
    <3>1. account' = [account EXCEPT ![l.user].verified = TRUE]
      BY <2>3 DEF Account!VerifyEmail
    <3>2. /\ account' \in [Email -> [made : BOOLEAN, verified : BOOLEAN, pass : 0 .. MaxResets]]
          /\ \A f \in Email : account'[f].made = account[f].made
          /\ \A f \in Email : ~account'[f].made => ~account'[f].verified
      BY <1>0, <2>2, <3>1 DEF ServerTyped
    <3>3. \A k \in mail : k.user \in Email
      BY <1>0 DEF ServerTyped
    <3>4. QED
      BY <1>0, <2>1, <2>2, <3>2, <3>3 DEF ServerTyped
  <2>4. CASE Account!ResetPassword(l)
    <3>1. /\ account' = [account EXCEPT ![l.user].pass = @ + 1]
          /\ account[l.user].pass < MaxResets
      BY <2>4 DEF Account!ResetPassword
    <3>2. /\ account' \in [Email -> [made : BOOLEAN, verified : BOOLEAN, pass : 0 .. MaxResets]]
          /\ \A f \in Email : account'[f].made = account[f].made
          /\ \A f \in Email : ~account'[f].made => ~account'[f].verified
      BY <1>0, <2>2, <3>1 DEF ServerTyped
    <3>3. \A k \in mail : k.user \in Email
      BY <1>0 DEF ServerTyped
    <3>4. QED
      BY <1>0, <2>1, <2>2, <3>2, <3>3 DEF ServerTyped
  <2>5. QED
    BY <1>6, <2>3, <2>4
<1>7. ASSUME NEW k \in Account!Kinds, NEW e \in Email,
             Account!Cooled(k, e) \/ Account!TokenExpires(k, e)
      PROVE Goal
  <2>1. token' \in [Account!Kinds -> [Email -> TokenRow]]
    BY <1>0, <1>7, TokenAges DEF Account!Cooled, Account!TokenExpires
  <2>2. QED
    BY <1>0, <1>7, <2>1 DEF Account!Cooled, Account!TokenExpires, ServerTyped
<1>8. ASSUME \/ \E b \in Browser : Account!Logout(b)
             \/ \E s \in session : Account!SessionExpires(s)
      PROVE Goal
  BY <1>0, <1>8 DEF Account!Logout, Account!SessionExpires, ServerTyped
<1> HIDE DEF Goal
<1>9. ASSUME NEW b \in Browser, NEW e \in Email, Account!Register(b, e) \/ Account!Login(b, e)
      PROVE Goal
  BY <1>1, <1>9 DEF Account!Register, Account!Login
<1>10. ASSUME NEW b \in Browser,
              \/ Account!LoginAnswered(b) \/ Account!LogoutAnswered(b) \/ Account!Refresh(b)
              \/ Account!FindUser(b) \/ Account!RefreshAnswered(b) \/ Account!RefreshFailed(b)
              \/ Account!LoadAccountQuery(b) \/ Account!SaveProfile(b) \/ Account!ProfileSaved(b)
       PROVE Goal
  BY <1>1, <1>10
     DEF Account!LoginAnswered, Account!LogoutAnswered, Account!Refresh, Account!FindUser,
         Account!RefreshAnswered, Account!RefreshFailed, Account!LoadAccountQuery,
         Account!SaveProfile, Account!ProfileSaved
<1>11. CASE UNCHANGED Account!vars
  <2>1. UNCHANGED Account!server
    BY <1>11 DEF Account!vars, Account!server
  <2>2. QED
    BY <1>1, <2>1 DEF Goal
<1>12. QED
  BY <1>2, <1>3, <1>4, <1>5, <1>6, <1>7, <1>8, <1>9, <1>10, <1>11 DEF Account!Next, Goal

\* A page whose cookie has no session keeps none: a new session has a new serial.
LEMMA NobodyStays ==
  ASSUME Addresses, AccountsOK, [Account!Next]_(Account!vars), NEW b \in Browser,
         cookie'[b] = cookie[b], Account!UserOf(b) = Account!NoOne
  PROVE  Account!UserOf(b)' = Account!NoOne
<1>1. \A s \in session' : s \in session \/ s.n > serial
  BY ServerStep
<1>2. cookie[b].n \in Nat /\ cookie[b].n <= serial /\ serial \in Nat
  BY DEF AccountsOK, BrowserTyped, ServerTyped, Addresses
<1>3. \A s \in session' : s.n = cookie[b].n => s \in session
  BY <1>1, <1>2
<1>4. QED
  BY <1>3 DEF Account!UserOf

PageOK(b) == KeyOK(b) /\ AskOK(b) /\ SaveOK(b) /\ SignedIn(b)

LEMMA PageStays ==
  ASSUME Addresses, AccountsOK, [Account!Next]_(Account!vars), NEW b \in Browser,
         page'[b] = page[b], cached'[b] = cached[b], me'[b] = me[b], cookie'[b] = cookie[b],
         op'[b] = op[b] \/ op'[b].kind # "save"
  PROVE  PageOK(b)'
<1>1. PageOK(b)
  BY DEF AccountsOK, PagesOK, PageOK
<1>2. Account!UserOf(b) = Account!NoOne => Account!UserOf(b)' = Account!NoOne
  BY NobodyStays
<1>3. KeyOK(b)' /\ SaveOK(b)'
  BY <1>1 DEF PageOK, KeyOK, SaveOK
<1>4. AskOK(b)' /\ SignedIn(b)'
  <2> HIDE DEF Account!UserOf
  <2>1. QED
    BY <1>1, <1>2 DEF PageOK, AskOK, SignedIn
<1>5. QED
  BY <1>3, <1>4 DEF PageOK

\* What setAuthenticated and setGuest make of a page.
LEMMA PageShowsAccount ==
  ASSUME Addresses, AccountsOK, NEW b \in Browser, NEW e \in Email, Account!SetAuthenticated(b, e)
  PROVE  /\ PageTyped'
         /\ page'[b] = Account!Shown("authenticated", e, e, FALSE)
         /\ cached'[b] \subseteq {e} /\ ~me'[b].answered
         /\ \A c \in Browser \ {b} : UNCHANGED <<page[c], cached[c], me[c]>>
<1>1. PageTyped /\ KeyOK(b)
  BY DEF AccountsOK, PagesOK
<1>2. cached[b] \ Account!Forgets(b, e) \subseteq {e}
  BY <1>1 DEF KeyOK, Account!Forgets
<1>3. QED
  BY <1>1, <1>2
     DEF Account!SetAuthenticated, Account!CancelRequest, Account!NoAsk, Account!Shown, PageTyped,
         Anyone, Addresses

LEMMA PageShowsGuest ==
  ASSUME Addresses, AccountsOK, NEW b \in Browser, Account!SetGuest(b)
  PROVE  /\ PageTyped'
         /\ page'[b] = Account!Shown("guest", Account!NoOne, Account!NoOne, FALSE)
         /\ cached'[b] = {} /\ ~me'[b].answered
         /\ \A c \in Browser \ {b} : UNCHANGED <<page[c], cached[c], me[c]>>
<1>1. PageTyped /\ KeyOK(b)
  BY DEF AccountsOK, PagesOK
<1>2. (IF page[b].key = Account!NoOne THEN {} ELSE cached[b] \ {page[b].key}) = {}
  BY <1>1 DEF KeyOK
<1>3. QED
  BY <1>1, <1>2
     DEF Account!SetGuest, Account!CancelRequest, Account!NoAsk, Account!Shown, PageTyped, Anyone

-----------------------------------------------------------------------------
\* The steps that leave every page as it is, and its cookie.
Quiet == UNCHANGED <<page, cached, me, cookie>>

LEMMA QuietStep ==
  ASSUME Addresses, AccountsOK, [Account!Next]_(Account!vars), Quiet,
         \A b \in Browser : op'[b] = op[b] \/ op'[b].kind # "save"
  PROVE  PageTyped' /\ PagesOK'
<1>1. PageTyped'
  BY DEF AccountsOK, PageTyped, Quiet
<1>2. \A b \in Browser : PageOK(b)'
  BY PageStays DEF Quiet
<1>3. QED
  BY <1>1, <1>2 DEF PagesOK, PageOK

LEMMA PagesStep ==
  ASSUME Addresses, AccountsOK, [Account!Next]_(Account!vars)
  PROVE  PageTyped' /\ PagesOK'
<1> DEFINE Goal == PageTyped' /\ PagesOK'
<1>0. /\ PageTyped /\ BrowserTyped /\ PagesOK
      /\ \A b \in Browser : PageOK(b)
  BY DEF AccountsOK, PagesOK, PageOK
<1>1. ASSUME Quiet, \A b \in Browser : op'[b] = op[b] \/ op'[b].kind # "save" PROVE Goal
  BY <1>1, QuietStep
\* It is enough to look at the one page that an action is about.
<1>2. ASSUME NEW b \in Browser, PageTyped', PageOK(b)',
             \A c \in Browser \ {b} : UNCHANGED <<page[c], cached[c], me[c], cookie[c], op[c]>>
      PROVE  Goal
  <2>1. \A c \in Browser \ {b} : PageOK(c)'
    BY <1>2, PageStays
  <2>2. QED
    BY <1>2, <2>1 DEF PagesOK, PageOK
<1> HIDE DEF Goal
<1>3. ASSUME NEW b \in Browser, NEW e \in Email,
             \/ Account!Register(b, e) \/ Account!ResendVerification(b, e)
             \/ Account!RequestPasswordReset(b, e) \/ Account!Login(b, e)
      PROVE  Goal
  BY <1>0, <1>1, <1>3
     DEF Account!Register, Account!ResendVerification, Account!RequestPasswordReset, Account!Login,
         Account!Mailing, Account!None, Account!client, Quiet, BrowserTyped
<1>4. ASSUME NEW b \in Browser, Account!CreateUser(b) \/ Account!SendMail(b) \/ Account!CreateSession(b)
      PROVE  Goal
  BY <1>0, <1>1, <1>4
     DEF Account!CreateUser, Account!SendMail, Account!CreateSession, Account!Mailing, Account!Done,
         Account!None, Account!client, Quiet, BrowserTyped
<1>5. ASSUME NEW b \in Browser, Account!Logout(b) PROVE Goal
  BY <1>1, <1>5 DEF Account!Logout, Quiet
<1>6. ASSUME NEW l \in mail, Account!VerifyEmail(l) PROVE Goal
  BY <1>1, <1>6 DEF Account!VerifyEmail, Account!client, Quiet
<1>7. ASSUME NEW l \in mail, Account!ResetPassword(l) PROVE Goal
  <2>1. \A b \in Browser : op'[b] = op[b] \/ op'[b].kind # "save"
    BY <1>0, <1>7, FormKinds DEF Account!ResetPassword
  <2>2. Quiet
    BY <1>7 DEF Account!ResetPassword, Account!client, Quiet
  <2>3. QED
    BY <1>1, <2>1, <2>2
<1>8. ASSUME \/ \E k \in Account!Kinds, e \in Email : Account!Cooled(k, e) \/ Account!TokenExpires(k, e)
             \/ \E s \in session : Account!SessionExpires(s)
      PROVE  Goal
  BY <1>1, <1>8
     DEF Account!Cooled, Account!TokenExpires, Account!SessionExpires, Account!client, Quiet
<1>9. ASSUME NEW b \in Browser, Account!LoginAnswered(b) PROVE Goal
  <2> DEFINE e == op[b].user
  <2>1. /\ op[b].kind = "loggedIn" /\ op' = [op EXCEPT ![b] = Account!None]
        /\ cookie' = [cookie EXCEPT ![b] = [n |-> op[b].n, user |-> e]]
        /\ Account!SetAuthenticated(b, e)
    BY <1>9 DEF Account!LoginAnswered, Account!Done
  <2>2. e \in Email
    BY <1>0, <2>1, FormKinds
  <2>3. cookie'[b].user = e /\ op'[b] = Account!None
    BY <1>0, <2>1 DEF BrowserTyped
  <2>4. /\ page'[b] = Account!Shown("authenticated", e, e, FALSE)
        /\ cached'[b] \subseteq {e} /\ ~me'[b].answered /\ e # Account!NoOne
    BY <2>1, <2>2, PageShowsAccount DEF Addresses
  <2>5. KeyOK(b)' /\ AskOK(b)'
    BY <2>4 DEF KeyOK, AskOK, Account!Shown
  <2>6. SaveOK(b)' /\ SignedIn(b)'
    BY <2>3, <2>4 DEF SaveOK, SignedIn, Account!Shown, Account!None
  <2>7. QED
    BY <1>0, <1>2, <2>1, <2>2, <2>5, <2>6, PageShowsAccount DEF BrowserTyped, PageOK
<1>10. ASSUME NEW b \in Browser, Account!LogoutAnswered(b) PROVE Goal
  <2>1. op' = op
    BY <1>10 DEF Account!LogoutAnswered
  <2>2. CASE UNCHANGED <<cookie, me, page, cached>>
    BY <1>1, <2>1, <2>2 DEF Quiet
  <2>3. CASE cookie' = [cookie EXCEPT ![b] = Account!NoCookie] /\ Account!SetGuest(b)
    <3>1. cookie'[b].user = Account!NoOne
      BY <1>0, <2>3 DEF BrowserTyped, Account!NoCookie
    <3>2. PageOK(b)'
      BY <1>0, <2>1, <2>3, <3>1, PageShowsGuest, FormKinds
         DEF PageOK, KeyOK, AskOK, SaveOK, SignedIn, Account!Shown, Account!UserOf, Addresses
    <3>3. QED
      BY <1>0, <1>2, <2>1, <2>3, <3>2, PageShowsGuest DEF BrowserTyped
  <2>4. QED
    BY <1>10, <2>2, <2>3 DEF Account!LogoutAnswered
<1>11. ASSUME NEW b \in Browser, Account!Refresh(b) PROVE Goal
  <2>1. /\ page' = [page EXCEPT ![b] = Account!Shown("loading", Account!NoOne, @.key, FALSE)]
        /\ me' = [me EXCEPT ![b] = [Account!NoAsk EXCEPT !.asked = TRUE]]
        /\ UNCHANGED <<op, cookie, cached>> /\ page[b].status \in {"authenticated", "error"}
    BY <1>11 DEF Account!Refresh
  <2>2. PageTyped'
    BY <1>0, <2>1 DEF PageTyped, Account!Shown, Account!NoAsk, Anyone
  <2>3. /\ page'[b] = Account!Shown("loading", Account!NoOne, page[b].key, FALSE)
        /\ ~me'[b].answered
    BY <1>0, <2>1 DEF PageTyped, Account!NoAsk
  <2>4. KeyOK(b)' /\ AskOK(b)' /\ SignedIn(b)'
    BY <1>0, <2>1, <2>3 DEF PageOK, KeyOK, AskOK, SignedIn, Account!Shown
  <2>5. SaveOK(b)'
    BY <1>0, <2>1, <2>3 DEF PageOK, KeyOK, SaveOK, SignedIn, Account!Shown
  <2>6. QED
    BY <1>0, <1>2, <2>1, <2>2, <2>4, <2>5 DEF PageOK, PageTyped
<1>12. ASSUME NEW b \in Browser, Account!FindUser(b) PROVE Goal
  <2>1. /\ me' = [me EXCEPT ![b].answered = TRUE, ![b].user = Account!UserOf(b)]
        /\ UNCHANGED <<session, op, cookie, page, cached>>
    BY <1>12 DEF Account!FindUser, Account!server
  <2>2. Account!UserOf(b) \in {Account!NoOne, cookie[b].user} /\ Account!UserOf(b) \in Anyone
    BY <1>0 DEF Account!UserOf, BrowserTyped, Anyone
  <2>3. Account!UserOf(b)' = Account!UserOf(b)
    BY <2>1 DEF Account!UserOf
  <2>4. me'[b].user = Account!UserOf(b)
    BY <1>0, <2>1 DEF PageTyped
  <2>5. PageTyped'
    BY <1>0, <2>1, <2>2 DEF PageTyped
  <2>6. KeyOK(b)' /\ SaveOK(b)' /\ SignedIn(b)'
    BY <1>0, <2>1, <2>3 DEF PageOK, KeyOK, SaveOK, SignedIn
  <2>7. AskOK(b)'
    BY <2>1, <2>2, <2>3, <2>4 DEF AskOK
  <2>8. QED
    BY <1>0, <1>2, <2>1, <2>5, <2>6, <2>7 DEF PageOK, PageTyped
<1>13. ASSUME NEW b \in Browser, Account!RefreshAnswered(b) PROVE Goal
  <2>1. UNCHANGED <<session, op, cookie>> /\ me[b].answered
    BY <1>13 DEF Account!RefreshAnswered, Account!server
  <2>2. AskOK(b) /\ Account!UserOf(b)' = Account!UserOf(b) /\ me[b].user \in Anyone
    BY <1>0, <2>1 DEF PageOK, Account!UserOf, PageTyped
  <2>3. CASE me[b].user = Account!NoOne
    <3>1. Account!SetGuest(b) /\ Account!UserOf(b)' = Account!NoOne
      BY <1>13, <2>1, <2>2, <2>3 DEF Account!RefreshAnswered, AskOK
    <3>2. KeyOK(b)' /\ AskOK(b)' /\ SignedIn(b)'
      BY <3>1, PageShowsGuest DEF KeyOK, AskOK, SignedIn, Account!Shown
    <3>3. SaveOK(b)'
      BY <1>0, <2>1, <3>1, PageShowsGuest, FormKinds DEF SaveOK, Account!Shown, Addresses
    <3>4. QED
      BY <1>2, <2>1, <3>1, <3>2, <3>3, PageShowsGuest DEF PageOK
  <2>4. CASE me[b].user # Account!NoOne
    <3>1. me[b].user \in Email /\ Account!SetAuthenticated(b, me[b].user)
      BY <1>13, <2>2, <2>4 DEF Account!RefreshAnswered, Anyone
    <3>2. cookie'[b].user = me[b].user
      BY <2>1, <2>2, <2>4 DEF AskOK
    <3>3. /\ page'[b] = Account!Shown("authenticated", me[b].user, me[b].user, FALSE)
          /\ cached'[b] \subseteq {me[b].user} /\ ~me'[b].answered
      BY <3>1, PageShowsAccount
    <3>4. KeyOK(b)' /\ AskOK(b)'
      BY <2>4, <3>3 DEF KeyOK, AskOK, Account!Shown
    <3>5. SaveOK(b)' /\ SignedIn(b)'
      BY <2>1, <3>2, <3>3 DEF SaveOK, SignedIn, Account!Shown
    <3>6. QED
      BY <1>2, <2>1, <3>1, <3>4, <3>5, PageShowsAccount DEF PageOK
  <2>5. QED
    BY <2>3, <2>4
<1>14. ASSUME NEW b \in Browser, Account!RefreshFailed(b) PROVE Goal
  <2>1. /\ page' = [page EXCEPT ![b] = Account!Shown("error", Account!NoOne, @.key, FALSE)]
        /\ me' = [me EXCEPT ![b] = Account!NoAsk]
        /\ UNCHANGED <<op, cookie, cached>>
    BY <1>14 DEF Account!RefreshFailed, Account!CancelRequest
  <2>2. PageTyped'
    BY <1>0, <2>1 DEF PageTyped, Account!Shown, Account!NoAsk, Anyone
  <2>3. /\ page'[b] = Account!Shown("error", Account!NoOne, page[b].key, FALSE)
        /\ ~me'[b].answered
    BY <1>0, <2>1 DEF PageTyped, Account!NoAsk
  <2>4. PageOK(b)'
    BY <1>0, <2>1, <2>3 DEF PageOK, KeyOK, AskOK, SaveOK, SignedIn, Account!Shown
  <2>5. QED
    BY <1>0, <1>2, <2>1, <2>2, <2>4 DEF PageTyped
<1>15. ASSUME NEW b \in Browser, Account!LoadAccountQuery(b) PROVE Goal
  <2>1. /\ cached' = [cached EXCEPT ![b] = @ \union {page[b].user}]
        /\ page[b].status = "authenticated" /\ UNCHANGED <<session, op, cookie, page, me>>
    BY <1>15 DEF Account!LoadAccountQuery, Account!server
  <2>2. page[b].user \in Email
    BY <1>0, <2>1 DEF PageTyped, Anyone
  <2>3. cached'[b] = cached[b] \union {page[b].user} /\ PageTyped'
    BY <1>0, <2>1, <2>2 DEF PageTyped
  <2>4. KeyOK(b)'
    BY <1>0, <2>1, <2>2, <2>3 DEF PageOK, KeyOK, Addresses
  <2>5. AskOK(b)' /\ SaveOK(b)' /\ SignedIn(b)'
    BY <1>0, <2>1 DEF PageOK, AskOK, SaveOK, SignedIn, Account!UserOf
  <2>6. QED
    BY <1>0, <1>2, <2>1, <2>3, <2>4, <2>5 DEF PageOK, PageTyped
<1>16. ASSUME NEW b \in Browser, Account!SaveProfile(b) PROVE Goal
  <2>1. /\ op' = [op EXCEPT ![b] = [kind |-> "save", user |-> page[b].user]]
        /\ page[b].status = "authenticated" /\ Account!UserOf(b) = page[b].user
        /\ UNCHANGED <<session, cookie, page, me, cached>>
    BY <1>16 DEF Account!SaveProfile, Account!server, Account!client
  <2>2. page[b].user \in Email
    BY <1>0, <2>1 DEF PageTyped, Anyone
  <2>3. cookie[b].user = page[b].user
    BY <2>1, <2>2 DEF Account!UserOf, Addresses
  <2>4. op'[b] = [kind |-> "save", user |-> page[b].user]
    BY <1>0, <2>1 DEF BrowserTyped
  <2>5. SaveOK(b)'
    BY <2>1, <2>3, <2>4 DEF SaveOK
  <2>6. KeyOK(b)' /\ AskOK(b)' /\ SignedIn(b)' /\ PageTyped'
    BY <1>0, <2>1 DEF PageOK, KeyOK, AskOK, SignedIn, Account!UserOf, PageTyped
  <2>7. QED
    BY <1>0, <1>2, <2>1, <2>5, <2>6 DEF PageOK, BrowserTyped
<1>17. ASSUME NEW b \in Browser, Account!ProfileSaved(b) PROVE Goal
  <2> DEFINE e == op[b].user
  <2>1. /\ op[b].kind = "save" /\ op' = [op EXCEPT ![b] = Account!None]
        /\ cached' = [cached EXCEPT ![b] = (@ \union {e}) \ Account!Forgets(b, e)]
        /\ page' = [page EXCEPT ![b] = Account!Shown("authenticated", e, e, @.late \/ @.key # e)]
        /\ me' = [me EXCEPT ![b] = Account!NoAsk]
        /\ UNCHANGED cookie
    BY <1>17 DEF Account!ProfileSaved, Account!Done, Account!CancelRequest
  <2>2. e \in Email
    BY <1>0, <2>1, FormKinds
  <2>3. /\ page'[b] = Account!Shown("authenticated", e, e, page[b].late \/ page[b].key # e)
        /\ cached'[b] = (cached[b] \union {e}) \ Account!Forgets(b, e)
        /\ ~me'[b].answered /\ op'[b].kind = "none"
    BY <1>0, <2>1 DEF PageTyped, BrowserTyped, Account!NoAsk, Account!None
  <2>4. PageTyped'
    BY <1>0, <2>1, <2>2 DEF PageTyped, Account!Shown, Account!NoAsk, Anyone, Addresses
  <2>5. KeyOK(b)'
    BY <1>0, <2>2, <2>3 DEF PageOK, KeyOK, Account!Forgets, Account!Shown, Addresses
  <2>6. AskOK(b)' /\ SaveOK(b)'
    BY <2>3 DEF AskOK, SaveOK
  <2>7. SignedIn(b)'
    <3>1. page'[b].status = "authenticated" /\ page'[b].user = e
      BY <2>3 DEF Account!Shown
    <3>2. ~page'[b].late => page[b].key = e
      <4>1. page'[b].late = (page[b].late \/ page[b].key # e)
        BY <2>3 DEF Account!Shown
      <4>2. QED
        BY <4>1
    <3>3. page[b].key = e => cookie[b].user = e
      BY <1>0, <2>1 DEF PageOK, SaveOK
    <3>4. QED
      BY <2>1, <3>1, <3>2, <3>3 DEF SignedIn
  <2>8. QED
    BY <1>0, <1>2, <2>1, <2>4, <2>5, <2>6, <2>7 DEF PageOK, PageTyped, BrowserTyped
<1>18. CASE UNCHANGED Account!vars
  BY <1>1, <1>18 DEF Account!vars, Quiet, Goal
<1>19. QED
  BY <1>3, <1>4, <1>5, <1>6, <1>7, <1>8, <1>9, <1>10, <1>11, <1>12, <1>13, <1>14, <1>15, <1>16,
     <1>17, <1>18 DEF Account!Next, Goal

-----------------------------------------------------------------------------
LEMMA BrowserStep ==
  ASSUME Addresses, AccountsOK, [Account!Next]_(Account!vars)
  PROVE  BrowserTyped'
<1> DEFINE Goal == BrowserTyped'
<1>0. /\ BrowserTyped /\ ServerTyped /\ PageTyped /\ MaxSerial \in Nat
      /\ serial' \in Nat /\ serial \in Nat /\ serial <= serial'
      /\ \A e \in Email : account[e].made => account'[e].made
  BY ServerStep DEF AccountsOK, ServerTyped, Addresses
\* The form of one browser changes, or its cookie.
<1>1. ASSUME NEW b \in Browser, NEW f \in Forms, op' = [op EXCEPT ![b] = f],
             f.kind # "loggedIn", f.kind = "mail" => account'[f.user].made,
             UNCHANGED <<cookie, leaving>>
      PROVE  Goal
  <2>1. op' \in [Browser -> Forms] /\ op'[b] = f /\ \A c \in Browser \ {b} : op'[c] = op[c]
    BY <1>0, <1>1 DEF BrowserTyped
  <2>2. \A c \in Browser : op'[c].kind = "loggedIn" => op'[c].n <= serial'
    BY <1>0, <1>1, <2>1, FormKinds
  <2>3. \A c \in Browser : op'[c].kind = "mail" => account'[op'[c].user].made
    BY <1>0, <1>1, <2>1, FormKinds DEF BrowserTyped
  <2>4. QED
    BY <1>0, <1>1, <2>1, <2>2, <2>3 DEF BrowserTyped
<1>2. ASSUME leaving' \in [Browser -> BOOLEAN], UNCHANGED op,
             \/ UNCHANGED cookie
             \/ \E b \in Browser : cookie' = [cookie EXCEPT ![b] = Account!NoCookie]
      PROVE  Goal
  <2>1. cookie' \in [Browser -> [n : 0 .. MaxSerial, user : Anyone]]
    BY <1>0, <1>2 DEF BrowserTyped, Account!NoCookie, Anyone
  <2>2. \A c \in Browser : cookie'[c].n <= serial'
    BY <1>0, <1>2 DEF BrowserTyped, Account!NoCookie
  <2>3. \A c \in Browser : op'[c].kind = "loggedIn" => op'[c].n <= serial'
    BY <1>0, <1>2, FormKinds
  <2>4. \A c \in Browser : op'[c].kind = "mail" => account'[op'[c].user].made
    BY <1>0, <1>2, FormKinds DEF BrowserTyped
  <2>5. QED
    BY <1>0, <1>2, <2>1, <2>2, <2>3, <2>4 DEF BrowserTyped
<1>3. leaving \in [Browser -> BOOLEAN] /\ op \in [Browser -> Forms]
  BY <1>0 DEF BrowserTyped
<1>4. Account!None \in Forms /\ Account!None.kind = "none"
  BY DEF Forms, Account!None
<1> HIDE DEF Goal
<1>5. ASSUME NEW b \in Browser, NEW e \in Email, Account!Register(b, e) \/ Account!Login(b, e)
      PROVE  Goal
  <2> DEFINE r == [kind |-> "register", user |-> e]
             l == [kind |-> "login", user |-> e, pass |-> account[e].pass, overtaken |-> FALSE]
  <2>1. r \in Forms /\ l \in Forms /\ r.kind = "register" /\ l.kind = "login"
    BY <1>0 DEF Forms, ServerTyped
  <2>2. /\ op' = [op EXCEPT ![b] = r] \/ op' = [op EXCEPT ![b] = l]
        /\ UNCHANGED <<cookie, leaving>>
    BY <1>5 DEF Account!Register, Account!Login, Account!client
  <2> HIDE DEF r, l
  <2>3. QED
    BY <1>1, <2>1, <2>2
\* The mail form names an account that is made and the serial just handed out.
<1>6. ASSUME NEW b \in Browser, NEW k \in Account!Kinds, NEW e \in Email,
             Account!SaveToken(k, e), Account!Mailing(b, k, e), account'[e].made,
             UNCHANGED <<cookie, leaving>>
      PROVE  Goal
  <2> DEFINE m == [kind |-> "mail", token |-> k, user |-> e, n |-> serial + 1]
  <2>1. CASE token[k][e].cooling
    BY <1>1, <1>4, <1>6, <2>1 DEF Account!Mailing
  <2>2. CASE ~token[k][e].cooling
    <3>1. serial + 1 \in 1 .. MaxSerial
      BY <1>0, <1>6, <2>2 DEF Account!SaveToken, ServerTyped
    <3>2. m \in Forms /\ m.kind = "mail" /\ m.user = e
      BY <3>1 DEF Forms
    <3>3. op' = [op EXCEPT ![b] = m]
      BY <1>6, <2>2 DEF Account!Mailing
    <3> HIDE DEF m
    <3>4. QED
      BY <1>1, <1>6, <3>2, <3>3
  <2>3. QED
    BY <2>1, <2>2
<1>7. ASSUME NEW b \in Browser, Account!CreateUser(b) PROVE Goal
  <2> DEFINE e == op[b].user
  <2>1. e \in Email
    BY <1>0, <1>7, FormKinds DEF Account!CreateUser
  <2>2. CASE account[e].made
    BY <1>1, <1>4, <1>7, <2>2 DEF Account!CreateUser, Account!Done, Account!client
  <2>3. CASE ~account[e].made
    <3>1. account'[e].made
      BY <1>0, <1>7, <2>1, <2>3 DEF Account!CreateUser, ServerTyped
    <3>2. QED
      BY <1>6, <1>7, <2>1, <2>3, <3>1 DEF Account!CreateUser, Account!client, Account!Kinds
  <2>4. QED
    BY <2>2, <2>3
<1>8. ASSUME NEW b \in Browser, NEW e \in Email,
             Account!ResendVerification(b, e) \/ Account!RequestPasswordReset(b, e)
      PROVE  Goal
  <2>1. account'[e].made
    BY <1>0, <1>8 DEF Account!ResendVerification, Account!RequestPasswordReset
  <2>2. QED
    BY <1>6, <1>8, <2>1
       DEF Account!ResendVerification, Account!RequestPasswordReset, Account!client, Account!Kinds
<1>9. ASSUME NEW b \in Browser, Account!SendMail(b) PROVE Goal
  BY <1>1, <1>4, <1>9 DEF Account!SendMail, Account!Done, Account!client
<1>10. ASSUME NEW b \in Browser, Account!CreateSession(b) PROVE Goal
  <2> DEFINE f == [kind |-> "loggedIn", user |-> op[b].user, n |-> serial + 1]
  <2>1. /\ op' = [op EXCEPT ![b] = f] /\ serial' = serial + 1 /\ serial < MaxSerial
        /\ op[b].kind = "login" /\ UNCHANGED <<account, cookie, leaving>>
    BY <1>10 DEF Account!CreateSession, Account!client
  <2>2. f \in Forms /\ f.kind = "loggedIn" /\ f.n = serial'
    BY <1>0, <2>1, FormKinds DEF Forms, ServerTyped
  <2> HIDE DEF f
  <2>3. op' \in [Browser -> Forms] /\ op'[b] = f /\ \A c \in Browser \ {b} : op'[c] = op[c]
    BY <1>3, <2>1, <2>2
  <2>4. \A c \in Browser : op'[c].kind = "loggedIn" => op'[c].n <= serial'
    BY <1>0, <2>2, <2>3, FormKinds
  <2>5. \A c \in Browser : op'[c].kind = "mail" => account'[op'[c].user].made
    BY <1>0, <2>1, <2>2, <2>3 DEF BrowserTyped
  <2>6. \A c \in Browser : cookie'[c].n <= serial'
    BY <1>0, <2>1 DEF BrowserTyped
  <2>7. QED
    BY <1>0, <2>1, <2>3, <2>4, <2>5, <2>6 DEF BrowserTyped, Goal
<1>11. ASSUME NEW b \in Browser, Account!LoginAnswered(b) PROVE Goal
  <2>1. /\ op[b].kind = "loggedIn" /\ op' = [op EXCEPT ![b] = Account!None]
        /\ cookie' = [cookie EXCEPT ![b] = [n |-> op[b].n, user |-> op[b].user]]
        /\ UNCHANGED <<account, serial, leaving>>
    BY <1>11 DEF Account!LoginAnswered, Account!Done, Account!server
  <2>2. op' \in [Browser -> Forms] /\ \A c \in Browser : op'[c] \in {op[c], Account!None}
    BY <1>3, <1>4, <2>1
  <2>3. op[b].n \in 1 .. MaxSerial /\ op[b].n <= serial /\ op[b].user \in Email
    BY <1>0, <2>1, FormKinds
  <2>4. /\ cookie' \in [Browser -> [n : 0 .. MaxSerial, user : Anyone]]
        /\ \A c \in Browser : cookie'[c].n <= serial'
    BY <1>0, <2>1, <2>3 DEF BrowserTyped, Anyone
  <2>5. QED
    BY <1>0, <1>4, <2>1, <2>2, <2>4 DEF BrowserTyped, Goal
<1>12. ASSUME NEW b \in Browser, Account!Logout(b) \/ Account!LogoutAnswered(b) PROVE Goal
  BY <1>2, <1>3, <1>12 DEF Account!Logout, Account!LogoutAnswered, Account!server
<1>13. ASSUME NEW b \in Browser,
              \/ Account!Refresh(b) \/ Account!FindUser(b) \/ Account!RefreshAnswered(b)
              \/ Account!RefreshFailed(b) \/ Account!LoadAccountQuery(b)
       PROVE  Goal
  BY <1>2, <1>3, <1>13
     DEF Account!Refresh, Account!FindUser, Account!RefreshAnswered, Account!RefreshFailed,
         Account!LoadAccountQuery
<1>14. ASSUME NEW b \in Browser, Account!SaveProfile(b) PROVE Goal
  <2> DEFINE f == [kind |-> "save", user |-> page[b].user]
  <2>1. page[b].user \in Email
    BY <1>0, <1>14 DEF Account!SaveProfile, PageTyped, Anyone
  <2>2. f \in Forms /\ f.kind = "save"
    BY <2>1 DEF Forms
  <2>3. op' = [op EXCEPT ![b] = f] /\ UNCHANGED <<cookie, leaving>>
    BY <1>14 DEF Account!SaveProfile, Account!client
  <2> HIDE DEF f
  <2>4. QED
    BY <1>1, <2>2, <2>3
<1>15. ASSUME NEW b \in Browser, Account!ProfileSaved(b) PROVE Goal
  BY <1>1, <1>4, <1>15 DEF Account!ProfileSaved, Account!Done
<1>16. ASSUME \/ \E l \in mail : Account!VerifyEmail(l)
              \/ \E k \in Account!Kinds, e \in Email : Account!Cooled(k, e) \/ Account!TokenExpires(k, e)
              \/ \E s \in session : Account!SessionExpires(s)
       PROVE  Goal
  BY <1>2, <1>3, <1>16
     DEF Account!VerifyEmail, Account!Cooled, Account!TokenExpires, Account!SessionExpires,
         Account!client
<1>17. ASSUME NEW l \in mail, Account!ResetPassword(l) PROVE Goal
  <2>1. /\ op' = [b \in Browser |-> IF op[b].kind = "login" /\ op[b].user = l.user
                                    THEN [op[b] EXCEPT !.overtaken = TRUE] ELSE op[b]]
        /\ UNCHANGED <<cookie, leaving, serial>>
    BY <1>17 DEF Account!ResetPassword, Account!client
  <2>2. \A b \in Browser : op[b].kind = "login" =>
          [op[b] EXCEPT !.overtaken = TRUE] \in Forms
          /\ [op[b] EXCEPT !.overtaken = TRUE].kind = "login"
    BY <1>0, FormKinds DEF Forms
  <2>3. op' \in [Browser -> Forms] /\ \A b \in Browser : op'[b] = op[b] \/ op'[b].kind = "login"
    BY <1>3, <2>1, <2>2
  <2>4. \A c \in Browser : op'[c].kind = "mail" => account'[op'[c].user].made
    BY <1>0, <2>3, FormKinds DEF BrowserTyped
  <2>5. \A c \in Browser : op'[c].kind = "loggedIn" => op'[c].n <= serial'
    BY <1>0, <2>1, <2>3, FormKinds
  <2>6. QED
    BY <1>0, <2>1, <2>3, <2>4, <2>5 DEF BrowserTyped, Goal
<1>18. CASE UNCHANGED Account!vars
  BY <1>2, <1>3, <1>18 DEF Account!vars, Goal
<1>19. QED
  BY <1>5, <1>7, <1>8, <1>9, <1>10, <1>11, <1>12, <1>13, <1>14, <1>15, <1>16, <1>17, <1>18
     DEF Account!Next, Goal

LEMMA RevocationStep ==
  ASSUME Addresses, AccountsOK, [Account!Next]_(Account!vars)
  PROVE  LoginsOK' /\ Account!ResetRevokes'
<1> DEFINE Goal == LoginsOK' /\ Account!ResetRevokes'
<1>0. BrowserTyped /\ ServerTyped /\ LoginsOK /\ Account!ResetRevokes /\ PageTyped
  BY DEF AccountsOK
\* A password version, a login and a session stay what they are.
<1>1. ASSUME \A e \in Email : account'[e].pass = account[e].pass,
             \A b \in Browser : op'[b] = op[b] \/ op'[b].kind # "login",
             session' \subseteq session
      PROVE  Goal
  <2>1. LoginsOK'
    BY <1>0, <1>1, FormKinds DEF LoginsOK
  <2>2. \A s \in session : s.user \in Email
    BY <1>0 DEF ServerTyped
  <2>3. QED
    BY <1>0, <1>1, <2>1, <2>2 DEF Account!ResetRevokes
<1> HIDE DEF Goal
<1>2. ASSUME NEW b \in Browser, NEW e \in Email,
             \/ Account!Register(b, e) \/ Account!ResendVerification(b, e)
             \/ Account!RequestPasswordReset(b, e)
      PROVE  Goal
  BY <1>0, <1>1, <1>2
     DEF Account!Register, Account!ResendVerification, Account!RequestPasswordReset, BrowserTyped,
         Account!Mailing, Account!None, Account!server
<1>3. ASSUME NEW b \in Browser, NEW e \in Email, Account!Login(b, e) PROVE Goal
  <2>1. /\ op' = [op EXCEPT ![b] = [kind |-> "login", user |-> e, pass |-> account[e].pass,
                                    overtaken |-> FALSE]]
        /\ UNCHANGED <<account, session>>
    BY <1>3 DEF Account!Login, Account!server
  <2>2. LoginsOK'
    BY <1>0, <2>1 DEF LoginsOK, BrowserTyped
  <2>3. QED
    BY <1>0, <2>1, <2>2 DEF Account!ResetRevokes, Goal
<1>4. ASSUME NEW b \in Browser, Account!CreateUser(b) PROVE Goal
  <2>1. \A e \in Email : account'[e].pass = account[e].pass
    BY <1>0, <1>4, FormKinds DEF Account!CreateUser, ServerTyped, Account!server
  <2>2. \A c \in Browser : op'[c] = op[c] \/ op'[c].kind # "login"
    BY <1>0, <1>4 DEF Account!CreateUser, Account!Mailing, Account!Done, Account!None, BrowserTyped
  <2>3. QED
    BY <1>1, <1>4, <2>1, <2>2 DEF Account!CreateUser, Account!server
<1>5. ASSUME NEW b \in Browser, Account!CreateSession(b) PROVE Goal
  <2> DEFINE new == [n |-> serial + 1, user |-> op[b].user, pass |-> op[b].pass,
                     overtaken |-> op[b].overtaken]
  <2>1. /\ session' = session \union {new} /\ op[b].kind = "login"
        /\ op' = [op EXCEPT ![b] = [kind |-> "loggedIn", user |-> op[b].user, n |-> serial + 1]]
        /\ UNCHANGED account
    BY <1>5 DEF Account!CreateSession
  <2>2. new.pass = account[new.user].pass \/ new.overtaken
    BY <1>0, <2>1 DEF LoginsOK
  <2>3. Account!ResetRevokes'
    BY <1>0, <2>1, <2>2 DEF Account!ResetRevokes
  <2>4. LoginsOK'
    BY <1>0, <2>1 DEF LoginsOK, BrowserTyped
  <2>5. QED
    BY <2>3, <2>4 DEF Goal
<1>6. ASSUME NEW b \in Browser,
             \/ Account!SendMail(b) \/ Account!LoginAnswered(b) \/ Account!ProfileSaved(b)
             \/ Account!SaveProfile(b)
      PROVE  Goal
  <2>1. \A c \in Browser : op'[c] = op[c] \/ op'[c].kind # "login"
    BY <1>0, <1>6
       DEF Account!SendMail, Account!LoginAnswered, Account!ProfileSaved, Account!SaveProfile,
           Account!Done, Account!None, BrowserTyped
  <2>2. UNCHANGED <<account, session>>
    BY <1>6
       DEF Account!SendMail, Account!LoginAnswered, Account!ProfileSaved, Account!SaveProfile,
           Account!server
  <2>3. QED
    BY <1>1, <2>1, <2>2
<1>7. ASSUME NEW b \in Browser,
             \/ Account!Logout(b) \/ Account!LogoutAnswered(b) \/ Account!Refresh(b)
             \/ Account!FindUser(b) \/ Account!RefreshAnswered(b)
             \/ Account!RefreshFailed(b) \/ Account!LoadAccountQuery(b)
      PROVE  Goal
  BY <1>1, <1>7
     DEF Account!Logout, Account!LogoutAnswered, Account!Refresh, Account!FindUser,
         Account!RefreshAnswered, Account!RefreshFailed, Account!LoadAccountQuery, Account!server
<1>8. ASSUME NEW l \in mail, Account!VerifyEmail(l) PROVE Goal
  <2>1. \A e \in Email : account'[e].pass = account[e].pass
    BY <1>0, <1>8 DEF Account!VerifyEmail, ServerTyped
  <2>2. QED
    BY <1>1, <1>8, <2>1 DEF Account!VerifyEmail
\* A reset drops the sessions of its account and notes the logins that are under way.
<1>9. ASSUME NEW l \in mail, Account!ResetPassword(l) PROVE Goal
  <2>1. /\ account' = [account EXCEPT ![l.user].pass = @ + 1]
        /\ session' = {s \in session : s.user # l.user}
        /\ op' = [b \in Browser |-> IF op[b].kind = "login" /\ op[b].user = l.user
                                    THEN [op[b] EXCEPT !.overtaken = TRUE] ELSE op[b]]
    BY <1>9 DEF Account!ResetPassword, Account!SessionsRevoked
  <2>2. \A e \in Email \ {l.user} : account'[e] = account[e]
    BY <1>0, <2>1 DEF ServerTyped
  <2>3. Account!ResetRevokes'
    BY <1>0, <2>1, <2>2 DEF Account!ResetRevokes, ServerTyped
  <2>4. ASSUME NEW b \in Browser, op'[b].kind = "login"
        PROVE  op'[b].pass = account'[op'[b].user].pass \/ op'[b].overtaken
    <3>1. CASE op[b].kind = "login" /\ op[b].user = l.user
      BY <1>0, <2>1, <3>1, FormKinds
    <3>2. CASE ~(op[b].kind = "login" /\ op[b].user = l.user)
      BY <1>0, <2>1, <2>2, <2>4, <3>2, FormKinds DEF LoginsOK
    <3>3. QED
      BY <3>1, <3>2
  <2>5. QED
    BY <2>3, <2>4 DEF LoginsOK, Goal
<1>10. ASSUME \/ \E k \in Account!Kinds, e \in Email : Account!Cooled(k, e) \/ Account!TokenExpires(k, e)
              \/ \E s \in session : Account!SessionExpires(s)
       PROVE  Goal
  BY <1>1, <1>10 DEF Account!Cooled, Account!TokenExpires, Account!SessionExpires
<1>11. CASE UNCHANGED Account!vars
  BY <1>1, <1>11 DEF Account!vars, Goal
<1>12. QED
  BY <1>2, <1>3, <1>4, <1>5, <1>6, <1>7, <1>8, <1>9, <1>10, <1>11 DEF Account!Next, Goal

LEMMA AccountsStep ==
  ASSUME Addresses, AccountsOK, [Account!Next]_(Account!vars) PROVE AccountsOK'
  BY ServerStep, PagesStep, BrowserStep, RevocationStep DEF AccountsOK

LEMMA AccountsKept ==
  ASSUME AccountsOK
  PROVE  Account!ResetRevokes /\ Account!NoForeignData /\ Account!ShownIsSignedIn
<1>1. ASSUME NEW b \in Browser, page[b].status \in {"authenticated", "guest"}
      PROVE  cached[b] \subseteq {page[b].user}
  BY <1>1 DEF AccountsOK, PagesOK, KeyOK
<1>2. Account!ShownIsSignedIn
  BY DEF AccountsOK, PagesOK, SignedIn, Account!ShownIsSignedIn, Account!UserOf, Account!NoOne
<1>3. QED
  BY <1>1, <1>2 DEF AccountsOK, Account!NoForeignData

(***************************************************************************)
(* The inductive invariant of the accounts: what the forms and requests    *)
(* under way may still do to a page, and which logins a reset overtook.    *)
(***************************************************************************)
THEOREM AccountsInvariant == ASSUME Addresses PROVE Account!Spec => []AccountsOK
<1>1. Account!Init => AccountsOK
  BY AccountsInit
<1>2. AccountsOK /\ [Account!Next]_(Account!vars) => AccountsOK'
  BY AccountsStep
<1>3. QED
  BY <1>1, <1>2, PTL DEF Account!Spec

(***************************************************************************)
(* A password reset leaves no session of the old password, a page never    *)
(* keeps the queries of another account, and what it shows of its account  *)
(* agrees with its cookie (auth.service.ts, AuthProvider).                 *)
(***************************************************************************)
THEOREM AccessOfAccounts ==
  ASSUME Addresses
  PROVE  Account!Spec =>
           [](Account!ResetRevokes /\ Account!NoForeignData /\ Account!ShownIsSignedIn)
<1>1. AccountsOK => Account!ResetRevokes /\ Account!NoForeignData /\ Account!ShownIsSignedIn
  BY AccountsKept
<1>2. QED
  BY <1>1, AccountsInvariant, PTL

-----------------------------------------------------------------------------
(***************************************************************************)
(* Companion: a page that has asked for a pairing holds on to the request  *)
(* until it is kept, closed in the helper, or the call that would close it *)
(* failed.  The viewer decides about a request once, and a token is given  *)
(* with the decision: what is gone stays gone (Onward), so what a page has *)
(* seen of its request or token does not become wrong.                     *)
(***************************************************************************)
PairingStates == {"pending", "approved"} \cup Pairing!Closed
PairingSteps == {"none", "hello", "read", "check", "forget", "create", "poll", "pause", "write", "cancel",
          "unwrite", "readOld", "revoke", "clear"}
Early == {"none", "hello", "read", "check", "forget", "readOld", "revoke", "clear"}
Later == {"forget", "create", "poll", "pause", "write", "cancel", "unwrite", "clear"}
Tasks == [at : PairingSteps, answer : {"none", "ok", "unpaired", "refused"} \cup PairingStates,
          token : Nat, mine : Nat, written : BOOLEAN, has : BOOLEAN, aborted : BOOLEAN]

Statuses ==
  [status : {"loading", "idle", "saved", "connecting", "pending", "paired", "disconnecting", "error"},
   has : BOOLEAN]

PairTyped ==
  /\ asked \in Seq(PairingStates)
  /\ granted \subseteq DOMAIN asked /\ stored \in {0} \cup DOMAIN asked
  /\ call \in [Pages -> Tasks] /\ shown \in [Pages -> Statuses]
  /\ \A p \in Pages : call[p].mine \in {0} \cup DOMAIN asked
  /\ \A p \in Pages : call[p].token \in {0} \cup DOMAIN asked

Gone(r) == r \notin granted /\ r \notin Pairing!Open

\* What a page's step says of its request, and what it has learned of its token.
HoldsRequest(p) ==
  /\ call[p].at \in Early => call[p].mine = 0
  /\ call[p].at \in {"read", "readOld", "forget"} => call[p].answer = "none"
  /\ call[p].at = "create" /\ call[p].answer = "none" => call[p].mine = 0
  /\ call[p].at = "create" /\ call[p].answer \notin {"none", "refused"} => call[p].mine # 0
  /\ call[p].at = "check" => call[p].answer \in {"none", "ok", "unpaired"}
  /\ call[p].at \in {"poll", "pause", "write", "cancel", "unwrite"} => call[p].mine # 0
  /\ call[p].at = "write" => call[p].mine \notin Pairing!Open
  /\ call[p].at = "poll" /\ call[p].answer = "approved" => call[p].mine \notin Pairing!Open
  /\ call[p].at = "cancel" /\ call[p].answer # "none" => Gone(call[p].mine)
  /\ call[p].at = "unwrite" => call[p].mine \in doubted \/ Gone(call[p].mine)

KnowsToken(p) ==
  /\ call[p].token \notin Pairing!Open
  /\ call[p].at \in Later => Gone(call[p].token)
  /\ call[p].at = "revoke" /\ call[p].answer # "none" => Gone(call[p].token)
  /\ call[p].at = "check" /\ call[p].answer = "unpaired" => Gone(call[p].token)

PairingOK ==
  /\ PairTyped /\ stored \notin Pairing!Open
  /\ \A p \in Pages : HoldsRequest(p) /\ KnowsToken(p)
  /\ Pairing!NothingLeftOpen

LEMMA PairingInit == ASSUME Pairing!Init PROVE PairingOK
<1> USE DEF Pairing!Init, Pairing!Idle, Pairing!Status
<1>1. asked \in Seq(PairingStates) /\ DOMAIN asked = {}
  BY EmptySeq
<1>2. PairTyped
  <2>1. Pairing!Idle \in Tasks
    BY DEF Tasks, PairingSteps
  <2>2. call \in [Pages -> Tasks] /\ \A p \in Pages : call[p].mine = 0 /\ call[p].token = 0
    BY <2>1
  <2>3. shown \in [Pages -> Statuses]
    BY DEF Statuses
  <2>4. QED
    BY <1>1, <2>2, <2>3 DEF PairTyped
<1>3. \A p \in Pages : HoldsRequest(p) /\ KnowsToken(p)
  BY <1>1 DEF HoldsRequest, KnowsToken, Gone, Later, Pairing!Open
<1>4. QED
  BY <1>1, <1>2, <1>3 DEF PairingOK, Pairing!NothingLeftOpen, Pairing!Open

-----------------------------------------------------------------------------
\* How the helper's side moves.
Onward ==
  /\ DOMAIN asked \subseteq DOMAIN asked' /\ 0 \notin DOMAIN asked'
  /\ \A r \in {0} \cup DOMAIN asked :
       /\ r \notin Pairing!Open => r \notin Pairing!Open'
       /\ Gone(r) => r \notin granted' /\ r \notin Pairing!Open'
  /\ kept \subseteq kept' /\ doubted \subseteq doubted'

LEMMA HelperRests ==
  ASSUME PairTyped, UNCHANGED asked, granted' \subseteq granted,
         kept \subseteq kept', doubted \subseteq doubted'
  PROVE  Onward
<1>1. 0 \notin DOMAIN asked
  BY DEF PairTyped
<1>2. QED
  BY <1>1 DEF Onward, Gone, Pairing!Open

\* Another page's request and token stay what they are.
LEMMA PageRests ==
  ASSUME PairingOK, Onward, NEW p \in Pages, call'[p] = call[p]
  PROVE  HoldsRequest(p)' /\ KnowsToken(p)'
<1>1. /\ call[p].mine \in {0} \cup DOMAIN asked /\ call[p].token \in {0} \cup DOMAIN asked
      /\ HoldsRequest(p) /\ KnowsToken(p)
  BY DEF PairingOK, PairTyped
<1> HIDE DEF Pairing!Open
<1>2. HoldsRequest(p)'
  BY <1>1 DEF HoldsRequest, Onward, Gone
<1>3. KnowsToken(p)'
  BY <1>1 DEF KnowsToken, Onward, Gone
<1>4. QED
  BY <1>2, <1>3

\* A page that lets go of its request leaves it kept, closed or unsure.
LetsGo(p) ==
  \/ call[p].mine = 0 \/ call'[p].mine = call[p].mine
  \/ call[p].mine \in kept' \cup doubted'
  \/ call[p].mine \notin granted' /\ call[p].mine \notin Pairing!Open'

Moves(p) ==
  /\ call' \in [Pages -> Tasks] /\ shown' \in [Pages -> Statuses]
  /\ \A q \in Pages \ {p} : call'[q] = call[q]

LEMMA OnePageMoves ==
  ASSUME PairingOK, Onward, NEW p \in Pages, Moves(p), LetsGo(p),
         HoldsRequest(p)', KnowsToken(p)',
         asked' \in Seq(PairingStates), granted' \subseteq DOMAIN asked',
         DOMAIN asked' \subseteq DOMAIN asked \cup {call'[p].mine},
         call'[p].mine \in {0} \cup DOMAIN asked', call'[p].token \in {0} \cup DOMAIN asked',
         stored' \in {0} \cup DOMAIN asked', stored' \notin Pairing!Open'
  PROVE  PairingOK'
<1>1. \A q \in Pages : HoldsRequest(q)' /\ KnowsToken(q)'
  BY PageRests DEF Moves
<1>2. PairTyped'
  BY DEF PairTyped, PairingOK, Moves, Onward
<1>3. ASSUME NEW r \in DOMAIN asked'
      PROVE  \/ r \in kept' \cup doubted' \/ \E q \in Pages : call'[q].mine = r
             \/ r \notin Pairing!Open' /\ r \notin granted'
  <2>1. CASE r = call'[p].mine
    BY <2>1
  <2>2. CASE r # call'[p].mine
    <3>1. r \in DOMAIN asked
      BY <2>2
    <3>2. \/ r \in kept \cup doubted \/ \E q \in Pages : call[q].mine = r
          \/ r \notin Pairing!Open /\ r \notin granted
      BY <3>1 DEF PairingOK, Pairing!NothingLeftOpen, Pairing!Open
    <3> HIDE DEF Pairing!Open
    <3>3. CASE r \in kept \cup doubted \/ (r \notin Pairing!Open /\ r \notin granted)
      BY <3>1, <3>3 DEF Onward, Gone
    <3>4. CASE \E q \in Pages : call[q].mine = r
      <4>1. PICK q \in Pages : call[q].mine = r
        BY <3>4
      <4>2. CASE q # p
        BY <4>1, <4>2 DEF Moves
      <4>3. CASE q = p
        <5>1. r # 0
          BY <3>1 DEF Onward
        <5>2. QED
          BY <2>2, <4>1, <4>3, <5>1 DEF LetsGo
      <4>4. QED
        BY <4>2, <4>3
    <3>5. QED
      BY <3>2, <3>3, <3>4
  <2>3. QED
    BY <2>1, <2>2
<1>4. Pairing!NothingLeftOpen'
  <2>1. SUFFICES ASSUME NEW r \in DOMAIN asked'
                 PROVE  \/ r \in kept' \cup doubted' \/ \E q \in Pages : call'[q].mine = r
                        \/ asked'[r] # "pending" /\ r \notin granted'
    BY DEF Pairing!NothingLeftOpen
  <2>2. r \notin Pairing!Open' => asked'[r] # "pending"
    BY DEF Pairing!Open
  <2>3. QED
    BY <1>3, <2>2
<1>5. QED
  BY <1>1, <1>2, <1>4 DEF PairingOK

-----------------------------------------------------------------------------
\* What the parts of the actions make of a page.
LEMMA Goes ==
  ASSUME PairingOK, NEW p \in Pages, NEW s \in PairingSteps, Pairing!To(p, s)
  PROVE  /\ call' \in [Pages -> Tasks] /\ \A q \in Pages \ {p} : call'[q] = call[q]
         /\ call'[p].at = s /\ call'[p].answer = "none"
         /\ call'[p].mine = call[p].mine /\ call'[p].token = call[p].token
<1>1. call[p] \in Tasks
  BY DEF PairingOK, PairTyped
<1>2. [call[p] EXCEPT !.at = s, !.answer = "none"] \in Tasks
  BY <1>1 DEF Tasks
<1>3. call' = [call EXCEPT ![p] = [call[p] EXCEPT !.at = s, !.answer = "none"]]
  BY DEF Pairing!To
<1>4. QED
  BY <1>1, <1>2, <1>3 DEF PairingOK, PairTyped, Tasks

LEMMA ShownTyped ==
  ASSUME PairingOK, NEW p \in Pages, NEW s \in Statuses, Pairing!Show(p, s)
  PROVE  shown' \in [Pages -> Statuses]
  BY DEF PairingOK, PairTyped, Pairing!Show, Statuses

LEMMA Ends ==
  ASSUME PairingOK, NEW p \in Pages, NEW s \in Statuses, Pairing!End(p, s)
  PROVE  Moves(p) /\ call'[p] = Pairing!Idle
<1>1. Pairing!Idle \in Tasks
  BY DEF Tasks, PairingSteps, Pairing!Idle
<1>2. shown' \in [Pages -> Statuses]
  BY ShownTyped DEF Pairing!End
<1>3. QED
  BY <1>1, <1>2 DEF PairingOK, PairTyped, Pairing!End, Moves, Statuses

LEMMA Unpaired ==
  ASSUME PairingOK, NEW p \in Pages, NEW has \in BOOLEAN PROVE Pairing!Unpaired(p, has) \in Statuses
  BY DEF Pairing!Unpaired, Pairing!Status, Statuses

LEMMA HasTyped ==
  ASSUME PairingOK, NEW p \in Pages PROVE call[p].has \in BOOLEAN /\ shown[p].has \in BOOLEAN
  BY DEF PairingOK, PairTyped, Tasks, Statuses

\* A connection or disconnection ends.
LEMMA EndStep ==
  ASSUME PairingOK, NEW p \in Pages, NEW s \in Statuses, Pairing!End(p, s),
         UNCHANGED <<asked, granted>>, kept \subseteq kept', doubted \subseteq doubted',
         stored' \in {0, stored} \/ (stored' = call[p].mine /\ call[p].mine \notin Pairing!Open),
         \/ call[p].mine = 0 \/ call[p].mine \in kept' \cup doubted' \/ Gone(call[p].mine)
  PROVE  PairingOK'
<1>1. Onward
  BY HelperRests DEF PairingOK
<1>2. Moves(p) /\ call'[p] = Pairing!Idle
  BY Ends
<1>3. /\ call'[p].at = "none" /\ call'[p].answer = "none" /\ call'[p].mine = 0 /\ call'[p].token = 0
      /\ Pairing!Open' = Pairing!Open /\ 0 \notin granted' /\ 0 \notin Pairing!Open
  BY <1>1, <1>2 DEF Pairing!Idle, Pairing!Open, Onward, PairingOK, PairTyped
<1>4. HoldsRequest(p)' /\ KnowsToken(p)'
  BY <1>3 DEF HoldsRequest, KnowsToken, Gone, Later
<1>5. LetsGo(p)
  BY <1>3 DEF LetsGo, Gone
<1>6. stored' \in {0} \cup DOMAIN asked' /\ stored' \notin Pairing!Open'
  BY <1>3 DEF PairingOK, PairTyped
<1>7. QED
  BY <1>1, <1>2, <1>3, <1>4, <1>5, <1>6, OnePageMoves DEF PairingOK, PairTyped

\* It goes on with the request and the token that it has.
LEMMA NextStep ==
  ASSUME PairingOK, NEW p \in Pages, NEW s \in PairingSteps, Pairing!To(p, s),
         UNCHANGED <<asked, granted, stored>>, kept \subseteq kept', doubted \subseteq doubted',
         shown' \in [Pages -> Statuses],
         s \in Early \cup {"create"} => call[p].mine = 0,
         s \in {"poll", "pause", "write", "cancel", "unwrite"} => call[p].mine # 0,
         s = "write" => call[p].mine \notin Pairing!Open,
         s = "unwrite" => call[p].mine \in doubted' \/ Gone(call[p].mine),
         s \in Later => Gone(call[p].token)
  PROVE  PairingOK'
<1>1. Onward
  BY HelperRests DEF PairingOK
<1>2. /\ Moves(p) /\ call'[p].at = s /\ call'[p].answer = "none"
      /\ call'[p].mine = call[p].mine /\ call'[p].token = call[p].token
  BY Goes DEF Moves, Statuses
<1>3. Pairing!Open' = Pairing!Open /\ KnowsToken(p)
  BY DEF Pairing!Open, PairingOK
<1>4. HoldsRequest(p)'
  BY <1>2, <1>3 DEF HoldsRequest, Gone, Early
<1>5. KnowsToken(p)'
  BY <1>2, <1>3 DEF KnowsToken, Gone
<1>6. QED
  BY <1>1, <1>2, <1>3, <1>4, <1>5, OnePageMoves DEF PairingOK, PairTyped, LetsGo

LEMMA FailStep ==
  ASSUME PairingOK, NEW p \in Pages, Pairing!Fail(p),
         UNCHANGED <<asked, granted, stored>>, kept \subseteq kept', doubted \subseteq doubted'
  PROVE  PairingOK'
<1>1. CASE call[p].mine # 0
  <2>1. Pairing!To(p, "cancel") /\ UNCHANGED shown
    BY <1>1 DEF Pairing!Fail
  <2>3. Gone(call[p].token)
    BY <1>1 DEF PairingOK, PairTyped, Tasks, PairingSteps, HoldsRequest, KnowsToken, Early, Later
  <2>2. QED
    BY <1>1, <2>1, <2>3, NextStep DEF PairingSteps, Early, PairingOK, PairTyped, Statuses
<1>2. CASE call[p].mine = 0
  <2>1. Pairing!End(p, Pairing!Unpaired(p, call[p].has))
    BY <1>2 DEF Pairing!Fail
  <2>2. QED
    BY <1>2, <2>1, EndStep, Unpaired, HasTyped
<1>3. QED
  BY <1>1, <1>2

-----------------------------------------------------------------------------
\* The helper answers a call.  Only an answer to a cancellation or a revocation closes
\* anything, and a new request is the one that the page then holds.
LEMMA ServedTyped ==
  ASSUME PairingOK, NEW p \in Pages,
         NEW a \in {"none", "ok", "unpaired", "refused"} \cup PairingStates, Pairing!Served(p, a)
  PROVE  /\ call' \in [Pages -> Tasks] /\ \A q \in Pages \ {p} : call'[q] = call[q]
         /\ call'[p].answer = a /\ call'[p].at = call[p].at
         /\ call'[p].mine = call[p].mine /\ call'[p].token = call[p].token
<1>1. call[p] \in Tasks
  BY DEF PairingOK, PairTyped
<1>2. [call[p] EXCEPT !.answer = a] \in Tasks
  BY <1>1 DEF Tasks
<1>3. call' = [call EXCEPT ![p] = [call[p] EXCEPT !.answer = a]]
  BY DEF Pairing!Served
<1>4. QED
  BY <1>1, <1>2, <1>3 DEF PairingOK, PairTyped, Tasks

LEMMA ServeStep == ASSUME PairingOK, NEW p \in Pages, Pairing!Serve(p) PROVE PairingOK'
<1>0. /\ PairTyped /\ HoldsRequest(p) /\ KnowsToken(p) /\ call[p].answer = "none"
      /\ UNCHANGED <<stored, shown, kept, doubted>> /\ stored \notin Pairing!Open
      /\ call[p].mine \in {0} \cup DOMAIN asked /\ call[p].token \in {0} \cup DOMAIN asked
      /\ DOMAIN asked = 1 .. Len(asked) /\ Len(asked) \in Nat
  BY DEF PairingOK, PairTyped, Pairing!Serve
<1>1. ASSUME NEW a \in {"none", "ok", "unpaired", "refused"} \cup PairingStates,
             Pairing!Served(p, a), UNCHANGED <<asked, granted>>,
             call[p].at # "cancel", call[p].at = "create" => a = "refused",
             call[p].at = "check" => a \in {"ok", "unpaired"},
             call[p].at = "poll" /\ a = "approved" => call[p].mine \notin Pairing!Open,
             call[p].at = "revoke" => Gone(call[p].token),
             call[p].at = "check" /\ a = "unpaired" => Gone(call[p].token),
             call[p].at \in {"hello", "check", "create", "poll", "revoke"}
      PROVE  PairingOK'
  <2>1. Onward
    BY <1>0, <1>1, HelperRests
  <2>2. /\ Moves(p) /\ call'[p].answer = a /\ call'[p].at = call[p].at
        /\ call'[p].mine = call[p].mine /\ call'[p].token = call[p].token
    BY <1>0, <1>1, ServedTyped DEF Moves, PairTyped
  <2>3. Pairing!Open' = Pairing!Open
    BY <1>1 DEF Pairing!Open
  <2>4. call[p].at = "create" => call[p].mine = 0
    BY <1>0 DEF HoldsRequest
  <2>5. HoldsRequest(p)'
    BY <1>0, <1>1, <2>2, <2>3, <2>4 DEF HoldsRequest, Gone, Early
  <2>6. KnowsToken(p)'
    BY <1>0, <1>1, <2>2, <2>3 DEF KnowsToken, Gone, Later
  <2>7. QED
    BY <1>0, <1>1, <2>1, <2>2, <2>3, <2>5, <2>6, OnePageMoves DEF PairingOK, PairTyped, LetsGo
\* The token of a page that is told it is unpaired is gone.
<1>2. call[p].token \notin granted => Gone(call[p].token)
  BY <1>0 DEF KnowsToken, Gone
<1>3. CASE call[p].at = "hello" /\ Pairing!Served(p, "ok") /\ UNCHANGED <<asked, granted>>
  BY <1>1, <1>3
<1>4. CASE /\ call[p].at = "check" /\ UNCHANGED <<asked, granted>>
           /\ Pairing!Served(p, IF call[p].token \in granted THEN "ok" ELSE "unpaired")
  <2>1. CASE call[p].token \in granted
    BY <1>1, <1>4, <2>1
  <2>2. CASE call[p].token \notin granted
    BY <1>1, <1>2, <1>4, <2>2
  <2>3. QED
    BY <2>1, <2>2
<1>5. CASE call[p].at = "create" /\ Pairing!Served(p, "refused") /\ UNCHANGED <<asked, granted>>
  BY <1>1, <1>5
<1>6. CASE /\ call[p].at = "create" /\ asked' = Append(asked, "pending") /\ UNCHANGED granted
           /\ call' = [call EXCEPT ![p].answer = "ok", ![p].mine = Len(asked')]
  <2>1. /\ asked' \in Seq(PairingStates) /\ Len(asked') = Len(asked) + 1
        /\ DOMAIN asked' = DOMAIN asked \cup {Len(asked) + 1}
        /\ \A r \in DOMAIN asked : asked'[r] = asked[r]
    BY <1>0, <1>6 DEF PairTyped, PairingStates
  <2>2. Onward
    BY <1>0, <2>1, <1>6 DEF Onward, Gone, Pairing!Open, PairTyped
  <2>3. call[p] \in Tasks /\ Len(asked') \in Nat
    BY <1>0, <2>1 DEF PairTyped
  <2>4. [call[p] EXCEPT !.answer = "ok", !.mine = Len(asked')] \in Tasks
    BY <2>3 DEF Tasks
  <2>5. call' = [call EXCEPT ![p] = [call[p] EXCEPT !.answer = "ok", !.mine = Len(asked')]]
    BY <1>6
  <2>6. /\ Moves(p) /\ call'[p].at = "create" /\ call'[p].answer = "ok"
        /\ call'[p].mine = Len(asked') /\ call'[p].token = call[p].token
    BY <1>0, <1>6, <2>3, <2>4, <2>5 DEF Moves, PairTyped, Tasks
  <2>7. call[p].mine = 0
    BY <1>0, <1>6 DEF HoldsRequest
  <2>8. HoldsRequest(p)' /\ KnowsToken(p)'
    <3>1. Len(asked') # 0
      BY <1>0, <2>1
    <3>2. QED
      <4> HIDE DEF Pairing!Open
      <4>1. Gone(call[p].token) /\ Gone(call[p].token)' /\ call[p].token \notin Pairing!Open'
        BY <1>0, <1>6, <2>2, <2>6 DEF KnowsToken, Later, Onward, Gone
      <4>2. call[p].at \notin Early
        BY <1>6 DEF Early
      <4>3. QED
        BY <1>0, <1>6, <2>2, <2>6, <3>1, <4>1, <4>2 DEF HoldsRequest, KnowsToken, Early, Later, Gone
  <2>9. stored' \in {0} \cup DOMAIN asked' /\ stored' \notin Pairing!Open'
    BY <1>0, <2>1, <2>2 DEF Onward, PairTyped
  <2>10. QED
    BY <1>0, <1>6, <2>1, <2>2, <2>6, <2>7, <2>8, <2>9, OnePageMoves DEF LetsGo, PairTyped
<1>7. CASE call[p].at = "poll" /\ Pairing!Served(p, asked[call[p].mine]) /\ UNCHANGED <<asked, granted>>
  <2>1. call[p].mine \in DOMAIN asked
    BY <1>0, <1>7 DEF HoldsRequest
  <2>2. asked[call[p].mine] \in PairingStates
    BY <1>0, <2>1 DEF PairTyped
  <2>3. asked[call[p].mine] = "approved" => call[p].mine \notin Pairing!Open
    BY DEF Pairing!Open
  <2>4. QED
    BY <1>1, <1>7, <2>2, <2>3
<1>8. CASE /\ call[p].at = "cancel" /\ Pairing!Served(p, "ok")
           /\ asked' = [asked EXCEPT ![call[p].mine] = IF @ \in Pairing!Closed THEN @ ELSE "cancelled"]
           /\ granted' = granted \ {call[p].mine}
  <2>1. call[p].mine \in DOMAIN asked
    BY <1>0, <1>8 DEF HoldsRequest
  <2>2. /\ asked' \in Seq(PairingStates) /\ DOMAIN asked' = DOMAIN asked
        /\ asked'[call[p].mine] \in Pairing!Closed
        /\ \A r \in DOMAIN asked \ {call[p].mine} : asked'[r] = asked[r]
    BY <1>0, <1>8, <2>1 DEF PairTyped, PairingStates, Pairing!Closed
  <2>3. call[p].mine \notin granted' /\ call[p].mine \notin Pairing!Open'
    BY <1>8, <2>2 DEF Pairing!Open, Pairing!Closed
  <2>4. Pairing!Open' \subseteq Pairing!Open
    BY <2>2, <2>3 DEF Pairing!Open
  <2>5. Onward
    <3> HIDE DEF Pairing!Open
    <3>1. QED
      BY <1>0, <1>8, <2>2, <2>4 DEF Onward, Gone, PairTyped
  <2>6. /\ Moves(p) /\ call'[p].answer = "ok" /\ call'[p].at = "cancel"
        /\ call'[p].mine = call[p].mine /\ call'[p].token = call[p].token
    BY <1>0, <1>8, ServedTyped DEF Moves, PairTyped
  <2>7. HoldsRequest(p)'
    BY <1>0, <1>8, <2>3, <2>6 DEF HoldsRequest, Gone, Early
  <2>8. KnowsToken(p)'
    BY <1>0, <1>8, <2>4, <2>5, <2>6 DEF KnowsToken, Later, Onward, Gone
  <2>9. stored' \in {0} \cup DOMAIN asked' /\ stored' \notin Pairing!Open'
    BY <1>0, <2>2, <2>4 DEF PairTyped
  <2>10. QED
    BY <1>0, <1>8, <2>2, <2>5, <2>6, <2>7, <2>8, <2>9, OnePageMoves DEF LetsGo, PairTyped
<1>9. CASE /\ call[p].at = "revoke" /\ UNCHANGED asked
           /\ Pairing!Served(p, IF call[p].token \in granted THEN "ok" ELSE "unpaired")
           /\ granted' = granted \ {call[p].token}
  <2>1. PICK a \in {"ok", "unpaired"} : Pairing!Served(p, a)
    BY <1>9
  <2>2. Onward /\ Pairing!Open' = Pairing!Open
    BY <1>0, <1>9, HelperRests DEF Pairing!Open
  <2>3. /\ Moves(p) /\ call'[p].answer = a /\ call'[p].at = "revoke"
        /\ call'[p].mine = call[p].mine /\ call'[p].token = call[p].token
    BY <1>0, <1>9, <2>1, ServedTyped DEF Moves, PairTyped
  <2>4. HoldsRequest(p)'
    BY <1>0, <1>9, <2>3 DEF HoldsRequest, Early
  <2>5. KnowsToken(p)'
    BY <1>0, <1>9, <2>2, <2>3 DEF KnowsToken, Gone, Later
  <2>6. QED
    BY <1>0, <1>9, <2>2, <2>3, <2>4, <2>5, OnePageMoves DEF LetsGo, PairTyped
<1>10. QED
  BY <1>3, <1>4, <1>5, <1>6, <1>7, <1>8, <1>9 DEF Pairing!Serve

\* The viewer decides, or revokes a token.
LEMMA ViewerStep ==
  ASSUME PairingOK, NEW r \in DOMAIN asked, Pairing!Decide(r) \/ Pairing!RevokeThere(r)
  PROVE  PairingOK'
<1>0. PairTyped /\ UNCHANGED <<stored, call, shown, kept, doubted>>
  BY DEF PairingOK, Pairing!Decide, Pairing!RevokeThere
<1>1. /\ asked' \in Seq(PairingStates) /\ DOMAIN asked' = DOMAIN asked
      /\ granted' \subseteq granted \cup {r}
         /\ (r \notin Pairing!Open => r \notin granted' \/ r \in granted)
      /\ Pairing!Open' \subseteq Pairing!Open
  <2>1. CASE Pairing!Decide(r)
    <3>1. PICK s \in {"approved", "denied", "expired"} :
            /\ asked' = [asked EXCEPT ![r] = s]
            /\ granted' = IF s = "approved" THEN granted \cup {r} ELSE granted
      BY <2>1 DEF Pairing!Decide
    <3>2. r \in Pairing!Open
      BY <2>1 DEF Pairing!Decide
    <3>3. /\ asked' \in Seq(PairingStates) /\ DOMAIN asked' = DOMAIN asked
          /\ \A q \in DOMAIN asked : asked'[q] = IF q = r THEN s ELSE asked[q]
      BY <1>0, <3>1 DEF PairTyped, PairingStates, Pairing!Closed
    <3>4. QED
      BY <3>1, <3>2, <3>3 DEF Pairing!Open
  <2>2. CASE Pairing!RevokeThere(r)
    BY <1>0, <2>2 DEF Pairing!RevokeThere, PairTyped, Pairing!Open
  <2>3. QED
    BY <2>1, <2>2
<1>2. Onward
  <2> HIDE DEF Pairing!Open
  <2>1. QED
    BY <1>0, <1>1 DEF Onward, Gone, PairTyped
<1>3. PairTyped'
  BY <1>0, <1>1 DEF PairTyped
<1>4. \A p \in Pages : HoldsRequest(p)' /\ KnowsToken(p)'
  BY <1>0, <1>2, PageRests
<1>5. stored' \notin Pairing!Open'
  BY <1>0, <1>1 DEF PairingOK
<1>6. Pairing!NothingLeftOpen'
  <2>1. SUFFICES ASSUME NEW q \in DOMAIN asked'
                 PROVE  \/ q \in kept' \cup doubted' \/ \E p \in Pages : call'[p].mine = q
                        \/ asked'[q] # "pending" /\ q \notin granted'
    BY DEF Pairing!NothingLeftOpen
  <2>2. \/ q \in kept \cup doubted \/ \E p \in Pages : call[p].mine = q
        \/ q \notin Pairing!Open /\ q \notin granted
    BY <1>1 DEF PairingOK, Pairing!NothingLeftOpen, Pairing!Open
  <2>3. Gone(q) => q \notin granted' /\ q \notin Pairing!Open'
    BY <1>1, <1>2 DEF Onward
  <2>4. q \notin Pairing!Open' => asked'[q] # "pending"
    BY DEF Pairing!Open
  <2>5. QED
    BY <1>0, <2>2, <2>3, <2>4 DEF Gone
<1>7. QED
  BY <1>3, <1>4, <1>5, <1>6 DEF PairingOK

-----------------------------------------------------------------------------
\* A page's record changes, but neither its step nor what it holds.
LEMMA SameTask ==
  ASSUME PairingOK, NEW p \in Pages, NEW t \in Tasks, call' = [call EXCEPT ![p] = t],
         t.mine = call[p].mine, t.token = call[p].token, t.at = call[p].at, t.answer = call[p].answer,
         UNCHANGED <<asked, granted, stored, kept, doubted>>, shown' \in [Pages -> Statuses]
  PROVE  PairingOK'
<1>1. Onward
  BY HelperRests DEF PairingOK
<1>2. Moves(p) /\ call'[p] = t
  BY DEF Moves, PairingOK, PairTyped
<1>3. Pairing!Open' = Pairing!Open /\ HoldsRequest(p) /\ KnowsToken(p)
  BY DEF Pairing!Open, PairingOK
<1>4. HoldsRequest(p)' /\ KnowsToken(p)'
  BY <1>2, <1>3 DEF HoldsRequest, KnowsToken, Gone
<1>5. QED
  BY <1>1, <1>2, <1>3, <1>4, OnePageMoves DEF PairingOK, PairTyped, LetsGo

\* The buttons of a page that is at rest: it then holds no request.
LEMMA StartStep ==
  ASSUME PairingOK, NEW p \in Pages, NEW t \in Tasks, call[p].at = "none",
         call' = [call EXCEPT ![p] = t],
         t.at \in {"hello", "readOld"}, t.answer = "none", t.mine = 0, t.token = 0,
         UNCHANGED <<asked, granted, stored, kept, doubted>>, shown' \in [Pages -> Statuses]
  PROVE  PairingOK'
<1>1. Onward
  BY HelperRests DEF PairingOK
<1>2. Moves(p) /\ call'[p] = t
  BY DEF Moves, PairingOK, PairTyped
<1>3. call[p].mine = 0 /\ 0 \notin Pairing!Open' /\ Pairing!Open' = Pairing!Open
  BY <1>1 DEF PairingOK, HoldsRequest, Early, Onward, Pairing!Open
<1>4. HoldsRequest(p)' /\ KnowsToken(p)'
  BY <1>2, <1>3 DEF HoldsRequest, KnowsToken, Later
<1>5. QED
  BY <1>1, <1>2, <1>3, <1>4, OnePageMoves DEF PairingOK, PairTyped, LetsGo

LEMMA ButtonsStep ==
  ASSUME PairingOK, NEW p \in Pages,
         \/ Pairing!Mount(p) \/ Pairing!Connect(p) \/ Pairing!Disconnect(p)
         \/ Pairing!Cancel(p) \/ Pairing!Unmount(p)
  PROVE  PairingOK'
<1>0. shown \in [Pages -> Statuses] /\ call \in [Pages -> Tasks] /\ call[p] \in Tasks
      /\ shown[p] \in Statuses
  BY DEF PairingOK, PairTyped
<1>1. CASE Pairing!Mount(p)
  <2> DEFINE has == stored # 0
             t == Pairing!Status(IF has THEN "saved" ELSE "idle", has)
  <2>0. has \in BOOLEAN
    OBVIOUS
  <2>1. shown' \in [Pages -> Statuses]
    <3>1. \/ Pairing!Show(p, t) \/ Pairing!Show(p, Pairing!Status("error", FALSE))
      BY <1>1 DEF Pairing!Mount
    <3> HIDE DEF has
    <3>2. t \in Statuses /\ Pairing!Status("error", FALSE) \in Statuses
      BY <2>0 DEF Pairing!Status, Statuses
    <3>3. QED
      BY <3>1, <3>2, ShownTyped
  <2>2. call' = [call EXCEPT ![p] = call[p]] /\ UNCHANGED <<asked, granted, stored, kept, doubted>>
    BY <1>0, <1>1 DEF Pairing!Mount
  <2>3. QED
    BY <1>0, <2>1, <2>2, SameTask
<1>2. CASE Pairing!Connect(p)
  <2>1. shown' \in [Pages -> Statuses] /\ shown[p].has \in BOOLEAN
    BY <1>0, <1>2 DEF Pairing!Connect, Statuses
  <2>2. [Pairing!Idle EXCEPT !.at = "hello", !.has = shown[p].has] \in Tasks
    BY <2>1 DEF Pairing!Idle, Tasks, PairingSteps
  <2>3. QED
    BY <1>2, <2>1, <2>2, StartStep DEF Pairing!Connect, Pairing!Idle
<1>3. CASE Pairing!Disconnect(p)
  <2>1. shown' \in [Pages -> Statuses]
    BY <1>0, <1>3 DEF Pairing!Disconnect, Pairing!Status, Statuses
  <2>2. [Pairing!Idle EXCEPT !.at = "readOld"] \in Tasks
    BY DEF Pairing!Idle, Tasks, PairingSteps
  <2>3. QED
    BY <1>3, <2>1, <2>2, StartStep DEF Pairing!Disconnect, Pairing!Idle
<1>4. CASE Pairing!Cancel(p)
  <2>1. shown' \in [Pages -> Statuses]
    BY <1>0, <1>4 DEF Pairing!Cancel, Statuses
  <2>2. /\ call' = [call EXCEPT ![p] = [call[p] EXCEPT !.aborted = TRUE]]
        /\ UNCHANGED <<asked, granted, stored, kept, doubted>>
    BY <1>4 DEF Pairing!Cancel
  <2>3. [call[p] EXCEPT !.aborted = TRUE] \in Tasks
    BY <1>0 DEF Tasks
  <2>4. QED
    BY <1>0, <2>1, <2>2, <2>3, SameTask DEF Tasks
<1>5. CASE Pairing!Unmount(p)
  <2> DEFINE busy == call[p].at # "none"
  <2>1. /\ call' = [call EXCEPT ![p] = [call[p] EXCEPT !.aborted = busy]]
        /\ UNCHANGED <<asked, granted, stored, shown, kept, doubted>>
    BY <1>5 DEF Pairing!Unmount
  <2>2. busy \in BOOLEAN
    OBVIOUS
  <2> HIDE DEF busy
  <2>3. [call[p] EXCEPT !.aborted = busy] \in Tasks
    BY <1>0, <2>2 DEF Tasks
  <2>4. QED
    BY <1>0, <2>1, <2>3, SameTask DEF Tasks
<1>6. QED
  BY <1>1, <1>2, <1>3, <1>4, <1>5

-----------------------------------------------------------------------------
\* connect and disconnect, from one await to the next.
LEMMA ReadStep ==
  ASSUME PairingOK, NEW p \in Pages, Pairing!ReadToken(p) \/ Pairing!ReadOld(p)
  PROVE  PairingOK'
<1>0. /\ call[p].mine = 0 /\ call[p].at \in {"read", "readOld"} /\ call[p] \in Tasks
      /\ stored \in {0} \cup DOMAIN asked /\ stored \notin Pairing!Open /\ stored \in Nat
      /\ UNCHANGED <<asked, granted, stored, kept, doubted>> /\ shown \in [Pages -> Statuses]
  BY DEF PairingOK, PairTyped, HoldsRequest, Early, Pairing!ReadToken, Pairing!ReadOld,
     Pairing!Keep,
         Pairing!Same
<1>1. CASE call[p].aborted /\ Pairing!ReadToken(p)
  <2> DEFINE has == stored # 0
  <2>1. has \in BOOLEAN
    OBVIOUS
  <2>2. Pairing!End(p, Pairing!Unpaired(p, has))
    BY <1>1 DEF Pairing!ReadToken
  <2> HIDE DEF has
  <2>3. QED
    BY <1>0, <2>1, <2>2, EndStep, Unpaired
\* The token it has read is that of a settled request, or none.
<1>2. ASSUME NEW t \in Tasks, call' = [call EXCEPT ![p] = t], UNCHANGED shown,
             t.mine = 0, t.token = stored,
             t.at \in {"check", "revoke"} \/ (t.at \in {"create", "clear"} /\ stored = 0),
             t.answer = call[p].answer
      PROVE  PairingOK'
  <2>1. Onward
    BY <1>0, HelperRests DEF PairingOK
  <2>2. Moves(p) /\ call'[p] = t
    BY <1>0, <1>2 DEF Moves, PairingOK, PairTyped
  <2>3. Pairing!Open' = Pairing!Open /\ 0 \notin Pairing!Open /\ 0 \notin granted
    BY <1>0, <2>1 DEF Pairing!Open, Onward, PairingOK, PairTyped
  <2>4. call[p].answer = "none"
    BY <1>0 DEF PairingOK, HoldsRequest
  <2>5. HoldsRequest(p)' /\ KnowsToken(p)'
    BY <1>0, <1>2, <2>2, <2>3, <2>4 DEF HoldsRequest, KnowsToken, Gone, Later
  <2>6. QED
    BY <1>0, <1>2, <2>1, <2>2, <2>3, <2>5, OnePageMoves DEF PairingOK, PairTyped, LetsGo
<1>3. CASE ~call[p].aborted /\ Pairing!ReadToken(p)
  <2> DEFINE has == stored # 0
             t == [call[p] EXCEPT !.at = IF has THEN "check" ELSE "create",
                                !.token = stored, !.has = has]
  <2>1. has \in BOOLEAN /\ call' = [call EXCEPT ![p] = t] /\ UNCHANGED shown /\ call[p].at = "read"
    BY <1>3 DEF Pairing!ReadToken
  <2>5. t.at = "check" \/ (t.at = "create" /\ stored = 0)
    BY <1>0 DEF Tasks
  <2> HIDE DEF has
  <2>2. t \in Tasks
    BY <1>0, <2>1 DEF Tasks, PairingSteps
  <2>3. t.mine = 0 /\ t.token = stored /\ t.answer = call[p].answer
    BY <1>0 DEF Tasks
  <2> HIDE DEF t
  <2>4. QED
    BY <1>2, <2>1, <2>2, <2>3, <2>5
<1>4. CASE Pairing!ReadOld(p)
  <2> DEFINE t == [call[p] EXCEPT !.at = IF stored # 0 THEN "revoke" ELSE "clear", !.token = stored]
  <2>1. call' = [call EXCEPT ![p] = t] /\ UNCHANGED shown /\ call[p].at = "readOld"
    BY <1>4 DEF Pairing!ReadOld
  <2>2. t \in Tasks /\ (t.at = "revoke" \/ (t.at = "clear" /\ stored = 0))
    BY <1>0 DEF Tasks, PairingSteps
  <2>3. t.mine = 0 /\ t.token = stored /\ t.answer = call[p].answer
    BY <1>0 DEF Tasks
  <2> HIDE DEF t
  <2>4. QED
    BY <1>2, <2>1, <2>2, <2>3
<1>5. QED
  BY <1>1, <1>3, <1>4

LEMMA ConnectStep ==
  ASSUME PairingOK, NEW p \in Pages,
         \/ Pairing!Hello(p) \/ Pairing!Checked(p) \/ Pairing!Forget(p) \/ Pairing!Created(p)
         \/ Pairing!Polled(p) \/ Pairing!Pause(p)
  PROVE  PairingOK'
<1>0. /\ HoldsRequest(p) /\ KnowsToken(p) /\ shown \in [Pages -> Statuses]
      /\ UNCHANGED <<asked, granted, doubted>> /\ kept \subseteq kept' /\ call[p] \in Tasks
      /\ call[p].at \in {"hello", "check", "forget", "create", "poll", "pause"}
  BY DEF PairingOK, PairTyped, Pairing!Hello, Pairing!Checked, Pairing!Forget, Pairing!Created,
         Pairing!Polled, Pairing!Pause, Pairing!Keep, Pairing!Same, Pairing!Succeed
<1>1. CASE Pairing!Hello(p)
  BY <1>0, <1>1, NextStep DEF Pairing!Hello, Pairing!Same, HoldsRequest, PairingSteps, Early, Later
<1>2. CASE Pairing!Checked(p)
  <2>1. call[p].mine = 0 /\ UNCHANGED stored /\ call[p].at = "check"
    BY <1>0, <1>2 DEF Pairing!Checked, HoldsRequest, Early
  <2>2. CASE call[p].answer = "ok"
    <3>1. Pairing!Status("paired", TRUE) \in Statuses
      BY DEF Pairing!Status, Statuses
    <3>2. QED
      BY <1>0, <1>2, <2>1, <2>2, <3>1, EndStep DEF Pairing!Checked, Pairing!Succeed
  <2>3. CASE call[p].answer # "ok"
    <3>1. call[p].answer = "unpaired"
      BY <1>0, <1>2, <2>3 DEF Pairing!Checked, HoldsRequest
    <3>2. QED
      BY <1>0, <1>2, <2>1, <2>3, <3>1, NextStep DEF Pairing!Checked, KnowsToken, PairingSteps,
         Early, Later
  <2>4. QED
    BY <2>2, <2>3
<1>3. CASE Pairing!Forget(p)
  <2>1. call[p].mine = 0 /\ stored' = 0 /\ kept' = kept /\ call[p].at = "forget"
    BY <1>0, <1>3 DEF Pairing!Forget, HoldsRequest, Early
  <2>2. CASE call[p].aborted
    BY <1>0, <1>3, <2>1, <2>2, EndStep, Unpaired DEF Pairing!Forget
  <2>3. CASE ~call[p].aborted
    <3> DEFINE t == [call[p] EXCEPT !.at = "create", !.has = FALSE]
    <3>1. call' = [call EXCEPT ![p] = t] /\ UNCHANGED shown
      BY <1>3, <2>3 DEF Pairing!Forget
    <3>2. /\ t \in Tasks /\ t.at = "create" /\ t.mine = 0 /\ t.token = call[p].token
          /\ t.answer = call[p].answer
      BY <1>0, <2>1 DEF Tasks, PairingSteps
    <3> HIDE DEF t
    <3>3. Onward
      BY <1>0, <2>1, HelperRests DEF PairingOK
    <3>4. Moves(p) /\ call'[p] = t /\ Pairing!Open' = Pairing!Open
      BY <1>0, <3>1, <3>2 DEF Moves, PairingOK, PairTyped, Pairing!Open
    <3>5. HoldsRequest(p)' /\ KnowsToken(p)'
      BY <1>0, <2>1, <3>2, <3>4 DEF HoldsRequest, KnowsToken, Gone, Early, Later
    <3>6. 0 \notin Pairing!Open'
      BY <3>3 DEF Onward, Pairing!Open
    <3>7. QED
      BY <1>0, <2>1, <3>2, <3>3, <3>4, <3>5, <3>6, OnePageMoves DEF PairingOK, PairTyped, LetsGo
  <2>4. QED
    BY <2>2, <2>3
<1>4. CASE Pairing!Created(p)
  <2>1. CASE call[p].answer = "refused" \/ call[p].aborted
    BY <1>0, <1>4, <2>1, FailStep DEF Pairing!Created, Pairing!Same
  <2>2. CASE ~(call[p].answer = "refused" \/ call[p].aborted)
    <3>1. call[p].mine # 0
      BY <1>0, <1>4, <2>2 DEF Pairing!Created, HoldsRequest
    <3>2. shown' \in [Pages -> Statuses]
      <4>1. shown' = [shown EXCEPT ![p] = Pairing!Status("pending", FALSE)]
        BY <1>4, <2>2 DEF Pairing!Created
      <4>2. Pairing!Status("pending", FALSE) \in Statuses
        BY DEF Pairing!Status, Statuses
      <4>3. QED
        BY <1>0, <4>1, <4>2
    <3>3. QED
      BY <1>0, <1>4, <2>2, <3>1, <3>2, NextStep
         DEF Pairing!Created, Pairing!Same, PairingSteps, Early, Later, KnowsToken
  <2>3. QED
    BY <2>1, <2>2
<1>5. CASE Pairing!Polled(p)
  <2>1. call[p].mine # 0 /\ call[p].at = "poll" /\ UNCHANGED <<stored, kept>>
    BY <1>0, <1>5 DEF Pairing!Polled, HoldsRequest, Pairing!Same
  <2>2. CASE call[p].answer = "approved"
    <3>1. call[p].mine \notin Pairing!Open
      BY <1>0, <2>1, <2>2 DEF HoldsRequest
    <3>2. Pairing!To(p, "write") /\ UNCHANGED shown
      BY <1>5, <2>2 DEF Pairing!Polled
    <3>3. QED
      BY <1>0, <2>1, <3>1, <3>2, NextStep DEF PairingSteps, Early, Later, KnowsToken, HoldsRequest
  <2>3. CASE call[p].answer = "pending"
    <3>1. Pairing!To(p, "pause") /\ UNCHANGED shown
      BY <1>5, <2>3 DEF Pairing!Polled
    <3>2. QED
      BY <1>0, <2>1, <3>1, NextStep DEF PairingSteps, Early, Later, KnowsToken, HoldsRequest
  <2>4. CASE call[p].answer \notin {"approved", "pending"}
    <3>1. Pairing!Fail(p)
      BY <1>5, <2>4 DEF Pairing!Polled
    <3>2. QED
      BY <1>0, <2>1, <3>1, FailStep
  <2>5. QED
    BY <2>2, <2>3, <2>4
<1>6. CASE Pairing!Pause(p)
  <2>1. call[p].mine # 0 /\ UNCHANGED <<stored, kept>>
    BY <1>0, <1>6 DEF Pairing!Pause, HoldsRequest, Pairing!Same
  <2>2. CASE Pairing!Fail(p)
    BY <1>0, <2>1, <2>2, FailStep
  <2>3. CASE Pairing!To(p, "poll") /\ UNCHANGED shown
    BY <1>0, <2>1, <2>3, NextStep DEF PairingSteps, Early, Later, KnowsToken, HoldsRequest
  <2>4. QED
    BY <1>6, <2>2, <2>3 DEF Pairing!Pause
<1>7. QED
  BY <1>1, <1>2, <1>3, <1>4, <1>5, <1>6

LEMMA WriteStep ==
  ASSUME PairingOK, NEW p \in Pages,
         \/ Pairing!Write(p) \/ Pairing!Cancelled(p) \/ Pairing!Unwrite(p) \/ Pairing!CancelLost(p)
  PROVE  PairingOK'
<1>0. /\ HoldsRequest(p) /\ KnowsToken(p) /\ shown \in [Pages -> Statuses]
      /\ UNCHANGED <<asked, granted>> /\ kept \subseteq kept' /\ doubted \subseteq doubted'
      /\ call[p] \in Tasks /\ call[p].at \in {"write", "cancel", "unwrite"} /\ call[p].mine # 0
      /\ call[p].mine \in DOMAIN asked
  BY DEF PairingOK, PairTyped, HoldsRequest, Pairing!Write, Pairing!Cancelled, Pairing!Unwrite,
         Pairing!CancelLost, Pairing!Keep, Pairing!Same, Pairing!Succeed
<1>1. CASE Pairing!Write(p)
  <2>1. /\ call[p].mine \notin Pairing!Open /\ stored' = call[p].mine /\ UNCHANGED doubted
        /\ call[p].at = "write"
    BY <1>0, <1>1 DEF Pairing!Write, HoldsRequest
  <2>2. CASE call[p].aborted
    <3> DEFINE t == [call[p] EXCEPT !.at = "cancel", !.answer = "none", !.written = TRUE]
    <3>1. call' = [call EXCEPT ![p] = t] /\ UNCHANGED <<shown, kept>>
      BY <1>1, <2>2 DEF Pairing!Write
    <3>2. /\ t \in Tasks /\ t.at = "cancel" /\ t.mine = call[p].mine /\ t.token = call[p].token
          /\ t.answer = "none"
      BY <1>0 DEF Tasks, PairingSteps
    <3> HIDE DEF t
    <3>3. Onward
      BY <1>0, HelperRests DEF PairingOK
    <3>4. Moves(p) /\ call'[p] = t /\ Pairing!Open' = Pairing!Open
      BY <1>0, <3>1, <3>2 DEF Moves, PairingOK, PairTyped, Pairing!Open
    <3>5. HoldsRequest(p)' /\ KnowsToken(p)'
      BY <1>0, <2>1, <3>2, <3>4 DEF HoldsRequest, KnowsToken, Gone, Early, Later
    <3>6. QED
      BY <1>0, <2>1, <3>2, <3>3, <3>4, <3>5, OnePageMoves DEF PairingOK, PairTyped, LetsGo
  <2>3. CASE ~call[p].aborted
    <3>1. Pairing!Status("paired", TRUE) \in Statuses
      BY DEF Pairing!Status, Statuses
    <3>2. Pairing!End(p, Pairing!Status("paired", TRUE)) /\ call[p].mine \in kept'
      BY <1>0, <1>1, <2>3 DEF Pairing!Write, Pairing!Succeed
    <3>3. QED
      BY <1>0, <2>1, <3>1, <3>2, EndStep
  <2>4. QED
    BY <2>2, <2>3
<1>2. CASE Pairing!Cancelled(p) \/ Pairing!CancelLost(p)
  <2>1. call[p].mine \in doubted' \/ Gone(call[p].mine)
    BY <1>0, <1>2 DEF Pairing!Cancelled, Pairing!CancelLost, HoldsRequest
  <2>2. UNCHANGED <<stored, kept>>
    BY <1>2 DEF Pairing!Cancelled, Pairing!CancelLost, Pairing!Same
  <2>3. CASE call[p].written
    <3>1. Pairing!To(p, "unwrite") /\ UNCHANGED shown
      BY <1>2, <2>3 DEF Pairing!Cancelled, Pairing!CancelLost
    <3>2. QED
      BY <1>0, <2>1, <2>2, <3>1, NextStep DEF PairingSteps, Early, Later, KnowsToken, HoldsRequest
  <2>4. CASE ~call[p].written
    <3>1. Pairing!End(p, Pairing!Unpaired(p, call[p].has))
      BY <1>2, <2>4 DEF Pairing!Cancelled, Pairing!CancelLost
    <3>2. QED
      BY <1>0, <2>1, <2>2, <3>1, EndStep, Unpaired, HasTyped
  <2>5. QED
    BY <2>3, <2>4
<1>3. CASE Pairing!Unwrite(p)
  <2>1. /\ call[p].mine \in doubted' \/ Gone(call[p].mine)
        /\ stored' \in {0, stored} /\ Pairing!End(p, Pairing!Unpaired(p, call[p].has))
    BY <1>0, <1>3 DEF Pairing!Unwrite, HoldsRequest
  <2>2. QED
    BY <1>0, <2>1, EndStep, Unpaired, HasTyped
<1>4. QED
  BY <1>1, <1>2, <1>3

LEMMA LeaveStep ==
  ASSUME PairingOK, NEW p \in Pages,
         \/ Pairing!Revoked(p) \/ Pairing!Clear(p) \/ Pairing!Aborted(p) \/ Pairing!Lost(p)
         \/ Pairing!DisconnectFails(p)
  PROVE  PairingOK'
<1>0. /\ HoldsRequest(p) /\ KnowsToken(p) /\ shown \in [Pages -> Statuses]
      /\ UNCHANGED <<asked, granted, kept>> /\ doubted \subseteq doubted' /\ call[p] \in Tasks
      /\ stored' \in {0, stored}
  BY DEF PairingOK, PairTyped, Pairing!Revoked, Pairing!Clear, Pairing!Aborted, Pairing!Lost,
         Pairing!DisconnectFails, Pairing!Keep, Pairing!Same
<1>1. CASE Pairing!Revoked(p)
  <2>1. /\ call[p].mine = 0 /\ Gone(call[p].token) /\ Pairing!To(p, "clear")
           /\ UNCHANGED <<shown, stored>>
    BY <1>0, <1>1 DEF Pairing!Revoked, Pairing!Same, HoldsRequest, KnowsToken, Early
  <2>2. QED
    BY <1>0, <2>1, NextStep DEF PairingSteps, Early, Later, KnowsToken, HoldsRequest
<1>2. CASE Pairing!Clear(p) \/ Pairing!DisconnectFails(p) \/ (Pairing!Aborted(p) /\ call[p].at = "revoke")
  <2>1. /\ call[p].mine = 0
        /\ \/ Pairing!End(p, Pairing!Status("idle", FALSE))
           \/ Pairing!End(p, Pairing!Status("error", TRUE))
    BY <1>0, <1>2 DEF Pairing!Clear, Pairing!DisconnectFails, Pairing!Aborted, HoldsRequest, Early
  <2>2. Pairing!Status("idle", FALSE) \in Statuses /\ Pairing!Status("error", TRUE) \in Statuses
    BY DEF Pairing!Status, Statuses
  <2>3. QED
    BY <1>0, <2>1, <2>2, EndStep
<1>3. CASE Pairing!Aborted(p) /\ call[p].at # "revoke"
  BY <1>0, <1>3, FailStep DEF Pairing!Aborted, Pairing!Same
<1>4. CASE Pairing!Lost(p) /\ call[p].at # "create"
  BY <1>0, <1>4, FailStep DEF Pairing!Lost
<1>5. CASE Pairing!Lost(p) /\ call[p].at = "create"
  <2>1. /\ Pairing!End(p, Pairing!Unpaired(p, call[p].has)) /\ UNCHANGED stored
        /\ call[p].mine = 0 \/ call[p].mine \in doubted'
    BY <1>5 DEF Pairing!Lost
  <2>2. QED
    BY <1>0, <2>1, EndStep, Unpaired, HasTyped
<1>6. QED
  BY <1>1, <1>2, <1>3, <1>4, <1>5

-----------------------------------------------------------------------------
LEMMA PairingStep == ASSUME PairingOK, [Pairing!Next]_Pairing!vars PROVE PairingOK'
<1>1. CASE UNCHANGED Pairing!vars
  BY <1>1 DEF Pairing!vars, PairingOK, PairTyped, HoldsRequest, KnowsToken, Gone, Pairing!Open,
              Pairing!NothingLeftOpen
<1>2. CASE \E p \in Pages :
             \/ Pairing!Serve(p) \/ Pairing!Mount(p) \/ Pairing!Connect(p) \/ Pairing!Disconnect(p)
             \/ Pairing!Cancel(p) \/ Pairing!Unmount(p) \/ Pairing!Hello(p) \/ Pairing!ReadToken(p)
             \/ Pairing!Checked(p) \/ Pairing!Forget(p) \/ Pairing!Created(p) \/ Pairing!Polled(p)
             \/ Pairing!Pause(p) \/ Pairing!Write(p) \/ Pairing!Cancelled(p) \/ Pairing!Unwrite(p)
             \/ Pairing!ReadOld(p) \/ Pairing!Revoked(p) \/ Pairing!Clear(p) \/ Pairing!Aborted(p)
             \/ Pairing!Lost(p) \/ Pairing!CancelLost(p) \/ Pairing!DisconnectFails(p)
  BY <1>2, ServeStep, ButtonsStep, ReadStep, ConnectStep, WriteStep, LeaveStep
<1>3. CASE \E r \in DOMAIN asked : Pairing!Decide(r) \/ Pairing!RevokeThere(r)
  BY <1>3, ViewerStep
<1>4. QED
  BY <1>1, <1>2, <1>3 DEF Pairing!Next

\* Companion: a pairing that was not completed leaves no access behind, whoever aborts it, whatever
\* call fails and in whatever order the pages, the helper and the viewer act.
THEOREM PairingClosed == Pairing!Spec => []Pairing!NothingLeftOpen
<1>1. Pairing!Spec => []PairingOK
  BY PairingInit, PairingStep, PTL DEF Pairing!Spec
<1>2. PairingOK => Pairing!NothingLeftOpen
  BY DEF PairingOK
<1>3. QED
  BY <1>1, <1>2, PTL

\* Companion: what its variables hold - tokens and requests that the helper has given.
THEOREM PairingTyped == Pairing!Spec => []Pairing!TypeOK
<1>1. Pairing!Spec => []PairingOK
  BY PairingInit, PairingStep, PTL DEF Pairing!Spec
<1>2. PairingOK => Pairing!TypeOK
  BY DEF PairingOK, PairTyped, Pairing!TypeOK, PairingStates
<1>3. QED
  BY <1>1, <1>2, PTL

\* Companion: a token is forgotten only when the helper no longer honours it, or its cancellation
\* got no answer, or the page that forgets it has read and written another one: it is not this
\* page's knowledge that is old then, but the token that is new.
THEOREM TokenForgotten == Pairing!Spec => [][Pairing!ForgottenIsRevoked]_Pairing!vars
<1>1. ASSUME PairingOK, [Pairing!Next]_Pairing!vars
      PROVE  [Pairing!ForgottenIsRevoked]_Pairing!vars
  <2>1. SUFFICES ASSUME stored' # stored, stored' = 0, Pairing!Next
                 PROVE  \/ stored \notin granted \/ stored \in doubted
                        \/ \E p \in Pages : call'[p] # call[p]
                           /\ stored \notin {call[p].token, call[p].mine}
    BY <1>1 DEF Pairing!ForgottenIsRevoked, Pairing!vars
  <2>2. ASSUME NEW p \in Pages, Pairing!Forget(p) \/ Pairing!Clear(p) \/ Pairing!Unwrite(p)
        PROVE  \/ stored \notin granted \/ stored \in doubted
               \/ call'[p] # call[p] /\ stored \notin {call[p].token, call[p].mine}
    <3>1. /\ HoldsRequest(p) /\ KnowsToken(p) /\ call[p] \in Tasks /\ call \in [Pages -> Tasks]
          /\ stored # 0 /\ stored \in DOMAIN asked
      BY <1>1, <2>1 DEF PairingOK, PairTyped
    <3>2. call'[p].at # call[p].at
      <4>1. call[p].at \in {"forget", "clear", "unwrite"}
        BY <2>2 DEF Pairing!Forget, Pairing!Clear, Pairing!Unwrite
      <4>2. \/ call' = [call EXCEPT ![p] = Pairing!Idle]
            \/ call[p].at = "forget" /\ call' = [call EXCEPT ![p].at = "create", ![p].has = FALSE]
        BY <2>2 DEF Pairing!Forget, Pairing!Clear, Pairing!Unwrite, Pairing!End
      <4>3. CASE call' = [call EXCEPT ![p] = Pairing!Idle]
        BY <3>1, <4>1, <4>3 DEF Pairing!Idle
      <4>4. CASE call[p].at = "forget" /\ call' = [call EXCEPT ![p].at = "create", ![p].has = FALSE]
        <5>1. call' = [call EXCEPT ![p] = [call[p] EXCEPT !.at = "create", !.has = FALSE]]
          BY <4>4
        <5>2. call'[p] = [call[p] EXCEPT !.at = "create", !.has = FALSE]
          BY <3>1, <5>1
        <5>3. call'[p].at = "create"
          BY <3>1, <5>2 DEF Tasks
        <5>4. QED
          BY <4>4, <5>3
      <4>5. QED
        BY <4>2, <4>3, <4>4
    <3>3. Gone(call[p].token) /\ (call[p].mine = 0 \/ call[p].mine \in doubted \/ Gone(call[p].mine))
      BY <2>2, <3>1
      DEF HoldsRequest, KnowsToken, Early, Later, Pairing!Forget, Pairing!Clear, Pairing!Unwrite
    <3>4. QED
      BY <3>1, <3>2, <3>3 DEF Gone
  <2>3. \E p \in Pages : Pairing!Forget(p) \/ Pairing!Clear(p) \/ Pairing!Unwrite(p)
    <3>1. ASSUME NEW r \in DOMAIN asked, Pairing!Decide(r) \/ Pairing!RevokeThere(r) PROVE FALSE
      BY <2>1, <3>1 DEF Pairing!Decide, Pairing!RevokeThere
    <3>2. ASSUME NEW p \in Pages,
                 \/ Pairing!Serve(p) \/ Pairing!Mount(p) \/ Pairing!Connect(p)
                 \/ Pairing!Disconnect(p) \/ Pairing!Cancel(p) \/ Pairing!Unmount(p)
          PROVE  FALSE
      BY <2>1, <3>2 DEF Pairing!Serve, Pairing!Mount, Pairing!Connect, Pairing!Disconnect,
                        Pairing!Cancel, Pairing!Unmount
    <3>3. ASSUME NEW p \in Pages,
                 \/ Pairing!Hello(p) \/ Pairing!ReadToken(p) \/ Pairing!Checked(p)
                 \/ Pairing!Created(p) \/ Pairing!Polled(p) \/ Pairing!Pause(p)
                 \/ Pairing!Cancelled(p) \/ Pairing!ReadOld(p) \/ Pairing!Revoked(p)
          PROVE  FALSE
      BY <2>1, <3>3 DEF Pairing!Hello, Pairing!ReadToken, Pairing!Checked, Pairing!Created,
                        Pairing!Polled, Pairing!Pause, Pairing!Cancelled, Pairing!ReadOld,
                        Pairing!Revoked, Pairing!Same
    <3>4. ASSUME NEW p \in Pages,
                 Pairing!Aborted(p) \/ Pairing!Lost(p) \/ Pairing!CancelLost(p)
                 \/ Pairing!DisconnectFails(p)
          PROVE  FALSE
      BY <2>1, <3>4 DEF Pairing!Aborted, Pairing!Lost, Pairing!CancelLost, Pairing!DisconnectFails,
                        Pairing!Same
    <3>5. ASSUME NEW p \in Pages, Pairing!Write(p) PROVE FALSE
      <4>1. call[p].mine # 0
        BY <1>1, <3>5 DEF PairingOK, HoldsRequest, Pairing!Write
      <4>2. QED
        BY <2>1, <3>5, <4>1 DEF Pairing!Write
    <3>6. QED
      BY <2>1, <3>1, <3>2, <3>3, <3>4, <3>5 DEF Pairing!Next
  <2>4. QED
    BY <2>2, <2>3
<1>2. QED
  BY <1>1, PairingInit, PairingStep, PTL DEF Pairing!Spec

-----------------------------------------------------------------------------
(***************************************************************************)
(* Induction over the numbers and over sequences, for a set instead of a   *)
(* predicate: what is proved of every sequence is membership of the set of *)
(* those that have it.                                                     *)
(***************************************************************************)
LEMMA Numbers ==
  ASSUME NEW S, 0 \in S, \A n \in Nat : n \in S => n + 1 \in S
  PROVE  Nat \subseteq S
<1> DEFINE R == {ss \in Nat \X Nat : ss[1] < ss[2]}
           T == {n \in Nat : n \notin S}
<1>1. IsWellFoundedOn(R, Nat)
  BY NatLessThanWellFounded DEF OpToRel
<1>2. SUFFICES ASSUME T # {} PROVE FALSE
  OBVIOUS
<1>3. PICK x \in T : \A y \in T : ~(<<y, x>> \in R)
  <2> HIDE DEF R
  <2>1. QED
    BY <1>1, <1>2, WFMin
<1>4. x # 0 /\ x - 1 \in Nat
  BY <1>3
<1>5. <<x - 1, x>> \in R
  <2>1. <<x - 1, x>> \in Nat \X Nat /\ <<x - 1, x>>[1] < <<x - 1, x>>[2]
    BY <1>4
  <2>2. QED
    BY <2>1
<1>6. QED
  BY <1>3, <1>4, <1>5

LEMMA Lists ==
  ASSUME NEW X, NEW T, <<>> \in T, \A s \in Seq(X), x \in X : s \in T => Append(s, x) \in T
  PROVE  Seq(X) \subseteq T
<1> DEFINE S == {n \in Nat : \A s \in Seq(X) : Len(s) = n => s \in T}
<1>1. 0 \in S
  BY EmptySeq
<1>2. ASSUME NEW n \in Nat, n \in S PROVE n + 1 \in S
  <2>1. ASSUME NEW s \in Seq(X), Len(s) = n + 1 PROVE s \in T
    <3> DEFINE t == SubSeq(s, 1, n)
    <3>1. /\ t \in Seq(X) /\ Len(t) = n /\ s[n + 1] \in X
          /\ \A i \in 1 .. n : t[i] = s[i]
      BY <1>2, <2>1
    <3>2. s = Append(t, s[n + 1])
      <4> HIDE DEF t
      <4>1. QED
        BY <1>2, <2>1, <3>1, SeqEqual
    <3>3. t \in T
      BY <1>2, <3>1
    <3> HIDE DEF t
    <3>4. QED
      BY <3>1, <3>2, <3>3
  <2>2. QED
    BY <1>2, <2>1
<1>3. Nat \subseteq S
  <2> HIDE DEF S
  <2>1. QED
    BY <1>1, <1>2, Numbers
<1>4. QED
  BY <1>3

(***************************************************************************)
(* TorrentMetainfo: joining lists.                                         *)
(***************************************************************************)
Steps(ss, f) == f = [i \in 1 .. Len(ss) |-> IF i = 1 THEN ss[i] ELSE f[i - 1] \o ss[i]]

LEMMA StepEach ==
  ASSUME NEW ss, NEW f, Steps(ss, f), NEW i \in 1 .. Len(ss)
  PROVE  f[i] = IF i = 1 THEN ss[i] ELSE f[i - 1] \o ss[i]
<1> DEFINE e(j) == IF j = 1 THEN ss[j] ELSE f[j - 1] \o ss[j]
<1>1. f = [j \in 1 .. Len(ss) |-> e(j)]
  BY DEF Steps
<1> HIDE DEF e
<1>2. f[i] = e(i)
  BY <1>1
<1>3. QED
  BY <1>2 DEF e

LEMMA StepsExist ==
  ASSUME NEW X, NEW ss \in Seq(Seq(X)) PROVE \E f : Steps(ss, f)
<1> DEFINE T == {s \in Seq(Seq(X)) : \E f : Steps(s, f)}
<1>1. <<>> \in T
  <2>1. Steps(<<>>, [i \in 1 .. 0 |-> 0])
    BY DEF Steps
  <2>2. QED
    BY <2>1, EmptySeq
<1>2. ASSUME NEW s \in Seq(Seq(X)), NEW x \in Seq(X), s \in T PROVE Append(s, x) \in T
  <2>1. PICK f : Steps(s, f)
    BY <1>2
  <2> DEFINE n == Len(s) + 1
             t == Append(s, x)
             g == [i \in 1 .. n |-> IF i < n THEN f[i] ELSE IF i = 1 THEN x ELSE f[i - 1] \o x]
  <2>2. t \in Seq(Seq(X)) /\ Len(t) = n /\ t[n] = x /\ \A i \in 1 .. Len(s) : t[i] = s[i]
    OBVIOUS
  <2>3. \A i \in 1 .. n : g[i] = IF i = 1 THEN t[i] ELSE g[i - 1] \o t[i]
    <3> HIDE DEF t
    <3>1. ASSUME NEW i \in 1 .. n PROVE g[i] = IF i = 1 THEN t[i] ELSE g[i - 1] \o t[i]
      <4>1. CASE i < n
        <5>1. i \in 1 .. Len(s) /\ i \in Int
          BY <4>1
        <5>2. f[i] = IF i = 1 THEN s[i] ELSE f[i - 1] \o s[i]
          BY <2>1, <5>1, StepEach
        <5>3. g[i] = f[i] /\ (i # 1 => g[i - 1] = f[i - 1])
          BY <4>1, <5>1
        <5>4. s[i] = t[i]
          BY <2>2, <5>1
        <5> HIDE DEF g
        <5>5. QED
          BY <5>2, <5>3, <5>4
      <4>2. CASE i = n
        BY <2>2, <4>2
      <4>3. QED
        BY <4>1, <4>2
    <3>2. QED
      BY <3>1
  <2>4. Steps(t, g)
    <3> HIDE DEF t
    <3>1. g = [i \in 1 .. n |-> g[i]]
      OBVIOUS
    <3> HIDE DEF g
    <3>2. QED
      BY <2>2, <2>3, <3>1 DEF Steps
  <2>5. QED
    BY <2>2, <2>4
<1>3. Seq(Seq(X)) \subseteq T
  <2> HIDE DEF T
  <2>1. QED
    BY <1>1, <1>2, Lists
<1>4. QED
  BY <1>3

LEMMA Joined ==
  ASSUME NEW X, NEW ss \in Seq(Seq(X)), ss # <<>>
  PROVE  \E f : Steps(ss, f) /\ Metainfo!FlattenSeq(ss) = f[Len(ss)]
<1> DEFINE f == CHOOSE f : Steps(ss, f)
<1>1. Steps(ss, f)
  BY StepsExist
<1>2. Metainfo!FlattenSeq(ss) = f[Len(ss)]
  BY DEF Metainfo!FlattenSeq, Steps
<1>3. QED
  BY <1>1, <1>2

LEMMA StepsAlike ==
  ASSUME NEW X, NEW ss \in Seq(Seq(X)), NEW tt \in Seq(Seq(X)), NEW f, NEW g, Steps(ss, f), Steps(tt, g),
         Len(ss) <= Len(tt), \A i \in 1 .. Len(ss) : ss[i] = tt[i]
  PROVE  \A i \in 1 .. Len(ss) : f[i] = g[i] /\ f[i] \in Seq(X)
<1> DEFINE n == Len(ss)
           T == {k \in Nat : k \in 1 .. n => f[k] = g[k] /\ f[k] \in Seq(X)}
<1>1. 0 \in T
  OBVIOUS
<1>2. ASSUME NEW k \in Nat, k \in T PROVE k + 1 \in T
  <2>1. SUFFICES ASSUME k + 1 \in 1 .. n PROVE f[k + 1] = g[k + 1] /\ f[k + 1] \in Seq(X)
    OBVIOUS
  <2> DEFINE m == k + 1
  <2>2. /\ m \in 1 .. Len(ss) /\ m \in 1 .. Len(tt) /\ m - 1 = k /\ ss[m] = tt[m]
        /\ ss[m] \in Seq(X) /\ m \in 1 .. n
    BY <2>1
  <2> HIDE DEF m
  <2>3. f[m] = IF m = 1 THEN ss[m] ELSE f[m - 1] \o ss[m]
    BY <2>2, StepEach
  <2>4. g[m] = IF m = 1 THEN tt[m] ELSE g[m - 1] \o tt[m]
    BY <2>2, StepEach
  <2>5. m # 1 => f[k] = g[k] /\ f[k] \in Seq(X)
    BY <1>2, <2>2
  <2>6. f[m] = g[m] /\ f[m] \in Seq(X)
    <3>1. CASE m = 1
      BY <2>2, <2>3, <2>4, <3>1
    <3>2. CASE m # 1
      <4>1. f[m] = f[k] \o ss[m] /\ g[m] = g[k] \o tt[m]
        BY <2>2, <2>3, <2>4, <3>2
      <4>2. f[k] = g[k] /\ f[k] \in Seq(X)
        BY <2>5, <3>2
      <4> HIDE DEF T
      <4>3. f[m] = g[m]
        BY <2>2, <4>1, <4>2
      <4>4. f[k] \o ss[m] \in Seq(X)
        BY <2>2, <4>2, ConcatProperties
      <4>5. QED
        BY <4>1, <4>3, <4>4
    <3>3. QED
      BY <3>1, <3>2
  <2>7. QED
    BY <2>6 DEF m
<1>3. Nat \subseteq T
  <2> HIDE DEF T
  <2>1. QED
    BY <1>1, <1>2, Numbers
<1>4. QED
  BY <1>3

\* What FlattenSeq is, piece by piece.
LEMMA FlatNone == Metainfo!FlattenSeq(<<>>) = <<>>
  BY DEF Metainfo!FlattenSeq

LEMMA FlatMore ==
  ASSUME NEW X, NEW ss \in Seq(Seq(X)), NEW x \in Seq(X)
  PROVE  /\ Metainfo!FlattenSeq(Append(ss, x)) = Metainfo!FlattenSeq(ss) \o x
         /\ Metainfo!FlattenSeq(ss) \in Seq(X)
<1> DEFINE tt == Append(ss, x)
           m == Len(ss) + 1
<1>1. /\ tt \in Seq(Seq(X)) /\ tt # <<>> /\ Len(tt) = m /\ tt[m] = x /\ m \in Nat
      /\ \A i \in 1 .. Len(ss) : tt[i] = ss[i]
  <2>1. ss \in Seq(Seq(X)) /\ x \in Seq(X)
    OBVIOUS
  <2>2. QED
    BY <2>1, AppendProperties
<1> HIDE DEF tt
<1>2. PICK g : Steps(tt, g) /\ Metainfo!FlattenSeq(tt) = g[m]
  BY <1>1, Joined
<1>3. g[m] = IF m = 1 THEN tt[m] ELSE g[m - 1] \o tt[m]
  BY <1>1, <1>2, StepEach
<1>4. CASE ss = <<>>
  <2>1. m = 1 /\ Metainfo!FlattenSeq(ss) = <<>> /\ <<>> \in Seq(X)
    BY <1>1, <1>4, FlatNone, EmptySeq
  <2>2. Metainfo!FlattenSeq(tt) = x
    BY <1>1, <1>2, <1>3, <2>1
  <2>3. x = <<>> \o x
    BY ConcatEmptySeq
  <2>4. QED
    BY <2>1, <2>2, <2>3 DEF tt
<1>5. CASE ss # <<>>
  <2>1. PICK f : Steps(ss, f) /\ Metainfo!FlattenSeq(ss) = f[Len(ss)]
    BY <1>5, Joined
  <2>2. Len(ss) \in Nat /\ Len(ss) <= Len(tt) /\ Len(ss) \in 1 .. Len(ss) /\ m # 1 /\ m - 1 = Len(ss)
    BY <1>1, <1>5, EmptySeq
  <2>3. f[Len(ss)] = g[Len(ss)] /\ f[Len(ss)] \in Seq(X)
    <3>1. \A i \in 1 .. Len(ss) : f[i] = g[i] /\ f[i] \in Seq(X)
      <4>1. Steps(tt, g) /\ Steps(ss, f) /\ Len(ss) \in Nat /\ Len(ss) <= Len(ss)
        BY <1>2, <2>1, <2>2
      <4>2. \A i \in 1 .. Len(ss) : ss[i] = tt[i]
        BY <1>1
      <4>3. tt \in Seq(Seq(X)) /\ Len(ss) <= Len(tt)
        BY <1>1, <2>2
      <4>4. QED
        BY <4>1, <4>2, <4>3, StepsAlike
    <3>2. QED
      BY <2>2, <3>1
  <2>4. QED
    BY <1>1, <1>2, <1>3, <2>1, <2>2, <2>3 DEF tt
<1>6. QED
  BY <1>4, <1>5

Elements(s) == Metainfo!ToSet(s)

LEMMA ElementsMore ==
  ASSUME NEW X, NEW s \in Seq(X), NEW x \in X PROVE Elements(Append(s, x)) = Elements(s) \cup {x}
<1>1. /\ DOMAIN Append(s, x) = DOMAIN s \cup {Len(s) + 1} /\ Append(s, x)[Len(s) + 1] = x
      /\ \A i \in DOMAIN s : Append(s, x)[i] = s[i]
  OBVIOUS
<1> DEFINE t == Append(s, x)
<1> HIDE DEF t
<1>2. Elements(t) = Elements(s) \cup {x}
  <2>1. DOMAIN t = DOMAIN s \cup {Len(s) + 1} /\ t[Len(s) + 1] = x /\ \A i \in DOMAIN s : t[i] = s[i]
    BY <1>1 DEF t
  <2>2. QED
    BY <2>1 DEF Elements, Metainfo!ToSet
<1>3. QED
  BY <1>2 DEF t

LEMMA ElementsJoined ==
  ASSUME NEW X, NEW s \in Seq(X), NEW t \in Seq(X)
  PROVE  Elements(s \o t) = Elements(s) \cup Elements(t)
<1> DEFINE u == s \o t
<1>1. /\ Len(u) = Len(s) + Len(t) /\ u \in Seq(X)
      /\ \A i \in 1 .. Len(u) : u[i] = IF i <= Len(s) THEN s[i] ELSE t[i - Len(s)]
  OBVIOUS
<1>2. Len(s) \in Nat /\ Len(t) \in Nat /\ DOMAIN s = 1 .. Len(s) /\ DOMAIN t = 1 .. Len(t)
      /\ DOMAIN u = 1 .. Len(u)
  BY <1>1
<1> HIDE DEF u
<1>3. ASSUME NEW e \in Elements(u) PROVE e \in Elements(s) \cup Elements(t)
  <2>1. PICK i \in 1 .. Len(u) : e = u[i]
    BY <1>2 DEF Elements, Metainfo!ToSet
  <2>2. CASE i <= Len(s)
    <3>1. i \in DOMAIN s /\ e = s[i]
      BY <1>1, <1>2, <2>1, <2>2
    <3>2. QED
      BY <3>1 DEF Elements, Metainfo!ToSet
  <2>3. CASE ~(i <= Len(s))
    <3>1. i - Len(s) \in DOMAIN t /\ e = t[i - Len(s)]
      BY <1>1, <1>2, <2>1, <2>3
    <3>2. QED
      BY <3>1 DEF Elements, Metainfo!ToSet
  <2>4. QED
    BY <2>2, <2>3
<1>4. ASSUME NEW e \in Elements(s) PROVE e \in Elements(u)
  <2>1. PICK i \in 1 .. Len(s) : e = s[i]
    BY <1>2 DEF Elements, Metainfo!ToSet
  <2>2. i \in DOMAIN u /\ u[i] = e
    BY <1>1, <1>2, <2>1
  <2>3. QED
    BY <2>2 DEF Elements, Metainfo!ToSet
<1>5. ASSUME NEW e \in Elements(t) PROVE e \in Elements(u)
  <2>1. PICK i \in 1 .. Len(t) : e = t[i]
    BY <1>2 DEF Elements, Metainfo!ToSet
  <2>2. i + Len(s) \in 1 .. Len(u) /\ ~(i + Len(s) <= Len(s)) /\ (i + Len(s)) - Len(s) = i
    BY <1>1, <1>2, <2>1
  <2>3. i + Len(s) \in DOMAIN u /\ u[i + Len(s)] = e
    BY <1>1, <1>2, <2>1, <2>2
  <2>4. QED
    BY <2>3 DEF Elements, Metainfo!ToSet
<1>6. QED
  BY <1>3, <1>4, <1>5 DEF u

\* WithoutLocal, tracker by tracker.
LEMMA WithoutNone == Metainfo!WithoutLocal(<<>>) = <<>>
<1>1. [i \in DOMAIN <<>> |-> IF Metainfo!IsLocal(<<>>[i]) THEN <<>> ELSE <<(<<>>[i])>>] = <<>>
  OBVIOUS
<1>2. QED
  BY <1>1, FlatNone DEF Metainfo!WithoutLocal

LEMMA WithoutMore ==
  ASSUME NEW X, NEW s \in Seq(X), NEW x \in X
  PROVE  /\ Metainfo!WithoutLocal(s) \in Seq(X)
         /\ Metainfo!WithoutLocal(Append(s, x)) =
              IF x \in Local THEN Metainfo!WithoutLocal(s) ELSE Append(Metainfo!WithoutLocal(s), x)
<1> DEFINE one(e) == IF Metainfo!IsLocal(e) THEN <<>> ELSE <<e>>
           boxes(l) == [i \in DOMAIN l |-> one(l[i])]
           t == Append(s, x)
<1>1. \A e \in X : one(e) \in Seq(X)
  BY EmptySeq
<1>2. t \in Seq(X) /\ Len(t) = Len(s) + 1 /\ t[Len(s) + 1] = x /\ \A i \in 1 .. Len(s) : t[i] = s[i]
  BY AppendProperties
<1> HIDE DEF one, t
<1>3. \A l \in Seq(X) : boxes(l) \in Seq(Seq(X)) /\ Len(boxes(l)) = Len(l)
      /\ DOMAIN boxes(l) = 1 .. Len(l)
  <2>1. SUFFICES ASSUME NEW l \in Seq(X)
                 PROVE  boxes(l) \in Seq(Seq(X)) /\ Len(boxes(l)) = Len(l)
                        /\ DOMAIN boxes(l) = 1 .. Len(l)
    OBVIOUS
  <2>2. boxes(l) = [i \in 1 .. Len(l) |-> one(l[i])] /\ Len(l) \in Nat
    OBVIOUS
  <2>3. \A i \in 1 .. Len(l) : one(l[i]) \in Seq(X)
    BY <1>1
  <2>4. QED
    BY <2>2, <2>3, IsASeq
<1>4. boxes(t) = Append(boxes(s), one(x))
  <2>1. Append(boxes(s), one(x)) \in Seq(Seq(X)) /\ Len(Append(boxes(s), one(x))) = Len(s) + 1
    BY <1>1, <1>3
  <2>2. ASSUME NEW i \in 1 .. Len(s) + 1 PROVE boxes(t)[i] = Append(boxes(s), one(x))[i]
    <3>1. boxes(t)[i] = one(t[i])
      BY <1>2
    <3>2. CASE i = Len(s) + 1
      BY <1>1, <1>2, <1>3, <3>1, <3>2
    <3>3. CASE i # Len(s) + 1
      <4>1. i \in 1 .. Len(s)
        BY <3>3
      <4>2. boxes(s)[i] = one(s[i])
        BY <4>1
      <4>3. Append(boxes(s), one(x))[i] = boxes(s)[i]
        BY <1>1, <1>3, <4>1
      <4>4. QED
        BY <1>2, <3>1, <4>1, <4>2, <4>3
    <3>4. QED
      BY <3>2, <3>3
  <2>3. boxes(t) \in Seq(Seq(X)) /\ Len(boxes(t)) = Len(s) + 1
    BY <1>2, <1>3
  <2> HIDE DEF boxes
  <2>4. QED
    BY <2>1, <2>2, <2>3, SeqEqual
<1>5. \A l : Metainfo!WithoutLocal(l) = Metainfo!FlattenSeq(boxes(l))
  BY DEF Metainfo!WithoutLocal, one
<1>6. boxes(s) \in Seq(Seq(X)) /\ one(x) \in Seq(X)
  BY <1>1, <1>3
<1> HIDE DEF boxes
<1>7. /\ Metainfo!FlattenSeq(Append(boxes(s), one(x))) = Metainfo!FlattenSeq(boxes(s)) \o one(x)
      /\ Metainfo!FlattenSeq(boxes(s)) \in Seq(X)
  BY <1>6, FlatMore
<1> DEFINE w == Metainfo!WithoutLocal(s)
<1>8. w \in Seq(X) /\ Metainfo!WithoutLocal(t) = w \o one(x)
  BY <1>4, <1>5, <1>7
<1> HIDE DEF w
<1>9. one(x) = IF x \in Local THEN <<>> ELSE <<x>>
  BY DEF one, Metainfo!IsLocal
<1>10. w \o <<>> = w /\ w \o <<x>> = Append(w, x)
  BY <1>8, ConcatEmptySeq, AppendIsConcat
<1>11. Metainfo!WithoutLocal(t) = IF x \in Local THEN w ELSE Append(w, x)
  BY <1>8, <1>9, <1>10
<1>12. QED
  BY <1>8, <1>11 DEF w, t

LEMMA WithoutKeeps ==
  ASSUME NEW X, NEW ts \in Seq(X)
  PROVE  /\ Metainfo!WithoutLocal(ts) \in Seq(X) /\ Len(Metainfo!WithoutLocal(ts)) <= Len(ts)
         /\ Elements(Metainfo!WithoutLocal(ts)) = Elements(ts) \ Local
<1> DEFINE w(s) == Metainfo!WithoutLocal(s)
           T == {s \in Seq(X) : /\ w(s) \in Seq(X) /\ Len(w(s)) <= Len(s)
                                /\ Elements(w(s)) = Elements(s) \ Local}
<1>1. <<>> \in T
  <2>1. w(<<>>) = <<>> /\ <<>> \in Seq(X) /\ Len(<<>>) = 0
    BY WithoutNone, EmptySeq
  <2>2. Elements(<<>>) = {}
    BY EmptySeq DEF Elements, Metainfo!ToSet
  <2>3. Elements(w(<<>>)) = {} \ Local
    BY <2>1, <2>2
  <2> HIDE DEF w
  <2>4. Len(w(<<>>)) <= Len(<<>>) /\ w(<<>>) \in Seq(X)
    <3>1. Len(w(<<>>)) = 0 /\ Len(<<>>) = 0 /\ w(<<>>) \in Seq(X)
      BY <2>1
    <3>2. QED
      BY <3>1
  <2>5. QED
    BY <2>1, <2>2, <2>3, <2>4
<1>2. ASSUME NEW s \in Seq(X), NEW x \in X, s \in T PROVE Append(s, x) \in T
  <2>1. w(s) \in Seq(X) /\ w(Append(s, x)) = IF x \in Local THEN w(s) ELSE Append(w(s), x)
    BY WithoutMore
  <2>2. Elements(Append(s, x)) = Elements(s) \cup {x}
    BY ElementsMore
  <2>3. Len(Append(s, x)) = Len(s) + 1 /\ Append(s, x) \in Seq(X) /\ Len(s) \in Nat
    OBVIOUS
  <2>4. Len(w(s)) <= Len(s) /\ Elements(w(s)) = Elements(s) \ Local
    BY <1>2
  <2> DEFINE v == w(s)
  <2> HIDE DEF w
  <2>5. CASE x \in Local
    BY <2>1, <2>2, <2>3, <2>4, <2>5
  <2>6. CASE x \notin Local
    <3>1. Elements(Append(w(s), x)) = Elements(w(s)) \cup {x}
      BY <2>1, ElementsMore
    <3>2. Len(Append(w(s), x)) = Len(w(s)) + 1 /\ Append(w(s), x) \in Seq(X) /\ Len(w(s)) \in Nat
      BY <2>1
    <3>3. w(Append(s, x)) = Append(w(s), x)
      BY <2>1, <2>6
    <3>4. Elements(Append(w(s), x)) = Elements(Append(s, x)) \ Local
      BY <2>2, <2>4, <2>6, <3>1
    <3>5. Len(Append(w(s), x)) <= Len(Append(s, x))
      BY <2>3, <2>4, <3>2
    <3>6. QED
      BY <2>3, <3>2, <3>3, <3>4, <3>5
  <2>7. QED
    BY <2>5, <2>6
<1>3. Seq(X) \subseteq T
  <2> HIDE DEF T
  <2>1. QED
    BY <1>1, <1>2, Lists
<1>4. QED
  BY <1>3

\* SafeTiers, tier by tier.
Flat(ss) == Metainfo!FlattenSeq(ss)
Safe(ss) == Metainfo!SafeTiers(ss)
Without(s) == Metainfo!WithoutLocal(s)

LEMMA SafeNone == Safe(<<>>) = <<>>
<1>1. [i \in DOMAIN <<>> |-> Metainfo!NonEmpty(Metainfo!WithoutLocal(<<>>[i]))] = <<>>
  OBVIOUS
<1>2. QED
  BY <1>1, FlatNone DEF Safe, Metainfo!SafeTiers

LEMMA SafeMore ==
  ASSUME NEW X, NEW s \in Seq(Seq(X)), NEW x \in Seq(X)
  PROVE  /\ Safe(s) \in Seq(Seq(X))
         /\ Safe(Append(s, x)) = IF Without(x) = <<>> THEN Safe(s) ELSE Append(Safe(s), Without(x))
<1> DEFINE one(e) == Metainfo!NonEmpty(Metainfo!WithoutLocal(e))
           boxes(l) == [i \in DOMAIN l |-> one(l[i])]
           t == Append(s, x)
<1>1. \A e \in Seq(X) : one(e) \in Seq(Seq(X))
  <2>1. SUFFICES ASSUME NEW e \in Seq(X) PROVE one(e) \in Seq(Seq(X))
    OBVIOUS
  <2>2. Metainfo!WithoutLocal(e) \in Seq(X)
    BY WithoutKeeps
  <2>3. QED
    BY <2>2, EmptySeq DEF Metainfo!NonEmpty
<1>2. /\ t \in Seq(Seq(X)) /\ Len(t) = Len(s) + 1 /\ t[Len(s) + 1] = x
      /\ \A i \in 1 .. Len(s) : t[i] = s[i]
  BY AppendProperties
<1> HIDE DEF one, t
<1>3. \A l \in Seq(Seq(X)) : /\ boxes(l) \in Seq(Seq(Seq(X))) /\ Len(boxes(l)) = Len(l)
                             /\ DOMAIN boxes(l) = 1 .. Len(l)
  <2>1. SUFFICES ASSUME NEW l \in Seq(Seq(X))
                 PROVE  /\ boxes(l) \in Seq(Seq(Seq(X))) /\ Len(boxes(l)) = Len(l)
                        /\ DOMAIN boxes(l) = 1 .. Len(l)
    OBVIOUS
  <2>2. boxes(l) = [i \in 1 .. Len(l) |-> one(l[i])] /\ Len(l) \in Nat
    OBVIOUS
  <2>3. \A i \in 1 .. Len(l) : one(l[i]) \in Seq(Seq(X))
    BY <1>1
  <2>4. QED
    BY <2>2, <2>3, IsASeq
<1>4. boxes(t) = Append(boxes(s), one(x))
  <2>1. /\ Append(boxes(s), one(x)) \in Seq(Seq(Seq(X)))
        /\ Len(Append(boxes(s), one(x))) = Len(s) + 1
    BY <1>1, <1>3
  <2>2. ASSUME NEW i \in 1 .. Len(s) + 1 PROVE boxes(t)[i] = Append(boxes(s), one(x))[i]
    <3>1. boxes(t)[i] = one(t[i])
      BY <1>2
    <3>2. CASE i = Len(s) + 1
      BY <1>1, <1>2, <1>3, <3>1, <3>2
    <3>3. CASE i # Len(s) + 1
      <4>1. i \in 1 .. Len(s)
        BY <3>3
      <4>2. boxes(s)[i] = one(s[i])
        BY <4>1
      <4>3. Append(boxes(s), one(x))[i] = boxes(s)[i]
        BY <1>1, <1>3, <4>1
      <4>4. QED
        BY <1>2, <3>1, <4>1, <4>2, <4>3
    <3>4. QED
      BY <3>2, <3>3
  <2>3. boxes(t) \in Seq(Seq(Seq(X))) /\ Len(boxes(t)) = Len(s) + 1
    BY <1>2, <1>3
  <2> HIDE DEF boxes
  <2>4. QED
    BY <2>1, <2>2, <2>3, SeqEqual
<1>5. \A l : Safe(l) = Metainfo!FlattenSeq(boxes(l))
  BY DEF Safe, Metainfo!SafeTiers, one
<1>6. boxes(s) \in Seq(Seq(Seq(X))) /\ one(x) \in Seq(Seq(X))
  BY <1>1, <1>3
<1> HIDE DEF boxes
<1>7. /\ Metainfo!FlattenSeq(Append(boxes(s), one(x))) = Metainfo!FlattenSeq(boxes(s)) \o one(x)
      /\ Metainfo!FlattenSeq(boxes(s)) \in Seq(Seq(X))
  BY <1>6, FlatMore
<1> DEFINE w == Safe(s)
           y == Without(x)
<1>8. w \in Seq(Seq(X)) /\ Safe(t) = w \o one(x)
  BY <1>4, <1>5, <1>7
<1>9. y \in Seq(X)
  BY WithoutKeeps DEF Without
<1>10. one(x) = IF y = <<>> THEN <<>> ELSE <<y>>
  BY DEF one, Metainfo!NonEmpty, Without
<1> HIDE DEF w, y
<1>11. w \o <<>> = w /\ w \o <<y>> = Append(w, y)
  BY <1>8, <1>9, ConcatEmptySeq, AppendIsConcat
<1>12. Safe(t) = IF y = <<>> THEN w ELSE Append(w, y)
  BY <1>8, <1>10, <1>11
<1>13. QED
  BY <1>8, <1>12 DEF w, t, y

LEMMA SafeKeeps ==
  ASSUME NEW X, NEW ts \in Seq(Seq(X))
  PROVE  /\ Safe(ts) \in Seq(Seq(X)) /\ \A i \in DOMAIN Safe(ts) : Safe(ts)[i] # <<>>
         /\ Flat(Safe(ts)) \in Seq(X) /\ Flat(ts) \in Seq(X)
         /\ Len(Flat(Safe(ts))) <= Len(Flat(ts))
         /\ Elements(Flat(Safe(ts))) = Elements(Flat(ts)) \ Local
<1> DEFINE Good(s) == /\ \A i \in DOMAIN Safe(s) : Safe(s)[i] # <<>>
                      /\ Len(Flat(Safe(s))) <= Len(Flat(s))
                      /\ Elements(Flat(Safe(s))) = Elements(Flat(s)) \ Local
           T == {s \in Seq(Seq(X)) : Good(s)}
<1>1. <<>> \in T
  <2>1. Safe(<<>>) = <<>> /\ Flat(<<>>) = <<>> /\ <<>> \in Seq(Seq(X)) /\ Len(<<>>) = 0
        /\ DOMAIN <<>> = {}
    BY SafeNone, FlatNone, EmptySeq DEF Flat
  <2>2. Elements(<<>>) = {}
    BY EmptySeq DEF Elements, Metainfo!ToSet
  <2>3. QED
    BY <2>1, <2>2
<1>2. ASSUME NEW s \in Seq(Seq(X)), NEW x \in Seq(X), s \in T PROVE Append(s, x) \in T
  <2> DEFINE t == Append(s, x)
             v == Safe(s)
             y == Without(x)
  <2>1. /\ t \in Seq(Seq(X)) /\ v \in Seq(Seq(X)) /\ Safe(t) = IF y = <<>> THEN v ELSE Append(v, y)
    BY SafeMore
  <2>2. y \in Seq(X) /\ Len(y) <= Len(x) /\ Elements(y) = Elements(x) \ Local /\ Len(y) \in Nat
        /\ Len(x) \in Nat
    BY WithoutKeeps DEF Without
  <2>3. Flat(t) = Flat(s) \o x /\ Flat(s) \in Seq(X)
    BY FlatMore DEF Flat
  <2>4. Flat(Append(v, y)) = Flat(v) \o y /\ Flat(v) \in Seq(X)
    BY <2>1, <2>2, FlatMore DEF Flat
  <2>5. /\ \A i \in DOMAIN v : v[i] # <<>>
        /\ Len(Flat(v)) <= Len(Flat(s)) /\ Elements(Flat(v)) = Elements(Flat(s)) \ Local
    BY <1>2
  <2> HIDE DEF t, v, y
  <2>6. /\ Len(Flat(t)) = Len(Flat(s)) + Len(x) /\ Len(Flat(s)) \in Nat /\ Len(Flat(v)) \in Nat
        /\ Len(Flat(v) \o y) = Len(Flat(v)) + Len(y)
    BY <2>2, <2>3, <2>4
  <2>7. /\ Elements(Flat(t)) = Elements(Flat(s)) \cup Elements(x)
        /\ Elements(Flat(v) \o y) = Elements(Flat(v)) \cup Elements(y)
    BY <2>2, <2>3, <2>4, ElementsJoined
  <2>8. CASE y = <<>>
    <3>1. Safe(t) = v /\ Elements(y) = {}
      BY <2>1, <2>8, EmptySeq DEF Elements, Metainfo!ToSet
    <3>2. Elements(Flat(v)) = Elements(Flat(t)) \ Local
      BY <2>2, <2>5, <2>7, <3>1
    <3>3. Good(t)
      BY <2>2, <2>5, <2>6, <3>1, <3>2
    <3>4. QED
      BY <2>1, <3>3 DEF t
  <2>9. CASE y # <<>>
    <3>1. Safe(t) = Append(v, y)
      BY <2>1, <2>9
    <3>2. Flat(Safe(t)) = Flat(v) \o y
      BY <2>4, <3>1
    <3>3. Elements(Flat(v) \o y) = Elements(Flat(t)) \ Local
      BY <2>2, <2>5, <2>7
    <3>4. Len(Flat(v) \o y) <= Len(Flat(t))
      BY <2>2, <2>5, <2>6
    <3>5. \A i \in DOMAIN Safe(t) : Safe(t)[i] # <<>>
      <4>1. /\ DOMAIN Append(v, y) = 1 .. Len(v) + 1 /\ Append(v, y)[Len(v) + 1] = y /\ Len(v) \in Nat
            /\ DOMAIN v = 1 .. Len(v) /\ \A i \in 1 .. Len(v) : Append(v, y)[i] = v[i]
        BY <2>1, <2>2
      <4>2. QED
        BY <2>5, <2>9, <3>1, <4>1
    <3>6. Good(t)
      BY <3>2, <3>3, <3>4, <3>5
    <3>7. QED
      BY <2>1, <3>6 DEF t
  <2>10. QED
    BY <2>8, <2>9
<1>3. Seq(Seq(X)) \subseteq T
  <2> HIDE DEF T
  <2>1. QED
    BY <1>1, <1>2, Lists
<1>4. Good(ts)
  BY <1>3
<1>5. Safe(ts) \in Seq(Seq(X))
  BY SafeMore, EmptySeq
<1>6. Flat(Safe(ts)) \in Seq(X) /\ Flat(ts) \in Seq(X)
  BY <1>5, FlatMore, EmptySeq DEF Flat
<1>7. QED
  BY <1>4, <1>5, <1>6

(***************************************************************************)
(* What TorrentMetainfo is given: torrent files and magnet links, any.  A  *)
(* tracker is public or inside the network, not both.                      *)
(***************************************************************************)
TorrentFiles(T, F) ==
  [kind : {"file"}, form : {"canonical", "loose", "broken"}, announce : {<<>>} \cup {<<t>> : t \in T},
   tiers : {<<>>} \cup {<<ts>> : ts \in Seq(Seq(T))}, publisher : {"none", "name", "long"},
   unknownKey : BOOLEAN, files : F, pieces : Nat, pieceLength : Nat]
MagnetLinks(H, T, O) ==
  [kind : {"magnet"}, xt : Seq(H), tr : Seq(T), optional : O, unknownKey : BOOLEAN]
TorrentInputs ==
  /\ MaxTrackers \in Nat /\ Public \cap Local = {}
  /\ \E T, F, H, O : Inputs \subseteq TorrentFiles(T, F) \cup MagnetLinks(H, T, O)

\* A torrent file with other trackers, and one with other files.
WithTrackers(m, a, ts, p, f) ==
  [m EXCEPT !.announce = a, !.tiers = ts, !.publisher = p, !.form = f]
WithFiles(m, a, fs, k, u) ==
  [m EXCEPT !.files = fs, !.pieces = k, !.unknownKey = u, !.announce = a]

\* A torrent file with other trackers is one, too.
LEMMA TrackersChanged ==
  ASSUME NEW T, NEW F, NEW m \in TorrentFiles(T, F),
         NEW a \in {<<>>} \cup {<<t>> : t \in T}, NEW ts \in {<<>>} \cup {<<l>> : l \in Seq(Seq(T))},
         NEW p \in {"none", "name", "long"}, NEW f \in {"canonical", "loose", "broken"}
  PROVE  WithTrackers(m, a, ts, p, f) \in TorrentFiles(T, F)
<1> DEFINE m1 == [m EXCEPT !.announce = a]
           m2 == [m1 EXCEPT !.tiers = ts]
           m3 == [m2 EXCEPT !.publisher = p]
           m4 == [m3 EXCEPT !.form = f]
<1>1. m1 \in TorrentFiles(T, F)
  BY DEF TorrentFiles
<1> HIDE DEF m1
<1>2. m2 \in TorrentFiles(T, F)
  BY <1>1 DEF TorrentFiles
<1> HIDE DEF m2
<1>3. m3 \in TorrentFiles(T, F)
  BY <1>2 DEF TorrentFiles
<1> HIDE DEF m3
<1>4. m4 \in TorrentFiles(T, F)
  BY <1>3 DEF TorrentFiles
<1>5. QED
  BY <1>4 DEF m1, m2, m3, WithTrackers

\* A torrent file with other files is one, too.
LEMMA FilesChanged ==
  ASSUME NEW T, NEW F, NEW m \in TorrentFiles(T, F),
         NEW a \in {<<>>} \cup {<<t>> : t \in T}, NEW fs \in F, NEW k \in Nat, NEW u \in BOOLEAN
  PROVE  WithFiles(m, a, fs, k, u) \in TorrentFiles(T, F)
<1> DEFINE n1 == [m EXCEPT !.files = fs]
           n2 == [n1 EXCEPT !.pieces = k]
           n3 == [n2 EXCEPT !.unknownKey = u]
           n4 == [n3 EXCEPT !.announce = a]
<1>1. n1 \in TorrentFiles(T, F)
  BY DEF TorrentFiles
<1> HIDE DEF n1
<1>2. n2 \in TorrentFiles(T, F)
  BY <1>1 DEF TorrentFiles
<1> HIDE DEF n2
<1>3. n3 \in TorrentFiles(T, F)
  BY <1>2 DEF TorrentFiles
<1> HIDE DEF n3
<1>4. n4 \in TorrentFiles(T, F)
  BY <1>3 DEF TorrentFiles
<1>5. QED
  BY <1>4 DEF n1, n2, n3, WithFiles

TrackerList(m) == Metainfo!Trackers(m)

LEMMA OneOrNone ==
  ASSUME NEW X, NEW a \in {<<>>} \cup {<<t>> : t \in X} PROVE a \in Seq(X)
<1>1. CASE a = <<>>
  BY <1>1, EmptySeq
<1>2. CASE a \in {<<t>> : t \in X}
  <2>1. PICK t \in X : a = <<t>>
    BY <1>2
  <2>2. QED
    BY <2>1
<1>3. QED
  BY <1>1, <1>2

\* What is written instead of a file that has local trackers, or a publisher.
LEMMA RewrittenIsSafe ==
  ASSUME NEW T, NEW F, NEW m \in TorrentFiles(T, F), Public \cap Local = {}, Metainfo!TrackersSound(m)
  PROVE  LET n == Metainfo!Rewritten(m) IN
         /\ n \in TorrentFiles(T, F) /\ n.publisher = "none"
         /\ n.files = m.files /\ n.pieces = m.pieces /\ n.pieceLength = m.pieceLength
         /\ n.form = m.form /\ n.unknownKey = m.unknownKey
         /\ Elements(TrackerList(n)) = Elements(TrackerList(m)) \cap Public
         /\ TrackerList(m) \in Seq(T) /\ TrackerList(n) \in Seq(T)
            /\ Len(TrackerList(n)) <= Len(TrackerList(m))
         /\ \A i \in DOMAIN Metainfo!Tiers(n) : Metainfo!Tiers(n)[i] # <<>>
         /\ ~Metainfo!RemovesTracker(m) /\ ~Metainfo!RemovesPublisher(m) => n = m
<1> DEFINE n == Metainfo!Rewritten(m)
           A == m.announce
           S == Metainfo!Tiers(m)
           ann == Metainfo!Announce(m)
           newTiers == IF Metainfo!RemovesTracker(m) /\ m.tiers # <<>>
                       THEN Metainfo!NonEmpty(Metainfo!SafeTiers(Metainfo!Tiers(m))) ELSE m.tiers
<1>1. /\ A \in {<<>>} \cup {<<t>> : t \in T} /\ A \in Seq(T) /\ S \in Seq(Seq(T))
      /\ m.tiers = <<>> => S = <<>>
      /\ m.tiers # <<>> => m.tiers = <<S>>
  <2>1. A \in {<<>>} \cup {<<t>> : t \in T} /\ m.tiers \in {<<>>} \cup {<<ts>> : ts \in Seq(Seq(T))}
    BY DEF TorrentFiles
  <2>2. A \in Seq(T)
    BY <2>1, OneOrNone
  <2>3. CASE m.tiers = <<>>
    BY <2>1, <2>2, <2>3, EmptySeq DEF Metainfo!Tiers
  <2>4. CASE m.tiers # <<>>
    <3>1. PICK ts \in Seq(Seq(T)) : m.tiers = <<ts>>
      BY <2>1, <2>4
    <3>2. S = ts
      BY <2>4, <3>1 DEF Metainfo!Tiers
    <3>3. QED
      BY <2>1, <2>2, <2>4, <3>1, <3>2
  <2>5. QED
    BY <2>3, <2>4
<1>2. TrackerList(m) = A \o Flat(S)
  BY DEF TrackerList, Flat, Metainfo!Trackers
<1> DEFINE L == TrackerList(m)
           P == Without(L)
<1>3. /\ Flat(S) \in Seq(T) /\ L \in Seq(T) /\ Elements(L) = Elements(A) \cup Elements(Flat(S))
      /\ Len(L) = Len(A) + Len(Flat(S))
  <2>1. Flat(S) \in Seq(T)
    BY <1>1, SafeKeeps
  <2>2. QED
    BY <1>1, <1>2, <2>1, ElementsJoined
<1>4. P \in Seq(T) /\ Len(P) <= Len(L) /\ Elements(P) = Elements(L) \ Local
  BY <1>3, WithoutKeeps DEF Without
\* The public ones are what is not local.
<1>5. Elements(L) \ Local = Elements(L) \cap Public
  <2>1. \A i \in DOMAIN P : P[i] \in Public
    BY DEF Metainfo!TrackersSound, Metainfo!PublicTrackers, Metainfo!Sound, TrackerList, Without
  <2>2. Elements(P) \subseteq Public
    BY <2>1 DEF Elements, Metainfo!ToSet
  <2>3. QED
    BY <1>4, <2>2
<1>6. Metainfo!RemovesTracker(m) <=> Elements(L) \cap Local # {}
  BY DEF Metainfo!RemovesTracker, Metainfo!IsLocal, Elements, Metainfo!ToSet, TrackerList
\* announce: nothing, a public tracker, or the first public one.
<1>7. /\ ann \in {<<>>} \cup {<<t>> : t \in T}
      /\ Elements(ann) \subseteq Elements(L) \ Local
      /\ Elements(A) \ Local \subseteq Elements(ann) /\ Len(ann) <= Len(A)
      /\ ~Metainfo!RemovesTracker(m) => ann = A
  <2>1. CASE A = <<>>
    <3>1. ann = A /\ Elements(A) = {}
      BY <2>1, EmptySeq DEF Metainfo!Announce, Elements, Metainfo!ToSet
    <3>2. QED
      BY <1>1, <3>1
  <2>2. CASE A # <<>>
    <3>1. PICK t \in T : A = <<t>>
      BY <1>1, <2>2
    <3>2. Elements(A) = {t} /\ A[1] = t /\ Len(A) = 1
      BY <3>1 DEF Elements, Metainfo!ToSet
    <3>3. CASE t \notin Local
      <4>1. ann = A
        BY <2>2, <3>2, <3>3 DEF Metainfo!Announce, Metainfo!IsLocal
      <4>2. Elements(A) \subseteq Elements(L) \ Local /\ Len(A) <= Len(A)
        BY <1>3, <3>2, <3>3
      <4> HIDE DEF ann, A
      <4>3. QED
        BY <1>1, <4>1, <4>2
    <3>4. CASE t \in Local
      <4>1. ann = IF P = <<>> THEN <<>> ELSE <<P[1]>>
        BY <2>2, <3>2, <3>4 DEF Metainfo!Announce, Metainfo!IsLocal, Metainfo!PublicTrackers,
                                TrackerList, Without
      <4>2. Metainfo!RemovesTracker(m)
        BY <1>3, <1>6, <3>2, <3>4
      <4>3. CASE P = <<>>
        <5>1. ann = <<>> /\ Elements(ann) = {} /\ Len(ann) = 0
          BY <4>1, <4>3, EmptySeq DEF Elements, Metainfo!ToSet
        <5>2. QED
          BY <3>2, <3>4, <4>2, <5>1
      <4>4. CASE P # <<>>
        <5>1. 1 \in DOMAIN P /\ P[1] \in T
          BY <1>4, <4>4
        <5>2. ann = <<P[1]>> /\ Elements(ann) = {P[1]} /\ Len(ann) = 1
          BY <4>1, <4>4 DEF Elements, Metainfo!ToSet
        <5>3. P[1] \in Elements(P)
          BY <5>1 DEF Elements, Metainfo!ToSet
        <5>4. QED
          BY <1>4, <3>2, <3>4, <4>2, <5>1, <5>2, <5>3
      <4>5. QED
        BY <4>3, <4>4
    <3>5. QED
      BY <3>3, <3>4
  <2>3. QED
    BY <2>1, <2>2
\* announce-list: what is not local of its tiers.
<1>8. PICK R \in Seq(Seq(T)) :
        /\ newTiers = (IF R = <<>> /\ (Metainfo!RemovesTracker(m) \/ m.tiers = <<>>) THEN <<>> ELSE <<R>>)
        /\ \A i \in DOMAIN R : R[i] # <<>>
        /\ Flat(R) \in Seq(T) /\ Elements(Flat(R)) = Elements(Flat(S)) \ Local
        /\ Len(Flat(R)) <= Len(Flat(S))
        /\ ~Metainfo!RemovesTracker(m) => newTiers = m.tiers
  <2>1. CASE Metainfo!RemovesTracker(m) /\ m.tiers # <<>>
    <3>1. newTiers = IF Safe(S) = <<>> THEN <<>> ELSE <<Safe(S)>>
      BY <2>1 DEF Metainfo!NonEmpty, Safe
    <3>2. /\ Safe(S) \in Seq(Seq(T)) /\ \A i \in DOMAIN Safe(S) : Safe(S)[i] # <<>>
          /\ Flat(Safe(S)) \in Seq(T) /\ Elements(Flat(Safe(S))) = Elements(Flat(S)) \ Local
          /\ Len(Flat(Safe(S))) <= Len(Flat(S))
      BY <1>1, SafeKeeps
    <3> Safe(S) \in Seq(Seq(T))
      BY <3>2
    <3>3. WITNESS Safe(S) \in Seq(Seq(T))
    <3>4. QED
      BY <2>1, <3>1, <3>2
  <2>2. CASE ~(Metainfo!RemovesTracker(m) /\ m.tiers # <<>>)
    <3>1. newTiers = m.tiers
      BY <2>2
    <3>2. Elements(Flat(S)) = Elements(Flat(S)) \ Local
      <4>1. CASE m.tiers = <<>>
        <5>1. S = <<>> /\ Flat(S) = <<>>
          BY <1>1, <4>1, FlatNone DEF Flat
        <5>2. QED
          BY <5>1, EmptySeq DEF Elements, Metainfo!ToSet
      <4>2. CASE ~Metainfo!RemovesTracker(m)
        BY <1>3, <1>6, <4>2
      <4>3. QED
        BY <2>2, <4>1, <4>2
    <3>3. \A i \in DOMAIN S : S[i] # <<>>
      BY DEF Metainfo!TrackersSound
    <3> S \in Seq(Seq(T))
      BY <1>1
    <3>4. WITNESS S \in Seq(Seq(T))
    <3>5. Len(Flat(S)) <= Len(Flat(S))
      BY <1>3
    <3>6. newTiers = IF S = <<>> /\ (Metainfo!RemovesTracker(m) \/ m.tiers = <<>>) THEN <<>> ELSE <<S>>
      BY <1>1, <2>2, <3>1
    <3> HIDE DEF newTiers
    <3>7. QED
      BY <1>3, <3>1, <3>2, <3>3, <3>5, <3>6
  <2>3. QED
    BY <2>1, <2>2
<1>9. n = [m EXCEPT !.announce = ann, !.publisher = "none", !.tiers = newTiers]
  BY DEF Metainfo!Rewritten
<1>10. newTiers \in {<<>>} \cup {<<ts>> : ts \in Seq(Seq(T))}
  BY <1>8
<1> HIDE DEF ann, newTiers, n
<1>11. /\ n \in TorrentFiles(T, F) /\ n.publisher = "none" /\ n.announce = ann /\ n.tiers = newTiers
       /\ n.files = m.files /\ n.pieces = m.pieces /\ n.pieceLength = m.pieceLength
       /\ n.form = m.form /\ n.unknownKey = m.unknownKey /\ n.kind = m.kind
  BY <1>7, <1>9, <1>10 DEF TorrentFiles
<1>12. Metainfo!Tiers(n) = R
  <2>1. CASE newTiers = <<>>
    BY <1>8, <1>11, <2>1 DEF Metainfo!Tiers
  <2>2. CASE newTiers # <<>>
    BY <1>8, <1>11, <2>2 DEF Metainfo!Tiers
  <2>3. QED
    BY <2>1, <2>2
<1>13. TrackerList(n) = ann \o Flat(R)
  BY <1>11, <1>12 DEF TrackerList, Flat, Metainfo!Trackers
<1>14. ann \in Seq(T) /\ Len(ann) \in Nat /\ Len(A) \in Nat /\ Len(Flat(R)) \in Nat
       /\ Len(Flat(S)) \in Nat
  <2>1. ann \in Seq(T)
    BY <1>7, OneOrNone
  <2>2. QED
    BY <1>1, <1>3, <1>8, <2>1
<1>15. /\ TrackerList(n) \in Seq(T) /\ Len(TrackerList(n)) = Len(ann) + Len(Flat(R))
       /\ Elements(TrackerList(n)) = Elements(ann) \cup Elements(Flat(R))
  BY <1>8, <1>13, <1>14, ElementsJoined
<1>16. Elements(TrackerList(n)) = Elements(L) \cap Public
  BY <1>3, <1>5, <1>7, <1>8, <1>15
<1>17. Len(TrackerList(n)) <= Len(L)
  BY <1>3, <1>7, <1>8, <1>14, <1>15
<1>18. ASSUME ~Metainfo!RemovesTracker(m), ~Metainfo!RemovesPublisher(m) PROVE n = m
  <2>1. ann = m.announce /\ newTiers = m.tiers /\ m.publisher = "none"
    BY <1>7, <1>8, <1>18 DEF Metainfo!RemovesPublisher
  <2>2. QED
    BY <1>9, <2>1 DEF TorrentFiles
<1>19. QED
  BY <1>3, <1>8, <1>11, <1>12, <1>15, <1>16, <1>17, <1>18 DEF n

\* Of one input: what is handed on for it.
LEMMA FileHanded ==
  ASSUME TorrentInputs, NEW T, NEW F, NEW m \in TorrentFiles(T, F),
         Metainfo!ValidateMetainfo(m) # <<>>
  PROVE  LET n == Metainfo!Rewritten(m) IN
         /\ Metainfo!ValidateMetainfo(m) = <<n>> /\ n.kind # "magnet"
         /\ Elements(TrackerList(n)) = Elements(TrackerList(m)) \cap Public
         /\ n.publisher = "none" /\ n.files = m.files /\ n.pieces = m.pieces
         /\ n # m => n.form = "canonical"
         /\ Metainfo!ValidateMetainfo(n) = <<n>>
<1> DEFINE n == Metainfo!Rewritten(m)
<1>1. /\ Metainfo!ValidateMetainfo(m) = <<n>>
      /\ Metainfo!WellFormed(m) /\ m.publisher # "long" /\ ~m.unknownKey
      /\ Metainfo!TrackersSound(m) /\ Metainfo!FilesSound(m)
      /\ Metainfo!PiecesFit(m, Metainfo!Total(m.files))
      /\ Metainfo!RemovesTracker(m) \/ Metainfo!RemovesPublisher(m) => m.form = "canonical"
  BY DEF Metainfo!ValidateMetainfo, Metainfo!Accepted, Metainfo!Refused
<1>2. Public \cap Local = {}
  BY DEF TorrentInputs
<1>3. /\ n \in TorrentFiles(T, F) /\ n.publisher = "none"
      /\ n.files = m.files /\ n.pieces = m.pieces /\ n.pieceLength = m.pieceLength
      /\ n.form = m.form /\ n.unknownKey = m.unknownKey
      /\ Elements(TrackerList(n)) = Elements(TrackerList(m)) \cap Public
      /\ TrackerList(m) \in Seq(T) /\ TrackerList(n) \in Seq(T)
         /\ Len(TrackerList(n)) <= Len(TrackerList(m))
      /\ \A i \in DOMAIN Metainfo!Tiers(n) : Metainfo!Tiers(n)[i] # <<>>
      /\ ~Metainfo!RemovesTracker(m) /\ ~Metainfo!RemovesPublisher(m) => n = m
  BY <1>1, <1>2, RewrittenIsSafe
<1> HIDE DEF n
\* None of its trackers is local, so nothing would be removed again.
<1>4. ~Metainfo!RemovesTracker(n)
  BY <1>2, <1>3 DEF Metainfo!RemovesTracker, Metainfo!IsLocal, Elements, Metainfo!ToSet, TrackerList
<1>5. ~Metainfo!RemovesPublisher(n)
  BY <1>3 DEF Metainfo!RemovesPublisher
<1>6. Metainfo!TrackersSound(n)
  <2> DEFINE P == Metainfo!PublicTrackers(n)
  <2>1. Elements(P) = Elements(TrackerList(n)) \ Local
    BY <1>3, WithoutKeeps DEF Metainfo!PublicTrackers, TrackerList
  <2>2. \A i \in DOMAIN P : P[i] \in Public
    <3>1. \A i \in DOMAIN P : P[i] \in Elements(P)
      BY DEF Elements, Metainfo!ToSet
    <3>2. QED
      BY <1>3, <2>1, <3>1
  <2>3. Len(TrackerList(m)) <= MaxTrackers
    BY <1>1 DEF Metainfo!TrackersSound, TrackerList
  <2>4. Len(TrackerList(n)) <= MaxTrackers
    <3>1. MaxTrackers \in Int
      BY DEF TorrentInputs
    <3>2. Len(TrackerList(n)) \in Nat /\ Len(TrackerList(m)) \in Int
      BY <1>3
    <3>3. QED
      BY <1>3, <2>3, <3>1, <3>2
  <2>5. QED
    BY <1>3, <2>2, <2>4 DEF Metainfo!TrackersSound, Metainfo!Sound, TrackerList
<1>7. Metainfo!FilesSound(n)
  BY <1>1, <1>3 DEF Metainfo!FilesSound
<1>8. Metainfo!PiecesFit(n, Metainfo!Total(n.files))
  BY <1>1, <1>3 DEF Metainfo!PiecesFit
<1>9. Metainfo!Rewritten(n) = n
  BY <1>2, <1>3, <1>4, <1>5, <1>6, RewrittenIsSafe
<1>10. Metainfo!ValidateMetainfo(n) = <<n>>
  BY <1>1, <1>3, <1>4, <1>5, <1>6, <1>7, <1>8, <1>9
     DEF Metainfo!ValidateMetainfo, Metainfo!Accepted, Metainfo!WellFormed
<1>11. n.kind # "magnet" /\ (n # m => n.form = "canonical")
  BY <1>1, <1>3 DEF TorrentFiles
<1>12. QED
  BY <1>1, <1>3, <1>10, <1>11 DEF n

LEMMA MagnetHanded ==
  ASSUME NEW H, NEW T, NEW O, NEW m \in MagnetLinks(H, T, O), Metainfo!ValidateMagnet(m) # <<>>
  PROVE  LET n == [m EXCEPT !.optional = {}] IN
         /\ Metainfo!ValidateMagnet(m) = <<n>> /\ n.kind = "magnet"
         /\ n.tr = m.tr /\ n.xt = m.xt /\ n.optional = {}
         /\ Metainfo!ValidateMagnet(n) = <<n>>
<1> DEFINE n == [m EXCEPT !.optional = {}]
<1>1. /\ Metainfo!ValidateMagnet(m) = <<n>>
      /\ Len(m.xt) = 1 /\ m.xt[1] # "malformed" /\ ~m.unknownKey
      /\ Len(m.tr) <= MaxTrackers /\ \A i \in DOMAIN m.tr : Metainfo!Sound(m.tr[i])
  BY DEF Metainfo!ValidateMagnet, Metainfo!Accepted, Metainfo!Refused
<1>2. /\ n.kind = "magnet" /\ n.xt = m.xt /\ n.tr = m.tr /\ n.unknownKey = m.unknownKey
      /\ n.optional = {} /\ [n EXCEPT !.optional = {}] = n
  BY DEF MagnetLinks
<1> HIDE DEF n
<1>3. Metainfo!ValidateMagnet(n) = <<n>>
  BY <1>1, <1>2 DEF Metainfo!ValidateMagnet, Metainfo!Accepted
<1>4. QED
  BY <1>1, <1>2, <1>3 DEF n

\* What has been handed on is what validation makes of the input.
HandedOn ==
  /\ input \in Inputs /\ result.value \in {<<>>, Metainfo!Validate(input)}

LEMMA HandedProperties ==
  ASSUME TorrentInputs, HandedOn PROVE Metainfo!NothingPrivate /\ Metainfo!AcceptedAgain
<1>1. SUFFICES ASSUME Metainfo!Handed PROVE Metainfo!NothingPrivate /\ Metainfo!AcceptedAgain
  BY DEF Metainfo!NothingPrivate, Metainfo!AcceptedAgain
<1>2. result.value = Metainfo!Validate(input) /\ Metainfo!Validate(input) # <<>>
  BY <1>1 DEF HandedOn, Metainfo!Handed, Metainfo!Refused
<1>3. PICK T, F, H, O : Inputs \subseteq TorrentFiles(T, F) \cup MagnetLinks(H, T, O)
  BY DEF TorrentInputs
<1> DEFINE m == input
<1>4. CASE m \in TorrentFiles(T, F)
  <2> DEFINE n == Metainfo!Rewritten(m)
  <2>1. Metainfo!Validate(m) = Metainfo!ValidateMetainfo(m)
    BY <1>4 DEF Metainfo!Validate, TorrentFiles
  <2>2. /\ Metainfo!ValidateMetainfo(m) = <<n>> /\ n.kind # "magnet"
        /\ Elements(TrackerList(n)) = Elements(TrackerList(m)) \cap Public
        /\ n.publisher = "none" /\ n.files = m.files /\ n.pieces = m.pieces
        /\ n # m => n.form = "canonical"
        /\ Metainfo!ValidateMetainfo(n) = <<n>>
    BY <1>2, <1>4, <2>1, FileHanded
  <2> HIDE DEF n
  <2>3. result.value = <<n>> /\ result.value[1] = n
    BY <1>2, <2>1, <2>2
  <2>4. Metainfo!Validate(n) = <<n>>
    BY <2>2 DEF Metainfo!Validate
  <2>5. QED
    BY <2>2, <2>3, <2>4
    DEF Metainfo!NothingPrivate, Metainfo!AcceptedAgain, Elements, TrackerList
<1>5. CASE m \in MagnetLinks(H, T, O)
  <2> DEFINE n == [m EXCEPT !.optional = {}]
  <2>1. Metainfo!Validate(m) = Metainfo!ValidateMagnet(m)
    BY <1>5 DEF Metainfo!Validate, MagnetLinks
  <2>2. /\ Metainfo!ValidateMagnet(m) = <<n>> /\ n.kind = "magnet"
        /\ n.tr = m.tr /\ n.xt = m.xt /\ n.optional = {}
        /\ Metainfo!ValidateMagnet(n) = <<n>>
    BY <1>2, <1>5, <2>1, MagnetHanded
  <2> HIDE DEF n
  <2>3. result.value = <<n>> /\ result.value[1] = n
    BY <1>2, <2>1, <2>2
  <2>4. Metainfo!Validate(n) = <<n>>
    BY <2>2 DEF Metainfo!Validate
  <2>5. QED
    BY <2>2, <2>3, <2>4 DEF Metainfo!NothingPrivate, Metainfo!AcceptedAgain
<1>6. QED
  BY <1>3, <1>4, <1>5 DEF HandedOn

LEMMA HandedInit == ASSUME Metainfo!Init PROVE HandedOn
  BY DEF Metainfo!Init, HandedOn, Metainfo!Refused

LEMMA HandedStep == ASSUME HandedOn, [Metainfo!Next]_Metainfo!vars PROVE HandedOn'
<1>1. CASE UNCHANGED Metainfo!vars
  BY <1>1 DEF Metainfo!vars, HandedOn
<1>2. CASE Metainfo!Next
  BY <1>2 DEF Metainfo!Next, HandedOn
<1>3. QED
  BY <1>1, <1>2

\* TorrentMetainfo: the engine is handed all public trackers of a torrent and no other, none of the
\* publisher's data and the same files - of every torrent file and magnet link, not only those that
\* TLC tries.
THEOREM NothingPrivateHanded ==
  ASSUME TorrentInputs PROVE Metainfo!Spec => []Metainfo!NothingPrivate
<1>1. TorrentInputs /\ HandedOn => Metainfo!NothingPrivate
  BY HandedProperties
<1>2. QED
  BY <1>1, HandedInit, HandedStep, PTL DEF Metainfo!Spec

\* TorrentMetainfo: validation is idempotent: what it has made of an input it accepts unchanged.
THEOREM HandedIsAcceptedAgain ==
  ASSUME TorrentInputs PROVE Metainfo!Spec => []Metainfo!AcceptedAgain
<1>1. TorrentInputs /\ HandedOn => Metainfo!AcceptedAgain
  BY HandedProperties
<1>2. QED
  BY <1>1, HandedInit, HandedStep, PTL DEF Metainfo!Spec
================================================================================

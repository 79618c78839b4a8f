------------------------------- MODULE SiteProofs -------------------------------
(***************************************************************************)
(* What the proofs about single parts of the site say of their composition *)
(* in MCSite: a behaviour is about the part that Init chooses, and every   *)
(* step is one of that part. Where MCSite and the module with the proofs   *)
(* both have an instance of a component, the two are the same, definition  *)
(* by definition: the lemmas about Init, Next and the properties say so.   *)
(***************************************************************************)
EXTENDS MCSite, TLAPS

Services == INSTANCE ServiceProofs WITH
  Assets <- {"a"}, User <- {"a"}, Key <- {"k1", "k2"}, Request <- {"r", "s"},
  MaxRestarts <- 1, Email <- {"a", "b"}, Browser <- {"x"}, MaxSerial <- 4, MaxResets <- 1,
  Pages <- {"p", "q"}, MaxRequests <- 2, MaxActs <- 2, MaxRevokes <- 1, MaxFaults <- 1,
  Public <- {"p", "q"}, Local <- {"l"}, Names <- {"a", "b"}, MaxTrackers <- 3,
  MaxTotal <- 3, Inputs <- MagnetSet \cup Tracked \cup Filed,
  row <- x1, file <- x2, card <- x3, referenced <- x4, sync <- x5, cleaner <- x6,
  excused <- x7, picture <- x1, asset <- x2, avatar <- x3, drawn <- x4, request <- x5,
  cleanup <- x6, unsure <- x7, restarts <- x8, account <- x1, token <- x2, mail <- x3,
  session <- x4, cookie <- x5, op <- x6, leaving <- x7, me <- x8, page <- x9, cached <- x10,
  serial <- x11, asked <- x1, granted <- x2, stored <- x3, call <- x4, shown <- x5,
  mounted <- x6, kept <- x7, doubted <- x8, acts <- x9, revokes <- x10, faults <- x11,
  input <- x1, result <- x2

Texts == INSTANCE EditProofs WITH
  Tabs <- {"a1", "a2", "b1"}, Writers <- {"a1", "a2"}, Readers <- {"b1"}, User <- User,
  Verified <- {"a", "b"}, Admins <- {"b"}, MaxItems <- 3, MaxTime <- 2, MaxActs <- 1,
  PageSize <- 1, MaxRows <- 2, MaxTexts <- 1, MaxTalks <- 1, MaxFaults <- 1,
  Windows <- {"t1", "t2"}, MaxDrafts <- 3, MaxSends <- 2, MaxReloads <- 1, Names <- {1, 2},
  Handles <- {"h", "k"}, Taken <- {"k"}, MaxTyped <- 2, MaxSaves <- 2, MaxOthers <- 1,
  MaxLosses <- 1,
  item <- x1, creating <- x2, view <- x3, edit <- x4, report <- x5, clock <- x6, acts <- x7,
  of <- x1, row <- x2, live <- x3, data <- x4, fetch <- x5, draft <- x6, sending <- x7,
  pending <- x8, form <- x9, op <- x10, told <- x11, crossed <- x12, unsure <- x13,
  typed <- x14, talks <- x15, faults <- x16, review <- x1, cached <- x2, reading <- x3,
  written <- x4, saving <- x5, seen <- x6, under <- x7, texts <- x8, sends <- x9,
  reloads <- x10, reviews <- x11, profile <- x1, copies <- x2, loading <- x3, failed <- x4,
  fields <- x5, submission <- x6, avatar <- x7, edited <- x8, behind <- x9, saves <- x10,
  entries <- x11, others <- x12, losses <- x13

MoreTexts == INSTANCE EditProofs WITH
  Tabs <- {"a1", "a2", "b1"}, Writers <- {"a1", "a2"}, Readers <- {}, User <- User,
  Verified <- {"a", "b"}, Admins <- {"b"}, MaxItems <- 2, MaxTime <- 1, MaxActs <- 2,
  PageSize <- 1, MaxRows <- 2, MaxTexts <- 1, MaxTalks <- 2, MaxFaults <- 0, Windows <- {},
  MaxDrafts <- {}, MaxSends <- {}, MaxReloads <- {}, Names <- {}, Handles <- {},
  Taken <- {}, MaxTyped <- {}, MaxSaves <- {}, MaxOthers <- {}, MaxLosses <- {},
  item <- x1, creating <- x2, view <- x3, edit <- x4, report <- x5, clock <- x6, acts <- x7,
  of <- x1, row <- x2, live <- x3, data <- x4, fetch <- x5, draft <- x6, sending <- x7,
  pending <- x8, form <- x9, op <- x10, told <- x11, crossed <- x12, unsure <- x13,
  typed <- x14, talks <- x15, faults <- x16, review <- None, cached <- None,
  reading <- None, written <- None, saving <- None, seen <- None, under <- None,
  texts <- None, sends <- None, reloads <- None, reviews <- None, profile <- None,
  copies <- None, loading <- None, failed <- None, fields <- None, submission <- None,
  avatar <- None, edited <- None, behind <- None, saves <- None, entries <- None,
  others <- None, losses <- None

RegistryPart == INSTANCE MediaRegistryProofs WITH
  MaxWorks <- 2, Alias <- Alias, Space <- Space, Types <- {"movie", "anime"},
  Requests <- Registrations, Tx <- {"t1", "t2"}, Users <- {"a"}, MaxTime <- 2,
  type <- x1, redirect <- x2, owner <- x3, tx <- x4,
  saved <- x5, target <- x6, clock <- x7,
  first <- x8, latest <- x9, unsafe <- x10, retaken <- x11

MergingPart == INSTANCE MediaRegistryProofs WITH
  MaxWorks <- 3, Alias <- Known, Space <- Space, Types <- {"movie", "anime"},
  Requests <- Bridges, Tx <- {"t1", "t2"}, Users <- {"a"}, MaxTime <- 1,
  type <- x1, redirect <- x2, owner <- x3, tx <- x4,
  saved <- x5, target <- x6, clock <- x7,
  first <- x8, latest <- x9, unsafe <- x10, retaken <- x11

FilesOK ==
  /\ part = "artwork" => Services!ArtworkOK
  /\ part = "avatars" => Services!AvatarsOK

LEMMA ArtworkInit == ASSUME Artwork!Init PROVE Services!Artwork!Init
  BY Zenon DEF Artwork!Idle, Services!Artwork!Idle, Artwork!Init, Services!Artwork!Init

LEMMA ArtworkNext == ASSUME Artwork!Next PROVE Services!Artwork!Next
  BY Zenon DEF Artwork!Idle, Services!Artwork!Idle, Artwork!Condemned, Services!Artwork!Condemned,
     Artwork!Import, Services!Artwork!Import, Artwork!UpsertAsset, Services!Artwork!UpsertAsset,
     Artwork!ReferenceAsset, Services!Artwork!ReferenceAsset, Artwork!AbortSync,
     Services!Artwork!AbortSync, Artwork!Dereference, Services!Artwork!Dereference,
     Artwork!StartCard, Services!Artwork!StartCard, Artwork!FinishCard,
     Services!Artwork!FinishCard, Artwork!FindUnreferencedAssets,
     Services!Artwork!FindUnreferencedAssets, Artwork!ListStoredAssets,
     Services!Artwork!ListStoredAssets, Artwork!DeleteAssetIfUnreferenced,
     Services!Artwork!DeleteAssetIfUnreferenced, Artwork!DeleteFile,
     Services!Artwork!DeleteFile, Artwork!EndCleanup, Services!Artwork!EndCleanup, Artwork!Age,
     Services!Artwork!Age, Artwork!Next, Services!Artwork!Next

LEMMA AvatarsInit == ASSUME Avatars!Init PROVE Services!Avatars!Init
  BY Zenon DEF Avatars!None, Services!Avatars!None, Avatars!Ended, Services!Avatars!Ended,
     Avatars!Started, Services!Avatars!Started, Avatars!Init, Services!Avatars!Init

LEMMA AvatarsNext == ASSUME Avatars!Next PROVE Services!Avatars!Next
  BY Zenon DEF Avatars!None, Services!Avatars!None, Avatars!Older, Services!Avatars!Older,
     Avatars!Ended,
     Services!Avatars!Ended, Avatars!Started, Services!Avatars!Started, Avatars!Referenced,
     Services!Avatars!Referenced, Avatars!Rows, Services!Avatars!Rows, Avatars!Ends,
     Services!Avatars!Ends, Avatars!KeepsRows, Services!Avatars!KeepsRows, Avatars!Rest,
     Services!Avatars!Rest, Avatars!Save, Services!Avatars!Save, Avatars!Previous,
     Services!Avatars!Previous, Avatars!ReplaceAvatar, Services!Avatars!ReplaceAvatar,
     Avatars!ReplaceFailed, Services!Avatars!ReplaceFailed, Avatars!ClearAvatar,
     Services!Avatars!ClearAvatar, Avatars!DeletePreviousRow,
     Services!Avatars!DeletePreviousRow, Avatars!DeletePreviousFile,
     Services!Avatars!DeletePreviousFile, Avatars!Read, Services!Avatars!Read,
     Avatars!FindUnreferencedAssets, Services!Avatars!FindUnreferencedAssets,
     Avatars!FindAssetObjectKeys, Services!Avatars!FindAssetObjectKeys,
     Avatars!ListStoredAssets, Services!Avatars!ListStoredAssets, Avatars!Orphans,
     Services!Avatars!Orphans, Avatars!DeleteAssetIfUnreferenced,
     Services!Avatars!DeleteAssetIfUnreferenced, Avatars!DeleteFile,
     Services!Avatars!DeleteFile, Avatars!CleanupFails, Services!Avatars!CleanupFails,
     Avatars!Restart, Services!Avatars!Restart, Avatars!GracePeriodPasses,
     Services!Avatars!GracePeriodPasses, Avatars!Next, Services!Avatars!Next

LEMMA FilesInit == Init => FilesOK
  BY ArtworkInit, AvatarsInit, Services!ArtworkInit, Services!AvatarsInit DEF Init, FilesOK

LEMMA FilesStep == ASSUME FilesOK, [Next]_vars PROVE FilesOK'
<1>1. ASSUME part = "artwork" PROVE Services!ArtworkOK'
  BY <1>1, ArtworkNext, Services!ArtworkStep DEF FilesOK, Next, vars, Services!Artwork!vars
<1>2. ASSUME part = "avatars" PROVE Services!AvatarsOK'
  BY <1>2, AvatarsNext, Services!AvatarsStep DEF FilesOK, Next, vars, Services!Avatars!vars
<1>3. QED
  BY <1>1, <1>2 DEF FilesOK, Next, vars

(***************************************************************************)
(* A picture that is referenced has its file: the artwork of catalog items *)
(* and the avatars of users (media-asset-cleanup.service.ts,               *)
(* profile-asset-cleanup.service.ts).                                      *)
(***************************************************************************)
THEOREM PicturesAreKept == Spec => []FilesKept
<1>1. Services!ArtworkOK => Artwork!ReferencedHasFile
  BY Services!ArtworkKept DEF Artwork!ReferencedHasFile, Services!Artwork!ReferencedHasFile
<1>2. Services!AvatarsOK => Avatars!AvatarHasFile
  BY Services!AvatarsKept DEF Avatars!AvatarHasFile, Services!Avatars!AvatarHasFile
<1>3. FilesOK => FilesKept
  BY <1>1, <1>2 DEF FilesOK, FilesKept
<1>4. QED
  BY <1>3, FilesInit, FilesStep, PTL DEF Spec

-----------------------------------------------------------------------------
LibraryOK ==
  /\ part = "registry" => RegistryPart!RegistryOK
  /\ part = "merging" => MergingPart!RegistryOK

LEMMA RegistryInit == ASSUME Registry!Init PROVE RegistryPart!Init
  BY Zenon DEF Registry!Works, RegistryPart!Works, Registry!Idle, RegistryPart!Idle,
     Registry!NoRows,
     RegistryPart!NoRows, Registry!Init, RegistryPart!Init

LEMMA RegistryNext == ASSUME Registry!Next PROVE RegistryPart!Next
  BY Zenon DEF Registry!Works, RegistryPart!Works, Registry!Created, RegistryPart!Created,
     Registry!Idle,
     RegistryPart!Idle, Registry!Closed, RegistryPart!Closed, Registry!Trail,
     RegistryPart!Trail, Registry!Resolves, RegistryPart!Resolves, Registry!Follow,
     RegistryPart!Follow, Registry!Newest, RegistryPart!Newest, Registry!Merged,
     RegistryPart!Merged, Registry!Disturbed, RegistryPart!Disturbed, Registry!LockAliases,
     RegistryPart!LockAliases, Registry!MatchWorks, RegistryPart!MatchWorks,
     Registry!ReadUserRows, RegistryPart!ReadUserRows, Registry!Commit, RegistryPart!Commit,
     Registry!ResolveSave, RegistryPart!ResolveSave, Registry!SaveRow, RegistryPart!SaveRow,
     Registry!ListRows, RegistryPart!ListRows, Registry!RemoveRow, RegistryPart!RemoveRow,
     Registry!Next, RegistryPart!Next, Registry!Cardinality, RegistryPart!Cardinality

LEMMA MergingInit == ASSUME Merging!Init PROVE MergingPart!Init
  BY Zenon DEF Merging!Works, MergingPart!Works, Merging!Idle, MergingPart!Idle, Merging!NoRows,
     MergingPart!NoRows, Merging!Init, MergingPart!Init

LEMMA MergingNext == ASSUME Merging!Next PROVE MergingPart!Next
  BY Zenon DEF Merging!Works, MergingPart!Works, Merging!Created, MergingPart!Created, Merging!Idle,
     MergingPart!Idle, Merging!Closed, MergingPart!Closed, Merging!Trail, MergingPart!Trail,
     Merging!Resolves, MergingPart!Resolves, Merging!Follow, MergingPart!Follow, Merging!Newest,
     MergingPart!Newest, Merging!Merged, MergingPart!Merged, Merging!Disturbed,
     MergingPart!Disturbed, Merging!LockAliases, MergingPart!LockAliases, Merging!MatchWorks,
     MergingPart!MatchWorks, Merging!ReadUserRows, MergingPart!ReadUserRows, Merging!Commit,
     MergingPart!Commit, Merging!ResolveSave, MergingPart!ResolveSave, Merging!SaveRow,
     MergingPart!SaveRow, Merging!ListRows, MergingPart!ListRows, Merging!RemoveRow,
     MergingPart!RemoveRow, Merging!Next, MergingPart!Next, Merging!Cardinality,
     MergingPart!Cardinality

LEMMA RequestsTyped == RegistryPart!RegistryConstants /\ MergingPart!RegistryConstants
  BY DEF RegistryPart!RegistryConstants, MergingPart!RegistryConstants, Registrations, Alias,
         Bridges, Known

LEMMA LibraryInit == Init => LibraryOK
  BY RegistryInit, MergingInit, RequestsTyped, RegistryPart!InitOK, MergingPart!InitOK
     DEF Init, LibraryOK

LEMMA LibraryStep == ASSUME LibraryOK, [Next]_vars PROVE LibraryOK'
<1>1. ASSUME part = "registry" PROVE RegistryPart!RegistryOK'
  BY <1>1, RequestsTyped, RegistryNext, RegistryPart!StepOK
     DEF LibraryOK, Next, vars, RegistryPart!vars
<1>2. ASSUME part = "merging" PROVE MergingPart!RegistryOK'
  BY <1>2, RequestsTyped, MergingNext, MergingPart!StepOK
     DEF LibraryOK, Next, vars, MergingPart!vars
<1>3. QED
  BY <1>1, <1>2 DEF LibraryOK, Next, vars

(***************************************************************************)
(* What users saved stays in their libraries, and old routes meet the      *)
(* works their identifiers point to, whatever merges and saves interleave  *)
(* (media-registry.service.ts, canonical-user-media.repository.ts).        *)
(***************************************************************************)
THEOREM LibraryIsKept == Spec => []SavedSurvives
<1>1. RegistryPart!RegistryOK => Registry!SavedSurvives /\ Registry!RouteAndAliasAgree
  BY DEF RegistryPart!RegistryOK, RegistryPart!SavedSurvives, RegistryPart!RouteAndAliasAgree,
         Registry!SavedSurvives, Registry!RouteAndAliasAgree, Registry!Trail, RegistryPart!Trail,
         Registry!Closed, RegistryPart!Closed, Registry!Works, RegistryPart!Works
<1>2. MergingPart!RegistryOK => Merging!SavedSurvives /\ Merging!RouteAndAliasAgree
  BY DEF MergingPart!RegistryOK, MergingPart!SavedSurvives, MergingPart!RouteAndAliasAgree,
         Merging!SavedSurvives, Merging!RouteAndAliasAgree, Merging!Trail, MergingPart!Trail,
         Merging!Closed, MergingPart!Closed, Merging!Works, MergingPart!Works
<1>3. LibraryOK => SavedSurvives
  BY <1>1, <1>2 DEF LibraryOK, SavedSurvives
<1>4. QED
  BY <1>3, LibraryInit, LibraryStep, PTL DEF Spec

-----------------------------------------------------------------------------
AccessOK ==
  /\ part = "accounts" => Services!AccountsOK
  /\ part = "pairing" => Services!PairingOK
  /\ part = "metainfo" => Services!HandedOn

LEMMA AccountsInit == ASSUME Account!Init PROVE Services!Account!Init
  BY Zenon DEF Account!Kinds, Services!Account!Kinds, Account!None, Services!Account!None,
     Account!NoOne,
     Services!Account!NoOne, Account!Unmade, Services!Account!Unmade, Account!NoToken,
     Services!Account!NoToken, Account!NoCookie, Services!Account!NoCookie, Account!NoAsk,
     Services!Account!NoAsk, Account!Shown, Services!Account!Shown, Account!Init,
     Services!Account!Init

LEMMA AccountsNext == ASSUME Account!Next PROVE Services!Account!Next
  BY Zenon DEF Account!Kinds, Services!Account!Kinds, Account!None, Services!Account!None,
     Account!NoOne,
     Services!Account!NoOne, Account!server, Services!Account!server, Account!client,
     Services!Account!client, Account!NoToken, Services!Account!NoToken, Account!NoCookie,
     Services!Account!NoCookie, Account!NoAsk, Services!Account!NoAsk, Account!Shown,
     Services!Account!Shown, Account!Idle, Services!Account!Idle, Account!Done,
     Services!Account!Done, Account!SaveToken, Services!Account!SaveToken, Account!Mailing,
     Services!Account!Mailing, Account!Register, Services!Account!Register, Account!CreateUser,
     Services!Account!CreateUser, Account!ResendVerification,
     Services!Account!ResendVerification, Account!RequestPasswordReset,
     Services!Account!RequestPasswordReset, Account!SendMail, Services!Account!SendMail,
     Account!Spends, Services!Account!Spends, Account!Spent, Services!Account!Spent,
     Account!VerifyEmail, Services!Account!VerifyEmail, Account!SessionsRevoked,
     Services!Account!SessionsRevoked, Account!ResetPassword, Services!Account!ResetPassword,
     Account!Cooled, Services!Account!Cooled, Account!TokenExpires,
     Services!Account!TokenExpires, Account!SessionExpires, Services!Account!SessionExpires,
     Account!CancelRequest, Services!Account!CancelRequest, Account!Forgets,
     Services!Account!Forgets, Account!SetAuthenticated, Services!Account!SetAuthenticated,
     Account!SetGuest, Services!Account!SetGuest, Account!Login, Services!Account!Login,
     Account!CreateSession, Services!Account!CreateSession, Account!LoginAnswered,
     Services!Account!LoginAnswered, Account!Logout, Services!Account!Logout,
     Account!LogoutAnswered, Services!Account!LogoutAnswered, Account!Refresh,
     Services!Account!Refresh, Account!UserOf, Services!Account!UserOf, Account!FindUser,
     Services!Account!FindUser, Account!RefreshAnswered, Services!Account!RefreshAnswered,
     Account!RefreshFailed, Services!Account!RefreshFailed, Account!LoadAccountQuery,
     Services!Account!LoadAccountQuery, Account!SaveProfile, Services!Account!SaveProfile,
     Account!ProfileSaved, Services!Account!ProfileSaved, Account!Next, Services!Account!Next

LEMMA PairingInit == ASSUME Pairing!Init PROVE Services!Pairing!Init
  BY Zenon DEF Pairing!Status, Services!Pairing!Status, Pairing!Idle, Services!Pairing!Idle,
     Pairing!Init,
     Services!Pairing!Init

LEMMA PairingNext == ASSUME Pairing!Next PROVE Services!Pairing!Next
  BY Zenon DEF Pairing!Fault, Services!Pairing!Fault, Pairing!Closed, Services!Pairing!Closed,
     Pairing!Status, Services!Pairing!Status, Pairing!Idle, Services!Pairing!Idle, Pairing!Open,
     Services!Pairing!Open, Pairing!Served, Services!Pairing!Served, Pairing!Serve,
     Services!Pairing!Serve, Pairing!Decide, Services!Pairing!Decide, Pairing!RevokeThere,
     Services!Pairing!RevokeThere, Pairing!To, Services!Pairing!To, Pairing!Show,
     Services!Pairing!Show, Pairing!End, Services!Pairing!End, Pairing!Unpaired,
     Services!Pairing!Unpaired, Pairing!Fail, Services!Pairing!Fail, Pairing!Mount,
     Services!Pairing!Mount, Pairing!Resting, Services!Pairing!Resting, Pairing!Connect,
     Services!Pairing!Connect, Pairing!Disconnect, Services!Pairing!Disconnect, Pairing!Cancel,
     Services!Pairing!Cancel, Pairing!Unmount, Services!Pairing!Unmount, Pairing!Keep,
     Services!Pairing!Keep, Pairing!Same, Services!Pairing!Same, Pairing!Hello,
     Services!Pairing!Hello, Pairing!ReadToken, Services!Pairing!ReadToken, Pairing!Succeed,
     Services!Pairing!Succeed, Pairing!Checked, Services!Pairing!Checked, Pairing!Forget,
     Services!Pairing!Forget, Pairing!Created, Services!Pairing!Created, Pairing!Polled,
     Services!Pairing!Polled, Pairing!Pause, Services!Pairing!Pause, Pairing!Write,
     Services!Pairing!Write, Pairing!Cancelled, Services!Pairing!Cancelled, Pairing!Unwrite,
     Services!Pairing!Unwrite, Pairing!ReadOld, Services!Pairing!ReadOld, Pairing!Revoked,
     Services!Pairing!Revoked, Pairing!Clear, Services!Pairing!Clear, Pairing!Aborted,
     Services!Pairing!Aborted, Pairing!Lost, Services!Pairing!Lost, Pairing!CancelLost,
     Services!Pairing!CancelLost, Pairing!DisconnectFails, Services!Pairing!DisconnectFails,
     Pairing!Next, Services!Pairing!Next

LEMMA MetainfoInit == ASSUME Metainfo!Init PROVE Services!Metainfo!Init
  BY Zenon DEF Metainfo!Refused, Services!Metainfo!Refused, Metainfo!Init, Services!Metainfo!Init

\* Both instances read, check and write a metainfo alike.
LEMMA SameMetainfo ==
  ASSUME NEW m
  PROVE  /\ Metainfo!Trackers(m) = Services!Metainfo!Trackers(m)
         /\ Metainfo!Rewritten(m) = Services!Metainfo!Rewritten(m)
  BY Zenon DEF Metainfo!Tiers, Services!Metainfo!Tiers, Metainfo!Trackers,
     Services!Metainfo!Trackers,
     Metainfo!IsLocal, Services!Metainfo!IsLocal, Metainfo!WithoutLocal,
     Services!Metainfo!WithoutLocal, Metainfo!PublicTrackers, Services!Metainfo!PublicTrackers,
     Metainfo!RemovesTracker, Services!Metainfo!RemovesTracker, Metainfo!NonEmpty,
     Services!Metainfo!NonEmpty, Metainfo!SafeTiers, Services!Metainfo!SafeTiers,
     Metainfo!Announce, Services!Metainfo!Announce, Metainfo!Rewritten,
     Services!Metainfo!Rewritten, Metainfo!FlattenSeq, Services!Metainfo!FlattenSeq

LEMMA SameChecks ==
  ASSUME NEW m
  PROVE  /\ Metainfo!TrackersSound(m) = Services!Metainfo!TrackersSound(m)
         /\ Metainfo!FilesSound(m) = Services!Metainfo!FilesSound(m)
         /\ Metainfo!RemovesTracker(m) = Services!Metainfo!RemovesTracker(m)
  BY Zenon DEF Metainfo!Tiers, Services!Metainfo!Tiers, Metainfo!Trackers,
     Services!Metainfo!Trackers,
     Metainfo!IsLocal, Services!Metainfo!IsLocal, Metainfo!Sound, Services!Metainfo!Sound,
     Metainfo!WithoutLocal, Services!Metainfo!WithoutLocal, Metainfo!PublicTrackers,
     Services!Metainfo!PublicTrackers, Metainfo!RemovesTracker,
     Services!Metainfo!RemovesTracker, Metainfo!TrackersSound, Services!Metainfo!TrackersSound,
     Metainfo!SafePart, Services!Metainfo!SafePart, Metainfo!Path, Services!Metainfo!Path,
     Metainfo!Clashes, Services!Metainfo!Clashes, Metainfo!FilesSound,
     Services!Metainfo!FilesSound, Metainfo!FlattenSeq, Services!Metainfo!FlattenSeq,
     Metainfo!IsPrefix, Services!Metainfo!IsPrefix

LEMMA SamePieces ==
  ASSUME NEW m
  PROVE  Metainfo!PiecesFit(m, Metainfo!Total(m.files))
         = Services!Metainfo!PiecesFit(m, Services!Metainfo!Total(m.files))
  BY Zenon DEF Metainfo!Total, Services!Metainfo!Total, Metainfo!PiecesFit,
     Services!Metainfo!PiecesFit,
     Metainfo!MapThenFoldSet, Services!Metainfo!MapThenFoldSet, Metainfo!MapThenSumSet,
     Services!Metainfo!MapThenSumSet

LEMMA SameValidation ==
  ASSUME NEW m PROVE Metainfo!Validate(m) = Services!Metainfo!Validate(m)
<1>1. Metainfo!ValidateMetainfo(m) = Services!Metainfo!ValidateMetainfo(m)
  BY SameMetainfo, SameChecks, SamePieces
     DEF Metainfo!ValidateMetainfo, Services!Metainfo!ValidateMetainfo, Metainfo!WellFormed,
         Services!Metainfo!WellFormed, Metainfo!RemovesPublisher,
         Services!Metainfo!RemovesPublisher, Metainfo!Accepted, Services!Metainfo!Accepted,
         Metainfo!Refused, Services!Metainfo!Refused
<1>2. Metainfo!ValidateMagnet(m) = Services!Metainfo!ValidateMagnet(m)
  BY Zenon DEF Metainfo!Refused, Services!Metainfo!Refused, Metainfo!Accepted,
     Services!Metainfo!Accepted,
     Metainfo!Sound, Services!Metainfo!Sound, Metainfo!ValidateMagnet,
     Services!Metainfo!ValidateMagnet
<1>3. QED
  BY Zenon, <1>1, <1>2 DEF Metainfo!Validate, Services!Metainfo!Validate

LEMMA MetainfoNext == ASSUME Metainfo!Next PROVE Services!Metainfo!Next
  BY Zenon, SameValidation DEF Metainfo!Next, Services!Metainfo!Next

\* The addresses and the torrents of MCSite are what the proofs suppose of them.
LEMMA AddressesTyped == Services!Addresses
  BY DEF Services!Addresses, Services!Account!NoOne

LEMMA TorrentsTyped == Services!TorrentInputs
<1> DEFINE T == {"p", "q", "l", "u"}
           H == {"h", "malformed"}
           O == {{}, {"dn"}}
           F == FileLists \cup {Torrent.files}
<1>1. MagnetSet \subseteq Services!MagnetLinks(H, T, O)
  <2> DEFINE X == {<<>>, <<"h">>, <<"malformed">>, <<"h", "h">>}
             R == {<<>>, <<"p">>, <<"p", "l">>, <<"p", "q", "p">>}
  <2>1. MagnetSet = {[kind |-> "magnet", xt |-> xt, tr |-> tr, optional |-> o, unknownKey |-> u] :
                       xt \in X, tr \in R, o \in O, u \in BOOLEAN}
    BY DEF MagnetSet
  <2>2. /\ <<>> \in Seq(H) /\ <<"h">> \in Seq(H) /\ <<"malformed">> \in Seq(H)
        /\ <<"h", "h">> \in Seq(H)
        /\ <<>> \in Seq(T) /\ <<"p">> \in Seq(T) /\ <<"p", "l">> \in Seq(T)
        /\ <<"p", "q", "p">> \in Seq(T)
    BY Services!EmptySeq
  <2>3. X \subseteq Seq(H) /\ R \subseteq Seq(T)
    BY <2>2
  <2> HIDE DEF X, R, H, T, O
  <2>4. QED
    BY <2>1, <2>3 DEF Services!MagnetLinks
<1>2. Tiers \subseteq Seq(Seq(T))
  <2>1. /\ <<>> \in Seq(T) /\ <<"p">> \in Seq(T) /\ <<"q">> \in Seq(T) /\ <<"l">> \in Seq(T)
        /\ <<"u">> \in Seq(T) /\ <<"p", "q">> \in Seq(T) /\ <<"q", "l">> \in Seq(T)
        /\ <<"p", "q", "l">> \in Seq(T)
    BY Services!EmptySeq
  <2> DEFINE S == Seq(T)
  <2> HIDE DEF S
  <2>2. /\ <<>> \in Seq(S) /\ <<<<"p">>, <<"q">>>> \in Seq(S)
        /\ <<<<"l">>, <<"p", "q">>>> \in Seq(S) /\ <<<<"l">>>> \in Seq(S)
        /\ <<<<"q", "l">>>> \in Seq(S) /\ <<<<"u">>>> \in Seq(S) /\ <<<<>>>> \in Seq(S)
        /\ <<<<"p", "q", "l">>>> \in Seq(S)
    BY <2>1, Services!EmptySeq DEF S
  <2>3. QED
    BY <2>2 DEF Tiers, S
<1>3. Torrent \in Services!TorrentFiles(T, F)
  <2>1. <<>> \in {<<>>} \cup {<<t>> : t \in T}
    OBVIOUS
  <2>2. Torrent.files \in F
    OBVIOUS
  <2> HIDE DEF T, F
  <2>3. QED
    BY <2>1, <2>2 DEF Torrent, Services!TorrentFiles
<1>4. {"p", "l", "u"} \subseteq T /\ FileLists \subseteq F /\ Torrent.files \in F /\ {1, 2} \subseteq Nat
  OBVIOUS
<1> HIDE DEF T, F
<1>5. ASSUME NEW m \in Tracked PROVE m \in Services!TorrentFiles(T, F)
  <2>1. PICK a \in {<<>>} \cup {<<u>> : u \in {"p", "l", "u"}}, t \in {<<>>} \cup {<<ts>> : ts \in Tiers},
             p \in {"none", "name", "long"}, f \in {"canonical", "loose", "broken"} :
               m = TrackedFile(a, t, p, f)
    BY DEF Tracked
  <2>2. a \in {<<>>} \cup {<<u>> : u \in T} /\ t \in {<<>>} \cup {<<l>> : l \in Seq(Seq(T))}
    BY <1>2, <1>4
  <2>3. TrackedFile(a, t, p, f) = Services!WithTrackers(Torrent, a, t, p, f)
    BY Zenon DEF TrackedFile, Services!WithTrackers
  <2>4. Services!WithTrackers(Torrent, a, t, p, f) \in Services!TorrentFiles(T, F)
    BY Zenon, <1>3, <2>2, Services!TrackersChanged
  <2>5. QED
    BY <2>1, <2>3, <2>4
<1>6. ASSUME NEW m \in Filed PROVE m \in Services!TorrentFiles(T, F)
  <2>1. PICK fs \in FileLists, k \in {1, 2}, u \in BOOLEAN : m = FiledFile(fs, k, u)
    BY DEF Filed
  <2>2. <<"l">> \in {<<>>} \cup {<<u1>> : u1 \in T} /\ <<>> \in {<<>>} \cup {<<l>> : l \in Seq(Seq(T))}
    BY <1>4
  <2>3. fs \in F /\ k \in Nat
    BY <1>4
  <2>4. FiledFile(fs, k, u) = Services!WithFiles(Torrent, <<"l">>, fs, k, u)
    BY Zenon DEF FiledFile, Services!WithFiles
  <2>5. Services!WithFiles(Torrent, <<"l">>, fs, k, u) \in Services!TorrentFiles(T, F)
    BY Zenon, <1>3, <2>2, <2>3, Services!FilesChanged
  <2>6. QED
    BY <2>1, <2>4, <2>5
<1>7. {"p", "q"} \cap {"l"} = {} /\ 3 \in Nat
  OBVIOUS
<1>8. QED
  BY <1>1, <1>5, <1>6, <1>7 DEF Services!TorrentInputs

LEMMA AccessInit == Init => AccessOK
  BY AccountsInit, PairingInit, MetainfoInit, AddressesTyped, Services!AccountsInit,
     Services!PairingInit, Services!HandedInit DEF Init, AccessOK

LEMMA AccessStep == ASSUME AccessOK, [Next]_vars PROVE AccessOK'
<1>1. ASSUME part = "accounts" PROVE Services!AccountsOK'
  BY <1>1, AddressesTyped, AccountsNext, Services!AccountsStep
     DEF AccessOK, Next, vars, Services!Account!vars
<1>2. ASSUME part = "pairing" PROVE Services!PairingOK'
  BY <1>2, PairingNext, Services!PairingStep DEF AccessOK, Next, vars, Services!Pairing!vars
<1>3. ASSUME part = "metainfo" PROVE Services!HandedOn'
  BY <1>3, MetainfoNext, Services!HandedStep DEF AccessOK, Next, vars, Services!Metainfo!vars
<1>4. QED
  BY <1>1, <1>2, <1>3 DEF AccessOK, Next, vars

(***************************************************************************)
(* Access ends when it should: a password reset revokes the sessions, a    *)
(* page shows the data of the account it is signed in with, a pairing that *)
(* was not completed leaves nothing open, and a torrent that is handed on  *)
(* names nothing private (auth.service.ts, AuthProvider.tsx,               *)
(* useCompanionConnection.ts, torrent-input.validation.ts).                *)
(***************************************************************************)
THEOREM AccessIsEnded == Spec => []AccessEnds
<1>1. ASSUME Services!Account!ResetRevokes, Services!Account!NoForeignData,
             Services!Account!ShownIsSignedIn
      PROVE  Account!ResetRevokes /\ Account!NoForeignData /\ Account!ShownIsSignedIn
  BY Zenon, <1>1 DEF Account!NoOne, Services!Account!NoOne, Account!UserOf, Services!Account!UserOf,
     Account!ShownIsSignedIn, Services!Account!ShownIsSignedIn, Account!NoForeignData,
     Services!Account!NoForeignData, Account!ResetRevokes, Services!Account!ResetRevokes
<1>2. ASSUME Services!Pairing!NothingLeftOpen PROVE Pairing!NothingLeftOpen
  BY Zenon, <1>2 DEF Services!Pairing!NothingLeftOpen, Pairing!NothingLeftOpen
<1>3. ASSUME Services!Metainfo!NothingPrivate PROVE Metainfo!NothingPrivate
  BY <1>3, SameMetainfo DEF Metainfo!NothingPrivate, Services!Metainfo!NothingPrivate,
     Metainfo!Handed,
         Services!Metainfo!Handed, Metainfo!Refused, Services!Metainfo!Refused, Metainfo!ToSet,
         Services!Metainfo!ToSet
<1>4. ASSUME Services!Metainfo!AcceptedAgain PROVE Metainfo!AcceptedAgain
  BY <1>4, SameValidation DEF Metainfo!AcceptedAgain, Services!Metainfo!AcceptedAgain,
     Metainfo!Handed,
         Services!Metainfo!Handed, Metainfo!Refused, Services!Metainfo!Refused
<1>5. AccessOK => AccessEnds
  BY <1>1, <1>2, <1>3, <1>4, TorrentsTyped, Services!AccountsKept, Services!HandedProperties
     DEF AccessOK, AccessEnds, Services!PairingOK
<1>6. QED
  BY <1>5, AccessInit, AccessStep, PTL DEF Spec

-----------------------------------------------------------------------------
TextsOK ==
  /\ part = "reading" => Texts!CommunityOK
  /\ part = "editing" => MoreTexts!CommunityOK
  /\ part = "editor" => Texts!EditorOK
  /\ part = "talking" => MoreTexts!DiscussionOK
  /\ part = "sending" => Texts!DiscussionOK
  /\ part = "profile" => Texts!ProfileOK

LEMMA ReadingInit == ASSUME Reading!Init PROVE Texts!Discuss!Init
  BY Zenon DEF Reading!Users, Texts!Discuss!Users, Reading!NoCreation, Texts!Discuss!NoCreation,
     Reading!NoEdit, Texts!Discuss!NoEdit, Reading!Closed, Texts!Discuss!Closed, Reading!Init,
     Texts!Discuss!Init

LEMMA ReadingNext == ASSUME Reading!Next PROVE Texts!Discuss!Next
<1>1. ASSUME NEW t
      PROVE  /\ Reading!CreateReview(t) => Texts!Discuss!CreateReview(t)
             /\ Reading!CommitComment(t) => Texts!Discuss!CommitComment(t)
             /\ Reading!OpenWork(t) => Texts!Discuss!OpenWork(t)
             /\ Reading!NextPage(t) => Texts!Discuss!NextPage(t)
             /\ Reading!Newer(t) => Texts!Discuss!Newer(t)
             /\ Reading!Update(t) => Texts!Discuss!Update(t)
  BY Zenon DEF Reading!Ids, Texts!Discuss!Ids, Reading!Works, Texts!Discuss!Works,
     Reading!NoCreation,
     Texts!Discuss!NoCreation, Reading!NoEdit, Texts!Discuss!NoEdit, Reading!Closed,
     Texts!Discuss!Closed, Reading!Forever, Texts!Discuss!Forever, Reading!Written,
     Texts!Discuss!Written, Reading!Live, Texts!Discuss!Live, Reading!Public,
     Texts!Discuss!Public, Reading!CreateReview, Texts!Discuss!CreateReview, Reading!Appended,
     Texts!Discuss!Appended, Reading!CommitComment, Texts!Discuss!CommitComment,
     Reading!RowFree, Texts!Discuss!RowFree, Reading!Matches, Texts!Discuss!Matches,
     Reading!Update, Texts!Discuss!Update, Reading!Discussion, Texts!Discuss!Discussion,
     Reading!Between, Texts!Discuss!Between, Reading!Latest, Texts!Discuss!Latest,
     Reading!FirstOf, Texts!Discuss!FirstOf, Reading!Cursor, Texts!Discuss!Cursor, Reading!Load,
     Texts!Discuss!Load, Reading!OpenWork, Texts!Discuss!OpenWork, Reading!NextPage,
     Texts!Discuss!NextPage, Reading!Newer, Texts!Discuss!Newer, Reading!Cardinality,
     Texts!Discuss!Cardinality
<1>2. ASSUME NEW t, NEW i
      PROVE  /\ Reading!BeginComment(t, i) => Texts!Discuss!BeginComment(t, i)
             /\ Reading!BeginMediaComment(t, i) => Texts!Discuss!BeginMediaComment(t, i)
             /\ Reading!OpenReview(t, i) => Texts!Discuss!OpenReview(t, i)
             /\ Reading!SoftDelete(t, i) => Texts!Discuss!SoftDelete(t, i)
             /\ Reading!CreateReport(t, i) => Texts!Discuss!CreateReport(t, i)
  BY Zenon DEF Reading!Ids, Texts!Discuss!Ids, Reading!Works, Texts!Discuss!Works, Reading!Closed,
     Texts!Discuss!Closed, Reading!Act, Texts!Discuss!Act, Reading!Live, Texts!Discuss!Live,
     Reading!Public, Texts!Discuss!Public, Reading!Unlocked, Texts!Discuss!Unlocked,
     Reading!BeginComment, Texts!Discuss!BeginComment, Reading!BeginMediaComment,
     Texts!Discuss!BeginMediaComment, Reading!RowFree, Texts!Discuss!RowFree,
     Reading!SoftDelete, Texts!Discuss!SoftDelete, Reading!CreateReport,
     Texts!Discuss!CreateReport, Reading!Discussion, Texts!Discuss!Discussion, Reading!Between,
     Texts!Discuss!Between, Reading!Latest, Texts!Discuss!Latest, Reading!FirstOf,
     Texts!Discuss!FirstOf, Reading!Cursor, Texts!Discuss!Cursor, Reading!Load,
     Texts!Discuss!Load, Reading!OpenReview, Texts!Discuss!OpenReview, Reading!Cardinality,
     Texts!Discuss!Cardinality
<1>3. ASSUME NEW t, NEW i, NEW x
      PROVE  /\ Reading!RequestEdit(t, i, x) => Texts!Discuss!RequestEdit(t, i, x)
             /\ Reading!SetVisibility(t, i, x) => Texts!Discuss!SetVisibility(t, i, x)
  BY Zenon DEF Reading!NoEdit, Texts!Discuss!NoEdit, Reading!Act, Texts!Discuss!Act,
     Reading!RowFree,
     Texts!Discuss!RowFree, Reading!RequestEdit, Texts!Discuss!RequestEdit,
     Reading!SetVisibility, Texts!Discuss!SetVisibility
<1>4. ASSUME NEW t, NEW i, NEW u, NEW status
      PROVE  /\ Reading!DecideReport(t, u, i, status) => Texts!Discuss!DecideReport(t, u, i, status)
  BY Zenon DEF Reading!DecideReport, Texts!Discuss!DecideReport
<1>5. QED
  BY SMTT(40), <1>1, <1>2, <1>3, <1>4
     DEF Reading!Next, Texts!Discuss!Next, Reading!Ids, Texts!Discuss!Ids, Reading!Users,
         Texts!Discuss!Users, Reading!Tick, Texts!Discuss!Tick

LEMMA EditingInit == ASSUME Editing!Init PROVE MoreTexts!Discuss!Init
  BY Zenon DEF Editing!Users, MoreTexts!Discuss!Users, Editing!NoCreation,
     MoreTexts!Discuss!NoCreation,
     Editing!NoEdit, MoreTexts!Discuss!NoEdit, Editing!Closed, MoreTexts!Discuss!Closed,
     Editing!Init, MoreTexts!Discuss!Init

LEMMA EditingNext == ASSUME Editing!Next PROVE MoreTexts!Discuss!Next
<1>1. ASSUME NEW t
      PROVE  /\ Editing!CreateReview(t) => MoreTexts!Discuss!CreateReview(t)
             /\ Editing!CommitComment(t) => MoreTexts!Discuss!CommitComment(t)
             /\ Editing!OpenWork(t) => MoreTexts!Discuss!OpenWork(t)
             /\ Editing!NextPage(t) => MoreTexts!Discuss!NextPage(t)
             /\ Editing!Newer(t) => MoreTexts!Discuss!Newer(t)
             /\ Editing!Update(t) => MoreTexts!Discuss!Update(t)
  BY Zenon DEF Editing!Ids, MoreTexts!Discuss!Ids, Editing!Works, MoreTexts!Discuss!Works,
     Editing!NoCreation, MoreTexts!Discuss!NoCreation, Editing!NoEdit, MoreTexts!Discuss!NoEdit,
     Editing!Closed, MoreTexts!Discuss!Closed, Editing!Forever, MoreTexts!Discuss!Forever,
     Editing!Written, MoreTexts!Discuss!Written, Editing!Live, MoreTexts!Discuss!Live,
     Editing!Public, MoreTexts!Discuss!Public, Editing!CreateReview,
     MoreTexts!Discuss!CreateReview, Editing!Appended, MoreTexts!Discuss!Appended,
     Editing!CommitComment, MoreTexts!Discuss!CommitComment, Editing!RowFree,
     MoreTexts!Discuss!RowFree, Editing!Matches, MoreTexts!Discuss!Matches, Editing!Update,
     MoreTexts!Discuss!Update, Editing!Discussion, MoreTexts!Discuss!Discussion,
     Editing!Between, MoreTexts!Discuss!Between, Editing!Latest, MoreTexts!Discuss!Latest,
     Editing!FirstOf, MoreTexts!Discuss!FirstOf, Editing!Cursor, MoreTexts!Discuss!Cursor,
     Editing!Load, MoreTexts!Discuss!Load, Editing!OpenWork, MoreTexts!Discuss!OpenWork,
     Editing!NextPage, MoreTexts!Discuss!NextPage, Editing!Newer, MoreTexts!Discuss!Newer,
     Editing!Cardinality, MoreTexts!Discuss!Cardinality
<1>2. ASSUME NEW t, NEW i
      PROVE  /\ Editing!BeginComment(t, i) => MoreTexts!Discuss!BeginComment(t, i)
             /\ Editing!BeginMediaComment(t, i) => MoreTexts!Discuss!BeginMediaComment(t, i)
             /\ Editing!OpenReview(t, i) => MoreTexts!Discuss!OpenReview(t, i)
             /\ Editing!SoftDelete(t, i) => MoreTexts!Discuss!SoftDelete(t, i)
             /\ Editing!CreateReport(t, i) => MoreTexts!Discuss!CreateReport(t, i)
  BY Zenon DEF Editing!Ids, MoreTexts!Discuss!Ids, Editing!Works, MoreTexts!Discuss!Works,
     Editing!Closed,
     MoreTexts!Discuss!Closed, Editing!Act, MoreTexts!Discuss!Act, Editing!Live,
     MoreTexts!Discuss!Live, Editing!Public, MoreTexts!Discuss!Public, Editing!Unlocked,
     MoreTexts!Discuss!Unlocked, Editing!BeginComment, MoreTexts!Discuss!BeginComment,
     Editing!BeginMediaComment, MoreTexts!Discuss!BeginMediaComment, Editing!RowFree,
     MoreTexts!Discuss!RowFree, Editing!SoftDelete, MoreTexts!Discuss!SoftDelete,
     Editing!CreateReport, MoreTexts!Discuss!CreateReport, Editing!Discussion,
     MoreTexts!Discuss!Discussion, Editing!Between, MoreTexts!Discuss!Between, Editing!Latest,
     MoreTexts!Discuss!Latest, Editing!FirstOf, MoreTexts!Discuss!FirstOf, Editing!Cursor,
     MoreTexts!Discuss!Cursor, Editing!Load, MoreTexts!Discuss!Load, Editing!OpenReview,
     MoreTexts!Discuss!OpenReview, Editing!Cardinality, MoreTexts!Discuss!Cardinality
<1>3. ASSUME NEW t, NEW i, NEW x
      PROVE  /\ Editing!RequestEdit(t, i, x) => MoreTexts!Discuss!RequestEdit(t, i, x)
             /\ Editing!SetVisibility(t, i, x) => MoreTexts!Discuss!SetVisibility(t, i, x)
  BY Zenon DEF Editing!NoEdit, MoreTexts!Discuss!NoEdit, Editing!Act, MoreTexts!Discuss!Act,
     Editing!RowFree, MoreTexts!Discuss!RowFree, Editing!RequestEdit,
     MoreTexts!Discuss!RequestEdit, Editing!SetVisibility, MoreTexts!Discuss!SetVisibility
<1>4. ASSUME NEW t, NEW i, NEW u, NEW status
      PROVE  /\ Editing!DecideReport(t, u, i, status) => MoreTexts!Discuss!DecideReport(t, u, i, status)
  BY Zenon DEF Editing!DecideReport, MoreTexts!Discuss!DecideReport
<1>5. QED
  BY SMTT(40), <1>1, <1>2, <1>3, <1>4
     DEF Editing!Next, MoreTexts!Discuss!Next, Editing!Ids, MoreTexts!Discuss!Ids,
         Editing!Users, MoreTexts!Discuss!Users, Editing!Tick, MoreTexts!Discuss!Tick

LEMMA EditorInit == ASSUME Editor!Init PROVE Texts!Editor!Init
  BY Zenon DEF Editor!NoReview, Texts!Editor!NoReview, Editor!Unloaded, Texts!Editor!Unloaded,
     Editor!Closed, Texts!Editor!Closed, Editor!NoFetch, Texts!Editor!NoFetch, Editor!NoOp,
     Texts!Editor!NoOp, Editor!Init, Texts!Editor!Init

LEMMA EditorNext == ASSUME Editor!Next PROVE Texts!Editor!Next
  BY Zenon DEF Editor!NoReview, Texts!Editor!NoReview, Editor!Closed, Texts!Editor!Closed,
     Editor!NoFetch,
     Texts!Editor!NoFetch, Editor!NoOp, Texts!Editor!NoOp, Editor!Dirty, Texts!Editor!Dirty,
     Editor!Saw, Texts!Editor!Saw, Editor!Adopted, Texts!Editor!Adopted, Editor!Ask,
     Texts!Editor!Ask, Editor!Load, Texts!Editor!Load, Editor!Serve, Texts!Editor!Serve,
     Editor!Opened, Texts!Editor!Opened, Editor!Given, Texts!Editor!Given, Editor!Loaded,
     Texts!Editor!Loaded, Editor!LoadFails, Texts!Editor!LoadFails, Editor!Ready,
     Texts!Editor!Ready, Editor!Type, Texts!Editor!Type, Editor!Send, Texts!Editor!Send,
     Editor!Submit, Texts!Editor!Submit, Editor!ConfirmDelete, Texts!Editor!ConfirmDelete,
     Editor!Create, Texts!Editor!Create, Editor!Expected, Texts!Editor!Expected, Editor!Update,
     Texts!Editor!Update, Editor!Delete, Texts!Editor!Delete, Editor!Synchronize,
     Texts!Editor!Synchronize, Editor!Saved, Texts!Editor!Saved, Editor!Deleted,
     Texts!Editor!Deleted, Editor!Fails, Texts!Editor!Fails, Editor!Next, Texts!Editor!Next

LEMMA TalkingInit == ASSUME Talking!Init PROVE MoreTexts!Talk!Init
  BY Zenon DEF Talking!NoFetch, MoreTexts!Talk!NoFetch, Talking!NoForm, MoreTexts!Talk!NoForm,
     Talking!Untold, MoreTexts!Talk!Untold, Talking!Row, MoreTexts!Talk!Row, Talking!Init,
     MoreTexts!Talk!Init

LEMMA TalkingNext == ASSUME Talking!Next PROVE MoreTexts!Talk!Next
  BY Zenon DEF Talking!Ids, MoreTexts!Talk!Ids, Talking!NoFetch, MoreTexts!Talk!NoFetch,
     Talking!NoForm,
     MoreTexts!Talk!NoForm, Talking!Gone, MoreTexts!Talk!Gone, Talking!Known,
     MoreTexts!Talk!Known, Talking!Row, MoreTexts!Talk!Row, Talking!Act, MoreTexts!Talk!Act,
     Talking!Open, MoreTexts!Talk!Open, Talking!Public, MoreTexts!Talk!Public, Talking!Fetching,
     MoreTexts!Talk!Fetching, Talking!Shown, MoreTexts!Talk!Shown, Talking!Load,
     MoreTexts!Talk!Load, Talking!LoadMore, MoreTexts!Talk!LoadMore, Talking!After,
     MoreTexts!Talk!After, Talking!First, MoreTexts!Talk!First, Talking!Largest,
     MoreTexts!Talk!Largest, Talking!Pages, MoreTexts!Talk!Pages, Talking!Ceiling,
     MoreTexts!Talk!Ceiling, Talking!Read, MoreTexts!Talk!Read, Talking!ReadNext,
     MoreTexts!Talk!ReadNext, Talking!Serve, MoreTexts!Talk!Serve, Talking!Loaded,
     MoreTexts!Talk!Loaded, Talking!LoadFails, MoreTexts!Talk!LoadFails, Talking!Type,
     MoreTexts!Talk!Type, Talking!CanSubmit, MoreTexts!Talk!CanSubmit, Talking!Submit,
     MoreTexts!Talk!Submit, Talking!Create, MoreTexts!Talk!Create, Talking!Tell,
     MoreTexts!Talk!Tell, Talking!Put, MoreTexts!Talk!Put, Talking!Created,
     MoreTexts!Talk!Created, Talking!CreateFails, MoreTexts!Talk!CreateFails, Talking!Card,
     MoreTexts!Talk!Card, Talking!Busy, MoreTexts!Talk!Busy, Talking!Edit, MoreTexts!Talk!Edit,
     Talking!Send, MoreTexts!Talk!Send, Talking!Save, MoreTexts!Talk!Save,
     Talking!ConfirmDelete, MoreTexts!Talk!ConfirmDelete, Talking!Hide, MoreTexts!Talk!Hide,
     Talking!Reply, MoreTexts!Talk!Reply, Talking!To, MoreTexts!Talk!To, Talking!Expects,
     MoreTexts!Talk!Expects, Talking!Update, MoreTexts!Talk!Update, Talking!Remove1,
     MoreTexts!Talk!Remove1, Talking!Root, MoreTexts!Talk!Root, Talking!Answer,
     MoreTexts!Talk!Answer, Talking!Elsewhere, MoreTexts!Talk!Elsewhere, Talking!Changed,
     MoreTexts!Talk!Changed, Talking!KeepsPlace, MoreTexts!Talk!KeepsPlace, Talking!Without,
     MoreTexts!Talk!Without, Talking!Removed, MoreTexts!Talk!Removed, Talking!OpFails,
     MoreTexts!Talk!OpFails, Talking!OthersWrite, MoreTexts!Talk!OthersWrite,
     Talking!OthersChange, MoreTexts!Talk!OthersChange, Talking!ReviewGone,
     MoreTexts!Talk!ReviewGone, Talking!Next, MoreTexts!Talk!Next, Talking!Cardinality,
     MoreTexts!Talk!Cardinality

LEMMA SendingInit == ASSUME Sending!Init PROVE Texts!Talk!Init
  BY Zenon DEF Sending!NoFetch, Texts!Talk!NoFetch, Sending!NoForm, Texts!Talk!NoForm,
     Sending!Untold,
     Texts!Talk!Untold, Sending!Row, Texts!Talk!Row, Sending!Init, Texts!Talk!Init

LEMMA SendingNext == ASSUME Sending!Next PROVE Texts!Talk!Next
  BY Zenon DEF Sending!Ids, Texts!Talk!Ids, Sending!NoFetch, Texts!Talk!NoFetch, Sending!NoForm,
     Texts!Talk!NoForm, Sending!Gone, Texts!Talk!Gone, Sending!Known, Texts!Talk!Known,
     Sending!Row, Texts!Talk!Row, Sending!Act, Texts!Talk!Act, Sending!Open, Texts!Talk!Open,
     Sending!Public, Texts!Talk!Public, Sending!Fetching, Texts!Talk!Fetching, Sending!Shown,
     Texts!Talk!Shown, Sending!Load, Texts!Talk!Load, Sending!LoadMore, Texts!Talk!LoadMore,
     Sending!After, Texts!Talk!After, Sending!First, Texts!Talk!First, Sending!Largest,
     Texts!Talk!Largest, Sending!Pages, Texts!Talk!Pages, Sending!Ceiling, Texts!Talk!Ceiling,
     Sending!Read, Texts!Talk!Read, Sending!ReadNext, Texts!Talk!ReadNext, Sending!Serve,
     Texts!Talk!Serve, Sending!Loaded, Texts!Talk!Loaded, Sending!LoadFails,
     Texts!Talk!LoadFails, Sending!Type, Texts!Talk!Type, Sending!CanSubmit,
     Texts!Talk!CanSubmit, Sending!Submit, Texts!Talk!Submit, Sending!Create, Texts!Talk!Create,
     Sending!Tell, Texts!Talk!Tell, Sending!Put, Texts!Talk!Put, Sending!Created,
     Texts!Talk!Created, Sending!CreateFails, Texts!Talk!CreateFails, Sending!Card,
     Texts!Talk!Card, Sending!Busy, Texts!Talk!Busy, Sending!Edit, Texts!Talk!Edit,
     Sending!Send, Texts!Talk!Send, Sending!Save, Texts!Talk!Save, Sending!ConfirmDelete,
     Texts!Talk!ConfirmDelete, Sending!Hide, Texts!Talk!Hide, Sending!Reply, Texts!Talk!Reply,
     Sending!To, Texts!Talk!To, Sending!Expects, Texts!Talk!Expects, Sending!Update,
     Texts!Talk!Update, Sending!Remove1, Texts!Talk!Remove1, Sending!Root, Texts!Talk!Root,
     Sending!Answer, Texts!Talk!Answer, Sending!Elsewhere, Texts!Talk!Elsewhere,
     Sending!Changed, Texts!Talk!Changed, Sending!KeepsPlace, Texts!Talk!KeepsPlace,
     Sending!Without, Texts!Talk!Without, Sending!Removed, Texts!Talk!Removed, Sending!OpFails,
     Texts!Talk!OpFails, Sending!OthersWrite, Texts!Talk!OthersWrite, Sending!OthersChange,
     Texts!Talk!OthersChange, Sending!ReviewGone, Texts!Talk!ReviewGone, Sending!Next,
     Texts!Talk!Next, Sending!Cardinality, Texts!Talk!Cardinality

LEMMA ProfileInit == ASSUME Profile!Init PROVE Texts!Profile!Init
  BY Zenon DEF Profile!Queries, Texts!Profile!Queries, Profile!Row0, Texts!Profile!Row0,
     Profile!View,
     Texts!Profile!View, Profile!NoFetch, Texts!Profile!NoFetch, Profile!NoAvatar,
     Texts!Profile!NoAvatar, Profile!FieldsOf, Texts!Profile!FieldsOf, Profile!Idle,
     Texts!Profile!Idle, Profile!Init, Texts!Profile!Init

LEMMA ProfileNext == ASSUME Profile!Next PROVE Texts!Profile!Next
  BY Zenon DEF Profile!Queries, Texts!Profile!Queries, Profile!Texts, Texts!Profile!Texts,
     Profile!Fields,
     Texts!Profile!Fields, Profile!Row0, Texts!Profile!Row0, Profile!View, Texts!Profile!View,
     Profile!NoFetch, Texts!Profile!NoFetch, Profile!Asked, Texts!Profile!Asked,
     Profile!NoAvatar, Texts!Profile!NoAvatar, Profile!Mounted, Texts!Profile!Mounted,
     Profile!FieldsOf, Texts!Profile!FieldsOf, Profile!Idle, Texts!Profile!Idle,
     Profile!Changes, Texts!Profile!Changes, Profile!Invalidated, Texts!Profile!Invalidated,
     Profile!Fault, Texts!Profile!Fault, Profile!Load, Texts!Profile!Load, Profile!Read,
     Texts!Profile!Read, Profile!Loaded, Texts!Profile!Loaded, Profile!NotLoaded,
     Texts!Profile!NotLoaded, Profile!Type, Texts!Profile!Type, Profile!Quiet,
     Texts!Profile!Quiet, Profile!Submit, Texts!Profile!Submit, Profile!Stored,
     Texts!Profile!Stored, Profile!Serve, Texts!Profile!Serve, Profile!Answered,
     Texts!Profile!Answered, Profile!EndInError, Texts!Profile!EndInError, Profile!Refused,
     Texts!Profile!Refused, Profile!NoAnswer, Texts!Profile!NoAnswer, Profile!ChangeAvatar,
     Texts!Profile!ChangeAvatar, Profile!ServeAvatar, Texts!Profile!ServeAvatar,
     Profile!AvatarAnswered, Texts!Profile!AvatarAnswered, Profile!AvatarFails,
     Texts!Profile!AvatarFails, Profile!Elsewhere, Texts!Profile!Elsewhere, Profile!Next,
     Texts!Profile!Next

LEMMA TextsInit == Init => TextsOK
  BY ReadingInit, EditingInit, EditorInit, TalkingInit, SendingInit, ProfileInit,
     Texts!CommunityInit, Texts!DiscussionInit, Texts!EditorInit, Texts!ProfileInit,
     MoreTexts!CommunityInit, MoreTexts!DiscussionInit DEF Init, TextsOK

LEMMA TextsStep == ASSUME TextsOK, [Next]_vars PROVE TextsOK' /\ EditsAreBased /\ TextKept
<1>1. ASSUME part = "reading" PROVE Texts!CommunityOK' /\ Reading!EditsAreBased
  <2>1. Texts!CommunityOK' /\ Texts!Discuss!EditsAreBased
    BY <1>1, ReadingNext, Texts!CommunityStep
       DEF TextsOK, Next, vars, Texts!Discuss!vars
  <2>2. QED
    BY Zenon, <2>1 DEF Reading!Ids, Texts!Discuss!Ids, Reading!NoEdit, Texts!Discuss!NoEdit,
       Reading!EditsAreBased, Texts!Discuss!EditsAreBased
<1>2. ASSUME part = "editing" PROVE MoreTexts!CommunityOK' /\ Reading!EditsAreBased
  <2>1. MoreTexts!CommunityOK' /\ MoreTexts!Discuss!EditsAreBased
    BY <1>2, EditingNext, MoreTexts!CommunityStep
       DEF TextsOK, Next, vars, MoreTexts!Discuss!vars
  <2>2. QED
    BY Zenon, <2>1 DEF Reading!Ids, MoreTexts!Discuss!Ids, Reading!NoEdit, MoreTexts!Discuss!NoEdit,
       Reading!EditsAreBased, MoreTexts!Discuss!EditsAreBased
<1>3. ASSUME part = "editor" PROVE Texts!EditorOK' /\ Editor!OverwritesSeen /\ Editor!DraftKept
  <2>1. Texts!EditorOK' /\ Texts!Editor!OverwritesSeen /\ Texts!Editor!DraftKept
    BY <1>3, EditorNext, Texts!EditorMoves
       DEF TextsOK, Next, vars, Texts!Editor!vars, Texts!EditorStep
  <2>2. QED
    BY Zenon, <2>1 DEF Editor!Dirty, Texts!Editor!Dirty, Editor!OverwritesSeen,
       Texts!Editor!OverwritesSeen,
       Editor!DraftKept, Texts!Editor!DraftKept
<1>4. ASSUME part = "talking" PROVE MoreTexts!DiscussionOK' /\ Talking!EditsAreSeen /\ Talking!DraftKept
  <2>1. MoreTexts!DiscussionOK' /\ MoreTexts!Talk!EditsAreSeen /\ MoreTexts!Talk!DraftKept
    BY <1>4, TalkingNext, MoreTexts!DiscussionStep
       DEF TextsOK, Next, vars, MoreTexts!Talk!vars, MoreTexts!TalkStep
  <2>2. QED
    BY Zenon, <2>1 DEF Talking!Ids, MoreTexts!Talk!Ids, Talking!EditsAreSeen,
       MoreTexts!Talk!EditsAreSeen,
       Talking!DraftKept, MoreTexts!Talk!DraftKept
<1>5. ASSUME part = "sending" PROVE Texts!DiscussionOK' /\ Talking!EditsAreSeen /\ Talking!DraftKept
  <2>1. Texts!DiscussionOK' /\ Texts!Talk!EditsAreSeen /\ Texts!Talk!DraftKept
    BY <1>5, SendingNext, Texts!DiscussionStep
       DEF TextsOK, Next, vars, Texts!Talk!vars, Texts!TalkStep
  <2>2. QED
    BY Zenon, <2>1 DEF Talking!Ids, Texts!Talk!Ids, Talking!EditsAreSeen, Texts!Talk!EditsAreSeen,
       Talking!DraftKept, Texts!Talk!DraftKept
<1>6. ASSUME part = "profile" PROVE Texts!ProfileOK' /\ Profile!SavedIsTyped
  <2>1. Texts!ProfileOK' /\ Texts!Profile!SavedIsTyped
    BY <1>6, ProfileNext, Texts!ProfileMoves
       DEF TextsOK, Next, vars, Texts!Profile!vars, Texts!ProfileStep
  <2>2. QED
    BY Zenon, <2>1 DEF Profile!Queries, Texts!Profile!Queries, Profile!Mounted,
       Texts!Profile!Mounted,
       Profile!SavedIsTyped, Texts!Profile!SavedIsTyped
<1>7. QED
  BY <1>1, <1>2, <1>3, <1>4, <1>5, <1>6 DEF TextsOK, EditsAreBased, TextKept, Next, vars

(***************************************************************************)
(* No edit overwrites one its author has not seen, and nothing typed is    *)
(* lost or said to be stored when it is not: on the server, in the editor  *)
(* of reviews, in discussions and on the profile page (review-             *)
(* comments.repository.ts, ReviewEditor.tsx, MediaComments.tsx,            *)
(* ProfileEditForm.tsx).                                                   *)
(***************************************************************************)
THEOREM TextsAreKept == Spec => NoLostEdit
<1>1. TextsOK /\ [Next]_vars => TextsOK' /\ [EditsAreBased /\ TextKept]_vars
  BY TextsStep
<1>2. QED
  BY <1>1, TextsInit, PTL DEF Spec, NoLostEdit
=============================================================================

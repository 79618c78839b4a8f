-------------------------------- MODULE ArtworkStore --------------------------------
(***************************************************************************)
(* The artwork of the editorial catalog: files named by their checksum,    *)
(* the media_assets rows that know them, the references of catalog items,  *)
(* the card-sized copies made on demand, and the cleanup script that       *)
(* deletes what nothing references once a grace period has passed.         *)
(*                                                                         *)
(* A catalog sync is reduced to what it does to one asset at a time:       *)
(* import the file, upsert its row, reference it from a staged item.       *)
(***************************************************************************)
EXTENDS Naturals

CONSTANTS
  Assets       \* artwork, by checksum

VARIABLES
  row,         \* asset -> age of its media_assets row: "none", "fresh" or "old"
  file,        \* asset -> age of its file
  card,        \* asset -> state of its card copy: "none", "making" or "made"
  referenced,  \* the assets catalog items reference
  sync,        \* asset -> what the sync does next for it: "idle", "row", "reference"
  cleaner,     \* the cleanup: its step, its candidate rows, stray files, and unlink due
  excused      \* assets a sync works on that were garbage past their grace (history)

vars == <<row, file, card, referenced, sync, cleaner, excused>>

Ages == {"none", "fresh", "old"}
Idle == [step |-> "idle", assets |-> {}, strays |-> {}, unlink |-> {}]

TypeOK ==
  /\ row \in [Assets -> Ages] /\ file \in [Assets -> Ages]
  /\ card \in [Assets -> {"none", "making", "made"}]
  /\ referenced \subseteq Assets
  /\ sync \in [Assets -> {"idle", "row", "reference"}]
  /\ cleaner \in [step : {"idle", "list", "delete"}, assets : SUBSET Assets,
                  strays : SUBSET Assets, unlink : SUBSET Assets]
  /\ excused \subseteq Assets

Init ==
  /\ row = [a \in Assets |-> "none"] /\ file = [a \in Assets |-> "none"]
  /\ card = [a \in Assets |-> "none"]
  /\ referenced = {} /\ excused = {}
  /\ sync = [a \in Assets |-> "idle"]
  /\ cleaner = Idle

\* What a cleanup in progress has already decided to delete.
Condemned == IF cleaner.step = "delete" THEN cleaner.assets \cup cleaner.strays \cup cleaner.unlink ELSE {}

-----------------------------------------------------------------------------
(* The sync. *)

\* A row whose file exists is reused, and a file that exists is not written again
\* (findUsableAssets, downloadAndStore); both keep their age.  Another item may reference
\* the asset already.
Import(a) ==
  /\ sync[a] = "idle"
  /\ sync' = [sync EXCEPT ![a] = "row"]
  /\ file' = [file EXCEPT ![a] = IF @ = "none" THEN "fresh" ELSE @]
  /\ excused' = IF a \notin referenced /\ ("old" \in {row[a], file[a]} \/ a \in Condemned)
                THEN excused \cup {a} ELSE excused
  /\ UNCHANGED <<row, card, referenced, cleaner>>

\* A row that conflicts on the checksum keeps its created_at.
UpsertAsset(a) ==
  /\ sync[a] = "row"
  /\ sync' = [sync EXCEPT ![a] = "reference"]
  /\ row' = [row EXCEPT ![a] = IF @ = "none" THEN "fresh" ELSE @]
  /\ UNCHANGED <<file, card, referenced, cleaner, excused>>

\* The item of a staging revision; its foreign key needs the row.
ReferenceAsset(a) ==
  /\ sync[a] = "reference" /\ row[a] # "none"
  /\ sync' = [sync EXCEPT ![a] = "idle"]
  /\ referenced' = referenced \cup {a}
  /\ UNCHANGED <<row, file, card, cleaner, excused>>

AbortSync(a) ==
  /\ sync[a] # "idle"
  /\ sync' = [sync EXCEPT ![a] = "idle"]
  /\ UNCHANGED <<row, file, card, referenced, cleaner, excused>>

\* A retry of a staged edition replaces the artwork of an item whose picture changed.  A
\* sync that counts on the artwork for another item then works on garbage.
Dereference(a) ==
  /\ a \in referenced
  /\ referenced' = referenced \ {a}
  /\ excused' = CASE sync[a] = "idle" -> excused \ {a}
                  [] sync[a] # "idle" /\ "old" \in {row[a], file[a]} -> excused \cup {a}
                  [] OTHER -> excused
  /\ UNCHANGED <<row, file, card, sync, cleaner>>

-----------------------------------------------------------------------------
(* Requests for a card-sized backdrop. *)

\* One copy at a time per backdrop, written aside and renamed.
StartCard(a) ==
  /\ file[a] # "none" /\ card[a] = "none"
  /\ card' = [card EXCEPT ![a] = "making"]
  /\ UNCHANGED <<row, file, referenced, sync, cleaner, excused>>

FinishCard(a) ==
  /\ card[a] = "making"
  /\ \/ card' = [card EXCEPT ![a] = "made"]
     \/ card' = [card EXCEPT ![a] = "none"]       \* the original was gone, or an error
  /\ UNCHANGED <<row, file, referenced, sync, cleaner, excused>>

-----------------------------------------------------------------------------
(* The cleanup script, applied. *)

\* findUnreferencedAssets and findAssetObjectKeys; files without a row are strays.
FindUnreferencedAssets ==
  /\ cleaner = Idle
  /\ cleaner' = [step |-> "list", unlink |-> {},
                 assets |-> {a \in Assets : row[a] = "old" /\ a \notin referenced},
                 strays |-> {a \in Assets : row[a] = "none"}]
  /\ UNCHANGED <<row, file, card, referenced, sync, excused>>

\* Mutant: strays of any age.
ListAllStoredAssets ==
  /\ cleaner.step = "list"
  /\ cleaner' = [cleaner EXCEPT !.step = "delete"]
  /\ UNCHANGED <<row, file, card, referenced, sync, excused>>

\* listStoredAssets, narrowed to the strays past the grace period.
ListStoredAssets ==
  /\ cleaner.step = "list"
  /\ cleaner' = [cleaner EXCEPT !.step = "delete", !.strays = {a \in @ : file[a] = "old"}]
  /\ UNCHANGED <<row, file, card, referenced, sync, excused>>

\* deleteAssetIfUnreferenced asks again in the delete itself.
DeleteAssetIfUnreferenced(a) ==
  /\ cleaner.step = "delete" /\ cleaner.unlink = {} /\ a \in cleaner.assets
  /\ LET gone == row[a] # "none" /\ a \notin referenced IN
       /\ row' = [row EXCEPT ![a] = IF gone THEN "none" ELSE @]
       /\ cleaner' = [cleaner EXCEPT !.assets = @ \ {a}, !.unlink = IF gone THEN {a} ELSE {}]
  /\ UNCHANGED <<file, card, referenced, sync, excused>>

\* The file of the row just deleted, or a stray once the rows are done, and its card.
DeleteFile(a) ==
  /\ cleaner.step = "delete"
  /\ \/ a \in cleaner.unlink
     \/ cleaner.unlink = {} /\ cleaner.assets = {} /\ a \in cleaner.strays
  /\ file' = [file EXCEPT ![a] = "none"]
  /\ card' = [card EXCEPT ![a] = IF @ = "made" THEN "none" ELSE @]
  /\ cleaner' = [cleaner EXCEPT !.unlink = @ \ {a}, !.strays = @ \ {a}]
  /\ UNCHANGED <<row, referenced, sync, excused>>

\* The script is done, or ends early.
EndCleanup ==
  /\ cleaner # Idle
  /\ cleaner' = Idle
  /\ UNCHANGED <<row, file, card, referenced, sync, excused>>

\* The grace period of a row or of a file passes; neither script runs that long.
Age(a) ==
  /\ cleaner = Idle /\ \A b \in Assets : sync[b] = "idle" /\ card[b] # "making"
  /\ row' = [row EXCEPT ![a] = IF @ = "fresh" THEN "old" ELSE @]
  /\ file' = [file EXCEPT ![a] = IF @ = "fresh" THEN "old" ELSE @]
  /\ UNCHANGED <<card, referenced, sync, cleaner, excused>>

-----------------------------------------------------------------------------
Next ==
  \/ \E a \in Assets :
       \/ Import(a) \/ UpsertAsset(a) \/ ReferenceAsset(a) \/ AbortSync(a) \/ Dereference(a)
       \/ StartCard(a) \/ FinishCard(a)
       \/ DeleteAssetIfUnreferenced(a) \/ DeleteFile(a) \/ Age(a)
  \/ FindUnreferencedAssets \/ ListStoredAssets \/ EndCleanup

Spec == Init /\ [][Next]_vars

-----------------------------------------------------------------------------
\* Artwork an item references has its row and its file, whatever the cleanup and
\* the syncs do at once, unless the sync works on garbage already past its grace
\* period or condemned:
\* the grace period and the second look of the delete are what protects it
\* (MediaAssetCleanupService.cleanup, deleteAssetIfUnreferenced).
ReferencedHasFile ==
  \A a \in referenced : row[a] # "none" /\ (a \notin excused => file[a] # "none")
=============================================================================

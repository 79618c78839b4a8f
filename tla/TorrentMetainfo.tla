---------------------------- MODULE TorrentMetainfo ----------------------------
(***************************************************************************)
(* What a user's magnet link or .torrent file becomes before the engine    *)
(* sees it (torrent-input.validation): trackers inside the operator's      *)
(* network and the publisher's data are dropped, anything else that is not *)
(* understood is refused, and the torrent stays the same one.              *)
(*                                                                         *)
(* A metainfo is a record of what the checks tell apart: its form, its     *)
(* trackers, its files as paths and sizes.  A tracker is public, local, or *)
(* neither: not a sound address at all.                                    *)
(***************************************************************************)
EXTENDS Integers, Sequences, SequencesExt, FiniteSetsExt

CONSTANTS Public, Local,               \* trackers
          Names,                       \* the safe parts of paths
          MaxTrackers, MaxTotal,       \* 20 trackers, 200 GiB
          Inputs                       \* the metainfos and magnets that are tried

VARIABLES input, result

vars == <<input, result>>

Refused == <<>>        \* invalid: a TorrentInputError
Accepted(m) == <<m>>

-----------------------------------------------------------------------------
\* The trackers of a metainfo, announce first; tiers is <<>>, or <<the list of tiers>>.
Tiers(m) == IF m.tiers = <<>> THEN <<>> ELSE m.tiers[1]
Trackers(m) == m.announce \o FlattenSeq(Tiers(m))

\* isLocalTracker and validateTracker.
IsLocal(t) == t \in Local
Sound(t) == t \in Public
WithoutLocal(ts) == FlattenSeq([i \in DOMAIN ts |-> IF IsLocal(ts[i]) THEN <<>> ELSE <<ts[i]>>])
PublicTrackers(m) == WithoutLocal(Trackers(m))

RemovesTracker(m) == \E i \in DOMAIN Trackers(m) : IsLocal(Trackers(m)[i])
RemovesPublisher(m) == m.publisher # "none"

\* The tiers without their local trackers; a tier that had no other is dropped.
NonEmpty(tier) == IF tier = <<>> THEN <<>> ELSE <<tier>>
SafeTiers(tiers) == FlattenSeq([i \in DOMAIN tiers |-> NonEmpty(WithoutLocal(tiers[i]))])

Announce(m) ==
  IF m.announce # <<>> /\ IsLocal(m.announce[1])
  THEN IF PublicTrackers(m) = <<>> THEN <<>> ELSE <<PublicTrackers(m)[1]>>
  ELSE m.announce

TrackersSound(m) ==
  /\ \A i \in DOMAIN Tiers(m) : Tiers(m)[i] # <<>>
  /\ Len(Trackers(m)) <= MaxTrackers
  /\ \A i \in DOMAIN PublicTrackers(m) : Sound(PublicTrackers(m)[i])

-----------------------------------------------------------------------------
\* The files: safe parts, one path for one file, and no file that is a directory of another.
\* A path and its alias for older clients are both checked.
SafePart(part) == part \in Names
Path(file) == IF file.utf8 # <<>> THEN file.utf8 ELSE file.path

Clashes(a, b) == IsPrefix(a, b) \/ IsPrefix(b, a)

FilesSound(m) ==
  /\ m.files # <<>>
  /\ \A i \in DOMAIN m.files :
       /\ Path(m.files[i]) # <<>> /\ m.files[i].length \in Nat
       /\ \A j \in DOMAIN m.files[i].path : SafePart(m.files[i].path[j])
       /\ \A j \in DOMAIN m.files[i].utf8 : SafePart(m.files[i].utf8[j])
       /\ \A j \in 1..(i - 1) : ~Clashes(Path(m.files[j]), Path(m.files[i]))

Total(files) == MapThenSumSet(LAMBDA i : files[i].length, DOMAIN files)

\* One hash for each piece of the whole.
PiecesFit(m, total) ==
  /\ total \in 1..MaxTotal /\ m.pieceLength > 0
  /\ m.pieces = (total + m.pieceLength - 1) \div m.pieceLength

\* What was removed makes the file be written anew; its info is then the same, byte for
\* byte, or it would be another torrent.
Rewritten(m) == [m EXCEPT !.announce = Announce(m), !.publisher = "none",
                          !.tiers = IF RemovesTracker(m) /\ m.tiers # <<>>
                                    THEN NonEmpty(SafeTiers(Tiers(m)))
                                    ELSE @]

WellFormed(m) == m.form \in {"canonical", "loose"}

ValidateMetainfo(m) ==
  IF /\ WellFormed(m) /\ m.publisher # "long" /\ ~m.unknownKey
     /\ TrackersSound(m) /\ FilesSound(m) /\ PiecesFit(m, Total(m.files))
     /\ RemovesTracker(m) \/ RemovesPublisher(m) => m.form = "canonical"
  THEN Accepted(Rewritten(m)) ELSE Refused

-----------------------------------------------------------------------------
\* A magnet link names one torrent and its trackers; what else it says is dropped, and a
\* tracker inside the network is refused, not dropped.
ValidateMagnet(g) ==
  IF /\ Len(g.xt) = 1 /\ g.xt[1] # "malformed" /\ ~g.unknownKey
     /\ Len(g.tr) <= MaxTrackers /\ \A i \in DOMAIN g.tr : Sound(g.tr[i])
  THEN Accepted([g EXCEPT !.optional = {}]) ELSE Refused

Validate(m) == IF m.kind = "magnet" THEN ValidateMagnet(m) ELSE ValidateMetainfo(m)

-----------------------------------------------------------------------------
Init == input \in Inputs /\ result = [done |-> FALSE, value |-> Refused]
Next == ~result.done /\ result' = [done |-> TRUE, value |-> Validate(input)] /\ UNCHANGED input

Spec == Init /\ [][Next]_vars

-----------------------------------------------------------------------------
Handed == result.value # Refused

\* What the engine is handed names no tracker but the public ones of the input, all of them,
\* and none of the publisher's data; it is the same torrent with the same files.
NothingPrivate ==
  Handed =>
    LET m == result.value[1] IN
    IF m.kind = "magnet" THEN m.tr = input.tr /\ m.xt = input.xt /\ m.optional = {}
    ELSE /\ ToSet(Trackers(m)) = ToSet(Trackers(input)) \cap Public
         /\ m.publisher = "none"
         /\ m.files = input.files /\ m.pieces = input.pieces
         /\ m # input => m.form = "canonical"

\* It is validated again on its way, by the service after the catalog's client: what was
\* accepted once is accepted again, unchanged.
AcceptedAgain == Handed => Validate(result.value[1]) = result.value
=============================================================================

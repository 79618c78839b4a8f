------------------------------ MODULE EditProofs ------------------------------
(***************************************************************************)
(* Proofs about what users write, on the server and on the pages where     *)
(* they do: discussions, reviews and profiles.  No edit replaces what its  *)
(* author was not shown, and no text that was typed is lost.  Each part    *)
(* has its own constants, variables and theorems, for any values of the    *)
(* constants; a variable that two parts call the same has a name of its    *)
(* own here in all but one of them.                                        *)
(***************************************************************************)
EXTENDS Integers, Sequences, SequenceTheorems, TLAPS

CONSTANTS
  Tabs, Writers, Readers, User, Verified, Admins, MaxItems, MaxTime, MaxActs, PageSize,
  MaxRows, MaxTexts, MaxTalks, MaxFaults,
  Windows, MaxDrafts, MaxSends, MaxReloads,
  Names, Handles, Taken, MaxTyped, MaxSaves, MaxOthers, MaxLosses

VARIABLES
  item, creating, view, edit, report, clock, acts,
  of, row, live, data, fetch, draft, sending, pending, form, op, told, crossed, unsure, typed,
  talks, faults,
  review, cached, reading, written, saving, seen, under, texts, sends, reloads, reviews,
  profile, copies, loading, failed, fields, submission, avatar, edited, behind, saves, entries,
  others, losses

Discuss == INSTANCE Community
Talk == INSTANCE DiscussionPage WITH
  creating <- sending, acts <- talks, MaxActs <- MaxTalks
Editor == INSTANCE ReviewEditor WITH
  fetch <- reading, form <- written, op <- saving, typed <- texts,
  Tabs <- Windows, MaxTexts <- MaxDrafts
Profile == INSTANCE Profiles WITH
  row <- profile, cached <- copies, fetch <- loading, form <- fields,
  op <- submission, typed <- entries, faults <- losses, sends <- saves,
  MaxFaults <- MaxLosses, MaxSends <- MaxSaves

-----------------------------------------------------------------------------
(***************************************************************************)
(* Community: a version moves on only with an update that expects it.  All *)
(* that is needed is what the rows and the edits look like: the check that *)
(* counts is the one in the update itself.                                 *)
(***************************************************************************)
WrittenItems ==
  [kind : {"review", "comment", "post"}, author : Discuss!Users, parent : Nat, at : Nat,
   hidden : BOOLEAN, deleted : BOOLEAN, version : Nat, touched : BOOLEAN]
OpenCreations ==
  [open : {TRUE}, kind : {"comment", "post"}, lock : Nat, parent : Nat, at : Nat]
CommunityOK ==
  /\ Writers \subseteq Tabs /\ Readers \subseteq Tabs
  /\ item \in Seq(WrittenItems) /\ clock \in Nat
  /\ creating \in [Tabs -> {Discuss!NoCreation} \cup OpenCreations]
  /\ edit \in [Tabs -> [item : Nat, base : Nat]]

LEMMA CommunityInit == ASSUME Writers \subseteq Tabs, Readers \subseteq Tabs, Discuss!Init
  PROVE CommunityOK
  BY EmptySeq DEF Discuss!Init, CommunityOK, Discuss!NoEdit

\* Rows are appended, or one of them is updated.
LEMMA ItemAppended ==
  ASSUME CommunityOK, NEW r \in WrittenItems, item' = Append(item, r)
  PROVE  item' \in Seq(WrittenItems) /\ \A i \in Discuss!Ids : item'[i] = item[i]
  BY AppendProperties DEF CommunityOK, Discuss!Ids

LEMMA ItemUpdated ==
  ASSUME CommunityOK, NEW i \in Discuss!Ids, NEW r \in WrittenItems, item' = [item EXCEPT ![i] = r]
  PROVE  /\ item' \in Seq(WrittenItems) /\ item'[i] = r
         /\ \A j \in Discuss!Ids \ {i} : item'[j] = item[j]
  BY DEF CommunityOK, Discuss!Ids

VersionsKept == \A i \in Discuss!Ids : item'[i].version = item[i].version

\* What an action may do to the rows, the creations and the edits.
Keeps == CommunityOK' /\ VersionsKept

LEMMA WriteStep ==
  ASSUME CommunityOK, NEW t \in Writers,
         \/ Discuss!CreateReview(t) \/ Discuss!CommitComment(t) \/ Discuss!BeginMediaComment(t, 0)
         \/ \E i \in Discuss!Ids : Discuss!BeginComment(t, i) \/ Discuss!BeginMediaComment(t, i)
  PROVE  Keeps
<1>0. /\ t \in Tabs /\ User[t] \in Discuss!Users /\ clock \in Nat /\ item \in Seq(WrittenItems)
      /\ creating \in [Tabs -> {Discuss!NoCreation} \cup OpenCreations]
      /\ \A i \in Discuss!Ids : i \in Nat /\ item[i] \in WrittenItems
  BY DEF CommunityOK, Discuss!Users, Discuss!Ids
<1>1. CASE Discuss!CreateReview(t)
  <2>1. Discuss!Written("review", User[t], 0, clock) \in WrittenItems
    BY <1>0 DEF Discuss!Written, WrittenItems
  <2>2. QED
    BY <1>1, <2>1, ItemAppended DEF Discuss!CreateReview, Keeps, CommunityOK, VersionsKept
<1>2. CASE Discuss!CommitComment(t)
  <2> DEFINE r == Discuss!Written(creating[t].kind, User[t], creating[t].parent, creating[t].at)
  <2>1. creating[t] \in OpenCreations
    BY <1>0, <1>2 DEF Discuss!CommitComment, Discuss!NoCreation
  <2>2. r \in WrittenItems
    BY <1>0, <2>1 DEF Discuss!Written, WrittenItems, OpenCreations
  <2>3. item' = Append(item, r) /\ creating' = [creating EXCEPT ![t] = Discuss!NoCreation]
        /\ UNCHANGED <<edit, clock>>
    BY <1>2 DEF Discuss!CommitComment
  <2> HIDE DEF r
  <2>4. QED
    BY <1>0, <2>2, <2>3, ItemAppended DEF Keeps, CommunityOK, VersionsKept
<1>3. ASSUME NEW c \in OpenCreations, creating' = [creating EXCEPT ![t] = c],
             UNCHANGED <<item, edit, clock>>
      PROVE  Keeps
  BY <1>0, <1>3 DEF Keeps, CommunityOK, VersionsKept
<1>4. ASSUME NEW i \in Discuss!Ids, Discuss!BeginComment(t, i) PROVE Keeps
  <2>1. [open |-> TRUE, kind |-> "comment", lock |-> i, parent |-> i, at |-> clock] \in OpenCreations
    BY <1>0 DEF OpenCreations
  <2>2. QED
    BY <1>3, <1>4, <2>1 DEF Discuss!BeginComment
<1>5. ASSUME NEW p \in {0} \cup Discuss!Ids, Discuss!BeginMediaComment(t, p) PROVE Keeps
  <2> DEFINE q == IF p = 0 \/ item[p].parent = 0 THEN p ELSE item[p].parent
  <2>1. q \in Nat
    BY <1>0 DEF WrittenItems
  <2> HIDE DEF q
  <2>2. [open |-> TRUE, kind |-> "post", lock |-> 0, at |-> clock, parent |-> q] \in OpenCreations
    BY <1>0, <2>1 DEF OpenCreations
  <2>3. /\ creating' = [creating EXCEPT ![t] =
             [open |-> TRUE, kind |-> "post", lock |-> 0, at |-> clock, parent |-> q]]
        /\ UNCHANGED <<item, edit, clock>>
    BY <1>5 DEF Discuss!BeginMediaComment, Discuss!Works, q
  <2>4. QED
    BY <1>3, <2>2, <2>3
<1>6. QED
  BY <1>1, <1>2, <1>4, <1>5

\* A row whose version stays.
LEMMA Touched ==
  ASSUME CommunityOK, NEW i \in Discuss!Ids, NEW r \in WrittenItems, item' = [item EXCEPT ![i] = r],
         r.version = item[i].version, UNCHANGED <<creating, edit, clock>>
  PROVE  Keeps
  BY ItemUpdated DEF Keeps, CommunityOK, VersionsKept

LEMMA ChangeStep ==
  ASSUME CommunityOK, NEW t \in Tabs, NEW i \in Discuss!Ids,
         \/ Discuss!SoftDelete(t, i) \/ Discuss!RequestEdit(t, i, item[i].version)
         \/ \E hidden \in BOOLEAN : Discuss!SetVisibility(t, i, hidden)
  PROVE  Keeps
<1> DEFINE p == item[i]
<1>a. item[i] \in WrittenItems /\ i \in Nat
  BY DEF CommunityOK, Discuss!Ids
<1>b. p.version \in Nat
  <2> HIDE DEF p
  <2>1. p \in WrittenItems
    BY <1>a DEF p
  <2>2. QED
    BY <2>1 DEF WrittenItems
<1>0. item[i] \in WrittenItems /\ i \in Nat /\ item[i].version \in Nat
  BY <1>a, <1>b
<1> HIDE DEF p
<1>1. CASE Discuss!SoftDelete(t, i)
  <2>1. item' = [item EXCEPT ![i] = [item[i] EXCEPT !.deleted = TRUE, !.touched = TRUE]]
        /\ UNCHANGED <<creating, edit, clock>>
    BY <1>1 DEF Discuss!SoftDelete
  <2>2. /\ [item[i] EXCEPT !.deleted = TRUE, !.touched = TRUE] \in WrittenItems
        /\ [item[i] EXCEPT !.deleted = TRUE, !.touched = TRUE].version = item[i].version
    BY <1>0 DEF WrittenItems
  <2>3. QED
    BY <2>1, <2>2, Touched
<1>2. ASSUME NEW hidden \in BOOLEAN, Discuss!SetVisibility(t, i, hidden) PROVE Keeps
  <2>1. item' = [item EXCEPT ![i] = [item[i] EXCEPT !.hidden = hidden, !.touched = TRUE]]
        /\ UNCHANGED <<creating, edit, clock>>
    BY <1>2 DEF Discuss!SetVisibility
  <2>2. /\ [item[i] EXCEPT !.hidden = hidden, !.touched = TRUE] \in WrittenItems
        /\ [item[i] EXCEPT !.hidden = hidden, !.touched = TRUE].version = item[i].version
    BY <1>0 DEF WrittenItems
  <2>3. QED
    BY <2>1, <2>2, Touched
<1>3. CASE Discuss!RequestEdit(t, i, item[i].version)
  <2>1. /\ edit' = [edit EXCEPT ![t] = [item |-> i, base |-> item[i].version]]
        /\ UNCHANGED <<item, creating, clock>>
    BY <1>3 DEF Discuss!RequestEdit
  <2>2. QED
    BY <1>0, <2>1 DEF Keeps, CommunityOK, VersionsKept
<1>4. QED
  BY <1>1, <1>2, <1>3

LEMMA UpdateStep ==
  ASSUME CommunityOK, NEW t \in Tabs, Discuss!Update(t) PROVE CommunityOK' /\ Discuss!EditsAreBased
<1> DEFINE i == edit[t].item
<1>0. /\ edit' = [edit EXCEPT ![t] = Discuss!NoEdit] /\ UNCHANGED <<creating, clock>>
      /\ edit'[t] = Discuss!NoEdit /\ edit' \in [Tabs -> [item : Nat, base : Nat]]
  BY DEF Discuss!Update, CommunityOK, Discuss!NoEdit
<1>1. CASE item' = item
  BY <1>0, <1>1 DEF CommunityOK, Discuss!EditsAreBased, Discuss!Ids
<1>2. CASE item' # item
  <2>1. Discuss!Matches(t) /\ item' = [item EXCEPT ![i].version = @ + 1]
    BY <1>2 DEF Discuss!Update
  <2>2. i \in Discuss!Ids
    <3>1. i \in DOMAIN item
      BY <1>2, <2>1 DEF CommunityOK
    <3>2. QED
      BY <3>1 DEF CommunityOK, Discuss!Ids
  <2>3. item[i] \in WrittenItems
    BY <2>2 DEF CommunityOK, Discuss!Ids
  <2> HIDE DEF i
  <2>4. [item[i] EXCEPT !.version = @ + 1] \in WrittenItems
    BY <2>3 DEF WrittenItems
  <2>5. item' = [item EXCEPT ![i] = [item[i] EXCEPT !.version = @ + 1]]
    BY <2>1
  <2>6. item' \in Seq(WrittenItems) /\ \A j \in Discuss!Ids \ {i} : item'[j] = item[j]
    BY <2>2, <2>4, <2>5, ItemUpdated
  <2>7. /\ edit[t].item = i /\ edit[t].base = item[i].version /\ ~item[i].deleted
    BY <2>1 DEF Discuss!Matches, i
  <2>8. QED
    BY <1>0, <2>6, <2>7 DEF CommunityOK, Discuss!EditsAreBased
<1>3. QED
  BY <1>1, <1>2

LEMMA OtherStep ==
  ASSUME CommunityOK, UNCHANGED <<item, creating, edit>>, clock' \in Nat PROVE Keeps
  BY DEF Keeps, CommunityOK, VersionsKept

LEMMA CommunityStep ==
  ASSUME CommunityOK, [Discuss!Next]_Discuss!vars PROVE CommunityOK' /\ Discuss!EditsAreBased
<1>0. ASSUME Keeps PROVE CommunityOK' /\ Discuss!EditsAreBased
  BY <1>0 DEF Keeps, VersionsKept, Discuss!EditsAreBased
<1>1. clock \in Nat
  BY DEF CommunityOK
<1>2. CASE UNCHANGED Discuss!vars
  BY <1>0, <1>1, <1>2, OtherStep DEF Discuss!vars
<1>3. CASE Discuss!Tick
  BY <1>0, <1>1, <1>3, OtherStep DEF Discuss!Tick
<1>4. ASSUME NEW t \in Writers,
             \/ Discuss!CreateReview(t) \/ Discuss!CommitComment(t) \/ Discuss!BeginMediaComment(t, 0)
             \/ \E i \in Discuss!Ids : Discuss!BeginComment(t, i) \/ Discuss!BeginMediaComment(t, i)
      PROVE  CommunityOK' /\ Discuss!EditsAreBased
  BY <1>0, <1>4, WriteStep
<1>5. ASSUME NEW t \in Readers,
             \/ Discuss!OpenWork(t) \/ Discuss!NextPage(t) \/ Discuss!Newer(t)
             \/ \E i \in Discuss!Ids : Discuss!OpenReview(t, i)
      PROVE  CommunityOK' /\ Discuss!EditsAreBased
  <2>1. UNCHANGED <<item, creating, edit, clock>>
    BY <1>5 DEF Discuss!OpenWork, Discuss!NextPage, Discuss!Newer, Discuss!OpenReview
  <2>2. QED
    BY <1>0, <1>1, <2>1, OtherStep
<1>6. ASSUME NEW t \in Tabs, Discuss!Update(t) PROVE CommunityOK' /\ Discuss!EditsAreBased
  BY <1>6, UpdateStep
<1>7. ASSUME NEW t \in Tabs, NEW i \in Discuss!Ids,
             \/ Discuss!RequestEdit(t, i, item[i].version) \/ Discuss!SoftDelete(t, i)
             \/ Discuss!CreateReport(t, i)
             \/ \E u \in Discuss!Users, status \in {"resolved", "rejected"} :
                  Discuss!DecideReport(t, u, i, status)
             \/ \E hidden \in BOOLEAN : Discuss!SetVisibility(t, i, hidden)
      PROVE  CommunityOK' /\ Discuss!EditsAreBased
  <2>1. CASE \/ Discuss!RequestEdit(t, i, item[i].version) \/ Discuss!SoftDelete(t, i)
             \/ \E hidden \in BOOLEAN : Discuss!SetVisibility(t, i, hidden)
    BY <1>0, <2>1, ChangeStep
  <2>2. CASE \/ Discuss!CreateReport(t, i)
             \/ \E u \in Discuss!Users, status \in {"resolved", "rejected"} :
                  Discuss!DecideReport(t, u, i, status)
    <3>1. UNCHANGED <<item, creating, edit, clock>>
      BY <2>2 DEF Discuss!CreateReport, Discuss!DecideReport
    <3>2. QED
      BY <1>0, <1>1, <3>1, OtherStep
  <2>3. QED
    BY <1>7, <2>1, <2>2
<1>8. QED
  BY <1>2, <1>3, <1>4, <1>5, <1>6, <1>7 DEF Discuss!Next

\* Community: an edit replaces only the text its author was shown, of any number of users and tabs.
THEOREM EditsOfCommunity ==
  ASSUME Writers \subseteq Tabs, Readers \subseteq Tabs
  PROVE  Discuss!Spec => [][Discuss!EditsAreBased]_Discuss!vars
<1>1. Discuss!Init => CommunityOK
  BY CommunityInit
<1>2. CommunityOK /\ [Discuss!Next]_Discuss!vars => CommunityOK' /\ [Discuss!EditsAreBased]_Discuss!vars
  BY CommunityStep
<1>3. QED
  BY <1>1, <1>2, PTL DEF Discuss!Spec

-----------------------------------------------------------------------------
(***************************************************************************)
(* DiscussionPage: what an edit replaces its card showed, and what is      *)
(* typed stays.  All that is needed is that the rows are a sequence of     *)
(* records and that texts are counted.                                     *)
(***************************************************************************)
RowsOK ==
  /\ \E S : row \in Seq(S)
  /\ \A i \in Talk!Ids : "version" \in DOMAIN row[i]
DiscussionOK == RowsOK /\ typed \in Nat /\ talks \in Nat

\* The rows that there are keep their versions.
RowVersionsKept == \A i \in Talk!Ids : row'[i].version = row[i].version

LEMMA RowAppended ==
  ASSUME RowsOK, NEW r, "version" \in DOMAIN r, row' = Append(row, r)
  PROVE  RowsOK' /\ RowVersionsKept
<1>1. PICK S : row \in Seq(S)
  BY DEF RowsOK
<1>2. row \in Seq(S \cup {r}) /\ r \in S \cup {r}
  BY <1>1
<1>3. /\ row' \in Seq(S \cup {r}) /\ Len(row') = Len(row) + 1 /\ row'[Len(row) + 1] = r
      /\ \A i \in 1 .. Len(row) : row'[i] = row[i]
  BY <1>2, AppendProperties
<1>4. Len(row) \in Nat
  BY <1>1
<1>5. QED
  BY <1>3, <1>4 DEF RowsOK, RowVersionsKept, Talk!Ids

RowBecomes(i, r) == row' = [row EXCEPT ![i] = r]

LEMMA RowChanged ==
  ASSUME RowsOK, NEW i, NEW r, RowBecomes(i, r),
         i \in Talk!Ids => "version" \in DOMAIN r
  PROVE  /\ RowsOK'
         /\ \A j \in Talk!Ids : row'[j] = IF j = i THEN r ELSE row[j]
<1>1. PICK S : row \in Seq(S)
  BY DEF RowsOK
<1>2. row \in Seq(S \cup {r}) /\ r \in S \cup {r}
  BY <1>1
<1> DEFINE G == /\ row' \in Seq(S \cup {r}) /\ Len(row') = Len(row)
              /\ \A j \in 1 .. Len(row) : row'[j] = IF j = i THEN r ELSE row[j]
<1>a. ASSUME i \in 1 .. Len(row) PROVE G
  BY <1>2, <1>a DEF RowBecomes
<1>b. ASSUME i \notin 1 .. Len(row) PROVE G
  <2>1. row \in [1 .. Len(row) -> S]
    BY <1>1
  <2>2. row' = row
    BY <2>1, <1>b DEF RowBecomes
  <2>3. QED
    BY <1>2, <1>b, <2>2
<1>3. row' \in Seq(S \cup {r}) /\ Len(row') = Len(row)
      /\ \A j \in 1 .. Len(row) : row'[j] = IF j = i THEN r ELSE row[j]
  BY <1>a, <1>b
<1>4. QED
  BY <1>3 DEF RowsOK, Talk!Ids

\* A mark on a row leaves its version.
LEMMA RowMarked ==
  ASSUME RowsOK, NEW i, NEW f, f # "version",
         row' = [row EXCEPT ![i] = [row[i] EXCEPT ![f] = TRUE]]
  PROVE  RowsOK' /\ RowVersionsKept
<1> DEFINE r == [row[i] EXCEPT ![f] = TRUE]
<1>1. i \in Talk!Ids => "version" \in DOMAIN r /\ r["version"] = row[i]["version"]
  BY DEF RowsOK
<1>2. RowBecomes(i, r)
  BY DEF RowBecomes
<1> HIDE DEF r
<1>3. RowsOK' /\ \A j \in Talk!Ids : row'[j] = IF j = i THEN r ELSE row[j]
  BY <1>1, <1>2, RowChanged
<1>4. QED
  BY <1>1, <1>3 DEF RowVersionsKept

LEMMA RowCounted ==
  ASSUME RowsOK, NEW i, row' = [row EXCEPT ![i] = [row[i] EXCEPT !.version = row[i].version + 1]]
  PROVE  RowsOK' /\ \A j \in Talk!Ids \ {i} : row'[j] = row[j]
<1> DEFINE r == [row[i] EXCEPT !.version = row[i].version + 1]
<1>1. i \in Talk!Ids => "version" \in DOMAIN r
  BY DEF RowsOK
<1>2. RowBecomes(i, r)
  BY DEF RowBecomes
<1> HIDE DEF r
<1>3. QED
  BY <1>1, <1>2, RowChanged

LEMMA RowIsWritten ==
  ASSUME NEW mine, NEW parent, NEW text
  PROVE  "version" \in DOMAIN Talk!Row(mine, parent, text)
  BY DEF Talk!Row

\* What a step may do: the state stays well formed, edits replace what was shown, and the draft
\* is emptied only by a comment that is confirmed.
TalkStep == DiscussionOK' /\ Talk!EditsAreSeen /\ Talk!DraftKept

LEMMA DiscussionQuiet ==
  ASSUME DiscussionOK, RowsOK', RowVersionsKept, UNCHANGED <<typed, draft>>,
         talks' = talks \/ talks' = talks + 1
  PROVE  TalkStep
  BY DEF TalkStep, DiscussionOK, RowVersionsKept, Talk!EditsAreSeen, Talk!DraftKept

LEMMA DiscussionStill ==
  ASSUME DiscussionOK, UNCHANGED <<row, typed, draft>>, talks' = talks \/ talks' = talks + 1
  PROVE  TalkStep
  BY DEF TalkStep, DiscussionOK, RowsOK, Talk!EditsAreSeen, Talk!DraftKept, Talk!Ids

\* The tab's own creations and edits.
LEMMA DiscussionWrites ==
  ASSUME DiscussionOK, NEW c \in sending, Talk!Create(c) \/ Talk!Created(c) \/ Talk!CreateFails(c)
  PROVE  TalkStep
<1>1. CASE Talk!Create(c)
  BY <1>1, RowAppended, RowIsWritten, DiscussionQuiet DEF Talk!Create, DiscussionOK
<1>2. CASE Talk!Created(c)
  BY <1>2 DEF Talk!Created, TalkStep, DiscussionOK, RowsOK, Talk!EditsAreSeen, Talk!DraftKept,
     Talk!Ids
<1>3. CASE Talk!CreateFails(c)
  BY <1>3, DiscussionStill DEF Talk!CreateFails
<1>4. QED
  BY <1>1, <1>2, <1>3

LEMMA DiscussionChanges ==
  ASSUME DiscussionOK, NEW o \in op,
         \/ Talk!Update(o) \/ Talk!Remove1(o) \/ Talk!Answer(o)
         \/ Talk!Changed(o) \/ Talk!Removed(o) \/ Talk!OpFails(o)
  PROVE  TalkStep
<1>1. CASE Talk!Update(o)
  <2>1. CASE UNCHANGED row
    BY <1>1, <2>1, DiscussionStill DEF Talk!Update
  <2>2. CASE row' = [row EXCEPT ![o.id] = [row[o.id] EXCEPT !.version = row[o.id].version + 1]]
             /\ row[o.id].version = o.base
    <3>1. UNCHANGED <<typed, draft, talks>>
      BY <1>1 DEF Talk!Update
    <3>2. RowsOK' /\ \A j \in Talk!Ids \ {o.id} : row'[j] = row[j]
      BY <2>2, RowCounted DEF DiscussionOK
    <3>3. QED
      BY <2>2, <3>1, <3>2 DEF TalkStep, DiscussionOK, Talk!EditsAreSeen, Talk!DraftKept
  <2>3. QED
    BY <1>1, <2>1, <2>2 DEF Talk!Update, Talk!Expects
<1>2. CASE Talk!Remove1(o)
  <2>1. CASE UNCHANGED row
    BY <1>2, <2>1, DiscussionStill DEF Talk!Remove1
  <2>2. CASE row' = [row EXCEPT ![o.id] = [row[o.id] EXCEPT !["deleted"] = TRUE]]
    BY <1>2, <2>2, RowMarked, DiscussionQuiet DEF Talk!Remove1, DiscussionOK
  <2>3. CASE row' = [row EXCEPT ![o.id] = [row[o.id] EXCEPT !["hidden"] = TRUE]]
    BY <1>2, <2>3, RowMarked, DiscussionQuiet DEF Talk!Remove1, DiscussionOK
  <2>4. QED
    BY <1>2, <2>1, <2>2, <2>3 DEF Talk!Remove1
<1>3. CASE Talk!Answer(o)
  <2>1. CASE UNCHANGED row
    BY <1>3, <2>1, DiscussionStill DEF Talk!Answer
  <2>2. CASE row' = Append(row, Talk!Row(TRUE, Talk!Root(o.id), 0))
    BY <1>3, <2>2, RowAppended, RowIsWritten, DiscussionQuiet DEF Talk!Answer, DiscussionOK
  <2>3. QED
    BY <1>3, <2>1, <2>2 DEF Talk!Answer
<1>4. CASE Talk!Changed(o) \/ Talk!Removed(o) \/ Talk!OpFails(o)
  BY <1>4, DiscussionStill DEF Talk!Changed, Talk!Removed, Talk!OpFails, Talk!Elsewhere
<1>5. QED
  BY <1>1, <1>2, <1>3, <1>4

LEMMA DiscussionOthers ==
  ASSUME DiscussionOK, NEW i \in Talk!Ids,
         \/ Talk!Edit(i) \/ Talk!ConfirmDelete(i) \/ Talk!Hide(i) \/ Talk!Reply(i)
         \/ Talk!OthersChange(i)
  PROVE  TalkStep
<1>1. CASE Talk!Edit(i) \/ Talk!ConfirmDelete(i) \/ Talk!Hide(i) \/ Talk!Reply(i)
  BY <1>1, DiscussionStill DEF Talk!Edit, Talk!ConfirmDelete, Talk!Hide, Talk!Reply, Talk!Send,
     Talk!Act
<1>2. CASE Talk!OthersChange(i)
  <2>1. UNCHANGED <<typed, draft>> /\ talks' = talks + 1
    BY <1>2 DEF Talk!OthersChange, Talk!Act
  <2>2. CASE row' = [row EXCEPT ![i] = [row[i] EXCEPT !["deleted"] = TRUE]]
    BY <2>1, <2>2, RowMarked, DiscussionQuiet DEF DiscussionOK
  <2>3. CASE row' = [row EXCEPT ![i] = [row[i] EXCEPT !["hidden"] = TRUE]]
    BY <2>1, <2>3, RowMarked, DiscussionQuiet DEF DiscussionOK
  <2>4. CASE row' = [row EXCEPT ![i] = [row[i] EXCEPT !.version = row[i].version + 1]]
    <3>1. RowsOK'
      BY <2>4, RowCounted DEF DiscussionOK
    <3>2. QED
      BY <2>1, <3>1 DEF TalkStep, DiscussionOK, Talk!EditsAreSeen, Talk!DraftKept
  <2>5. QED
    BY <1>2, <2>2, <2>3, <2>4 DEF Talk!OthersChange
<1>3. QED
  BY <1>1, <1>2

\* Edits replace what their card showed, and a draft stays until it is a comment, in every step
\* of every discussion.
LEMMA DiscussionStep ==
  ASSUME DiscussionOK, [Talk!Next]_Talk!vars PROVE TalkStep
<1>1. CASE UNCHANGED Talk!vars
  BY <1>1, DiscussionStill DEF Talk!vars
<1>2. CASE Talk!Load \/ Talk!LoadMore \/ Talk!Serve \/ Talk!Loaded \/ Talk!LoadFails
           \/ Talk!Submit \/ Talk!Save \/ Talk!ReviewGone
  BY <1>2, DiscussionStill
  DEF Talk!Load, Talk!LoadMore, Talk!Serve, Talk!Loaded, Talk!LoadFails, Talk!Submit, Talk!Save,
      Talk!Send, Talk!Act, Talk!ReviewGone
<1>3. CASE Talk!Type
  BY <1>3 DEF Talk!Type, TalkStep, DiscussionOK, RowsOK, Talk!EditsAreSeen, Talk!DraftKept, Talk!Ids
<1>4. CASE Talk!OthersWrite
  BY <1>4, RowAppended, RowIsWritten, DiscussionQuiet DEF Talk!OthersWrite, Talk!Act, DiscussionOK
<1>5. ASSUME NEW c \in sending, Talk!Create(c) \/ Talk!Created(c) \/ Talk!CreateFails(c)
      PROVE  TalkStep
  BY <1>5, DiscussionWrites
<1>6. ASSUME NEW o \in op, \/ Talk!Update(o) \/ Talk!Remove1(o) \/ Talk!Answer(o)
                           \/ Talk!Changed(o) \/ Talk!Removed(o) \/ Talk!OpFails(o)
      PROVE  TalkStep
  BY <1>6, DiscussionChanges
<1>7. ASSUME NEW i \in Talk!Ids, \/ Talk!Edit(i) \/ Talk!ConfirmDelete(i) \/ Talk!Hide(i)
                                 \/ Talk!Reply(i) \/ Talk!OthersChange(i)
      PROVE  TalkStep
  BY <1>7, DiscussionOthers
<1>8. QED
  BY <1>1, <1>2, <1>3, <1>4, <1>5, <1>6, <1>7 DEF Talk!Next

LEMMA DiscussionInit == ASSUME Talk!Init PROVE DiscussionOK
<1>1. CASE row = <<>>
  <2>1. row \in Seq({}) /\ Len(row) = 0
    BY <1>1
  <2>2. QED
    BY <2>1 DEF Talk!Init, DiscussionOK, RowsOK, Talk!Ids
<1>2. CASE row = <<Talk!Row(FALSE, 0, 0)>>
  <2> DEFINE r == Talk!Row(FALSE, 0, 0)
  <2>1. "version" \in DOMAIN r
    BY RowIsWritten
  <2> HIDE DEF r
  <2>2. row = <<r>>
    BY <1>2 DEF r
  <2>3. row \in Seq({r}) /\ Len(row) = 1 /\ row[1] = r
    BY <2>2
  <2>4. QED
    BY <2>1, <2>3 DEF Talk!Init, DiscussionOK, RowsOK, Talk!Ids
<1>3. QED
  BY <1>1, <1>2 DEF Talk!Init

\* A discussion that is open in a tab: an edit replaces the version its card showed when it was
\* sent, and what is typed stays in the form until a comment written there is confirmed.
THEOREM EditsOfDiscussions ==
  Talk!Spec => [][Talk!EditsAreSeen /\ Talk!DraftKept]_Talk!vars
<1>1. Talk!Init => DiscussionOK
  BY DiscussionInit
<1>2. DiscussionOK /\ [Talk!Next]_Talk!vars => DiscussionOK' /\ Talk!EditsAreSeen /\ Talk!DraftKept
  BY DiscussionStep DEF TalkStep
<1>3. QED
  BY <1>1, <1>2, PTL DEF Talk!Spec

-----------------------------------------------------------------------------
(***************************************************************************)
(* ReviewEditor: a save replaces a text that its form has shown.  A review *)
(* that a tab holds, in its cache, a request, its form or an operation, is *)
(* one that was active: of the identity that is active now it has an older *)
(* version, or this one and its text.                                      *)
(***************************************************************************)
AReview == [id : Nat, version : Nat, text : Nat]
HeldAt(r, now, n) ==
  /\ r.id <= n /\ (r.id = 0 => r = Editor!NoReview)
  /\ r.id = now.id => r.version <= now.version /\ (r.version = now.version => r.text = now.text)

CachedReviews == {Editor!Unloaded, [state |-> "error"]} \cup [state : {"loaded"}, review : AReview]
ReviewFetches == {Editor!NoFetch, [step |-> "asked"]} \cup [step : {"read"}, review : AReview]
OpenForms == [open : {TRUE}, review : AReview, draft : Nat, initial : Nat]
ReviewForms == {Editor!Closed} \cup OpenForms
Saves == [step : {"sent", "done", "exists", "refused"}, kind : {"create", "update", "delete"},
          text : Nat, review : AReview, orphan : BOOLEAN]

\* What a tab holds; shown are the texts its form has shown or adopted.
TabHolds(c, fe, fo, o, shown, now, n) ==
  /\ c.state = "loaded" => HeldAt(c.review, now, n)
  /\ fe.step = "read" => HeldAt(fe.review, now, n)
  /\ fo.open => c.state = "loaded" /\ HeldAt(fo.review, now, n) /\ fo.review.text \in shown
  /\ o.step # "none" => HeldAt(o.review, now, n) /\ (~o.orphan => fo.open)
  /\ o.step = "sent" => o.review.text \in shown /\ (o.kind = "update" => o.review.id # 0)

EditorOK ==
  /\ review \in AReview /\ reviews \in Nat /\ texts \in Nat
  /\ HeldAt(review, review, reviews)
  /\ cached \in [Windows -> CachedReviews] /\ reading \in [Windows -> ReviewFetches]
  /\ written \in [Windows -> ReviewForms] /\ saving \in [Windows -> {Editor!NoOp} \cup Saves]
  /\ seen \in [Windows -> SUBSET Nat] /\ under \in [Windows -> SUBSET Nat]
  /\ \A t \in Windows :
       TabHolds(cached[t], reading[t], written[t], saving[t], seen[t] \cup under[t], review, reviews)

\* The active review moves on, and what was held is still one that was active.
ReviewMoves ==
  /\ review' \in AReview /\ reviews' \in Nat /\ HeldAt(review', review', reviews')
  /\ \A r \in AReview : HeldAt(r, review, reviews) => HeldAt(r, review', reviews')

LEMMA HeldTabStays ==
  ASSUME ReviewMoves, NEW c \in CachedReviews, NEW fe \in ReviewFetches, NEW fo \in ReviewForms,
         NEW o \in {Editor!NoOp} \cup Saves, NEW s, NEW s2, s \subseteq s2,
         TabHolds(c, fe, fo, o, s, review, reviews)
  PROVE  TabHolds(c, fe, fo, o, s2, review', reviews')
<1>1. c.state = "loaded" => c.review \in AReview
  BY DEF CachedReviews, Editor!Unloaded
<1>2. fe.step = "read" => fe.review \in AReview
  BY DEF ReviewFetches, Editor!NoFetch
<1>3. fo.open => fo.review \in AReview
  <2>1. fo = Editor!Closed => ~fo.open
    BY DEF Editor!Closed
  <2>2. fo \in OpenForms => fo.review \in AReview
    BY DEF OpenForms
  <2>3. QED
    BY <2>1, <2>2 DEF ReviewForms
<1>4. o.step # "none" => o.review \in AReview
  BY DEF Saves, Editor!NoOp
<1>5. QED
  BY <1>1, <1>2, <1>3, <1>4 DEF TabHolds, ReviewMoves

\* What a step makes of one tab.
TabBecomes(t, c, fe, fo, o, se, un) ==
  /\ cached' = [cached EXCEPT ![t] = c] /\ reading' = [reading EXCEPT ![t] = fe]
  /\ written' = [written EXCEPT ![t] = fo] /\ saving' = [saving EXCEPT ![t] = o]
  /\ seen' = [seen EXCEPT ![t] = se] /\ under' = [under EXCEPT ![t] = un]

DraftStays(t, fo) ==
  written[t].open /\ Editor!Dirty(written[t]) /\ fo.open /\ fo.draft # written[t].draft =>
    texts' > texts \/ saving[t].step = "done"

LEMMA OneTab ==
  ASSUME EditorOK, ReviewMoves, NEW t \in Windows, NEW c \in CachedReviews, NEW fe \in ReviewFetches,
         NEW fo \in ReviewForms, NEW o \in {Editor!NoOp} \cup Saves, NEW se \in SUBSET Nat,
         NEW un \in SUBSET Nat, TabBecomes(t, c, fe, fo, o, se, un), texts' \in Nat,
         TabHolds(c, fe, fo, o, se \cup un, review', reviews'), DraftStays(t, fo)
  PROVE  EditorOK' /\ Editor!DraftKept
<1>1. /\ cached' \in [Windows -> CachedReviews] /\ reading' \in [Windows -> ReviewFetches]
      /\ written' \in [Windows -> ReviewForms] /\ saving' \in [Windows -> {Editor!NoOp} \cup Saves]
      /\ seen' \in [Windows -> SUBSET Nat] /\ under' \in [Windows -> SUBSET Nat]
  BY DEF EditorOK, TabBecomes
<1>2. ASSUME NEW u \in Windows
      PROVE  TabHolds(cached'[u], reading'[u], written'[u], saving'[u], seen'[u] \cup under'[u],
                      review', reviews')
  <2>1. CASE u = t
    <3>1. /\ cached'[t] = c /\ reading'[t] = fe /\ written'[t] = fo /\ saving'[t] = o /\ seen'[t] = se
          /\ under'[t] = un
      BY DEF EditorOK, TabBecomes
    <3>2. QED
      BY <2>1, <3>1
  <2>2. CASE u # t
    <3>1. /\ cached'[u] = cached[u] /\ reading'[u] = reading[u] /\ written'[u] = written[u]
             /\ saving'[u] = saving[u]
          /\ seen'[u] = seen[u] /\ under'[u] = under[u]
      BY <2>2 DEF EditorOK, TabBecomes
    <3>2. /\ cached[u] \in CachedReviews /\ reading[u] \in ReviewFetches /\ written[u] \in ReviewForms
          /\ saving[u] \in {Editor!NoOp} \cup Saves
          /\ TabHolds(cached[u], reading[u], written[u], saving[u], seen[u] \cup under[u], review,
             reviews)
      BY DEF EditorOK
    <3>3. TabHolds(cached[u], reading[u], written[u], saving[u], seen[u] \cup under[u], review', reviews')
      BY <3>2, HeldTabStays
    <3>4. QED
      BY <3>1, <3>3
  <2>3. QED
    BY <2>1, <2>2
<1>3. Editor!DraftKept
  <2>1. ASSUME NEW u \in Windows PROVE written'[u] = IF u = t THEN fo ELSE written[u]
    BY DEF EditorOK, TabBecomes
  <2>2. QED
    BY <2>1 DEF DraftStays, Editor!DraftKept
<1>4. QED
  BY <1>1, <1>2, <1>3 DEF EditorOK, ReviewMoves

\* A review that is still the one it was.
LEMMA ReviewStill == ASSUME EditorOK, UNCHANGED <<review, reviews>>
  PROVE ReviewMoves /\ Editor!OverwritesSeen
  BY DEF EditorOK, ReviewMoves, Editor!OverwritesSeen

\* The parts of a tab.
LEMMA TabHeld ==
  ASSUME EditorOK, NEW t \in Windows
  PROVE  /\ cached[t] \in CachedReviews /\ reading[t] \in ReviewFetches /\ written[t] \in ReviewForms
         /\ saving[t] \in {Editor!NoOp} \cup Saves /\ seen[t] \in SUBSET Nat /\ under[t] \in SUBSET Nat
         /\ TabHolds(cached[t], reading[t], written[t], saving[t], seen[t] \cup under[t], review, reviews)
  BY DEF EditorOK

\* The forms that there are.
LEMMA FormsAre ==
  ASSUME NEW fo \in ReviewForms
  PROVE  /\ fo.open \in BOOLEAN
         /\ fo.open => fo \in OpenForms /\ fo.review \in AReview /\ fo.draft \in Nat /\ fo.initial \in Nat
         /\ ~fo.open => fo = Editor!Closed
<1>1. CASE fo = Editor!Closed
  <2>1. fo.open = FALSE
    BY <1>1 DEF Editor!Closed
  <2>2. QED
    BY <1>1, <2>1
<1>2. CASE fo \in OpenForms
  <2>1. fo.open = TRUE
    BY <1>2 DEF OpenForms
  <2>2. fo.review \in AReview /\ fo.draft \in Nat /\ fo.initial \in Nat
    BY <1>2 DEF OpenForms
  <2>3. QED
    BY <1>2, <2>1, <2>2
<1>3. QED
  BY <1>1, <1>2 DEF ReviewForms

\* What a form becomes with a review: it shows that review, or keeps what it has.
LEMMA GivenForm ==
  ASSUME EditorOK, NEW t \in Windows, NEW r \in AReview
  PROVE  /\ Editor!Given(t, r) \in OpenForms
         /\ \/ Editor!Given(t, r).review = r /\ Editor!Given(t, r).initial = r.text
            \/ written[t].open /\ Editor!Given(t, r) = written[t]
         /\ written[t].open /\ Editor!Dirty(written[t]) => Editor!Given(t, r).draft = written[t].draft
<1>0. written[t] \in ReviewForms
  BY TabHeld
<1>1. CASE ~written[t].open
  <2>1. Editor!Given(t, r) = [open |-> TRUE, review |-> r, draft |-> r.text, initial |-> r.text]
    BY <1>1 DEF Editor!Given, Editor!Opened
  <2>2. r.text \in Nat
    BY DEF AReview
  <2>3. QED
    BY <1>1, <2>1, <2>2 DEF OpenForms
<1>2. CASE written[t].open
  <2>0. written[t] \in OpenForms
    BY <1>0, <1>2, FormsAre
  <2>1. CASE Editor!Given(t, r) = written[t]
    BY <1>2, <2>0, <2>1
  <2>2. CASE Editor!Given(t, r) # written[t]
    <3>1. Editor!Given(t, r) = [written[t] EXCEPT !.review = r, !.initial = r.text,
                                  !.draft = IF Editor!Dirty(written[t]) THEN written[t].draft ELSE r.text]
      BY <1>2, <2>2 DEF Editor!Given, Editor!Adopted
    <3> DEFINE d == IF Editor!Dirty(written[t]) THEN written[t].draft ELSE r.text
    <3>2. d \in Nat /\ r.text \in Nat
      BY <2>0 DEF OpenForms, AReview
    <3>3. Editor!Dirty(written[t]) => d = written[t].draft
      OBVIOUS
    <3> HIDE DEF d
    <3>4. Editor!Given(t, r) = [open |-> TRUE, review |-> r, draft |-> d, initial |-> r.text]
      BY <2>0, <3>1 DEF OpenForms, d
    <3>5. QED
      BY <3>2, <3>3, <3>4 DEF OpenForms
  <2>3. QED
    BY <2>1, <2>2
<1>3. QED
  BY <1>0, <1>1, <1>2, FormsAre

EditorStep == EditorOK' /\ Editor!OverwritesSeen /\ Editor!DraftKept

\* A step of one tab that leaves the active review.
LEMMA QuietTab ==
  ASSUME EditorOK, UNCHANGED <<review, reviews>>, NEW t \in Windows, NEW c \in CachedReviews,
         NEW fe \in ReviewFetches, NEW fo \in ReviewForms, NEW o \in {Editor!NoOp} \cup Saves,
         NEW se \in SUBSET Nat, NEW un \in SUBSET Nat, TabBecomes(t, c, fe, fo, o, se, un),
         texts' \in Nat, TabHolds(c, fe, fo, o, se \cup un, review, reviews), DraftStays(t, fo)
  PROVE  EditorStep
<1>1. ReviewMoves /\ Editor!OverwritesSeen
  BY ReviewStill
<1>2. TabHolds(c, fe, fo, o, se \cup un, review', reviews')
  OBVIOUS
<1>3. QED
  BY <1>1, <1>2, OneTab DEF EditorStep

\* Loading: the request, its answer, and its failure.
LEMMA AskStep ==
  ASSUME EditorOK, NEW t \in Windows,
         Editor!Load(t) \/ Editor!Serve(t) \/ Editor!LoadFails(t) \/ Editor!Fails(t)
  PROVE  EditorStep
<1>0. /\ cached[t] \in CachedReviews /\ reading[t] \in ReviewFetches /\ written[t] \in ReviewForms
      /\ saving[t] \in {Editor!NoOp} \cup Saves /\ seen[t] \in SUBSET Nat /\ under[t] \in SUBSET Nat
      /\ TabHolds(cached[t], reading[t], written[t], saving[t], seen[t] \cup under[t], review, reviews)
      /\ texts \in Nat /\ review \in AReview /\ HeldAt(review, review, reviews)
  BY TabHeld DEF EditorOK
<1>k. DraftStays(t, written[t])
  BY DEF DraftStays
<1>1. ASSUME NEW fe \in ReviewFetches, NEW o \in {Editor!NoOp} \cup Saves,
             fe.step = "read" => HeldAt(fe.review, review, reviews),
             o = saving[t] \/ o = Editor!NoOp,
             TabBecomes(t, cached[t], fe, written[t], o, seen[t], under[t]),
             UNCHANGED <<review, reviews, texts>>
      PROVE  EditorStep
  <2>1. TabHolds(cached[t], fe, written[t], o, seen[t] \cup under[t], review, reviews)
    BY <1>0, <1>1 DEF TabHolds, Editor!NoOp
  <2>2. QED
    BY <1>0, <1>1, <1>k, <2>1, QuietTab
<1>2. CASE Editor!Load(t)
  <2>1. TabBecomes(t, cached[t], [step |-> "asked"], written[t], saving[t], seen[t], under[t])
    BY <1>2 DEF Editor!Load, Editor!Ask, TabBecomes, EditorOK
  <2>2. [step |-> "asked"] \in ReviewFetches
    BY DEF ReviewFetches
  <2>3. QED
    BY <1>0, <1>1, <1>2, <2>1, <2>2 DEF Editor!Load
<1>3. CASE Editor!Serve(t)
  <2>1. TabBecomes(t, cached[t], [step |-> "read", review |-> review], written[t], saving[t], seen[t],
        under[t])
    BY <1>3 DEF Editor!Serve, TabBecomes, EditorOK
  <2>2. [step |-> "read", review |-> review] \in ReviewFetches
    BY <1>0 DEF ReviewFetches
  <2>3. QED
    BY <1>0, <1>1, <1>3, <2>1, <2>2 DEF Editor!Serve
<1>4. CASE Editor!Fails(t)
  <2> DEFINE fe == IF saving[t].step = "exists" THEN [step |-> "asked"] ELSE reading[t]
  <2>1. fe \in ReviewFetches /\ (fe.step = "read" => HeldAt(fe.review, review, reviews))
    BY <1>0 DEF ReviewFetches, TabHolds
  <2>2. TabBecomes(t, cached[t], fe, written[t], Editor!NoOp, seen[t], under[t])
    BY <1>4 DEF Editor!Fails, Editor!Ask, TabBecomes, EditorOK
  <2> HIDE DEF fe
  <2>3. QED
    BY <1>1, <1>4, <2>1, <2>2 DEF Editor!Fails
<1>5. CASE Editor!LoadFails(t)
  <2> DEFINE o == IF saving[t].step = "none" THEN saving[t] ELSE [saving[t] EXCEPT !.orphan = TRUE]
  <2> DEFINE c == [state |-> "error"]
  <2>1. o \in {Editor!NoOp} \cup Saves
    BY <1>0 DEF Saves, Editor!NoOp
  <2>2. /\ o.step = saving[t].step
        /\ o.step # "none" => o.review = saving[t].review /\ o.orphan /\ o.kind = saving[t].kind
    BY <1>0 DEF Saves, Editor!NoOp
  <2>3. TabBecomes(t, c, Editor!NoFetch, Editor!Closed, o, seen[t], under[t])
    BY <1>5 DEF Editor!LoadFails, TabBecomes, EditorOK
  <2>4. c \in CachedReviews /\ Editor!NoFetch \in ReviewFetches /\ Editor!Closed \in ReviewForms
    BY DEF CachedReviews, ReviewFetches, ReviewForms
  <2> HIDE DEF o
  <2>5. TabHolds(c, Editor!NoFetch, Editor!Closed, o, seen[t] \cup under[t], review, reviews)
    BY <1>0, <2>2 DEF TabHolds, Editor!NoFetch, Editor!Closed
  <2> HIDE DEF c
  <2>6. DraftStays(t, Editor!Closed)
    BY DEF DraftStays, Editor!Closed
  <2>7. UNCHANGED <<review, reviews, texts>>
    BY <1>5 DEF Editor!LoadFails
  <2>8. QED
    BY <1>0, <2>1, <2>3, <2>4, <2>5, <2>6, <2>7, QuietTab
<1>6. QED
  BY <1>2, <1>3, <1>4, <1>5

\* What a form shows becomes what it has shown.
LEMMA ShownForm ==
  ASSUME EditorOK, NEW t \in Windows, NEW r \in AReview, HeldAt(r, review, reviews), NEW f \in OpenForms,
         HeldAt(f.review, review, reviews),
         f.review.text = f.initial \/ f.review.text \in seen[t] \cup under[t],
         NEW fe \in ReviewFetches, fe.step # "read", NEW o \in {Editor!NoOp} \cup Saves,
         o = saving[t] \/ o = Editor!NoOp,
         TabBecomes(t, [state |-> "loaded", review |-> r], fe, f, o,
                    seen[t] \cup {f.draft, f.initial}, under[t]),
         DraftStays(t, f), UNCHANGED <<review, reviews, texts>>
  PROVE  EditorStep
<1>0. /\ saving[t] \in {Editor!NoOp} \cup Saves /\ seen[t] \in SUBSET Nat /\ under[t] \in SUBSET Nat
      /\ TabHolds(cached[t], reading[t], written[t], saving[t], seen[t] \cup under[t], review, reviews)
      /\ texts \in Nat
  BY TabHeld DEF EditorOK
<1> DEFINE c == [state |-> "loaded", review |-> r]
<1> DEFINE se == seen[t] \cup {f.draft, f.initial}
<1>1. c \in CachedReviews /\ c.state = "loaded" /\ c.review = r
  BY DEF CachedReviews
<1>2. se \in SUBSET Nat /\ f.initial \in se /\ seen[t] \subseteq se
  BY <1>0 DEF OpenForms
<1>3. f \in ReviewForms /\ f.open = TRUE
  BY DEF ReviewForms, OpenForms
<1>4. TabBecomes(t, c, fe, f, o, se, under[t])
  OBVIOUS
<1> HIDE DEF c, se
<1>5. TabHolds(c, fe, f, o, se \cup under[t], review, reviews)
  BY <1>0, <1>1, <1>2, <1>3 DEF TabHolds, Editor!NoOp
<1>6. QED
  BY <1>0, <1>1, <1>2, <1>3, <1>4, <1>5, QuietTab

LEMMA LoadedStep == ASSUME EditorOK, NEW t \in Windows, Editor!Loaded(t) PROVE EditorStep
<1>0. /\ cached[t] \in CachedReviews /\ reading[t] \in ReviewFetches /\ written[t] \in ReviewForms
      /\ saving[t] \in {Editor!NoOp} \cup Saves /\ seen[t] \in SUBSET Nat /\ under[t] \in SUBSET Nat
      /\ TabHolds(cached[t], reading[t], written[t], saving[t], seen[t] \cup under[t], review, reviews)
      /\ texts \in Nat
  BY TabHeld DEF EditorOK
<1> DEFINE r == reading[t].review
           f == Editor!Given(t, r)
           c == [state |-> "loaded", review |-> r]
<1>1. reading[t].step = "read" /\ UNCHANGED <<review, reviews, texts, saving>>
  BY DEF Editor!Loaded
<1>2. r \in AReview /\ HeldAt(r, review, reviews)
  BY <1>0, <1>1 DEF ReviewFetches, Editor!NoFetch, TabHolds
<1>3. /\ f \in OpenForms
      /\ \/ f.review = r /\ f.initial = r.text
         \/ written[t].open /\ f = written[t]
      /\ written[t].open /\ Editor!Dirty(written[t]) => f.draft = written[t].draft
  BY <1>2, GivenForm
<1>4. DraftStays(t, f)
  BY <1>3 DEF DraftStays
<1>5. HeldAt(f.review, review, reviews)
  BY <1>0, <1>2, <1>3 DEF TabHolds
<1>6. Editor!NoFetch \in ReviewFetches /\ Editor!NoFetch.step # "read"
  BY DEF ReviewFetches, Editor!NoFetch
<1>7. CASE written[t].open /\ Editor!Dirty(written[t]) /\ f # written[t]
  <2>1. f.review = r /\ r.text \in Nat
    BY <1>2, <1>3, <1>7 DEF AReview
  <2> DEFINE un == under[t] \cup {r.text}
  <2>2. TabBecomes(t, c, Editor!NoFetch, f, saving[t], seen[t], un)
    BY <1>7 DEF Editor!Loaded, TabBecomes, EditorOK
  <2>3. c \in CachedReviews /\ c.state = "loaded" /\ c.review = r
    BY <1>2 DEF CachedReviews
  <2>4. un \in SUBSET Nat /\ r.text \in un /\ under[t] \subseteq un
    BY <1>0, <2>1
  <2>5. f \in ReviewForms /\ f.open = TRUE
    BY <1>3 DEF ReviewForms, OpenForms
  <2> HIDE DEF c, f, r, un
  <2>6. TabHolds(c, Editor!NoFetch, f, saving[t], seen[t] \cup un, review, reviews)
    BY <1>0, <1>2, <1>6, <2>1, <2>3, <2>4, <2>5 DEF TabHolds
  <2>7. QED
    BY <1>0, <1>1, <1>4, <1>6, <2>2, <2>3, <2>4, <2>5, <2>6, QuietTab
<1>8. CASE ~(written[t].open /\ Editor!Dirty(written[t]) /\ f # written[t])
  <2>1. TabBecomes(t, c, Editor!NoFetch, f, saving[t], seen[t] \cup {f.draft, f.initial}, under[t])
    BY <1>8 DEF Editor!Loaded, Editor!Saw, TabBecomes, EditorOK
  <2>2. f.review.text = f.initial \/ f.review.text \in seen[t] \cup under[t]
    BY <1>0, <1>3 DEF TabHolds
  <2> HIDE DEF f, r
  <2>3. QED
    BY <1>0, <1>1, <1>2, <1>3, <1>4, <1>5, <1>6, <2>1, <2>2, ShownForm
<1>9. QED
  BY <1>7, <1>8

\* A review opened anew, and the emptied form that adopts what is cached.
LEMMA OpenedForm ==
  ASSUME NEW r \in AReview
  PROVE  /\ Editor!Opened(r) \in OpenForms
         /\ Editor!Opened(r).review = r /\ Editor!Opened(r).initial = r.text
         /\ Editor!Adopted(Editor!Opened(Editor!NoReview), r) \in
              {Editor!Opened(r), Editor!Opened(Editor!NoReview)}
<1>1. Editor!Opened(r) = [open |-> TRUE, review |-> r, draft |-> r.text, initial |-> r.text]
  BY DEF Editor!Opened
<1>2. r.text \in Nat
  BY DEF AReview
<1>3. Editor!Opened(r) \in OpenForms
  BY <1>1, <1>2 DEF OpenForms
<1> DEFINE e == Editor!Opened(Editor!NoReview)
<1>4. e = [open |-> TRUE, review |-> Editor!NoReview, draft |-> 0, initial |-> 0]
  BY DEF Editor!Opened, Editor!NoReview
<1> HIDE DEF e
<1>5. ~Editor!Dirty(e)
  BY <1>4 DEF Editor!Dirty
<1>6. Editor!Adopted(e, r) = e \/ Editor!Adopted(e, r) = [e EXCEPT !.review = r, !.initial = r.text,
                                                             !.draft = r.text]
  BY <1>5 DEF Editor!Adopted
<1>7. [e EXCEPT !.review = r, !.initial = r.text, !.draft = r.text] = Editor!Opened(r)
  <2> DEFINE x == r.text
             e1 == [e EXCEPT !.review = r]
             e2 == [e1 EXCEPT !.initial = x]
             e3 == [e2 EXCEPT !.draft = x]
             F == {"open", "review", "draft", "initial"}
  <2>1. DOMAIN e1 = F /\ e1.open = TRUE /\ e1.review = r
    BY <1>4
  <2> HIDE DEF e1, x
  <2>2. DOMAIN e2 = F /\ e2.open = TRUE /\ e2.review = r /\ e2.initial = x
    BY <2>1
  <2> HIDE DEF e2
  <2>3. DOMAIN e3 = F /\ e3.open = TRUE /\ e3.review = r /\ e3.initial = x /\ e3.draft = x
    BY <2>2
  <2>4. e3 = [i \in DOMAIN e2 |-> e3[i]] /\ DOMAIN e2 = F
    BY <2>2
  <2> HIDE DEF e3
  <2>5. e3 = [open |-> TRUE, review |-> r, draft |-> x, initial |-> x]
    BY <2>3, <2>4
  <2>6. [e EXCEPT !.review = r, !.initial = x, !.draft = x] = e3
    BY DEF e1, e2, e3
  <2>7. QED
    BY <1>1, <2>5, <2>6 DEF x
<1>8. QED
  BY <1>1, <1>3, <1>6, <1>7 DEF e

LEMMA AnsweredStep ==
  ASSUME EditorOK, NEW t \in Windows, Editor!Saved(t) \/ Editor!Deleted(t) PROVE EditorStep
<1>0. /\ cached[t] \in CachedReviews /\ written[t] \in ReviewForms
      /\ saving[t] \in {Editor!NoOp} \cup Saves
      /\ TabHolds(cached[t], reading[t], written[t], saving[t], seen[t] \cup under[t], review, reviews)
      /\ reviews \in Nat /\ review \in AReview
  BY TabHeld DEF EditorOK
<1>a. /\ saving[t].step = "done" /\ UNCHANGED <<review, reviews, texts>>
      /\ saving[t] \in Saves
  BY <1>0 DEF Editor!Saved, Editor!Deleted, Editor!NoOp
<1>b. saving[t].review \in AReview /\ HeldAt(saving[t].review, review, reviews)
      /\ (~saving[t].orphan => written[t].open)
  BY <1>0, <1>a DEF TabHolds, Saves
<1>c. Editor!NoReview \in AReview /\ HeldAt(Editor!NoReview, review, reviews)
  <2>1. Editor!NoReview \in AReview
    BY DEF Editor!NoReview, AReview
  <2>2. HeldAt(review, review, reviews) /\ review.version \in Nat
    BY <1>0 DEF EditorOK, AReview
  <2>3. QED
    BY <1>0, <2>1, <2>2 DEF HeldAt, Editor!NoReview
<1>d. [step |-> "asked"] \in ReviewFetches
  BY DEF ReviewFetches
\* The answer is the review r, and the form becomes f.
<1>e. ASSUME NEW r \in AReview, HeldAt(r, review, reviews), NEW f \in OpenForms,
             HeldAt(f.review, review, reviews),
             f.review.text = f.initial \/ f.review.text \in seen[t] \cup under[t],
             written' = [written EXCEPT ![t] = f], Editor!Saw(t, f), Editor!Synchronize(t, r),
             saving' = [saving EXCEPT ![t] = Editor!NoOp], UNCHANGED under
      PROVE  EditorStep
  <2>1. TabBecomes(t, [state |-> "loaded", review |-> r], [step |-> "asked"], f, Editor!NoOp,
                   seen[t] \cup {f.draft, f.initial}, under[t])
    BY <1>e DEF Editor!Saw, Editor!Synchronize, Editor!Ask, TabBecomes, EditorOK
  <2>2. DraftStays(t, f)
    BY <1>a DEF DraftStays
  <2>3. [step |-> "asked"].step # "read"
    OBVIOUS
  <2>4. QED
    BY <1>a, <1>d, <1>e, <2>1, <2>2, <2>3, ShownForm
\* A form that is given a review, or opened with it.
<1>f. ASSUME NEW r \in AReview, HeldAt(r, review, reviews)
      PROVE  /\ Editor!Given(t, r) \in OpenForms
             /\ HeldAt(Editor!Given(t, r).review, review, reviews)
             /\ \/ Editor!Given(t, r).review.text = Editor!Given(t, r).initial
                \/ Editor!Given(t, r).review.text \in seen[t] \cup under[t]
  BY <1>0, <1>f, GivenForm DEF TabHolds
<1>g. ASSUME NEW r \in AReview, HeldAt(r, review, reviews)
      PROVE  /\ Editor!Opened(r) \in OpenForms
             /\ HeldAt(Editor!Opened(r).review, review, reviews)
             /\ Editor!Opened(r).review.text = Editor!Opened(r).initial
  BY <1>g, OpenedForm
<1>1. CASE Editor!Saved(t)
  <2> DEFINE r == saving[t].review
             f == IF saving[t].orphan THEN Editor!Given(t, r) ELSE Editor!Opened(r)
  <2>1. /\ written' = [written EXCEPT ![t] = f] /\ Editor!Saw(t, f) /\ Editor!Synchronize(t, r)
        /\ saving' = [saving EXCEPT ![t] = Editor!NoOp] /\ UNCHANGED under
    BY <1>1 DEF Editor!Saved
  <2>2. f \in OpenForms /\ HeldAt(f.review, review, reviews)
        /\ (f.review.text = f.initial \/ f.review.text \in seen[t] \cup under[t])
    BY <1>b, <1>f, <1>g
  <2> HIDE DEF r, f
  <2>3. r \in AReview /\ HeldAt(r, review, reviews)
    BY <1>b DEF r
  <2>4. QED
    BY <1>e, <2>1, <2>2, <2>3
<1>2. CASE Editor!Deleted(t)
  <2> DEFINE Forms == IF saving[t].orphan THEN {Editor!Given(t, Editor!NoReview)}
                      ELSE {Editor!Opened(Editor!NoReview)} \cup
                             {Editor!Adopted(Editor!Opened(Editor!NoReview), cached[t].review)}
  <2>1. PICK f \in Forms : written' = [written EXCEPT ![t] = f] /\ Editor!Saw(t, f)
    BY <1>2 DEF Editor!Deleted
  <2>2. /\ Editor!Synchronize(t, Editor!NoReview)
        /\ saving' = [saving EXCEPT ![t] = Editor!NoOp] /\ UNCHANGED under
    BY <1>2 DEF Editor!Deleted
  <2>3. f \in OpenForms /\ HeldAt(f.review, review, reviews)
        /\ (f.review.text = f.initial \/ f.review.text \in seen[t] \cup under[t])
    <3>1. CASE saving[t].orphan
      BY <1>c, <1>f, <2>1, <3>1
    <3>2. CASE ~saving[t].orphan
      <4>1. cached[t].state = "loaded"
        BY <1>0, <1>b, <3>2 DEF TabHolds
      <4>2. cached[t].review \in AReview /\ HeldAt(cached[t].review, review, reviews)
        BY <1>0, <4>1 DEF CachedReviews, Editor!Unloaded, TabHolds
      <4>3. f \in {Editor!Opened(Editor!NoReview), Editor!Opened(cached[t].review)}
        BY <2>1, <3>2, <4>2, OpenedForm
      <4>4. QED
        BY <1>c, <1>g, <4>2, <4>3
    <3>3. QED
      BY <3>1, <3>2
  <2>4. QED
    BY <1>c, <1>e, <2>1, <2>2, <2>3
<1>3. QED
  BY <1>1, <1>2

\* What the user does in the form.
LEMMA FormStep ==
  ASSUME EditorOK, NEW t \in Windows, Editor!Type(t) \/ Editor!Submit(t) \/ Editor!ConfirmDelete(t)
  PROVE  EditorStep
<1>0. /\ cached[t] \in CachedReviews /\ reading[t] \in ReviewFetches /\ written[t] \in ReviewForms
      /\ saving[t] \in {Editor!NoOp} \cup Saves /\ seen[t] \in SUBSET Nat /\ under[t] \in SUBSET Nat
      /\ TabHolds(cached[t], reading[t], written[t], saving[t], seen[t] \cup under[t], review, reviews)
      /\ texts \in Nat
  BY TabHeld DEF EditorOK
<1>1. written[t].open /\ saving[t].step = "none"
      /\ UNCHANGED <<review, reviews, cached, reading, seen, under>>
  BY DEF Editor!Type, Editor!Submit, Editor!ConfirmDelete, Editor!Send, Editor!Ready
<1>2. written[t] \in OpenForms /\ written[t].review \in AReview /\ written[t].draft \in Nat
  BY <1>0, <1>1, FormsAre
<1>3. CASE Editor!Type(t)
  <2> DEFINE fo == [written[t] EXCEPT !.draft = texts + 1]
  <2>1. written' = [written EXCEPT ![t] = fo] /\ texts' = texts + 1 /\ UNCHANGED saving
    BY <1>3 DEF Editor!Type
  <2>2. /\ fo \in OpenForms /\ fo.open = written[t].open /\ fo.review = written[t].review
    <3> DEFINE x == texts + 1
    <3>1. x \in Nat
      BY <1>0
    <3> HIDE DEF x
    <3>2. fo = [written[t] EXCEPT !.draft = x]
      BY DEF x
    <3> HIDE DEF fo
    <3>3. fo \in OpenForms
      BY <1>2, <3>1, <3>2 DEF OpenForms
    <3>4. fo.open = written[t].open /\ fo.review = written[t].review
      BY <1>2, <3>2 DEF OpenForms
    <3>5. QED
      BY <3>3, <3>4
  <2> HIDE DEF fo
  <2>3. TabBecomes(t, cached[t], reading[t], fo, saving[t], seen[t], under[t])
    BY <1>1, <2>1 DEF TabBecomes, EditorOK
  <2>4. TabHolds(cached[t], reading[t], fo, saving[t], seen[t] \cup under[t], review, reviews)
    BY <1>0, <2>2 DEF TabHolds
  <2>5. texts' \in Nat /\ DraftStays(t, fo)
    BY <1>0, <2>1 DEF DraftStays
  <2>6. fo \in ReviewForms
    BY <2>2 DEF ReviewForms
  <2>7. QED
    BY <1>0, <1>1, <2>3, <2>4, <2>5, <2>6, QuietTab
<1>4. ASSUME NEW kind \in {"create", "update", "delete"}, Editor!Send(t, kind),
             kind = "update" => written[t].review.id # 0
      PROVE  EditorStep
  <2> DEFINE o == [step |-> "sent", kind |-> kind, text |-> written[t].draft,
             review |-> written[t].review,
                   orphan |-> FALSE]
  <2>1. saving' = [saving EXCEPT ![t] = o] /\ UNCHANGED <<written, texts>>
    BY <1>4 DEF Editor!Send
  <2>2. o \in Saves /\ o.review = written[t].review /\ (o.kind = "update" => o.review.id # 0)
    BY <1>2, <1>4 DEF Saves
  <2> HIDE DEF o
  <2>3. TabBecomes(t, cached[t], reading[t], written[t], o, seen[t], under[t])
    BY <1>1, <2>1 DEF TabBecomes, EditorOK
  <2>4. TabHolds(cached[t], reading[t], written[t], o, seen[t] \cup under[t], review, reviews)
    BY <1>0, <1>1, <2>2 DEF TabHolds
  <2>5. DraftStays(t, written[t])
    BY DEF DraftStays
  <2>6. QED
    BY <1>0, <1>1, <2>1, <2>2, <2>3, <2>4, <2>5, QuietTab
<1>5. QED
  BY <1>3, <1>4 DEF Editor!Submit, Editor!ConfirmDelete

\* The server: an operation whose step, and whose review, it sets.
LEMMA ServedTab ==
  ASSUME EditorOK, ReviewMoves, NEW t \in Windows, NEW o \in Saves, o.step # "sent",
         saving[t].step = "sent", HeldAt(o.review, review', reviews'), o.orphan = saving[t].orphan,
         saving' = [saving EXCEPT ![t] = o], UNCHANGED <<cached, reading, written, seen, under, texts>>
  PROVE  EditorOK' /\ Editor!DraftKept /\ saving'[t] # saving[t]
<1>0. /\ cached[t] \in CachedReviews /\ reading[t] \in ReviewFetches /\ written[t] \in ReviewForms
      /\ saving[t] \in {Editor!NoOp} \cup Saves /\ seen[t] \in SUBSET Nat /\ under[t] \in SUBSET Nat
      /\ TabHolds(cached[t], reading[t], written[t], saving[t], seen[t] \cup under[t], review, reviews)
      /\ texts \in Nat
  BY TabHeld DEF EditorOK
<1>1. TabHolds(cached[t], reading[t], written[t], saving[t], seen[t] \cup under[t], review', reviews')
  BY <1>0, HeldTabStays
<1>2. TabHolds(cached[t], reading[t], written[t], o, seen[t] \cup under[t], review', reviews')
  BY <1>1 DEF TabHolds
<1>3. TabBecomes(t, cached[t], reading[t], written[t], o, seen[t], under[t])
  BY DEF TabBecomes, EditorOK
<1>4. DraftStays(t, written[t])
  BY DEF DraftStays
<1>5. saving'[t] = o
  BY DEF EditorOK
<1>6. QED
  BY <1>0, <1>2, <1>3, <1>4, <1>5, OneTab

\* The operation under way, with another step.
LEMMA OperationStep ==
  ASSUME NEW o \in Saves, NEW s \in {"done", "exists", "refused"}
  PROVE  /\ [o EXCEPT !.step = s] \in Saves /\ [o EXCEPT !.step = s].step # "sent"
         /\ [o EXCEPT !.step = s].review = o.review /\ [o EXCEPT !.step = s].orphan = o.orphan
  BY DEF Saves

LEMMA OperationDone ==
  ASSUME NEW o \in Saves, NEW r \in AReview
  PROVE  /\ [o EXCEPT !.step = "done", !.review = r] \in Saves
         /\ [o EXCEPT !.step = "done", !.review = r].step # "sent"
         /\ [o EXCEPT !.step = "done", !.review = r].review = r
         /\ [o EXCEPT !.step = "done", !.review = r].orphan = o.orphan
<1> DEFINE o1 == [o EXCEPT !.step = "done"]
           o2 == [o1 EXCEPT !.review = r]
<1>1. o1 \in Saves /\ o1.step # "sent" /\ o1.orphan = o.orphan
  BY OperationStep
<1> HIDE DEF o1
<1>2. o2 \in Saves /\ o2.step = o1.step /\ o2.review = r /\ o2.orphan = o1.orphan
  BY <1>1 DEF Saves
<1> HIDE DEF o2
<1>3. [o EXCEPT !.step = "done", !.review = r] = o2
  BY DEF o1, o2
<1>4. QED
  BY <1>1, <1>2, <1>3

LEMMA ServerStep ==
  ASSUME EditorOK, NEW t \in Windows, Editor!Create(t) \/ Editor!Update(t) \/ Editor!Delete(t)
  PROVE  EditorStep
<1>0. /\ saving[t] \in {Editor!NoOp} \cup Saves /\ review \in AReview /\ reviews \in Nat
      /\ TabHolds(cached[t], reading[t], written[t], saving[t], seen[t] \cup under[t], review, reviews)
      /\ HeldAt(review, review, reviews)
  BY TabHeld DEF EditorOK
<1>1. saving[t].step = "sent" /\ UNCHANGED <<cached, reading, written, seen, under, texts>>
  BY DEF Editor!Create, Editor!Update, Editor!Delete
<1>2. /\ saving[t] \in Saves /\ HeldAt(saving[t].review, review, reviews) /\ saving[t].review \in AReview
      /\ saving[t].review.text \in seen[t] \cup under[t] /\ saving[t].text \in Nat
      /\ saving[t].kind = "update" => saving[t].review.id # 0
  BY <1>0, <1>1 DEF Editor!NoOp, TabHolds, Saves
<1>3. /\ review.id \in Nat /\ review.version \in Nat /\ review.text \in Nat /\ review.id <= reviews
      /\ review.id = 0 => review = Editor!NoReview
  BY <1>0 DEF AReview, HeldAt
\* An answer that leaves the review.
<1>4. ASSUME NEW s \in {"done", "exists", "refused"}, UNCHANGED <<review, reviews>>,
             saving' = [saving EXCEPT ![t] = [saving[t] EXCEPT !.step = s]]
      PROVE  EditorStep
  <2> DEFINE o == [saving[t] EXCEPT !.step = s]
  <2>1. o \in Saves /\ o.step # "sent" /\ o.review = saving[t].review /\ o.orphan = saving[t].orphan
    BY <1>2, OperationStep
  <2>2. saving' = [saving EXCEPT ![t] = o]
    BY <1>4
  <2> HIDE DEF o
  <2>3. QED
    BY <1>1, <1>2, <1>4, <2>1, <2>2, ReviewStill, ServedTab DEF EditorStep
\* An answer with the review that is active now.
<1>5. ASSUME ReviewMoves,
             saving' = [saving EXCEPT ![t] = [saving[t] EXCEPT !.step = "done", !.review = review']]
      PROVE  EditorOK' /\ Editor!DraftKept /\ saving'[t] # saving[t]
  <2> DEFINE o == [saving[t] EXCEPT !.step = "done", !.review = review']
  <2>1. review' \in AReview /\ HeldAt(review', review', reviews')
    BY <1>5 DEF ReviewMoves
  <2>2. o \in Saves /\ o.step # "sent" /\ o.review = review' /\ o.orphan = saving[t].orphan
    BY <1>2, <2>1, OperationDone
  <2>3. saving' = [saving EXCEPT ![t] = o]
    BY <1>5
  <2> HIDE DEF o
  <2>4. QED
    BY <1>1, <1>5, <2>1, <2>2, <2>3, ServedTab
<1>6. CASE Editor!Create(t)
  <2>1. CASE review.id # 0
    BY <1>4, <1>6, <2>1 DEF Editor!Create
  <2>2. CASE review.id = 0
    <3>1. /\ reviews' = reviews + 1
          /\ review' = [id |-> reviews + 1, version |-> 1, text |-> saving[t].text]
          /\ saving' = [saving EXCEPT ![t] = [saving[t] EXCEPT !.step = "done", !.review = review']]
      BY <1>6, <2>2 DEF Editor!Create
    <3>2. /\ review' \in AReview /\ review'.id = reviews + 1
      BY <1>0, <1>2, <3>1 DEF AReview
    <3>3. HeldAt(review', review', reviews')
      BY <1>0, <3>1, <3>2 DEF HeldAt, AReview
    <3>4. ASSUME NEW r \in AReview, HeldAt(r, review, reviews) PROVE HeldAt(r, review', reviews')
      BY <1>0, <3>1, <3>2, <3>4 DEF HeldAt, AReview
    <3>5. ReviewMoves
      BY <1>0, <3>1, <3>2, <3>3, <3>4 DEF ReviewMoves
    <3>6. Editor!OverwritesSeen
      BY <1>0, <2>2, <3>2 DEF Editor!OverwritesSeen
    <3>7. QED
      BY <1>5, <3>1, <3>5, <3>6 DEF EditorStep
  <2>3. QED
    BY <2>1, <2>2
<1>7. CASE Editor!Update(t)
  <2>1. CASE ~(review.id = saving[t].review.id /\ review.version = saving[t].review.version)
    BY <1>4, <1>7, <2>1 DEF Editor!Update, Editor!Expected
  <2>2. CASE review.id = saving[t].review.id /\ review.version = saving[t].review.version
    <3> DEFINE now == IF saving[t].text = review.text THEN review
                      ELSE [review EXCEPT !.version = review.version + 1, !.text = saving[t].text]
    <3>1. /\ review' = now /\ UNCHANGED reviews
          /\ saving' = [saving EXCEPT ![t] = [saving[t] EXCEPT !.step = "done", !.review = now]]
      BY <1>7, <2>2 DEF Editor!Update, Editor!Expected
    <3>2. saving[t].review.text = review.text
      BY <1>2, <2>2 DEF HeldAt
    <3>3. CASE saving[t].text = review.text
      <4>1. review' = review
        BY <3>1, <3>3
      <4>2. QED
        BY <1>5, <3>1, <4>1, ReviewStill DEF EditorStep
    <3>4. CASE saving[t].text # review.text
      <4>1. review' = [id |-> review.id, version |-> review.version + 1, text |-> saving[t].text]
        BY <1>0, <3>1, <3>4 DEF AReview
      <4>2. saving' = [saving EXCEPT ![t] = [saving[t] EXCEPT !.step = "done", !.review = review']]
        BY <3>1
      <4> HIDE DEF now
      <4>3. review' \in AReview /\ review'.id = review.id /\ review'.version = review.version + 1
        BY <1>2, <1>3, <4>1 DEF AReview
      <4>4. review.id # 0
        BY <1>2, <1>7, <2>2 DEF Editor!Update
      <4>5. HeldAt(review', review', reviews')
        BY <1>3, <3>1, <4>3, <4>4 DEF HeldAt, AReview
      <4>6. ASSUME NEW r \in AReview, HeldAt(r, review, reviews) PROVE HeldAt(r, review', reviews')
        BY <1>3, <3>1, <4>3, <4>4, <4>6 DEF HeldAt, AReview
      <4>7. ReviewMoves
        BY <1>0, <3>1, <4>3, <4>5, <4>6 DEF ReviewMoves
      <4>8. EditorOK' /\ Editor!DraftKept /\ saving'[t] # saving[t]
        BY <1>5, <4>2, <4>7
      <4>9. Editor!OverwritesSeen
        BY <1>2, <3>2, <4>8 DEF Editor!OverwritesSeen
      <4>10. QED
        BY <4>8, <4>9 DEF EditorStep
    <3>5. QED
      BY <3>3, <3>4
  <2>3. QED
    BY <2>1, <2>2
<1>8. CASE Editor!Delete(t)
  <2>1. CASE review.id # saving[t].review.id \/ review.id = 0
    <3>1. UNCHANGED <<review, reviews>>
      BY <1>3, <1>8, <2>1 DEF Editor!Delete
    <3>2. QED
      BY <1>4, <1>8, <3>1 DEF Editor!Delete
  <2>2. CASE review.id = saving[t].review.id /\ review.id # 0
    <3>1. /\ review' = Editor!NoReview /\ UNCHANGED reviews
          /\ saving' = [saving EXCEPT ![t] = [saving[t] EXCEPT !.step = "done"]]
      BY <1>8, <2>2 DEF Editor!Delete
    <3>2. review' \in AReview /\ review'.id = 0 /\ review'.version = 0 /\ review'.text = 0
      BY <3>1 DEF AReview, Editor!NoReview
    <3>3. HeldAt(review', review', reviews')
      BY <1>0, <3>1, <3>2 DEF HeldAt
    <3>4. ASSUME NEW r \in AReview, HeldAt(r, review, reviews) PROVE HeldAt(r, review', reviews')
      <4>1. r.id = 0 => r.version = 0 /\ r.text = 0
        BY <3>4 DEF HeldAt, Editor!NoReview
      <4>2. QED
        BY <3>1, <3>2, <3>4, <4>1 DEF HeldAt
    <3>5. ReviewMoves
      BY <1>0, <3>1, <3>2, <3>3, <3>4 DEF ReviewMoves
    <3> DEFINE o == [saving[t] EXCEPT !.step = "done"]
    <3>6. o \in Saves /\ o.step # "sent" /\ o.review = saving[t].review /\ o.orphan = saving[t].orphan
      BY <1>2, OperationStep
    <3>7. saving' = [saving EXCEPT ![t] = o]
      BY <3>1
    <3> HIDE DEF o
    <3>8. HeldAt(o.review, review', reviews')
      BY <1>2, <3>4, <3>6
    <3>9. EditorOK' /\ Editor!DraftKept
      BY <1>1, <3>5, <3>6, <3>7, <3>8, ServedTab
    <3>10. Editor!OverwritesSeen
      BY <2>2, <3>2 DEF Editor!OverwritesSeen
    <3>11. QED
      BY <3>9, <3>10 DEF EditorStep
  <2>3. QED
    BY <2>1, <2>2
<1>9. QED
  BY <1>6, <1>7, <1>8

\* What is held stays one that was active, a save overwrites what was seen and a draft stays, in
\* every step.
LEMMA EditorMoves == ASSUME EditorOK, [Editor!Next]_Editor!vars PROVE EditorStep
<1>1. CASE UNCHANGED Editor!vars
  <2>1. UNCHANGED <<review, cached, reading, written, saving, seen, under, texts, reviews>>
    BY <1>1 DEF Editor!vars
  <2>2. QED
    BY <2>1 DEF EditorStep, EditorOK, Editor!OverwritesSeen, Editor!DraftKept
<1>2. ASSUME NEW t \in Windows,
             \/ Editor!Load(t) \/ Editor!Serve(t) \/ Editor!Loaded(t) \/ Editor!LoadFails(t)
             \/ Editor!Type(t) \/ Editor!Submit(t) \/ Editor!ConfirmDelete(t)
             \/ Editor!Create(t) \/ Editor!Update(t) \/ Editor!Delete(t)
             \/ Editor!Saved(t) \/ Editor!Deleted(t) \/ Editor!Fails(t)
      PROVE  EditorStep
  BY <1>2, AskStep, LoadedStep, AnsweredStep, FormStep, ServerStep
<1>3. QED
  BY <1>1, <1>2 DEF Editor!Next

LEMMA EditorInit == ASSUME Editor!Init PROVE EditorOK
<1>1. review \in AReview /\ HeldAt(review, review, reviews) /\ reviews \in Nat /\ texts = 1
  <2>1. CASE review = Editor!NoReview
    BY <2>1 DEF Editor!Init, Editor!NoReview, AReview, HeldAt
  <2>2. CASE review = [id |-> 1, version |-> 1, text |-> 1]
    BY <2>2 DEF Editor!Init, AReview, HeldAt
  <2>3. QED
    BY <2>1, <2>2 DEF Editor!Init
<1>2. /\ Editor!Unloaded \in CachedReviews /\ Editor!NoFetch \in ReviewFetches
      /\ Editor!Closed \in ReviewForms
  BY DEF CachedReviews, ReviewFetches, ReviewForms
<1>3. /\ cached = [t \in Windows |-> Editor!Unloaded] /\ reading = [t \in Windows |-> Editor!NoFetch]
      /\ written = [t \in Windows |-> Editor!Closed] /\ saving = [t \in Windows |-> Editor!NoOp]
      /\ seen = [t \in Windows |-> {}] /\ under = [t \in Windows |-> {}]
  BY DEF Editor!Init
<1>4. TabHolds(Editor!Unloaded, Editor!NoFetch, Editor!Closed, Editor!NoOp, {} \cup {}, review, reviews)
  BY DEF TabHolds, Editor!Unloaded, Editor!NoFetch, Editor!Closed, Editor!NoOp
<1>5. QED
  BY <1>1, <1>2, <1>3, <1>4 DEF EditorOK

\* The form of a review, in every tab: a save replaces a text that its form has shown, or adopted
\* under an unsaved draft, and what is typed stays until it is saved.
THEOREM EditsOfReviews ==
  Editor!Spec => [][Editor!OverwritesSeen /\ Editor!DraftKept]_Editor!vars
<1>1. Editor!Init => EditorOK
  BY EditorInit
<1>2. EditorOK /\ [Editor!Next]_Editor!vars => EditorOK' /\ Editor!OverwritesSeen /\ Editor!DraftKept
  BY EditorMoves DEF EditorStep
<1>3. QED
  BY <1>1, <1>2, PTL DEF Editor!Spec

-----------------------------------------------------------------------------
(***************************************************************************)
(* Profiles: what the page shows is stored, and what it says it saved is   *)
(* what was typed.  For every query there is a reason why the page will    *)
(* have what is stored (Covered), and a submission knows, of every field   *)
(* it does not change or has changed, that it is stored as in the form.    *)
(***************************************************************************)
AllNames == Names \cup {Profile!Row0.name}
AllHandles == Handles \cup {Profile!Row0.handle}
ProfileRows == [name : AllNames, handle : AllHandles, open : BOOLEAN, avatar : Nat]
FilledForms == [name : AllNames, handle : AllHandles, open : BOOLEAN]
Submissions ==
  [phase : {"idle"} \cup Profile!Queries, changes : SUBSET Profile!Fields,
   before : [Profile!Queries -> ProfileRows], to : FilledForms, saved : SUBSET Profile!Queries,
   served : {"no", "yes", "refused"}, answer : ProfileRows, mine : BOOLEAN, current : BOOLEAN]

ProfileTyped ==
  /\ profile \in ProfileRows /\ copies \in [Profile!Queries -> ProfileRows]
  /\ loading \in [Profile!Queries -> [open : BOOLEAN, read : BOOLEAN, row : ProfileRows]]
  /\ failed \in [Profile!Queries -> BOOLEAN] /\ fields \in FilledForms /\ submission \in Submissions
  /\ avatar \in [open : BOOLEAN, served : {"no", "yes"}, answer : ProfileRows]
  /\ avatar.served = "yes" => avatar.open
  /\ edited \subseteq Profile!Fields

\* The page has what is stored of q, or is about to load it.
Covered(q) ==
  \/ q \in behind \/ (submission.phase = q /\ submission.served = "yes") \/ submission.saved # {}
  \/ q = "profile" /\ avatar.served = "yes"
  \/ loading[q].open /\ (loading[q].read => loading[q].row = Profile!View(q, profile))
  \/ ~loading[q].open /\ (failed[q] \/ copies[q] = Profile!View(q, profile))

\* Fields that the submission leaves, and those that it has stored.
Done(f) ==
  \/ f \notin submission.changes
  \/ f \in Profile!Texts /\ (submission.phase = "settings" \/ submission.served = "yes")
  \/ submission.phase = "settings" /\ submission.served = "yes"

\* What the form is made of when the submission has ended.
Known == IF submission.served = "yes"
  THEN [submission.before EXCEPT ![submission.phase] = submission.answer] ELSE submission.before

SubmissionOK ==
  /\ submission.phase = "idle" => submission.saved = {} /\ submission.served = "no"
  /\ submission.phase # "idle" /\ submission.mine => Profile!Mounted(failed) /\ fields = submission.to
  /\ submission.phase = "settings" => "open" \in submission.changes
  /\ submission.phase # "idle" /\ submission.current =>
       \A f \in Profile!Fields : Done(f)
         => profile[f] = submission.to[f] /\ Profile!FieldsOf(Known)[f] = submission.to[f]

ProfileOK ==
  /\ ProfileTyped /\ SubmissionOK
  /\ \A q \in Profile!Queries : Covered(q)

ProfileStep == ProfileOK' /\ Profile!SavedIsTyped

LEMMA FirstRow == Profile!Row0 \in ProfileRows /\ Profile!Row0.open = TRUE
<1> DEFINE n == CHOOSE x \in Names : TRUE
           h == CHOOSE x \in Handles \ Taken : TRUE
<1>1. Profile!Row0 = [name |-> n, handle |-> h, open |-> TRUE, avatar |-> 0]
  BY DEF Profile!Row0
<1> HIDE DEF n, h
<1>2. Profile!Row0.name = n /\ Profile!Row0.handle = h
  BY <1>1
<1>3. QED
  BY <1>1, <1>2 DEF ProfileRows, AllNames, AllHandles

\* What the two queries have of a row.
LEMMA ViewsOf ==
  ASSUME NEW r \in ProfileRows
  PROVE  /\ \A q \in Profile!Queries : Profile!View(q, r) \in ProfileRows
         /\ Profile!View("profile", r).name = r.name /\ Profile!View("profile", r).handle = r.handle
         /\ Profile!View("settings", r).open = r.open
<1>1. Profile!View("profile", r) = [r EXCEPT !.open = TRUE]
  BY DEF Profile!View
<1>2. Profile!View("settings", r) = [Profile!Row0 EXCEPT !.open = r.open]
  BY DEF Profile!View
<1>3. r.open \in BOOLEAN
  BY DEF ProfileRows
<1> DEFINE o == r.open
<1>4. o \in BOOLEAN
  BY <1>3
<1> HIDE DEF o
<1>5. [Profile!Row0 EXCEPT !.open = o] \in ProfileRows /\ [Profile!Row0 EXCEPT !.open = o].open = o
  BY <1>4, FirstRow DEF ProfileRows
<1>6. [r EXCEPT !.open = TRUE] \in ProfileRows /\ [r EXCEPT !.open = TRUE].name = r.name
      /\ [r EXCEPT !.open = TRUE].handle = r.handle
  BY DEF ProfileRows
<1>7. QED
  BY <1>1, <1>2, <1>5, <1>6 DEF o, Profile!Queries

LEMMA SameViews ==
  ASSUME NEW r \in ProfileRows, NEW s \in ProfileRows
  PROVE  /\ r.name = s.name /\ r.handle = s.handle /\ r.avatar = s.avatar =>
              Profile!View("profile", r) = Profile!View("profile", s)
         /\ r.open = s.open => Profile!View("settings", r) = Profile!View("settings", s)
<1>1. ASSUME r.name = s.name, r.handle = s.handle, r.avatar = s.avatar
      PROVE  Profile!View("profile", r) = Profile!View("profile", s)
  <2>1. [r EXCEPT !.open = TRUE] = [s EXCEPT !.open = TRUE]
    BY <1>1 DEF ProfileRows
  <2>2. QED
    BY <2>1 DEF Profile!View
<1>2. ASSUME r.open = s.open PROVE Profile!View("settings", r) = Profile!View("settings", s)
  BY <1>2 DEF Profile!View
<1>3. QED
  BY <1>1, <1>2

LEMMA FieldsAre ==
  ASSUME NEW c \in [Profile!Queries -> ProfileRows]
  PROVE  /\ Profile!FieldsOf(c) \in FilledForms
         /\ Profile!FieldsOf(c).name = c["profile"].name
         /\ Profile!FieldsOf(c).handle = c["profile"].handle
         /\ Profile!FieldsOf(c).open = c["settings"].open
<1>1. c["profile"] \in ProfileRows /\ c["settings"] \in ProfileRows
  BY DEF Profile!Queries
<1> DEFINE n == c["profile"].name
           h == c["profile"].handle
           o == c["settings"].open
<1>2. n \in AllNames /\ h \in AllHandles /\ o \in BOOLEAN
  BY <1>1 DEF ProfileRows
<1>3. Profile!FieldsOf(c) = [name |-> n, handle |-> h, open |-> o]
  BY DEF Profile!FieldsOf
<1> HIDE DEF n, h, o
<1>4. Profile!FieldsOf(c) \in FilledForms /\ Profile!FieldsOf(c).name = n
      /\ Profile!FieldsOf(c).handle = h /\ Profile!FieldsOf(c).open = o
  BY <1>2, <1>3 DEF FilledForms
<1>5. QED
  BY <1>4 DEF n, h, o

\* A submission that goes on over the same row.
LEMMA SubmissionStill ==
  ASSUME SubmissionOK, submission' = submission, fields' = fields, failed' = failed,
         \A f \in Profile!Fields : profile'[f] = profile[f]
  PROVE  SubmissionOK'
  BY DEF SubmissionOK, Done, Known

LEMMA IdleTyped ==
  /\ Profile!Idle \in Submissions /\ Profile!Idle.phase = "idle" /\ Profile!Idle.saved = {}
  /\ Profile!Idle.served = "no"
<1> DEFINE b == [q \in Profile!Queries |-> Profile!Row0]
           t == Profile!FieldsOf(b)
<1>1. b \in [Profile!Queries -> ProfileRows]
  BY FirstRow
<1>2. t \in FilledForms
  BY <1>1, FieldsAre
<1>3. Profile!Idle = [phase |-> "idle", changes |-> {}, before |-> b, to |-> t, saved |-> {},
                      served |-> "no", answer |-> Profile!Row0, mine |-> TRUE, current |-> TRUE]
  BY DEF Profile!Idle
<1> HIDE DEF b, t
<1>4. QED
  BY <1>1, <1>2, <1>3, FirstRow DEF Submissions

\* Whatever has ended leaves nothing to know.
LEMMA SubmissionEnds ==
  ASSUME submission' = Profile!Idle PROVE SubmissionOK' /\ submission' \in Submissions
  BY IdleTyped DEF SubmissionOK

FetchRecords == [open : BOOLEAN, read : BOOLEAN, row : ProfileRows]

LEMMA AskedTyped ==
  /\ Profile!NoFetch \in FetchRecords /\ Profile!NoFetch.open = FALSE
  /\ Profile!Asked \in FetchRecords /\ Profile!Asked.open = TRUE /\ Profile!Asked.read = FALSE
<1> DEFINE n == Profile!NoFetch
<1>1. n \in FetchRecords /\ n.open = FALSE /\ n.read = FALSE
  BY FirstRow DEF Profile!NoFetch, FetchRecords
<1> HIDE DEF n
<1>2. /\ [n EXCEPT !.open = TRUE] \in FetchRecords /\ [n EXCEPT !.open = TRUE].open = TRUE
      /\ [n EXCEPT !.open = TRUE].read = FALSE
  BY <1>1 DEF FetchRecords
<1>3. QED
  BY <1>1, <1>2 DEF n, Profile!Asked

\* Both queries are loaded anew.
LEMMA AllAsked ==
  ASSUME loading' = Profile!Invalidated
  PROVE  /\ loading' \in [Profile!Queries -> [open : BOOLEAN, read : BOOLEAN, row : ProfileRows]]
         /\ \A q \in Profile!Queries : Covered(q)'
<1>1. Profile!Asked \in FetchRecords /\ Profile!Asked.open = TRUE /\ Profile!Asked.read = FALSE
  BY AskedTyped
<1>2. Profile!Asked \in [open : BOOLEAN, read : BOOLEAN, row : ProfileRows]
  BY <1>1 DEF FetchRecords
<1>3. \A q \in Profile!Queries : loading'[q] = Profile!Asked
  BY DEF Profile!Invalidated
<1>4. QED
  BY <1>1, <1>2, <1>3 DEF Profile!Invalidated, Covered

\* The two queries: a load begins, is read, answers, or fails.
LEMMA LoadSteps ==
  ASSUME ProfileOK, NEW p \in Profile!Queries,
         Profile!Load(p) \/ Profile!Read(p)
  PROVE  ProfileStep
<1>0. /\ loading \in [Profile!Queries -> FetchRecords] /\ profile \in ProfileRows
      /\ UNCHANGED <<profile, copies, failed, fields, submission, avatar, edited>>
  BY DEF ProfileOK, ProfileTyped, FetchRecords, Profile!Load, Profile!Read
<1>1. SubmissionOK'
  BY <1>0, SubmissionStill DEF ProfileOK
<1>2. Profile!SavedIsTyped
  BY <1>0 DEF Profile!SavedIsTyped
<1>3. CASE Profile!Load(p)
  <2>1. loading' = [loading EXCEPT ![p] = Profile!Asked] /\ UNCHANGED behind
    BY <1>3 DEF Profile!Load
  <2>2. loading' \in [Profile!Queries -> FetchRecords]
    BY <1>0, <2>1, AskedTyped
  <2>3. \A q \in Profile!Queries : Covered(q)'
    <3>1. ASSUME NEW q \in Profile!Queries PROVE Covered(q)'
      <4>1. Covered(q)
        BY DEF ProfileOK
      <4>2. CASE q = p
        BY <1>0, <2>1, <4>2, AskedTyped DEF Covered
      <4>3. CASE q # p
        <5>1. loading'[q] = loading[q]
          BY <1>0, <2>1, <4>3
        <5>2. QED
          BY <1>0, <2>1, <4>1, <5>1 DEF Covered
      <4>4. QED
        BY <4>2, <4>3
    <3>2. QED
      BY <3>1
  <2>4. QED
    BY <1>0, <1>1, <1>2, <2>2, <2>3 DEF ProfileStep, ProfileOK, ProfileTyped, FetchRecords
<1>4. CASE Profile!Read(p)
  <2> DEFINE v == Profile!View(p, profile)
             f1 == [loading[p] EXCEPT !.read = TRUE]
             f2 == [f1 EXCEPT !.row = v]
  <2>1. loading' = [loading EXCEPT ![p] = f2] /\ behind' = behind \ {p} /\ loading[p].open
    BY <1>4 DEF Profile!Read
  <2>2. v \in ProfileRows
    BY <1>0, ViewsOf
  <2>a. loading[p] \in FetchRecords
    BY <1>0
  <2> HIDE DEF v
  <2>3. f1 \in FetchRecords /\ f1.open = loading[p].open
    BY <2>a DEF FetchRecords
  <2> HIDE DEF f1
  <2>4. f2 \in FetchRecords /\ f2.row = v
    BY <2>2, <2>3 DEF FetchRecords
  <2>5. f2.open = f1.open
    BY <2>3 DEF FetchRecords
  <2> HIDE DEF f2
  <2>6. loading' \in [Profile!Queries -> FetchRecords]
    BY <1>0, <2>1, <2>4
  <2>7. ASSUME NEW q \in Profile!Queries PROVE Covered(q)'
    <3>1. Covered(q)
      BY DEF ProfileOK
    <3>2. CASE q = p
      <4>1. loading'[q] = f2 /\ f2.open /\ f2.row = Profile!View(q, profile')
        BY <1>0, <2>1, <2>3, <2>4, <2>5, <3>2 DEF v
      <4>2. QED
        BY <4>1 DEF Covered
    <3>3. CASE q # p
      <4>1. loading'[q] = loading[q] /\ (q \in behind => q \in behind')
        BY <1>0, <2>1, <3>3
      <4>2. QED
        BY <1>0, <3>1, <4>1 DEF Covered
    <3>4. QED
      BY <3>2, <3>3
  <2>8. QED
    BY <1>0, <1>1, <1>2, <2>6, <2>7 DEF ProfileStep, ProfileOK, ProfileTyped, FetchRecords
<1>5. QED
  BY <1>3, <1>4

LEMMA LoadedProfile ==
  ASSUME ProfileOK, NEW p \in Profile!Queries, Profile!Loaded(p)
  PROVE  ProfileStep
<1>0. /\ loading \in [Profile!Queries -> FetchRecords] /\ profile \in ProfileRows
      /\ copies \in [Profile!Queries -> ProfileRows] /\ failed \in [Profile!Queries -> BOOLEAN]
      /\ fields \in FilledForms
      /\ UNCHANGED <<profile, submission, avatar, behind>> /\ loading[p].open /\ loading[p].read
      /\ copies' = [copies EXCEPT ![p] = loading[p].row]
      /\ loading' = [loading EXCEPT ![p] = Profile!NoFetch] /\ failed' = [failed EXCEPT ![p] = FALSE]
  BY DEF ProfileOK, ProfileTyped, FetchRecords, Profile!Loaded
<1>1. loading[p] \in FetchRecords /\ loading[p].row \in ProfileRows
  BY <1>0 DEF FetchRecords
<1>2. /\ loading' \in [Profile!Queries -> FetchRecords] /\ copies' \in [Profile!Queries -> ProfileRows]
      /\ failed' \in [Profile!Queries -> BOOLEAN]
  BY <1>0, <1>1, AskedTyped
<1>3. \/ fields' = Profile!FieldsOf(copies') /\ ~Profile!Mounted(failed)
      \/ UNCHANGED <<fields, edited>>
  BY DEF Profile!Loaded
<1>4. fields' \in FilledForms
  BY <1>0, <1>2, <1>3, FieldsAre
<1>5. Profile!SavedIsTyped
  BY <1>3 DEF Profile!SavedIsTyped
<1>6. SubmissionOK'
  <2>1. Profile!Mounted(failed) => Profile!Mounted(failed')
    BY <1>0 DEF Profile!Mounted
  <2>2. SubmissionOK
    BY DEF ProfileOK
  <2>3. QED
    BY <1>0, <1>3, <2>1, <2>2 DEF SubmissionOK, Done, Known
<1>7. ASSUME NEW q \in Profile!Queries PROVE Covered(q)'
  <2>1. Covered(q)
    BY DEF ProfileOK
  <2>2. CASE q = p
    <3>1. loading'[q] = Profile!NoFetch /\ copies'[q] = loading[q].row
      BY <1>0, <2>2
    <3>2. QED
      BY <1>0, <2>1, <2>2, <3>1, AskedTyped DEF Covered
  <2>3. CASE q # p
    <3>1. loading'[q] = loading[q] /\ copies'[q] = copies[q] /\ failed'[q] = failed[q]
      BY <1>0, <2>3
    <3>2. QED
      BY <1>0, <2>1, <3>1 DEF Covered
  <2>4. QED
    BY <2>2, <2>3
<1>8. edited' \subseteq Profile!Fields
  BY DEF ProfileOK, ProfileTyped, Profile!Loaded
<1>9. QED
  BY <1>0, <1>2, <1>4, <1>5, <1>6, <1>7, <1>8 DEF ProfileStep, ProfileOK, ProfileTyped, FetchRecords

\* A submission that loses its form, or its hold on the row.
LEMMA SubmissionLoses ==
  ASSUME NEW o \in Submissions
  PROVE  /\ [o EXCEPT !.mine = FALSE] \in Submissions /\ [o EXCEPT !.mine = FALSE].mine = FALSE
         /\ [o EXCEPT !.current = FALSE] \in Submissions /\ [o EXCEPT !.current = FALSE].current = FALSE
         /\ \A f \in {"phase", "changes", "before", "to", "saved", "served", "answer"} :
              [o EXCEPT !.mine = FALSE][f] = o[f] /\ [o EXCEPT !.current = FALSE][f] = o[f]
         /\ [o EXCEPT !.mine = FALSE].current = o.current /\ [o EXCEPT !.current = FALSE].mine = o.mine
<1>1. [o EXCEPT !.mine = FALSE] \in Submissions /\ [o EXCEPT !.mine = FALSE].mine = FALSE
  BY DEF Submissions
<1>2. [o EXCEPT !.current = FALSE] \in Submissions /\ [o EXCEPT !.current = FALSE].current = FALSE
  BY DEF Submissions
<1>3. \A f \in {"phase", "changes", "before", "to", "saved", "served", "answer"} :
              [o EXCEPT !.mine = FALSE][f] = o[f] /\ [o EXCEPT !.current = FALSE][f] = o[f]
  BY DEF Submissions
<1>4. [o EXCEPT !.mine = FALSE].current = o.current /\ [o EXCEPT !.current = FALSE].mine = o.mine
  BY DEF Submissions
<1>5. QED
  BY <1>1, <1>2, <1>3, <1>4

LEMMA NotLoadedProfile ==
  ASSUME ProfileOK, NEW p \in Profile!Queries, Profile!NotLoaded(p)
  PROVE  ProfileStep
<1> DEFINE o == [submission EXCEPT !.mine = FALSE]
<1>0. /\ loading \in [Profile!Queries -> FetchRecords] /\ submission \in Submissions
      /\ failed \in [Profile!Queries -> BOOLEAN] /\ SubmissionOK
      /\ UNCHANGED <<profile, copies, fields, avatar, edited, behind>>
      /\ loading' = [loading EXCEPT ![p] = Profile!NoFetch] /\ failed' = [failed EXCEPT ![p] = TRUE]
      /\ submission' = IF submission.phase = "idle" THEN submission ELSE o
  BY DEF ProfileOK, ProfileTyped, FetchRecords, Profile!NotLoaded
<1>1. /\ o \in Submissions /\ o.mine = FALSE /\ o.current = submission.current
      /\ o.phase = submission.phase /\ o.changes = submission.changes /\ o.before = submission.before
         /\ o.to = submission.to
      /\ o.saved = submission.saved /\ o.served = submission.served /\ o.answer = submission.answer
  BY <1>0, SubmissionLoses
<1> HIDE DEF o
<1>2. loading' \in [Profile!Queries -> FetchRecords] /\ failed' \in [Profile!Queries -> BOOLEAN]
      /\ submission' \in Submissions
  BY <1>0, <1>1, AskedTyped
<1>3. /\ submission'.current = submission.current
      /\ submission'.phase = submission.phase /\ submission'.changes = submission.changes
         /\ submission'.before = submission.before /\ submission'.to = submission.to
      /\ submission'.saved = submission.saved /\ submission'.served = submission.served
         /\ submission'.answer = submission.answer
      /\ submission'.phase # "idle" => submission'.mine = FALSE
  BY <1>0, <1>1
<1>4. SubmissionOK'
  BY <1>0, <1>3 DEF SubmissionOK, Done, Known
<1>5. ASSUME NEW q \in Profile!Queries PROVE Covered(q)'
  <2>1. Covered(q)
    BY DEF ProfileOK
  <2>2. CASE q = p
    <3>1. loading'[q] = Profile!NoFetch /\ failed'[q] = TRUE
      BY <1>0, <2>2
    <3>2. QED
      BY <3>1, AskedTyped DEF Covered
  <2>3. CASE q # p
    <3>1. loading'[q] = loading[q] /\ failed'[q] = failed[q]
      BY <1>0, <2>3
    <3>2. QED
      BY <1>0, <1>3, <2>1, <3>1 DEF Covered
  <2>4. QED
    BY <2>2, <2>3
<1>6. Profile!SavedIsTyped
  BY <1>0 DEF Profile!SavedIsTyped
<1>7. QED
  BY <1>0, <1>2, <1>4, <1>5, <1>6 DEF ProfileStep, ProfileOK, ProfileTyped, FetchRecords

\* When nothing is in flight, the page shows what is stored.
LEMMA NothingInFlight == ASSUME ProfileOK PROVE Profile!ShownIsStored
<1>1. ASSUME submission.phase = "idle", ~avatar.open, Profile!Mounted(failed),
             \A q \in Profile!Queries : ~loading[q].open, NEW q \in Profile!Queries \ behind
      PROVE  copies[q] = Profile!View(q, profile)
  <2>1. submission.saved = {} /\ avatar.served # "yes" /\ ~failed[q] /\ ~loading[q].open
        /\ submission.phase # q
    BY <1>1 DEF ProfileOK, SubmissionOK, ProfileTyped, Profile!Mounted, Profile!Queries
  <2>2. Covered(q)
    BY DEF ProfileOK
  <2>3. QED
    BY <1>1, <2>1, <2>2 DEF Covered
<1>2. QED
  BY <1>1 DEF Profile!ShownIsStored

\* What is loaded and cached stays, and so does the row.
LEMMA CoveredStill ==
  ASSUME ProfileOK, UNCHANGED <<profile, copies, loading, failed>>, behind \subseteq behind',
         avatar.served = "yes" => avatar'.served = "yes" \/ "profile" \in behind',
         submission.served = "yes"
           => (submission'.phase = submission.phase /\ submission'.served = "yes")
           \/ submission.phase \in behind',
         submission'.saved = submission.saved
  PROVE  \A q \in Profile!Queries : Covered(q)'
<1>1. ASSUME NEW q \in Profile!Queries PROVE Covered(q)'
  <2>1. Covered(q)
    BY DEF ProfileOK
  <2>2. QED
    BY <2>1 DEF Covered
<1>2. QED
  BY <1>1

LEMMA TypeProfile ==
  ASSUME ProfileOK, NEW f \in Profile!Fields, Profile!Type(f)
  PROVE  ProfileStep
<1>0. /\ UNCHANGED <<profile, copies, loading, failed, submission, avatar, behind>>
         /\ submission.phase = "idle"
      /\ fields \in FilledForms /\ edited' = edited \cup {f} /\ SubmissionOK
  BY DEF ProfileOK, ProfileTyped, Profile!Type
<1>1. fields' \in FilledForms
  <2>1. CASE f = "name"
    <3>1. PICK v \in Names : fields' = [fields EXCEPT !["name"] = v]
      BY <2>1 DEF Profile!Type
    <3>2. QED
      BY <1>0, <3>1 DEF FilledForms, AllNames
  <2>2. CASE f = "handle"
    <3>1. PICK v \in Handles : fields' = [fields EXCEPT !["handle"] = v]
      BY <2>2 DEF Profile!Type
    <3>2. QED
      BY <1>0, <3>1 DEF FilledForms, AllHandles
  <2>3. CASE f = "open"
    <3>1. PICK v \in BOOLEAN : fields' = [fields EXCEPT !["open"] = v]
      BY <2>3 DEF Profile!Type
    <3>2. QED
      BY <1>0, <3>1 DEF FilledForms
  <2>4. QED
    BY <2>1, <2>2, <2>3 DEF Profile!Fields, Profile!Texts
<1>2. SubmissionOK'
  BY <1>0 DEF SubmissionOK
<1>3. \A q \in Profile!Queries : Covered(q)'
  BY <1>0, CoveredStill
<1>4. Profile!SavedIsTyped
  BY <1>0 DEF Profile!SavedIsTyped
<1>5. QED
  BY <1>0, <1>1, <1>2, <1>3, <1>4 DEF ProfileStep, ProfileOK, ProfileTyped

\* A submission that begins.
Begun(p, c, t, b, x) ==
  [Profile!Idle EXCEPT !.phase = p, !.changes = c, !.to = t, !.before = b, !.current = x]

Begins(p, c, t, b, x) ==
  /\ Begun(p, c, t, b, x) \in Submissions
  /\ Begun(p, c, t, b, x).phase = p /\ Begun(p, c, t, b, x).changes = c
  /\ Begun(p, c, t, b, x).to = t /\ Begun(p, c, t, b, x).before = b
  /\ Begun(p, c, t, b, x).current = x /\ Begun(p, c, t, b, x).saved = {}
  /\ Begun(p, c, t, b, x).served = "no"

LEMMA SubmissionBegins ==
  ASSUME NEW p \in Profile!Queries, NEW c \in SUBSET Profile!Fields, NEW t \in FilledForms,
         NEW b \in [Profile!Queries -> ProfileRows], NEW x \in BOOLEAN
  PROVE  Begins(p, c, t, b, x)
<1> DEFINE o1 == [Profile!Idle EXCEPT !.phase = p]
           o2 == [o1 EXCEPT !.changes = c]
           o3 == [o2 EXCEPT !.to = t]
           o4 == [o3 EXCEPT !.before = b]
           o5 == [o4 EXCEPT !.current = x]
<1>1. o1 \in Submissions /\ o1.phase = p /\ o1.saved = {} /\ o1.served = "no"
  BY IdleTyped DEF Submissions
<1> HIDE DEF o1
<1>2. o2 \in Submissions /\ o2.phase = p /\ o2.changes = c /\ o2.saved = {} /\ o2.served = "no"
  BY <1>1 DEF Submissions
<1> HIDE DEF o2
<1>3. o3 \in Submissions /\ o3.phase = p /\ o3.changes = c /\ o3.to = t /\ o3.saved = {}
      /\ o3.served = "no"
  BY <1>2 DEF Submissions
<1> HIDE DEF o3
<1>4. o4 \in Submissions /\ o4.phase = p /\ o4.changes = c /\ o4.to = t /\ o4.before = b
      /\ o4.saved = {} /\ o4.served = "no"
  BY <1>3 DEF Submissions
<1> HIDE DEF o4
<1>5. o5 \in Submissions /\ o5.phase = p /\ o5.changes = c /\ o5.to = t /\ o5.before = b
      /\ o5.current = x /\ o5.saved = {} /\ o5.served = "no"
  BY <1>4 DEF Submissions
<1> HIDE DEF o5
<1>6. Begun(p, c, t, b, x) = o5
  BY DEF Begun, o1, o2, o3, o4, o5
<1>7. QED
  BY <1>5, <1>6 DEF Begins

\* The row's fields are those of its two views.
LEMMA FieldsOfRow ==
  ASSUME ProfileTyped, NEW c \in [Profile!Queries -> ProfileRows],
         \A q \in Profile!Queries : c[q] = Profile!View(q, profile)
  PROVE  \A f \in Profile!Fields : Profile!FieldsOf(c)[f] = profile[f]
<1>1. profile \in ProfileRows
  BY DEF ProfileTyped
<1>2. c["profile"] = Profile!View("profile", profile) /\ c["settings"] = Profile!View("settings", profile)
  BY DEF Profile!Queries
<1>3. QED
  BY <1>1, <1>2, ViewsOf, FieldsAre DEF Profile!Fields, Profile!Texts

LEMMA SubmitProfile ==
  ASSUME ProfileOK, Profile!Submit
  PROVE  ProfileStep
<1> DEFINE p == IF Profile!Changes \cap Profile!Texts # {} THEN "profile" ELSE "settings"
           x == Profile!Quiet
<1>0. /\ UNCHANGED <<profile, copies, loading, failed, fields, avatar, edited, behind>>
      /\ submission.phase = "idle" /\ Profile!Mounted(failed) /\ Profile!Changes # {}
      /\ submission' = [Profile!Idle EXCEPT !.phase = p, !.changes = Profile!Changes, !.to = fields,
                                    !.before = copies, !.current = x]
  BY DEF Profile!Submit
<1>1. fields \in FilledForms /\ copies \in [Profile!Queries -> ProfileRows] /\ ProfileTyped
      /\ SubmissionOK
  BY DEF ProfileOK, ProfileTyped
<1>2. p \in Profile!Queries /\ x \in BOOLEAN /\ Profile!Changes \in SUBSET Profile!Fields
  BY DEF Profile!Queries, Profile!Quiet, Profile!Changes
<1>3. x => \A q \in Profile!Queries : copies[q] = Profile!View(q, profile)
  BY <1>0, NothingInFlight DEF Profile!Quiet, Profile!ShownIsStored
<1>4. x => \A f \in Profile!Fields : Profile!FieldsOf(copies)[f] = profile[f]
  BY <1>1, <1>3, FieldsOfRow
<1>5. p = "settings" => "open" \in Profile!Changes /\ Profile!Changes \cap Profile!Texts = {}
  BY <1>0, <1>2 DEF Profile!Fields
<1> HIDE DEF p, x
<1>6. /\ submission' \in Submissions /\ submission'.phase = p /\ submission'.changes = Profile!Changes
         /\ submission'.to = fields
      /\ submission'.before = copies /\ submission'.current = x /\ submission'.saved = {}
         /\ submission'.served = "no"
  <2>1. submission' = Begun(p, Profile!Changes, fields, copies, x)
    BY <1>0 DEF Begun
  <2>2. fields \in FilledForms /\ copies \in [Profile!Queries -> ProfileRows]
    BY <1>1
  <2>3. Begins(p, Profile!Changes, fields, copies, x)
    BY <1>2, <2>2, SubmissionBegins
  <2>4. QED
    BY <2>1, <2>3 DEF Begins
<1>7. ASSUME NEW f \in Profile!Fields, Done(f)', submission'.current
      PROVE  profile'[f] = submission'.to[f] /\ Profile!FieldsOf(Known')[f] = submission'.to[f]
  <2>1. f \notin Profile!Changes
    BY <1>5, <1>6, <1>7 DEF Done
  <2>2. fields[f] = Profile!FieldsOf(copies)[f]
    BY <2>1 DEF Profile!Changes
  <2>3. Known' = copies
    BY <1>6 DEF Known
  <2>4. QED
    BY <1>0, <1>4, <1>6, <1>7, <2>2, <2>3
<1>8. SubmissionOK'
  <2>1. submission'.phase # "idle"
    BY <1>2, <1>6 DEF Profile!Queries
  <2>2. Profile!Mounted(failed') /\ fields' = submission'.to
    BY <1>0, <1>6
  <2>3. submission'.phase = "settings" => "open" \in submission'.changes
    BY <1>5, <1>6
  <2>4. QED
    BY <1>7, <2>1, <2>2, <2>3 DEF SubmissionOK
<1>9. \A q \in Profile!Queries : Covered(q)'
  <2>1. submission.saved = {} /\ submission.served = "no"
    BY <1>0, <1>1 DEF SubmissionOK
  <2>2. QED
    BY <1>0, <1>6, <2>1, CoveredStill
<1>10. Profile!SavedIsTyped
  BY <1>0 DEF Profile!SavedIsTyped
<1>11. QED
  BY <1>0, <1>1, <1>6, <1>8, <1>9, <1>10 DEF ProfileStep, ProfileOK, ProfileTyped

\* What the service stores: the fields that change, and nothing else.
LEMMA StoredRow ==
  ASSUME ProfileOK, submission.phase # "idle"
  PROVE  /\ Profile!Stored \in ProfileRows /\ Profile!Stored.avatar = profile.avatar
         /\ \A f \in Profile!Texts :
              Profile!Stored[f] = IF submission.phase = "profile" /\ f \in submission.changes
                THEN submission.to[f] ELSE profile[f]
         /\ Profile!Stored.open =
              IF submission.phase = "settings" /\ "open" \in submission.changes THEN submission.to.open
                ELSE profile.open
<1>1. profile \in ProfileRows /\ submission \in Submissions /\ submission.to \in FilledForms
  BY DEF ProfileOK, ProfileTyped, Submissions
<1>2. DOMAIN profile = {"name", "handle", "open", "avatar"}
  BY <1>1 DEF ProfileRows
<1>3. /\ Profile!Stored.avatar = profile.avatar
      /\ \A f \in Profile!Texts :
           Profile!Stored[f] = IF submission.phase = "profile" /\ f \in submission.changes
             THEN submission.to[f] ELSE profile[f]
      /\ Profile!Stored.open =
              IF submission.phase = "settings" /\ "open" \in submission.changes THEN submission.to.open
                ELSE profile.open
  BY <1>2 DEF Profile!Stored, Profile!Texts
<1>4. /\ Profile!Stored.name \in AllNames /\ Profile!Stored.handle \in AllHandles
      /\ Profile!Stored.open \in BOOLEAN /\ Profile!Stored.avatar \in Nat
  BY <1>1, <1>3 DEF Profile!Texts, ProfileRows, FilledForms
<1>5. Profile!Stored = [f \in {"name", "handle", "open", "avatar"} |-> Profile!Stored[f]]
  BY <1>2 DEF Profile!Stored
<1>6. QED
  BY <1>3, <1>4, <1>5 DEF ProfileRows

\* A submission that is answered by the service.
ServedWith(o, a) == [o EXCEPT !.served = "yes", !.answer = a]

LEMMA SubmissionServed ==
  ASSUME NEW o \in Submissions, NEW a \in ProfileRows
  PROVE  /\ ServedWith(o, a) \in Submissions /\ ServedWith(o, a).served = "yes"
         /\ ServedWith(o, a).answer = a /\ ServedWith(o, a).phase = o.phase
         /\ ServedWith(o, a).changes = o.changes /\ ServedWith(o, a).before = o.before
         /\ ServedWith(o, a).to = o.to /\ ServedWith(o, a).saved = o.saved
         /\ ServedWith(o, a).mine = o.mine /\ ServedWith(o, a).current = o.current
<1> DEFINE o1 == [o EXCEPT !.served = "yes"]
           o2 == [o1 EXCEPT !.answer = a]
<1>1. o1 \in Submissions
  BY DEF Submissions
<1>2. /\ o1.served = "yes" /\ o1.phase = o.phase /\ o1.changes = o.changes /\ o1.before = o.before
      /\ o1.to = o.to /\ o1.saved = o.saved
  BY DEF Submissions
<1>3. o1.mine = o.mine /\ o1.current = o.current
  BY DEF Submissions
<1> HIDE DEF o1
<1>4. o2 \in Submissions /\ o2.answer = a
  BY <1>1 DEF Submissions
<1>5. /\ o2.served = o1.served /\ o2.phase = o1.phase /\ o2.changes = o1.changes
      /\ o2.before = o1.before /\ o2.to = o1.to /\ o2.saved = o1.saved
  BY <1>1 DEF Submissions
<1>6. o2.mine = o1.mine /\ o2.current = o1.current
  BY <1>1 DEF Submissions
<1> HIDE DEF o2
<1>7. ServedWith(o, a) = o2
  BY DEF ServedWith, o1, o2
<1>8. QED
  BY <1>2, <1>3, <1>4, <1>5, <1>6, <1>7

LEMMA ServeProfile ==
  ASSUME ProfileOK, Profile!Serve
  PROVE  ProfileStep
<1>0. /\ UNCHANGED <<copies, loading, failed, fields, avatar, edited, behind>>
      /\ submission.phase # "idle" /\ submission.served = "no" /\ submission \in Submissions
         /\ profile \in ProfileRows
      /\ SubmissionOK /\ ProfileTyped
  BY DEF ProfileOK, ProfileTyped, Profile!Serve
<1>1. Profile!SavedIsTyped
  BY <1>0 DEF Profile!SavedIsTyped
<1>2. CASE UNCHANGED profile /\ submission' = [submission EXCEPT !.served = "refused"]
  <2> DEFINE o == [submission EXCEPT !.served = "refused"]
  <2>1. o \in Submissions
    BY <1>0 DEF Submissions
  <2>2. /\ o.served = "refused" /\ o.phase = submission.phase /\ o.changes = submission.changes
        /\ o.before = submission.before /\ o.to = submission.to /\ o.saved = submission.saved
    BY <1>0 DEF Submissions
  <2>3. o.mine = submission.mine /\ o.current = submission.current
    BY <1>0 DEF Submissions
  <2> HIDE DEF o
  <2>4. submission' = o
    BY <1>2 DEF o
  <2>5. SubmissionOK'
    BY <1>0, <1>2, <2>2, <2>3, <2>4 DEF SubmissionOK, Done, Known
  <2>6. \A q \in Profile!Queries : Covered(q)'
    BY <1>0, <1>2, <2>2, <2>4, CoveredStill
  <2>7. QED
    BY <1>0, <1>1, <1>2, <2>1, <2>4, <2>5, <2>6 DEF ProfileStep, ProfileOK, ProfileTyped
<1>3. CASE /\ profile' = Profile!Stored
           /\ submission' = [submission EXCEPT !.served = "yes",
              !.answer = Profile!View(submission.phase, profile')]
  <2> DEFINE a == Profile!View(submission.phase, profile')
  <2>1. /\ profile' \in ProfileRows /\ profile'.avatar = profile.avatar
        /\ \A f \in Profile!Texts :
             profile'[f] = IF submission.phase = "profile" /\ f \in submission.changes
               THEN submission.to[f] ELSE profile[f]
        /\ profile'.open = IF submission.phase = "settings" /\ "open" \in submission.changes
           THEN submission.to.open ELSE profile.open
    BY <1>0, <1>3, StoredRow
  <2>2. submission.phase \in Profile!Queries
    BY <1>0 DEF Submissions
  <2>3. a \in ProfileRows
    BY <2>1, <2>2, ViewsOf
  <2>4. /\ submission.phase = "profile" => a.name = profile'.name /\ a.handle = profile'.handle
        /\ submission.phase = "settings" => a.open = profile'.open
    BY <2>1, ViewsOf
  <2>5. submission' = ServedWith(submission, a)
    BY <1>3 DEF ServedWith
  <2> HIDE DEF a
  <2>6. /\ submission' \in Submissions /\ submission'.served = "yes" /\ submission'.answer = a
           /\ submission'.phase = submission.phase
        /\ submission'.changes = submission.changes /\ submission'.before = submission.before
           /\ submission'.to = submission.to /\ submission'.saved = submission.saved
        /\ submission'.mine = submission.mine /\ submission'.current = submission.current
    BY <1>0, <2>3, <2>5, SubmissionServed
  <2>7. submission.before \in [Profile!Queries -> ProfileRows]
    BY <1>0 DEF Submissions
  <2> DEFINE k == [submission.before EXCEPT ![submission.phase] = a]
  <2>8. Known' = k /\ Known = submission.before
    BY <1>0, <2>6 DEF Known
  <2>9. k \in [Profile!Queries -> ProfileRows] /\ k[submission.phase] = a
        /\ \A q \in Profile!Queries \ {submission.phase} : k[q] = submission.before[q]
    BY <2>2, <2>3, <2>7
  <2> HIDE DEF k
  <2>10. /\ Profile!FieldsOf(k).name = k["profile"].name
            /\ Profile!FieldsOf(k).handle = k["profile"].handle
         /\ Profile!FieldsOf(k).open = k["settings"].open
         /\ Profile!FieldsOf(submission.before).name = submission.before["profile"].name
         /\ Profile!FieldsOf(submission.before).handle = submission.before["profile"].handle
         /\ Profile!FieldsOf(submission.before).open = submission.before["settings"].open
    BY <2>7, <2>9, FieldsAre
  <2>11. submission.current => \A f \in Profile!Fields : Done(f)
         => profile[f] = submission.to[f] /\ Profile!FieldsOf(submission.before)[f] = submission.to[f]
    BY <1>0, <2>8 DEF SubmissionOK
  <2>12. submission.phase = "settings" => "open" \in submission.changes
    BY <1>0 DEF SubmissionOK
  <2>13. ASSUME NEW f \in Profile!Fields, Done(f)', submission'.current
         PROVE  profile'[f] = submission'.to[f] /\ Profile!FieldsOf(Known')[f] = submission'.to[f]
    <3>1. CASE submission.phase = "profile"
      <4>1. k["profile"] = a /\ k["settings"] = submission.before["settings"]
        BY <2>9, <3>1 DEF Profile!Queries
      <4>2. CASE f \in Profile!Texts
        <5>1. f \notin submission.changes => profile[f] = submission.to[f]
          BY <2>6, <2>11, <2>13 DEF Done
        <5>2. profile'[f] = submission.to[f]
          BY <2>1, <3>1, <4>2, <5>1
        <5>3. Profile!FieldsOf(k)[f] = profile'[f]
          BY <2>4, <2>10, <3>1, <4>1, <4>2 DEF Profile!Texts
        <5>4. QED
          BY <2>6, <2>8, <5>2, <5>3
      <4>3. CASE f = "open"
        <5>1. "open" \notin submission.changes
          BY <2>6, <2>13, <3>1, <4>3 DEF Done, Profile!Texts
        <5>2. profile.open = submission.to.open
              /\ Profile!FieldsOf(submission.before).open = submission.to.open
          BY <2>6, <2>11, <2>13, <4>3, <5>1 DEF Done
        <5>3. QED
          BY <2>1, <2>6, <2>8, <2>10, <3>1, <4>1, <4>3, <5>2
      <4>4. QED
        BY <4>2, <4>3 DEF Profile!Fields
    <3>2. CASE submission.phase = "settings"
      <4>1. k["settings"] = a /\ k["profile"] = submission.before["profile"]
        BY <2>9, <3>2 DEF Profile!Queries
      <4>2. CASE f \in Profile!Texts
        <5>1. profile[f] = submission.to[f] /\ Profile!FieldsOf(submission.before)[f] = submission.to[f]
          BY <2>6, <2>11, <2>13, <3>2, <4>2 DEF Done
        <5>2. profile'[f] = profile[f]
          BY <2>1, <3>2, <4>2
        <5>3. Profile!FieldsOf(k)[f] = Profile!FieldsOf(submission.before)[f]
          BY <2>10, <4>1, <4>2 DEF Profile!Texts
        <5>4. QED
          BY <2>6, <2>8, <5>1, <5>2, <5>3
      <4>3. CASE f = "open"
        BY <2>1, <2>4, <2>6, <2>8, <2>10, <2>12, <3>2, <4>1, <4>3
      <4>4. QED
        BY <4>2, <4>3 DEF Profile!Fields
    <3>3. QED
      BY <2>2, <3>1, <3>2 DEF Profile!Queries
  <2>14. SubmissionOK'
    <3>1. submission'.phase # "idle"
          /\ (submission'.mine => Profile!Mounted(failed') /\ fields' = submission'.to)
      BY <1>0, <2>6 DEF SubmissionOK
    <3>2. QED
      BY <2>6, <2>12, <2>13, <3>1 DEF SubmissionOK
  <2>15. ASSUME NEW q \in Profile!Queries PROVE Covered(q)'
    <3>1. CASE q = submission.phase
      BY <2>6, <3>1 DEF Covered
    <3>2. CASE q # submission.phase
      <4>1. Profile!View(q, profile') = Profile!View(q, profile)
        <5>1. CASE q = "profile"
          <6>1. submission.phase = "settings"
            BY <2>2, <3>2, <5>1 DEF Profile!Queries
          <6>2. profile'.name = profile.name /\ profile'.handle = profile.handle
            BY <2>1, <6>1 DEF Profile!Texts
          <6>3. QED
            BY <1>0, <2>1, <5>1, <6>2, SameViews
        <5>2. CASE q = "settings"
          <6>1. submission.phase = "profile"
            BY <2>2, <3>2, <5>2 DEF Profile!Queries
          <6>2. QED
            BY <1>0, <2>1, <5>2, <6>1, SameViews
        <5>3. QED
          BY <5>1, <5>2 DEF Profile!Queries
      <4>2. Covered(q)
        BY DEF ProfileOK
      <4>3. QED
        BY <1>0, <2>6, <3>2, <4>1, <4>2 DEF Covered
    <3>3. QED
      BY <3>1, <3>2
  <2>16. QED
    BY <1>0, <1>1, <2>1, <2>6, <2>14, <2>15 DEF ProfileStep, ProfileOK, ProfileTyped
<1>4. QED
  BY <1>2, <1>3 DEF Profile!Serve

\* A submission that goes on to the settings.
GoesOn(o) == [o EXCEPT !.phase = "settings", !.served = "no", !.saved = {"profile"},
                       !.before.profile = o.answer]

LEMMA SubmissionGoesOn ==
  ASSUME NEW o \in Submissions
  PROVE  /\ GoesOn(o) \in Submissions /\ GoesOn(o).phase = "settings" /\ GoesOn(o).served = "no"
         /\ GoesOn(o).saved = {"profile"} /\ GoesOn(o).before = [o.before EXCEPT !["profile"] = o.answer]
         /\ GoesOn(o).changes = o.changes /\ GoesOn(o).to = o.to /\ GoesOn(o).mine = o.mine
         /\ GoesOn(o).current = o.current
<1> DEFINE b == [o.before EXCEPT !["profile"] = o.answer]
           o1 == [o EXCEPT !.phase = "settings"]
           o2 == [o1 EXCEPT !.served = "no"]
           o3 == [o2 EXCEPT !.saved = {"profile"}]
           o4 == [o3 EXCEPT !.before = b]
<1>0. b \in [Profile!Queries -> ProfileRows]
  BY DEF Submissions
<1>1. o1 \in Submissions /\ o1.phase = "settings"
  BY DEF Submissions, Profile!Queries
<1>2. o1.changes = o.changes /\ o1.to = o.to /\ o1.mine = o.mine /\ o1.current = o.current
      /\ o1.before = o.before /\ o1.answer = o.answer
  BY DEF Submissions
<1> HIDE DEF o1
<1>3. o2 \in Submissions /\ o2.served = "no" /\ o2.phase = o1.phase
  BY <1>1 DEF Submissions
<1>4. o2.changes = o1.changes /\ o2.to = o1.to /\ o2.mine = o1.mine /\ o2.current = o1.current
      /\ o2.before = o1.before /\ o2.answer = o1.answer
  BY <1>1 DEF Submissions
<1> HIDE DEF o2
<1>5. o3 \in Submissions /\ o3.saved = {"profile"} /\ o3.phase = o2.phase /\ o3.served = o2.served
  BY <1>3 DEF Submissions, Profile!Queries
<1>6. o3.changes = o2.changes /\ o3.to = o2.to /\ o3.mine = o2.mine /\ o3.current = o2.current
      /\ o3.before = o2.before /\ o3.answer = o2.answer
  BY <1>3 DEF Submissions
<1> HIDE DEF o3, b
<1>7. o4 \in Submissions /\ o4.before = b /\ o4.phase = o3.phase /\ o4.served = o3.served
      /\ o4.saved = o3.saved
  BY <1>0, <1>5 DEF Submissions
<1>8. o4.changes = o3.changes /\ o4.to = o3.to /\ o4.mine = o3.mine /\ o4.current = o3.current
  BY <1>5 DEF Submissions
<1> HIDE DEF o4
<1>9. GoesOn(o) = o4
  <2>1. o3.before = o.before
    BY <1>2, <1>4, <1>6
  <2>2. [o3 EXCEPT !["before"]["profile"] = o.answer] = [o3 EXCEPT !["before"] = b]
    BY <1>5, <2>1 DEF b, Submissions
  <2>3. QED
    BY <2>2 DEF GoesOn, o1, o2, o3, o4
<1>10. QED
  BY <1>1, <1>2, <1>3, <1>4, <1>5, <1>6, <1>7, <1>8, <1>9 DEF b

LEMMA AnsweredProfile ==
  ASSUME ProfileOK, Profile!Answered
  PROVE  ProfileStep
<1>0. /\ UNCHANGED <<profile, failed, avatar, behind>> /\ submission.served = "yes"
      /\ copies' = [copies EXCEPT ![submission.phase] = submission.answer] /\ submission \in Submissions
      /\ copies \in [Profile!Queries -> ProfileRows] /\ profile \in ProfileRows
      /\ SubmissionOK /\ ProfileTyped
  BY DEF ProfileOK, ProfileTyped, Profile!Answered
<1>1. /\ submission.phase # "idle" /\ submission.phase \in Profile!Queries
         /\ submission.answer \in ProfileRows
      /\ submission.before \in [Profile!Queries -> ProfileRows]
         /\ submission.changes \subseteq Profile!Fields
  BY <1>0 DEF SubmissionOK, Submissions
<1>2. copies' \in [Profile!Queries -> ProfileRows]
  BY <1>0, <1>1
<1> DEFINE k == [submission.before EXCEPT ![submission.phase] = submission.answer]
<1>3. Known = k
  BY <1>0 DEF Known
<1>4. submission.current => \A f \in Profile!Fields : Done(f)
      => profile[f] = submission.to[f] /\ Profile!FieldsOf(k)[f] = submission.to[f]
  BY <1>0, <1>1, <1>3 DEF SubmissionOK
<1>a. k \in [Profile!Queries -> ProfileRows]
  BY <1>1
<1>5. CASE submission.phase = "profile" /\ "open" \in submission.changes
  <2>1. submission' = GoesOn(submission) /\ UNCHANGED <<loading, fields, edited>>
    BY <1>5 DEF Profile!Answered, GoesOn
  <2>2. /\ submission' \in Submissions /\ submission'.phase = "settings" /\ submission'.served = "no"
           /\ submission'.saved = {"profile"}
        /\ submission'.before = k /\ submission'.changes = submission.changes
           /\ submission'.to = submission.to /\ submission'.mine = submission.mine
        /\ submission'.current = submission.current
    BY <1>0, <1>5, <2>1, SubmissionGoesOn
  <2> HIDE DEF k
  <2>3. Known' = k
    BY <2>2 DEF Known
  <2>4. ASSUME NEW f \in Profile!Fields, Done(f)', submission'.current
        PROVE  profile'[f] = submission'.to[f] /\ Profile!FieldsOf(Known')[f] = submission'.to[f]
    <3>1. Done(f)
      BY <1>0, <1>5, <2>2, <2>4 DEF Done
    <3>2. QED
      BY <1>0, <1>4, <2>2, <2>3, <2>4, <3>1
  <2>5. SubmissionOK'
    <3>1. submission'.phase # "idle"
          /\ (submission'.mine => Profile!Mounted(failed') /\ fields' = submission'.to)
      BY <1>0, <1>1, <2>1, <2>2 DEF SubmissionOK
    <3>2. QED
      BY <1>5, <2>2, <2>4, <3>1 DEF SubmissionOK
  <2>6. \A q \in Profile!Queries : Covered(q)'
    BY <2>2 DEF Covered
  <2>7. Profile!SavedIsTyped
    BY <2>1 DEF Profile!SavedIsTyped
  <2>8. QED
    BY <1>0, <1>2, <2>1, <2>2, <2>5, <2>6, <2>7 DEF ProfileStep, ProfileOK, ProfileTyped
<1>6. CASE ~(submission.phase = "profile" /\ "open" \in submission.changes)
  <2>1. /\ submission' = Profile!Idle /\ loading' = Profile!Invalidated
        /\ IF submission.mine THEN fields' = Profile!FieldsOf(k) /\ edited' = {}
           ELSE UNCHANGED <<fields, edited>>
    BY <1>6 DEF Profile!Answered
  <2>2. SubmissionOK' /\ submission' \in Submissions
    BY <2>1, SubmissionEnds
  <2>3. /\ loading' \in [Profile!Queries -> [open : BOOLEAN, read : BOOLEAN, row : ProfileRows]]
        /\ \A q \in Profile!Queries : Covered(q)'
    BY <2>1, AllAsked
  <2>4. fields' \in FilledForms
    BY <1>0, <1>a, <2>1, FieldsAre DEF ProfileTyped
  <2>5. \A f \in Profile!Fields : Done(f)
    BY <1>0, <1>1, <1>6 DEF Done, Profile!Queries, Profile!Fields
  <2>6. Profile!SavedIsTyped
    <3>1. CASE submission.mine /\ submission.current
      <4>1. fields = submission.to /\ fields' = Profile!FieldsOf(k)
        BY <1>0, <1>1, <2>1, <3>1 DEF SubmissionOK
      <4>2. \A f \in Profile!Fields : profile[f] = fields[f] /\ fields'[f] = fields[f]
        BY <1>4, <2>5, <3>1, <4>1
      <4>3. edited \subseteq Profile!Fields
        BY <1>0 DEF ProfileTyped
      <4>4. QED
        BY <4>2, <4>3 DEF Profile!SavedIsTyped
    <3>2. CASE ~(submission.mine /\ submission.current)
      BY <2>1, <3>2 DEF Profile!SavedIsTyped
    <3>3. QED
      BY <3>1, <3>2
  <2>6a. edited' \subseteq Profile!Fields
    BY <1>0, <2>1 DEF ProfileTyped
  <2>7. QED
    BY <1>0, <1>2, <2>1, <2>2, <2>3, <2>4, <2>6, <2>6a DEF ProfileStep, ProfileOK, ProfileTyped
<1>7. QED
  BY <1>5, <1>6

\* Errors.
LEMMA EndsProfile ==
  ASSUME ProfileOK, Profile!Refused \/ Profile!NoAnswer
  PROVE  ProfileStep
<1>0. /\ UNCHANGED <<profile, copies, failed, fields, avatar, edited>> /\ submission' = Profile!Idle
      /\ loading' = IF submission.saved # {} THEN Profile!Invalidated ELSE loading
      /\ SubmissionOK /\ ProfileTyped /\ behind \subseteq behind'
      /\ submission.served = "yes" => submission.phase \in behind'
  BY DEF ProfileOK, Profile!Refused, Profile!NoAnswer, Profile!EndInError
<1>1. SubmissionOK' /\ submission' \in Submissions
  BY <1>0, SubmissionEnds
<1>2. Profile!SavedIsTyped
  BY <1>0 DEF Profile!SavedIsTyped
<1>3. CASE submission.saved # {}
  <2>1. /\ loading' \in [Profile!Queries -> [open : BOOLEAN, read : BOOLEAN, row : ProfileRows]]
        /\ \A q \in Profile!Queries : Covered(q)'
    BY <1>0, <1>3, AllAsked
  <2>2. QED
    BY <1>0, <1>1, <1>2, <2>1 DEF ProfileStep, ProfileOK, ProfileTyped
<1>4. CASE submission.saved = {}
  <2>1. submission'.saved = submission.saved /\ UNCHANGED loading
    BY <1>0, <1>4, IdleTyped
  <2>2. \A q \in Profile!Queries : Covered(q)'
    BY <1>0, <2>1, CoveredStill
  <2>3. QED
    BY <1>0, <1>1, <1>2, <2>1, <2>2 DEF ProfileStep, ProfileOK, ProfileTyped
<1>5. QED
  BY <1>3, <1>4

\* The avatar.
AvatarRecords == [open : BOOLEAN, served : {"no", "yes"}, answer : ProfileRows]

LEMMA AvatarsAre ==
  /\ Profile!NoAvatar \in AvatarRecords /\ Profile!NoAvatar.served = "no"
  /\ [Profile!NoAvatar EXCEPT !.open = TRUE] \in AvatarRecords
  /\ [Profile!NoAvatar EXCEPT !.open = TRUE].served = "no"
<1> DEFINE n == Profile!NoAvatar
<1>1. n \in AvatarRecords /\ n.served = "no"
  BY FirstRow DEF Profile!NoAvatar, AvatarRecords
<1> HIDE DEF n
<1>2. [n EXCEPT !.open = TRUE] \in AvatarRecords /\ [n EXCEPT !.open = TRUE].served = "no"
  BY <1>1 DEF AvatarRecords
<1>3. QED
  BY <1>1, <1>2 DEF n

LEMMA AvatarServed ==
  ASSUME NEW v \in AvatarRecords, NEW a \in ProfileRows, v.open
  PROVE  /\ [v EXCEPT !.served = "yes", !.answer = a] \in AvatarRecords
         /\ [v EXCEPT !.served = "yes", !.answer = a].served = "yes"
         /\ [v EXCEPT !.served = "yes", !.answer = a].open
<1> DEFINE v1 == [v EXCEPT !.served = "yes"]
           v2 == [v1 EXCEPT !.answer = a]
<1>1. v1 \in AvatarRecords /\ v1.served = "yes"
  BY DEF AvatarRecords
<1>2. v1.open = v.open
  BY DEF AvatarRecords
<1> HIDE DEF v1
<1>3. v2 \in AvatarRecords /\ v2.served = v1.served
  BY <1>1 DEF AvatarRecords
<1>4. v2.open = v1.open
  BY <1>1 DEF AvatarRecords
<1> HIDE DEF v2
<1>5. [v EXCEPT !.served = "yes", !.answer = a] = v2
  BY DEF v1, v2
<1>6. QED
  BY <1>1, <1>2, <1>3, <1>4, <1>5

LEMMA AvatarProfile ==
  ASSUME ProfileOK,
         \/ Profile!ChangeAvatar \/ Profile!ServeAvatar
         \/ Profile!AvatarAnswered \/ Profile!AvatarFails
  PROVE  ProfileStep
<1>0. /\ UNCHANGED <<failed, fields, submission, edited>> /\ ProfileTyped /\ SubmissionOK
      /\ profile \in ProfileRows /\ avatar \in AvatarRecords
  BY DEF ProfileOK, ProfileTyped, AvatarRecords, Profile!ChangeAvatar, Profile!ServeAvatar,
         Profile!AvatarAnswered, Profile!AvatarFails
<1>1. Profile!SavedIsTyped
  BY <1>0 DEF Profile!SavedIsTyped
<1>2. CASE Profile!ChangeAvatar
  <2>1. /\ avatar' = [Profile!NoAvatar EXCEPT !.open = TRUE] /\ ~avatar.open
        /\ UNCHANGED <<profile, copies, loading, behind>>
    BY <1>2 DEF Profile!ChangeAvatar
  <2>2. avatar.served # "yes"
    BY <1>0, <2>1 DEF ProfileTyped
  <2>3. \A q \in Profile!Queries : Covered(q)'
    BY <1>0, <2>1, <2>2, CoveredStill
  <2>4. SubmissionOK'
    BY <1>0, <2>1, SubmissionStill
  <2>5. avatar' \in AvatarRecords /\ avatar'.served # "yes"
    BY <2>1, AvatarsAre
  <2>6. QED
    BY <1>0, <1>1, <2>1, <2>3, <2>4, <2>5 DEF ProfileStep, ProfileOK, ProfileTyped, AvatarRecords
<1>3. CASE Profile!ServeAvatar
  <2> DEFINE n == profile.avatar + 1
             a == Profile!View("profile", profile')
  <2>1. /\ profile' = [profile EXCEPT !.avatar = n] /\ avatar.open
        /\ avatar' = [avatar EXCEPT !.served = "yes", !.answer = a]
        /\ UNCHANGED <<copies, loading, behind>>
    BY <1>3 DEF Profile!ServeAvatar
  <2>2. n \in Nat
    BY <1>0 DEF ProfileRows
  <2> HIDE DEF n
  <2>3. /\ profile' \in ProfileRows /\ profile'.name = profile.name /\ profile'.handle = profile.handle
        /\ profile'.open = profile.open
    BY <1>0, <2>1, <2>2 DEF ProfileRows
  <2>4. a \in ProfileRows
    BY <2>3, ViewsOf DEF Profile!Queries
  <2> HIDE DEF a
  <2>5. avatar' \in AvatarRecords /\ avatar'.served = "yes" /\ avatar'.open
    BY <1>0, <2>1, <2>4, AvatarServed
  <2>6. SubmissionOK'
    BY <1>0, <2>3, SubmissionStill DEF Profile!Fields, Profile!Texts
  <2>7. ASSUME NEW q \in Profile!Queries PROVE Covered(q)'
    <3>1. CASE q = "profile"
      BY <2>5, <3>1 DEF Covered
    <3>2. CASE q = "settings"
      <4>1. Profile!View(q, profile') = Profile!View(q, profile)
        BY <1>0, <2>3, <3>2, SameViews
      <4>2. Covered(q)
        BY DEF ProfileOK
      <4>3. QED
        BY <1>0, <2>1, <3>2, <4>1, <4>2 DEF Covered
    <3>3. QED
      BY <3>1, <3>2 DEF Profile!Queries
  <2>8. QED
    BY <1>0, <1>1, <2>1, <2>3, <2>5, <2>6, <2>7 DEF ProfileStep, ProfileOK, ProfileTyped,
       AvatarRecords
<1>4. CASE Profile!AvatarAnswered
  <2>1. /\ avatar' = Profile!NoAvatar /\ copies' = [copies EXCEPT !["profile"] = avatar.answer]
        /\ loading' = Profile!Invalidated /\ UNCHANGED <<profile, behind>>
    BY <1>4 DEF Profile!AvatarAnswered
  <2>2. copies' \in [Profile!Queries -> ProfileRows]
    BY <1>0, <2>1 DEF ProfileTyped, AvatarRecords
  <2>3. /\ loading' \in [Profile!Queries -> [open : BOOLEAN, read : BOOLEAN, row : ProfileRows]]
        /\ \A q \in Profile!Queries : Covered(q)'
    BY <2>1, AllAsked
  <2>4. SubmissionOK'
    BY <1>0, <2>1, SubmissionStill
  <2>5. avatar' \in AvatarRecords /\ avatar'.served # "yes"
    BY <2>1, AvatarsAre
  <2>6. QED
    BY <1>0, <1>1, <2>1, <2>2, <2>3, <2>4, <2>5
    DEF ProfileStep, ProfileOK, ProfileTyped, AvatarRecords
<1>5. CASE Profile!AvatarFails
  <2>1. /\ avatar' = Profile!NoAvatar /\ UNCHANGED <<profile, copies, loading>>
           /\ behind \subseteq behind'
        /\ avatar.served = "yes" => "profile" \in behind'
    BY <1>5 DEF Profile!AvatarFails
  <2>2. \A q \in Profile!Queries : Covered(q)'
    BY <1>0, <2>1, CoveredStill
  <2>3. SubmissionOK'
    BY <1>0, <2>1, SubmissionStill
  <2>4. avatar' \in AvatarRecords /\ avatar'.served # "yes"
    BY <2>1, AvatarsAre
  <2>5. QED
    BY <1>0, <1>1, <2>1, <2>2, <2>3, <2>4 DEF ProfileStep, ProfileOK, ProfileTyped, AvatarRecords
<1>6. QED
  BY <1>2, <1>3, <1>4, <1>5

\* Another tab changes the row, and the submission's hold on it is gone.
LEMMA ElsewhereProfile ==
  ASSUME ProfileOK, Profile!Elsewhere
  PROVE  ProfileStep
<1> DEFINE o == [submission EXCEPT !.current = FALSE]
<1>0. /\ UNCHANGED <<copies, loading, failed, fields, avatar, edited>> /\ ProfileTyped /\ SubmissionOK
      /\ profile \in ProfileRows /\ submission \in Submissions /\ submission' = o
  BY DEF ProfileOK, ProfileTyped, Profile!Elsewhere
<1>1. /\ o \in Submissions /\ o.current = FALSE /\ o.mine = submission.mine
      /\ o.phase = submission.phase /\ o.changes = submission.changes /\ o.to = submission.to
         /\ o.saved = submission.saved
      /\ o.served = submission.served
  BY <1>0, SubmissionLoses
<1> HIDE DEF o
<1>2. SubmissionOK'
  BY <1>0, <1>1 DEF SubmissionOK
<1>3. Profile!SavedIsTyped
  BY <1>0 DEF Profile!SavedIsTyped
\* One query is behind, and the other has what it had.
<1>4. ASSUME NEW p \in Profile!Queries, behind' = behind \cup {p}, profile' \in ProfileRows,
             \A q \in Profile!Queries \ {p} : Profile!View(q, profile') = Profile!View(q, profile)
      PROVE  ProfileStep
  <2>1. ASSUME NEW q \in Profile!Queries PROVE Covered(q)'
    <3>1. CASE q = p
      BY <1>4, <3>1 DEF Covered
    <3>2. CASE q # p
      <4>1. Profile!View(q, profile') = Profile!View(q, profile) /\ Covered(q)
        BY <1>4, <3>2 DEF ProfileOK
      <4>2. QED
        BY <1>0, <1>1, <1>4, <4>1 DEF Covered
    <3>3. QED
      BY <3>1, <3>2
  <2>2. QED
    BY <1>0, <1>1, <1>2, <1>3, <1>4, <2>1 DEF ProfileStep, ProfileOK, ProfileTyped
<1>5. ASSUME NEW n \in Names, profile' = [profile EXCEPT !.name = n], behind' = behind \cup {"profile"}
      PROVE  ProfileStep
  <2>1. n \in AllNames
    BY DEF AllNames
  <2>2. profile' \in ProfileRows /\ profile'.open = profile.open
    BY <1>0, <1>5, <2>1 DEF ProfileRows
  <2>3. \A q \in Profile!Queries \ {"profile"} : Profile!View(q, profile') = Profile!View(q, profile)
    BY <1>0, <2>2, SameViews DEF Profile!Queries
  <2>4. QED
    BY <1>4, <1>5, <2>2, <2>3 DEF Profile!Queries
<1>6. ASSUME profile' = [profile EXCEPT !.open = ~profile.open], behind' = behind \cup {"settings"}
      PROVE  ProfileStep
  <2> DEFINE b == ~profile.open
  <2>1. b \in BOOLEAN
    OBVIOUS
  <2>2. profile' = [profile EXCEPT !.open = b]
    BY <1>6
  <2> HIDE DEF b
  <2>3. /\ profile' \in ProfileRows /\ profile'.name = profile.name /\ profile'.handle = profile.handle
        /\ profile'.avatar = profile.avatar
    BY <1>0, <2>1, <2>2 DEF ProfileRows
  <2>4. \A q \in Profile!Queries \ {"settings"} : Profile!View(q, profile') = Profile!View(q, profile)
    BY <1>0, <2>3, SameViews DEF Profile!Queries
  <2>5. QED
    BY <1>4, <1>6, <2>3, <2>4 DEF Profile!Queries
<1>7. QED
  BY <1>5, <1>6 DEF Profile!Elsewhere

LEMMA ProfileInit == ASSUME Profile!Init PROVE ProfileOK
<1>1. profile = Profile!Row0 /\ submission = Profile!Idle /\ avatar = Profile!NoAvatar /\ edited = {}
      /\ copies = [q \in Profile!Queries |-> Profile!View(q, profile)]
      /\ loading = [q \in Profile!Queries |-> Profile!NoFetch]
      /\ failed = [q \in Profile!Queries |-> FALSE] /\ fields = Profile!FieldsOf(copies)
  BY DEF Profile!Init
<1>2. profile \in ProfileRows
  BY <1>1, FirstRow
<1>3. copies \in [Profile!Queries -> ProfileRows]
  BY <1>1, <1>2, ViewsOf
<1>4. fields \in FilledForms
  BY <1>1, <1>3, FieldsAre
<1>5. loading \in [Profile!Queries -> FetchRecords]
  BY <1>1, AskedTyped
<1>6. avatar \in AvatarRecords /\ avatar.served # "yes"
  BY <1>1, AvatarsAre
<1>7. ProfileTyped
  BY <1>1, <1>2, <1>3, <1>4, <1>5, <1>6, IdleTyped DEF ProfileTyped, FetchRecords, AvatarRecords
<1>8. SubmissionOK
  BY <1>1, IdleTyped DEF SubmissionOK
<1>9. \A q \in Profile!Queries : Covered(q)
  BY <1>1, AskedTyped DEF Covered
<1>10. QED
  BY <1>7, <1>8, <1>9 DEF ProfileOK

LEMMA ProfileMoves == ASSUME ProfileOK, [Profile!Next]_Profile!vars PROVE ProfileStep
<1>1. CASE UNCHANGED Profile!vars
  <2>1. UNCHANGED <<profile, copies, loading, failed, fields, submission, avatar, edited, behind>>
    BY <1>1 DEF Profile!vars
  <2>2. ProfileTyped'
    BY <2>1 DEF ProfileOK, ProfileTyped
  <2>3. SubmissionOK'
    BY <2>1, SubmissionStill DEF ProfileOK
  <2>4. \A q \in Profile!Queries : Covered(q)'
    BY <2>1, CoveredStill
  <2>5. Profile!SavedIsTyped
    BY <2>1 DEF Profile!SavedIsTyped
  <2>6. QED
    BY <2>2, <2>3, <2>4, <2>5 DEF ProfileStep, ProfileOK
<1>2. ASSUME NEW q \in Profile!Queries,
             Profile!Load(q) \/ Profile!Read(q) \/ Profile!Loaded(q) \/ Profile!NotLoaded(q)
      PROVE  ProfileStep
  BY <1>2, LoadSteps, LoadedProfile, NotLoadedProfile
<1>3. ASSUME NEW f \in Profile!Fields, Profile!Type(f) PROVE ProfileStep
  BY <1>3, TypeProfile
<1>4. CASE Profile!Submit \/ Profile!Serve \/ Profile!Answered \/ Profile!Refused \/ Profile!NoAnswer
  BY <1>4, SubmitProfile, ServeProfile, AnsweredProfile, EndsProfile
<1>5. CASE Profile!ChangeAvatar \/ Profile!ServeAvatar \/ Profile!AvatarAnswered \/ Profile!AvatarFails
  BY <1>5, AvatarProfile
<1>6. CASE Profile!Elsewhere
  BY <1>6, ElsewhereProfile
<1>7. QED
  BY <1>1, <1>2, <1>3, <1>4, <1>5, <1>6 DEF Profile!Next

\* The page of the own profile: when nothing is in flight it shows what is stored, in whatever
\* order the answers of the form, of the avatar and of the loads arrived, unless a change was made
\* elsewhere or an answer was lost.
THEOREM ProfileShownIsStored == Profile!Spec => []Profile!ShownIsStored
<1>1. Profile!Init => ProfileOK
  BY ProfileInit
<1>2. ProfileOK /\ [Profile!Next]_Profile!vars => ProfileOK'
  BY ProfileMoves DEF ProfileStep
<1>3. ProfileOK => Profile!ShownIsStored
  BY NothingInFlight
<1>4. QED
  BY <1>1, <1>2, <1>3, PTL DEF Profile!Spec

\* When the form says that it saved, every field that was typed is stored as typed, also those of
\* an earlier submission that failed half-way or was refused.
THEOREM ProfileSavedIsTyped == Profile!Spec => [][Profile!SavedIsTyped]_Profile!vars
<1>1. Profile!Init => ProfileOK
  BY ProfileInit
<1>2. ProfileOK /\ [Profile!Next]_Profile!vars => ProfileOK' /\ Profile!SavedIsTyped
  BY ProfileMoves DEF ProfileStep
<1>3. QED
  BY <1>1, <1>2, PTL DEF Profile!Spec
================================================================================

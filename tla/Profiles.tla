------------------------------ MODULE Profiles ------------------------------
(***************************************************************************)
(* The page where a user changes the own profile (pages/profile): a form   *)
(* that saves name and address, then the visibility of the lists, and an   *)
(* editor of the avatar beside it, over two cached queries that every      *)
(* change answers into and invalidates; and the service that stores them   *)
(* (profile.service, profile.repository), where an address belongs to one  *)
(* user.  Another tab may change the profile, and any request may fail,    *)
(* before it is served or after.                                           *)
(*                                                                         *)
(* The name stands for the name and the description, one list for both.    *)
(* A form that is drawn again after an error of the page sends nothing     *)
(* before the submission of the old one has ended.                         *)
(***************************************************************************)
EXTENDS Integers, FiniteSets

CONSTANTS Names, Handles,
          Taken,        \* handles of other users
          MaxTyped,     \* bound: fields the user changes
          MaxSends,     \* bound: submissions, and avatars
          MaxOthers,    \* bound: changes of another tab
          MaxFaults     \* bound: requests that fail

VARIABLES
  row,       \* the user's row
  cached,    \* the page's profile and settings
  fetch,     \* loads of the two in progress
  failed,    \* which of the two is in error: the page shows only that
  form,      \* the fields of the form
  op,        \* the submission in progress
  avatar,    \* the avatar being saved
  edited,    \* fields that were typed and not yet saved
  behind,    \* queries whose data the page cannot know to be old
  sends, typed, others, faults

vars == <<row, cached, fetch, failed, form, op, avatar, edited, behind,
          sends, typed, others, faults>>

Queries == {"profile", "settings"}
Texts == {"name", "handle"}                  \* ProfileTextField
Fields == Texts \cup {"open"}                \* ProfileFormFields

Row0 == [name |-> CHOOSE n \in Names : TRUE, handle |-> CHOOSE h \in Handles \ Taken : TRUE,
         open |-> TRUE, avatar |-> 0]

\* What each query has of the row: PrivateProfile and ProfileSettings.
View(q, r) == IF q = "profile" THEN [r EXCEPT !.open = TRUE] ELSE [Row0 EXCEPT !.open = r.open]

NoFetch == [open |-> FALSE, read |-> FALSE, row |-> Row0]
Asked == [NoFetch EXCEPT !.open = TRUE]
NoAvatar == [open |-> FALSE, served |-> "no", answer |-> Row0]

Mounted(f) == \A q \in Queries : ~f[q]
FieldsOf(c) == [name |-> c.profile.name, handle |-> c.profile.handle,
                open |-> c.settings.open]      \* createProfileFormFields

Idle == [phase |-> "idle", changes |-> {}, before |-> [q \in Queries |-> Row0],
         to |-> FieldsOf([q \in Queries |-> Row0]), saved |-> {}, served |-> "no",
         answer |-> Row0, mine |-> TRUE, current |-> TRUE]

\* createProfileChanges: what differs from the data the page has.
Changes == {f \in Fields : form[f] # FieldsOf(cached)[f]}

\* invalidateAfterSocialMutation: both are loaded anew, and loads in progress are cancelled.
Invalidated == [q \in Queries |-> Asked]

Init ==
  /\ row = Row0
  /\ cached = [q \in Queries |-> View(q, row)]
  /\ fetch = [q \in Queries |-> NoFetch] /\ failed = [q \in Queries |-> FALSE]
  /\ form = FieldsOf(cached) /\ op = Idle /\ avatar = NoAvatar /\ edited = {}
  /\ behind = {} /\ sends = 0 /\ typed = 0 /\ others = 0 /\ faults = 0

Fault == faults < MaxFaults /\ faults' = faults + 1

-----------------------------------------------------------------------------
\* The two queries.
Load(q) ==
  /\ ~fetch[q].open /\ (failed[q] \/ q \in behind)
  /\ fetch' = [fetch EXCEPT ![q] = Asked]
  /\ UNCHANGED <<row, cached, failed, form, op, avatar, edited, behind, sends, typed,
                 others, faults>>

Read(q) ==
  /\ fetch[q].open /\ ~fetch[q].read
  /\ fetch' = [fetch EXCEPT ![q].read = TRUE, ![q].row = View(q, row)]
  /\ behind' = behind \ {q}
  /\ UNCHANGED <<row, cached, failed, form, op, avatar, edited, sends, typed, others,
                 faults>>

\* The form is made again when the page has both after an error.
Loaded(q) ==
  /\ fetch[q].open /\ fetch[q].read
  /\ cached' = [cached EXCEPT ![q] = fetch[q].row]
  /\ fetch' = [fetch EXCEPT ![q] = NoFetch] /\ failed' = [failed EXCEPT ![q] = FALSE]
  /\ IF Mounted(failed') /\ ~Mounted(failed)
     THEN form' = FieldsOf(cached') /\ edited' = {}
     ELSE UNCHANGED <<form, edited>>
  /\ UNCHANGED <<row, op, avatar, behind, sends, typed, others, faults>>

\* The page shows an error in place of the form, whatever was typed there.
NotLoaded(q) ==
  /\ fetch[q].open /\ Fault
  /\ fetch' = [fetch EXCEPT ![q] = NoFetch] /\ failed' = [failed EXCEPT ![q] = TRUE]
  /\ op' = IF op.phase = "idle" THEN op ELSE [op EXCEPT !.mine = FALSE]
  /\ UNCHANGED <<row, cached, form, avatar, edited, behind, sends, typed, others>>

-----------------------------------------------------------------------------
\* The form.
Type(f) ==
  /\ Mounted(failed) /\ op.phase = "idle" /\ typed < MaxTyped /\ typed' = typed + 1
  /\ \E v \in CASE f = "name" -> Names [] f = "handle" -> Handles [] OTHER -> BOOLEAN :
       v # form[f] /\ form' = [form EXCEPT ![f] = v]
  /\ edited' = edited \cup {f}
  /\ UNCHANGED <<row, cached, fetch, failed, op, avatar, behind, sends, others, faults>>

Quiet == /\ \A q \in Queries : ~fetch[q].open
         /\ ~avatar.open /\ behind = {}

\* handleSubmit: the profile first, when it changes, then the settings.
Submit ==
  /\ Mounted(failed) /\ op.phase = "idle" /\ Changes # {}
  /\ sends < MaxSends /\ sends' = sends + 1
  /\ op' = [Idle EXCEPT !.phase = IF Changes \cap Texts # {} THEN "profile" ELSE "settings",
                        !.changes = Changes, !.to = form, !.before = cached,
                        !.current = Quiet]
  /\ UNCHANGED <<row, cached, fetch, failed, form, avatar, edited, behind, typed,
                 others, faults>>

\* The service updates the named columns; the index on handles refuses a taken one.
Stored == [f \in DOMAIN row |->
             IF \/ op.phase = "profile" /\ f \in op.changes \cap Texts
                \/ op.phase = "settings" /\ f \in op.changes \cap {"open"}
             THEN op.to[f] ELSE row[f]]

Serve ==
  /\ op.phase # "idle" /\ op.served = "no"
  /\ IF Stored.handle \in Taken
     THEN op' = [op EXCEPT !.served = "refused"] /\ UNCHANGED row
     ELSE row' = Stored /\ op' = [op EXCEPT !.served = "yes", !.answer = View(op.phase, row')]
  /\ UNCHANGED <<cached, fetch, failed, form, avatar, edited, behind, sends, typed,
                 others, faults>>

\* An answer goes into the query; then come the settings, or the end.
Answered ==
  /\ op.served = "yes" /\ cached' = [cached EXCEPT ![op.phase] = op.answer]
  /\ IF op.phase = "profile" /\ "open" \in op.changes
     THEN /\ op' = [op EXCEPT !.phase = "settings", !.served = "no",
                              !.saved = {"profile"}, !.before.profile = op.answer]
          /\ UNCHANGED <<fetch, form, edited>>
     ELSE /\ op' = Idle /\ fetch' = Invalidated
          /\ IF op.mine
             THEN form' = FieldsOf([op.before EXCEPT ![op.phase] = op.answer]) /\ edited' = {}
             ELSE UNCHANGED <<form, edited>>
  /\ UNCHANGED <<row, failed, avatar, behind, sends, typed, others, faults>>

\* An error leaves the fields; what was saved before it is loaded anew.
EndInError ==
  /\ op' = Idle
  /\ fetch' = IF op.saved # {} THEN Invalidated ELSE fetch
  /\ UNCHANGED <<row, cached, failed, form, avatar, edited, sends, typed, others>>

Refused == op.served = "refused" /\ EndInError /\ UNCHANGED <<behind, faults>>

NoAnswer ==
  /\ op.phase # "idle" /\ op.served # "refused" /\ Fault /\ EndInError
  /\ behind' = IF op.served = "yes" THEN behind \cup {op.phase} ELSE behind

-----------------------------------------------------------------------------
\* The editor of the avatar: upload or delete.
ChangeAvatar ==
  /\ Mounted(failed) /\ ~avatar.open /\ sends < MaxSends /\ sends' = sends + 1
  /\ avatar' = [NoAvatar EXCEPT !.open = TRUE]
  /\ UNCHANGED <<row, cached, fetch, failed, form, op, edited, behind, typed, others,
                 faults>>

ServeAvatar ==
  /\ avatar.open /\ avatar.served = "no"
  /\ row' = [row EXCEPT !.avatar = @ + 1]
  /\ avatar' = [avatar EXCEPT !.served = "yes", !.answer = View("profile", row')]
  /\ UNCHANGED <<cached, fetch, failed, form, op, edited, behind, sends, typed, others,
                 faults>>

\* applySavedProfile
AvatarAnswered ==
  /\ avatar.served = "yes" /\ avatar' = NoAvatar
  /\ cached' = [cached EXCEPT !.profile = avatar.answer]
  /\ fetch' = Invalidated
  /\ UNCHANGED <<row, failed, form, op, edited, behind, sends, typed, others, faults>>

AvatarFails ==
  /\ avatar.open /\ Fault /\ avatar' = NoAvatar
  /\ behind' = IF avatar.served = "yes" THEN behind \cup {"profile"} ELSE behind
  /\ UNCHANGED <<row, cached, fetch, failed, form, op, edited, sends, typed, others>>

-----------------------------------------------------------------------------
\* Another tab of this user changes the profile.
Elsewhere ==
  /\ others < MaxOthers /\ others' = others + 1
  /\ \/ /\ \E n \in Names \ {row.name} : row' = [row EXCEPT !.name = n]
        /\ behind' = behind \cup {"profile"} /\ op' = [op EXCEPT !.current = FALSE]
     \/ /\ row' = [row EXCEPT !.open = ~@]
        /\ behind' = behind \cup {"settings"} /\ op' = [op EXCEPT !.current = FALSE]
  /\ UNCHANGED <<cached, fetch, failed, form, avatar, edited, sends, typed, faults>>

Next ==
  \/ \E q \in Queries : Load(q) \/ Read(q) \/ Loaded(q) \/ NotLoaded(q)
  \/ \E f \in Fields : Type(f)
  \/ Submit \/ Serve \/ Answered \/ Refused \/ NoAnswer
  \/ ChangeAvatar \/ ServeAvatar \/ AvatarAnswered \/ AvatarFails
  \/ Elsewhere

Spec == Init /\ [][Next]_vars

-----------------------------------------------------------------------------
Rows == [name : Names, handle : Handles, open : BOOLEAN, avatar : 0..MaxSends]
FormFields == [name : Names, handle : Handles, open : BOOLEAN]

TypeOK ==
  /\ row \in Rows /\ row.handle \notin Taken
  /\ cached \in [Queries -> Rows] /\ failed \in [Queries -> BOOLEAN]
  /\ fetch \in [Queries -> [open : BOOLEAN, read : BOOLEAN, row : Rows]]
  /\ form \in FormFields
  /\ op \in [phase : {"idle"} \cup Queries, changes : SUBSET Fields,
             before : [Queries -> Rows], to : FormFields, saved : SUBSET Queries, answer : Rows,
             served : {"no", "yes", "refused"}, mine : BOOLEAN, current : BOOLEAN]
  /\ avatar \in [open : BOOLEAN, served : {"no", "yes"}, answer : Rows]
  /\ edited \subseteq Fields /\ behind \subseteq Queries
  /\ sends \in 0..MaxSends /\ typed \in 0..MaxTyped
  /\ others \in 0..MaxOthers /\ faults \in 0..MaxFaults

\* When nothing is in flight the page shows what is stored, in whatever order the answers of
\* the form, of the avatar and of the loads arrived, unless a change was made elsewhere or
\* an answer was lost.
ShownIsStored ==
  op.phase = "idle" /\ ~avatar.open /\ Mounted(failed) /\ (\A q \in Queries : ~fetch[q].open) =>
    \A q \in Queries \ behind : cached[q] = View(q, row)

\* When the form says that it saved, every field that was typed is stored as typed, also
\* those of an earlier submission that failed half-way or was refused.
SavedIsTyped ==
  op.phase # "idle" /\ op.current /\ edited # {} /\ edited' = {} /\ Mounted(failed) =>
    \A f \in edited : row[f] = form[f] /\ form'[f] = form[f]
=============================================================================

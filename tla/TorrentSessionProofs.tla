------------------------- MODULE TorrentSessionProofs -------------------------
(***************************************************************************)
(* Proofs about TorrentSession, for any number of accounts, sessions,      *)
(* files and slots.                                                        *)
(*                                                                         *)
(* The argument has two layers.  RowsOK, the inductive invariant of the    *)
(* first, is TypeOK with one fact it needs: a row that exists has an       *)
(* owner.  Everything about admission then follows from what a step can do *)
(* to the set of active sessions: Reserve adds one session to those that   *)
(* have not lapsed, and no other step makes a session active (Releases).   *)
(***************************************************************************)
EXTENDS TorrentSession, FiniteSetTheorems, TLAPS

RowsOK ==
  /\ TypeOK
  /\ \A s \in Session : state[s] \notin Vacant => owner[s] \in Owner

USE DEF Active, Visible, Closing, Terminal, Vacant, States

LEMMA InitRowsOK == Init => RowsOK
BY ConstantAssumption DEF Init, RowsOK, TypeOK

LEMMA TransitionRowsOK ==
  ASSUME RowsOK, NEW s \in Session, NEW v, NEW to, NEW advance \in Nat,
         NEW late, Transition(s, v, to, advance, late)
  PROVE  RowsOK'
<1>1. to \in States \ Vacant /\ state[s] \notin Vacant
  BY DEF Transition, CanCommit, CanTransition, RowsOK, TypeOK
<1>2. TypeOK'
  BY <1>1 DEF Transition, RowsOK, TypeOK, ReplayRow
<1>3. \A t \in Session : state'[t] \notin Vacant => owner'[t] \in Owner
  BY <1>1 DEF Transition, RowsOK, TypeOK
<1>4. QED
  BY <1>2, <1>3 DEF RowsOK

LEMMA ReserveRowsOK ==
  ASSUME RowsOK, NEW o \in Owner, NEW k \in Key, NEW d \in Digest,
         NEW s \in Session, Reserve(o, k, d, s)
  PROVE  RowsOK'
<1>1. CreateRow(o, k, d, s) \in ReplayRow
  BY DEF CreateRow, ReplayRow
<1>2. TypeOK'
  BY <1>1 DEF Reserve, RowsOK, TypeOK
<1>3. \A t \in Session : state'[t] \notin Vacant => owner'[t] \in Owner
  BY DEF Reserve, RowsOK, TypeOK, Overdue
<1>4. QED
  BY <1>2, <1>3 DEF RowsOK

LEMMA CommandRowsOK ==
  ASSUME RowsOK, NEW s \in Session, Command(s)
  PROVE  RowsOK'
<1>1. CASE RequestStop(s)
  BY <1>1 DEF RequestStop, RowsOK, TypeOK
<1>2. ASSUME NEW f \in File, SelectFile(s, f)
      PROVE  RowsOK'
  BY <1>2 DEF SelectFile, RowsOK, TypeOK
<1>3. ASSUME NEW k \in Key, NEW p \in Output, BeginPlayback(s, k, p)
      PROVE  RowsOK'
  <2> DEFINE row == [owner |-> owner[s], route |-> "playback", key |-> k,
                     digest |-> p, session |-> s]
  <2>1. owner[s] \in Owner
    BY <1>3 DEF BeginPlayback, RowsOK
  <2>2. row \in ReplayRow
    BY <2>1 DEF ReplayRow
  <2>3. replay' \subseteq ReplayRow
    BY <1>3, <2>2 DEF BeginPlayback, RowsOK, TypeOK
  <2>4. /\ state' \in [Session -> States]
        /\ version' \in [Session -> Nat]
        /\ generation' \in [Session -> Nat]
        /\ output' \in [Session -> Output \cup {None}]
    BY <1>3 DEF BeginPlayback, RowsOK, TypeOK, NextGeneration
  <2>5. TypeOK'
    BY <1>3, <2>3, <2>4 DEF BeginPlayback, RowsOK, TypeOK
  <2>6. \A t \in Session : state'[t] \notin Vacant => owner'[t] \in Owner
    BY <1>3, <2>1 DEF BeginPlayback, RowsOK, TypeOK
  <2>7. QED
    BY <2>5, <2>6 DEF RowsOK
<1>4. QED
  BY <1>1, <1>2, <1>3 DEF Command

\* Every background action but three is a Transition.
LEMMA BackgroundTransitions ==
  ASSUME RowsOK, NEW s \in Session,
         \/ FetchMetadata(s) \/ Fail(s) \/ PlaybackReady(s)
         \/ PlaybackRevoked(s) \/ GenerationReset(s) \/ Expire(s) \/ Finish(s)
  PROVE  \E to, late : \E advance \in {0, 1} :
           Transition(s, version[s], to, advance, late)
BY DEF FetchMetadata, Fail, PlaybackReady, PlaybackRevoked, GenerationReset,
       Expire, Finish

LEMMA BackgroundRowsOK ==
  ASSUME RowsOK, NEW s \in Session, Background(s)
  PROVE  RowsOK'
<1>1. ASSUME NEW e \in EngineKey, BindEngine(s, e)
      PROVE  RowsOK'
  BY <1>1 DEF BindEngine, RowsOK, TypeOK
<1>2. ASSUME NEW F \in SUBSET File, ReplaceFiles(s, F)
      PROVE  RowsOK'
  <2>1. (CHOOSE f \in F : TRUE) \in File
    BY <1>2 DEF ReplaceFiles
  <2>2. QED
    BY <1>2, <2>1 DEF ReplaceFiles, RowsOK, TypeOK
<1>3. ASSUME NEW f \in File, SaveProbe(s, version[s], f)
      PROVE  RowsOK'
  BY <1>3 DEF SaveProbe, ProbeAwaited, RowsOK, TypeOK
<1>4. CASE ClearEngine(s)
  BY <1>4 DEF ClearEngine, RowsOK, TypeOK
<1>5. CASE \/ FetchMetadata(s) \/ Fail(s) \/ PlaybackReady(s)
           \/ PlaybackRevoked(s) \/ GenerationReset(s) \/ Expire(s) \/ Finish(s)
  <2>1. PICK to, late : \E advance \in {0, 1} :
                          Transition(s, version[s], to, advance, late)
    BY <1>5, BackgroundTransitions
  <2>2. PICK advance \in {0, 1} : Transition(s, version[s], to, advance, late)
    BY <2>1
  <2>3. QED
    BY <2>2, TransitionRowsOK
<1>6. QED
  BY <1>1, <1>2, <1>3, <1>4, <1>5 DEF Background

LEMMA TimeRowsOK ==
  ASSUME RowsOK, NEW s \in Session, Time(s)
  PROVE  RowsOK'
<1>1. CASE Lapse(s)
  BY <1>1 DEF Lapse, RowsOK, TypeOK
<1>2. CASE PurgeTombstone(s)
  BY <1>2 DEF PurgeTombstone, IdGone, RowsOK, TypeOK
<1>3. QED
  BY <1>1, <1>2 DEF Time

LEMMA StepRowsOK ==
  ASSUME RowsOK, [Next]_vars
  PROVE  RowsOK'
<1>1. ASSUME NEW o \in Owner, Logout(o)
      PROVE  RowsOK'
  BY <1>1 DEF Logout, RowsOK, TypeOK
<1>2. ASSUME NEW r \in replay, ForgetKey(r)
      PROVE  RowsOK'
  BY <1>2 DEF ForgetKey, RowsOK, TypeOK
<1>3. CASE UNCHANGED vars
  BY <1>3 DEF vars, RowsOK, TypeOK
<1>4. QED
  BY <1>1, <1>2, <1>3, ReserveRowsOK, CommandRowsOK, BackgroundRowsOK,
     TimeRowsOK DEF Next

(***************************************************************************)
(* Every column keeps its type, and every row that exists has an owner.    *)
(***************************************************************************)
THEOREM RowsAreWellFormed == Spec => []RowsOK
BY InitRowsOK, StepRowsOK, PTL DEF Spec

\* Every column of the tables keeps its type.
THEOREM TypeCorrect == Spec => []TypeOK
<1>1. RowsOK => TypeOK
  BY DEF RowsOK
<1>2. QED
  BY <1>1, RowsAreWellFormed, PTL

-----------------------------------------------------------------------------
(***************************************************************************)
(* What a step other than Reserve does to the set of active sessions.      *)
(***************************************************************************)
Releases ==
  \A t \in Session :
    /\ state'[t] \in Active => state[t] \in Active /\ owner'[t] = owner[t]
    /\ state'[t] = "unused" <=> state[t] = "unused"

LEMMA TransitionReleases ==
  ASSUME RowsOK, NEW s \in Session, NEW v, NEW to, NEW advance, NEW late,
         Transition(s, v, to, advance, late)
  PROVE  Releases
<1>1. state[s] # "unused" /\ to # "unused"
  BY DEF Transition, CanCommit, CanTransition
<1>2. to \in Active => state[s] \in Active
  BY DEF Transition, CanCommit, CanTransition
<1>3. QED
  BY <1>1, <1>2 DEF Transition, Releases, RowsOK, TypeOK

LEMMA OtherStepsRelease ==
  ASSUME RowsOK, [Next]_vars,
         ~ \E o \in Owner, k \in Key, d \in Digest, s \in Session :
             Reserve(o, k, d, s)
  PROVE  Releases
<1>1. ASSUME NEW s \in Session, Command(s)
      PROVE  Releases
  <2>1. CASE RequestStop(s)
    BY <2>1 DEF RequestStop, Releases, RowsOK, TypeOK
  <2>2. CASE \E f \in File : SelectFile(s, f)
    BY <2>2 DEF SelectFile, Releases, RowsOK, TypeOK
  <2>3. CASE \E k \in Key, p \in Output : BeginPlayback(s, k, p)
    BY <2>3 DEF BeginPlayback, Releases, RowsOK, TypeOK
  <2>4. QED
    BY <1>1, <2>1, <2>2, <2>3 DEF Command
<1>2. ASSUME NEW s \in Session, Background(s)
      PROVE  Releases
  <2>1. CASE \E e \in EngineKey : BindEngine(s, e)
    BY <2>1 DEF BindEngine, Releases
  <2>2. CASE \E F \in SUBSET File : ReplaceFiles(s, F)
    BY <2>2 DEF ReplaceFiles, Releases, RowsOK, TypeOK
  <2>3. CASE \E f \in File : SaveProbe(s, version[s], f)
    BY <2>3 DEF SaveProbe, ProbeAwaited, Releases, RowsOK, TypeOK
  <2>4. CASE ClearEngine(s)
    BY <2>4 DEF ClearEngine, Releases
  <2>5. CASE \/ FetchMetadata(s) \/ Fail(s) \/ PlaybackReady(s)
             \/ PlaybackRevoked(s) \/ GenerationReset(s) \/ Expire(s)
             \/ Finish(s)
    BY <2>5, BackgroundTransitions, TransitionReleases
  <2>6. QED
    BY <1>2, <2>1, <2>2, <2>3, <2>4, <2>5 DEF Background
<1>3. ASSUME NEW s \in Session, Time(s)
      PROVE  Releases
  BY <1>3 DEF Time, Lapse, PurgeTombstone, IdGone, Releases, RowsOK, TypeOK
<1>4. ASSUME NEW o \in Owner, Logout(o)
      PROVE  Releases
  BY <1>4 DEF Logout, Releases, RowsOK, TypeOK
<1>5. CASE (\E r \in replay : ForgetKey(r)) \/ UNCHANGED vars
  BY <1>5 DEF ForgetKey, vars, Releases
<1>6. QED
  BY <1>1, <1>2, <1>3, <1>4, <1>5 DEF Next

\* What Reserve does to it.
LEMMA ReserveAdmits ==
  ASSUME RowsOK, NEW o \in Owner, NEW k \in Key, NEW d \in Digest,
         NEW s \in Session, Reserve(o, k, d, s)
  PROVE  /\ ActiveSessions' = (ActiveSessions \ Overdue) \cup {s}
         /\ s \notin ActiveSessions
         /\ owner' = [owner EXCEPT ![s] = o]
         /\ \A t \in ActiveSessions \ Overdue : owner[t] # o
         /\ Cardinality(ActiveSessions \ Overdue) < MaxActive
         /\ \A t \in Session : state'[t] = "unused"
                                 <=> state[t] = "unused" /\ t # s
BY DEF Reserve, Admits, ActiveSessions, Overdue, RowsOK, TypeOK

-----------------------------------------------------------------------------

LEMMA OneActiveStep ==
  ASSUME RowsOK, OneActivePerOwner, [Next]_vars
  PROVE  OneActivePerOwner'
<1>1. ASSUME NEW o \in Owner, NEW k \in Key, NEW d \in Digest,
             NEW s \in Session, Reserve(o, k, d, s)
      PROVE  OneActivePerOwner'
  <2>1. ActiveSessions \subseteq Session
    BY DEF ActiveSessions
  <2>2. \A t \in ActiveSessions \ Overdue :
          t # s /\ owner'[t] = owner[t] /\ owner[t] # o
    BY <1>1, <2>1, ReserveAdmits DEF RowsOK, TypeOK
  <2>3. owner'[s] = o
    BY <1>1, ReserveAdmits DEF RowsOK, TypeOK
  <2>4. QED
    BY <1>1, <2>2, <2>3, ReserveAdmits DEF OneActivePerOwner
<1>2. ASSUME Releases
      PROVE  OneActivePerOwner'
  BY <1>2 DEF Releases, OneActivePerOwner, ActiveSessions
<1>3. QED
  BY <1>1, <1>2, OtherStepsRelease

(***************************************************************************)
(* No account has two active sessions, for any number of accounts.         *)
(***************************************************************************)
THEOREM OneActive == Spec => []OneActivePerOwner
<1>1. Init => OneActivePerOwner
  BY DEF Init, OneActivePerOwner, ActiveSessions
<1>2. QED
  BY <1>1, OneActiveStep, RowsAreWellFormed, PTL DEF Spec

LEMMA CapacityStep ==
  ASSUME RowsOK, CapacityRespected, [Next]_vars
  PROVE  CapacityRespected'
<1>1. IsFiniteSet(ActiveSessions) /\ Cardinality(ActiveSessions) \in Nat
  BY ConstantAssumption, FS_Subset, FS_CardinalityType DEF ActiveSessions
<1>2. ASSUME NEW o \in Owner, NEW k \in Key, NEW d \in Digest,
             NEW s \in Session, Reserve(o, k, d, s)
      PROVE  CapacityRespected'
  <2> DEFINE held == ActiveSessions \ Overdue
  <2>1. IsFiniteSet(held) /\ Cardinality(held) \in Nat
    BY <1>1, FS_Subset, FS_CardinalityType
  <2>2. s \notin held
    BY <1>2, ReserveAdmits
  <2>3. Cardinality(held \cup {s}) = Cardinality(held) + 1
    BY <2>1, <2>2, FS_AddElement
  <2>4. Cardinality(held) < MaxActive /\ ActiveSessions' = held \cup {s}
    BY <1>2, ReserveAdmits
  <2>5. QED
    BY <2>1, <2>3, <2>4, ConstantAssumption DEF CapacityRespected
<1>3. ASSUME Releases
      PROVE  CapacityRespected'
  <2>1. ActiveSessions' \subseteq ActiveSessions
    BY <1>3 DEF Releases, ActiveSessions
  <2>2. /\ Cardinality(ActiveSessions') <= Cardinality(ActiveSessions)
        /\ Cardinality(ActiveSessions') \in Nat
    BY <1>1, <2>1, FS_Subset, FS_CardinalityType
  <2>3. QED
    BY <1>1, <2>2, ConstantAssumption DEF CapacityRespected
<1>4. QED
  BY <1>2, <1>3, OtherStepsRelease

(***************************************************************************)
(* The server's limit holds, for any limit and any number of sessions.     *)
(***************************************************************************)
THEOREM Capacity == Spec => []CapacityRespected
<1>1. Init => CapacityRespected
  <2>1. ASSUME Init PROVE ActiveSessions = {}
    BY <2>1 DEF Init, ActiveSessions
  <2>2. QED
    BY <2>1, FS_EmptySet, ConstantAssumption DEF CapacityRespected
<1>2. QED
  BY <1>1, CapacityStep, RowsAreWellFormed, PTL DEF Spec

-----------------------------------------------------------------------------
(***************************************************************************)
(* The refinement of SessionSlots.  A slot is held exactly while a session *)
(* is active; Reserve is an Admit that takes back the slots of the lapsed  *)
(* sessions, and every other step releases some slots or none.             *)
(***************************************************************************)
LEMMA HeldIsActive == RowsOK => Slots!Held = ActiveSessions
BY ConstantAssumption DEF Slots!Held, ActiveSessions, RowsOK

\* The slots a Reserve takes back are named by a constant, so that the
\* definitions of SessionSlots can be applied to them.
LEMMA ReserveIsAdmit ==
  ASSUME RowsOK, RowsOK', NEW o \in Owner, NEW k \in Key, NEW d \in Digest,
         NEW s \in Session, Reserve(o, k, d, s)
  PROVE  \E C \in SUBSET Slots!Held : Slots!Admit(o, s, C)
<1>1. Slots!Held = ActiveSessions
  BY HeldIsActive
<1>2. Overdue \in SUBSET ActiveSessions
  BY DEF Overdue, ActiveSessions
<1>3. PICK C \in SUBSET ActiveSessions : C = Overdue
  BY <1>2
<1>4. s \notin {t \in Session : state[t] # "unused"}
  BY DEF Reserve
<1>5. {t \in Session : state'[t] # "unused"}
        = {t \in Session : state[t] # "unused"} \cup {s}
  BY ReserveAdmits
<1>6. \A t \in ActiveSessions \ C :
        [u \in Session |-> IF state[u] \in Active THEN owner[u] ELSE None][t] # o
  BY <1>3, ReserveAdmits DEF ActiveSessions
<1>7. Cardinality(ActiveSessions \ C) < MaxActive
  BY <1>3, ReserveAdmits
<1>8. \A t \in Session :
        (IF state'[t] \in Active THEN owner'[t] ELSE None)
          = IF t = s THEN o
            ELSE IF t \in C THEN None
            ELSE IF state[t] \in Active THEN owner[t] ELSE None
  <2>1. \A t \in Session : t \in ActiveSessions' <=> state'[t] \in Active
    BY DEF ActiveSessions
  <2>2. \A t \in Session : t \in ActiveSessions <=> state[t] \in Active
    BY DEF ActiveSessions
  <2>3. \A t \in Session : owner'[t] = IF t = s THEN o ELSE owner[t]
    BY ReserveAdmits DEF RowsOK, TypeOK
  <2>4. ActiveSessions' = (ActiveSessions \ C) \cup {s}
    BY <1>3, ReserveAdmits
  <2>5. QED
    BY <2>1, <2>2, <2>3, <2>4
<1>9. \A S : Slots!Cardinality(S) = Cardinality(S)
  BY DEF Slots!Cardinality, Cardinality
<1>10. Slots!Admit(o, s, C)
  BY <1>1, <1>4, <1>5, <1>6, <1>7, <1>8, <1>9 DEF Slots!Admit
<1>11. QED
  BY <1>1, <1>10

LEMMA OthersAreRelease ==
  ASSUME RowsOK, RowsOK', Releases
  PROVE  \E C \in SUBSET Slots!Held : Slots!Release(C)
<1>1. PICK C \in SUBSET ActiveSessions :
             C = {t \in ActiveSessions : state'[t] \notin Active}
  OBVIOUS
<1>2. {t \in Session : state'[t] # "unused"} = {t \in Session : state[t] # "unused"}
  BY DEF Releases
<1>3. \A t \in Session :
        (IF state'[t] \in Active THEN owner'[t] ELSE None)
          = IF t \in C THEN None
            ELSE IF state[t] \in Active THEN owner[t] ELSE None
  BY <1>1 DEF Releases, ActiveSessions
<1>4. Slots!Release(C)
  BY <1>2, <1>3 DEF Slots!Release
<1>5. QED
  BY <1>4, HeldIsActive

LEMMA StepIsSlotStep ==
  ASSUME RowsOK, RowsOK', [Next]_vars
  PROVE  Slots!Next
<1>1. CASE \E o \in Owner, k \in Key, d \in Digest, s \in Session :
             Reserve(o, k, d, s)
  BY <1>1, ReserveIsAdmit DEF Slots!Next
<1>2. CASE ~ \E o \in Owner, k \in Key, d \in Digest, s \in Session :
               Reserve(o, k, d, s)
  <2>1. \E C \in SUBSET Slots!Held : Slots!Release(C)
    BY <1>2, OtherStepsRelease, OthersAreRelease
  <2>2. QED
    BY <2>1 DEF Slots!Next
<1>3. QED
  BY <1>1, <1>2

(***************************************************************************)
(* The repository implements the admission promise.                        *)
(***************************************************************************)
THEOREM ImplementsSlots == Spec => SlotsSpec
<1>1. Init => Slots!Init
  BY DEF Init, Slots!Init
<1>2. RowsOK /\ RowsOK' /\ [Next]_vars => [Slots!Next]_(Slots!vars)
  BY StepIsSlotStep
<1>3. QED
  BY <1>1, <1>2, RowsAreWellFormed, PTL DEF Spec, SlotsSpec, Slots!Spec

-----------------------------------------------------------------------------
(***************************************************************************)
(* Bindings: only BindEngine adds one, and only of a free torrent.         *)
(***************************************************************************)
LEMMA BindingStep ==
  ASSUME RowsOK, [Next]_vars
  PROVE  \/ \A t \in Session : engine'[t] \in {engine[t], None}
         \/ \E s \in Session, e \in EngineKey :
              engine' = [engine EXCEPT ![s] = e] /\ KeyFree(e)
<1> DEFINE Kept == \A t \in Session : engine'[t] \in {engine[t], None}
<1>1. ASSUME NEW s \in Session, Command(s)
      PROVE  Kept
  BY <1>1 DEF Command, RequestStop, SelectFile, BeginPlayback
<1>2. ASSUME NEW s \in Session, NEW e \in EngineKey, BindEngine(s, e)
      PROVE  engine' = [engine EXCEPT ![s] = e] /\ KeyFree(e)
  BY <1>2 DEF BindEngine
<1>3. ASSUME NEW s \in Session, Background(s),
             ~ \E e \in EngineKey : BindEngine(s, e)
      PROVE  Kept
  BY <1>3 DEF Background, FetchMetadata, Fail, ReplaceFiles, SaveProbe,
     PlaybackReady, PlaybackRevoked, GenerationReset, Expire, ClearEngine,
     Finish, Transition, RowsOK, TypeOK
<1>4. ASSUME NEW s \in Session, Time(s)
      PROVE  Kept
  BY <1>4 DEF Time, Lapse, PurgeTombstone, RowsOK, TypeOK
<1>5. CASE \/ \E o \in Owner, k \in Key, d \in Digest, s \in Session :
                Reserve(o, k, d, s)
           \/ \E o \in Owner : Logout(o)
           \/ \E r \in replay : ForgetKey(r)
           \/ UNCHANGED vars
  BY <1>5 DEF Reserve, Logout, ForgetKey, vars
<1>6. QED
  BY <1>1, <1>2, <1>3, <1>4, <1>5 DEF Next

LEMMA EngineStep ==
  ASSUME RowsOK, EngineBoundOnce, [Next]_vars
  PROVE  EngineBoundOnce'
<1>1. CASE \A t \in Session : engine'[t] \in {engine[t], None}
  BY <1>1 DEF EngineBoundOnce
<1>2. CASE \E s \in Session, e \in EngineKey :
             engine' = [engine EXCEPT ![s] = e] /\ KeyFree(e)
  BY <1>2 DEF EngineBoundOnce, KeyFree, RowsOK, TypeOK
<1>3. QED
  BY <1>1, <1>2, BindingStep

(***************************************************************************)
(* A torrent of the engine never belongs to two sessions.                  *)
(***************************************************************************)
THEOREM EngineOnce == Spec => []EngineBoundOnce
<1>1. Init => EngineBoundOnce
  BY DEF Init, EngineBoundOnce
<1>2. QED
  BY <1>1, EngineStep, RowsAreWellFormed, PTL DEF Spec

-----------------------------------------------------------------------------
(***************************************************************************)
(* Sources.  PlayableHasSource speaks of the states a player meets; it is  *)
(* inductive once it is known of the states that lead there: a session is  *)
(* bound before its metadata is fetched, and its selected file is one of   *)
(* the torrent's from the moment the file is probed.                       *)
(***************************************************************************)
SourceOK ==
  \A s \in Session :
    /\ state[s] \in Active \ {"created"} => engine[s] # None
    /\ state[s] \in {"probing", "awaiting_playback", "preparing", "ready"} =>
         selected[s] \in files[s]
    /\ state[s] \in {"awaiting_playback", "preparing", "ready"} =>
         probe[s] = selected[s]

LEMMA CommandSourceOK ==
  ASSUME RowsOK, SourceOK, NEW s \in Session, Command(s)
  PROVE  SourceOK'
<1>1. CASE RequestStop(s)
  BY <1>1 DEF RequestStop, SourceOK, RowsOK, TypeOK
<1>2. ASSUME NEW f \in File, SelectFile(s, f)
      PROVE  SourceOK'
  BY <1>2 DEF SelectFile, SourceOK, RowsOK, TypeOK
<1>3. ASSUME NEW k \in Key, NEW p \in Output, BeginPlayback(s, k, p)
      PROVE  SourceOK'
  BY <1>3 DEF BeginPlayback, SourceOK, RowsOK, TypeOK
<1>4. QED
  BY <1>1, <1>2, <1>3 DEF Command

LEMMA BackgroundSourceOK ==
  ASSUME RowsOK, SourceOK, NEW s \in Session, Background(s)
  PROVE  SourceOK'
<1>1. ASSUME NEW e \in EngineKey, BindEngine(s, e)
      PROVE  SourceOK'
  BY <1>1, ConstantAssumption DEF BindEngine, SourceOK, RowsOK, TypeOK
<1>2. ASSUME NEW F \in SUBSET File, ReplaceFiles(s, F)
      PROVE  SourceOK'
  <2>1. (CHOOSE f \in F : TRUE) \in F
    BY <1>2 DEF ReplaceFiles
  <2>2. QED
    BY <1>2, <2>1 DEF ReplaceFiles, SourceOK, RowsOK, TypeOK
<1>3. ASSUME NEW f \in File, SaveProbe(s, version[s], f)
      PROVE  SourceOK'
  BY <1>3 DEF SaveProbe, ProbeAwaited, SourceOK, RowsOK, TypeOK
<1>4. CASE ClearEngine(s)
  BY <1>4 DEF ClearEngine, SourceOK, RowsOK, TypeOK
<1>5. CASE FetchMetadata(s)
  BY <1>5 DEF FetchMetadata, Transition, SourceOK, RowsOK, TypeOK
<1>6. CASE Fail(s) \/ Expire(s) \/ Finish(s)
  <2>1. PICK to \in {"failed"} \cup Closing \cup Terminal :
                \E late : Transition(s, version[s], to, 0, late)
    BY <1>6 DEF Fail, Expire, Finish
  <2>2. QED
    BY <2>1 DEF Transition, SourceOK, RowsOK, TypeOK
<1>7. CASE PlaybackReady(s) \/ PlaybackRevoked(s) \/ GenerationReset(s)
  <2>1. PICK to \in {"ready", "awaiting_playback"}, advance \in {0, 1} :
                \E late : Transition(s, version[s], to, advance, late)
    BY <1>7 DEF PlaybackReady, PlaybackRevoked, GenerationReset
  <2>2. state[s] \in {"preparing", "ready"}
    BY <1>7 DEF PlaybackReady, PlaybackRevoked, GenerationReset
  <2>3. QED
    BY <2>1, <2>2 DEF Transition, SourceOK, RowsOK, TypeOK
<1>8. QED
  BY <1>1, <1>2, <1>3, <1>4, <1>5, <1>6, <1>7 DEF Background

LEMMA StepSourceOK ==
  ASSUME RowsOK, SourceOK, [Next]_vars
  PROVE  SourceOK'
<1>1. ASSUME NEW o \in Owner, NEW k \in Key, NEW d \in Digest,
             NEW s \in Session, Reserve(o, k, d, s)
      PROVE  SourceOK'
  BY <1>1 DEF Reserve, SourceOK, RowsOK, TypeOK
<1>2. ASSUME NEW o \in Owner, Logout(o)
      PROVE  SourceOK'
  BY <1>2 DEF Logout, SourceOK, RowsOK, TypeOK
<1>3. ASSUME NEW s \in Session, Time(s)
      PROVE  SourceOK'
  BY <1>3 DEF Time, Lapse, PurgeTombstone, IdGone, SourceOK, RowsOK, TypeOK
<1>4. CASE (\E r \in replay : ForgetKey(r)) \/ UNCHANGED vars
  BY <1>4 DEF ForgetKey, vars, SourceOK
<1>5. QED
  BY <1>1, <1>2, <1>3, <1>4, CommandSourceOK, BackgroundSourceOK DEF Next

(***************************************************************************)
(* Whoever is told to play finds a bound torrent, a file of it and the     *)
(* probe of that very file, for any number of files and selections.        *)
(***************************************************************************)
THEOREM PlayableSource == Spec => []PlayableHasSource
<1>1. Init => SourceOK
  BY DEF Init, SourceOK
<1>2. SourceOK => PlayableHasSource
  BY DEF SourceOK, PlayableHasSource
<1>3. QED
  BY <1>1, <1>2, StepSourceOK, RowsAreWellFormed, PTL DEF Spec

-----------------------------------------------------------------------------
(***************************************************************************)
(* Retries.  RetryFindsSession follows from two facts about the            *)
(* idempotency rows that every step preserves: a session that exists and   *)
(* has not lapsed has its creation row, and no two creation rows share an  *)
(* owner and a key.                                                        *)
(***************************************************************************)
IsCreateRowOf(r, s) ==
  r \in replay /\ r.session = s /\ r.owner = owner[s] /\ r.route = "create"

RetryOK ==
  /\ \A s \in Session : state[s] \notin Vacant /\ ~lapsed[s] =>
       \E r \in replay : IsCreateRowOf(r, s)
  /\ \A q, r \in replay :
       /\ q.route = "create" /\ r.route = "create"
       /\ q.owner = r.owner /\ q.key = r.key
       => q = r

\* What leaves the idempotency rows alone and creates no session.
NoNewRow ==
  /\ replay' = replay
  /\ \A s \in Session :
       state'[s] \notin Vacant =>
         /\ state[s] \notin Vacant
         /\ owner'[s] = owner[s]
         /\ ~lapsed'[s] => ~lapsed[s]

LEMMA NoNewRowRetryOK ==
  ASSUME RetryOK, NoNewRow
  PROVE  RetryOK'
<1>1. ASSUME NEW s \in Session, state'[s] \notin Vacant, ~lapsed'[s]
      PROVE  \E r \in replay' : IsCreateRowOf(r, s)'
  BY <1>1 DEF RetryOK, NoNewRow, IsCreateRowOf
<1>2. QED
  BY <1>1 DEF RetryOK, NoNewRow

LEMMA BackgroundAddsNoRow ==
  ASSUME RowsOK, NEW s \in Session, Background(s)
  PROVE  NoNewRow
<1>1. CASE \/ \E e \in EngineKey : BindEngine(s, e)
           \/ \E F \in SUBSET File : ReplaceFiles(s, F)
           \/ \E f \in File : SaveProbe(s, version[s], f)
           \/ ClearEngine(s)
  BY <1>1 DEF BindEngine, ReplaceFiles, SaveProbe, ProbeAwaited, ClearEngine,
     NoNewRow, RowsOK, TypeOK
<1>2. CASE \/ FetchMetadata(s) \/ Fail(s) \/ PlaybackReady(s)
           \/ PlaybackRevoked(s) \/ GenerationReset(s) \/ Expire(s)
           \/ Finish(s)
  BY <1>2 DEF FetchMetadata, Fail, PlaybackReady, PlaybackRevoked,
     GenerationReset, Expire, Finish, Transition, NoNewRow, RowsOK, TypeOK
<1>3. QED
  BY <1>1, <1>2 DEF Background

LEMMA ReserveRetryOK ==
  ASSUME RowsOK, RetryOK, NEW o \in Owner, NEW k \in Key, NEW d \in Digest,
         NEW s \in Session, Reserve(o, k, d, s)
  PROVE  RetryOK'
<1> DEFINE row == CreateRow(o, k, d, s)
<1>1. /\ row.owner = o /\ row.route = "create"
      /\ row.key = k /\ row.session = s
  BY DEF CreateRow
<1>2. replay' = replay \cup {row} /\ owner'[s] = o
  BY DEF Reserve, RowsOK, TypeOK
<1>3. \A r \in replay : ~(r.route = "create" /\ r.owner = o /\ r.key = k)
  BY DEF Reserve, ReplayRowsOf
<1>4. ASSUME NEW t \in Session, state'[t] \notin Vacant, ~lapsed'[t]
      PROVE  \E r \in replay' : IsCreateRowOf(r, t)'
  <2>1. CASE t = s
    BY <1>1, <1>2, <2>1 DEF IsCreateRowOf
  <2>2. CASE t # s
    <3>1. state[t] \notin Vacant /\ ~lapsed[t] /\ owner'[t] = owner[t]
      BY <1>4, <2>2 DEF Reserve, Overdue, RowsOK, TypeOK
    <3>2. QED
      BY <1>2, <3>1 DEF RetryOK, IsCreateRowOf
  <2>3. QED
    BY <2>1, <2>2
<1>5. ASSUME NEW q \in replay', NEW r \in replay',
             q.route = "create", r.route = "create",
             q.owner = r.owner, q.key = r.key
      PROVE  q = r
  BY <1>1, <1>2, <1>3, <1>5 DEF RetryOK
<1>6. QED
  BY <1>4, <1>5 DEF RetryOK

LEMMA BeginPlaybackRetryOK ==
  ASSUME RowsOK, RetryOK, NEW s \in Session, NEW k \in Key, NEW p \in Output,
         BeginPlayback(s, k, p)
  PROVE  RetryOK'
<1> DEFINE row == [owner |-> owner[s], route |-> "playback", key |-> k,
                   digest |-> p, session |-> s]
<1>1. replay' = replay \cup {row} /\ row.route # "create"
  BY DEF BeginPlayback
<1>2. ASSUME NEW t \in Session, state'[t] \notin Vacant, ~lapsed'[t]
      PROVE  \E r \in replay' : IsCreateRowOf(r, t)'
  <2>1. state[t] \notin Vacant /\ ~lapsed[t] /\ owner'[t] = owner[t]
    BY <1>2 DEF BeginPlayback, RowsOK, TypeOK
  <2>2. QED
    BY <1>1, <2>1 DEF RetryOK, IsCreateRowOf
<1>3. QED
  BY <1>1, <1>2 DEF RetryOK

LEMMA ForgetKeyRetryOK ==
  ASSUME RetryOK, NEW x \in replay, ForgetKey(x)
  PROVE  RetryOK'
<1>1. /\ replay' = replay \ {x} /\ lapsed[x.session]
      /\ UNCHANGED <<owner, state, lapsed>>
  BY DEF ForgetKey, KeyExpired
<1>2. ASSUME NEW t \in Session, state'[t] \notin Vacant, ~lapsed'[t]
      PROVE  \E r \in replay' : IsCreateRowOf(r, t)'
  <2>1. PICK r \in replay : IsCreateRowOf(r, t)
    BY <1>1, <1>2 DEF RetryOK
  <2>2. r # x
    BY <1>1, <1>2, <2>1 DEF IsCreateRowOf
  <2>3. QED
    BY <1>1, <2>1, <2>2 DEF IsCreateRowOf
<1>3. QED
  BY <1>1, <1>2 DEF RetryOK

LEMMA StepRetryOK ==
  ASSUME RowsOK, RetryOK, [Next]_vars
  PROVE  RetryOK'
<1>1. ASSUME NEW s \in Session, RequestStop(s) \/ \E f \in File : SelectFile(s, f)
      PROVE  NoNewRow
  BY <1>1 DEF RequestStop, SelectFile, NoNewRow, RowsOK, TypeOK
<1>2. ASSUME NEW s \in Session, Time(s)
      PROVE  NoNewRow
  BY <1>2 DEF Time, Lapse, PurgeTombstone, IdGone, NoNewRow, RowsOK, TypeOK
<1>3. ASSUME NEW o \in Owner, Logout(o)
      PROVE  NoNewRow
  BY <1>3 DEF Logout, NoNewRow, RowsOK, TypeOK
<1>4. CASE UNCHANGED vars
  BY <1>4, NoNewRowRetryOK DEF vars, NoNewRow
<1>5. QED
  BY <1>1, <1>2, <1>3, <1>4, NoNewRowRetryOK, BackgroundAddsNoRow,
     ReserveRetryOK, BeginPlaybackRetryOK, ForgetKeyRetryOK DEF Next, Command

(***************************************************************************)
(* The retry of a creation finds the session it created, and only that     *)
(* one, for any number of accounts, keys and sessions.                     *)
(***************************************************************************)
THEOREM RetryFinds == Spec => []RetryFindsSession
<1>1. Init => RetryOK
  BY DEF Init, RetryOK
<1>2. ASSUME RetryOK PROVE RetryFindsSession
  <2>1. ASSUME NEW s \in Session, state[s] \in Visible, ~lapsed[s]
        PROVE  \E r \in replay :
                 /\ r.session = s /\ r.owner = owner[s] /\ r.route = "create"
                 /\ ReplayRowsOf(r.owner, "create", r.key) = {r}
    <3>1. PICK r \in replay : IsCreateRowOf(r, s)
      BY <1>2, <2>1 DEF RetryOK
    <3>2. ReplayRowsOf(r.owner, "create", r.key) = {r}
      BY <1>2, <3>1 DEF RetryOK, ReplayRowsOf, IsCreateRowOf
    <3>3. QED
      BY <3>1, <3>2 DEF IsCreateRowOf
  <2>2. QED
    BY <2>1 DEF RetryFindsSession
<1>3. QED
  BY <1>1, <1>2, StepRetryOK, RowsAreWellFormed, PTL DEF Spec

-----------------------------------------------------------------------------
(***************************************************************************)
(* Versions.  A compare-and-set is safe if a row that has changed cannot   *)
(* have kept its version; the columns that no version guards are the       *)
(* binding, the deadlines and the idempotency rows.                        *)
(***************************************************************************)
FreshOK == \A s \in Session : state[s] = "unused" => version[s] = 0

Bumped(s) ==
  \/ version'[s] = version[s] + 1 /\ state'[s] # "unused"
  \/ state'[s] = "purged"
  \/ /\ version'[s] = version[s]
     /\ owner'[s] = owner[s] /\ state'[s] = state[s]
     /\ generation'[s] = generation[s] /\ selected'[s] = selected[s]
     /\ output'[s] = output[s] /\ files'[s] = files[s]
     /\ probe'[s] = probe[s]

LEMMA CommandBumps ==
  ASSUME RowsOK, NEW s \in Session, Command(s), NEW t \in Session
  PROVE  Bumped(t)
<1>1. CASE RequestStop(s)
  BY <1>1 DEF RequestStop, Bumped, RowsOK, TypeOK
<1>2. CASE \E f \in File : SelectFile(s, f)
  BY <1>2 DEF SelectFile, Bumped, RowsOK, TypeOK
<1>3. CASE \E k \in Key, p \in Output : BeginPlayback(s, k, p)
  BY <1>3 DEF BeginPlayback, Bumped, RowsOK, TypeOK
<1>4. QED
  BY <1>1, <1>2, <1>3 DEF Command

LEMMA BackgroundBumps ==
  ASSUME RowsOK, NEW s \in Session, Background(s), NEW t \in Session
  PROVE  Bumped(t)
<1>1. CASE (\E e \in EngineKey : BindEngine(s, e)) \/ ClearEngine(s)
  BY <1>1 DEF BindEngine, ClearEngine, Bumped
<1>2. CASE \E F \in SUBSET File : ReplaceFiles(s, F)
  BY <1>2 DEF ReplaceFiles, Bumped, RowsOK, TypeOK
<1>3. CASE \E f \in File : SaveProbe(s, version[s], f)
  BY <1>3 DEF SaveProbe, Bumped, RowsOK, TypeOK
<1>4. CASE \/ FetchMetadata(s) \/ Fail(s) \/ PlaybackReady(s)
           \/ PlaybackRevoked(s) \/ GenerationReset(s) \/ Expire(s)
           \/ Finish(s)
  <2>1. PICK to, late : \E advance \in {0, 1} :
                          Transition(s, version[s], to, advance, late)
    BY <1>4, BackgroundTransitions
  <2>2. to # "unused"
    BY <2>1 DEF Transition, CanCommit, CanTransition
  <2>3. QED
    BY <2>1, <2>2 DEF Transition, Bumped, RowsOK, TypeOK
<1>5. QED
  BY <1>1, <1>2, <1>3, <1>4 DEF Background

LEMMA StepBumps ==
  ASSUME RowsOK, FreshOK, [Next]_vars, NEW t \in Session
  PROVE  Bumped(t)
<1>1. CASE \E o \in Owner, k \in Key, d \in Digest, s \in Session :
             Reserve(o, k, d, s)
  BY <1>1 DEF Reserve, Overdue, Bumped, FreshOK, RowsOK, TypeOK
<1>2. CASE \E o \in Owner : Logout(o)
  BY <1>2 DEF Logout, Bumped, RowsOK, TypeOK
<1>3. CASE \E s \in Session : Time(s)
  BY <1>3 DEF Time, Lapse, PurgeTombstone, IdGone, Bumped, RowsOK, TypeOK
<1>4. CASE (\E r \in replay : ForgetKey(r)) \/ UNCHANGED vars
  BY <1>4 DEF ForgetKey, vars, Bumped
<1>5. QED
  BY <1>1, <1>2, <1>3, <1>4, CommandBumps, BackgroundBumps DEF Next

LEMMA FreshRows == Spec => []FreshOK
<1>1. Init => FreshOK
  BY DEF Init, FreshOK
<1>2. RowsOK /\ FreshOK /\ [Next]_vars => FreshOK'
  BY StepBumps DEF Bumped, FreshOK
<1>3. QED
  BY <1>1, <1>2, RowsAreWellFormed, PTL DEF Spec

(***************************************************************************)
(* No write of a row leaves its version as it was, whichever transaction   *)
(* makes it: admission, commands, background tasks, logout or expiry.      *)
(***************************************************************************)
THEOREM VersionsAdvance == Spec => WritesBumpVersion
<1> DEFINE Step == \A s \in Session :
                     Row(s)' # Row(s) /\ state'[s] # "purged"
                       => version'[s] = version[s] + 1
<1>1. RowsOK /\ FreshOK /\ [Next]_vars => Step
  <2> SUFFICES ASSUME RowsOK, FreshOK, [Next]_vars, NEW s \in Session,
                      ~(version'[s] = version[s] + 1), state'[s] # "purged"
               PROVE  Row(s)' = Row(s)
    OBVIOUS
  <2>1. Bumped(s)
    BY StepBumps
  <2>2. QED
    BY <2>1 DEF Bumped, Row
<1>2. QED
  BY <1>1, RowsAreWellFormed, FreshRows, PTL DEF Spec, WritesBumpVersion

-----------------------------------------------------------------------------
(***************************************************************************)
(* Generations.  A step that keeps a session's generation and ends with it *)
(* playing either is PlaybackReady or leaves what it plays alone.          *)
(***************************************************************************)
SameOutput(s) ==
  Playing(s)' /\ generation'[s] = generation[s] =>
    /\ Playing(s)
    /\ selected'[s] = selected[s] /\ output'[s] = output[s]
    /\ probe'[s] = probe[s]

LEMMA CommandSameOutput ==
  ASSUME RowsOK, NEW s \in Session, Command(s), NEW t \in Session
  PROVE  SameOutput(t)
<1>1. CASE RequestStop(s)
  BY <1>1 DEF RequestStop, SameOutput, Playing, RowsOK, TypeOK
<1>2. CASE \E f \in File : SelectFile(s, f)
  BY <1>2 DEF SelectFile, SameOutput, Playing, RowsOK, TypeOK
<1>3. CASE \E k \in Key, p \in Output : BeginPlayback(s, k, p)
  BY <1>3 DEF BeginPlayback, NextGeneration, SameOutput, Playing, RowsOK, TypeOK
<1>4. QED
  BY <1>1, <1>2, <1>3 DEF Command

LEMMA BackgroundSameOutput ==
  ASSUME RowsOK, NEW s \in Session, Background(s), NEW t \in Session
  PROVE  SameOutput(t)
<1>1. CASE (\E e \in EngineKey : BindEngine(s, e)) \/ ClearEngine(s)
  BY <1>1 DEF BindEngine, ClearEngine, SameOutput, Playing
<1>2. CASE \E F \in SUBSET File : ReplaceFiles(s, F)
  BY <1>2 DEF ReplaceFiles, SameOutput, Playing, RowsOK, TypeOK
<1>3. CASE \E f \in File : SaveProbe(s, version[s], f)
  BY <1>3 DEF SaveProbe, SameOutput, Playing, RowsOK, TypeOK
<1>4. CASE FetchMetadata(s) \/ Fail(s) \/ Expire(s) \/ Finish(s)
  <2>1. PICK to \in {"fetching_metadata", "failed"} \cup Closing \cup Terminal :
                \E late : Transition(s, version[s], to, 0, late)
    BY <1>4 DEF FetchMetadata, Fail, Expire, Finish
  <2>2. QED
    BY <2>1 DEF Transition, SameOutput, Playing, RowsOK, TypeOK
<1>5. CASE PlaybackReady(s)
  BY <1>5 DEF PlaybackReady, Transition, SameOutput, Playing, RowsOK, TypeOK
<1>6. CASE PlaybackRevoked(s) \/ GenerationReset(s)
  <2>1. PICK advance \in {0, 1}, late \in {lapsed[s], FALSE} :
               Transition(s, version[s], "awaiting_playback", advance, late)
    BY <1>6 DEF PlaybackRevoked, GenerationReset
  <2>2. QED
    BY <2>1 DEF Transition, SameOutput, Playing, RowsOK, TypeOK
<1>7. QED
  BY <1>1, <1>2, <1>3, <1>4, <1>5, <1>6 DEF Background

LEMMA StepSameOutput ==
  ASSUME RowsOK, [Next]_vars, NEW t \in Session
  PROVE  SameOutput(t)
<1>1. CASE \E o \in Owner, k \in Key, d \in Digest, s \in Session :
             Reserve(o, k, d, s)
  BY <1>1 DEF Reserve, SameOutput, Playing, RowsOK, TypeOK
<1>2. CASE \E o \in Owner : Logout(o)
  BY <1>2 DEF Logout, SameOutput, Playing, RowsOK, TypeOK
<1>3. CASE \E s \in Session : Time(s)
  BY <1>3 DEF Time, Lapse, PurgeTombstone, IdGone, SameOutput, Playing,
     RowsOK, TypeOK
<1>4. CASE (\E r \in replay : ForgetKey(r)) \/ UNCHANGED vars
  BY <1>4 DEF ForgetKey, vars, SameOutput, Playing
<1>5. QED
  BY <1>1, <1>2, <1>3, <1>4, CommandSameOutput, BackgroundSameOutput DEF Next

(***************************************************************************)
(* A generation never comes to stand for a second output.                  *)
(***************************************************************************)
THEOREM GenerationsNameOneOutput == Spec => OneOutputPerGeneration
<1> DEFINE Step ==
      \A s \in Session :
        Playing(s)' /\ generation'[s] = generation[s] =>
          /\ Playing(s)
          /\ <<selected[s], output[s], probe[s]>>' =
                <<selected[s], output[s], probe[s]>>
<1>1. RowsOK /\ [Next]_vars => Step
  <2> SUFFICES ASSUME RowsOK, [Next]_vars, NEW s \in Session,
                      Playing(s)', generation'[s] = generation[s]
               PROVE  /\ Playing(s)
                      /\ <<selected[s], output[s], probe[s]>>' =
                            <<selected[s], output[s], probe[s]>>
    OBVIOUS
  <2>1. SameOutput(s)
    BY StepSameOutput
  <2>2. QED
    BY <2>1 DEF SameOutput
<1>2. QED
  BY <1>1, RowsAreWellFormed, PTL DEF Spec, OneOutputPerGeneration
=============================================================================

-------------------------- MODULE MediaRegistryProofs --------------------------
(***************************************************************************)
(* Proofs about MediaRegistry, for any number of works, aliases,           *)
(* registrations, users and saves.                                         *)
(*                                                                         *)
(* Registrations that share no alias know nothing of each other.  What     *)
(* holds them together is that a redirect, once written, stays: a trail    *)
(* then only grows at its end (TrailGrows), and both aliases and rows of   *)
(* users move along trails.  Where a second merge writes a redirect over   *)
(* another one (retaken) neither can be said any more.                     *)
(***************************************************************************)
EXTENDS MediaRegistry, FiniteSetTheorems, WellFoundedInduction, TLAPS

\* What the proofs ask of the constants.
RegistryConstants ==
  /\ MaxWorks \in Nat /\ MaxTime \in Nat
  /\ \A req \in Requests : req.type \in Types /\ req.aliases \subseteq Alias

-----------------------------------------------------------------------------
\* What is known of a time is not in the future.
TimesOK ==
  /\ saved \in [Users -> [Works -> 0 .. clock]]
  /\ latest \in [Users -> [Works -> 0 .. clock]]

\* References lead to works that exist.
WorksOK ==
  /\ first \in [Alias -> 0 .. MaxWorks]
  /\ \A w \in Works : redirect[w] # 0 => w \in Created /\ redirect[w] \in Created
  /\ \A a \in Alias : owner[a] \in Created \cup {0} /\ (first[a] = 0 <=> owner[a] = 0)
  /\ \A u \in Users : target[u] \in Created \cup {0}
  /\ \A u \in Users, w \in Works : saved[u][w] # 0 => w \in Created

\* What a registration has chosen it may merge.
ChoiceOK(t) ==
  tx[t].step \in {"matched", "carried"} =>
    /\ tx[t].work \in Created \cup {0} /\ tx[t].sources \subseteq Created
    /\ tx[t].work \notin tx[t].sources /\ (tx[t].work = 0 => tx[t].sources = {})
TxOK ==
  /\ tx = [t \in Tx |-> tx[t]]
  /\ \A t \in Tx :
       /\ tx[t].step # "idle" => tx[t].req \in Requests
       /\ ChoiceOK(t)
       /\ tx[t].step = "carried" => tx[t].rows \in [Users -> [Works -> 0 .. clock]]

\* A merge that holds rows of the works it touches holds the current ones of whoever is safe.
RowsCurrent ==
  \A t \in Tx, u \in Users \ unsafe :
    tx[t].step = "carried" /\ tx[t].sources # {} =>
      \A w \in tx[t].sources \cup {tx[t].work} : tx[t].rows[u][w] = saved[u][w]

RegistryOK ==
  /\ TypeOK /\ TimesOK /\ WorksOK /\ TxOK /\ RowsCurrent
  /\ RouteAndAliasAgree /\ SavedSurvives

-----------------------------------------------------------------------------
(* Trails and newest rows. *)

\* Of some numbers up to a bound there is a largest one.
LEMMA MaximumExists ==
  ASSUME NEW N \in Nat, NEW S \in SUBSET (0 .. N), S # {}
  PROVE  \E m \in S : \A q \in S : q <= m
<1> DEFINE T == {n \in Nat : N - n \in S}
           R == OpToRel(<, Nat)
<1>1. T \subseteq Nat /\ T # {}
  <2>1. PICK q \in S : TRUE
    OBVIOUS
  <2>2. N - q \in Nat /\ N - (N - q) = q
    OBVIOUS
  <2>3. QED
    BY <2>1, <2>2
<1>2. \E x \in T : \A y \in T : <<y, x>> \notin R
  <2>1. IsWellFoundedOn(R, Nat)
    BY NatLessThanWellFounded
  <2> HIDE DEF T, R
  <2>2. QED
    BY <1>1, <2>1, WFMin
<1>3. PICK x \in T : \A y \in T : <<y, x>> \notin R
  BY <1>2
<1>4. \A y \in T : ~(y < x)
  BY <1>1, <1>3 DEF OpToRel
<1>5. N - x \in S
  BY <1>3
<1>6. ASSUME NEW q \in S PROVE q <= N - x
  <2>1. q \in Nat /\ N - q \in Nat /\ N - (N - q) = q /\ x \in Nat
    BY <1>1
  <2>2. ~(N - q < x)
    BY <1>4, <2>1
  <2>3. QED
    BY <2>1, <2>2
<1>7. QED
  BY <1>5, <1>6

\* Of some works there is an oldest one.
LEMMA MinimumExists ==
  ASSUME NEW S \in SUBSET Nat, S # {}
  PROVE  \E m \in S : \A q \in S : m <= q
<1> DEFINE R == OpToRel(<, Nat)
<1>1. \E x \in S : \A y \in S : <<y, x>> \notin R
  <2>1. IsWellFoundedOn(R, Nat)
    BY NatLessThanWellFounded
  <2> HIDE DEF R
  <2>2. QED
    BY <2>1, WFMin
<1>2. PICK x \in S : \A y \in S : <<y, x>> \notin R
  BY <1>1
<1>3. \A y \in S : ~(y < x)
  BY <1>2 DEF OpToRel
<1>4. QED
  BY <1>3

\* The newest row is one of the rows, and none of them is newer.
LEMMA NewestRow ==
  ASSUME NEW N \in Nat, NEW rows \in [Works -> 0 .. N], NEW ws \in SUBSET Works
  PROVE  /\ Newest(rows, ws) \in 0 .. N
         /\ \A w \in ws : rows[w] <= Newest(rows, ws)
         /\ Newest(rows, ws) # 0 => \E w \in ws : rows[w] # 0
<1> DEFINE times == {rows[w] : w \in ws} \cup {0}
<1>1. times \in SUBSET (0 .. N) /\ times # {}
  OBVIOUS
<1>2. \E m \in times : \A n \in times : n <= m
  <2> HIDE DEF times
  <2>1. QED
    BY <1>1, MaximumExists
<1>3. Newest(rows, ws) = CHOOSE m \in times : \A n \in times : n <= m
  BY DEF Newest
<1>4. Newest(rows, ws) \in times /\ \A n \in times : n <= Newest(rows, ws)
  <2> HIDE DEF times
  <2>1. QED
    BY <1>2, <1>3
<1>5. QED
  BY <1>1, <1>4

Redirects == redirect \in [Works -> 0 .. MaxWorks]

\* A trail contains where it starts and follows every redirect on it ...
LEMMA TrailFollows ==
  ASSUME Redirects, MaxWorks \in Nat, NEW w \in Works
  PROVE  /\ w \in Trail(w) /\ Trail(w) \subseteq Works
         /\ \A p \in Trail(w) : redirect[p] # 0 => redirect[p] \in Trail(w)
<1>1. w \in Trail(w) /\ Trail(w) \subseteq Works
  BY DEF Trail
<1>2. ASSUME NEW p \in Trail(w), redirect[p] # 0 PROVE redirect[p] \in Trail(w)
  <2>1. redirect[p] \in Works
    BY <1>1, <1>2 DEF Redirects, Works
  <2>2. ASSUME NEW ws \in SUBSET Works, w \in ws, Closed(ws) PROVE redirect[p] \in ws
    <3>1. p \in ws
      BY <2>2 DEF Trail
    <3>2. QED
      BY <1>2, <2>2, <3>1 DEF Closed
  <2>3. QED
    BY <2>1, <2>2 DEF Trail
<1>3. QED
  BY <1>1, <1>2

\* ... and nothing else.
LEMMA TrailLeast ==
  ASSUME NEW ws \in SUBSET Works, NEW w \in ws, Closed(ws)
  PROVE  Trail(w) \subseteq ws
BY DEF Trail

LEMMA TrailOfTrail ==
  ASSUME Redirects, MaxWorks \in Nat, NEW w \in Works, NEW v \in Trail(w)
  PROVE  Trail(v) \subseteq Trail(w)
<1>1. Trail(w) \in SUBSET Works /\ Closed(Trail(w))
  BY TrailFollows DEF Closed
<1>2. QED
  BY <1>1, TrailLeast

\* The same of the trails after a step.
LEMMA TrailFollowsNext ==
  ASSUME Redirects', MaxWorks \in Nat, NEW w \in Works
  PROVE  /\ w \in Trail(w)' /\ Trail(w)' \subseteq Works
         /\ \A p \in Trail(w)' : redirect'[p] # 0 => redirect'[p] \in Trail(w)'
<1>1. Trail(w)' = {p \in Works : \A ws \in SUBSET Works :
                     w \in ws /\ (\A q \in ws : redirect'[q] # 0 => redirect'[q] \in ws)
                       => p \in ws}
  BY DEF Trail, Closed, Works
<1>2. w \in Trail(w)' /\ Trail(w)' \subseteq Works
  BY <1>1
<1>3. ASSUME NEW p \in Trail(w)', redirect'[p] # 0 PROVE redirect'[p] \in Trail(w)'
  <2>1. redirect'[p] \in Works
    BY <1>2, <1>3 DEF Redirects, Works
  <2>2. ASSUME NEW ws \in SUBSET Works, w \in ws,
               \A q \in ws : redirect'[q] # 0 => redirect'[q] \in ws
        PROVE  redirect'[p] \in ws
    <3>1. p \in ws
      BY <1>1, <2>2
    <3>2. QED
      BY <1>3, <2>2, <3>1
  <2>3. QED
    BY <1>1, <2>1, <2>2
<1>4. QED
  BY <1>2, <1>3

\* As long as no redirect on it is written over, a trail only grows.
LEMMA TrailGrows ==
  ASSUME Redirects, Redirects', MaxWorks \in Nat, NEW w \in Works,
         Trail(w)' \cap retaken' = {},
         \A p \in Works \ retaken' : redirect[p] # 0 => redirect'[p] = redirect[p]
  PROVE  Trail(w) \subseteq Trail(w)'
<1>1. /\ w \in Trail(w)' /\ Trail(w)' \subseteq Works
      /\ \A p \in Trail(w)' : redirect'[p] # 0 => redirect'[p] \in Trail(w)'
  BY TrailFollowsNext
<1>2. Closed(Trail(w)')
  <2>1. ASSUME NEW p \in Trail(w)', redirect[p] # 0 PROVE redirect[p] \in Trail(w)'
    <3>1. redirect'[p] = redirect[p]
      BY <1>1, <2>1
    <3>2. QED
      BY <1>1, <2>1, <3>1
  <2>2. QED
    BY <2>1 DEF Closed
<1>3. QED
  BY <1>1, <1>2, TrailLeast

\* The end of the trail of an existing work exists.
LEMMA FollowExists ==
  ASSUME RegistryConstants, TypeOK, WorksOK, NEW w \in Created
  PROVE  /\ Trail(w) \subseteq Created
         /\ Resolves(w) => Follow(w) \in Trail(w)
<1>1. Created \in SUBSET Works /\ Closed(Created)
  BY DEF TypeOK, WorksOK, Closed
<1>2. Trail(w) \subseteq Created
  BY <1>1, TrailLeast
<1>3. Resolves(w) => Follow(w) \in Trail(w)
  BY DEF Resolves, Follow
<1>4. QED
  BY <1>2, <1>3

-----------------------------------------------------------------------------
LEMMA InitOK == ASSUME RegistryConstants, Init PROVE RegistryOK
<1>1. Created = {} /\ Cardinality(Created) = 0 /\ 1 .. 0 = {}
  BY FS_EmptySet DEF Init, Created
<1>2. TypeOK
  <2>1. Created = 1 .. Cardinality(Created) /\ Created \subseteq Works
    BY <1>1
  <2>2. QED
    BY <1>1, <2>1 DEF RegistryConstants, Init, TypeOK, Idle, NoRows
<1>3. TimesOK /\ WorksOK
  BY <1>1 DEF RegistryConstants, Init, TimesOK, WorksOK, NoRows
<1>4. TxOK /\ RowsCurrent
  BY DEF Init, TxOK, ChoiceOK, RowsCurrent, Idle
<1>5. RouteAndAliasAgree /\ SavedSurvives
  BY DEF Init, RouteAndAliasAgree, SavedSurvives, NoRows
<1>6. QED
  BY <1>2, <1>3, <1>4, <1>5 DEF RegistryOK

-----------------------------------------------------------------------------
(* The steps of a registration that write nothing. *)

LEMMA ReadingStep ==
  ASSUME RegistryOK, TxOK', RowsCurrent', \A t \in Tx : tx'[t].step \in {"idle", "locked", "matched", "carried"},
         UNCHANGED <<type, redirect, owner, saved, target, clock, first, latest, unsafe, retaken>>
  PROVE  RegistryOK'
<1>1. TypeOK' /\ TimesOK' /\ WorksOK'
  BY DEF RegistryOK, TypeOK, TimesOK, WorksOK, Created, Works
<1>2. \A w : Trail(w)' = Trail(w)
  BY DEF Trail, Closed, Works
<1>3. RouteAndAliasAgree' /\ SavedSurvives'
  BY <1>2 DEF RegistryOK, RouteAndAliasAgree, SavedSurvives, Works
<1>4. QED
  BY <1>1, <1>3 DEF RegistryOK

\* The rows that other registrations hold stay current while no row changes.
LEMMA OthersKeepRows ==
  ASSUME RowsCurrent, NEW t \in Tx, \A s \in Tx \ {t} : tx'[s] = tx[s],
         tx'[t].step = "carried" => tx'[t] = tx[t], UNCHANGED <<saved, unsafe>>
  PROVE  RowsCurrent'
<1>1. ASSUME NEW s \in Tx, NEW u \in Users \ unsafe, tx'[s].step = "carried",
             tx'[s].sources # {}, NEW w \in tx'[s].sources \cup {tx'[s].work}
      PROVE  tx'[s].rows[u][w] = saved[u][w]
  <2>1. tx'[s] = tx[s]
    BY <1>1
  <2>2. QED
    BY <1>1, <2>1 DEF RowsCurrent
<1>2. QED
  BY <1>1 DEF RowsCurrent

LEMMA LockStep ==
  ASSUME RegistryOK, NEW t \in Tx, NEW req \in Requests, LockAliases(t, req)
  PROVE  RegistryOK'
<1>1. /\ tx' = [tx EXCEPT ![t] = [step |-> "locked", req |-> req]]
      /\ UNCHANGED <<type, redirect, owner, saved, target, clock, first, latest, unsafe, retaken>>
  BY DEF LockAliases
<1>2. /\ tx'[t].step = "locked" /\ tx'[t].req = req /\ \A s \in Tx \ {t} : tx'[s] = tx[s]
      /\ tx' = [s \in Tx |-> tx'[s]]
  BY <1>1 DEF RegistryOK, TxOK
<1>3. TxOK' /\ \A s \in Tx : tx'[s].step \in {"idle", "locked", "matched", "carried"}
  BY <1>1, <1>2 DEF RegistryOK, TypeOK, TxOK, ChoiceOK, Created
<1>4. RowsCurrent'
  BY <1>1, <1>2, OthersKeepRows DEF RegistryOK
<1>5. QED
  BY <1>1, <1>3, <1>4, ReadingStep

\* The works that aliases point to exist, and one of them is chosen.
LEMMA MatchStep ==
  ASSUME RegistryConstants, RegistryOK, NEW t \in Tx, MatchWorks(t)
  PROVE  RegistryOK'
<1> DEFINE req == tx[t].req
           refs == {owner[a] : a \in req.aliases} \ {0}
           candidates == {w \in refs : type[w] = req.type}
           stored == {a \in Alias : owner[a] \in refs}
           refused == /\ Cardinality(refs) > 1
                      /\ \/ candidates = {}
                         \/ \E a, b \in stored : a # b /\ Space[a] = Space[b]
           canonical == IF refs = {} THEN 0
                        ELSE IF Cardinality(refs) = 1 THEN CHOOSE w \in refs : TRUE
                        ELSE CHOOSE w \in candidates : \A v \in candidates : w <= v
           choice == [step |-> "matched", req |-> req, work |-> canonical,
                      sources |-> refs \ {canonical}]
<1>1. /\ tx[t].step = "locked"
      /\ tx' = [tx EXCEPT ![t] = IF refused THEN Idle ELSE choice]
      /\ UNCHANGED <<type, redirect, owner, saved, target, clock, first, latest, unsafe, retaken>>
  BY DEF MatchWorks
<1>2. req \in Requests /\ refs \subseteq Created
  BY <1>1 DEF RegistryOK, RegistryConstants, TxOK, WorksOK
<1>3. ASSUME ~refused PROVE refs = {} \/ canonical \in refs
  <2>1. CASE Cardinality(refs) = 1 \/ refs = {}
    BY <2>1
  <2>2. CASE Cardinality(refs) # 1 /\ refs # {}
    <3>1. IsFiniteSet(refs)
      <4>1. refs \in SUBSET (1 .. MaxWorks) /\ IsFiniteSet(1 .. MaxWorks)
        BY <1>2, FS_Interval DEF RegistryConstants, RegistryOK, TypeOK, Works
      <4>2. QED
        BY <4>1, FS_Subset
    <3>2. Cardinality(refs) \in Nat /\ Cardinality(refs) # 0
      BY <2>2, <3>1, FS_CardinalityType, FS_EmptySet
    <3>3. candidates # {}
      BY <1>3, <2>2, <3>2
    <3>4. candidates \in SUBSET Nat
      BY <1>2 DEF RegistryConstants, RegistryOK, TypeOK, Works
    <3>5. \E m \in candidates : \A q \in candidates : m <= q
      <4> HIDE DEF candidates
      <4>1. QED
        BY <3>3, <3>4, MinimumExists
    <3>6. canonical = CHOOSE w \in candidates : \A v \in candidates : w <= v
      BY <2>2
    <3>7. canonical \in candidates
      <4> HIDE DEF candidates, canonical
      <4>1. QED
        BY <3>5, <3>6
    <3>8. QED
      BY <3>7
  <2>3. QED
    BY <2>1, <2>2
<1>4. /\ \A s \in Tx \ {t} : tx'[s] = tx[s]
      /\ tx' = [s \in Tx |-> tx'[s]]
      /\ tx'[t] = IF refused THEN Idle ELSE choice
  <2> HIDE DEF refused, choice
  <2>1. QED
    BY <1>1 DEF RegistryOK, TxOK
<1>5. \/ tx'[t].step = "idle"
      \/ /\ tx'[t].step = "matched" /\ tx'[t].req \in Requests
         /\ tx'[t].work \in Created \cup {0} /\ tx'[t].sources \subseteq Created
         /\ tx'[t].work \notin tx'[t].sources
         /\ tx'[t].work = 0 => tx'[t].sources = {}
  <2>1. CASE refused
    <3>1. tx'[t] = Idle
      BY <1>4, <2>1
    <3>2. QED
      BY <3>1 DEF Idle
  <2>2. CASE ~refused
    <3>1. refs = {} \/ canonical \in refs
      BY <1>3, <2>2
    <3>2. refs = {} => canonical = 0
      OBVIOUS
    <3>3. 0 \notin refs
      OBVIOUS
    <3>4. tx'[t] = choice
      BY <1>4, <2>2
    <3> HIDE DEF refs, canonical, req
    <3>5. /\ tx'[t].step = "matched" /\ tx'[t].req = req /\ tx'[t].work = canonical
          /\ tx'[t].sources = refs \ {canonical}
      BY <3>4
    <3>6. QED
      BY <1>2, <3>1, <3>2, <3>3, <3>5
  <2>3. QED
    BY <2>1, <2>2
<1>6. TxOK' /\ RowsCurrent' /\ \A s \in Tx : tx'[s].step \in {"idle", "locked", "matched", "carried"}
  <2> HIDE DEF refused, choice, req
  <2>1. /\ UNCHANGED <<type, saved, clock, unsafe>>
        /\ TypeOK /\ TxOK /\ RowsCurrent
    BY <1>1 DEF RegistryOK
  <2>2. TxOK'
    <3>1. ASSUME NEW s \in Tx
          PROVE  /\ tx'[s].step # "idle" => tx'[s].req \in Requests
                 /\ ChoiceOK(s)'
                 /\ tx'[s].step = "carried" => tx'[s].rows \in [Users -> [Works -> 0 .. clock]]
      <4>1. CASE s = t
        BY <1>5, <2>1, <4>1 DEF ChoiceOK, Created
      <4>2. CASE s # t
        BY <1>4, <2>1, <4>2 DEF TxOK, ChoiceOK, Created
      <4>3. QED
        BY <4>1, <4>2
    <3>2. QED
      BY <1>4, <2>1, <3>1 DEF TxOK, Works
  <2>3. RowsCurrent'
    BY <1>4, <1>5, <2>1 DEF RowsCurrent
  <2>4. \A s \in Tx : tx'[s].step \in {"idle", "locked", "matched", "carried"}
    BY <1>4, <1>5, <2>1 DEF TypeOK
  <2>5. QED
    BY <2>2, <2>3, <2>4
<1>7. QED
  BY <1>1, <1>6, ReadingStep

LEMMA ReadRowsStep ==
  ASSUME RegistryConstants, RegistryOK, NEW t \in Tx, ReadUserRows(t)
  PROVE  RegistryOK'
<1> DEFINE touched == IF tx[t].sources = {} THEN {} ELSE tx[t].sources \cup {tx[t].work}
           rows == [u \in Users |-> [w \in Works |-> IF w \in touched THEN saved[u][w] ELSE 0]]
<1>1. /\ tx[t].step = "matched"
      /\ tx' = [tx EXCEPT ![t] = [step |-> "carried", req |-> tx[t].req, work |-> tx[t].work,
                                  sources |-> tx[t].sources, rows |-> rows]]
      /\ UNCHANGED <<type, redirect, owner, saved, target, clock, first, latest, unsafe, retaken>>
  BY DEF ReadUserRows
<1>2. /\ rows \in [Users -> [Works -> 0 .. clock]]
      /\ tx[t].sources # {} => \A u \in Users : \A w \in tx[t].sources \cup {tx[t].work} :
                                 rows[u][w] = saved[u][w]
  <2>1. /\ saved \in [Users -> [Works -> 0 .. clock]] /\ 0 \in 0 .. clock
    BY DEF RegistryConstants, RegistryOK, TypeOK, TimesOK
  <2>2. tx[t].sources # {} => tx[t].sources \cup {tx[t].work} \subseteq Works
    BY <1>1 DEF RegistryOK, TypeOK, TxOK, ChoiceOK
  <2>3. QED
    BY <2>1, <2>2
<1> HIDE DEF touched, rows
<1>3. /\ tx'[t].step = "carried" /\ tx'[t].req = tx[t].req /\ tx'[t].work = tx[t].work
      /\ tx'[t].sources = tx[t].sources /\ tx'[t].rows = rows
      /\ \A s \in Tx \ {t} : tx'[s] = tx[s]
      /\ tx' = [s \in Tx |-> tx'[s]]
  BY <1>1 DEF RegistryOK, TxOK
<1>4. RowsCurrent'
  <2>1. ASSUME NEW s \in Tx, NEW u \in Users \ unsafe, tx'[s].step = "carried",
               tx'[s].sources # {}, NEW w \in tx'[s].sources \cup {tx'[s].work}
        PROVE  tx'[s].rows[u][w] = saved[u][w]
    <3>1. CASE s = t
      BY <1>2, <1>3, <2>1, <3>1
    <3>2. CASE s # t
      BY <1>3, <2>1, <3>2 DEF RegistryOK, RowsCurrent
    <3>3. QED
      BY <3>1, <3>2
  <2>2. QED
    BY <1>1, <2>1 DEF RowsCurrent
<1>5. TxOK' /\ \A s \in Tx : tx'[s].step \in {"idle", "locked", "matched", "carried"}
  BY <1>1, <1>2, <1>3 DEF RegistryOK, TypeOK, TxOK, ChoiceOK, Created, Works
<1>6. QED
  BY <1>1, <1>4, <1>5, ReadingStep

-----------------------------------------------------------------------------
(* The steps of a user. *)

LEMMA LibraryStep ==
  ASSUME RegistryConstants, RegistryOK,
         UNCHANGED <<type, redirect, owner, tx, first, retaken>>,
         clock' \in clock .. MaxTime, TimesOK', target' \in [Users -> Created \cup {0}],
         \A u \in Users, w \in Works : saved'[u][w] # 0 => w \in Created,
         unsafe' = unsafe \cup Disturbed(Tx), SavedSurvives'
  PROVE  RegistryOK'
<1>1. clock \in Nat /\ clock' \in Nat /\ clock <= clock' /\ 0 .. clock \subseteq 0 .. clock'
  BY DEF RegistryConstants, RegistryOK, TypeOK
<1>2. TypeOK'
  <2>1. Created \cup {0} \subseteq 0 .. MaxWorks
    BY DEF RegistryConstants, RegistryOK, TypeOK, Works
  <2>2. 0 .. clock' \subseteq 0 .. MaxTime
    BY <1>1 DEF RegistryConstants
  <2>3. saved' \in [Users -> [Works -> 0 .. MaxTime]]
    BY <2>2 DEF TimesOK, Works
  <2>4. QED
    BY <1>1, <2>1, <2>3 DEF RegistryConstants, RegistryOK, TypeOK, Created, Works
<1>3. WorksOK'
  BY DEF RegistryOK, WorksOK, Created, Works
<1>4. TxOK'
  BY <1>1 DEF RegistryOK, TxOK, ChoiceOK, Created, Works
<1>5. RowsCurrent'
  <2>1. ASSUME NEW t \in Tx, NEW u \in Users \ unsafe', tx[t].step = "carried",
               tx[t].sources # {}, NEW w \in tx[t].sources \cup {tx[t].work}
        PROVE  tx[t].rows[u][w] = saved'[u][w]
    <3>1. u \notin Disturbed(Tx) /\ u \in Users \ unsafe
      BY <2>1
    <3>2. saved'[u] = saved[u]
      BY <2>1, <3>1 DEF Disturbed
    <3>3. QED
      BY <2>1, <3>1, <3>2 DEF RegistryOK, RowsCurrent
  <2>2. QED
    BY <2>1 DEF RowsCurrent
<1>6. RouteAndAliasAgree'
  <2>1. \A w : Trail(w)' = Trail(w)
    BY DEF Trail, Closed, Works
  <2>2. QED
    BY <2>1 DEF RegistryOK, RouteAndAliasAgree
<1>7. QED
  BY <1>2, <1>3, <1>4, <1>5, <1>6 DEF RegistryOK

\* What is to be shown of the rows of the one user whose step it is.
Survives(u, w) ==
  latest[u][w] # 0 /\ Trail(w) \cap retaken = {} =>
    \E v \in Trail(w) : saved[u][v] >= latest[u][w]

LEMMA OneUsersStep ==
  ASSUME RegistryOK, NEW u \in Users, UNCHANGED <<redirect, retaken>>, unsafe \subseteq unsafe',
         \A v \in Users \ {u} : saved'[v] = saved[v] /\ latest'[v] = latest[v],
         ASSUME NEW w \in Works, Survives(u, w) PROVE Survives(u, w)'
  PROVE  SavedSurvives'
<1>1. \A w : Trail(w)' = Trail(w)
  BY DEF Trail, Closed, Works
<1>2. ASSUME NEW v \in Users \ unsafe', NEW w \in Works PROVE Survives(v, w)'
  <2>1. Survives(v, w)
    BY <1>2 DEF RegistryOK, SavedSurvives, Survives
  <2>2. CASE v = u
    BY <2>1, <2>2
  <2>3. CASE v # u
    BY <1>1, <1>2, <2>1, <2>3 DEF Survives
  <2>4. QED
    BY <2>2, <2>3
<1>3. QED
  BY <1>2 DEF SavedSurvives, Survives, Works

\* Rows that move to the canonical work keep the newest of their times.
NewestKept(new, rows, ws, c, N) ==
  /\ new \in [Works -> 0 .. N]
  /\ \A v \in ws \cup {c} : rows[v] <= new[c]
  /\ \A v \in Works \ (ws \cup {c}) : new[v] = rows[v]
  /\ \A v \in Works \ {c} : new[v] # 0 => rows[v] # 0

LEMMA MergedRows ==
  ASSUME NEW N \in Nat, NEW rows \in [Works -> 0 .. N], NEW ws \in SUBSET Works,
         NEW c \in Works
  PROVE  NewestKept(Merged(rows, ws, c), rows, ws, c, N)
<1> DEFINE newest == Newest(rows, ws \cup {c})
<1>1. newest \in 0 .. N /\ \A v \in ws \cup {c} : rows[v] <= newest
  BY NewestRow
<1>2. Merged(rows, ws, c) = [w \in Works |-> IF w = c THEN newest ELSE IF w \in ws THEN 0 ELSE rows[w]]
  BY DEF Merged
<1>3. QED
  <2> HIDE DEF newest
  <2>1. QED
    BY <1>1, <1>2 DEF NewestKept

LEMMA ResolveStep ==
  ASSUME RegistryConstants, RegistryOK, NEW u \in Users, NEW w \in Works, ResolveSave(u, w)
  PROVE  RegistryOK'
<1> DEFINE to == Follow(w)
           merged == Merged(saved[u], {w}, to)
<1>1. /\ w \in Created /\ Resolves(w)
      /\ target' = [target EXCEPT ![u] = to]
      /\ saved' = IF to = w THEN saved ELSE [saved EXCEPT ![u] = merged]
      /\ unsafe' = unsafe \cup Disturbed(Tx)
      /\ UNCHANGED <<type, redirect, owner, tx, clock, first, latest, retaken>>
  BY DEF ResolveSave
<1>2. to \in Trail(w) /\ to \in Created /\ to \in Works
  BY <1>1, FollowExists DEF RegistryOK, TypeOK
<1>3. /\ clock \in Nat /\ clock <= MaxTime /\ saved[u] \in [Works -> 0 .. clock]
      /\ saved \in [Users -> [Works -> 0 .. clock]]
  BY DEF RegistryConstants, RegistryOK, TypeOK, TimesOK
<1>4. /\ merged \in [Works -> 0 .. clock] /\ saved[u][w] <= merged[to]
      /\ \A v \in Works \ {w, to} : merged[v] = saved[u][v]
      /\ \A v \in Works \ {to} : merged[v] # 0 => saved[u][v] # 0
      /\ saved[u][to] <= merged[to]
  <2>1. NewestKept(merged, saved[u], {w}, to, clock)
    BY <1>2, <1>3, MergedRows
  <2> HIDE DEF to, merged
  <2>2. QED
    BY <2>1 DEF NewestKept
<1> HIDE DEF to, merged
<1>5. /\ saved' \in [Users -> [Works -> 0 .. clock]]
      /\ \A v \in Users \ {u} : saved'[v] = saved[v]
      /\ saved'[u] = IF to = w THEN saved[u] ELSE merged
  BY <1>1, <1>3, <1>4
<1>6. TimesOK'
  BY <1>1, <1>5 DEF RegistryOK, TimesOK, Works
<1>7. target' \in [Users -> Created \cup {0}]
  BY <1>1, <1>2 DEF RegistryOK, TypeOK, WorksOK
<1>8. ASSUME NEW v \in Users, NEW x \in Works, saved'[v][x] # 0 PROVE x \in Created
  <2>1. saved[v][x] # 0 \/ x = to
    BY <1>4, <1>5, <1>8
  <2>2. QED
    BY <1>2, <2>1 DEF RegistryOK, WorksOK
<1>9. ASSUME NEW x \in Works, Survives(u, x) PROVE Survives(u, x)'
  <2>1. Trail(x)' = Trail(x)
    BY <1>1 DEF Trail, Closed, Works
  <2>2. ASSUME latest[u][x] # 0, Trail(x) \cap retaken = {}
        PROVE  \E v \in Trail(x) : saved'[u][v] >= latest[u][x]
    <3>1. PICK v \in Trail(x) : saved[u][v] >= latest[u][x]
      BY <1>9, <2>2 DEF Survives
    <3>2. v \in Works /\ latest[u][x] \in Nat
      BY <3>1 DEF Trail, RegistryOK, TimesOK
    <3>3. CASE to = w \/ (v # w /\ v # to)
      BY <1>4, <1>5, <3>1, <3>2, <3>3
    <3>4. CASE to # w /\ v = to
      <4>1. saved'[u][to] >= latest[u][x]
        BY <1>2, <1>3, <1>4, <1>5, <3>1, <3>2, <3>4
      <4>2. QED
        BY <3>1, <3>4, <4>1
    <3>5. CASE to # w /\ v = w
      <4>1. to \in Trail(x)
        BY <1>2, <3>1, <3>5, TrailOfTrail
           DEF RegistryConstants, RegistryOK, TypeOK, Redirects
      <4>2. saved'[u][to] >= latest[u][x]
        BY <1>2, <1>3, <1>4, <1>5, <3>1, <3>2, <3>5
      <4>3. QED
        BY <4>1, <4>2
    <3>6. QED
      BY <3>3, <3>4, <3>5
  <2>3. QED
    BY <1>1, <2>1, <2>2 DEF Survives
<1>10. SavedSurvives'
  <2>1. \A v \in Users \ {u} : saved'[v] = saved[v] /\ latest'[v] = latest[v]
    BY <1>1, <1>5
  <2>2. QED
    BY <1>1, <1>9, <2>1, OneUsersStep
<1>11. clock' \in clock .. MaxTime
  BY <1>1, <1>3 DEF RegistryConstants
<1>12. QED
  BY <1>1, <1>6, <1>7, <1>8, <1>10, <1>11, LibraryStep

LEMMA SaveStep ==
  ASSUME RegistryConstants, RegistryOK, NEW u \in Users, SaveRow(u)
  PROVE  RegistryOK'
<1> DEFINE now == clock + 1
           to == target[u]
           row == [saved[u] EXCEPT ![to] = now]
           last == [latest[u] EXCEPT ![to] = now]
<1>1. /\ to # 0 /\ clock < MaxTime /\ clock' = now
      /\ saved' = [saved EXCEPT ![u] = row] /\ latest' = [latest EXCEPT ![u] = last]
      /\ target' = [target EXCEPT ![u] = 0]
      /\ unsafe' = unsafe \cup Disturbed(Tx)
      /\ UNCHANGED <<type, redirect, owner, tx, first, retaken>>
  BY DEF SaveRow
<1>2. to \in Created /\ to \in Works
  BY <1>1 DEF RegistryOK, WorksOK, TypeOK
<1>3. /\ clock \in Nat /\ now \in Nat /\ now <= MaxTime
      /\ saved \in [Users -> [Works -> 0 .. now]] /\ latest \in [Users -> [Works -> 0 .. now]]
      /\ \A v \in Works : latest[u][v] < now
  <2>1. clock \in Nat /\ MaxTime \in Nat /\ 0 .. clock \subseteq 0 .. now
    BY DEF RegistryConstants, RegistryOK, TypeOK
  <2>2. QED
    BY <1>1, <2>1 DEF RegistryOK, TimesOK
<1>4. /\ row \in [Works -> 0 .. now] /\ row[to] = now /\ \A v \in Works \ {to} : row[v] = saved[u][v]
      /\ last \in [Works -> 0 .. now] /\ last[to] = now
      /\ \A v \in Works \ {to} : last[v] = latest[u][v]
  BY <1>2, <1>3
<1> HIDE DEF now, to, row, last
<1>5. /\ TimesOK' /\ target' \in [Users -> Created \cup {0}]
      /\ saved'[u] = row /\ latest'[u] = last
      /\ \A v \in Users \ {u} : saved'[v] = saved[v] /\ latest'[v] = latest[v]
  BY <1>1, <1>3, <1>4 DEF RegistryOK, TypeOK, TimesOK, WorksOK, Works
<1>6. ASSUME NEW v \in Users, NEW x \in Works, saved'[v][x] # 0 PROVE x \in Created
  BY <1>2, <1>4, <1>5, <1>6 DEF RegistryOK, WorksOK
<1>7. ASSUME NEW x \in Works, Survives(u, x) PROVE Survives(u, x)'
  <2>1. Trail(x)' = Trail(x)
    BY <1>1 DEF Trail, Closed, Works
  <2>2. ASSUME latest'[u][x] # 0, Trail(x) \cap retaken = {}
        PROVE  \E v \in Trail(x) : saved'[u][v] >= latest'[u][x]
    <3>1. CASE x = to
      BY <1>3, <1>4, <1>5, <3>1, TrailFollows DEF RegistryConstants, RegistryOK, TypeOK, Redirects
    <3>2. CASE x # to
      <4>1. latest'[u][x] = latest[u][x] /\ latest[u][x] < now /\ latest[u][x] \in Nat
        BY <1>3, <1>4, <1>5, <3>2 DEF RegistryOK, TimesOK
      <4>2. PICK v \in Trail(x) : saved[u][v] >= latest[u][x]
        BY <1>7, <2>2, <4>1 DEF Survives
      <4>3. v \in Works
        BY DEF Trail
      <4>4. saved'[u][v] >= latest'[u][x]
        BY <1>3, <1>4, <1>5, <4>1, <4>2, <4>3
      <4>5. QED
        BY <4>2, <4>4
    <3>3. QED
      BY <3>1, <3>2
  <2>3. QED
    BY <1>1, <2>1, <2>2 DEF Survives
<1>8. SavedSurvives'
  BY <1>1, <1>5, <1>7, OneUsersStep
<1>9. clock' \in clock .. MaxTime
  BY <1>1, <1>3 DEF RegistryConstants, now
<1>10. QED
  BY <1>1, <1>5, <1>6, <1>8, <1>9, LibraryStep

LEMMA ListStep ==
  ASSUME RegistryConstants, RegistryOK, NEW u \in Users, ListRows(u)
  PROVE  RegistryOK'
<1> DEFINE Led(w) == {v \in Created : saved[u][v] # 0 /\ Follow(v) = w}
           rows == [w \in Works |-> Newest(saved[u], Led(w))]
<1>1. /\ \A w \in Created : saved[u][w] # 0 => Resolves(w)
      /\ saved' = [saved EXCEPT ![u] = rows]
      /\ unsafe' = unsafe \cup Disturbed(Tx)
      /\ UNCHANGED <<type, redirect, owner, tx, target, clock, first, latest, retaken>>
  BY DEF ListRows
<1>2. /\ clock \in Nat /\ clock <= MaxTime /\ saved[u] \in [Works -> 0 .. clock]
      /\ saved \in [Users -> [Works -> 0 .. clock]] /\ Created \subseteq Works
  BY DEF RegistryConstants, RegistryOK, TypeOK, TimesOK
<1>3. /\ rows \in [Works -> 0 .. clock]
      /\ \A w \in Works : \A v \in Led(w) : saved[u][v] <= rows[w]
      /\ \A w \in Works : rows[w] # 0 => \E v \in Led(w) : saved[u][v] # 0
  <2>1. ASSUME NEW w \in Works
        PROVE  /\ Newest(saved[u], Led(w)) \in 0 .. clock
               /\ \A v \in Led(w) : saved[u][v] <= Newest(saved[u], Led(w))
               /\ Newest(saved[u], Led(w)) # 0 => \E v \in Led(w) : saved[u][v] # 0
    <3>1. Led(w) \in SUBSET Works
      BY <1>2
    <3> HIDE DEF Led
    <3>2. QED
      BY <1>2, <3>1, NewestRow
  <2> HIDE DEF Led
  <2>2. QED
    BY <2>1
<1>4. \A v \in Created : Resolves(v) => Follow(v) \in Trail(v) /\ Follow(v) \in Created
  BY FollowExists DEF RegistryOK
<1> HIDE DEF rows
<1>5. /\ saved' \in [Users -> [Works -> 0 .. clock]] /\ saved'[u] = rows
      /\ \A v \in Users \ {u} : saved'[v] = saved[v]
  BY <1>1, <1>2, <1>3
<1>6. TimesOK'
  BY <1>1, <1>5 DEF RegistryOK, TimesOK, Works
<1>7. target' \in [Users -> Created \cup {0}]
  BY <1>1 DEF RegistryOK, TypeOK, WorksOK
<1>8. ASSUME NEW v \in Users, NEW x \in Works, saved'[v][x] # 0 PROVE x \in Created
  <2>1. CASE v = u
    <3>1. PICK y \in Led(x) : saved[u][y] # 0
      BY <1>3, <1>5, <1>8, <2>1
    <3>2. QED
      BY <1>1, <1>4, <3>1
  <2>2. CASE v # u
    BY <1>5, <1>8, <2>2 DEF RegistryOK, WorksOK
  <2>3. QED
    BY <2>1, <2>2
<1>9. ASSUME NEW x \in Works, Survives(u, x) PROVE Survives(u, x)'
  <2>1. Trail(x)' = Trail(x)
    BY <1>1 DEF Trail, Closed, Works
  <2>2. ASSUME latest[u][x] # 0, Trail(x) \cap retaken = {}
        PROVE  \E v \in Trail(x) : saved'[u][v] >= latest[u][x]
    <3>1. PICK v \in Trail(x) : saved[u][v] >= latest[u][x]
      BY <1>9, <2>2 DEF Survives
    <3>2. v \in Works /\ latest[u][x] \in 0 .. clock /\ saved[u][v] \in Nat
      BY <1>2, <3>1 DEF Trail, RegistryOK, TimesOK
    <3>3. saved[u][v] # 0 /\ v \in Created
      <4>1. saved[u][v] # 0
        BY <1>2, <2>2, <3>1, <3>2
      <4>2. QED
        BY <3>2, <4>1 DEF RegistryOK, WorksOK
    <3>4. /\ Resolves(v) /\ Follow(v) \in Trail(v) /\ Follow(v) \in Works
          /\ v \in Led(Follow(v))
      BY <1>1, <1>2, <1>4, <3>3
    <3>5. Follow(v) \in Trail(x)
      BY <3>1, <3>4, TrailOfTrail DEF RegistryConstants, RegistryOK, TypeOK, Redirects
    <3>6. saved'[u][Follow(v)] >= latest[u][x]
      <4>1. saved[u][v] <= rows[Follow(v)] /\ rows[Follow(v)] \in 0 .. clock
        BY <1>3, <3>4
      <4>2. QED
        BY <1>2, <1>5, <3>1, <3>2, <4>1
    <3>7. QED
      BY <3>5, <3>6
  <2>3. QED
    BY <1>1, <2>1, <2>2 DEF Survives
<1>10. SavedSurvives'
  <2>1. \A v \in Users \ {u} : saved'[v] = saved[v] /\ latest'[v] = latest[v]
    BY <1>1, <1>5
  <2>2. QED
    BY <1>1, <1>9, <2>1, OneUsersStep
<1>11. clock' \in clock .. MaxTime
  BY <1>1, <1>2 DEF RegistryConstants
<1>12. QED
  BY <1>1, <1>6, <1>7, <1>8, <1>10, <1>11, LibraryStep

LEMMA RemoveStep ==
  ASSUME RegistryConstants, RegistryOK, NEW u \in Users, RemoveRow(u)
  PROVE  RegistryOK'
<1> DEFINE to == target[u]
           row == [saved[u] EXCEPT ![to] = 0]
           last == [w \in Works |-> IF to \in Trail(w) THEN 0 ELSE latest[u][w]]
<1>1. /\ to # 0
      /\ saved' = [saved EXCEPT ![u] = row] /\ latest' = [latest EXCEPT ![u] = last]
      /\ target' = [target EXCEPT ![u] = 0]
      /\ unsafe' = unsafe \cup Disturbed(Tx)
      /\ UNCHANGED <<type, redirect, owner, tx, clock, first, retaken>>
  BY DEF RemoveRow
<1>2. to \in Created /\ to \in Works
  BY <1>1 DEF RegistryOK, WorksOK, TypeOK
<1>3. /\ clock \in Nat /\ clock <= MaxTime
      /\ saved \in [Users -> [Works -> 0 .. clock]] /\ latest \in [Users -> [Works -> 0 .. clock]]
  BY DEF RegistryConstants, RegistryOK, TypeOK, TimesOK
<1>4. /\ row \in [Works -> 0 .. clock] /\ row[to] = 0 /\ \A v \in Works \ {to} : row[v] = saved[u][v]
      /\ last \in [Works -> 0 .. clock]
      /\ \A w \in Works : last[w] # 0 => to \notin Trail(w) /\ last[w] = latest[u][w]
  BY <1>2, <1>3
<1> HIDE DEF to, row, last
<1>5. /\ TimesOK' /\ target' \in [Users -> Created \cup {0}]
      /\ saved'[u] = row /\ latest'[u] = last
      /\ \A v \in Users \ {u} : saved'[v] = saved[v] /\ latest'[v] = latest[v]
  BY <1>1, <1>3, <1>4 DEF RegistryOK, TypeOK, TimesOK, WorksOK, Works
<1>6. ASSUME NEW v \in Users, NEW x \in Works, saved'[v][x] # 0 PROVE x \in Created
  BY <1>2, <1>4, <1>5, <1>6 DEF RegistryOK, WorksOK
<1>7. ASSUME NEW x \in Works, Survives(u, x) PROVE Survives(u, x)'
  <2>1. Trail(x)' = Trail(x)
    BY <1>1 DEF Trail, Closed, Works
  <2>2. ASSUME latest'[u][x] # 0, Trail(x) \cap retaken = {}
        PROVE  \E v \in Trail(x) : saved'[u][v] >= latest'[u][x]
    <3>1. to \notin Trail(x) /\ latest'[u][x] = latest[u][x]
      BY <1>4, <1>5, <2>2
    <3>2. PICK v \in Trail(x) : saved[u][v] >= latest[u][x]
      BY <1>7, <2>2, <3>1 DEF Survives
    <3>3. v \in Works \ {to}
      BY <3>1, <3>2 DEF Trail
    <3>4. saved'[u][v] = saved[u][v]
      BY <1>4, <1>5, <3>3
    <3>5. QED
      BY <3>1, <3>2, <3>4
  <2>3. QED
    BY <1>1, <2>1, <2>2 DEF Survives
<1>8. SavedSurvives'
  BY <1>1, <1>5, <1>7, OneUsersStep
<1>9. clock' \in clock .. MaxTime
  BY <1>1, <1>3 DEF RegistryConstants
<1>10. QED
  BY <1>1, <1>5, <1>6, <1>8, <1>9, LibraryStep

-----------------------------------------------------------------------------
(* The commit of a registration. *)

\* The writes of a registration that is not refused, about one work.
Merges(t, work) ==
  /\ tx[t].step = "carried"
  /\ work = IF tx[t].work = 0 THEN Cardinality(Created) + 1 ELSE tx[t].work
  /\ owner' = [a \in Alias |-> IF owner[a] \in tx[t].sources THEN work
                               ELSE IF owner[a] = 0 /\ a \in tx[t].req.aliases THEN work
                               ELSE owner[a]]
  /\ first' = [a \in Alias |-> IF first[a] = 0 THEN owner'[a] ELSE first[a]]
  /\ redirect' = [w \in Works |-> IF w \in tx[t].sources THEN work ELSE redirect[w]]
  /\ retaken' = retaken \cup {w \in tx[t].sources : redirect[w] \notin {0, work}}
  /\ \/ saved' = saved
     \/ /\ tx[t].sources # {}
        /\ saved' = [u \in Users |-> [w \in Works |->
                       IF w \in tx[t].sources \cup {work}
                       THEN Merged(tx[t].rows[u], tx[t].sources, work)[w] ELSE saved[u][w]]]
  /\ type' = IF tx[t].work = 0
             THEN [w \in Created \cup {work} |-> IF w = work THEN tx[t].req.type ELSE type[w]]
             ELSE type

LEMMA CommitEffect ==
  ASSUME RegistryOK, NEW t \in Tx, Commit(t)
  PROVE  /\ tx' = [tx EXCEPT ![t] = Idle] /\ tx[t].step = "carried"
         /\ unsafe' = unsafe \cup Disturbed(Tx \ {t}) /\ UNCHANGED <<target, clock, latest>>
         /\ \/ UNCHANGED <<type, redirect, owner, saved, first, retaken>>
            \/ \E work \in Works : Merges(t, work)
<1> DEFINE req == tx[t].req
           sources == tx[t].sources
           new == tx[t].work = 0
           work == IF new THEN Cardinality(Created) + 1 ELSE tx[t].work
           touched == sources \cup {work}
           some == \E u \in Users, w \in touched : tx[t].rows[u][w] # 0
           moved == [a \in Alias |-> IF owner[a] \in sources THEN work ELSE owner[a]]
           clash == \E a \in req.aliases, b \in Alias :
                      moved[b] = work /\ a # b /\ Space[a] = Space[b]
           inserted == [a \in Alias |-> IF moved[a] = 0 /\ a \in req.aliases THEN work ELSE moved[a]]
<1>1. /\ tx[t].step = "carried" /\ work \in Works /\ tx' = [tx EXCEPT ![t] = Idle]
      /\ IF clash THEN UNCHANGED <<type, redirect, owner, saved, first, retaken>> ELSE
           /\ owner' = inserted
           /\ first' = [a \in Alias |-> IF first[a] = 0 THEN inserted[a] ELSE first[a]]
           /\ redirect' = [w \in Works |-> IF w \in sources THEN work ELSE redirect[w]]
           /\ retaken' = retaken \cup {w \in sources : redirect[w] \notin {0, work}}
           /\ saved' = IF sources = {} \/ ~some THEN saved
                       ELSE [u \in Users |-> [w \in Works |->
                              IF w \in touched THEN Merged(tx[t].rows[u], sources, work)[w]
                              ELSE saved[u][w]]]
           /\ type' = IF new THEN [w \in Created \cup {work} |-> IF w = work THEN req.type ELSE type[w]]
                      ELSE type
      /\ unsafe' = unsafe \cup Disturbed(Tx \ {t}) /\ UNCHANGED <<target, clock, latest>>
  BY DEF Commit
<1>2. ASSUME ~clash PROVE Merges(t, work)
  <2>1. inserted = [a \in Alias |-> IF owner[a] \in sources THEN work
                                    ELSE IF owner[a] = 0 /\ a \in req.aliases THEN work
                                    ELSE owner[a]]
    <3>1. work # 0
      BY <1>1 DEF Works
    <3> HIDE DEF work, sources, req
    <3>2. QED
      BY <3>1
  <2>2. /\ owner' = inserted
        /\ first' = [a \in Alias |-> IF first[a] = 0 THEN owner'[a] ELSE first[a]]
        /\ redirect' = [w \in Works |-> IF w \in sources THEN work ELSE redirect[w]]
        /\ retaken' = retaken \cup {w \in sources : redirect[w] \notin {0, work}}
    <3> HIDE DEF clash, inserted, work, sources, some, new
    <3>1. QED
      BY <1>1, <1>2
  <2>3. /\ \/ saved' = saved
           \/ /\ sources # {}
              /\ saved' = [u \in Users |-> [w \in Works |->
                             IF w \in touched THEN Merged(tx[t].rows[u], sources, work)[w]
                             ELSE saved[u][w]]]
        /\ type' = IF new THEN [w \in Created \cup {work} |-> IF w = work THEN req.type ELSE type[w]]
                   ELSE type
    <3> HIDE DEF clash, inserted, work, touched, sources, some, new, req
    <3>1. QED
      BY <1>1, <1>2
  <2> HIDE DEF clash
  <2>4. QED
    BY <1>1, <2>1, <2>2, <2>3 DEF Merges
<1>3. QED
  <2> HIDE DEF clash, work
  <2>1. QED
    BY <1>1, <1>2

\* A registration that is refused at its end only leaves its step.
LEMMA RefusedStep ==
  ASSUME RegistryOK, NEW t \in Tx, tx' = [tx EXCEPT ![t] = Idle],
         unsafe' = unsafe \cup Disturbed(Tx \ {t}),
         UNCHANGED <<type, redirect, owner, saved, target, clock, first, latest, retaken>>
  PROVE  RegistryOK'
<1>1. unsafe' = unsafe
  BY DEF Disturbed
<1>2. /\ tx'[t].step = "idle" /\ \A s \in Tx \ {t} : tx'[s] = tx[s]
      /\ tx' = [s \in Tx |-> tx'[s]]
  BY DEF RegistryOK, TxOK, Idle
<1>3. TxOK' /\ \A s \in Tx : tx'[s].step \in {"idle", "locked", "matched", "carried"}
  BY <1>1, <1>2 DEF RegistryOK, TypeOK, TxOK, ChoiceOK, Created, Works
<1>4. RowsCurrent'
  BY <1>1, <1>2, OthersKeepRows DEF RegistryOK
<1>5. QED
  BY <1>1, <1>3, <1>4, ReadingStep

\* The works that exist after a merge.
LEMMA MergedWorks ==
  ASSUME RegistryConstants, RegistryOK, NEW t \in Tx, NEW work \in Works, Merges(t, work)
  PROVE  /\ work \in Created' /\ Created \subseteq Created' /\ Created' \subseteq Works
         /\ Created' = 1 .. Cardinality(Created') /\ \A w \in Created' : type'[w] \in Types
         /\ tx[t].sources \subseteq Created /\ work \notin tx[t].sources
<1>1. /\ tx[t].work \in Created \cup {0} /\ tx[t].sources \subseteq Created
      /\ tx[t].work \notin tx[t].sources /\ (tx[t].work = 0 => tx[t].sources = {})
      /\ tx[t].req.type \in Types
  BY DEF Merges, RegistryConstants, RegistryOK, TxOK, ChoiceOK
<1>2. /\ Created = 1 .. Cardinality(Created) /\ Created \subseteq Works /\ Works = 1 .. MaxWorks
      /\ MaxWorks \in Nat /\ \A w \in Created : type[w] \in Types
  BY DEF RegistryConstants, RegistryOK, TypeOK, Works
<1>3. Cardinality(Created) \in Nat
  <2>1. MaxWorks \in Int /\ 1 \in Int
    BY <1>2
  <2>2. IsFiniteSet(1 .. MaxWorks)
    BY <2>1, FS_Interval
  <2>3. IsFiniteSet(Created)
    BY <1>2, <2>2, FS_Subset
  <2>4. QED
    BY <2>3, FS_CardinalityType
<1>4. CASE tx[t].work = 0
  <2>1. /\ work = Cardinality(Created) + 1
        /\ type' = [w \in Created \cup {work} |-> IF w = work THEN tx[t].req.type ELSE type[w]]
    BY <1>4 DEF Merges
  <2>2. Created' = Created \cup {work}
    BY <2>1 DEF Created
  <2>3. Created' = 1 .. work
    BY <1>2, <1>3, <2>1, <2>2
  <2>4. Cardinality(1 .. work) = work
    <3>1. work \in Nat /\ 1 \in Int /\ work \in Int /\ work >= 1
      BY <1>3, <2>1
    <3>2. Cardinality(1 .. work) = work - 1 + 1
      BY <3>1, FS_Interval
    <3>3. QED
      BY <3>1, <3>2
  <2>5. \A w \in Created' : type'[w] \in Types
    BY <1>1, <1>2, <2>1, <2>2
  <2>6. QED
    BY <1>1, <1>2, <1>4, <2>2, <2>3, <2>4, <2>5
<1>5. CASE tx[t].work # 0
  <2>1. type' = type /\ work = tx[t].work
    BY <1>5 DEF Merges
  <2>2. Created' = Created
    BY <2>1 DEF Created
  <2>3. QED
    BY <1>1, <1>2, <1>5, <2>1, <2>2
<1>6. QED
  BY <1>4, <1>5

\* What becomes of the rows of a user.
LEMMA MovedRows ==
  ASSUME RegistryConstants, RegistryOK, NEW t \in Tx, NEW work \in Works, Merges(t, work),
         NEW u \in Users
  PROVE  /\ saved'[u] \in [Works -> 0 .. clock]
         /\ \A w \in Works : saved'[u][w] # 0 =>
              w \in tx[t].sources \cup {work} \/ saved'[u][w] = saved[u][w]
         /\ u \notin unsafe => \A v \in Works :
              IF v \in tx[t].sources
              THEN saved'[u][work] >= saved[u][v] \/ saved'[u][v] = saved[u][v]
              ELSE saved'[u][v] >= saved[u][v]
<1> DEFINE ws == tx[t].sources
           rows == tx[t].rows[u]
           merged == Merged(rows, ws, work)
<1>1. /\ clock \in Nat /\ saved[u] \in [Works -> 0 .. clock] /\ rows \in [Works -> 0 .. clock]
      /\ ws \in SUBSET Works /\ work \notin ws
  <2>1. clock \in Nat /\ saved[u] \in [Works -> 0 .. clock]
    BY DEF RegistryConstants, RegistryOK, TypeOK, TimesOK
  <2>2. tx[t].step = "carried"
    BY DEF Merges
  <2>3. rows \in [Works -> 0 .. clock]
    BY <2>2 DEF RegistryOK, TxOK
  <2>4. tx[t].sources \subseteq Created /\ Created \subseteq Works /\ work \notin tx[t].sources
    BY MergedWorks DEF RegistryOK, TypeOK
  <2>5. QED
    BY <2>1, <2>3, <2>4
<1>2. CASE saved' = saved
  <2>1. saved'[u] = saved[u] /\ \A v \in Works : saved[u][v] >= saved[u][v]
    BY <1>1, <1>2
  <2>2. QED
    BY <1>1, <2>1
<1>3. CASE saved' # saved
  <2>1. /\ ws # {}
        /\ saved'[u] = [w \in Works |-> IF w \in ws \cup {work} THEN merged[w] ELSE saved[u][w]]
    BY <1>3 DEF Merges
  <2>2. NewestKept(merged, rows, ws, work, clock)
    <3> HIDE DEF ws, rows
    <3>1. QED
      BY <1>1, MergedRows
  <2>3. u \notin unsafe => \A v \in ws \cup {work} : rows[v] = saved[u][v]
    <3>1. tx[t].step = "carried" /\ ChoiceOK(t)
      BY DEF Merges, RegistryOK, TxOK
    <3>2. tx[t].work # 0 /\ work = tx[t].work
      BY <2>1, <3>1 DEF Merges, ChoiceOK
    <3>3. QED
      BY <2>1, <3>1, <3>2 DEF RegistryOK, RowsCurrent
  <2> HIDE DEF ws, rows, merged
  <2>4. /\ merged \in [Works -> 0 .. clock]
        /\ \A v \in ws \cup {work} : rows[v] <= merged[work]
    BY <2>2 DEF NewestKept
  <2>5. saved'[u] \in [Works -> 0 .. clock]
    BY <1>1, <2>1, <2>4
  <2>6. ASSUME u \notin unsafe, NEW v \in Works
        PROVE  IF v \in ws THEN saved'[u][work] >= saved[u][v] ELSE saved'[u][v] >= saved[u][v]
    <3>1. saved'[u][work] = merged[work]
      BY <2>1
    <3>2. CASE v \in ws
      BY <1>1, <2>3, <2>4, <2>6, <3>1, <3>2
    <3>3. CASE v = work
      BY <1>1, <2>3, <2>4, <2>6, <3>1, <3>3
    <3>4. CASE v \notin ws \cup {work}
      <4>1. saved'[u][v] = saved[u][v] /\ saved[u][v] \in Nat
        BY <1>1, <2>1, <3>4
      <4>2. QED
        BY <3>4, <4>1
    <3>5. QED
      BY <3>2, <3>3, <3>4
  <2>7. \A w \in Works : saved'[u][w] # 0 => w \in ws \cup {work} \/ saved'[u][w] = saved[u][w]
    BY <2>1
  <2>8. QED
    BY <2>5, <2>6, <2>7 DEF ws
<1>4. QED
  BY <1>2, <1>3

\* What is to be followed after a merge: trails that no redirect was written over on.
LEMMA TrailsAfter ==
  ASSUME RegistryConstants, RegistryOK, NEW t \in Tx, NEW work \in Works, Merges(t, work),
         NEW w \in Works, Trail(w)' \cap retaken' = {}
  PROVE  /\ Trail(w) \subseteq Trail(w)' /\ Trail(w) \cap retaken = {} /\ w \in Trail(w)'
         /\ \A v \in Trail(w) \cap tx[t].sources : work \in Trail(w)'
<1>1. /\ redirect \in [Works -> 0 .. MaxWorks] /\ MaxWorks \in Nat /\ work \in 0 .. MaxWorks
      /\ work # 0
  BY DEF RegistryConstants, RegistryOK, TypeOK, Works
<1>2. /\ redirect' = [v \in Works |-> IF v \in tx[t].sources THEN work ELSE redirect[v]]
      /\ retaken' = retaken \cup {v \in tx[t].sources : redirect[v] \notin {0, work}}
  BY DEF Merges
<1>3. redirect' \in [Works -> 0 .. MaxWorks]
  BY <1>1, <1>2
<1>4. \A p \in Works \ retaken' : redirect[p] # 0 => redirect'[p] = redirect[p]
  BY <1>2
<1>5. Trail(w) \subseteq Trail(w)'
  BY <1>1, <1>3, <1>4, TrailGrows DEF Redirects, Works
<1>6. w \in Trail(w) /\ Trail(w) \subseteq Works
  BY DEF Trail
<1>7. ASSUME NEW v \in Trail(w) \cap tx[t].sources PROVE work \in Trail(w)'
  <2>1. v \in Works /\ redirect'[v] = work
    BY <1>2, <1>6
  <2>2. QED
    BY <1>1, <1>3, <1>5, <2>1, TrailFollowsNext DEF Redirects, Works
<1>8. retaken \subseteq retaken'
  BY <1>2
<1>9. QED
  BY <1>5, <1>6, <1>7, <1>8

LEMMA MergeStep ==
  ASSUME RegistryConstants, RegistryOK, NEW t \in Tx, NEW work \in Works, Merges(t, work),
         tx' = [tx EXCEPT ![t] = Idle], unsafe' = unsafe \cup Disturbed(Tx \ {t}),
         UNCHANGED <<target, clock, latest>>
  PROVE  RegistryOK'
<1> DEFINE ws == tx[t].sources
<1>1. /\ tx'[t].step = "idle" /\ \A s \in Tx \ {t} : tx'[s] = tx[s]
      /\ tx' = [s \in Tx |-> tx'[s]]
  BY DEF RegistryOK, TxOK, Idle
<1>2. /\ work \in Created' /\ Created \subseteq Created' /\ Created' \subseteq Works
      /\ Created' = 1 .. Cardinality(Created') /\ \A w \in Created' : type'[w] \in Types
  BY MergedWorks
<1>3. ws \subseteq Created /\ work \notin ws /\ work \in 0 .. MaxWorks /\ work # 0
  BY MergedWorks DEF RegistryConstants, Works
<1>4. /\ owner' = [a \in Alias |-> IF owner[a] \in ws THEN work
                                   ELSE IF owner[a] = 0 /\ a \in tx[t].req.aliases THEN work
                                   ELSE owner[a]]
      /\ first' = [a \in Alias |-> IF first[a] = 0 THEN owner'[a] ELSE first[a]]
      /\ redirect' = [w \in Works |-> IF w \in ws THEN work ELSE redirect[w]]
      /\ retaken' = retaken \cup {w \in ws : redirect[w] \notin {0, work}}
  BY DEF Merges
<1>5. /\ saved' \in [Users -> [Works -> 0 .. clock]]
      /\ \A u \in Users, w \in Works : saved'[u][w] # 0 =>
           w \in ws \cup {work} \/ saved'[u][w] = saved[u][w]
  <2>1. saved' = [u \in Users |-> saved'[u]]
    <3>1. CASE saved' = saved
      BY <3>1 DEF RegistryOK, TimesOK
    <3>2. CASE saved' # saved
      BY <3>2 DEF Merges
    <3>3. QED
      BY <3>1, <3>2
  <2>2. QED
    BY <2>1, MovedRows
<1>6. TypeOK'
  <2>1. 0 .. clock \subseteq 0 .. MaxTime
    BY DEF RegistryConstants, RegistryOK, TypeOK
  <2>2. saved' \in [Users -> [Works -> 0 .. MaxTime]]
    BY <1>5, <2>1
  <2>3. owner' \in [Alias -> 0 .. MaxWorks] /\ redirect' \in [Works -> 0 .. MaxWorks]
    BY <1>3, <1>4 DEF RegistryOK, TypeOK
  <2>4. \A s \in Tx : tx'[s].step \in {"idle", "locked", "matched", "carried"}
    BY <1>1 DEF RegistryOK, TypeOK
  <2>5. target' \in [Users -> 0 .. MaxWorks] /\ clock' \in 0 .. MaxTime
    BY DEF RegistryOK, TypeOK
  <2>6. QED
    BY <1>2, <2>2, <2>3, <2>4, <2>5 DEF TypeOK, Works
<1>7. TimesOK'
  BY <1>5 DEF RegistryOK, TimesOK, Works
<1>8. WorksOK'
  <2>1. first' \in [Alias -> 0 .. MaxWorks]
    BY <1>3, <1>4 DEF RegistryOK, TypeOK, WorksOK
  <2>2. \A w \in Works : redirect'[w] # 0 => w \in Created' /\ redirect'[w] \in Created'
    BY <1>2, <1>3, <1>4 DEF RegistryOK, WorksOK
  <2>3. \A a \in Alias : owner'[a] \in Created' \cup {0} /\ (first'[a] = 0 <=> owner'[a] = 0)
    BY <1>2, <1>3, <1>4 DEF RegistryOK, WorksOK
  <2>4. \A u \in Users : target'[u] \in Created' \cup {0}
    BY <1>2 DEF RegistryOK, WorksOK
  <2>5. \A u \in Users, w \in Works : saved'[u][w] # 0 => w \in Created'
    BY <1>2, <1>3, <1>5 DEF RegistryOK, WorksOK
  <2>6. QED
    BY <2>1, <2>2, <2>3, <2>4, <2>5 DEF WorksOK, Works
<1>9. TxOK'
  <2>1. ASSUME NEW s \in Tx
        PROVE  /\ tx'[s].step # "idle" => tx'[s].req \in Requests
               /\ ChoiceOK(s)'
               /\ tx'[s].step = "carried" => tx'[s].rows \in [Users -> [Works -> 0 .. clock]]
    <3>1. CASE s = t
      BY <1>1, <3>1 DEF ChoiceOK
    <3>2. CASE s # t
      <4>1. tx'[s] = tx[s]
        BY <1>1, <3>2
      <4>2. ChoiceOK(s)'
        BY <1>2, <4>1 DEF RegistryOK, TxOK, ChoiceOK
      <4>3. QED
        BY <4>1, <4>2 DEF RegistryOK, TxOK
    <3>3. QED
      BY <3>1, <3>2
  <2>2. QED
    BY <1>1, <2>1 DEF TxOK, Works
<1>10. RowsCurrent'
  <2>1. ASSUME NEW s \in Tx, NEW u \in Users \ unsafe', tx'[s].step = "carried",
               tx'[s].sources # {}, NEW w \in tx'[s].sources \cup {tx'[s].work}
        PROVE  tx'[s].rows[u][w] = saved'[u][w]
    <3>1. s # t /\ tx'[s] = tx[s]
      BY <1>1, <2>1
    <3>2. u \notin Disturbed(Tx \ {t}) /\ u \in Users \ unsafe
      BY <2>1
    <3>3. saved'[u] = saved[u]
      BY <2>1, <3>1, <3>2 DEF Disturbed
    <3>4. QED
      BY <2>1, <3>1, <3>2, <3>3 DEF RegistryOK, RowsCurrent
  <2>2. QED
    BY <2>1 DEF RowsCurrent
<1>11. RouteAndAliasAgree'
  <2>1. ASSUME NEW a \in Alias, NEW w \in Works, first'[a] = w, Trail(w)' \cap retaken' = {}
        PROVE  owner'[a] \in Trail(w)'
    <3>1. CASE first[a] = 0
      <4>1. w = owner'[a]
        BY <1>4, <2>1, <3>1
      <4>2. QED
        BY <2>1, <4>1, TrailsAfter
    <3>2. CASE first[a] # 0
      <4>1. w = first[a] /\ owner[a] # 0
        BY <1>4, <2>1, <3>2 DEF RegistryOK, WorksOK
      <4>2. /\ Trail(w) \subseteq Trail(w)' /\ Trail(w) \cap retaken = {}
            /\ \A v \in Trail(w) \cap ws : work \in Trail(w)'
        BY <2>1, TrailsAfter
      <4>3. owner[a] \in Trail(w)
        BY <3>2, <4>1, <4>2 DEF RegistryOK, RouteAndAliasAgree
      <4>4. owner'[a] = IF owner[a] \in ws THEN work ELSE owner[a]
        BY <1>4, <4>1
      <4>5. QED
        BY <4>2, <4>3, <4>4
    <3>3. QED
      BY <3>1, <3>2
  <2>2. ASSUME NEW a \in Alias, first'[a] # 0 PROVE first'[a] \in Works
    BY <1>3, <1>4, <2>2 DEF RegistryOK, TypeOK, WorksOK, Works
  <2>3. \A a \in Alias : \A w \in Works : first'[a] = w => Trail(first[a])' = Trail(w)'
    BY DEF Trail, Closed, Works
  <2>4. QED
    BY <2>1, <2>2, <2>3 DEF RouteAndAliasAgree
<1>12. SavedSurvives'
  <2>1. ASSUME NEW u \in Users \ unsafe', NEW w \in Works, latest[u][w] # 0,
               Trail(w)' \cap retaken' = {}
        PROVE  \E v \in Trail(w)' : saved'[u][v] >= latest[u][w]
    <3>1. /\ Trail(w) \subseteq Trail(w)' /\ Trail(w) \cap retaken = {}
          /\ \A v \in Trail(w) \cap ws : work \in Trail(w)'
      BY <2>1, TrailsAfter
    <3>2. u \in Users \ unsafe
      BY <2>1
    <3>3. PICK v \in Trail(w) : saved[u][v] >= latest[u][w]
      BY <2>1, <3>1, <3>2 DEF RegistryOK, SavedSurvives
    <3>4. v \in Works
      BY DEF Trail
    <3>5. /\ saved[u][v] \in Int /\ latest[u][w] \in Int /\ saved'[u][v] \in Int
          /\ saved'[u][work] \in Int
      BY <1>5, <3>4 DEF RegistryOK, TimesOK
    <3>6. IF v \in ws THEN saved'[u][work] >= saved[u][v] \/ saved'[u][v] = saved[u][v]
          ELSE saved'[u][v] >= saved[u][v]
      BY <3>2, <3>4, MovedRows
    <3>7. CASE v \in ws /\ saved'[u][work] >= saved[u][v]
      BY <3>1, <3>3, <3>5, <3>7
    <3>8. CASE saved'[u][v] >= saved[u][v]
      BY <3>1, <3>3, <3>5, <3>8
    <3>9. QED
      BY <3>5, <3>6, <3>7, <3>8
  <2>2. QED
    BY <2>1 DEF SavedSurvives, Works
<1>13. QED
  BY <1>6, <1>7, <1>8, <1>9, <1>10, <1>11, <1>12 DEF RegistryOK

LEMMA CommitStep ==
  ASSUME RegistryConstants, RegistryOK, NEW t \in Tx, Commit(t)
  PROVE  RegistryOK'
<1>1. /\ tx' = [tx EXCEPT ![t] = Idle] /\ unsafe' = unsafe \cup Disturbed(Tx \ {t})
      /\ UNCHANGED <<target, clock, latest>>
      /\ \/ UNCHANGED <<type, redirect, owner, saved, first, retaken>>
         \/ \E work \in Works : Merges(t, work)
  BY CommitEffect
<1>2. CASE UNCHANGED <<type, redirect, owner, saved, first, retaken>>
  BY <1>1, <1>2, RefusedStep
<1>3. CASE \E work \in Works : Merges(t, work)
  BY <1>1, <1>3, MergeStep
<1>4. QED
  BY <1>1, <1>2, <1>3

-----------------------------------------------------------------------------
(* Every step, and the specification. *)

LEMMA StepOK ==
  ASSUME RegistryConstants, RegistryOK, [Next]_vars
  PROVE  RegistryOK'
<1>1. ASSUME NEW t \in Tx, NEW req \in Requests, LockAliases(t, req) PROVE RegistryOK'
  BY <1>1, LockStep
<1>2. ASSUME NEW t \in Tx, MatchWorks(t) \/ ReadUserRows(t) \/ Commit(t) PROVE RegistryOK'
  BY <1>2, MatchStep, ReadRowsStep, CommitStep
<1>3. ASSUME NEW u \in Users, NEW w \in Works, ResolveSave(u, w) PROVE RegistryOK'
  BY <1>3, ResolveStep
<1>4. ASSUME NEW u \in Users, SaveRow(u) \/ ListRows(u) \/ RemoveRow(u) PROVE RegistryOK'
  BY <1>4, SaveStep, ListStep, RemoveStep
<1>5. CASE UNCHANGED vars
  <2>1. UNCHANGED <<type, redirect, owner, tx, saved, target, clock, first, latest, unsafe, retaken>>
    BY <1>5 DEF vars
  <2>2. TxOK' /\ RowsCurrent' /\ \A t \in Tx : tx'[t].step \in {"idle", "locked", "matched", "carried"}
    <3>1. TxOK' /\ \A t \in Tx : tx'[t].step \in {"idle", "locked", "matched", "carried"}
      BY <2>1 DEF RegistryOK, TypeOK, TxOK, ChoiceOK, Created, Works
    <3>2. RowsCurrent'
      BY <2>1, Zenon DEF RegistryOK, RowsCurrent
    <3>3. QED
      BY <3>1, <3>2
  <2>3. QED
    BY <2>1, <2>2, ReadingStep
<1>6. QED
  BY <1>1, <1>2, <1>3, <1>4, <1>5 DEF Next

\* What is known of works, references, registrations and rows holds in every state
\* (upsertIdentity and canonicalizeUserMediaInTransaction, whatever transactions interleave).
THEOREM RegistryInvariant ==
  ASSUME RegistryConstants PROVE Spec => []RegistryOK
<1>1. Init => RegistryOK
  BY InitOK
<1>2. RegistryOK /\ [Next]_vars => RegistryOK'
  BY StepOK
<1>3. QED
  BY <1>1, <1>2, PTL DEF Spec

\* An old route passes the work its identifiers point to now, for any number of merges that
\* interleave, as long as no two of them take one work (the updates of aliases and redirects).
THEOREM RoutesAgree ==
  ASSUME RegistryConstants PROVE Spec => []RouteAndAliasAgree
<1>1. RegistryOK => RouteAndAliasAgree
  BY DEF RegistryOK
<1>2. QED
  BY <1>1, RegistryInvariant, PTL

\* What a user saved last about a work stays in the library, on a work the old one leads to
\* (saves, listings and merges, in any order).
THEOREM LibrarySurvives ==
  ASSUME RegistryConstants PROVE Spec => []SavedSurvives
<1>1. RegistryOK => SavedSurvives
  BY DEF RegistryOK
<1>2. QED
  BY <1>1, RegistryInvariant, PTL
================================================================================

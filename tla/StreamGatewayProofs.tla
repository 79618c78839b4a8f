-------------------------- MODULE StreamGatewayProofs --------------------------
(***************************************************************************)
(* Proofs about StreamGateway, for any number of sessions, callers and     *)
(* generations and for any limit on workers.                               *)
(*                                                                         *)
(* The gateway has no lock: what keeps two calls apart is what each leaves *)
(* in the maps before it awaits.  GatewayOK says what that is.  A start    *)
(* holds its session's reservation from its first step to its last         *)
(* (CallsOK, OneStart); while a session is reserved or being stopped its   *)
(* worker is out of the maps (MapsOK), so that a process still running is  *)
(* one the maps name, and one that was sent SIGTERM is waited for          *)
(* (ProcessesOK); and a stop that came too late for a process cancelled    *)
(* the start that would have spawned it (TargetsOK).                       *)
(***************************************************************************)
EXTENDS StreamGateway, FiniteSetTheorems, TLAPS

StartStep == {"start_stopping", "start_waiting", "start_seek", "start_spawn",
              "start_clean"}
Stopper == {"start_stopping", "stop_stopping"}
Waiter == {"start_waiting", "stop_waiting"}

CallOK(c) ==
  LET m == call[c] IN
  /\ m.step # "idle" => m.session \in Session
  /\ m.step \in StartStep =>
       m.gen \in Generation /\ starting[m.session] = m.gen /\ m.targets = {}
  /\ m.step \in Stopper => stopping[m.session] = c
  /\ m.step \in Waiter =>
       stopping[m.session] # None /\ m.awaits = stopping[m.session]
  /\ m.step \in {"start_seek", "start_spawn"} /\ stopping[m.session] # None =>
       m.session \in cancelled

CallsOK == \A c \in Caller : CallOK(c)

OneStart ==
  \A c, d \in Caller :
    /\ call[c].step \in StartStep /\ call[d].step \in StartStep
    /\ call[c].session = call[d].session
    => c = d

MapsOK ==
  \A s \in Session :
    /\ stopping[s] # None \/ starting[s] # 0 => worker[s] = 0 /\ completed[s] = 0
    /\ worker[s] # 0 => completed[s] = 0 /\ ~Unstarted(s, worker[s])
    /\ starting[s] # 0 => ~Unstarted(s, starting[s])
    /\ s \in cancelled => starting[s] # 0

ProcessesOK ==
  \A s \in Session, g \in Generation :
    /\ process[<<s, g>>] = "running" => worker[s] = g
    /\ process[<<s, g>>] = "term" =>
         /\ stopping[s] # None
         /\ \A h \in Generation : process[<<s, h>>] = "term" => g = h

TargetsOK ==
  \A c \in Caller :
    call[c].step \in {"stop_stopping", "stop_waiting", "returned"} =>
      \A g \in call[c].targets :
        /\ process[<<call[c].session, g>>] # "running"
        /\ ~Unstarted(call[c].session, g)
        /\ starting[call[c].session] = g => call[c].session \in cancelled

GatewayOK ==
  TypeOK /\ CallsOK /\ OneStart /\ MapsOK /\ ProcessesOK /\ TargetsOK

\* What a step does to the directories: a generation that is in the maps when
\* it ends either has its directory then or was there without one before.
KeepsArtifacts ==
  \A s \in Session, g \in Generation :
    /\ HasGeneration(s, g)'
    /\ HasGeneration(s, g) => <<s, g>> \in dirs
    => <<s, g>> \in dirs'

-----------------------------------------------------------------------------

LEMMA IdleIsCall == Idle \in Call
BY GatewayAssumption DEF Idle, Call, Step, Slot, Generation

LEMMA InitGatewayOK == Init => GatewayOK
<1> SUFFICES ASSUME Init PROVE GatewayOK
  OBVIOUS
<1>1. TypeOK
  BY IdleIsCall, GatewayAssumption DEF Init, TypeOK, Slot, ProcessState, Mode
<1>2. CallsOK /\ OneStart /\ TargetsOK
  BY DEF Init, CallsOK, CallOK, OneStart, TargetsOK, Idle, StartStep, Stopper,
     Waiter
<1>3. MapsOK /\ ProcessesOK
  BY DEF Init, MapsOK, ProcessesOK
<1>4. QED
  BY <1>1, <1>2, <1>3 DEF GatewayOK

\* stopWorker up to its first await, for whoever calls it.
LEMMA StopWorkerMaps ==
  ASSUME TypeOK, MapsOK, ProcessesOK, NEW c \in Caller, NEW s \in Session,
         stopping[s] = None, StopWorker(c, s)
  PROVE  /\ worker' = [worker EXCEPT ![s] = 0]
         /\ completed' = [completed EXCEPT ![s] = 0]
         /\ stopping' = [stopping EXCEPT ![s] = c]
         /\ process' \in [Session \X Generation -> ProcessState]
         /\ \A t \in Session, g \in Generation :
              /\ process'[<<t, g>>] = "running" =>
                   process[<<t, g>>] = "running" /\ t # s
              /\ process'[<<t, g>>] = "term" =>
                   IF t = s THEN worker[t] = g ELSE process[<<t, g>>] = "term"
<1>1. \A p \in Session \X Generation :
        process'[p] = IF p = <<s, worker[s]>>
                        THEN IF process[p] = "running" THEN "term" ELSE "none"
                        ELSE process[p]
  BY DEF StopWorker
<1>2. process' \in [Session \X Generation -> ProcessState]
  BY DEF StopWorker, TypeOK, ProcessState
<1>3. ASSUME NEW t \in Session, NEW g \in Generation,
             process'[<<t, g>>] = "running"
      PROVE  process[<<t, g>>] = "running" /\ t # s
  BY <1>1, <1>3 DEF ProcessesOK
<1>4. ASSUME NEW t \in Session, NEW g \in Generation,
             process'[<<t, g>>] = "term"
      PROVE  IF t = s THEN worker[t] = g ELSE process[<<t, g>>] = "term"
  BY <1>1, <1>4 DEF ProcessesOK
<1>5. QED
  BY <1>2, <1>3, <1>4 DEF StopWorker

LEMMA StopWorkerProcesses ==
  ASSUME TypeOK, MapsOK, ProcessesOK, NEW c \in Caller, NEW s \in Session,
         stopping[s] = None, StopWorker(c, s)
  PROVE  ProcessesOK'
<1>1. c # None
  BY GatewayAssumption
<1>2. \A t \in Session :
        /\ worker'[t] = IF t = s THEN 0 ELSE worker[t]
        /\ stopping'[t] = IF t = s THEN c ELSE stopping[t]
  BY StopWorkerMaps DEF TypeOK
<1>3. ASSUME NEW t \in Session, NEW g \in Generation
      PROVE  process'[<<t, g>>] = "running" => worker'[t] = g
  BY <1>2, StopWorkerMaps DEF ProcessesOK
<1>4. ASSUME NEW t \in Session, NEW g \in Generation, NEW h \in Generation,
             process'[<<t, g>>] = "term"
      PROVE  stopping'[t] # None /\ (process'[<<t, h>>] = "term" => g = h)
  <2>1. CASE t = s
    BY <1>1, <1>2, <1>4, <2>1, StopWorkerMaps
  <2>2. CASE t # s
    BY <1>2, <1>4, <2>2, StopWorkerMaps DEF ProcessesOK
  <2>3. QED
    BY <2>1, <2>2
<1>5. QED
  BY <1>3, <1>4 DEF ProcessesOK

\* What the calls of stopWorker leave alone of the calls in progress.
LEMMA StartGatewayOK ==
  ASSUME GatewayOK, NEW c \in Caller, NEW s \in Session, NEW g \in Generation,
         NEW video \in BOOLEAN, Unstarted(s, g), Start(c, s, g, video)
  PROVE  GatewayOK' /\ KeepsArtifacts
<1> USE DEF GatewayOK
<1>1. /\ call'[c].step = IF stopping[s] = None THEN "start_stopping"
                                               ELSE "start_waiting"
      /\ call'[c].session = s /\ call'[c].gen = g /\ call'[c].targets = {}
      /\ call'[c].step = "start_waiting" => call'[c].awaits = stopping[s]
      /\ call' \in [Caller -> Call]
      /\ \A d \in Caller \ {c} : call'[d] = call[d]
  <2> DEFINE m == [step |-> IF stopping[s] = None THEN "start_stopping"
                                                  ELSE "start_waiting",
                   session |-> s, gen |-> g,
                   awaits |-> IF stopping[s] = None THEN None ELSE stopping[s],
                   targets |-> {}]
  <2>1. call' = [call EXCEPT ![c] = m]
    <3>1. CASE stopping[s] = None
      BY <3>1 DEF Start, Idle
    <3>2. CASE stopping[s] # None
      BY <3>2 DEF Start, Idle
    <3>3. QED
      BY <3>1, <3>2
  <2>2. m \in Call
    BY GatewayAssumption DEF Call, Step, Slot, Generation, TypeOK
  <2>3. QED
    BY <2>1, <2>2 DEF TypeOK
<1>2. \A t \in Session :
        /\ worker'[t] = IF t = s THEN 0 ELSE worker[t]
        /\ completed'[t] = IF t = s THEN 0 ELSE completed[t]
        /\ starting'[t] = IF t = s THEN g ELSE starting[t]
        /\ stopping'[t] = IF t = s /\ stopping[s] = None THEN c ELSE stopping[t]
  <2>1. CASE stopping[s] = None
    BY <2>1, StopWorkerMaps DEF Start, TypeOK
  <2>2. CASE stopping[s] # None
    BY <2>2 DEF Start, TypeOK, MapsOK
  <2>3. QED
    BY <2>1, <2>2
<1>3. /\ starting[s] = 0 /\ c # None /\ g # 0 /\ stopping'[s] # None
      /\ call[c].step = "idle" /\ cancelled' = cancelled /\ dirs' = dirs
      /\ \A t \in Session, h \in Generation :
           Unstarted(t, h)' => Unstarted(t, h) /\ <<t, h>> # <<s, g>>
  BY <1>2, GatewayAssumption DEF Start, TypeOK, Generation, Unstarted
<1>4. ProcessesOK' /\ \A t \in Session, h \in Generation :
                        process'[<<t, h>>] = "running" => process[<<t, h>>] = "running"
  <2>1. CASE stopping[s] = None
    BY <2>1, StopWorkerMaps, StopWorkerProcesses DEF Start
  <2>2. CASE stopping[s] # None
    BY <2>2 DEF Start, ProcessesOK
  <2>3. QED
    BY <2>1, <2>2
<1>5. TypeOK'
  <2>1. /\ worker' \in [Session -> Slot] /\ completed' \in [Session -> Slot]
        /\ stopping' \in [Session -> Caller \cup {None}]
        /\ process' \in [Session \X Generation -> ProcessState]
    <3>1. CASE stopping[s] = None
      <4>1. StopWorker(c, s)
        BY <3>1 DEF Start
      <4>2. 0 \in Slot
        BY GatewayAssumption DEF Slot
      <4>3. /\ worker' = [worker EXCEPT ![s] = 0]
            /\ completed' = [completed EXCEPT ![s] = 0]
            /\ stopping' = [stopping EXCEPT ![s] = c]
            /\ process' \in [Session \X Generation -> ProcessState]
        BY <3>1, <4>1, StopWorkerMaps
      <4>4. QED
        BY <4>2, <4>3 DEF TypeOK
    <3>2. CASE stopping[s] # None
      BY <3>2 DEF Start, TypeOK
    <3>3. QED
      BY <3>1, <3>2
  <2>2. /\ starting' \in [Session -> Slot]
        /\ mode' \in [Session \X Generation -> Mode]
    BY GatewayAssumption DEF Start, TypeOK, Mode, Slot, Generation
  <2>3. QED
    BY <1>1, <1>3, <2>1, <2>2 DEF TypeOK
<1>6. CallsOK'
  <2>1. CallOK(c)'
    BY <1>1, <1>2, <1>3 DEF CallOK, StartStep, Stopper, Waiter
  <2>2. ASSUME NEW d \in Caller \ {c}
        PROVE  CallOK(d)'
    <3>1. CallOK(d) /\ call'[d] = call[d]
      BY <1>1 DEF CallsOK
    <3>2. call[d].step \in StartStep => call[d].session # s
      BY <1>3, <3>1 DEF CallOK, Generation
    <3>3. CASE call[d].step = "idle"
      BY <3>1, <3>3 DEF CallOK, StartStep, Stopper, Waiter
    <3>4. CASE call[d].step # "idle"
      <4>1. call[d].session \in Session /\ d # None
        BY <3>1, <3>4, GatewayAssumption DEF CallOK
      <4>2. QED
        BY <1>2, <1>3, <3>1, <3>2, <4>1 DEF CallOK, StartStep, Stopper, Waiter
    <3>5. QED
      BY <3>3, <3>4
  <2>3. QED
    BY <2>1, <2>2 DEF CallsOK
<1>7. OneStart'
  <2>1. ASSUME NEW d \in Caller \ {c}, call[d].step \in StartStep
        PROVE  call[d].session # s
    BY <1>3, <2>1 DEF CallsOK, CallOK, Generation
  <2>2. QED
    BY <1>1, <2>1 DEF OneStart
<1>8. MapsOK'
  BY <1>2, <1>3 DEF MapsOK, TypeOK, Slot, Generation
<1>9. TargetsOK'
  <2>1. ASSUME NEW d \in Caller \ {c}, NEW h \in call[d].targets,
               call[d].step \in {"stop_stopping", "stop_waiting", "returned"}
        PROVE  /\ process'[<<call[d].session, h>>] # "running"
               /\ ~Unstarted(call[d].session, h)'
               /\ starting'[call[d].session] = h => call[d].session \in cancelled'
    <3>1. call[d].session \in Session /\ h \in Generation
      BY <2>1 DEF CallsOK, CallOK, TypeOK, Call
    <3>2. /\ process[<<call[d].session, h>>] # "running"
          /\ ~Unstarted(call[d].session, h)
          /\ starting[call[d].session] = h => call[d].session \in cancelled
      BY <2>1 DEF TargetsOK
    <3>3. QED
      BY <1>1, <1>2, <1>3, <1>4, <3>1, <3>2 DEF Unstarted
  <2>2. QED
    BY <1>1, <2>1 DEF TargetsOK
<1>10. KeepsArtifacts
  BY <1>2, <1>3 DEF KeepsArtifacts, HasGeneration, Generation
<1>11. QED
  BY <1>4, <1>5, <1>6, <1>7, <1>8, <1>9, <1>10

\* A call that takes its next step.
LEMMA StepTo ==
  ASSUME TypeOK, NEW c \in Caller, NEW step \in Step,
         call' = [call EXCEPT ![c].step = step]
  PROVE  /\ call' \in [Caller -> Call]
         /\ call'[c].step = step
         /\ call'[c].session = call[c].session /\ call'[c].gen = call[c].gen
         /\ call'[c].awaits = call[c].awaits
         /\ call'[c].targets = call[c].targets
         /\ \A d \in Caller \ {c} : call'[d] = call[d]
<1>1. call[c] \in Call
  BY DEF TypeOK
<1>2. call'[c] = [call[c] EXCEPT !.step = step]
  BY DEF TypeOK
<1>3. [call[c] EXCEPT !.step = step] \in Call
  BY <1>1 DEF Call
<1>4. QED
  BY <1>1, <1>2, <1>3 DEF TypeOK, Call

\* A step of one call that touches none of the maps.
LEMMA CallOnlyOK ==
  ASSUME GatewayOK, NEW c \in Caller,
         UNCHANGED <<worker, completed, starting, cancelled, stopping, process,
                     mode, dirs>>,
         call' \in [Caller -> Call],
         \A d \in Caller \ {c} : call'[d] = call[d],
         CallOK(c)',
         call'[c].step \in StartStep =>
           call[c].step \in StartStep /\ call'[c].session = call[c].session,
         call'[c].step \notin {"stop_stopping", "stop_waiting", "returned"}
  PROVE  GatewayOK' /\ KeepsArtifacts
<1> USE DEF GatewayOK
<1>1. TypeOK'
  BY DEF TypeOK
<1>2. CallsOK'
  <2>1. ASSUME NEW d \in Caller \ {c}
        PROVE  CallOK(d)'
    BY DEF CallsOK, CallOK
  <2>2. QED
    BY <2>1 DEF CallsOK
<1>3. OneStart'
  BY DEF OneStart
<1>4. MapsOK' /\ ProcessesOK' /\ KeepsArtifacts
  BY DEF MapsOK, ProcessesOK, KeepsArtifacts, HasGeneration, Unstarted
<1>5. TargetsOK'
  BY DEF TargetsOK, Unstarted
<1>6. QED
  BY <1>1, <1>2, <1>3, <1>4, <1>5

LEMMA StartRefusedGatewayOK ==
  ASSUME GatewayOK, NEW c \in Caller, NEW s \in Session, NEW g \in Generation,
         NEW video \in BOOLEAN, StartRefused(c, s, g, video)
  PROVE  GatewayOK' /\ KeepsArtifacts
<1> DEFINE m == [Idle EXCEPT !.step = "threw", !.session = s, !.gen = g]
<1>1. call' = [call EXCEPT ![c] = m]
  BY DEF StartRefused
<1>2. m \in Call /\ m.step = "threw" /\ m.session = s
  <2>1. "threw" \in Step /\ g \in Slot
    BY GatewayAssumption DEF Step, Slot, Generation
  <2>2. QED
    BY <2>1, IdleIsCall DEF Call
<1>3. call' \in [Caller -> Call] /\ call'[c] = m
      /\ \A d \in Caller \ {c} : call'[d] = call[d]
  BY <1>1, <1>2 DEF GatewayOK, TypeOK
<1>4. CallOK(c)'
  BY <1>2, <1>3 DEF CallOK, StartStep, Stopper, Waiter
<1>5. QED
  BY <1>2, <1>3, <1>4, CallOnlyOK DEF StartRefused, StartStep

LEMMA ReturnGatewayOK ==
  ASSUME GatewayOK, NEW c \in Caller, Return(c)
  PROVE  GatewayOK' /\ KeepsArtifacts
<1>1. Idle \in Call
  BY IdleIsCall
<1>2. call' \in [Caller -> Call] /\ \A d \in Caller \ {c} : call'[d] = call[d]
  BY <1>1 DEF Return, GatewayOK, TypeOK
<1>3. call'[c].step = "idle"
  BY DEF Return, Idle, GatewayOK, TypeOK
<1>4. CallOK(c)'
  BY <1>3 DEF CallOK, StartStep, Stopper, Waiter
<1>5. QED
  BY <1>2, <1>3, <1>4, CallOnlyOK DEF Return, StartStep

LEMMA SeekGatewayOK ==
  ASSUME GatewayOK, NEW c \in Caller, Seek(c)
  PROVE  GatewayOK' /\ KeepsArtifacts
<1>1. PICK step \in {"start_spawn", "start_clean"} :
             call' = [call EXCEPT ![c].step = step]
  BY DEF Seek
<1>2. step \in Step
  BY DEF Step
<1>3. call[c].step = "start_seek" /\ CallOK(c)
  BY DEF Seek, GatewayOK, CallsOK
<1>4. UNCHANGED <<worker, completed, starting, cancelled, stopping, process,
                  mode, dirs>>
  BY DEF Seek
<1>5. CallOK(c)'
  BY <1>1, <1>2, <1>3, <1>4, StepTo DEF GatewayOK, CallOK, StartStep, Stopper,
     Waiter
<1>6. QED
  BY <1>1, <1>2, <1>3, <1>4, <1>5, StepTo, CallOnlyOK DEF GatewayOK, StartStep

\* A start under way is cancelled by any stop of its session but those it is
\* spared by, and those that spare it were called against nothing.
LEMMA StopSpares ==
  ASSUME GatewayOK, NEW s \in Session, NEW g \in Slot \cup {AnyGen}
  PROVE  /\ starting[s] # 0 /\ ~Spares(s, g) => Cancels(s, g)
         /\ Spares(s, g) => Targets(s, g) = {}
         /\ \A h \in Targets(s, g) :
              /\ h \in Generation /\ ~Unstarted(s, h)
              /\ starting[s] = h => Cancels(s, g)
              /\ worker[s] = h \/ starting[s] = h
<1>1. /\ 0 \notin Generation /\ AnyGen \notin Slot
      /\ worker[s] \in Slot /\ starting[s] \in Slot /\ completed[s] \in Slot
  BY GatewayAssumption DEF Generation, Slot, AnyGen, GatewayOK, TypeOK
<1>2. /\ starting[s] # 0 => worker[s] = 0 /\ completed[s] = 0
      /\ worker[s] # 0 => completed[s] = 0
      /\ worker[s] # 0 => ~Unstarted(s, worker[s])
      /\ starting[s] # 0 => ~Unstarted(s, starting[s])
  BY DEF GatewayOK, MapsOK
<1>3. starting[s] # 0 /\ ~Spares(s, g) => Cancels(s, g)
  BY <1>1, <1>2 DEF Spares, Cancels
<1>4. ASSUME NEW h \in Targets(s, g)
      PROVE  /\ h \in Generation /\ h # 0 /\ (g = AnyGen \/ h = g)
             /\ h = worker[s] \/ h = starting[s]
  <2>1. h \in {worker[s], starting[s]}
    BY <1>4 DEF Targets
  <2>2. g # AnyGen => h = g /\ h # 0
    BY <1>4 DEF Targets
  <2>3. g = AnyGen => h \in Generation
    BY <1>4 DEF Targets
  <2>4. h # 0 => h \in Generation
    BY <1>1, <2>1, GatewayAssumption DEF Generation, Slot
  <2>5. QED
    BY <1>1, <2>1, <2>2, <2>3, <2>4
<1>5. Spares(s, g) => Targets(s, g) = {}
  BY <1>1, <1>2, <1>4 DEF Spares
<1>6. QED
  BY <1>1, <1>2, <1>3, <1>4, <1>5 DEF Cancels

LEMMA StopGatewayOK ==
  ASSUME GatewayOK, NEW c \in Caller, NEW s \in Session,
         NEW g \in Slot \cup {AnyGen}, Stop(c, s, g)
  PROVE  GatewayOK' /\ KeepsArtifacts
<1> USE DEF GatewayOK
<1>1. PICK step \in {"stop_waiting", "returned", "stop_stopping"} :
        /\ call' = [call EXCEPT ![c] =
                      [Idle EXCEPT !.step = step, !.session = s, !.gen = g,
                         !.awaits = stopping[s], !.targets = Targets(s, g)]]
        /\ step = "stop_waiting" => stopping[s] # None
        /\ step = "returned" => stopping[s] = None /\ Spares(s, g)
        /\ step = "stop_stopping" =>
             stopping[s] = None /\ ~Spares(s, g) /\ StopWorker(c, s)
        /\ step # "stop_stopping" => UNCHANGED <<worker, completed, stopping, process>>
  BY DEF Stop
<1>2. /\ call[c].step = "idle" /\ starting' = starting /\ mode' = mode
      /\ dirs' = dirs
      /\ \A t \in Session : t \in cancelled' <=>
                              t \in cancelled \/ (t = s /\ Cancels(s, g))
      /\ cancelled' \subseteq Session
  BY DEF Stop, TypeOK
<1>3. /\ call'[c].step = step /\ call'[c].session = s
      /\ call'[c].awaits = stopping[s] /\ call'[c].targets = Targets(s, g)
      /\ call' \in [Caller -> Call]
      /\ \A d \in Caller \ {c} : call'[d] = call[d]
  <2> DEFINE m == [Idle EXCEPT !.step = step, !.session = s, !.gen = g,
                     !.awaits = stopping[s], !.targets = Targets(s, g)]
  <2>1. step \in Step /\ stopping[s] \in Caller \cup {None}
    BY DEF Step, TypeOK
  <2>2. Targets(s, g) \in SUBSET Generation
    BY StopSpares
  <2>3. /\ m \in Call /\ m.step = step /\ m.session = s
        /\ m.awaits = stopping[s] /\ m.targets = Targets(s, g)
    BY <2>1, <2>2, IdleIsCall DEF Call
  <2>4. call' = [call EXCEPT ![c] = m]
    BY <1>1
  <2>5. QED
    BY <2>3, <2>4 DEF TypeOK
<1>4. \A t \in Session :
        /\ worker'[t] = IF t = s /\ step = "stop_stopping" THEN 0 ELSE worker[t]
        /\ completed'[t] = IF t = s /\ step = "stop_stopping" THEN 0
                                                          ELSE completed[t]
        /\ stopping'[t] = IF t = s /\ step = "stop_stopping" THEN c
                                                         ELSE stopping[t]
  BY <1>1, StopWorkerMaps DEF TypeOK
<1>5. /\ ProcessesOK'
      /\ \A t \in Session, h \in Generation :
           process'[<<t, h>>] = "running" =>
             /\ process[<<t, h>>] = "running"
             /\ t # s \/ step # "stop_stopping"
  <2>1. CASE step = "stop_stopping"
    BY <1>1, <2>1, StopWorkerMaps, StopWorkerProcesses
  <2>2. CASE step # "stop_stopping"
    BY <1>1, <2>2 DEF ProcessesOK
  <2>3. QED
    BY <2>1, <2>2
<1>6. TypeOK'
  <2>1. /\ worker' \in [Session -> Slot] /\ completed' \in [Session -> Slot]
        /\ stopping' \in [Session -> Caller \cup {None}]
        /\ process' \in [Session \X Generation -> ProcessState]
    <3>1. CASE step = "stop_stopping"
      <4>1. 0 \in Slot
        BY GatewayAssumption DEF Slot
      <4>2. /\ worker' = [worker EXCEPT ![s] = 0]
            /\ completed' = [completed EXCEPT ![s] = 0]
            /\ stopping' = [stopping EXCEPT ![s] = c]
            /\ process' \in [Session \X Generation -> ProcessState]
        BY <1>1, <3>1, StopWorkerMaps
      <4>3. QED
        BY <4>1, <4>2 DEF TypeOK
    <3>2. CASE step # "stop_stopping"
      BY <1>1, <3>2 DEF TypeOK
    <3>3. QED
      BY <3>1, <3>2
  <2>2. QED
    BY <1>2, <1>3, <2>1 DEF TypeOK
<1>7. CallsOK'
  <2>1. CallOK(c)'
    BY <1>1, <1>3, <1>4 DEF CallOK, StartStep, Stopper, Waiter
  <2>2. ASSUME NEW d \in Caller \ {c}, call[d].step # "idle"
        PROVE  CallOK(d)'
    <3>1. /\ CallOK(d) /\ call'[d] = call[d] /\ d # None
          /\ call[d].session \in Session
      BY <1>3, <2>2, GatewayAssumption DEF CallsOK, CallOK
    <3>2. call[d].step \in Stopper \cup Waiter =>
            call[d].session # s \/ step # "stop_stopping"
      BY <1>1, <3>1 DEF CallOK
    <3>3. /\ call[d].step \in {"start_seek", "start_spawn"}
          /\ call[d].session = s /\ step = "stop_stopping"
          => s \in cancelled'
      <4>1. 0 \notin Generation
        BY DEF Generation
      <4>2. QED
        BY <1>1, <1>2, <3>1, <4>1, StopSpares DEF CallOK, StartStep
    <3>4. QED
      BY <1>2, <1>4, <3>1, <3>2, <3>3 DEF CallOK
  <2>3. ASSUME NEW d \in Caller \ {c}, call[d].step = "idle"
        PROVE  CallOK(d)'
    BY <1>3, <2>3 DEF CallOK, StartStep, Stopper, Waiter
  <2>4. QED
    BY <2>1, <2>2, <2>3 DEF CallsOK
<1>8. OneStart'
  BY <1>3 DEF OneStart, StartStep
<1>9. MapsOK'
  <2>1. Cancels(s, g) => starting[s] # 0
    BY DEF Cancels
  <2>2. QED
    BY <1>2, <1>4, <2>1, GatewayAssumption DEF MapsOK, Unstarted
<1>10. TargetsOK'
  <2>1. ASSUME NEW h \in Targets(s, g)
        PROVE  /\ process'[<<s, h>>] # "running" /\ ~Unstarted(s, h)'
               /\ starting'[s] = h => s \in cancelled'
    <3>1. /\ h \in Generation /\ ~Unstarted(s, h)
          /\ starting[s] = h => Cancels(s, g)
          /\ step # "returned" /\ 0 \notin Generation
      BY <1>1, <2>1, StopSpares DEF Generation
    <3>2. step = "stop_waiting" => process[<<s, h>>] # "running"
      BY <1>1, <3>1 DEF MapsOK, ProcessesOK
    <3>3. QED
      BY <1>2, <1>5, <3>1, <3>2 DEF Unstarted
  <2>2. ASSUME NEW d \in Caller \ {c}, NEW h \in call[d].targets,
               call[d].step \in {"stop_stopping", "stop_waiting", "returned"}
        PROVE  /\ process'[<<call[d].session, h>>] # "running"
               /\ mode'[<<call[d].session, h>>] # "unstarted"
               /\ starting'[call[d].session] = h => call[d].session \in cancelled'
    <3>1. call[d].session \in Session /\ h \in Generation
      BY <2>2 DEF CallsOK, CallOK, TypeOK, Call
    <3>2. QED
      BY <1>2, <1>5, <2>2, <3>1 DEF TargetsOK, Unstarted
  <2>3. QED
    BY <1>3, <2>1, <2>2 DEF TargetsOK, Unstarted
<1>11. KeepsArtifacts
  <2>1. 0 \notin Generation
    BY DEF Generation
  <2>2. QED
    BY <1>2, <1>4, <2>1 DEF KeepsArtifacts, HasGeneration
<1>12. QED
  BY <1>5, <1>6, <1>7, <1>8, <1>9, <1>10, <1>11

-----------------------------------------------------------------------------

LEMMA StopWorkerDoneGatewayOK ==
  ASSUME GatewayOK, NEW c \in Caller, StopWorkerDone(c)
  PROVE  GatewayOK' /\ KeepsArtifacts
<1> USE DEF GatewayOK
<1> DEFINE s == call[c].session
           Resumed(d) == d = c \/ Joined(c, d)
<1>1. /\ s \in Session /\ stopping[s] = c /\ c # None
      /\ call[c].step \in Stopper
  BY GatewayAssumption DEF StopWorkerDone, CallsOK, CallOK, Stopper
<1>2. /\ UNCHANGED <<worker, completed, starting, cancelled, mode>>
      /\ dirs' = {x \in dirs : x[1] # s}
      /\ \A t \in Session : stopping'[t] = IF t = s THEN None ELSE stopping[t]
      /\ stopping' \in [Session -> Caller \cup {None}]
  BY <1>1 DEF StopWorkerDone, TypeOK
<1>3. /\ process' \in [Session \X Generation -> ProcessState]
      /\ \A t \in Session, h \in Generation :
           /\ process'[<<t, h>>] = "running" => process[<<t, h>>] = "running"
           /\ process'[<<t, h>>] = "term" => process[<<t, h>>] = "term" /\ t # s
  BY DEF StopWorkerDone, KillLeftover, TypeOK, ProcessState
<1>4. \A d \in Caller : Resumed(d) <=> /\ call[d].session = s
                                       /\ call[d].step \in Stopper \cup Waiter
  BY <1>1 DEF Joined, CallsOK, CallOK, Stopper, Waiter
<1>5. ASSUME NEW d \in Caller
      PROVE  /\ call'[d] \in Call
             /\ call'[d].session = call[d].session /\ call'[d].gen = call[d].gen
             /\ call'[d].targets = call[d].targets
             /\ Resumed(d) => call'[d].step =
                  IF call[d].step \in {"start_stopping", "start_waiting"}
                    THEN IF s \in cancelled THEN "start_clean" ELSE "start_seek"
                    ELSE "returned"
             /\ ~Resumed(d) => call'[d] = call[d]
  <2>1. call[d] \in Call
    BY DEF TypeOK
  <2>2. call'[d] = IF Resumed(d) THEN Resume(d) ELSE call[d]
    BY DEF StopWorkerDone
  <2>3. Resumed(d) => call[d].session = s
    BY <1>4
  <2>4. Resume(d) \in Call
    BY <2>1 DEF Resume, Call, Step
  <2>5. /\ Resume(d).session = call[d].session /\ Resume(d).gen = call[d].gen
        /\ Resume(d).targets = call[d].targets
        /\ Resume(d).step =
             IF call[d].step \in {"start_stopping", "start_waiting"}
               THEN IF call[d].session \in cancelled THEN "start_clean"
                                                     ELSE "start_seek"
               ELSE "returned"
    BY <2>1 DEF Resume, Call
  <2>6. QED
    BY <2>1, <2>2, <2>3, <2>4, <2>5
<1>6. TypeOK'
  <2>1. call' \in [Caller -> Call]
    BY <1>5 DEF StopWorkerDone
  <2>2. QED
    BY <1>2, <1>3, <2>1 DEF TypeOK
<1>7. CallsOK'
  <2>1. ASSUME NEW d \in Caller, Resumed(d)
        PROVE  CallOK(d)'
    BY <1>1, <1>2, <1>4, <1>5, <2>1 DEF CallsOK, CallOK, StartStep, Stopper,
       Waiter
  <2>2. ASSUME NEW d \in Caller, ~Resumed(d)
        PROVE  CallOK(d)'
    <3>1. CallOK(d) /\ call'[d] = call[d]
      BY <1>5, <2>2 DEF CallsOK
    <3>2. call[d].session = s => call[d].step \notin Stopper \cup Waiter
      BY <1>4, <2>2
    <3>3. QED
      BY <1>2, <3>1, <3>2 DEF CallOK, Stopper, Waiter, StartStep
  <2>3. QED
    BY <2>1, <2>2 DEF CallsOK
<1>8. OneStart'
  <2>1. \A d \in Caller : call'[d].step \in StartStep => call[d].step \in StartStep
    BY <1>4, <1>5 DEF StartStep, Stopper, Waiter
  <2>2. QED
    BY <1>5, <2>1 DEF OneStart
<1>9. MapsOK'
  BY <1>2 DEF MapsOK, Unstarted
<1>10. ProcessesOK'
  BY <1>2, <1>3 DEF ProcessesOK
<1>11. TargetsOK'
  <2>1. ASSUME NEW d \in Caller,
               call'[d].step \in {"stop_stopping", "stop_waiting", "returned"}
        PROVE  call[d].step \in {"stop_stopping", "stop_waiting", "returned"}
    BY <1>4, <1>5, <2>1 DEF Stopper, Waiter
  <2>2. ASSUME NEW d \in Caller, NEW h \in call[d].targets,
               call[d].step \in {"stop_stopping", "stop_waiting", "returned"}
        PROVE  call[d].session \in Session /\ h \in Generation
    BY <2>2 DEF CallsOK, CallOK, TypeOK, Call
  <2>3. QED
    BY <1>2, <1>3, <1>5, <2>1, <2>2 DEF TargetsOK, Unstarted
<1>12. KeepsArtifacts
  <2>1. 0 \notin Generation /\ worker[s] = 0 /\ completed[s] = 0
    BY <1>1 DEF MapsOK, Generation
  <2>2. QED
    BY <1>2, <2>1 DEF KeepsArtifacts, HasGeneration
<1>13. QED
  BY <1>6, <1>7, <1>8, <1>9, <1>10, <1>11, <1>12

\* A step that ends a start, and with it the session's reservation.
LEMMA SpawnGatewayOK ==
  ASSUME GatewayOK, NEW c \in Caller, Spawn(c)
  PROVE  GatewayOK' /\ KeepsArtifacts
<1> USE DEF GatewayOK
<1> DEFINE s == call[c].session
           g == call[c].gen
<1>1. /\ s \in Session /\ g \in Generation /\ starting[s] = g
      /\ s \notin cancelled /\ stopping[s] = None
      /\ call[c].step \in StartStep /\ call[c].targets = {}
  BY DEF Spawn, CallsOK, CallOK, StartStep
<1>2. 0 \notin Generation /\ Generation \subseteq Slot /\ 0 \in Slot
  BY GatewayAssumption DEF Generation, Slot
<1>3. worker[s] = 0 /\ ~Unstarted(s, g)
  BY <1>1, <1>2 DEF MapsOK
<1>4. /\ UNCHANGED <<cancelled, stopping, mode>>
      /\ dirs' = dirs \cup {<<s, g>>}
      /\ worker' = [worker EXCEPT ![s] = g]
      /\ completed' = [completed EXCEPT ![s] = 0]
      /\ starting' = [starting EXCEPT ![s] = 0]
      /\ process' = [process EXCEPT ![<<s, g>>] = "running"]
      /\ call' = [call EXCEPT ![c].step = "returned"]
  BY DEF Spawn, SpawnedAs
<1>5. \A t \in Session :
        /\ worker'[t] = IF t = s THEN g ELSE worker[t]
        /\ completed'[t] = IF t = s THEN 0 ELSE completed[t]
        /\ starting'[t] = IF t = s THEN 0 ELSE starting[t]
  BY <1>4 DEF TypeOK
<1>6. \A t \in Session, h \in Generation :
        process'[<<t, h>>] = IF t = s /\ h = g THEN "running" ELSE process[<<t, h>>]
  BY <1>1, <1>4 DEF TypeOK
<1>7. "returned" \in Step
  BY DEF Step
<1>8. /\ call' \in [Caller -> Call] /\ call'[c].step = "returned"
      /\ call'[c].session = s /\ call'[c].targets = {}
      /\ \A d \in Caller \ {c} : call'[d] = call[d]
  BY <1>1, <1>4, <1>7, StepTo
<1>9. TypeOK'
  <2>1. "running" \in ProcessState
    BY DEF ProcessState
  <2>2. QED
    BY <1>1, <1>2, <1>4, <1>8, <2>1 DEF TypeOK
<1>10. \A d \in Caller \ {c} : call[d].step \in StartStep => call[d].session # s
  BY <1>1 DEF OneStart
<1>11. CallsOK'
  <2>1. CallOK(c)'
    BY <1>1, <1>8 DEF CallOK, StartStep, Stopper, Waiter
  <2>2. ASSUME NEW d \in Caller \ {c}
        PROVE  CallOK(d)'
    <3>1. CallOK(d) /\ call'[d] = call[d]
      BY <1>8 DEF CallsOK
    <3>2. call[d].step \in StartStep =>
            starting'[call[d].session] = starting[call[d].session]
      BY <1>5, <1>10, <3>1 DEF CallOK, StartStep
    <3>3. QED
      BY <1>4, <3>1, <3>2 DEF CallOK
  <2>3. QED
    BY <2>1, <2>2 DEF CallsOK
<1>12. OneStart'
  BY <1>8 DEF OneStart, StartStep
<1>13. MapsOK'
  BY <1>1, <1>3, <1>4, <1>5 DEF MapsOK, Unstarted
<1>14. ProcessesOK'
  <2>1. ASSUME NEW t \in Session, NEW h \in Generation,
               process'[<<t, h>>] = "running"
        PROVE  worker'[t] = h
    BY <1>2, <1>3, <1>5, <1>6, <2>1 DEF ProcessesOK
  <2>2. ASSUME NEW t \in Session, NEW h \in Generation,
               process'[<<t, h>>] = "term"
        PROVE  process[<<t, h>>] = "term"
    BY <1>6, <2>2
  <2>3. QED
    BY <1>4, <2>1, <2>2 DEF ProcessesOK
<1>15. TargetsOK'
  <2>1. ASSUME NEW d \in Caller \ {c}, NEW h \in call[d].targets,
               call[d].step \in {"stop_stopping", "stop_waiting", "returned"}
        PROVE  /\ process'[<<call[d].session, h>>] # "running"
               /\ mode'[<<call[d].session, h>>] # "unstarted"
               /\ starting'[call[d].session] = h => call[d].session \in cancelled'
    <3>1. call[d].session \in Session /\ h \in Generation
      BY <2>1 DEF CallsOK, CallOK, TypeOK, Call
    <3>2. QED
      BY <1>1, <1>2, <1>4, <1>5, <1>6, <2>1, <3>1 DEF TargetsOK, Unstarted
  <2>2. QED
    BY <1>8, <2>1 DEF TargetsOK, Unstarted
<1>16. KeepsArtifacts
  <2>1. ASSUME NEW t \in Session, NEW h \in Generation, HasGeneration(t, h)'
        PROVE  HasGeneration(t, h) \/ (t = s /\ h = g)
    BY <1>2, <1>5, <2>1 DEF HasGeneration
  <2>2. QED
    BY <1>4, <2>1 DEF KeepsArtifacts
<1>17. QED
  BY <1>9, <1>11, <1>12, <1>13, <1>14, <1>15, <1>16

LEMMA SpawnCancelledGatewayOK ==
  ASSUME GatewayOK, NEW c \in Caller, SpawnCancelled(c)
  PROVE  GatewayOK' /\ KeepsArtifacts
<1> USE DEF GatewayOK
<1> DEFINE s == call[c].session
           g == call[c].gen
<1>1. /\ s \in Session /\ g \in Generation /\ starting[s] = g
      /\ call[c].step \in StartStep /\ call[c].targets = {}
  BY DEF SpawnCancelled, CallsOK, CallOK, StartStep
<1>2. 0 \notin Generation /\ 0 \in Slot /\ "start_clean" \in Step
  BY GatewayAssumption DEF Generation, Slot, Step
<1>3. /\ UNCHANGED <<worker, starting, cancelled, stopping, process, mode>>
      /\ dirs' = dirs \cup {<<s, g>>}
      /\ completed' = [completed EXCEPT ![s] = 0]
      /\ call' = [call EXCEPT ![c].step = "start_clean"]
  BY DEF SpawnCancelled
<1>4. /\ call' \in [Caller -> Call] /\ call'[c].step = "start_clean"
      /\ call'[c].session = s /\ call'[c].gen = g /\ call'[c].targets = {}
      /\ \A d \in Caller \ {c} : call'[d] = call[d]
  BY <1>1, <1>2, <1>3, StepTo
<1>5. TypeOK'
  BY <1>1, <1>2, <1>3, <1>4 DEF TypeOK
<1>6. CallsOK'
  <2>1. CallOK(c)'
    BY <1>1, <1>3, <1>4 DEF CallOK, StartStep, Stopper, Waiter
  <2>2. ASSUME NEW d \in Caller \ {c}
        PROVE  CallOK(d)'
    BY <1>3, <1>4 DEF CallsOK, CallOK
  <2>3. QED
    BY <2>1, <2>2 DEF CallsOK
<1>7. OneStart'
  BY <1>1, <1>4 DEF OneStart
<1>8. \A t \in Session : completed'[t] = IF t = s THEN 0 ELSE completed[t]
  BY <1>3 DEF TypeOK
<1>9. MapsOK' /\ ProcessesOK'
  BY <1>3, <1>8 DEF MapsOK, ProcessesOK, Unstarted
<1>10. TargetsOK'
  BY <1>3, <1>4 DEF TargetsOK, Unstarted
<1>11. KeepsArtifacts
  <2>1. ASSUME NEW t \in Session, NEW h \in Generation, HasGeneration(t, h)'
        PROVE  HasGeneration(t, h)
    BY <1>2, <1>3, <1>8, <2>1 DEF HasGeneration
  <2>2. QED
    BY <1>3, <2>1 DEF KeepsArtifacts
<1>12. QED
  BY <1>5, <1>6, <1>7, <1>9, <1>10, <1>11

LEMMA StartFailedGatewayOK ==
  ASSUME GatewayOK, NEW c \in Caller, StartFailed(c)
  PROVE  GatewayOK' /\ KeepsArtifacts
<1> USE DEF GatewayOK
<1> DEFINE s == call[c].session
<1>1. /\ s \in Session /\ starting[s] \in Generation
      /\ call[c].step \in StartStep /\ call[c].targets = {}
  BY DEF StartFailed, CallsOK, CallOK, StartStep
<1>2. 0 \notin Generation /\ 0 \in Slot /\ "threw" \in Step
  BY GatewayAssumption DEF Generation, Slot, Step
<1>3. /\ UNCHANGED <<worker, completed, stopping, process, mode>>
      /\ dirs' = {x \in dirs : x[1] # s}
      /\ cancelled' = cancelled \ {s}
      /\ starting' = [starting EXCEPT ![s] = 0]
      /\ call' = [call EXCEPT ![c].step = "threw"]
  BY DEF StartFailed
<1>4. /\ call' \in [Caller -> Call] /\ call'[c].step = "threw"
      /\ call'[c].session = s
      /\ \A d \in Caller \ {c} : call'[d] = call[d]
  BY <1>2, <1>3, StepTo
<1>5. TypeOK'
  BY <1>1, <1>2, <1>3, <1>4 DEF TypeOK
<1>6. \A t \in Session : starting'[t] = IF t = s THEN 0 ELSE starting[t]
  BY <1>3 DEF TypeOK
<1>7. \A d \in Caller \ {c} : call[d].step \in StartStep => call[d].session # s
  BY <1>1 DEF OneStart
<1>8. CallsOK'
  <2>1. CallOK(c)'
    BY <1>1, <1>4 DEF CallOK, StartStep, Stopper, Waiter
  <2>2. ASSUME NEW d \in Caller \ {c}
        PROVE  CallOK(d)'
    <3>1. CallOK(d) /\ call'[d] = call[d]
      BY <1>4 DEF CallsOK
    <3>2. call[d].step \in StartStep =>
            /\ starting'[call[d].session] = starting[call[d].session]
            /\ call[d].session \in cancelled => call[d].session \in cancelled'
      BY <1>3, <1>6, <1>7, <3>1 DEF CallOK, StartStep
    <3>3. QED
      BY <1>3, <3>1, <3>2 DEF CallOK, StartStep
  <2>3. QED
    BY <2>1, <2>2 DEF CallsOK
<1>9. OneStart'
  BY <1>4 DEF OneStart, StartStep
<1>10. MapsOK' /\ ProcessesOK'
  BY <1>3, <1>6 DEF MapsOK, ProcessesOK, Unstarted
<1>11. TargetsOK'
  <2>1. ASSUME NEW d \in Caller \ {c}, NEW h \in call[d].targets,
               call[d].step \in {"stop_stopping", "stop_waiting", "returned"}
        PROVE  starting'[call[d].session] = h => call[d].session \in cancelled'
    <3>1. call[d].session \in Session /\ h \in Generation
      BY <2>1 DEF CallsOK, CallOK, TypeOK, Call
    <3>2. starting[call[d].session] = h => call[d].session \in cancelled
      BY <2>1 DEF TargetsOK
    <3>3. h # 0
      BY <1>2, <3>1
    <3>4. QED
      BY <1>3, <1>6, <3>1, <3>2, <3>3
  <2>2. QED
    BY <1>3, <1>4, <2>1 DEF TargetsOK, Unstarted
<1>12. KeepsArtifacts
  <2>1. worker[s] = 0 /\ completed[s] = 0
    BY <1>1, <1>2 DEF MapsOK
  <2>2. QED
    BY <1>2, <1>3, <2>1 DEF KeepsArtifacts, HasGeneration
<1>13. QED
  BY <1>5, <1>8, <1>9, <1>10, <1>11, <1>12

-----------------------------------------------------------------------------

LEMMA ExitGatewayOK ==
  ASSUME GatewayOK, NEW p \in Session \X Generation, Exit(p)
  PROVE  GatewayOK' /\ KeepsArtifacts
<1> USE DEF GatewayOK
<1>1. UNCHANGED <<worker, completed, starting, cancelled, stopping, mode, dirs,
                  call>>
  BY DEF Exit
<1>2. /\ process' \in [Session \X Generation -> ProcessState]
      /\ \A q \in Session \X Generation :
           /\ process'[q] = "running" => process[q] = "running"
           /\ process'[q] = "term" => process[q] = "term"
  BY DEF Exit, TypeOK, ProcessState
<1>3. TypeOK' /\ CallsOK' /\ OneStart' /\ MapsOK' /\ KeepsArtifacts
  BY <1>1, <1>2 DEF TypeOK, CallsOK, CallOK, OneStart, MapsOK, Unstarted,
     KeepsArtifacts, HasGeneration
<1>4. ProcessesOK'
  BY <1>1, <1>2 DEF ProcessesOK
<1>5. TargetsOK'
  <2>1. ASSUME NEW d \in Caller, NEW h \in call[d].targets,
               call[d].step \in {"stop_stopping", "stop_waiting", "returned"}
        PROVE  call[d].session \in Session /\ h \in Generation
    BY <2>1 DEF CallsOK, CallOK, TypeOK, Call
  <2>2. QED
    BY <1>1, <1>2, <2>1 DEF TargetsOK, Unstarted
<1>6. QED
  BY <1>3, <1>4, <1>5

LEMMA EndedGatewayOK ==
  ASSUME GatewayOK, NEW s \in Session, Ended(s)
  PROVE  GatewayOK' /\ KeepsArtifacts
<1> USE DEF GatewayOK
<1> DEFINE g == worker[s]
<1>1. /\ g \in Generation /\ stopping[s] = None /\ starting[s] = 0
      /\ completed[s] = 0 /\ 0 \notin Generation /\ 0 \in Slot
      /\ Generation \subseteq Slot
  BY GatewayAssumption DEF Ended, TypeOK, MapsOK, Slot, Generation
<1>2. /\ UNCHANGED <<starting, cancelled, stopping, mode, call>>
      /\ worker' = [worker EXCEPT ![s] = 0]
      /\ process' = [process EXCEPT ![<<s, g>>] = "none"]
      /\ \/ completed' = [completed EXCEPT ![s] = g] /\ dirs' = dirs
         \/ completed' = completed /\ dirs' = dirs \ {<<s, g>>}
  BY DEF Ended
<1>3. \A t \in Session, h \in Generation :
        process'[<<t, h>>] = IF t = s /\ h = g THEN "none" ELSE process[<<t, h>>]
  BY <1>1, <1>2 DEF TypeOK
<1>4. \A t \in Session : worker'[t] = IF t = s THEN 0 ELSE worker[t]
  BY <1>2 DEF TypeOK
<1>5. \A t \in Session \ {s} : completed'[t] = completed[t]
  BY <1>2 DEF TypeOK
<1>6. TypeOK'
  BY <1>1, <1>2 DEF TypeOK, ProcessState
<1>7. CallsOK' /\ OneStart'
  <2>1. UNCHANGED <<starting, cancelled, stopping, call>>
    BY <1>2
  <2>2. QED
    BY <2>1 DEF CallsOK, CallOK, OneStart
<1>8. MapsOK'
  <2>1. UNCHANGED <<starting, cancelled, stopping, mode>>
    BY <1>2
  <2>2. ASSUME NEW t \in Session, t # s
        PROVE  worker'[t] = worker[t] /\ completed'[t] = completed[t]
    BY <1>4, <1>5, <2>2
  <2>3. worker'[s] = 0 /\ stopping[s] = None /\ starting[s] = 0
    BY <1>1, <1>4
  <2>4. QED
    BY <2>1, <2>2, <2>3 DEF MapsOK, Unstarted
<1>9. ProcessesOK'
  <2>1. ASSUME NEW t \in Session, NEW h \in Generation,
               process'[<<t, h>>] = "running"
        PROVE  worker'[t] = h
    BY <1>3, <1>4, <2>1 DEF ProcessesOK
  <2>2. ASSUME NEW t \in Session, NEW h \in Generation,
               process'[<<t, h>>] = "term"
        PROVE  process[<<t, h>>] = "term"
    BY <1>3, <2>2
  <2>3. stopping' = stopping
    BY <1>2
  <2>4. QED
    BY <2>1, <2>2, <2>3 DEF ProcessesOK
<1>10. TargetsOK'
  <2>1. ASSUME NEW d \in Caller, NEW h \in call[d].targets,
               call[d].step \in {"stop_stopping", "stop_waiting", "returned"}
        PROVE  call[d].session \in Session /\ h \in Generation
    BY <2>1 DEF CallsOK, CallOK, TypeOK, Call
  <2>2. QED
    BY <1>2, <1>3, <2>1 DEF TargetsOK, Unstarted
<1>11. KeepsArtifacts
  <2>1. CASE completed' = [completed EXCEPT ![s] = g] /\ dirs' = dirs
    <3>1. \A t \in Session : completed'[t] = IF t = s THEN g ELSE completed[t]
      BY <2>1 DEF TypeOK
    <3>2. \A t \in Session, h \in Generation :
            HasGeneration(t, h)' => HasGeneration(t, h)
      BY <1>1, <1>4, <3>1 DEF HasGeneration
    <3>3. QED
      BY <2>1, <3>2 DEF KeepsArtifacts
  <2>2. CASE completed' = completed /\ dirs' = dirs \ {<<s, g>>}
    <3>1. \A t \in Session, h \in Generation :
            HasGeneration(t, h)' => HasGeneration(t, h) /\ t # s
      BY <1>1, <1>4, <2>2 DEF HasGeneration
    <3>2. QED
      BY <2>2, <3>1 DEF KeepsArtifacts
  <2>3. QED
    BY <1>2, <2>1, <2>2
<1>12. QED
  BY <1>6, <1>7, <1>8, <1>9, <1>10, <1>11

LEMMA InternalGatewayOK ==
  ASSUME GatewayOK, NEW c \in Caller, Internal(c)
  PROVE  GatewayOK' /\ KeepsArtifacts
BY StopWorkerDoneGatewayOK, SeekGatewayOK, SpawnGatewayOK,
   SpawnCancelledGatewayOK, StartFailedGatewayOK DEF Internal

LEMMA ProcessesGatewayOK ==
  ASSUME GatewayOK, Processes
  PROVE  GatewayOK' /\ KeepsArtifacts
BY ExitGatewayOK, EndedGatewayOK DEF Processes

LEMMA StepGatewayOK ==
  ASSUME GatewayOK, [Next]_vars
  PROVE  GatewayOK' /\ KeepsArtifacts
<1>1. CASE UNCHANGED vars
  <2>1. TypeOK' /\ CallsOK' /\ OneStart' /\ MapsOK'
    BY <1>1 DEF vars, GatewayOK, TypeOK, CallsOK, CallOK, OneStart, MapsOK,
       Unstarted
  <2>2. ProcessesOK' /\ TargetsOK' /\ KeepsArtifacts
    BY <1>1 DEF vars, GatewayOK, ProcessesOK, TargetsOK, KeepsArtifacts,
       HasGeneration, Unstarted
  <2>3. QED
    BY <2>1, <2>2 DEF GatewayOK
<1>2. QED
  BY <1>1, StartGatewayOK, StartRefusedGatewayOK, StopGatewayOK,
     InternalGatewayOK, ReturnGatewayOK, ProcessesGatewayOK DEF Next

(***************************************************************************)
(* What each call leaves in the maps for the others to find.               *)
(***************************************************************************)
THEOREM GatewayInvariant == Spec => []GatewayOK
BY InitGatewayOK, StepGatewayOK, PTL DEF Spec

\* The gateway's maps, calls and processes hold values of their kinds.
THEOREM TypeCorrect == Spec => []TypeOK
<1>1. GatewayOK => TypeOK
  BY DEF GatewayOK
<1>2. QED
  BY <1>1, GatewayInvariant, PTL

(***************************************************************************)
(* No FFmpeg process runs that the workers map has lost.                   *)
(***************************************************************************)
THEOREM NoneLost == Spec => []NoLostProcess
<1>1. GatewayOK => NoLostProcess
  BY DEF GatewayOK, ProcessesOK, NoLostProcess
<1>2. QED
  BY <1>1, GatewayInvariant, PTL

(***************************************************************************)
(* A session never has two processes that run or are being stopped.        *)
(***************************************************************************)
THEOREM NoneOverlap == Spec => []NoOverlap
<1>1. ASSUME GatewayOK PROVE NoOverlap
  <2>1. ASSUME NEW s \in Session, NEW g \in Generation,
               process[<<s, g>>] = "running"
        PROVE  worker[s] = g /\ stopping[s] = None
    <3>1. worker[s] = g /\ g # 0
      BY <1>1, <2>1 DEF GatewayOK, ProcessesOK, Generation
    <3>2. QED
      BY <1>1, <3>1 DEF GatewayOK, MapsOK
  <2>2. ASSUME NEW s \in Session, NEW g \in Generation, NEW h \in Generation,
               process[<<s, g>>] = "term"
        PROVE  stopping[s] # None /\ (process[<<s, h>>] = "term" => g = h)
    BY <1>1, <2>2 DEF GatewayOK, ProcessesOK
  <2>3. QED
    BY <2>1, <2>2 DEF NoOverlap
<1>2. QED
  BY <1>1, GatewayInvariant, PTL

(***************************************************************************)
(* A generation in the maps has its directory.                             *)
(***************************************************************************)
THEOREM ArtifactsStay == Spec => []ArtifactsKept
<1>1. Init => ArtifactsKept
  BY DEF Init, ArtifactsKept, HasGeneration, Generation
<1>2. GatewayOK /\ ArtifactsKept /\ [Next]_vars => ArtifactsKept'
  BY StepGatewayOK DEF KeepsArtifacts, ArtifactsKept
<1>3. QED
  BY <1>1, <1>2, GatewayInvariant, PTL DEF Spec

(***************************************************************************)
(* A stop that has returned has stopped what it was called against, even   *)
(* if it joined somebody else's stop or met a start before its spawn.      *)
(***************************************************************************)
THEOREM StopsAreEffective == Spec => []StopIsEffective
<1>1. GatewayOK => StopIsEffective
  BY DEF GatewayOK, TargetsOK, StopIsEffective
<1>2. QED
  BY <1>1, GatewayInvariant, PTL

-----------------------------------------------------------------------------
(***************************************************************************)
(* The limits.  No step but Start engages a session: a worker comes from   *)
(* the session's reservation, and a reservation from nowhere else.         *)
(***************************************************************************)
Settles ==
  /\ mode' = mode
  /\ \A t \in Session : /\ worker'[t] \in {0, worker[t], starting[t]}
                        /\ starting'[t] \in {0, starting[t]}

LEMMA InternalSettles ==
  ASSUME GatewayOK, NEW c \in Caller, Internal(c)
  PROVE  Settles
<1>1. CASE StopWorkerDone(c) \/ Seek(c) \/ SpawnCancelled(c)
  BY <1>1 DEF StopWorkerDone, Seek, SpawnCancelled, Settles
<1>2. CASE Spawn(c)
  <2>1. starting[call[c].session] = call[c].gen
    BY <1>2 DEF Spawn, GatewayOK, CallsOK, CallOK, StartStep
  <2>2. QED
    BY <1>2, <2>1 DEF Spawn, SpawnedAs, Settles, GatewayOK, TypeOK
<1>3. CASE StartFailed(c)
  BY <1>3 DEF StartFailed, Settles, GatewayOK, TypeOK
<1>4. QED
  BY <1>1, <1>2, <1>3 DEF Internal

LEMMA OthersSettle ==
  ASSUME GatewayOK, [Next]_vars,
         ~ \E c \in Caller, s \in Session, g \in Generation, video \in BOOLEAN :
             Unstarted(s, g) /\ Start(c, s, g, video)
  PROVE  Settles
<1>1. ASSUME NEW c \in Caller, NEW s \in Session, NEW g \in Slot \cup {AnyGen},
             Stop(c, s, g)
      PROVE  Settles
  BY <1>1 DEF Stop, StopWorker, Settles, GatewayOK, TypeOK
<1>2. CASE \E c \in Caller, s \in Session, g \in Generation, video \in BOOLEAN :
             StartRefused(c, s, g, video)
  BY <1>2 DEF StartRefused, Settles
<1>3. CASE \E c \in Caller : Return(c)
  BY <1>3 DEF Return, Settles
<1>4. CASE Processes
  BY <1>4 DEF Processes, Exit, Ended, Settles, GatewayOK, TypeOK
<1>5. CASE UNCHANGED vars
  BY <1>5 DEF vars, Settles
<1>6. QED
  BY <1>1, <1>2, <1>3, <1>4, <1>5, InternalSettles DEF Next

\* Start reserves for a session whose worker it takes out of the maps.
LEMMA StartReserves ==
  ASSUME GatewayOK, NEW c \in Caller, NEW s \in Session, NEW g \in Generation,
         NEW video \in BOOLEAN, Unstarted(s, g), Start(c, s, g, video)
  PROVE  /\ HasCapacity(video, s)
         /\ \A t \in Session :
              /\ worker'[t] = IF t = s THEN 0 ELSE worker[t]
              /\ starting'[t] = IF t = s THEN g ELSE starting[t]
         /\ Encodes(s, g)' = video
         /\ \A t \in Session \ {s}, h \in Generation :
              Encodes(t, h)' = Encodes(t, h)
<1>1. HasCapacity(video, s)
  BY DEF Start
<1>2. \A t \in Session : worker'[t] = IF t = s THEN 0 ELSE worker[t]
  <2>1. stopping[s] # None => worker[s] = 0
    BY DEF GatewayOK, MapsOK
  <2>2. \/ worker' = worker /\ stopping[s] # None
        \/ worker' = [worker EXCEPT ![s] = 0]
    BY DEF Start, StopWorker
  <2>3. QED
    BY <2>1, <2>2 DEF GatewayOK, TypeOK
<1>3. \A t \in Session : starting'[t] = IF t = s THEN g ELSE starting[t]
  BY DEF Start, GatewayOK, TypeOK
<1>4. \A t \in Session, h \in Generation :
        mode'[<<t, h>>] = IF t = s /\ h = g
                            THEN IF video THEN "transcode" ELSE "copy"
                            ELSE mode[<<t, h>>]
  BY DEF Start, GatewayOK, TypeOK
<1>5. Encodes(s, g)' = video
  BY <1>4 DEF Encodes
<1>6. QED
  BY <1>1, <1>2, <1>3, <1>4, <1>5 DEF Encodes

LEMMA BoundStep ==
  ASSUME GatewayOK, WorkersBounded, [Next]_vars
  PROVE  WorkersBounded'
<1>1. IsFiniteSet(Engaged) /\ Cardinality(Engaged) \in Nat
  BY GatewayAssumption, FS_Subset, FS_CardinalityType DEF Engaged
<1>2. ASSUME NEW c \in Caller, NEW s \in Session, NEW g \in Generation,
             NEW video \in BOOLEAN, Unstarted(s, g), Start(c, s, g, video)
      PROVE  WorkersBounded'
  <2> DEFINE W == Others(worker, s)
             R == Others(starting, s)
  <2>1. /\ IsFiniteSet(W) /\ IsFiniteSet(R) /\ s \notin W \cup R
        /\ Cardinality(W) \in Nat /\ Cardinality(R) \in Nat
    BY GatewayAssumption, FS_Subset, FS_CardinalityType DEF Others
  <2>2. Cardinality(W) + Cardinality(R) < MaxWorkers
    BY <1>2, StartReserves DEF HasCapacity
  <2>3. Engaged' \subseteq (W \cup R) \cup {s}
    BY <1>2, StartReserves DEF Engaged, Others
  <2>4. /\ IsFiniteSet(W \cup R) /\ Cardinality(W \cup R) \in Nat
        /\ Cardinality(W \cup R) <= Cardinality(W) + Cardinality(R)
    <3>1. IsFiniteSet(W \cap R) /\ Cardinality(W \cap R) \in Nat
      BY <2>1, FS_Intersection, FS_CardinalityType
    <3>2. IsFiniteSet(W \cup R) /\ Cardinality(W \cup R) \in Nat
      BY <2>1, FS_Union, FS_CardinalityType
    <3>3. Cardinality(W \cup R)
            = Cardinality(W) + Cardinality(R) - Cardinality(W \cap R)
      BY <2>1, FS_Union
    <3>4. QED
      BY <2>1, <3>1, <3>2, <3>3
  <2>5. /\ IsFiniteSet((W \cup R) \cup {s})
        /\ Cardinality((W \cup R) \cup {s}) = Cardinality(W \cup R) + 1
    BY <2>1, <2>4, FS_AddElement
  <2>6. /\ Cardinality(Engaged') <= Cardinality((W \cup R) \cup {s})
        /\ Cardinality(Engaged') \in Nat
    BY <2>3, <2>5, FS_Subset, FS_CardinalityType
  <2>7. QED
    BY <2>1, <2>2, <2>4, <2>5, <2>6, GatewayAssumption DEF WorkersBounded
<1>3. ASSUME Settles
      PROVE  WorkersBounded'
  <2>1. Engaged' \subseteq Engaged
    BY <1>3 DEF Settles, Engaged
  <2>2. /\ Cardinality(Engaged') <= Cardinality(Engaged)
        /\ Cardinality(Engaged') \in Nat
    BY <1>1, <2>1, FS_Subset, FS_CardinalityType
  <2>3. QED
    BY <1>1, <2>2, GatewayAssumption DEF WorkersBounded
<1>4. QED
  BY <1>2, <1>3, OthersSettle

(***************************************************************************)
(* The server's limit on workers and reservations holds, for any limit.    *)
(***************************************************************************)
THEOREM WorkersStayBounded == Spec => []WorkersBounded
<1>1. Init => WorkersBounded
  <2>1. ASSUME Init PROVE Engaged = {}
    BY <2>1 DEF Init, Engaged
  <2>2. QED
    BY <2>1, FS_EmptySet, GatewayAssumption DEF WorkersBounded
<1>2. QED
  BY <1>1, BoundStep, GatewayInvariant, PTL DEF Spec

LEMMA OneEncoderStep ==
  ASSUME GatewayOK, OneVideoTranscode, [Next]_vars
  PROVE  OneVideoTranscode'
<1>1. 0 \notin Generation /\ \A i \in Slot : i # 0 => i \in Generation
  BY GatewayAssumption DEF Generation, Slot
<1>2. ASSUME NEW c \in Caller, NEW s \in Session, NEW g \in Generation,
             NEW video \in BOOLEAN, Unstarted(s, g), Start(c, s, g, video)
      PROVE  OneVideoTranscode'
  <2>1. s \in Encoding' <=> video
    BY <1>1, <1>2, StartReserves DEF Encoding
  <2>2. ASSUME NEW t \in Session \ {s}
        PROVE  t \in Encoding' <=> t \in Encoding
    <3>1. worker[t] \in Slot /\ starting[t] \in Slot
      BY DEF GatewayOK, TypeOK
    <3>2. worker'[t] = worker[t] /\ starting'[t] = starting[t]
      BY <1>2, StartReserves
    <3>3. \A h \in Generation : Encodes(t, h)' = Encodes(t, h)
      BY <1>2, StartReserves
    <3>4. QED
      BY <1>1, <3>1, <3>2, <3>3 DEF Encoding, Encodes
  <2>3. ASSUME video, NEW t \in Session \ {s}
        PROVE  t \notin Encoding
    <3>1. HasCapacity(video, s)
      BY <1>2, StartReserves
    <3>2. /\ \A u \in Others(worker, s) : ~Encodes(u, worker[u])
          /\ \A u \in Others(starting, s) : ~Encodes(u, starting[u])
      BY <2>3, <3>1 DEF HasCapacity
    <3>3. /\ worker[t] # 0 => t \in Others(worker, s)
          /\ starting[t] # 0 => t \in Others(starting, s)
      BY DEF Others
    <3>4. QED
      BY <3>2, <3>3 DEF Encoding
  <2>4. Encoding \subseteq Session /\ Encoding' \subseteq Session
    BY DEF Encoding
  <2>5. QED
    BY <2>1, <2>2, <2>3, <2>4 DEF OneVideoTranscode
<1>3. ASSUME Settles
      PROVE  OneVideoTranscode'
  <2>1. ASSUME NEW t \in Encoding'
        PROVE  t \in Encoding
    <3>1. /\ t \in Session /\ mode' = mode
          /\ worker'[t] \in {0, worker[t], starting[t]}
          /\ starting'[t] \in {0, starting[t]}
      BY <1>3, <2>1 DEF Settles, Encoding
    <3>2. \/ worker'[t] # 0 /\ mode[<<t, worker'[t]>>] = "transcode"
          \/ starting'[t] # 0 /\ mode[<<t, starting'[t]>>] = "transcode"
      BY <2>1, <3>1 DEF Encoding, Encodes
    <3>3. QED
      BY <3>1, <3>2 DEF Encoding, Encodes
  <2>2. QED
    BY <2>1 DEF OneVideoTranscode
<1>4. QED
  BY <1>2, <1>3, OthersSettle

(***************************************************************************)
(* The maps never hold two sessions that encode video.                     *)
(***************************************************************************)
THEOREM OneEncoder == Spec => []OneVideoTranscode
<1>1. Init => OneVideoTranscode
  BY DEF Init, OneVideoTranscode, Encoding
<1>2. QED
  BY <1>1, OneEncoderStep, GatewayInvariant, PTL DEF Spec
=============================================================================

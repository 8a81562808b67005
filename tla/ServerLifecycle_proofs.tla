------------------------ MODULE ServerLifecycle_proofs ------------------------
(***************************************************************************)
(* The safety properties of the server's life, for every set of requests   *)
(* and every number of models, samples and drains.                         *)
(*                                                                         *)
(* The counter stays a natural number only because it is the number of the *)
(* requests that are handled or leaked (CountExact): a request that gives  *)
(* its count back is one of those that are counted.  A server never leaves *)
(* its shutdown because every change of state but a failing boot goes      *)
(* through the table, and a server that boots does not shut down           *)
(* (BootShape).  A late request stays out because the state it came in     *)
(* still holds when the first middleware sees it (LateShape).              *)
(***************************************************************************)
EXTENDS ServerLifecycle, FiniteSetTheorems, TLAPS

\* A server that boots has not got further than worker discovery and takes no
\* request.
BootShape ==
  main = "boot" => phase \in BootPhases /\ \A r \in Requests : request[r].pc = "new"

\* The state in which a late request came is never left.
LateShape == \A r \in Requests : request[r].late => IsShuttingDown(phase)

\* A promotion follows a warmup without failures.
PromoteShape ==
  warmup.pc = "promote" => warmup.loaded = Targets /\ warmup.failed = FALSE

\* What the counter is, as the code stands.
CountedPcs == Handling \cup {"ran", "leaked"}
Counted == {r \in Requests : request[r].pc \in CountedPcs}
CountExact == in_flight_requests = Cardinality(Counted)

IndInv ==
  /\ TypeOK /\ BootShape /\ LateShape /\ PromoteShape
  /\ CountExact /\ NoLateAdmission /\ FullyReadyWarm

-------------------------------------------------------------------------------
(* The table of transitions *)

\* A transition goes where it is told or nowhere, and leaves a shutdown only
\* for a failure.
LEMMA TransitionShape ==
  ASSUME phase \in Phases, NEW to \in Phases \ {"failed"}, Transition(to)
  PROVE  /\ phase' \in Phases /\ phase' \in {phase, to}
         /\ IsShuttingDown(phase) => IsShuttingDown(phase')
BY DEF Transition, IsAllowedTransition, IsTerminal, IsReady, IsShuttingDown,
       BootOrder, Phases, BootPhases

\* A failing boot.
LEMMA BootFailsShape ==
  ASSUME phase \in BootPhases, Transition("failed")
  PROVE  phase' = "failed"
BY DEF Transition, IsAllowedTransition, IsTerminal, BootPhases

-------------------------------------------------------------------------------
(* Requests *)

\* A request moves from one place to another and the others stay.
LEMMA RequestMoves ==
  ASSUME request \in [Requests -> RequestStates], NEW r \in Requests, NEW pc,
         [request[r] EXCEPT !.pc = pc] \in RequestStates, RequestTo(r, pc)
  PROVE  /\ request' \in [Requests -> RequestStates]
         /\ request'[r] = [request[r] EXCEPT !.pc = pc]
         /\ request'[r].pc = pc /\ request'[r].kind = request[r].kind
         /\ request'[r].late = request[r].late
         /\ \A s \in Requests : s # r => request'[s] = request[s]
BY DEF RequestTo, RequestStates

\* The counted requests are finitely many.
LEMMA CountedFinite == IsFiniteSet(Counted)
BY LifecycleAssumption, FS_Subset DEF Counted

\* A move between two places on the same side of the counter.
LEMMA CountKept ==
  ASSUME NEW r \in Requests, \A s \in Requests : s # r => request'[s] = request[s],
         request[r].pc \in CountedPcs <=> request'[r].pc \in CountedPcs
  PROVE  Counted' = Counted
BY DEF Counted, CountedPcs

\* A move into the counted places.
LEMMA CountRises ==
  ASSUME NEW r \in Requests, \A s \in Requests : s # r => request'[s] = request[s],
         request[r].pc \notin CountedPcs, request'[r].pc \in CountedPcs
  PROVE  Cardinality(Counted') = Cardinality(Counted) + 1
<1>1. r \notin Counted /\ Counted' = Counted \cup {r}
  BY DEF Counted, CountedPcs
<1> QED BY <1>1, CountedFinite, FS_AddElement

\* A move out of the counted places.
LEMMA CountFalls ==
  ASSUME NEW r \in Requests, \A s \in Requests : s # r => request'[s] = request[s],
         request[r].pc \in CountedPcs, request'[r].pc \notin CountedPcs
  PROVE  /\ Cardinality(Counted') = Cardinality(Counted) - 1
         /\ Cardinality(Counted) - 1 \in Nat
<1>1. r \in Counted /\ Counted' = Counted \ {r}
  BY DEF Counted, CountedPcs
<1>2. IsFiniteSet(Counted') /\ Cardinality(Counted') = Cardinality(Counted) - 1
  BY <1>1, CountedFinite, FS_RemoveElement
<1> QED BY <1>2, FS_CardinalityType

-------------------------------------------------------------------------------
(* Steps of the server: they leave the requests and the counter alone. *)

\* A change of state that stays in a shutdown keeps what is known of requests.
LEMMA ServerStepInv ==
  ASSUME IndInv, UNCHANGED <<request, in_flight_requests>>,
         phase' \in Phases, main' \in {"boot", "serve", "coordinate", "exited"},
         warmup' \in WarmupStates, drain' \in DrainStates, signalled' \in BOOLEAN,
         BootShape', PromoteShape', FullyReadyWarm',
         IsShuttingDown(phase) => IsShuttingDown(phase')
  PROVE  IndInv'
<1>1. Counted' = Counted
  BY DEF Counted
<1>2. TypeOK' /\ CountExact'
  BY <1>1 DEF IndInv, TypeOK, CountExact
<1>3. LateShape' /\ NoLateAdmission'
  BY DEF IndInv, LateShape, NoLateAdmission, Behind
<1> QED BY <1>2, <1>3 DEF IndInv

\* A step that also leaves the state alone.
LEMMA QuietStepInv ==
  ASSUME IndInv, UNCHANGED <<phase, request, in_flight_requests>>,
         main' \in {main, "coordinate", "exited"}, warmup' \in WarmupStates,
         drain' \in DrainStates, signalled' \in BOOLEAN,
         PromoteShape', phase = "fully_ready" => warmup' = warmup
  PROVE  IndInv'
<1>1. BootShape' /\ FullyReadyWarm'
  BY DEF IndInv, BootShape, FullyReadyWarm
<1> QED BY <1>1, ServerStepInv DEF IndInv, TypeOK

\* Init establishes the invariant.
LEMMA InitInv == Init => IndInv
<1> SUFFICES ASSUME Init PROVE IndInv
  OBVIOUS
<1>1. request \in [Requests -> RequestStates]
  BY DEF Init, RequestStates
<1>5. warmup \in WarmupStates /\ drain \in DrainStates
  BY LifecycleAssumption DEF Init, WarmupStates, DrainStates
<1>6. TypeOK
  BY <1>1, <1>5 DEF Init, TypeOK, Phases, BootPhases
<1>2. BootShape /\ LateShape /\ PromoteShape /\ NoLateAdmission /\ FullyReadyWarm
  BY DEF Init, BootShape, LateShape, PromoteShape, NoLateAdmission,
     FullyReadyWarm, BootPhases
<1>3. Counted = {}
  BY DEF Init, Counted, CountedPcs, Handling
<1>4. CountExact
  BY <1>3, FS_EmptySet DEF Init, CountExact
<1> QED BY <1>2, <1>4, <1>6 DEF IndInv

\* Boot and warmup.
LEMMA BootInv ==
  ASSUME IndInv, Boot \/ BootFails \/ Serve PROVE IndInv'
<1> USE DEF IndInv, TypeOK
<1>1. /\ main = "boot" /\ phase \in BootPhases /\ ~IsShuttingDown(phase)
      /\ \A r \in Requests : request[r].pc = "new"
  BY DEF Boot, BootFails, Serve, BootShape, BootPhases, IsShuttingDown
<1>2. PromoteShape' /\ UNCHANGED <<warmup, request, in_flight_requests, signalled, drain>>
  BY DEF Boot, BootFails, Serve, PromoteShape
<1>3. CASE Boot
  <2>1. PICK to \in BootPhases : Transition(to)
    BY <1>3 DEF Boot
  <2>2. phase' \in BootPhases
    BY <1>1, <2>1 DEF Transition
  <2>3. BootShape' /\ FullyReadyWarm' /\ phase' \in Phases /\ main' = main
    BY <1>1, <1>2, <1>3, <2>2 DEF BootShape, FullyReadyWarm, BootPhases, Phases, Boot
  <2> QED BY <1>1, <1>2, <2>3, ServerStepInv
<1>4. CASE BootFails
  <2>1. phase' \in {phase, "failed"} /\ main' = "exited"
    BY <1>1, <1>4, BootFailsShape DEF BootFails
  <2>2. BootShape' /\ FullyReadyWarm' /\ phase' \in Phases
    BY <1>1, <2>1 DEF BootShape, FullyReadyWarm, Phases, BootPhases
  <2> QED BY <1>1, <1>2, <2>1, <2>2, ServerStepInv
<1>5. CASE Serve
  <2>1. phase' \in {phase, "ready"} /\ phase' \in Phases /\ main' = "serve"
    BY <1>5 DEF Serve, Transition, Phases
  <2>2. BootShape' /\ FullyReadyWarm'
    BY <1>1, <2>1 DEF BootShape, FullyReadyWarm, BootPhases
  <2> QED BY <1>1, <1>2, <2>1, <2>2, ServerStepInv
<1> QED BY <1>3, <1>4, <1>5

LEMMA WarmupInv ==
  ASSUME IndInv,
         \/ WarmupPoll \/ WarmupUnresolved \/ WarmupCheck \/ WarmupPromote
         \/ \E ok \in BOOLEAN : WarmupLoad(ok)
  PROVE  IndInv'
<1> USE DEF IndInv, TypeOK
<1>0. warmup.pc # "over"
  BY DEF WarmupPoll, WarmupUnresolved, WarmupCheck, WarmupPromote, WarmupLoad
<1>1. phase # "fully_ready"
  BY <1>0 DEF FullyReadyWarm
<1>2. UNCHANGED <<main, request, in_flight_requests, signalled, drain>>
  BY DEF WarmupPoll, WarmupUnresolved, WarmupCheck, WarmupPromote, WarmupLoad, WarmupOnly
<1>3. CASE WarmupPoll \/ WarmupUnresolved
  <2>1. warmup' \in WarmupStates /\ PromoteShape' /\ phase' = phase
    BY <1>3 DEF WarmupPoll, WarmupUnresolved, WarmupTo, WarmupStates, PromoteShape
  <2> QED BY <1>1, <1>2, <2>1, QuietStepInv
<1>4. CASE WarmupCheck
  <2>1. warmup' \in WarmupStates /\ PromoteShape' /\ phase' = phase
    BY <1>4 DEF WarmupCheck, WarmupTo, WarmupStates, PromoteShape
  <2> QED BY <1>1, <1>2, <2>1, QuietStepInv
<1>5. ASSUME NEW ok \in BOOLEAN, WarmupLoad(ok) PROVE IndInv'
  <2> DEFINE f == warmup.failed \/ ~ok
             n == warmup.loaded + 1
  <2>1. f \in BOOLEAN
    OBVIOUS
  <2>5. warmup.loaded < Targets /\ warmup.pc = "load" /\ phase' = phase
    BY <1>5 DEF WarmupLoad
  <2>2. n \in 0..Targets
    BY <2>5, LifecycleAssumption DEF WarmupStates
  <2>3. warmup' = [warmup EXCEPT !.loaded = n, !.failed = f]
    BY <1>5 DEF WarmupLoad
  <2> HIDE DEF f, n
  <2>4. warmup' \in WarmupStates /\ PromoteShape'
    BY <2>1, <2>2, <2>3, <2>5 DEF WarmupStates, PromoteShape
  <2> QED BY <1>1, <1>2, <2>4, <2>5, QuietStepInv
<1>6. CASE WarmupPromote
  <2>1. warmup' = [warmup EXCEPT !.pc = "over"] /\ Transition("fully_ready")
    BY <1>6 DEF WarmupPromote, WarmupTo
  <2>2. warmup.loaded = Targets /\ warmup.failed = FALSE
    BY <1>6 DEF WarmupPromote, PromoteShape
  <2>3. /\ warmup' = [pc |-> "over", loaded |-> Targets, failed |-> FALSE]
        /\ warmup' \in WarmupStates /\ PromoteShape'
    BY <2>1, <2>2 DEF WarmupStates, PromoteShape
  <2>4. /\ phase' \in Phases
        /\ IsShuttingDown(phase) => IsShuttingDown(phase')
        /\ phase \in BootPhases => phase' = phase
    BY <2>1, TransitionShape DEF Phases, Transition, IsAllowedTransition, BootOrder,
       BootPhases
  <2>5. BootShape' /\ FullyReadyWarm'
    BY <1>2, <2>3, <2>4 DEF BootShape, FullyReadyWarm
  <2>6. main' \in {"boot", "serve", "coordinate", "exited"} /\ signalled' \in BOOLEAN
    BY <1>2
  <2>7. drain' \in DrainStates
    BY <1>2
  <2> HIDE DEF IndInv, TypeOK
  <2> QED BY <1>2, <2>3, <2>4, <2>5, <2>6, <2>7, ServerStepInv
<1> QED BY <1>3, <1>4, <1>5, <1>6

\* The drain and the end.
LEMMA DrainInv ==
  ASSUME IndInv, Signal \/ BeginDrain \/ Sample \/ Stop \/ StopServing \/ Exit
  PROVE  IndInv'
<1>1. /\ UNCHANGED <<warmup, request, in_flight_requests>>
      /\ warmup' \in WarmupStates /\ signalled' \in BOOLEAN
      /\ PromoteShape'
  BY DEF Signal, BeginDrain, Sample, Stop, StopServing, Exit, DrainOnly, IndInv, TypeOK,
     PromoteShape
<1>2. CASE Signal \/ StopServing \/ Exit
  <2>1. /\ UNCHANGED <<phase, drain>> /\ drain' \in DrainStates
        /\ main' \in {main, "coordinate", "exited"}
    BY <1>2 DEF Signal, StopServing, Exit, DrainOnly, IndInv, TypeOK
  <2> QED BY <1>1, <2>1, QuietStepInv
<1>3. CASE Sample
  <2>1. drain \in DrainStates /\ drain.samples \in 0..DrainTimeout
    BY DEF IndInv, TypeOK, DrainStates
  <2>2. drain' \in DrainStates
    <3>1. \/ drain' = [drain EXCEPT !.pc = "stop"]
          \/ drain' = [drain EXCEPT !.pc = "stop", !.forced = TRUE]
          \/ /\ ~(drain.samples >= DrainTimeout)
             /\ drain' = [drain EXCEPT !.samples = drain.samples + 1]
      BY <1>3 DEF Sample
    <3>2. ~(drain.samples >= DrainTimeout) => drain.samples + 1 \in 0..DrainTimeout
      BY <2>1, LifecycleAssumption
    <3> QED BY <2>1, <3>1, <3>2 DEF DrainStates
  <2>3. UNCHANGED <<phase, main>>
    BY <1>3 DEF Sample, DrainOnly
  <2> QED BY <1>1, <2>2, <2>3, QuietStepInv
<1>4. ASSUME NEW to \in {"draining", "stopping"}, Transition(to), main' = main,
             drain' \in DrainStates
      PROVE  IndInv'
  <2>1. /\ phase' \in Phases /\ phase' \in {phase, to}
        /\ IsShuttingDown(phase) => IsShuttingDown(phase')
        /\ phase \in BootPhases => phase' = phase
    BY <1>4, TransitionShape DEF IndInv, TypeOK, Phases, Transition, IsAllowedTransition,
       IsReady, BootOrder, BootPhases
  <2>2. BootShape' /\ FullyReadyWarm'
    BY <1>1, <1>4, <2>1 DEF IndInv, BootShape, FullyReadyWarm
  <2>3. main' \in {"boot", "serve", "coordinate", "exited"}
    BY <1>4 DEF IndInv, TypeOK
  <2> QED BY <1>1, <1>4, <2>1, <2>2, <2>3, ServerStepInv
<1>5. CASE BeginDrain
  <2>1. drain' \in DrainStates
    BY <1>5 DEF BeginDrain, IndInv, TypeOK, DrainStates
  <2> QED BY <1>4, <1>5, <2>1 DEF BeginDrain, DrainOnly
<1>6. CASE Stop
  <2>1. drain' \in DrainStates
    BY <1>6 DEF Stop, IndInv, TypeOK, DrainStates
  <2> QED BY <1>4, <1>6, <2>1 DEF Stop, DrainOnly
<1> QED BY <1>2, <1>3, <1>5, <1>6

-------------------------------------------------------------------------------
(* Steps of a request: they leave the rest of the server alone, but for the  *)
(* state, which a handler may change.                                        *)

LEMMA RequestStepInv ==
  ASSUME IndInv, NEW r \in Requests, request' \in [Requests -> RequestStates],
         \A s \in Requests : s # r => request'[s] = request[s],
         UNCHANGED <<main, warmup, drain>>, main # "boot", signalled' \in BOOLEAN,
         phase' \in Phases, phase' = "fully_ready" => phase' = phase,
         IsShuttingDown(phase) => IsShuttingDown(phase'),
         in_flight_requests' = Cardinality(Counted'), in_flight_requests' \in Nat,
         request'[r].late => IsShuttingDown(phase'),
         request'[r].late /\ Behind(r)' => request'[r].pc \in {"arrived", "rejected", "dropped"}
  PROVE  IndInv'
<1>1. TypeOK' /\ BootShape' /\ PromoteShape' /\ FullyReadyWarm' /\ CountExact'
  BY DEF IndInv, TypeOK, BootShape, PromoteShape, FullyReadyWarm, CountExact
<1>2. LateShape'
  BY DEF IndInv, LateShape
<1>3. NoLateAdmission'
  BY DEF IndInv, NoLateAdmission, Behind
<1> QED BY <1>1, <1>2, <1>3 DEF IndInv

\* A request moves on without a change of the counter.
LEMMA MoveInv ==
  ASSUME IndInv, NEW r \in Requests, NEW pc, RequestTo(r, pc),
         [request[r] EXCEPT !.pc = pc] \in RequestStates,
         request[r].pc # "new", request[r].pc \in CountedPcs <=> pc \in CountedPcs,
         UNCHANGED <<main, warmup, drain, in_flight_requests>>, signalled' \in BOOLEAN,
         phase' \in Phases, phase' = "fully_ready" => phase' = phase,
         IsShuttingDown(phase) => IsShuttingDown(phase'),
         request[r].late /\ Behind(r) => pc \in {"arrived", "rejected", "dropped"}
  PROVE  IndInv'
<1>1. /\ request' \in [Requests -> RequestStates]
      /\ request'[r].pc = pc /\ request'[r].late = request[r].late
      /\ Behind(r)' <=> Behind(r)
      /\ \A s \in Requests : s # r => request'[s] = request[s]
  BY RequestMoves DEF IndInv, TypeOK, Behind
<1>2. in_flight_requests' = Cardinality(Counted') /\ in_flight_requests' \in Nat
  BY <1>1, CountKept DEF IndInv, TypeOK, CountExact
<1>3. main # "boot" /\ (request[r].late => IsShuttingDown(phase))
  BY DEF IndInv, BootShape, LateShape
<1> QED BY <1>1, <1>2, <1>3, RequestStepInv

\* The middlewares, and the handlers and clients that change nothing else.
LEMMA PassInv ==
  ASSUME IndInv, NEW r \in Requests,
         \/ DrainMiddleware(r) \/ LifecycleGate(r) \/ HandleWork(r) \/ HandleSpoke(r)
         \/ SendBody(r) \/ Disconnect(r)
  PROVE  IndInv'
<1>1. /\ UNCHANGED <<main, warmup, drain, in_flight_requests, phase>> /\ signalled' \in BOOLEAN
      /\ phase' \in Phases /\ request[r].pc # "new"
  BY DEF DrainMiddleware, LifecycleGate, HandleWork, HandleSpoke, SendBody, Disconnect, RequestOnly,
     IndInv, TypeOK, Handling
<1>2. PICK pc \in {"rejected", "gate", "count", "ran", "open", "done", "leaked", "dropped"} :
         /\ RequestTo(r, pc)
         /\ request[r].pc \in CountedPcs <=> pc \in CountedPcs
         /\ request[r].late /\ Behind(r) => pc \in {"arrived", "rejected", "dropped"}
  <2>1. /\ request[r].late /\ Behind(r) => request[r].pc \in {"arrived", "rejected", "dropped"}
        /\ request[r].late => IsShuttingDown(phase)
    BY DEF IndInv, NoLateAdmission, LateShape
  <2>2. CASE DrainMiddleware(r)
    BY <2>1, <2>2 DEF DrainMiddleware, CountedPcs, Handling
  <2>3. CASE LifecycleGate(r)
    BY <2>1, <2>3 DEF LifecycleGate, CountedPcs, Handling
  <2>4. CASE HandleWork(r)
    BY <2>1, <2>4 DEF HandleWork, CountedPcs, Handling
  <2>5. CASE SendBody(r)
    BY <2>1, <2>5 DEF SendBody, CountedPcs, Handling
  <2>6. CASE Disconnect(r)
    BY <2>1, <2>6 DEF Disconnect, CountedPcs, Handling
  <2>7. CASE HandleSpoke(r)
    BY <2>1, <2>7 DEF HandleSpoke, CountedPcs, Handling
  <2> QED BY <2>2, <2>3, <2>4, <2>5, <2>6, <2>7
<1>3. [request[r] EXCEPT !.pc = pc] \in RequestStates
  BY DEF IndInv, TypeOK, RequestStates
<1> QED BY <1>1, <1>2, <1>3, MoveInv

\* The handlers of the administrators.
LEMMA AdminInv ==
  ASSUME IndInv, NEW r \in Requests,
         RequestShutdown(r) \/ RequestMaintenance(r) \/ SafeRestart(r)
  PROVE  IndInv'
<1>1. request[r].pc \in Handling /\ ~(request[r].late /\ Behind(r))
  BY DEF RequestShutdown, RequestMaintenance, SafeRestart, HandleAdmin, Handling, IndInv,
     NoLateAdmission
<1>2. UNCHANGED <<main, warmup, drain, in_flight_requests>> /\ signalled' \in BOOLEAN
  BY DEF RequestShutdown, RequestMaintenance, SafeRestart, HandleAdmin, RequestOnly,
     IndInv, TypeOK
<1>3. PICK pc \in {"run2", "run3", "ran"} : RequestTo(r, pc)
  BY DEF RequestShutdown, RequestMaintenance, SafeRestart, HandleAdmin
<1>4. \/ phase' = phase
      \/ \E to \in {"draining", "stopping", "maintenance"} : Transition(to)
  BY DEF RequestShutdown, RequestMaintenance, SafeRestart, HandleAdmin
<1>5. /\ phase' \in Phases
      /\ phase' = "fully_ready" => phase' = phase
      /\ IsShuttingDown(phase) => IsShuttingDown(phase')
  BY <1>4, TransitionShape DEF IndInv, TypeOK, Phases
<1>6. [request[r] EXCEPT !.pc = pc] \in RequestStates
  BY <1>3 DEF IndInv, TypeOK, RequestStates, Handling
<1> QED BY <1>1, <1>2, <1>3, <1>5, <1>6, MoveInv DEF CountedPcs, Handling

\* The two steps that change the counter, and the arrival of a request.
LEMMA CountInv ==
  ASSUME IndInv, NEW r \in Requests, Count(r) \/ Uncount(r) PROVE IndInv'
<1>1. /\ UNCHANGED <<main, warmup, drain, phase, signalled>>
      /\ request[r].pc \in {"count", "ran"} /\ ~(request[r].late /\ Behind(r))
  BY DEF Count, Uncount, RequestOnly, IndInv, NoLateAdmission
<1>2. PICK pc \in {"run", "body", "done"} :
         /\ RequestTo(r, pc)
         /\ \/ /\ pc = "run" /\ request[r].pc = "count"
               /\ in_flight_requests' = in_flight_requests + 1
            \/ /\ pc # "run" /\ request[r].pc = "ran"
               /\ in_flight_requests' = in_flight_requests - 1
  BY DEF Count, Uncount
<1>3. [request[r] EXCEPT !.pc = pc] \in RequestStates
  BY <1>2 DEF IndInv, TypeOK, RequestStates, Handling
<1>4. /\ request' \in [Requests -> RequestStates]
      /\ request'[r].pc = pc /\ request'[r].late = request[r].late
      /\ Behind(r)' <=> Behind(r)
      /\ \A s \in Requests : s # r => request'[s] = request[s]
  BY <1>2, <1>3, RequestMoves DEF IndInv, TypeOK, Behind
<1>5. in_flight_requests' = Cardinality(Counted') /\ in_flight_requests' \in Nat
  BY <1>2, <1>4, CountRises, CountFalls DEF IndInv, TypeOK, CountExact, CountedPcs, Handling
<1>6. /\ main # "boot" /\ phase \in Phases /\ signalled \in BOOLEAN
      /\ request[r].late => IsShuttingDown(phase)
  BY <1>1 DEF IndInv, BootShape, LateShape, TypeOK
<1> QED BY <1>1, <1>4, <1>5, <1>6, RequestStepInv

LEMMA ArriveInv ==
  ASSUME IndInv, NEW r \in Requests, NEW k \in Kinds, Arrive(r, k) PROVE IndInv'
<1>1. /\ UNCHANGED <<main, warmup, drain, phase, in_flight_requests, signalled>>
      /\ main # "boot" /\ request[r].pc = "new"
  BY DEF Arrive, RequestOnly
<1>2. IsShuttingDown(phase) \in BOOLEAN
  BY DEF IsShuttingDown
<1>3. /\ request' = [request EXCEPT ![r] = [pc |-> "arrived", kind |-> k,
                                            late |-> IsShuttingDown(phase)]]
      /\ [pc |-> "arrived", kind |-> k, late |-> IsShuttingDown(phase)] \in RequestStates
  BY <1>2, LifecycleAssumption DEF Arrive, RequestStates
<1>4. /\ request' \in [Requests -> RequestStates]
      /\ request'[r].pc = "arrived" /\ (request'[r].late => IsShuttingDown(phase))
      /\ \A s \in Requests : s # r => request'[s] = request[s]
  BY <1>3 DEF IndInv, TypeOK
<1>5. Counted' = Counted
  BY <1>1, <1>4, CountKept DEF CountedPcs, Handling
<1>6. in_flight_requests' = Cardinality(Counted') /\ in_flight_requests' \in Nat
  BY <1>1, <1>5 DEF IndInv, TypeOK, CountExact
<1>7. phase \in Phases /\ signalled \in BOOLEAN
  BY DEF IndInv, TypeOK
<1> QED BY <1>1, <1>4, <1>6, <1>7, RequestStepInv

-------------------------------------------------------------------------------
(* Theorems *)

\* Every step preserves the invariant.
LEMMA NextInv == IndInv /\ [Next]_vars => IndInv'
<1> SUFFICES ASSUME IndInv, [Next]_vars PROVE IndInv'
  OBVIOUS
<1>1. CASE Boot \/ BootFails \/ Serve
  BY <1>1, BootInv
<1>2. CASE \/ WarmupPoll \/ WarmupUnresolved \/ WarmupCheck \/ WarmupPromote
           \/ \E ok \in BOOLEAN : WarmupLoad(ok)
  BY <1>2, WarmupInv
<1>3. CASE Signal \/ BeginDrain \/ Sample \/ Stop \/ StopServing \/ Exit
  BY <1>3, DrainInv
<1>4. ASSUME NEW r \in Requests, RequestStep(r) PROVE IndInv'
  BY <1>4, PassInv, AdminInv, CountInv DEF RequestStep
<1>5. ASSUME NEW r \in Requests, NEW k \in Kinds, Arrive(r, k) PROVE IndInv'
  BY <1>5, ArriveInv
<1>6. CASE UNCHANGED vars
  BY <1>6 DEF vars, IndInv, TypeOK, BootShape, LateShape, PromoteShape, CountExact,
     Counted, NoLateAdmission, Behind, FullyReadyWarm
<1> QED BY <1>1, <1>2, <1>3, <1>4, <1>5, <1>6 DEF Next

\* No step leaves a shutdown.
LEMMA NextAbsorbs ==
  IndInv /\ [Next]_vars => (IsShuttingDown(phase) => IsShuttingDown(phase'))
<1> SUFFICES ASSUME IndInv, [Next]_vars, IsShuttingDown(phase)
             PROVE  IsShuttingDown(phase')
  OBVIOUS
<1>1. main # "boot" /\ phase \in Phases
  BY DEF IndInv, TypeOK, BootShape, BootPhases, IsShuttingDown
<1>2. CASE phase' = phase
  BY <1>2
<1>3. CASE \E to \in {"fully_ready", "draining", "stopping", "maintenance"} : Transition(to)
  BY <1>1, <1>3, TransitionShape DEF Phases
<1>4. CASE Boot \/ BootFails \/ Serve
  BY <1>1, <1>4 DEF Boot, BootFails, Serve
<1>5. ASSUME NEW r \in Requests, RequestStep(r) PROVE IsShuttingDown(phase')
  BY <1>2, <1>3, <1>5 DEF RequestStep, DrainMiddleware, LifecycleGate, Count, HandleWork,
     HandleSpoke, RequestShutdown, RequestMaintenance, SafeRestart, HandleAdmin, Uncount, SendBody,
     Disconnect
<1>6. CASE \/ WarmupPoll \/ WarmupUnresolved \/ WarmupCheck \/ WarmupPromote
           \/ \E ok \in BOOLEAN : WarmupLoad(ok)
  BY <1>2, <1>3, <1>6 DEF WarmupPoll, WarmupUnresolved, WarmupCheck, WarmupPromote, WarmupLoad
<1>7. CASE Signal \/ BeginDrain \/ Sample \/ Stop \/ StopServing \/ Exit
  BY <1>2, <1>3, <1>7 DEF Signal, BeginDrain, Sample, Stop, StopServing, Exit
<1>8. ASSUME NEW r \in Requests, NEW k \in Kinds, Arrive(r, k)
      PROVE  IsShuttingDown(phase')
  BY <1>2, <1>8 DEF Arrive
<1>9. CASE UNCHANGED vars
  BY <1>2, <1>9 DEF vars
<1> QED BY <1>4, <1>5, <1>6, <1>7, <1>8, <1>9 DEF Next

\* The types, the exact counter, the fate of late requests and the promotion form
\* an inductive invariant of the server.
THEOREM LifecycleInvariant == Spec => []IndInv
BY InitInv, NextInv, PTL DEF Spec

\* The server's state keeps its types, and a drain its number of samples.
THEOREM LifecycleTypeOK == Spec => []TypeOK
<1>1. IndInv => TypeOK
  BY DEF IndInv
<1> QED BY <1>1, LifecycleInvariant, PTL

\* For every number of requests, the counter that a drain waits for covers every
\* handler behind the middlewares, and shows no more than the leaked requests beyond.
THEOREM LifecycleCountCovers == Spec => []CountCovers
<1>1. ASSUME IndInv PROVE CountCovers
  <2>1. /\ Counted = Handled \cup Leaked /\ Handled \cap Leaked = {}
        /\ Handled \subseteq Requests /\ Leaked \subseteq Requests
    BY DEF Counted, CountedPcs, Handled, Leaked, Handling
  <2>2. IsFiniteSet(Handled) /\ IsFiniteSet(Leaked)
    BY <2>1, LifecycleAssumption, FS_Subset
  <2>3. Cardinality(Counted) = Cardinality(Handled) + Cardinality(Leaked) - Cardinality({})
    BY <2>1, <2>2, FS_Union
  <2>4. /\ Cardinality(Handled) \in Nat /\ Cardinality(Leaked) \in Nat
        /\ Cardinality({}) = 0
    BY <2>2, FS_CardinalityType, FS_EmptySet
  <2> QED BY <1>1, <2>3, <2>4 DEF IndInv, CountExact, CountCovers
<1> QED BY <1>1, LifecycleInvariant, PTL

\* No request that comes in a shutdown is handled behind the middlewares.
THEOREM LifecycleNoLateAdmission == Spec => []NoLateAdmission
<1>1. IndInv => NoLateAdmission
  BY DEF IndInv
<1> QED BY <1>1, LifecycleInvariant, PTL

\* A server that is fully ready has warmed up every model without a failure.
THEOREM LifecycleFullyReadyWarm == Spec => []FullyReadyWarm
<1>1. IndInv => FullyReadyWarm
  BY DEF IndInv
<1> QED BY <1>1, LifecycleInvariant, PTL

\* Nothing brings a server that shuts down back.
THEOREM LifecycleShutdownAbsorbs == Spec => ShutdownAbsorbs
<1>1. IndInv /\ [Next]_vars => [IsShuttingDown(phase) => IsShuttingDown(phase')]_vars
  BY NextAbsorbs
<1> QED BY <1>1, LifecycleInvariant, PTL DEF Spec, ShutdownAbsorbs
===============================================================================

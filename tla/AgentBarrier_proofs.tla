------------------------- MODULE AgentBarrier_proofs -------------------------
(***************************************************************************)
(* Type correctness of the barrier and NoOvertaking, for every set of      *)
(* agents, every number of ticks, and with or without timeouts.            *)
(*                                                                         *)
(* NoOvertaking is not inductive: an agent returns from wait() some steps  *)
(* after it found everyone ready.  TicksGrow says that an agent never      *)
(* records a tick below the one on record, so that what an agent found     *)
(* ready stays ready (ReadyHolds).                                         *)
(***************************************************************************)
EXTENDS AgentBarrier, TLAPS

\* The tick on record is at most the one that the agent waits for or has passed.
TicksGrow ==
  \A a \in Agents :
    /\ agent[a].pc = "idle" => agent_ticks[a] <= passed[a]
    /\ agent[a].pc \notin {"idle", "err"} => agent_ticks[a] <= agent[a].tick

\* Who goes for the exchange has everyone living at its tick.
ReadyHolds == \A a \in Agents : agent[a].pc = "cas" => AllReady(agent[a].tick)

IndInv == TypeOK /\ TicksGrow /\ ReadyHolds /\ NoOvertaking

\* Init establishes the invariant.
LEMMA InitInv == Init => IndInv
<1> SUFFICES ASSUME Init PROVE IndInv
  OBVIOUS
<1> USE BarrierAssumption
<1>1. TypeOK
  <2> DEFINE idle == [pc |-> "idle", tick |-> 0, gen |-> 0, late |-> FALSE]
  <2>1. idle \in AgentStates /\ idle.gen = 0
    BY DEF AgentStates
  <2>2. agent = [a \in Agents |-> idle]
    BY DEF Init
  <2> HIDE DEF idle
  <2>3. agent \in [Agents -> AgentStates] /\ \A a \in Agents : agent[a].gen <= 0
    BY <2>1, <2>2
  <2>4. /\ agent_ticks \in [Agents -> 0..MaxTick] /\ passed \in [Agents -> 0..MaxTick]
        /\ generation = 0 /\ generation \in Nat
    BY DEF Init
  <2>5. failed \in BOOLEAN /\ dead_agents \subseteq Agents /\ crashed \subseteq Agents
    BY DEF Init
  <2> QED BY <2>3, <2>4, <2>5 DEF TypeOK
<1>2. TicksGrow /\ ReadyHolds /\ NoOvertaking
  BY DEF Init, TicksGrow, ReadyHolds, NoOvertaking
<1> QED BY <1>1, <1>2 DEF IndInv

\* Every step of wait(), a timeout, a crash and a report of one preserve the types.
LEMMA TypeStep == TypeOK /\ [Next]_vars => TypeOK'
<1> SUFFICES ASSUME TypeOK, [Next]_vars PROVE TypeOK'
  OBVIOUS
<1> USE BarrierAssumption DEF TypeOK, AgentStates
<1>1. ASSUME NEW a \in Agents, Enter(a) PROVE TypeOK'
  <2>1. passed[a] + 1 \in 0..MaxTick
    BY <1>1 DEF Enter
  <2> DEFINE r == [agent[a] EXCEPT !.pc = IF failed THEN "err" ELSE "record",
                                   !.tick = passed[a] + 1, !.late = FALSE]
  <2>2. r \in AgentStates /\ r.gen = agent[a].gen
    BY <2>1
  <2>3. agent' = [agent EXCEPT ![a] = r]
    BY <1>1 DEF Enter
  <2> HIDE DEF r
  <2>4. /\ agent' \in [Agents -> AgentStates]
        /\ \A b \in Agents : agent'[b].gen = agent[b].gen
    BY <2>2, <2>3
  <2> QED BY <1>1, <2>4 DEF Enter
<1>2. ASSUME NEW a \in Agents, Record(a) PROVE TypeOK'
  BY <1>2 DEF Record, At, To
<1>3. ASSUME NEW a \in Agents, LoadGeneration(a) PROVE TypeOK'
  <2> DEFINE r == [agent[a] EXCEPT !.pc = "loop", !.gen = generation]
  <2>1. r \in AgentStates /\ r.gen = generation
    OBVIOUS
  <2>2. agent' = [agent EXCEPT ![a] = r]
    BY <1>3 DEF LoadGeneration
  <2> HIDE DEF r
  <2>3. /\ agent' \in [Agents -> AgentStates]
        /\ \A b \in Agents : agent'[b].gen <= generation
    BY <2>1, <2>2
  <2> QED BY <1>3, <2>3 DEF LoadGeneration
<1>4. ASSUME NEW a \in Agents, Timeout(a) PROVE TypeOK'
  BY <1>4 DEF Timeout, At, To
<1>5. ASSUME NEW a \in Agents, CheckFailed(a) PROVE TypeOK'
  BY <1>5 DEF CheckFailed, At, To
<1>6. ASSUME NEW a \in Agents, CheckReady(a) PROVE TypeOK'
  <2>1. PICK p \in {"cas", "loop"} : agent' = [agent EXCEPT ![a].pc = p]
    BY <1>6 DEF CheckReady, To
  <2> QED BY <1>6, <2>1 DEF CheckReady
<1>7. ASSUME NEW a \in Agents, Advance(a) PROVE TypeOK'
  <2>1. generation' \in Nat /\ 0..generation \subseteq 0..generation'
    BY <1>7 DEF Advance
  <2>2. passed' \in [Agents -> 0..MaxTick]
    BY <1>7 DEF Advance
  <2>3. PICK p \in {"idle", "loop"} : agent' = [agent EXCEPT ![a].pc = p]
    BY <1>7 DEF Advance, To
  <2> QED BY <1>7, <2>1, <2>2, <2>3 DEF Advance
<1>8. ASSUME NEW a \in Agents, Elapse(a) PROVE TypeOK'
  BY <1>8 DEF Elapse
<1>9. ASSUME NEW a \in Agents, MarkAgentDead(a) PROVE TypeOK'
  BY <1>9 DEF MarkAgentDead
<1>10. ASSUME NEW a \in Agents, Crash(a) PROVE TypeOK'
  BY <1>10 DEF Crash
<1>11. CASE UNCHANGED vars
  BY <1>11 DEF vars
<1> QED
  BY <1>1, <1>2, <1>3, <1>4, <1>5, <1>6, <1>7, <1>8, <1>9, <1>10, <1>11 DEF Next, Step

\* Every step preserves the rest of the invariant.
LEMMA InvStep == IndInv /\ [Next]_vars => (TicksGrow /\ ReadyHolds /\ NoOvertaking)'
<1> SUFFICES ASSUME TypeOK, TicksGrow, ReadyHolds, NoOvertaking, [Next]_vars
             PROVE  (TicksGrow /\ ReadyHolds /\ NoOvertaking)'
  BY DEF IndInv
<1> USE BarrierAssumption DEF TypeOK, AgentStates, TicksGrow, ReadyHolds, NoOvertaking, AllReady
<1>1. ASSUME NEW a \in Agents, Enter(a) PROVE (TicksGrow /\ ReadyHolds /\ NoOvertaking)'
  BY <1>1 DEF Enter, At
<1>2. ASSUME NEW a \in Agents, Record(a) PROVE (TicksGrow /\ ReadyHolds /\ NoOvertaking)'
  BY <1>2 DEF Record, At, To
<1>3. ASSUME NEW a \in Agents, LoadGeneration(a)
      PROVE  (TicksGrow /\ ReadyHolds /\ NoOvertaking)'
  BY <1>3 DEF LoadGeneration, At
<1>4. ASSUME NEW a \in Agents, Timeout(a) PROVE (TicksGrow /\ ReadyHolds /\ NoOvertaking)'
  BY <1>4 DEF Timeout, At, To
<1>5. ASSUME NEW a \in Agents, CheckFailed(a)
      PROVE  (TicksGrow /\ ReadyHolds /\ NoOvertaking)'
  BY <1>5 DEF CheckFailed, At, To
<1>6. ASSUME NEW a \in Agents, CheckReady(a)
      PROVE  (TicksGrow /\ ReadyHolds /\ NoOvertaking)'
  <2>1. CASE AllReady(agent[a].tick)
    BY <1>6, <2>1 DEF CheckReady, At, To
  <2>2. CASE ~AllReady(agent[a].tick)
    <3>1. To(a, "loop") /\ UNCHANGED <<agent_ticks, dead_agents, passed>>
      BY <1>6, <2>2 DEF CheckReady
    <3> QED BY <1>6, <3>1 DEF CheckReady, At, To
  <2> QED BY <2>1, <2>2
<1>7. ASSUME NEW a \in Agents, Advance(a) PROVE (TicksGrow /\ ReadyHolds /\ NoOvertaking)'
  <2>1. AllReady(agent[a].tick) /\ agent_ticks[a] <= agent[a].tick
    BY <1>7 DEF Advance, At
  <2>2. CASE generation >= agent[a].gen
    BY <1>7, <2>1, <2>2 DEF Advance, At, To
  <2>3. CASE ~(generation >= agent[a].gen)
    BY <1>7, <2>1, <2>3 DEF Advance, At, To
  <2> QED BY <2>2, <2>3
<1>8. ASSUME NEW a \in Agents, Elapse(a) PROVE (TicksGrow /\ ReadyHolds /\ NoOvertaking)'
  BY <1>8 DEF Elapse
<1>9. ASSUME NEW a \in Agents, MarkAgentDead(a)
      PROVE  (TicksGrow /\ ReadyHolds /\ NoOvertaking)'
  BY <1>9 DEF MarkAgentDead
<1>10. ASSUME NEW a \in Agents, Crash(a) PROVE (TicksGrow /\ ReadyHolds /\ NoOvertaking)'
  BY <1>10 DEF Crash
<1>11. CASE UNCHANGED vars
  BY <1>11 DEF vars
<1> QED
  BY <1>1, <1>2, <1>3, <1>4, <1>5, <1>6, <1>7, <1>8, <1>9, <1>10, <1>11 DEF Next, Step

\* The inductive invariant of the barrier.
THEOREM BarrierInvariant == Spec => []IndInv
<1>1. IndInv /\ [Next]_vars => IndInv'
  BY TypeStep, InvStep DEF IndInv
<1> QED BY InitInv, <1>1, PTL DEF Spec

\* The barrier's state keeps its types, and no agent waits on a generation that
\* has not been reached, whatever the interleaving of the compare-and-exchanges.
THEOREM BarrierTypeOK == Spec => []TypeOK
BY BarrierInvariant, PTL DEF IndInv

\* wait(tick) returns Ok to an agent only when every agent that is not dead has
\* called wait() for that tick or a later one.
THEOREM BarrierNoOvertaking == Spec => []NoOvertaking
BY BarrierInvariant, PTL DEF IndInv
===============================================================================

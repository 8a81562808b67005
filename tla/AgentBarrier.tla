----------------------------- MODULE AgentBarrier -----------------------------
(***************************************************************************)
(* AgentBarrier of adapteros-deterministic-exec (multi_agent.rs): agents   *)
(* call wait() with increasing ticks, one of them advances the generation  *)
(* by compare-and-exchange, timeouts fail the barrier for good, and        *)
(* mark_agent_dead removes a crashed agent.                                *)
(*                                                                         *)
(* A step is what wait() does between two accesses to shared state.  Every *)
(* round of its loop ends with a wait of at most 100 ms, so that a missed  *)
(* notification only delays the next round: notifications are left out.    *)
(* Time is abstracted to whether an agent's wait has timed out.            *)
(***************************************************************************)
EXTENDS Naturals, FiniteSets

CONSTANTS Agents,    \* agent_ids
          MaxTick,   \* bound: last tick of the agents
          Timeouts   \* whether waits may time out

ASSUME BarrierAssumption ==
  IsFiniteSet(Agents) /\ MaxTick \in Nat /\ Timeouts \in BOOLEAN

VARIABLES agent_ticks, generation, failed, dead_agents,
          agent,    \* agent[a] : its wait() call
          passed,   \* passed[a] : the last tick whose wait() returned Ok (history)
          crashed   \* the agents that have stopped

vars == <<agent_ticks, generation, failed, dead_agents, agent, passed, crashed>>

AgentStates ==
  [pc : {"idle", "record", "gen", "loop", "check", "cas", "err"},
   tick : 0..MaxTick,   \* the tick it waits for
   gen : Nat,           \* current_gen
   late : BOOLEAN]      \* its time is up

Init ==
  /\ agent_ticks = [a \in Agents |-> 0]
  /\ generation = 0 /\ failed = FALSE
  /\ dead_agents = {}
  /\ agent = [a \in Agents |-> [pc |-> "idle", tick |-> 0, gen |-> 0, late |-> FALSE]]
  /\ passed = [a \in Agents |-> 0]
  /\ crashed = {}

At(a, pc) == agent[a].pc = pc /\ a \notin crashed
To(a, pc) == agent' = [agent EXCEPT ![a].pc = pc]

\* wait(tick) is called for the next tick; a failed barrier refuses it.
Enter(a) ==
  /\ At(a, "idle") /\ passed[a] < MaxTick
  /\ agent' = [agent EXCEPT ![a] = [@ EXCEPT !.pc = IF failed THEN "err" ELSE "record",
                                             !.tick = passed[a] + 1, !.late = FALSE]]
  /\ UNCHANGED <<agent_ticks, generation, failed, dead_agents, passed, crashed>>

Record(a) ==
  /\ At(a, "record")
  /\ agent_ticks' = [agent_ticks EXCEPT ![a] = agent[a].tick]
  /\ To(a, "gen")
  /\ UNCHANGED <<generation, failed, dead_agents, passed, crashed>>

LoadGeneration(a) ==
  /\ At(a, "gen")
  /\ agent' = [agent EXCEPT ![a].pc = "loop", ![a].gen = generation]
  /\ UNCHANGED <<agent_ticks, generation, failed, dead_agents, passed, crashed>>

\* Mutant of Elapse: the start of the wait is read anew in every round.
ElapseRestarts(a) ==
  /\ Timeouts
  /\ agent[a].pc \in {"record", "gen", "loop", "check", "cas"} /\ ~agent[a].late
  /\ UNCHANGED vars

\* The time of the agent's wait runs out.
Elapse(a) ==
  /\ Timeouts
  /\ agent[a].pc \in {"record", "gen", "loop", "check", "cas"} /\ ~agent[a].late
  /\ agent' = [agent EXCEPT ![a].late = TRUE]
  /\ UNCHANGED <<agent_ticks, generation, failed, dead_agents, passed, crashed>>

\* A round begins: a timeout fails the barrier and the call.
Timeout(a) ==
  /\ At(a, "loop") /\ agent[a].late
  /\ failed' = TRUE
  /\ To(a, "err")
  /\ UNCHANGED <<agent_ticks, generation, dead_agents, passed, crashed>>

CheckFailed(a) ==
  /\ At(a, "loop") /\ ~agent[a].late
  /\ To(a, IF failed THEN "err" ELSE "check")
  /\ UNCHANGED <<agent_ticks, generation, failed, dead_agents, passed, crashed>>

\* Mutant of AllReady: dead agents are waited for.
AllReadyWithDead(t) == \A b \in Agents : agent_ticks[b] >= t

\* Mutant of AllReady: an agent one tick behind counts as ready.
AllReadyOffByOne(t) == \A b \in Agents : b \in dead_agents \/ agent_ticks[b] + 1 >= t

AllReady(t) == \A b \in Agents : b \in dead_agents \/ agent_ticks[b] >= t

CheckReady(a) ==
  /\ At(a, "check")
  /\ To(a, IF AllReady(agent[a].tick) THEN "cas" ELSE "loop")
  /\ UNCHANGED <<agent_ticks, generation, failed, dead_agents, passed, crashed>>

\* Mutant of Advance: a store in place of the compare-and-exchange.
AdvanceBlindly(a) ==
  /\ At(a, "cas")
  /\ generation' = agent[a].gen + 1
  /\ passed' = [passed EXCEPT ![a] = agent[a].tick]
  /\ To(a, "idle")
  /\ UNCHANGED <<agent_ticks, failed, dead_agents, crashed>>

\* Win or lose the exchange, the agent proceeds; a generation that did not
\* grow would be tried again.
Advance(a) ==
  /\ At(a, "cas")
  /\ generation' = IF generation = agent[a].gen THEN generation + 1 ELSE generation
  /\ IF generation >= agent[a].gen
     THEN passed' = [passed EXCEPT ![a] = agent[a].tick] /\ To(a, "idle")
     ELSE UNCHANGED passed /\ To(a, "loop")
  /\ UNCHANGED <<agent_ticks, failed, dead_agents, crashed>>

MarkAgentDead(a) ==
  /\ a \notin dead_agents
  /\ dead_agents' = dead_agents \cup {a}
  /\ UNCHANGED <<agent_ticks, generation, failed, agent, passed, crashed>>

\* An agent stops for good, anywhere in its call.
Crash(a) ==
  /\ a \notin crashed
  /\ crashed' = crashed \cup {a}
  /\ UNCHANGED <<agent_ticks, generation, failed, dead_agents, agent, passed>>

Step(a) ==
  \/ Enter(a) \/ Record(a) \/ LoadGeneration(a)
  \/ Timeout(a) \/ CheckFailed(a) \/ CheckReady(a) \/ Advance(a)

Next == \E a \in Agents : Step(a) \/ Elapse(a) \/ MarkAgentDead(a) \/ Crash(a)

Spec == Init /\ [][Next]_vars

\* Agents run.  Reports of crashes and the passing of time are premises of the
\* properties that need them.
FairSpec == Spec /\ \A a \in Agents : WF_vars(Step(a))
-------------------------------------------------------------------------------
(* Properties *)

\* The types; an agent waits on a generation that the barrier has had.
TypeOK ==
  /\ agent_ticks \in [Agents -> 0..MaxTick] /\ passed \in [Agents -> 0..MaxTick]
  /\ generation \in Nat /\ failed \in BOOLEAN
  /\ dead_agents \subseteq Agents /\ crashed \subseteq Agents
  /\ agent \in [Agents -> AgentStates]
  /\ \A a \in Agents : agent[a].gen <= generation

\* No agent gets past a tick that a living agent has not reached: "All agents
\* must reach the same logical tick before any can proceed".
NoOvertaking ==
  \A a, b \in Agents : b \in dead_agents \/ passed[a] <= agent_ticks[b]

\* If crashes are reported in the end, every agent that does not crash passes
\* every tick, wherever in their calls the others crash, unless a wait timed
\* out: "Remaining living agents can continue to sync after dead agents are marked".
AllPass ==
  (\A a \in Agents : (a \in crashed) ~> (a \in dead_agents))
    => <>(failed \/ \A a \in Agents : a \in crashed \/ passed[a] = MaxTick)

\* If time passes, every wait() of a running agent returns, even when a crash is
\* never reported: "Broadcasts failure on timeout to prevent deadlock".
WaitReturns ==
  (\A a \in Agents : WF_vars(Elapse(a)))
    => \A a \in Agents :
         (agent[a].pc = "record") ~> (agent[a].pc \in {"idle", "err"} \/ a \in crashed)

\* The generation "increments on each sync", once for each tick that the agents
\* have reached.
OneGenerationPerSync == \E a \in Agents : generation <= agent_ticks[a]
===============================================================================

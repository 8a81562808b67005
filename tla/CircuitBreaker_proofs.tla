------------------------ MODULE CircuitBreaker_proofs ------------------------
(***************************************************************************)
(* Type correctness of the breaker and ThresholdsActedOn, for every set of *)
(* callers, all thresholds and every number of failures.                   *)
(*                                                                         *)
(* The types need TransitionNamed: a caller inside transition_to, or about *)
(* to write the cache, knows the state it writes.  ThresholdsActedOn is    *)
(* then preserved step by step, counter by counter: the caller whose count *)
(* reaches a threshold is the one that makes the transition, and it leaves *)
(* it only by resetting that counter or by being dropped at the mutex.     *)
(***************************************************************************)
EXTENDS CircuitBreaker, TLAPS

\* Record r names the state that its caller writes.
Named(r) ==
  /\ r.pc = "set" => r.to \in {"open", "closed"}
  /\ r.pc = "cache" => r.to # "none"

\* Who writes the state or the cache knows what to write.
TransitionNamed ==
  \A c \in Callers : Named(caller[c])

IndInv == TypeOK /\ TransitionNamed /\ ThresholdsActedOn

\* An idle caller is a caller.
LEMMA IdleType ==
  IdleCaller \in CallerStates /\ IdleCaller.pc = "idle" /\ IdleCaller.to = "none"
BY DEF IdleCaller, CallerStates, CircuitStates

\* One caller's record changes and the others' do not.
LEMMA CallerStep ==
  ASSUME caller \in [Callers -> CallerStates], NEW c \in Callers, NEW r \in CallerStates,
         caller' = [caller EXCEPT ![c] = r]
  PROVE  /\ caller' \in [Callers -> CallerStates] /\ caller'[c] = r
         /\ \A d \in Callers : d # c => caller'[d] = caller[d]
OBVIOUS

\* Init establishes the invariant.
LEMMA InitInv == Init => IndInv
<1> SUFFICES ASSUME Init PROVE IndInv
  OBVIOUS
<1>1. caller \in [Callers -> CallerStates] /\ \A c \in Callers : caller[c].pc = "idle"
  BY IdleType DEF Init
<1>2. /\ consecutive_failures = 0 /\ consecutive_successes = 0
      /\ half_open_requests \in 0..HalfOpenMax /\ faults \in 0..MaxFaults /\ abandoned = {}
  BY BreakerAssumption DEF Init
<1>3. state \in CircuitStates /\ cached_state \in CircuitStates /\ expired \in BOOLEAN
  BY DEF Init, CircuitStates
<1>4. TypeOK
  BY <1>1, <1>2, <1>3 DEF TypeOK
<1>5. TransitionNamed
  BY <1>1 DEF TransitionNamed, Named
<1>6. ThresholdsActedOn
  BY <1>2, BreakerAssumption DEF ThresholdsActedOn
<1> QED BY <1>4, <1>5, <1>6 DEF IndInv

\* Record r of a caller that opens the circuit, or closes it.
Opens(r) == r.to = "open" /\ r.pc \in {"set", "cache", "reset_failures"}
Closes(r) ==
  /\ r.to = "closed"
  /\ r.pc \in {"release", "set", "cache", "reset_failures", "reset_successes"}

\* The types of everything but the callers.
SharedTypeOK ==
  /\ state \in CircuitStates /\ cached_state \in CircuitStates
  /\ expired \in BOOLEAN
  /\ consecutive_failures \in Nat /\ consecutive_successes \in Nat
  /\ half_open_requests \in 0..HalfOpenMax
  /\ faults \in 0..MaxFaults
  /\ abandoned \subseteq {"open", "closed"}

\* What a step of caller c, whose record becomes r, may do to the failures: it
\* leaves them below the threshold, or takes the transition over, or abandons
\* it, or neither raises them nor gives up a transition.
FailuresKept(c, r) ==
  \/ consecutive_failures' < FailureThreshold
  \/ Opens(r)
  \/ "open" \in abandoned'
  \/ /\ consecutive_failures' = consecutive_failures /\ ~Opening(c)
     /\ "open" \in abandoned => "open" \in abandoned'

\* The same of the successes.
SuccessesKept(c, r) ==
  \/ consecutive_successes' < SuccessThreshold
  \/ Closes(r)
  \/ "closed" \in abandoned'
  \/ /\ consecutive_successes' = consecutive_successes /\ ~Closing(c)
     /\ "closed" \in abandoned => "closed" \in abandoned'

\* Such a step preserves the invariant.
LEMMA StepInv ==
  ASSUME IndInv, NEW c \in Callers, NEW r \in CallerStates,
         caller' = [caller EXCEPT ![c] = r], SharedTypeOK', Named(r),
         FailuresKept(c, r), SuccessesKept(c, r)
  PROVE  IndInv'
<1>1. /\ caller' \in [Callers -> CallerStates] /\ caller'[c] = r
      /\ \A d \in Callers : d # c => caller'[d] = caller[d]
  BY CallerStep DEF IndInv, TypeOK
<1>2. TypeOK'
  BY <1>1 DEF TypeOK, SharedTypeOK
<1>3. TransitionNamed'
  BY <1>1 DEF IndInv, TransitionNamed
<1>4. /\ Opens(r) => Opening(c)'
      /\ Closes(r) => Closing(c)'
      /\ \A d \in Callers : Opening(d) /\ d # c => Opening(d)'
      /\ \A d \in Callers : Closing(d) /\ d # c => Closing(d)'
  BY <1>1 DEF Opens, Closes, Opening, Closing
<1>5. ASSUME (consecutive_failures >= FailureThreshold)'
      PROVE  "open" \in abandoned' \/ \E d \in Callers : Opening(d)'
  <2>1. ~(consecutive_failures' < FailureThreshold)
    BY <1>2, <1>5, BreakerAssumption DEF TypeOK
  <2>2. CASE consecutive_failures' = consecutive_failures
    BY <1>4, <1>5, <2>1, <2>2 DEF FailuresKept, IndInv, ThresholdsActedOn
  <2> QED BY <1>4, <2>1, <2>2 DEF FailuresKept
<1>6. ASSUME (consecutive_successes >= SuccessThreshold)'
      PROVE  "closed" \in abandoned' \/ \E d \in Callers : Closing(d)'
  <2>1. ~(consecutive_successes' < SuccessThreshold)
    BY <1>2, <1>6, BreakerAssumption DEF TypeOK
  <2>2. CASE consecutive_successes' = consecutive_successes
    BY <1>4, <1>6, <2>1, <2>2 DEF SuccessesKept, IndInv, ThresholdsActedOn
  <2> QED BY <1>4, <2>1, <2>2 DEF SuccessesKept
<1>7. ThresholdsActedOn'
  BY <1>5, <1>6 DEF ThresholdsActedOn
<1> QED BY <1>2, <1>3, <1>7 DEF IndInv

\* A step of a caller that makes no transition and leaves the counters alone.
LEMMA QuietStep ==
  ASSUME NEW c \in Callers, NEW r, ~Opening(c) \/ Opens(r), ~Closing(c) \/ Closes(r),
         UNCHANGED <<consecutive_failures, consecutive_successes, abandoned>>
  PROVE  FailuresKept(c, r) /\ SuccessesKept(c, r)
BY DEF FailuresKept, SuccessesKept

\* A caller reads the state, before its call or after its operation: it was not
\* resetting, and the counters keep their values.
LEMMA StateAsyncStep ==
  ASSUME IndInv, NEW c \in Callers, NEW n \in {"admit", "success", "failure"},
         caller[c].pc \in {"idle", "run"}, StateAsync(c, n), faults' \in 0..MaxFaults
  PROVE  IndInv'
<1> DEFINE half == state = "open" /\ expired
           r == [caller[c] EXCEPT !.seen = state', !.next = n,
                                  !.to = IF half THEN "half_open" ELSE "none",
                                  !.pc = IF half THEN "cache" ELSE n]
<1>1. state' \in CircuitStates
  BY DEF IndInv, TypeOK, StateAsync, CircuitStates
<1>2. r \in CallerStates /\ Named(r)
  BY <1>1 DEF IndInv, TypeOK, CallerStates, CircuitStates, Named
<1>3. caller' = [caller EXCEPT ![c] = r]
  BY DEF StateAsync
<1>4. UNCHANGED <<expired, cached_state, counters, abandoned>>
  BY DEF StateAsync
<1> HIDE DEF half, r
<1>5. SharedTypeOK'
  BY <1>1, <1>4 DEF IndInv, TypeOK, SharedTypeOK, counters
<1>6. FailuresKept(c, r) /\ SuccessesKept(c, r)
  BY <1>4, QuietStep DEF Opening, Closing, counters
<1> QED BY <1>2, <1>3, <1>5, <1>6, StepInv

\* call(): admission.
LEMMA AdmitStep ==
  ASSUME IndInv, NEW c \in Callers, Admit(c)
  PROVE  IndInv'
<1> DEFINE run(p) == [caller[c] EXCEPT !.pc = "run", !.probe = p]
<1>1. \A p \in BOOLEAN : run(p) \in CallerStates /\ run(p).pc = "run"
  BY DEF IndInv, TypeOK, CallerStates
<1>2. \/ \E p \in BOOLEAN : caller' = [caller EXCEPT ![c] = run(p)]
      \/ caller' = [caller EXCEPT ![c] = IdleCaller]
  BY DEF Admit, Done
<1>3. SharedTypeOK'
  BY BreakerAssumption DEF IndInv, TypeOK, SharedTypeOK, Admit
<1> HIDE DEF run
<1>4. PICK r \in CallerStates : caller' = [caller EXCEPT ![c] = r] /\ r.pc \in {"run", "idle"}
  BY <1>1, <1>2, IdleType
<1>5. FailuresKept(c, r) /\ SuccessesKept(c, r) /\ Named(r)
  BY <1>4, QuietStep DEF Admit, Opening, Closing, Named
<1> QED BY <1>3, <1>4, <1>5, StepInv

\* A call that is dropped: where it had a transition to make, it abandons it.
LEMMA CancelStep ==
  ASSUME IndInv, NEW c \in Callers, Cancelled(c)
  PROVE  IndInv'
<1>1. caller' = [caller EXCEPT ![c] = IdleCaller] /\ Named(IdleCaller)
  BY IdleType DEF Cancelled, Done, Named
<1>2. caller[c].pc = "set" => caller[c].to \in {"open", "closed"}
  BY DEF IndInv, TransitionNamed, Named
<1>3. SharedTypeOK'
  <2>1. abandoned' \subseteq {"open", "closed"}
    BY <1>2 DEF IndInv, TypeOK, Cancelled
  <2>2. faults' \in 0..MaxFaults
    BY BreakerAssumption DEF IndInv, TypeOK, Cancelled
  <2>3. UNCHANGED <<state, expired, cached_state, counters>>
    BY DEF Cancelled
  <2> QED BY <2>1, <2>2, <2>3 DEF IndInv, TypeOK, SharedTypeOK, counters
<1>4. FailuresKept(c, IdleCaller) /\ SuccessesKept(c, IdleCaller)
  <2>1. CASE caller[c].pc = "run"
    BY <2>1, QuietStep DEF Cancelled, Opening, Closing, counters
  <2>2. CASE caller[c].pc = "set"
    BY <1>2, <2>2 DEF Cancelled, counters, FailuresKept, SuccessesKept, Opening, Closing
  <2> QED BY <2>1, <2>2 DEF Cancelled
<1> QED BY <1>1, <1>3, <1>4, IdleType, StepInv

\* on_success(): the success that reaches the threshold closes the circuit.
LEMMA SuccessStep ==
  ASSUME IndInv, NEW c \in Callers, OnSuccess(c)
  PROVE  IndInv'
<1>1. CASE caller[c].seen = "half_open"
  <2> DEFINE t == IF consecutive_successes + 1 >= SuccessThreshold THEN "closed" ELSE "none"
             r == [caller[c] EXCEPT !.pc = "release", !.to = t]
  <2>1. r \in CallerStates /\ r.pc = "release" /\ r.to = t /\ Named(r)
    BY DEF IndInv, TypeOK, CallerStates, CircuitStates, Named
  <2>2. caller' = [caller EXCEPT ![c] = r]
    BY <1>1 DEF OnSuccess
  <2>3. SharedTypeOK'
    BY <1>1 DEF IndInv, TypeOK, SharedTypeOK, OnSuccess
  <2> HIDE DEF r
  <2>4. FailuresKept(c, r)
    BY <1>1 DEF OnSuccess, FailuresKept, Opening
  <2>5. SuccessesKept(c, r)
    BY <1>1, <2>1, BreakerAssumption DEF OnSuccess, SuccessesKept, Closes, IndInv, TypeOK
  <2> QED BY <2>1, <2>2, <2>3, <2>4, <2>5, StepInv
<1>2. CASE caller[c].seen # "half_open"
  <2>1. caller' = [caller EXCEPT ![c] = IdleCaller] /\ SharedTypeOK'
    BY <1>2 DEF IndInv, TypeOK, SharedTypeOK, OnSuccess, NoFailures, Done
  <2>2. FailuresKept(c, IdleCaller) /\ SuccessesKept(c, IdleCaller) /\ Named(IdleCaller)
    BY <1>2, IdleType, BreakerAssumption
    DEF OnSuccess, NoFailures, FailuresKept, SuccessesKept, Closing, Named
  <2> QED BY <2>1, <2>2, IdleType, StepInv
<1> QED BY <1>1, <1>2

\* on_success() gives its half-open slot back.
LEMMA ReleaseStep ==
  ASSUME IndInv, NEW c \in Callers, Release(c)
  PROVE  IndInv'
<1>1. SharedTypeOK'
  BY BreakerAssumption DEF IndInv, TypeOK, SharedTypeOK, Release, Dec
<1>2. CASE caller[c].to = "closed"
  <2> DEFINE r == [caller[c] EXCEPT !.pc = "set"]
  <2>1. r \in CallerStates /\ Closes(r) /\ Named(r)
    BY <1>2 DEF IndInv, TypeOK, CallerStates, CircuitStates, Closes, Named
  <2>2. caller' = [caller EXCEPT ![c] = r]
    BY <1>2 DEF Release, To
  <2> HIDE DEF r
  <2>3. FailuresKept(c, r) /\ SuccessesKept(c, r)
    BY <2>1, QuietStep DEF Release, Opening
  <2> QED BY <1>1, <2>1, <2>2, <2>3, StepInv
<1>3. CASE caller[c].to # "closed"
  <2>1. caller' = [caller EXCEPT ![c] = IdleCaller] /\ Named(IdleCaller)
    BY <1>3, IdleType DEF Release, Done, Named
  <2>2. FailuresKept(c, IdleCaller) /\ SuccessesKept(c, IdleCaller)
    BY <1>3, QuietStep DEF Release, Opening, Closing
  <2> QED BY <1>1, <2>1, <2>2, IdleType, StepInv
<1> QED BY <1>2, <1>3

\* on_failure(): the failure that reaches the threshold opens the circuit.
LEMMA FailureStep ==
  ASSUME IndInv, NEW c \in Callers, OnFailure(c)
  PROVE  IndInv'
<1> DEFINE r == [caller[c] EXCEPT !.pc = "set", !.to = "open"]
<1>1. r \in CallerStates /\ Opens(r) /\ Named(r)
  BY DEF IndInv, TypeOK, CallerStates, CircuitStates, Opens, Named
<1>2. SharedTypeOK' /\ ~Opening(c) /\ ~Closing(c)
  BY BreakerAssumption DEF IndInv, TypeOK, SharedTypeOK, OnFailure, Opening, Closing, Dec
<1>3. \/ caller' = [caller EXCEPT ![c] = r]
      \/ caller' = [caller EXCEPT ![c] = IdleCaller] /\ FailuresKept(c, IdleCaller)
  <2>1. CASE caller[c].seen = "closed" /\ consecutive_failures + 1 >= FailureThreshold
    BY <2>1 DEF OnFailure, Reopen
  <2>2. CASE caller[c].seen = "closed" /\ ~(consecutive_failures + 1 >= FailureThreshold)
    BY <2>2, BreakerAssumption DEF OnFailure, Done, FailuresKept, IndInv, TypeOK
  <2>3. CASE caller[c].seen = "half_open"
    BY <2>3 DEF OnFailure, Reopen
  <2>4. CASE caller[c].seen = "open"
    BY <1>2, <2>4 DEF OnFailure, Done, FailuresKept
  <2> QED BY <2>1, <2>2, <2>3, <2>4 DEF OnFailure
<1>4. \A x : SuccessesKept(c, x)
  BY <1>2 DEF OnFailure, SuccessesKept
<1>5. FailuresKept(c, r)
  BY <1>1 DEF FailuresKept
<1>6. Named(IdleCaller)
  BY IdleType DEF Named
<1> HIDE DEF r
<1> QED BY <1>1, <1>2, <1>3, <1>4, <1>5, <1>6, IdleType, StepInv

\* transition_to() and the cache writes: a caller that makes a transition stays
\* at it until it has reset the counter.
LEMMA TransitionStep ==
  ASSUME IndInv, NEW c \in Callers, SetState(c) \/ Cache(c)
  PROVE  IndInv'
<1> DEFINE r(p) == [caller[c] EXCEPT !.pc = p]
<1>1. /\ caller[c] \in CallerStates /\ Named(caller[c])
      /\ caller[c].next \in {"admit", "success", "failure"}
  BY DEF IndInv, TypeOK, TransitionNamed, CallerStates
<1>2. CASE SetState(c)
  <2>1. r("cache") \in CallerStates /\ r("cache").to = caller[c].to /\ r("cache").pc = "cache"
    BY <1>1 DEF CallerStates
  <2>2. caller[c].to \in CircuitStates /\ caller[c].to # "none"
    BY <1>1, <1>2 DEF Named, CircuitStates, SetState
  <2>3. SharedTypeOK'
    <3>1. state' \in CircuitStates /\ expired' \in BOOLEAN
      BY <1>2, <2>2 DEF SetState
    <3>2. UNCHANGED <<cached_state, counters, faults, abandoned>>
      BY <1>2 DEF SetState
    <3> QED BY <3>1, <3>2 DEF IndInv, TypeOK, SharedTypeOK, counters
  <2>4. caller' = [caller EXCEPT ![c] = r("cache")]
    BY <1>2 DEF SetState, To
  <2>5. Named(r("cache"))
    BY <2>1, <2>2 DEF Named
  <2> HIDE DEF r
  <2>6. FailuresKept(c, r("cache")) /\ SuccessesKept(c, r("cache"))
    BY <1>2, <2>1, QuietStep DEF SetState, Opening, Closing, Opens, Closes, counters
  <2> QED BY <2>1, <2>3, <2>4, <2>5, <2>6, StepInv
<1>3. CASE Cache(c)
  <2> DEFINE p == IF caller[c].to = "half_open" THEN caller[c].next ELSE "reset_failures"
  <2>1. r(p) \in CallerStates /\ r(p).to = caller[c].to /\ r(p).pc = p
    BY <1>1 DEF CallerStates
  <2>2. caller[c].to \in CircuitStates
    BY <1>1, <1>3 DEF Named, CallerStates, Cache
  <2>3. SharedTypeOK'
    BY <1>3, <2>2 DEF Cache, IndInv, TypeOK, SharedTypeOK, counters
  <2>4. caller' = [caller EXCEPT ![c] = r(p)]
    BY <1>3 DEF Cache, To
  <2>5. Named(r(p))
    BY <1>1, <2>1 DEF Named
  <2>6. FailuresKept(c, r(p)) /\ SuccessesKept(c, r(p))
    <3>1. caller[c].to # "half_open" => r(p).pc = "reset_failures" /\ r(p).to = caller[c].to
      BY <2>1
    <3> HIDE DEF r, p
    <3> QED BY <1>3, <3>1, QuietStep DEF Cache, Opening, Closing, Opens, Closes, counters
  <2> HIDE DEF r, p
  <2> QED BY <2>1, <2>3, <2>4, <2>5, <2>6, StepInv
<1> QED BY <1>2, <1>3

\* The stores that reset the counters, one by one.
LEMMA ResetStep ==
  ASSUME IndInv, NEW c \in Callers, ResetFailures(c) \/ ResetSuccesses(c) \/ ResetSlots(c)
  PROVE  IndInv'
<1> DEFINE r(p) == [caller[c] EXCEPT !.pc = p]
<1>1. \A p \in {"reset_successes", "reset_slots"} :
        r(p) \in CallerStates /\ r(p).pc = p /\ r(p).to = caller[c].to
  BY DEF IndInv, TypeOK, CallerStates
<1>2. SharedTypeOK'
  <2>1. abandoned' \subseteq {"open", "closed"}
    BY DEF IndInv, TypeOK, ResetFailures, ResetSuccesses, ResetSlots, NoFailures, NoSuccesses
  <2>2. /\ consecutive_failures' \in Nat /\ consecutive_successes' \in Nat
        /\ half_open_requests' \in 0..HalfOpenMax
    BY BreakerAssumption
    DEF IndInv, TypeOK, ResetFailures, ResetSuccesses, ResetSlots, NoFailures, NoSuccesses
  <2>3. UNCHANGED <<state, expired, cached_state, faults>>
    BY DEF ResetFailures, ResetSuccesses, ResetSlots
  <2> QED BY <2>1, <2>2, <2>3 DEF IndInv, TypeOK, SharedTypeOK
<1>3. CASE ResetFailures(c)
  <2>1. caller' = [caller EXCEPT ![c] = r("reset_successes")]
    BY <1>3 DEF ResetFailures, To
  <2> HIDE DEF r
  <2>2. Named(r("reset_successes"))
    BY <1>1 DEF Named
  <2>3. FailuresKept(c, r("reset_successes"))
    BY <1>3, BreakerAssumption DEF ResetFailures, NoFailures, FailuresKept
  <2>4. SuccessesKept(c, r("reset_successes"))
    BY <1>1, <1>3 DEF ResetFailures, NoFailures, SuccessesKept, Closing, Closes
  <2> QED BY <1>1, <1>2, <2>1, <2>2, <2>3, <2>4, StepInv
<1>4. CASE ResetSuccesses(c)
  <2>1. \/ caller' = [caller EXCEPT ![c] = r("reset_slots")]
        \/ caller' = [caller EXCEPT ![c] = IdleCaller]
    BY <1>4 DEF ResetSuccesses, To, Done
  <2> HIDE DEF r
  <2>2. Named(r("reset_slots")) /\ Named(IdleCaller)
    BY <1>1, IdleType DEF Named
  <2>3. \A x : FailuresKept(c, x) /\ SuccessesKept(c, x)
    BY <1>4, BreakerAssumption
    DEF ResetSuccesses, NoSuccesses, FailuresKept, SuccessesKept, Opening
  <2> QED BY <1>1, <1>2, <2>1, <2>2, <2>3, IdleType, StepInv
<1>5. CASE ResetSlots(c)
  <2>1. caller' = [caller EXCEPT ![c] = IdleCaller] /\ Named(IdleCaller)
    BY <1>5, IdleType DEF ResetSlots, Done, Named
  <2>2. FailuresKept(c, IdleCaller) /\ SuccessesKept(c, IdleCaller)
    BY <1>5, QuietStep DEF ResetSlots, Opening, Closing
  <2> QED BY <1>2, <2>1, <2>2, IdleType, StepInv
<1> QED BY <1>3, <1>4, <1>5

\* Every step preserves the invariant.
LEMMA NextInv == IndInv /\ [Next]_vars => IndInv'
<1> SUFFICES ASSUME IndInv, [Next]_vars PROVE IndInv'
  OBVIOUS
<1>1. ASSUME NEW c \in Callers, Call(c) \/ Succeeds(c) \/ Fails(c) PROVE IndInv'
  <2>1. faults' \in 0..MaxFaults
    BY <1>1, BreakerAssumption DEF Call, Succeeds, Fails, IndInv, TypeOK
  <2> QED BY <1>1, <2>1, StateAsyncStep DEF Call, Succeeds, Fails
<1>2. CASE Expire
  BY <1>2 DEF Expire, IndInv, TypeOK, TransitionNamed, Named, ThresholdsActedOn,
      Opening, Closing, counters
<1>3. CASE UNCHANGED vars
  BY <1>3 DEF vars, IndInv, TypeOK, TransitionNamed, Named, ThresholdsActedOn,
      Opening, Closing, counters
<1> QED
  BY <1>1, <1>2, <1>3, AdmitStep, CancelStep, SuccessStep, ReleaseStep, FailureStep,
     TransitionStep, ResetStep
  DEF Next, Step

\* The inductive invariant of the breaker.
THEOREM BreakerInvariant == Spec => []IndInv
BY InitInv, NextInv, PTL DEF Spec

\* The breaker's state keeps its types, and however many callers race for them,
\* half_open_requests never exceeds half_open_max_requests.
THEOREM BreakerTypeOK == Spec => []TypeOK
BY BreakerInvariant, PTL DEF IndInv

\* Whenever consecutive_failures or consecutive_successes is at its threshold, some
\* caller is on its way through transition_to() to open or to close the circuit, or
\* the call that had to was dropped at the state mutex since the last reset.
THEOREM BreakerThresholdsActedOn == Spec => []ThresholdsActedOn
BY BreakerInvariant, PTL DEF IndInv
===============================================================================

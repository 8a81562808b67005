---------------------------- MODULE CircuitBreaker ----------------------------
(***************************************************************************)
(* StandardCircuitBreaker of adapteros-core (circuit_breaker.rs) under     *)
(* concurrent callers: call(), on_success(), on_failure(), state_async()   *)
(* and transition_to().  The state is under a mutex that is released       *)
(* before the cached state and the counters are written, and the counters  *)
(* are atomics of their own, so that every access to one of them is a      *)
(* step (the relaxed accesses are taken to be seen in program order).  A   *)
(* call may be dropped wherever it awaits: its operation, and the mutex.   *)
(*                                                                         *)
(* Time is abstracted to whether the deadline of the open state has        *)
(* passed.  The metrics totals are left out: nothing reads them.           *)
(***************************************************************************)
EXTENDS Naturals, FiniteSets

CONSTANTS Callers,           \* tasks that call the breaker
          FailureThreshold,  \* config.failure_threshold
          SuccessThreshold,  \* config.success_threshold
          HalfOpenMax,       \* config.half_open_max_requests
          MaxFaults,         \* bound: operations that fail and calls that are dropped
          Cancels            \* whether a caller may drop its call

ASSUME BreakerAssumption ==
  /\ IsFiniteSet(Callers)
  /\ FailureThreshold \in Nat \ {0} /\ SuccessThreshold \in Nat \ {0}
  /\ HalfOpenMax \in Nat \ {0} /\ MaxFaults \in Nat /\ Cancels \in BOOLEAN

VARIABLES state,               \* the state under the mutex
          expired,             \* the deadline of the open state has passed
          cached_state,        \* what state() returns when the mutex is taken
          consecutive_failures, consecutive_successes, half_open_requests,
          caller,              \* the calls
          faults,              \* failed operations and dropped calls (bound)
          abandoned            \* history: transitions whose call was dropped at the
                               \* mutex since the counter they answer was last reset

counters == <<consecutive_failures, consecutive_successes, half_open_requests>>
vars == <<state, expired, cached_state, counters, caller, faults, abandoned>>

CircuitStates == {"closed", "open", "half_open"}
CallerStates ==
  [pc : {"idle", "admit", "run", "success", "failure", "release", "set", "cache",
         "reset_failures", "reset_successes", "reset_slots"},
   seen : CircuitStates,               \* the state the caller has read
   probe : BOOLEAN,                    \* it runs on a half-open slot
   to : CircuitStates \cup {"none"},   \* the transition it makes
   next : {"admit", "success", "failure"}]
IdleCaller ==
  [pc |-> "idle", seen |-> "closed", probe |-> FALSE, to |-> "none", next |-> "admit"]

Init ==
  /\ state = "closed" /\ expired = FALSE /\ cached_state = "closed"
  /\ consecutive_failures = 0 /\ consecutive_successes = 0 /\ half_open_requests = 0
  /\ caller = [c \in Callers |-> IdleCaller]
  /\ faults = 0 /\ abandoned = {}

To(c, pc) == caller' = [caller EXCEPT ![c].pc = pc]
Done(c) == caller' = [caller EXCEPT ![c] = IdleCaller]
NoFailures == consecutive_failures' = 0 /\ abandoned' = abandoned \ {"open"}
NoSuccesses == consecutive_successes' = 0 /\ abandoned' = abandoned \ {"closed"}
Dec(n) == IF n > 0 THEN n - 1 ELSE 0

\* state_async: an open circuit past its deadline becomes half-open; no counter
\* is touched, and the cache is written after the unlock.
StateAsync(c, next) ==
  LET half == state = "open" /\ expired
  IN  /\ state' = IF half THEN "half_open" ELSE state
      /\ caller' = [caller EXCEPT ![c] =
                      [@ EXCEPT !.seen = state', !.next = next,
                                !.to = IF half THEN "half_open" ELSE "none",
                                !.pc = IF half THEN "cache" ELSE next]]
      /\ UNCHANGED <<expired, cached_state, counters, abandoned>>

\* The deadline of the open state passes.
Expire ==
  /\ state = "open" /\ ~expired
  /\ expired' = TRUE
  /\ UNCHANGED <<state, cached_state, counters, caller, faults, abandoned>>

Call(c) ==
  /\ caller[c].pc = "idle"
  /\ StateAsync(c, "admit")
  /\ UNCHANGED faults

\* Mutant of Admit: the half-open limit lets one more request in.
AdmitOneMore(c) ==
  /\ caller[c].pc = "admit"
  /\ LET probe == caller[c].seen = "half_open" /\ half_open_requests <= HalfOpenMax
     IN  /\ IF caller[c].seen = "closed" \/ probe
            THEN caller' = [caller EXCEPT ![c].pc = "run", ![c].probe = probe]
            ELSE Done(c)
         /\ half_open_requests' = IF probe THEN half_open_requests + 1 ELSE half_open_requests
  /\ UNCHANGED <<state, expired, cached_state, consecutive_failures, consecutive_successes,
                 faults, abandoned>>

\* Rejected when open; in half-open a slot is taken by compare-and-exchange.
Admit(c) ==
  /\ caller[c].pc = "admit"
  /\ LET probe == caller[c].seen = "half_open" /\ half_open_requests < HalfOpenMax
     IN  /\ IF caller[c].seen = "closed" \/ probe
            THEN caller' = [caller EXCEPT ![c].pc = "run", ![c].probe = probe]
            ELSE Done(c)
         /\ half_open_requests' = IF probe THEN half_open_requests + 1 ELSE half_open_requests
  /\ UNCHANGED <<state, expired, cached_state, consecutive_failures, consecutive_successes,
                 faults, abandoned>>

\* The operation ends and the state is read again.
Succeeds(c) ==
  /\ caller[c].pc = "run"
  /\ StateAsync(c, "success")
  /\ UNCHANGED faults

Fails(c) ==
  /\ caller[c].pc = "run" /\ faults < MaxFaults
  /\ faults' = faults + 1
  /\ StateAsync(c, "failure")

\* The caller drops the future where it awaits: while the operation runs or
\* before state_async has the mutex after it ("run"), and before transition_to
\* has the mutex ("set").  Nothing is undone.
Cancelled(c) ==
  /\ Cancels /\ faults < MaxFaults
  /\ faults' = faults + 1
  /\ caller[c].pc \in {"run", "set"}
  /\ abandoned' = IF caller[c].pc = "set" THEN abandoned \cup {caller[c].to} ELSE abandoned
  /\ Done(c)
  /\ UNCHANGED <<state, expired, cached_state, counters>>

\* on_success.
OnSuccess(c) ==
  /\ caller[c].pc = "success"
  /\ IF caller[c].seen = "half_open"
     THEN /\ consecutive_successes' = consecutive_successes + 1
          /\ caller' = [caller EXCEPT ![c].pc = "release",
                          ![c].to = IF consecutive_successes + 1 >= SuccessThreshold
                                    THEN "closed" ELSE "none"]
          /\ UNCHANGED <<consecutive_failures, abandoned>>
     ELSE /\ NoFailures
          /\ Done(c)
          /\ UNCHANGED consecutive_successes
  /\ UNCHANGED <<state, expired, cached_state, half_open_requests, faults>>

Release(c) ==
  /\ caller[c].pc = "release"
  /\ half_open_requests' = Dec(half_open_requests)
  /\ IF caller[c].to = "closed" THEN To(c, "set") ELSE Done(c)
  /\ UNCHANGED <<state, expired, cached_state, consecutive_failures, consecutive_successes,
                 faults, abandoned>>

Reopen(c) == caller' = [caller EXCEPT ![c].pc = "set", ![c].to = "open"]

\* Mutant of OnFailure: the threshold itself does not open the circuit.
OnFailureAbove(c) ==
  /\ caller[c].pc = "failure"
  /\ \/ /\ caller[c].seen = "closed"
        /\ consecutive_failures' = consecutive_failures + 1
        /\ IF consecutive_failures + 1 > FailureThreshold THEN Reopen(c) ELSE Done(c)
        /\ UNCHANGED half_open_requests
     \/ /\ caller[c].seen = "half_open"
        /\ half_open_requests' = Dec(half_open_requests)
        /\ Reopen(c)
        /\ UNCHANGED consecutive_failures
     \/ /\ caller[c].seen = "open"
        /\ Done(c)
        /\ UNCHANGED <<consecutive_failures, half_open_requests>>
  /\ UNCHANGED <<state, expired, cached_state, consecutive_successes, faults, abandoned>>

\* on_failure.
OnFailure(c) ==
  /\ caller[c].pc = "failure"
  /\ \/ /\ caller[c].seen = "closed"
        /\ consecutive_failures' = consecutive_failures + 1
        /\ IF consecutive_failures + 1 >= FailureThreshold THEN Reopen(c) ELSE Done(c)
        /\ UNCHANGED half_open_requests
     \/ /\ caller[c].seen = "half_open"
        /\ half_open_requests' = Dec(half_open_requests)
        /\ Reopen(c)
        /\ UNCHANGED consecutive_failures
     \/ /\ caller[c].seen = "open"
        /\ Done(c)
        /\ UNCHANGED <<consecutive_failures, half_open_requests>>
  /\ UNCHANGED <<state, expired, cached_state, consecutive_successes, faults, abandoned>>

\* transition_to: the state under the mutex, then the cache, then the counters.
SetState(c) ==
  /\ caller[c].pc = "set"
  /\ state' = caller[c].to
  /\ expired' = FALSE
  /\ To(c, "cache")
  /\ UNCHANGED <<cached_state, counters, faults, abandoned>>

Cache(c) ==
  /\ caller[c].pc = "cache"
  /\ cached_state' = caller[c].to
  /\ To(c, IF caller[c].to = "half_open" THEN caller[c].next ELSE "reset_failures")
  /\ UNCHANGED <<state, expired, counters, faults, abandoned>>

ResetFailures(c) ==
  /\ caller[c].pc = "reset_failures"
  /\ NoFailures
  /\ To(c, "reset_successes")
  /\ UNCHANGED <<state, expired, cached_state, consecutive_successes, half_open_requests,
                 faults>>

ResetSuccesses(c) ==
  /\ caller[c].pc = "reset_successes"
  /\ NoSuccesses
  /\ IF caller[c].to = "closed" THEN To(c, "reset_slots") ELSE Done(c)
  /\ UNCHANGED <<state, expired, cached_state, consecutive_failures, half_open_requests,
                 faults>>

ResetSlots(c) ==
  /\ caller[c].pc = "reset_slots"
  /\ half_open_requests' = 0
  /\ Done(c)
  /\ UNCHANGED <<state, expired, cached_state, consecutive_failures, consecutive_successes,
                 faults, abandoned>>

Step(c) ==
  \/ Call(c) \/ Admit(c) \/ Succeeds(c)
  \/ OnSuccess(c) \/ Release(c) \/ OnFailure(c)
  \/ SetState(c) \/ Cache(c)
  \/ ResetFailures(c) \/ ResetSuccesses(c) \/ ResetSlots(c)

Next == Expire \/ \E c \in Callers : Step(c) \/ Fails(c) \/ Cancelled(c)

Spec == Init /\ [][Next]_vars

\* Time passes, and callers keep calling; finitely many operations fail.
FairSpec == Spec /\ WF_vars(Expire) /\ \A c \in Callers : WF_vars(Step(c))
-------------------------------------------------------------------------------
(* Properties *)

\* The types; the half-open counter never exceeds its limit.
TypeOK ==
  /\ state \in CircuitStates /\ cached_state \in CircuitStates
  /\ expired \in BOOLEAN
  /\ consecutive_failures \in Nat /\ consecutive_successes \in Nat
  /\ half_open_requests \in 0..HalfOpenMax
  /\ caller \in [Callers -> CallerStates]
  /\ faults \in 0..MaxFaults
  /\ abandoned \subseteq {"open", "closed"}

\* A caller that opens the circuit and has not reset the failures yet, and one
\* that closes it and has not reset the successes yet.
Opening(c) ==
  caller[c].to = "open" /\ caller[c].pc \in {"set", "cache", "reset_failures"}
Closing(c) ==
  /\ caller[c].to = "closed"
  /\ caller[c].pc \in {"release", "set", "cache", "reset_failures", "reset_successes"}

\* A counter at its threshold has a caller on its way through transition_to to
\* the state it calls for, however counting and resetting interleave, unless
\* the call that had to do it was dropped at the state mutex since the counter
\* was last reset: that is the only way in which a threshold goes unanswered.
\* (It does not say that every failure counts: a reset that comes late wipes
\* the failures counted since the state was set.)
ThresholdsActedOn ==
  /\ consecutive_failures >= FailureThreshold =>
       "open" \in abandoned \/ \E c \in Callers : Opening(c)
  /\ consecutive_successes >= SuccessThreshold =>
       "closed" \in abandoned \/ \E c \in Callers : Closing(c)

\* The breaker recovers by itself once operations succeed ("automatic
\* recovery"): it is closed again and again.
Recovers == []<>(state = "closed")

\* In half-open state at most HalfOpenMax probes run: "limited requests
\* allowed".
ProbesLimited ==
  state = "half_open" =>
    Cardinality({c \in Callers : caller[c].pc = "run" /\ caller[c].probe}) <= HalfOpenMax

\* Outside transitions the cache holds the state: it "is updated by
\* transition_to() and state_async() atomically".
CacheAgrees ==
  (\A c \in Callers : caller[c].pc # "cache") => cached_state = state
===============================================================================

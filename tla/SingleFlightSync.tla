--------------------------- MODULE SingleFlightSync ---------------------------
(***************************************************************************)
(* SingleFlightSync::get_or_load of adapteros-core (singleflight/          *)
(* sync_impl.rs) for concurrent threads: the in-flight map under its mutex, *)
(* the entry's result mutex and condition variable, the panic flag, and    *)
(* the SyncCleanupGuard that runs when the leader panics in its load.      *)
(*                                                                         *)
(* Entries are numbered in the order of their creation, 0 is "no entry".   *)
(* The map mutex is held for one step at a time.  The result mutex of an   *)
(* entry is held by a waiter from Lock until it parks or leaves; condition *)
(* variables of parking_lot have no spurious wakeups, and a notification   *)
(* reaches only the threads that are parked.                               *)
(***************************************************************************)
EXTENDS Naturals, FiniteSets

CONSTANTS Keys,        \* deduplication keys
          Callers,     \* threads that call get_or_load
          MaxCalls,    \* bound: number of calls
          LoadPanics   \* whether a load may panic

ASSUME SingleFlightSyncAssumption ==
  IsFiniteSet(Callers) /\ MaxCalls \in Nat /\ LoadPanics \in BOOLEAN

VARIABLES in_flight,        \* in_flight[k] : the entry under key k, 0 if none
          result,           \* result[e] : "none" until set
          leader_panicked,  \* leader_panicked[e]
          thread,           \* thread[c] : the call of c
          calls             \* number of calls begun (bound); also the last entry created

vars == <<in_flight, result, leader_panicked, thread, calls>>

Entries == 1..MaxCalls
Idle(c, a) ==
  [thread EXCEPT ![c] = [pc |-> "idle", key |-> @.key, entry |-> 0, answer |-> a]]
To(c, pc) == thread' = [thread EXCEPT ![c].pc = pc]

\* The threads that hold the result mutex of entry e.
Holders(e) ==
  {c \in Callers : thread[c].entry = e /\ thread[c].pc \in {"locked", "flag", "park"}}

\* condvar.notify_all on the entry of c, which goes on to pc.
NotifyAll(c, pc) ==
  thread' = [d \in Callers |->
               IF d = c THEN [thread[d] EXCEPT !.pc = pc]
               ELSE IF thread[d].pc = "parked" /\ thread[d].entry = thread[c].entry
               THEN [thread[d] EXCEPT !.pc = "wait"]
               ELSE thread[d]]

Init ==
  /\ in_flight = [k \in Keys |-> 0]
  /\ result = [e \in Entries |-> "none"]
  /\ leader_panicked = [e \in Entries |-> FALSE]
  /\ thread \in [Callers -> {[pc |-> "idle", key |-> k, entry |-> 0, answer |-> "none"] :
                               k \in Keys}]
  /\ calls = 0

\* Under the map mutex: find the entry or insert one, whose inserter leads.
Enter(c) ==
  /\ thread[c].pc = "idle" /\ calls < MaxCalls
  /\ calls' = calls + 1
  /\ \E k \in Keys :
       LET fresh == in_flight[k] = 0
           e == IF fresh THEN calls + 1 ELSE in_flight[k]
       IN  /\ in_flight' = [in_flight EXCEPT ![k] = e]
           /\ thread' = [thread EXCEPT ![c] =
                           [pc |-> IF fresh THEN "load" ELSE "wait", key |-> k, entry |-> e,
                            answer |-> "none"]]
  /\ UNCHANGED <<result, leader_panicked>>

LoadReturns(c, r) ==
  /\ thread[c].pc = "load"
  /\ thread' = [thread EXCEPT ![c].pc = "set", ![c].answer = r]
  /\ UNCHANGED <<in_flight, result, leader_panicked, calls>>

\* Mutant of SetResult: the result is stored without the mutex.
SetResultUnlocked(c) ==
  /\ thread[c].pc = "set"
  /\ result' = [result EXCEPT ![thread[c].entry] = thread[c].answer]
  /\ NotifyAll(c, "remove")
  /\ UNCHANGED <<in_flight, leader_panicked, calls>>

\* set_result: under the result mutex.
SetResult(c) ==
  /\ thread[c].pc = "set"
  /\ Holders(thread[c].entry) = {}
  /\ result' = [result EXCEPT ![thread[c].entry] = thread[c].answer]
  /\ NotifyAll(c, "remove")
  /\ UNCHANGED <<in_flight, leader_panicked, calls>>

Remove(c) ==
  /\ thread[c].pc = "remove"
  /\ in_flight' = [in_flight EXCEPT ![thread[c].key] = 0]
  /\ thread' = Idle(c, thread[c].answer)
  /\ UNCHANGED <<result, leader_panicked, calls>>

\* The load panics: SyncCleanupGuard::drop, mark_panicked without the mutex.
LeaderPanics(c) ==
  /\ LoadPanics
  /\ thread[c].pc = "load"
  /\ leader_panicked' = [leader_panicked EXCEPT ![thread[c].entry] = TRUE]
  /\ To(c, "dropNotify")
  /\ UNCHANGED <<in_flight, result, calls>>

DropNotify(c) ==
  /\ thread[c].pc = "dropNotify"
  /\ NotifyAll(c, "dropRemove")
  /\ UNCHANGED <<in_flight, result, leader_panicked, calls>>

\* Mutant of DropRemove: the panicked entry stays in the map.
DropRemoveForgotten(c) ==
  /\ thread[c].pc = "dropRemove"
  /\ thread' = Idle(c, "lost")
  /\ UNCHANGED <<in_flight, result, leader_panicked, calls>>

DropRemove(c) ==
  /\ thread[c].pc = "dropRemove"
  /\ in_flight' = [in_flight EXCEPT ![thread[c].key] = 0]
  /\ thread' = Idle(c, "lost")
  /\ UNCHANGED <<result, leader_panicked, calls>>

\* A waiter takes the result mutex, at first and after each wakeup.
Lock(c) ==
  /\ thread[c].pc = "wait"
  /\ Holders(thread[c].entry) = {}
  /\ To(c, "locked")
  /\ UNCHANGED <<in_flight, result, leader_panicked, calls>>

CheckResult(c) ==
  /\ thread[c].pc = "locked"
  /\ IF result[thread[c].entry] = "none" THEN To(c, "flag")
     ELSE thread' = Idle(c, result[thread[c].entry])
  /\ UNCHANGED <<in_flight, result, leader_panicked, calls>>

\* Mutant of CheckPanicked: a waiter with nothing to return gives up.
CheckPanickedAlways(c) ==
  /\ thread[c].pc = "flag"
  /\ thread' = Idle(c, "lost")
  /\ UNCHANGED <<in_flight, result, leader_panicked, calls>>

CheckPanicked(c) ==
  /\ thread[c].pc = "flag"
  /\ IF leader_panicked[thread[c].entry] THEN thread' = Idle(c, "lost") ELSE To(c, "park")
  /\ UNCHANGED <<in_flight, result, leader_panicked, calls>>

\* condvar.wait releases the mutex and parks in one step.
Park(c) ==
  /\ thread[c].pc = "park"
  /\ To(c, "parked")
  /\ UNCHANGED <<in_flight, result, leader_panicked, calls>>

Step(c) ==
  \/ \E r \in {"ok", "err"} : LoadReturns(c, r)
  \/ SetResult(c) \/ Remove(c)
  \/ DropNotify(c) \/ DropRemove(c)
  \/ Lock(c) \/ CheckResult(c) \/ CheckPanicked(c) \/ Park(c)

Next == \E c \in Callers : Enter(c) \/ Step(c) \/ LeaderPanics(c)

Spec == Init /\ [][Next]_vars

\* Every thread runs and loads return.
FairSpec == Spec /\ \A c \in Callers : WF_vars(Step(c))
-------------------------------------------------------------------------------
(* Properties *)

Leading(c) == thread[c].pc \in {"load", "set", "remove", "dropNotify", "dropRemove"}

\* Every entry in the map has a leader that will take it out, whatever panics.
EntryOwned ==
  \A k \in Keys : in_flight[k] # 0 =>
    \E c \in Callers : thread[c].entry = in_flight[k] /\ Leading(c)

\* What became of an entry, as the promise sees it.
Outcome(e) ==
  IF result[e] # "none" THEN result[e]
  ELSE IF leader_panicked[e] THEN "lost"
  ELSE IF e <= calls /\ \E c \in Callers : thread[c].entry = e THEN "running" ELSE "none"

OutcomeBar == [e \in Entries |-> Outcome(e)]

\* A call, as the promise sees it: the answer of a call under way is open.
CallBar ==
  [c \in Callers |-> [flight |-> thread[c].entry,
                      answer |-> IF thread[c].entry # 0 THEN "none" ELSE thread[c].answer]]

Promise == INSTANCE SingleFlightSpec WITH
  Flights <- Entries, open <- in_flight, outcome <- OutcomeBar, call <- CallBar

\* The code implements the promise: every call that ends has the outcome of
\* the entry it entered, "lost" only when that entry's leader panicked, and
\* entries of one key never overlap.
KeepsPromise == Promise!Spec

\* A call is answered, "No deadlocks", whatever the order in which threads park
\* and notify, unless the load that it shares panicked.
CallsAnswered ==
  \A c \in Callers :
    (thread[c].pc # "idle")
      ~> (thread[c].pc = "idle" \/ leader_panicked[thread[c].entry])

\* A waiter whose leader panicked hears of it: "Leader panics propagate to
\* waiters".
PanicHeard ==
  \A c \in Callers :
    (thread[c].entry # 0 /\ leader_panicked[thread[c].entry]) ~> (thread[c].pc = "idle")
===============================================================================

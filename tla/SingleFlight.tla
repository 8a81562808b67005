----------------------------- MODULE SingleFlight -----------------------------
(***************************************************************************)
(* SingleFlight::get_or_load of adapteros-core (singleflight/async_impl.rs) *)
(* for concurrent tasks: the in-flight map (DashMap), the entry with its   *)
(* waiter count, OnceCell and tokio Notify, the leader's path, the         *)
(* waiter's loop, and the CleanupGuard that runs when the leader is        *)
(* cancelled or panics while it loads.                                     *)
(*                                                                         *)
(* Entries are numbered in the order of their creation, 0 is "no entry".   *)
(* A step is what happens between two accesses to shared state; metrics    *)
(* and logging are left out.  notify_waiters wakes the tasks whose         *)
(* Notified future exists at that moment and stores nothing for others.    *)
(***************************************************************************)
EXTENDS Naturals, FiniteSets

CONSTANTS Keys,      \* deduplication keys
          Callers,   \* tasks that call get_or_load
          MaxCalls,  \* bound: number of calls
          Failures   \* whether calls may be cancelled or panic

ASSUME SingleFlightAssumption ==
  IsFiniteSet(Callers) /\ MaxCalls \in Nat /\ Failures \in BOOLEAN

VARIABLES in_flight,     \* in_flight[k] : the entry under key k, 0 if none
          waiter_count,  \* waiter_count[e]
          result,        \* result[e] : the OnceCell, "none" until set
          task,          \* task[c] : the call of c
          calls          \* number of calls begun (bound); also the last entry created

vars == <<in_flight, waiter_count, result, task, calls>>

Entries == 1..MaxCalls
Pcs == {"idle", "joined", "load", "set", "notify", "remove", "dropNotify", "dropRemove",
        "register", "waiting", "woken", "empty"}
Idle(c, a) ==
  [task EXCEPT ![c] = [pc |-> "idle", key |-> @.key, entry |-> 0, answer |-> a]]
To(c, pc) == task' = [task EXCEPT ![c].pc = pc]

Init ==
  /\ in_flight = [k \in Keys |-> 0]
  /\ waiter_count = [e \in Entries |-> 0]
  /\ result = [e \in Entries |-> "none"]
  /\ task \in [Callers -> {[pc |-> "idle", key |-> k, entry |-> 0, answer |-> "none"] :
                             k \in Keys}]
  /\ calls = 0

\* entry(key).or_insert_with(new).clone()
Join(c) ==
  /\ task[c].pc = "idle" /\ calls < MaxCalls
  /\ calls' = calls + 1
  /\ \E k \in Keys :
       LET e == IF in_flight[k] = 0 THEN calls + 1 ELSE in_flight[k]
       IN  /\ in_flight' = [in_flight EXCEPT ![k] = e]
           /\ task' = [task EXCEPT ![c] = [pc |-> "joined", key |-> k, entry |-> e,
                                           answer |-> "none"]]
  /\ UNCHANGED <<waiter_count, result>>

\* Mutant of AddWaiter: every call that finds no result yet loads.
AddWaiterUncounted(c) ==
  /\ task[c].pc = "joined"
  /\ waiter_count' = [waiter_count EXCEPT ![task[c].entry] = @ + 1]
  /\ To(c, IF result[task[c].entry] = "none" THEN "load" ELSE "register")
  /\ UNCHANGED <<in_flight, result, calls>>

\* The first to be counted leads; the load begins.
AddWaiter(c) ==
  /\ task[c].pc = "joined"
  /\ waiter_count' = [waiter_count EXCEPT ![task[c].entry] = @ + 1]
  /\ To(c, IF waiter_count[task[c].entry] = 0 THEN "load" ELSE "register")
  /\ UNCHANGED <<in_flight, result, calls>>

\* Mutant of LoadReturns: the key is freed before the result is stored.
LoadReturnsFreesKey(c, r) ==
  /\ task[c].pc = "load"
  /\ task' = [task EXCEPT ![c].pc = "set", ![c].answer = r]
  /\ in_flight' = [in_flight EXCEPT ![task[c].key] = 0]
  /\ UNCHANGED <<waiter_count, result, calls>>

\* load_fn().await returns.
LoadReturns(c, r) ==
  /\ task[c].pc = "load"
  /\ task' = [task EXCEPT ![c].pc = "set", ![c].answer = r]
  /\ UNCHANGED <<in_flight, waiter_count, result, calls>>

SetResult(c) ==
  /\ task[c].pc = "set"
  /\ result' = [result EXCEPT ![task[c].entry] = task[c].answer]
  /\ To(c, "notify")
  /\ UNCHANGED <<in_flight, waiter_count, calls>>

\* notify_waiters for the entry of c, which goes on to pc.
NotifyWaiters(c, pc) ==
  task' = [d \in Callers |->
             IF d = c THEN [task[d] EXCEPT !.pc = pc]
             ELSE IF task[d].pc = "waiting" /\ task[d].entry = task[c].entry
             THEN [task[d] EXCEPT !.pc = "woken"]
             ELSE task[d]]

Notify(c) ==
  /\ task[c].pc = "notify"
  /\ NotifyWaiters(c, "remove")
  /\ UNCHANGED <<in_flight, waiter_count, result, calls>>

\* Mutant of Remove: the entry stays in the map after an error.
RemoveOnlyOk(c) ==
  /\ task[c].pc = "remove"
  /\ in_flight' = [in_flight EXCEPT ![task[c].key] = IF task[c].answer = "ok" THEN 0 ELSE @]
  /\ task' = Idle(c, task[c].answer)
  /\ UNCHANGED <<waiter_count, result, calls>>

\* in_flight.remove(&key); the leader returns its result.
Remove(c) ==
  /\ task[c].pc = "remove"
  /\ in_flight' = [in_flight EXCEPT ![task[c].key] = 0]
  /\ task' = Idle(c, task[c].answer)
  /\ UNCHANGED <<waiter_count, result, calls>>

\* The leader is cancelled or panics in its load: CleanupGuard::drop.
LeaderFails(c) ==
  /\ Failures
  /\ task[c].pc = "load"
  /\ To(c, "dropNotify")
  /\ UNCHANGED <<in_flight, waiter_count, result, calls>>

DropNotify(c) ==
  /\ task[c].pc = "dropNotify"
  /\ NotifyWaiters(c, "dropRemove")
  /\ UNCHANGED <<in_flight, waiter_count, result, calls>>

DropRemove(c) ==
  /\ task[c].pc = "dropRemove"
  /\ in_flight' = [in_flight EXCEPT ![task[c].key] = 0]
  /\ task' = Idle(c, "lost")
  /\ UNCHANGED <<waiter_count, result, calls>>

\* entry.notify.notified(): from here on the waiter can be woken.
Register(c) ==
  /\ task[c].pc = "register"
  /\ To(c, "waiting")
  /\ UNCHANGED <<in_flight, waiter_count, result, calls>>

\* A woken waiter returns the result if there is one.
CheckResult(c) ==
  /\ task[c].pc = "woken"
  /\ IF result[task[c].entry] = "none" THEN To(c, "empty")
     ELSE task' = Idle(c, result[task[c].entry])
  /\ UNCHANGED <<in_flight, waiter_count, result, calls>>

\* Otherwise it panics when the key is gone, and waits again when it is not.
CheckKey(c) ==
  /\ task[c].pc = "empty"
  /\ IF in_flight[task[c].key] = 0 THEN task' = Idle(c, "lost") ELSE To(c, "register")
  /\ UNCHANGED <<in_flight, waiter_count, result, calls>>

\* Mutant of WaiterCancelled: the call keeps its entry.
WaiterCancelledKeepsEntry(c) ==
  /\ Failures
  /\ task[c].pc = "waiting"
  /\ To(c, "idle")
  /\ UNCHANGED <<in_flight, waiter_count, result, calls>>

\* The caller drops the future of a waiter.
WaiterCancelled(c) ==
  /\ Failures
  /\ task[c].pc = "waiting"
  /\ task' = Idle(c, "none")
  /\ UNCHANGED <<in_flight, waiter_count, result, calls>>

Step(c) ==
  \/ AddWaiter(c)
  \/ \E r \in {"ok", "err"} : LoadReturns(c, r)
  \/ SetResult(c) \/ Notify(c) \/ Remove(c)
  \/ DropNotify(c) \/ DropRemove(c)
  \/ Register(c) \/ CheckResult(c) \/ CheckKey(c)

Next == \E c \in Callers : Join(c) \/ Step(c) \/ LeaderFails(c) \/ WaiterCancelled(c)

Spec == Init /\ [][Next]_vars

\* Every task that can run is polled, and loads return.
FairSpec == Spec /\ \A c \in Callers : WF_vars(Step(c))
-------------------------------------------------------------------------------
(* Properties *)

Leading(c) == task[c].pc \in {"load", "set", "notify", "remove", "dropNotify", "dropRemove"}

\* The types; only a call under way has an entry.
TypeOK ==
  /\ in_flight \in [Keys -> 0..calls]
  /\ waiter_count \in [Entries -> 0..MaxCalls]
  /\ result \in [Entries -> {"none", "ok", "err"}]
  /\ task \in [Callers -> [pc : Pcs, key : Keys, entry : 0..calls,
                           answer : {"none", "ok", "err", "lost"}]]
  /\ \A c \in Callers : (task[c].entry = 0) = (task[c].pc = "idle")
  /\ calls \in 0..MaxCalls

\* At most one load runs for a key, also while late callers still hold an
\* entry that has left the map: "only one actually executes the load".
OneLoadPerKey ==
  \A c, d \in Callers :
    task[c].pc = "load" /\ task[d].pc = "load" /\ task[c].key = task[d].key => c = d

\* Every entry in the map has a caller that will take it out: its leader, or,
\* before a leader is counted, one that is about to be.  No outcome stays in
\* the map ("entries removed immediately after completion", "errors don't
\* persist"), whoever is cancelled.
EntryOwned ==
  \A k \in Keys : in_flight[k] # 0 =>
    \E c \in Callers :
      /\ task[c].entry = in_flight[k]
      /\ IF waiter_count[in_flight[k]] = 0 THEN task[c].pc = "joined" ELSE Leading(c)

\* What became of an entry, as the promise sees it.
Outcome(e) ==
  IF result[e] # "none" THEN result[e]
  ELSE IF waiter_count[e] = 0 THEN "none"
  ELSE IF \E c \in Callers : task[c].entry = e /\ task[c].pc \in {"load", "set"}
  THEN "running" ELSE "lost"

OutcomeBar == [e \in Entries |-> Outcome(e)]

\* A call, as the promise sees it: the answer of a call under way is open.
CallBar ==
  [c \in Callers |-> [flight |-> task[c].entry,
                      answer |-> IF task[c].entry # 0 THEN "none" ELSE task[c].answer]]

Promise == INSTANCE SingleFlightSpec WITH
  Flights <- Entries, open <- in_flight, outcome <- OutcomeBar, call <- CallBar

\* The code implements the promise: every call that ends has the outcome of
\* the entry it joined, "lost" only when that entry's leader was cancelled or
\* panicked, and entries of one key never overlap.
KeepsPromise == Promise!Spec

\* A call that waits is answered: "No deadlocks".
WaitersAnswered == \A c \in Callers : (task[c].pc = "waiting") ~> (task[c].pc # "waiting")

\* A waiter whose leader was cancelled or panicked while it waited hears of
\* it: "waiters will receive an error and the in-flight entry is cleaned up".
FailureHeard ==
  \A c, d \in Callers :
    (/\ task[c].pc = "waiting"
     /\ task[d].pc = "dropNotify"
     /\ task[c].entry = task[d].entry) ~> (task[c].pc = "idle")
===============================================================================

----------------------- MODULE SingleFlightSync_proofs -----------------------
(***************************************************************************)
(* SingleFlightSync for any keys, threads and number of calls: every entry *)
(* in the map has its leader, and the code implements SingleFlightSpec.    *)
(*                                                                         *)
(* Both rest on one invariant.  A leader is alone with its entry, its      *)
(* entry is the one in the map, and where it is tells what has become of   *)
(* its load; a thread with an entry that has no outcome yet has a leader   *)
(* that loads, so an outcome is never lost.                                *)
(***************************************************************************)
EXTENDS SingleFlightSync, TLAPS

Pcs == {"idle", "load", "set", "remove", "dropNotify", "dropRemove",
        "wait", "locked", "flag", "park", "parked"}
Answers == {"none", "ok", "err", "lost"}
Threads(n) == [pc : Pcs, key : Keys, entry : 0..n, answer : Answers]

\* The types; only a call under way has an entry.
TypeInv ==
  /\ in_flight \in [Keys -> 0..calls]
  /\ result \in [Entries -> {"none", "ok", "err"}]
  /\ leader_panicked \in [Entries -> BOOLEAN]
  /\ thread \in [Callers -> Threads(calls)]
  /\ \A c \in Callers : thread[c].entry = 0 <=> thread[c].pc = "idle"
  /\ calls \in 0..MaxCalls

\* No two threads lead one entry.
LeadersAlone ==
  \A c, d \in Callers :
    Leading(c) /\ Leading(d) /\ thread[c].entry = thread[d].entry => c = d

\* The entry of a leader is the one in the map, and every one there has a leader.
LeadersListed ==
  /\ \A c \in Callers : Leading(c) => in_flight[thread[c].key] = thread[c].entry
  /\ \A k \in Keys : in_flight[k] # 0 =>
       \E c \in Callers : Leading(c) /\ thread[c].entry = in_flight[k] /\ thread[c].key = k

\* Nothing has become of entry e.
Undecided(e) == result[e] = "none" /\ ~leader_panicked[e]

\* Where a leader is tells what has become of its load.
LeaderPhase ==
  \A c \in Callers :
    /\ thread[c].pc \in {"load", "set"} => Undecided(thread[c].entry)
    /\ thread[c].pc \in {"set", "remove"} => thread[c].answer \in {"ok", "err"}
    /\ thread[c].pc = "remove" => result[thread[c].entry] = thread[c].answer
    /\ thread[c].pc \in {"dropNotify", "dropRemove"} => leader_panicked[thread[c].entry]

\* A load has one outcome, and entries that are not yet created have none.
OneOutcome ==
  \A e \in Entries :
    /\ leader_panicked[e] => result[e] = "none"
    /\ e > calls => Undecided(e)

\* An entry that somebody has and that is undecided is being loaded.
UndecidedLed ==
  \A c \in Callers : thread[c].entry # 0 /\ Undecided(thread[c].entry) =>
    \E d \in Callers : thread[d].entry = thread[c].entry /\ thread[d].pc \in {"load", "set"}

IndInv ==
  TypeInv /\ LeadersAlone /\ LeadersListed /\ LeaderPhase /\ OneOutcome /\ UndecidedLed

-------------------------------------------------------------------------------
(* The invariant *)

\* No call has begun: nothing to keep.
LEMMA InitInv == Init => IndInv
<1> SUFFICES ASSUME Init PROVE IndInv
  OBVIOUS
<1>1. \A c \in Callers : thread[c].pc = "idle" /\ thread[c].entry = 0
  BY DEF Init
<1>2. TypeInv
  <2>1. thread \in [Callers -> Threads(0)]
    BY DEF Init, Threads, Pcs, Answers
  <2>2. QED
    BY <1>1, <2>1, SingleFlightSyncAssumption DEF Init, TypeInv, Entries
<1>3. LeadersAlone /\ LeaderPhase /\ UndecidedLed
  BY <1>1 DEF LeadersAlone, LeaderPhase, UndecidedLed, Leading
<1>4. LeadersListed /\ OneOutcome
  BY <1>1 DEF Init, LeadersListed, OneOutcome, Undecided, Leading
<1>5. QED
  BY <1>2, <1>3, <1>4 DEF IndInv

\* A step in which leaders stand still, and waiters go on waiting or leave.
LEMMA WaitersMove ==
  ASSUME IndInv, UNCHANGED <<in_flight, result, leader_panicked, calls>>,
         thread' \in [Callers -> Threads(calls)],
         \A c \in Callers : thread'[c].entry = 0 <=> thread'[c].pc = "idle",
         \A c \in Callers : Leading(c) => thread'[c] = thread[c],
         \A c \in Callers : ~Leading(c) =>
           ~Leading(c)' /\ thread'[c].entry \in {0, thread[c].entry}
  PROVE  IndInv'
<1>0. TypeInv' /\ OneOutcome'
  BY DEF IndInv, TypeInv, OneOutcome, Undecided, Threads
<1>1. LeadersAlone'
  BY DEF IndInv, LeadersAlone, Leading
<1>2. LeadersListed'
  BY DEF IndInv, LeadersListed, Leading
<1>3. LeaderPhase'
  BY DEF IndInv, LeaderPhase, Leading, Undecided
<1>4. UndecidedLed'
  BY DEF IndInv, UndecidedLed, Leading, Undecided
<1>5. QED
  BY <1>0, <1>1, <1>2, <1>3, <1>4 DEF IndInv

\* A thread joins the entry of its key, or creates one and leads it.
LEMMA EnterInv == ASSUME IndInv, NEW c \in Callers, Enter(c) PROVE IndInv'
<1>1. PICK k \in Keys :
        LET fresh == in_flight[k] = 0
            e == IF fresh THEN calls + 1 ELSE in_flight[k]
        IN  /\ in_flight' = [in_flight EXCEPT ![k] = e]
            /\ thread' = [thread EXCEPT ![c] =
                           [pc |-> IF fresh THEN "load" ELSE "wait", key |-> k, entry |-> e,
                            answer |-> "none"]]
  BY DEF Enter
<1>2. /\ TypeInv /\ calls < MaxCalls /\ calls' = calls + 1 /\ calls \in Nat
      /\ thread[c].pc = "idle" /\ UNCHANGED <<result, leader_panicked>>
  BY SingleFlightSyncAssumption DEF IndInv, TypeInv, Enter
<1>3. calls + 1 \in Entries
  BY <1>2, SingleFlightSyncAssumption DEF Entries
<1>4. \A d \in Callers : thread[d].entry \in 0..calls /\ thread[d].entry # calls + 1
  BY <1>2 DEF TypeInv, Threads
<1>5. in_flight[k] \in 0..calls
  BY <1>2 DEF TypeInv
<1>6. TypeInv'
  <2>1. thread' \in [Callers -> Threads(calls')]
    BY <1>1, <1>2, <1>5 DEF TypeInv, Threads, Pcs, Answers
  <2>2. in_flight' \in [Keys -> 0..calls']
    BY <1>1, <1>2, <1>5 DEF TypeInv
  <2>3. QED
    BY <1>1, <1>2, <1>5, <2>1, <2>2, SingleFlightSyncAssumption DEF TypeInv
<1>7. OneOutcome'
  BY <1>2 DEF IndInv, OneOutcome, Undecided, Entries
<1>8. CASE in_flight[k] = 0
  <2>1. /\ in_flight' = [in_flight EXCEPT ![k] = calls + 1]
        /\ thread' = [thread EXCEPT ![c] =
                       [pc |-> "load", key |-> k, entry |-> calls + 1, answer |-> "none"]]
    BY <1>1, <1>8
  <2>2. \A d \in Callers : d # c => thread'[d] = thread[d]
    BY <2>1, <1>2 DEF TypeInv
  <2>3. thread'[c] = [pc |-> "load", key |-> k, entry |-> calls + 1, answer |-> "none"]
    BY <2>1, <1>2 DEF TypeInv
  <2>4. in_flight'[k] = calls + 1 /\ \A j \in Keys : j # k => in_flight'[j] = in_flight[j]
    BY <2>1, <1>2 DEF TypeInv
  <2>5. \A d \in Callers : Leading(d) => thread[d].key # k
    BY <1>2, <1>8, <1>4 DEF IndInv, LeadersListed, TypeInv, Leading
  <2>6. LeadersAlone'
    BY <2>2, <2>3, <1>4 DEF IndInv, LeadersAlone, Leading
  <2>7. LeadersListed'
    BY <2>2, <2>3, <2>4, <2>5, <1>2 DEF IndInv, LeadersListed, Leading, TypeInv, Threads
  <2>8. LeaderPhase'
    BY <2>2, <2>3, <1>2, <1>3 DEF IndInv, LeaderPhase, Undecided, OneOutcome
  <2>9. UndecidedLed'
    BY <2>2, <2>3, <1>2 DEF IndInv, UndecidedLed, Undecided
  <2>10. QED
    BY <1>6, <1>7, <2>6, <2>7, <2>8, <2>9 DEF IndInv
<1>9. CASE in_flight[k] # 0
  <2>1. /\ in_flight' = in_flight
        /\ thread' = [thread EXCEPT ![c] =
                       [pc |-> "wait", key |-> k, entry |-> in_flight[k], answer |-> "none"]]
    BY <1>1, <1>2, <1>9 DEF TypeInv
  <2>2. \A d \in Callers : d # c => thread'[d] = thread[d]
    BY <2>1, <1>2 DEF TypeInv
  <2>3. thread'[c] = [pc |-> "wait", key |-> k, entry |-> in_flight[k], answer |-> "none"]
    BY <2>1, <1>2 DEF TypeInv
  <2>4. LeadersAlone' /\ LeadersListed'
    BY <2>1, <2>2, <2>3, <1>2 DEF IndInv, LeadersAlone, LeadersListed, Leading
  <2>5. LeaderPhase'
    BY <2>2, <2>3, <1>2 DEF IndInv, LeaderPhase, Undecided
  <2>6. UndecidedLed'
    <3>1. PICK d \in Callers : Leading(d) /\ thread[d].entry = in_flight[k]
      BY <1>9 DEF IndInv, LeadersListed
    <3>2. d # c /\ thread'[d] = thread[d]
      BY <1>2, <2>2, <3>1 DEF Leading
    <3>3. in_flight[k] \in Entries
      BY <1>2, <1>5, <1>9, SingleFlightSyncAssumption DEF TypeInv, Entries
    <3>4. Undecided(in_flight[k]) => thread'[d].pc \in {"load", "set"}
      BY <3>1, <3>2 DEF IndInv, LeaderPhase, Leading, Undecided
    <3>5. ASSUME NEW b \in Callers, b # c, thread[b].entry # 0, Undecided(thread[b].entry)
          PROVE  \E a \in Callers : thread'[a].entry = thread[b].entry
                                      /\ thread'[a].pc \in {"load", "set"}
      BY <3>5, <2>2, <1>2 DEF IndInv, UndecidedLed
    <3>6. QED
      BY <1>2, <2>2, <2>3, <3>1, <3>2, <3>4, <3>5 DEF UndecidedLed, Undecided
  <2>7. QED
    BY <1>6, <1>7, <2>4, <2>5, <2>6 DEF IndInv
<1>10. QED
  BY <1>8, <1>9

\* The entry of a call under way.
LEMMA EntryKnown ==
  ASSUME TypeInv, NEW c \in Callers, thread[c].pc # "idle"
  PROVE  thread[c].entry \in Entries /\ thread[c].key \in Keys /\ thread[c] \in Threads(calls)
BY SingleFlightSyncAssumption DEF TypeInv, Threads, Entries

\* A load returns.
LEMMA LoadReturnsInv ==
  ASSUME IndInv, NEW c \in Callers, NEW r \in {"ok", "err"}, LoadReturns(c, r)
  PROVE  IndInv'
<1>1. /\ TypeInv /\ thread[c].pc = "load" /\ thread[c].entry \in Entries
      /\ UNCHANGED <<in_flight, result, leader_panicked, calls>>
  BY EntryKnown DEF IndInv, LoadReturns
<1>2. /\ thread' \in [Callers -> Threads(calls)]
      /\ \A d \in Callers : d # c => thread'[d] = thread[d]
  BY <1>1 DEF LoadReturns, TypeInv, Threads, Pcs, Answers
<1>3. /\ thread'[c].pc = "set" /\ thread'[c].answer = r
      /\ thread'[c].entry = thread[c].entry /\ thread'[c].key = thread[c].key
  BY <1>1 DEF LoadReturns, TypeInv, Threads
<1>4. TypeInv' /\ OneOutcome'
  BY <1>1, <1>2, <1>3 DEF IndInv, TypeInv, OneOutcome, Undecided
<1>5. LeadersAlone' /\ LeadersListed'
  BY <1>1, <1>2, <1>3 DEF IndInv, LeadersAlone, LeadersListed, Leading
<1>6. LeaderPhase'
  BY <1>1, <1>2, <1>3 DEF IndInv, LeaderPhase, Undecided
<1>7. UndecidedLed'
  BY <1>1, <1>2, <1>3 DEF IndInv, UndecidedLed, Undecided
<1>8. QED
  BY <1>4, <1>5, <1>6, <1>7 DEF IndInv

\* notify_all: who goes where.
LEMMA NotifyAllEffect ==
  ASSUME TypeInv, NEW c \in Callers, thread[c].pc # "idle", NEW pc \in Pcs \ {"idle"},
         NotifyAll(c, pc)
  PROVE  /\ thread' \in [Callers -> Threads(calls)]
         /\ thread'[c].pc = pc
         /\ \A d \in Callers : /\ thread'[d].entry = thread[d].entry
                               /\ thread'[d].key = thread[d].key
                               /\ thread'[d].answer = thread[d].answer
         /\ \A d \in Callers \ {c} : \/ thread'[d] = thread[d]
                                     \/ thread[d].pc = "parked" /\ thread'[d].pc = "wait"
BY DEF NotifyAll, TypeInv, Threads, Pcs

\* The leader publishes its result.
LEMMA SetResultInv == ASSUME IndInv, NEW c \in Callers, SetResult(c) PROVE IndInv'
<1>1. /\ TypeInv /\ thread[c].pc = "set" /\ thread[c].entry \in Entries
      /\ UNCHANGED <<in_flight, leader_panicked, calls>>
      /\ NotifyAll(c, "remove")
      /\ result' = [result EXCEPT ![thread[c].entry] = thread[c].answer]
  BY EntryKnown DEF IndInv, SetResult
<1>2. /\ thread' \in [Callers -> Threads(calls)]
      /\ thread'[c].pc = "remove"
      /\ \A d \in Callers : /\ thread'[d].entry = thread[d].entry
                            /\ thread'[d].key = thread[d].key
                            /\ thread'[d].answer = thread[d].answer
      /\ \A d \in Callers \ {c} : \/ thread'[d] = thread[d]
                                  \/ thread[d].pc = "parked" /\ thread'[d].pc = "wait"
  BY <1>1, NotifyAllEffect DEF Pcs
<1>3. thread[c].answer \in {"ok", "err"} /\ Undecided(thread[c].entry)
  BY <1>1 DEF IndInv, LeaderPhase
<1>4. /\ result'[thread[c].entry] = thread[c].answer
      /\ \A e \in Entries : e # thread[c].entry => result'[e] = result[e]
      /\ result' \in [Entries -> {"none", "ok", "err"}]
  BY <1>1, <1>3 DEF TypeInv
<1>5. \A d \in Callers : Leading(d)' <=> Leading(d)
  BY <1>1, <1>2 DEF Leading
<1>6. TypeInv'
  BY <1>1, <1>2, <1>4 DEF TypeInv
<1>7. LeadersAlone' /\ LeadersListed'
  BY <1>1, <1>2, <1>5 DEF IndInv, LeadersAlone, LeadersListed
<1>8. LeaderPhase'
  <2>1. ASSUME NEW d \in Callers, d # c, Leading(d)
        PROVE  /\ thread'[d] = thread[d] /\ thread[d].entry \in Entries
               /\ thread[d].entry # thread[c].entry
    BY <2>1, <1>1, <1>2, EntryKnown DEF IndInv, LeadersAlone, Leading
  <2>2. QED
    BY <2>1, <1>1, <1>2, <1>3, <1>4 DEF IndInv, LeaderPhase, Leading, Undecided
<1>9. OneOutcome'
  BY <1>1, <1>3, <1>4 DEF IndInv, OneOutcome, Undecided, TypeInv, Threads
<1>10. UndecidedLed'
  <2>1. ASSUME NEW b \in Callers, thread[b].entry # 0, Undecided(thread[b].entry)'
        PROVE  \E d \in Callers : thread'[d].entry = thread'[b].entry
                                    /\ thread'[d].pc \in {"load", "set"}
    <3>1. thread[b].entry \in Entries
      BY <2>1, <1>1, EntryKnown DEF TypeInv
    <3>2. thread[b].entry # thread[c].entry /\ Undecided(thread[b].entry)
      BY <2>1, <3>1, <1>1, <1>2, <1>3, <1>4 DEF Undecided
    <3>3. PICK d \in Callers : thread[d].entry = thread[b].entry
                                 /\ thread[d].pc \in {"load", "set"}
      BY <2>1, <3>2 DEF IndInv, UndecidedLed
    <3>4. d # c /\ thread'[d] = thread[d]
      BY <3>2, <3>3, <1>2
    <3>5. QED
      BY <3>3, <3>4, <1>2
  <2>2. QED
    BY <2>1, <1>2 DEF UndecidedLed
<1>11. QED
  BY <1>6, <1>7, <1>8, <1>9, <1>10 DEF IndInv

\* A thread returns: it has no entry any more.
LEMMA IdleEffect ==
  ASSUME TypeInv, NEW c \in Callers, NEW a \in Answers, thread' = Idle(c, a)
  PROVE  /\ thread' \in [Callers -> Threads(calls)]
         /\ thread'[c].pc = "idle" /\ thread'[c].entry = 0 /\ thread'[c].answer = a
         /\ \A d \in Callers \ {c} : thread'[d] = thread[d]
<1>1. thread[c] \in Threads(calls) /\ thread \in [Callers -> Threads(calls)] /\ calls \in Nat
  BY SingleFlightSyncAssumption DEF TypeInv
<1>2. [pc |-> "idle", key |-> thread[c].key, entry |-> 0, answer |-> a] \in Threads(calls)
  BY <1>1 DEF Threads, Pcs
<1>3. QED
  BY <1>1, <1>2 DEF Idle

\* The leader takes its decided entry out of the map and returns.
LEMMA LeaderLeaves ==
  ASSUME IndInv, NEW c \in Callers, NEW a \in Answers,
         thread[c].pc \in {"remove", "dropRemove"},
         in_flight' = [in_flight EXCEPT ![thread[c].key] = 0],
         thread' = Idle(c, a),
         UNCHANGED <<result, leader_panicked, calls>>
  PROVE  IndInv'
<1>1. TypeInv /\ thread[c].entry \in Entries /\ thread[c].key \in Keys /\ Leading(c)
  BY EntryKnown DEF IndInv, Leading
<1>2. /\ thread' \in [Callers -> Threads(calls)]
      /\ thread'[c].pc = "idle" /\ thread'[c].entry = 0
      /\ \A d \in Callers \ {c} : thread'[d] = thread[d]
  BY <1>1, IdleEffect
<1>3. /\ in_flight' \in [Keys -> 0..calls] /\ in_flight'[thread[c].key] = 0
      /\ \A k \in Keys : k # thread[c].key => in_flight'[k] = in_flight[k]
  BY <1>1 DEF TypeInv
<1>4. in_flight[thread[c].key] = thread[c].entry
  BY <1>1 DEF IndInv, LeadersListed
<1>5. TypeInv' /\ OneOutcome'
  BY <1>1, <1>2, <1>3 DEF IndInv, TypeInv, OneOutcome, Undecided
<1>6. LeadersAlone' /\ LeaderPhase'
  BY <1>2 DEF IndInv, LeadersAlone, LeaderPhase, Leading, Undecided
<1>7. LeadersListed'
  <2>1. ASSUME NEW d \in Callers, Leading(d)'
        PROVE  in_flight'[thread'[d].key] = thread'[d].entry
    <3>1. d # c /\ thread'[d] = thread[d] /\ Leading(d)
      BY <1>2, <2>1 DEF Leading
    <3>2. in_flight[thread[d].key] = thread[d].entry /\ thread[d].key \in Keys
      BY <3>1, <1>1, EntryKnown DEF IndInv, LeadersListed, Leading
    <3>3. thread[d].entry # thread[c].entry
      BY <3>1, <1>1 DEF IndInv, LeadersAlone
    <3>4. QED
      BY <3>1, <3>2, <3>3, <1>3, <1>4
  <2>2. ASSUME NEW k \in Keys, in_flight'[k] # 0
        PROVE  \E d \in Callers : Leading(d)' /\ thread'[d].entry = in_flight'[k]
                                    /\ thread'[d].key = k
    <3>1. k # thread[c].key /\ in_flight'[k] = in_flight[k]
      BY <1>3, <2>2
    <3>2. PICK d \in Callers : Leading(d) /\ thread[d].entry = in_flight[k] /\ thread[d].key = k
      BY <2>2, <3>1 DEF IndInv, LeadersListed
    <3>3. thread'[d] = thread[d]
      BY <1>2, <3>1, <3>2
    <3>4. QED
      BY <3>1, <3>2, <3>3 DEF Leading
  <2>3. QED
    BY <2>1, <2>2 DEF LeadersListed
<1>8. UndecidedLed'
  <2>1. thread[c].pc \notin {"load", "set"}
    OBVIOUS
  <2>2. QED
    BY <2>1, <1>2 DEF IndInv, UndecidedLed, Undecided
<1>9. QED
  BY <1>5, <1>6, <1>7, <1>8 DEF IndInv

\* The load panics.
LEMMA LeaderPanicsInv == ASSUME IndInv, NEW c \in Callers, LeaderPanics(c) PROVE IndInv'
<1>1. /\ TypeInv /\ thread[c].pc = "load" /\ thread[c].entry \in Entries
      /\ thread[c].entry <= calls
      /\ UNCHANGED <<in_flight, result, calls>>
      /\ leader_panicked' = [leader_panicked EXCEPT ![thread[c].entry] = TRUE]
  BY EntryKnown DEF IndInv, TypeInv, LeaderPanics, Threads
<1>2. /\ thread' \in [Callers -> Threads(calls)]
      /\ thread'[c].pc = "dropNotify"
      /\ thread'[c].entry = thread[c].entry /\ thread'[c].key = thread[c].key
      /\ \A d \in Callers \ {c} : thread'[d] = thread[d]
  BY <1>1 DEF LeaderPanics, To, TypeInv, Threads, Pcs
<1>3. Undecided(thread[c].entry)
  BY <1>1 DEF IndInv, LeaderPhase
<1>4. /\ leader_panicked'[thread[c].entry]
      /\ \A e \in Entries \ {thread[c].entry} : leader_panicked'[e] = leader_panicked[e]
      /\ leader_panicked' \in [Entries -> BOOLEAN]
  BY <1>1 DEF TypeInv
<1>5. TypeInv'
  BY <1>1, <1>2, <1>4 DEF TypeInv
<1>6. LeadersAlone' /\ LeadersListed'
  BY <1>1, <1>2 DEF IndInv, LeadersAlone, LeadersListed, Leading
<1>7. OneOutcome'
  <2>1. ASSUME NEW e \in Entries, e # thread[c].entry
        PROVE  leader_panicked'[e] = leader_panicked[e] /\ result'[e] = result[e]
    BY <2>1, <1>1, <1>4
  <2>2. ~(thread[c].entry > calls')
    BY <1>1, SingleFlightSyncAssumption DEF TypeInv, Entries
  <2>3. QED
    BY <1>1, <1>3, <2>1, <2>2 DEF IndInv, OneOutcome, Undecided
<1>8. LeaderPhase'
  <2>1. ASSUME NEW d \in Callers \ {c}, Leading(d)
        PROVE  thread[d].entry \in Entries \ {thread[c].entry}
    BY <2>1, <1>1, EntryKnown DEF IndInv, LeadersAlone, Leading
  <2>2. ASSUME NEW d \in Callers \ {c}, Leading(d)
        PROVE  leader_panicked'[thread[d].entry] = leader_panicked[thread[d].entry]
    BY <2>1, <2>2, <1>4
  <2>3. QED
    BY <2>1, <2>2, <1>1, <1>2, <1>4 DEF IndInv, LeaderPhase, Leading, Undecided
<1>9. UndecidedLed'
  <2>1. ASSUME NEW b \in Callers, thread[b].entry # 0, Undecided(thread[b].entry)'
        PROVE  \E d \in Callers : thread'[d].entry = thread'[b].entry
                                    /\ thread'[d].pc \in {"load", "set"}
    <3>1. thread[b].entry \in Entries
      BY <2>1, <1>1, EntryKnown DEF TypeInv
    <3>2. thread'[b].entry = thread[b].entry
      BY <1>2
    <3>3. thread[b].entry # thread[c].entry
      BY <2>1, <3>1, <3>2, <1>4 DEF Undecided
    <3>4. Undecided(thread[b].entry)
      BY <2>1, <3>1, <3>2, <3>3, <1>1, <1>4 DEF Undecided
    <3>5. PICK d \in Callers : thread[d].entry = thread[b].entry
                                 /\ thread[d].pc \in {"load", "set"}
      BY <2>1, <3>4 DEF IndInv, UndecidedLed
    <3>6. QED
      BY <3>2, <3>3, <3>5, <1>2
  <2>2. QED
    BY <2>1, <1>2 DEF UndecidedLed
<1>10. QED
  BY <1>5, <1>6, <1>7, <1>8, <1>9 DEF IndInv

\* The guard of a panicked leader notifies.
LEMMA DropNotifyInv == ASSUME IndInv, NEW c \in Callers, DropNotify(c) PROVE IndInv'
<1>1. /\ TypeInv /\ thread[c].pc = "dropNotify"
      /\ UNCHANGED <<in_flight, result, leader_panicked, calls>>
      /\ NotifyAll(c, "dropRemove")
  BY DEF IndInv, DropNotify
<1>2. /\ thread' \in [Callers -> Threads(calls)]
      /\ thread'[c].pc = "dropRemove"
      /\ \A d \in Callers : /\ thread'[d].entry = thread[d].entry
                            /\ thread'[d].key = thread[d].key
                            /\ thread'[d].answer = thread[d].answer
      /\ \A d \in Callers \ {c} : \/ thread'[d] = thread[d]
                                  \/ thread[d].pc = "parked" /\ thread'[d].pc = "wait"
  BY <1>1, NotifyAllEffect DEF Pcs
<1>3. TypeInv' /\ OneOutcome'
  BY <1>1, <1>2 DEF IndInv, TypeInv, OneOutcome, Undecided
<1>4. \A d \in Callers : Leading(d)' <=> Leading(d)
  BY <1>1, <1>2 DEF Leading
<1>5. LeadersAlone' /\ LeadersListed'
  BY <1>1, <1>2, <1>4 DEF IndInv, LeadersAlone, LeadersListed
<1>6. LeaderPhase'
  BY <1>1, <1>2 DEF IndInv, LeaderPhase, Undecided
<1>7. UndecidedLed'
  <2>1. \A d \in Callers : thread[d].pc \in {"load", "set"} => thread'[d] = thread[d]
    BY <1>1, <1>2
  <2>2. QED
    BY <1>1, <1>2, <2>1 DEF IndInv, UndecidedLed, Undecided
<1>8. QED
  BY <1>3, <1>5, <1>6, <1>7 DEF IndInv

\* What a waiter does: go on, or return a.
LEMMA WaiterInv ==
  ASSUME IndInv, NEW c \in Callers, NEW pc \in Pcs, NEW a \in Answers,
         thread[c].pc # "idle" /\ ~Leading(c),
         pc \in {"locked", "flag", "park", "parked"},
         To(c, pc) \/ thread' = Idle(c, a),
         UNCHANGED <<in_flight, result, leader_panicked, calls>>
  PROVE  IndInv'
<1>1. TypeInv
  BY DEF IndInv
<1>2. CASE To(c, pc)
  <2>1. /\ thread' \in [Callers -> Threads(calls)]
        /\ thread'[c].pc = pc /\ thread'[c].entry = thread[c].entry
        /\ \A d \in Callers \ {c} : thread'[d] = thread[d]
    BY <1>1, <1>2 DEF To, TypeInv, Threads
  <2>2. \A d \in Callers : thread'[d].entry = 0 <=> thread'[d].pc = "idle"
    BY <1>1, <2>1 DEF TypeInv
  <2>3. QED
    BY <2>1, <2>2, WaitersMove DEF Leading
<1>3. CASE thread' = Idle(c, a)
  <2>1. /\ thread' \in [Callers -> Threads(calls)]
        /\ thread'[c].pc = "idle" /\ thread'[c].entry = 0
        /\ \A d \in Callers \ {c} : thread'[d] = thread[d]
    BY <1>1, <1>3, IdleEffect
  <2>2. \A d \in Callers : thread'[d].entry = 0 <=> thread'[d].pc = "idle"
    BY <1>1, <2>1 DEF TypeInv
  <2>3. QED
    BY <2>1, <2>2, WaitersMove DEF Leading
<1>4. QED
  BY <1>2, <1>3

\* Every step keeps the invariant.
LEMMA NextInv == IndInv /\ [Next]_vars => IndInv'
<1> SUFFICES ASSUME IndInv, [Next]_vars PROVE IndInv'
  OBVIOUS
<1>1. ASSUME NEW c \in Callers, Remove(c) PROVE IndInv'
  <2>1. thread[c].answer \in Answers
    BY DEF IndInv, TypeInv, Threads
  <2>2. QED
    BY <1>1, <2>1, LeaderLeaves DEF Remove
<1>2. ASSUME NEW c \in Callers, DropRemove(c) PROVE IndInv'
  BY <1>2, LeaderLeaves DEF DropRemove, Answers
<1>3. ASSUME NEW c \in Callers, Lock(c) PROVE IndInv'
  BY <1>3, WaiterInv DEF Lock, Leading, Pcs, Answers
<1>4. ASSUME NEW c \in Callers, CheckResult(c) PROVE IndInv'
  <2>1. thread[c].entry \in Entries /\ result[thread[c].entry] \in Answers
    BY <1>4, EntryKnown DEF IndInv, TypeInv, CheckResult, Answers
  <2>2. QED
    BY <1>4, <2>1, WaiterInv DEF CheckResult, Leading, Pcs
<1>5. ASSUME NEW c \in Callers, CheckPanicked(c) PROVE IndInv'
  BY <1>5, WaiterInv DEF CheckPanicked, Leading, Pcs, Answers
<1>6. ASSUME NEW c \in Callers, Park(c) PROVE IndInv'
  BY <1>6, WaiterInv DEF Park, Leading, Pcs, Answers
<1>7. CASE UNCHANGED vars
  BY <1>7 DEF vars, IndInv, TypeInv, LeadersAlone, LeadersListed, LeaderPhase, OneOutcome,
              UndecidedLed, Undecided, Leading
<1>8. QED
  BY <1>1, <1>2, <1>3, <1>4, <1>5, <1>6, <1>7, EnterInv, LoadReturnsInv, SetResultInv,
     LeaderPanicsInv, DropNotifyInv DEF Next, Step

\* The invariant holds in every behaviour of get_or_load.
THEOREM SyncInvariant == Spec => []IndInv
BY InitInv, NextInv, PTL DEF Spec

\* Every entry of the map has a leader that will take it out, for any number of
\* threads and keys, whatever loads panic.
THEOREM SyncEntryOwned == Spec => []EntryOwned
<1>1. IndInv => EntryOwned
  BY DEF IndInv, LeadersListed, EntryOwned
<1>2. QED
  BY <1>1, SyncInvariant, PTL
-------------------------------------------------------------------------------
(* The refinement *)

\* Somebody has entry e, which is what makes an undecided entry a running one.
Boarded(e) == \E c \in Callers : thread[c].entry = e

\* The outcomes are what they were when results and panics are, and when the
\* undecided entries that somebody has are the same.
LEMMA OutcomesKept ==
  ASSUME TypeInv, calls' \in Nat, UNCHANGED <<result, leader_panicked>>,
         \A e \in Entries : Undecided(e) =>
           (Boarded(e)' /\ e <= calls' <=> Boarded(e) /\ e <= calls)
  PROVE  OutcomeBar' = OutcomeBar
<1>1. \A e \in Entries : Outcome(e)' = Outcome(e)
  BY DEF Outcome, Undecided, Boarded
<1>2. QED
  BY <1>1 DEF OutcomeBar

\* One outcome changes.
LEMMA OutcomeChanged ==
  ASSUME NEW f \in Entries, \A e \in Entries \ {f} : Outcome(e)' = Outcome(e)
  PROVE  OutcomeBar' = [OutcomeBar EXCEPT ![f] = Outcome(f)']
BY DEF OutcomeBar

\* The calls are what they were.
LEMMA CallsKept ==
  ASSUME \A c \in Callers : /\ thread'[c].entry = thread[c].entry
                            /\ thread[c].entry = 0 => thread'[c].answer = thread[c].answer
  PROVE  CallBar' = CallBar
BY DEF CallBar

\* One call changes.
LEMMA CallChanged ==
  ASSUME NEW c \in Callers, \A d \in Callers \ {c} : thread'[d] = thread[d]
  PROVE  CallBar' = [CallBar EXCEPT ![c] =
           [flight |-> thread'[c].entry,
            answer |-> IF thread'[c].entry # 0 THEN "none" ELSE thread'[c].answer]]
BY DEF CallBar

\* What the promise sees of entries and calls.
LEMMA Seen ==
  /\ \A e \in Entries : OutcomeBar[e] = Outcome(e)
  /\ \A c \in Callers : CallBar[c].flight = thread[c].entry
BY DEF OutcomeBar, CallBar

\* Initially nothing is open, loaded or called.
LEMMA InitRefines == Init => Promise!Init
<1> SUFFICES ASSUME Init PROVE Promise!Init
  OBVIOUS
<1>1. \A e \in Entries : Outcome(e) = "none"
  BY DEF Init, Outcome, Entries
<1>2. OutcomeBar = [e \in Entries |-> "none"]
  BY <1>1 DEF OutcomeBar
<1>3. \A c \in Callers : thread[c].entry = 0 /\ thread[c].answer = "none"
  BY DEF Init
<1>4. CallBar = [c \in Callers |-> [flight |-> 0, answer |-> "none"]]
  BY <1>3 DEF CallBar
<1>5. QED
  BY <1>2, <1>4 DEF Init, Promise!Init

\* Enter boards the open flight, or opens one and starts its load.
LEMMA EnterRefines == ASSUME IndInv, NEW c \in Callers, Enter(c) PROVE Promise!Next
<1>1. PICK k \in Keys :
        LET fresh == in_flight[k] = 0
            e == IF fresh THEN calls + 1 ELSE in_flight[k]
        IN  /\ in_flight' = [in_flight EXCEPT ![k] = e]
            /\ thread' = [thread EXCEPT ![c] =
                           [pc |-> IF fresh THEN "load" ELSE "wait", key |-> k, entry |-> e,
                            answer |-> "none"]]
  BY DEF Enter
<1>2. /\ TypeInv /\ calls < MaxCalls /\ calls' = calls + 1 /\ calls \in Nat
      /\ thread[c].entry = 0 /\ UNCHANGED <<result, leader_panicked>>
  BY SingleFlightSyncAssumption DEF IndInv, TypeInv, Enter
<1>3. \A d \in Callers : thread[d].entry \in 0..calls
  BY <1>2 DEF TypeInv, Threads
<1>4. \A j \in Keys : in_flight[j] \in 0..calls
  BY <1>2 DEF TypeInv
<1>5. \A d \in Callers \ {c} : thread'[d] = thread[d]
  BY <1>1, <1>2 DEF TypeInv
<1>6. CallBar[c].flight = 0
  BY <1>2, Seen
<1>7. CASE in_flight[k] = 0
  <2>1. PICK f \in Entries : f = calls + 1
    BY <1>2, SingleFlightSyncAssumption DEF Entries
  <2>2. /\ in_flight' = [in_flight EXCEPT ![k] = f]
        /\ thread'[c].entry = f
    BY <1>1, <1>2, <1>7, <2>1 DEF TypeInv
  <2>3. \A j \in Keys : in_flight[j] # f
    BY <1>2, <1>4, <2>1
  <2>4. Undecided(f) /\ ~Boarded(f)
    BY <1>2, <1>3, <2>1 DEF IndInv, OneOutcome, Boarded
  <2>5. Outcome(f) = "none" /\ Outcome(f)' = "running"
    BY <1>2, <2>1, <2>2, <2>4 DEF Outcome, Undecided, Boarded
  <2>6. \A e \in Entries \ {f} : Outcome(e)' = Outcome(e)
    <3>1. ASSUME NEW e \in Entries \ {f}
          PROVE  /\ e <= calls' <=> e <= calls
                 /\ Boarded(e)' <=> Boarded(e)
      <4>1. e \in Nat /\ e # 0 /\ e # f
        BY <3>1, SingleFlightSyncAssumption DEF Entries
      <4>2. QED
        BY <4>1, <1>2, <1>5, <2>1, <2>2 DEF Boarded
    <3>2. QED
      BY <3>1, <1>2 DEF Outcome, Boarded
  <2>7. OutcomeBar' = [OutcomeBar EXCEPT ![f] = "running"]
    BY <2>1, <2>5, <2>6, OutcomeChanged
  <2>8. CallBar' = [CallBar EXCEPT ![c] = [flight |-> f, answer |-> "none"]]
    <3>1. f # 0
      BY <1>2, <2>1
    <3>2. QED
      BY <3>1, <1>5, <2>2, CallChanged
  <2>9. OutcomeBar[f] = "none"
    BY <2>1, <2>5, Seen
  <2>10. Promise!BoardAndStart(c, k)
    BY <1>6, <1>7, <2>1, <2>2, <2>3, <2>7, <2>8, <2>9 DEF Promise!BoardAndStart
  <2>11. QED
    BY <2>10 DEF Promise!Next
<1>8. CASE in_flight[k] # 0
  <2> DEFINE f == in_flight[k]
  <2>1. f \in Entries
    BY <1>2, <1>4, <1>8, SingleFlightSyncAssumption DEF TypeInv, Entries
  <2>2. /\ in_flight' = [in_flight EXCEPT ![k] = f]
        /\ thread'[c].entry = f
    BY <1>1, <1>2, <1>8 DEF TypeInv
  <2>3. PICK d \in Callers : Leading(d) /\ thread[d].entry = f
    BY <1>8 DEF IndInv, LeadersListed
  <2>4. \A e \in Entries : Boarded(e)' /\ e <= calls' <=> Boarded(e) /\ e <= calls
    <3>1. ASSUME NEW e \in Entries PROVE Boarded(e)' <=> Boarded(e)
      <4>1. e \in Nat /\ e # 0
        BY <3>1, SingleFlightSyncAssumption DEF Entries
      <4>2. Boarded(f)
        BY <2>3 DEF Boarded
      <4>3. CASE e = f
        BY <4>2, <4>3, <2>2 DEF Boarded
      <4>4. CASE e # f
        BY <4>1, <4>4, <1>2, <1>5, <2>2 DEF Boarded
      <4>5. QED
        BY <4>3, <4>4
    <3>2. ASSUME NEW e \in Entries, Boarded(e) PROVE e <= calls
      BY <3>2, <1>2, <1>3 DEF Boarded
    <3>3. \A e \in Entries : e <= calls => e <= calls'
      BY <1>2, SingleFlightSyncAssumption DEF Entries
    <3>4. QED
      BY <3>1, <3>2, <3>3
  <2>5. OutcomeBar' = OutcomeBar
    <3>1. calls' \in Nat
      BY <1>2
    <3>2. QED
      BY <3>1, <1>2, <2>4, OutcomesKept
  <2>6. CallBar' = [CallBar EXCEPT ![c] = [flight |-> f, answer |-> "none"]]
    BY <1>5, <1>8, <2>2, CallChanged
  <2>7. Promise!Board(c, k)
    BY <1>6, <1>8, <2>1, <2>2, <2>5, <2>6 DEF Promise!Board
  <2>8. QED
    BY <2>7 DEF Promise!Next
<1>9. QED
  BY <1>7, <1>8

\* A step that gives nobody an entry and decides none.
LEMMA MovesRefine ==
  ASSUME TypeInv, UNCHANGED <<in_flight, result, leader_panicked, calls>>,
         \A c \in Callers : /\ thread'[c].entry = thread[c].entry
                            /\ thread[c].entry = 0 => thread'[c].answer = thread[c].answer
  PROVE  UNCHANGED Promise!vars
<1>1. calls' \in Nat /\ \A e \in Entries : Boarded(e)' <=> Boarded(e)
  BY SingleFlightSyncAssumption DEF Boarded, TypeInv
<1>2. OutcomeBar' = OutcomeBar
  BY <1>1, OutcomesKept
<1>3. QED
  BY <1>2, CallsKept DEF Promise!vars

\* A thread whose entry is decided returns.
LEMMA ReturnSeen ==
  ASSUME TypeInv, NEW c \in Callers, NEW a \in Answers, thread[c].pc # "idle",
         ~Undecided(thread[c].entry), thread' = Idle(c, a),
         UNCHANGED <<result, leader_panicked, calls>>
  PROVE  /\ OutcomeBar' = OutcomeBar
         /\ CallBar' = [CallBar EXCEPT ![c] = [flight |-> 0, answer |-> a]]
<1>1. /\ thread'[c].entry = 0 /\ thread'[c].answer = a
      /\ \A d \in Callers \ {c} : thread'[d] = thread[d]
  BY IdleEffect
<1>2. ASSUME NEW e \in Entries, Undecided(e) PROVE Boarded(e)' <=> Boarded(e)
  <2>1. e # 0 /\ e # thread[c].entry
    BY <1>2, SingleFlightSyncAssumption DEF Entries
  <2>2. QED
    BY <1>1, <2>1 DEF Boarded
<1>3. calls' \in Nat
  BY SingleFlightSyncAssumption DEF TypeInv
<1>4. OutcomeBar' = OutcomeBar
  BY <1>2, <1>3, OutcomesKept
<1>5. QED
  BY <1>1, <1>4, CallChanged

\* A load ends with outcome o, whoever is woken by it.
LEMMA EndSeen ==
  ASSUME IndInv, NEW c \in Callers, NEW o \in {"ok", "err", "lost"},
         thread[c].pc \in {"load", "set"}, UNCHANGED <<in_flight, calls>>,
         \A d \in Callers : /\ thread'[d].entry = thread[d].entry
                            /\ thread[d].entry = 0 => thread'[d].answer = thread[d].answer,
         \A e \in Entries \ {thread[c].entry} :
           result'[e] = result[e] /\ (leader_panicked'[e] <=> leader_panicked[e]),
         Outcome(thread[c].entry)' = o
  PROVE  Promise!Next
<1>1. PICK f \in Entries : f = thread[c].entry
  BY EntryKnown DEF IndInv
<1>2. f <= calls /\ Undecided(f)
  BY <1>1 DEF IndInv, TypeInv, Threads, LeaderPhase
<1>3. OutcomeBar[f] = "running"
  <2>1. Outcome(f) = "running"
    BY <1>1, <1>2 DEF Outcome, Undecided
  <2>2. QED
    BY <2>1, Seen
<1>4. ASSUME NEW e \in Entries \ {f} PROVE Outcome(e)' = Outcome(e)
  BY <1>1, <1>4 DEF Outcome
<1>5. Outcome(f)' = o
  BY <1>1
<1>6. OutcomeBar' = [OutcomeBar EXCEPT ![f] = o]
  BY <1>4, <1>5, OutcomeChanged
<1>7. CallBar' = CallBar
  BY CallsKept
<1>8. Promise!End(f, o)
  BY <1>3, <1>6, <1>7 DEF Promise!End
<1>9. QED
  BY <1>8 DEF Promise!Next, Promise!Ended

\* set_result ends the load.
LEMMA SetResultRefines == ASSUME IndInv, NEW c \in Callers, SetResult(c) PROVE Promise!Next
<1>1. /\ TypeInv /\ thread[c].pc = "set" /\ thread[c].entry \in Entries
      /\ UNCHANGED <<in_flight, leader_panicked, calls>>
      /\ NotifyAll(c, "remove")
      /\ result' = [result EXCEPT ![thread[c].entry] = thread[c].answer]
  BY EntryKnown DEF IndInv, SetResult
<1>2. \A d \in Callers : /\ thread'[d].entry = thread[d].entry
                         /\ thread'[d].answer = thread[d].answer
  BY <1>1, NotifyAllEffect DEF Pcs
<1>3. PICK o \in {"ok", "err"} : o = thread[c].answer
  BY <1>1 DEF IndInv, LeaderPhase
<1>4. /\ result'[thread[c].entry] = o
      /\ \A e \in Entries \ {thread[c].entry} : result'[e] = result[e]
  BY <1>1, <1>3 DEF TypeInv
<1>5. Outcome(thread[c].entry)' = o
  BY <1>2, <1>4 DEF Outcome
<1>6. QED
  BY <1>1, <1>2, <1>4, <1>5, EndSeen

\* A panic ends the load: it is lost.
LEMMA LeaderPanicsRefines ==
  ASSUME IndInv, NEW c \in Callers, LeaderPanics(c) PROVE Promise!Next
<1>1. /\ TypeInv /\ thread[c].pc = "load" /\ thread[c].entry \in Entries
      /\ UNCHANGED <<in_flight, result, calls>>
      /\ To(c, "dropNotify")
      /\ leader_panicked' = [leader_panicked EXCEPT ![thread[c].entry] = TRUE]
  BY EntryKnown DEF IndInv, LeaderPanics
<1>2. \A d \in Callers : /\ thread'[d].entry = thread[d].entry
                         /\ thread'[d].answer = thread[d].answer
  BY <1>1 DEF To, TypeInv, Threads
<1>3. /\ leader_panicked'[thread[c].entry]
      /\ \A e \in Entries \ {thread[c].entry} : leader_panicked'[e] = leader_panicked[e]
  BY <1>1 DEF TypeInv
<1>4. result'[thread[c].entry] = "none"
  BY <1>1 DEF IndInv, LeaderPhase, Undecided
<1>5. Outcome(thread[c].entry)' = "lost"
  BY <1>2, <1>3, <1>4 DEF Outcome
<1>6. QED
  BY <1>1, <1>2, <1>3, <1>5, EndSeen

\* The leader of a decided entry closes it and returns its outcome.
LEMMA LeaderLeavesRefines ==
  ASSUME IndInv, NEW c \in Callers, Remove(c) \/ DropRemove(c) PROVE Promise!Next
<1>1. /\ TypeInv /\ thread[c].pc \in {"remove", "dropRemove"}
      /\ thread[c].entry \in Entries /\ thread[c].key \in Keys
      /\ in_flight' = [in_flight EXCEPT ![thread[c].key] = 0]
      /\ UNCHANGED <<result, leader_panicked, calls>>
  BY EntryKnown DEF IndInv, Remove, DropRemove
<1>2. in_flight[thread[c].key] = thread[c].entry /\ thread[c].entry # 0
  BY <1>1, SingleFlightSyncAssumption DEF IndInv, LeadersListed, Leading, Entries
<1>3. PICK a \in {"ok", "err", "lost"} : thread' = Idle(c, a) /\ Outcome(thread[c].entry) = a
  <2>1. CASE Remove(c)
    <3>1. thread[c].answer \in {"ok", "err"} /\ result[thread[c].entry] = thread[c].answer
      BY <2>1 DEF IndInv, LeaderPhase, Remove
    <3>2. QED
      BY <2>1, <3>1 DEF Remove, Outcome
  <2>2. CASE DropRemove(c)
    <3>1. leader_panicked[thread[c].entry] /\ result[thread[c].entry] = "none"
      BY <1>1, <2>2 DEF IndInv, LeaderPhase, OneOutcome, DropRemove
    <3>2. QED
      BY <2>2, <3>1 DEF DropRemove, Outcome
  <2>3. QED
    BY <2>1, <2>2
<1>4. ~Undecided(thread[c].entry)
  BY <1>3 DEF Outcome, Undecided
<1>5. /\ OutcomeBar' = OutcomeBar
      /\ CallBar' = [CallBar EXCEPT ![c] = [flight |-> 0, answer |-> a]]
  BY <1>1, <1>3, <1>4, ReturnSeen DEF Answers
<1>6. OutcomeBar[thread[c].entry] = a /\ CallBar[c].flight = thread[c].entry
  BY <1>1, <1>3, Seen
<1>7. Promise!CloseAndReturn(c, thread[c].key)
  BY <1>1, <1>2, <1>5, <1>6
     DEF Promise!CloseAndReturn, Promise!Close, Promise!Answer, Promise!Ended
<1>8. QED
  BY <1>1, <1>7 DEF Promise!Next

\* A waiter that finds its entry decided returns the outcome.
LEMMA WaiterReturnsRefines ==
  ASSUME IndInv, NEW c \in Callers, thread[c].pc # "idle",
         NEW a \in {"ok", "err", "lost"}, Outcome(thread[c].entry) = a,
         thread' = Idle(c, a), UNCHANGED <<in_flight, result, leader_panicked, calls>>
  PROVE  Promise!Next
<1>1. TypeInv /\ thread[c].entry \in Entries /\ thread[c].entry # 0
  BY EntryKnown, SingleFlightSyncAssumption DEF IndInv, Entries
<1>2. ~Undecided(thread[c].entry)
  BY DEF Outcome, Undecided
<1>3. /\ OutcomeBar' = OutcomeBar
      /\ CallBar' = [CallBar EXCEPT ![c] = [flight |-> 0, answer |-> a]]
  BY <1>1, <1>2, ReturnSeen DEF Answers
<1>4. OutcomeBar[thread[c].entry] = a /\ CallBar[c].flight = thread[c].entry
  BY <1>1, Seen
<1>5. Promise!Return(c)
  BY <1>1, <1>3, <1>4 DEF Promise!Return, Promise!Answer, Promise!Ended
<1>6. QED
  BY <1>5 DEF Promise!Next

\* Every step of the code is a step of the promise, or one it does not see.
LEMMA NextRefines == IndInv /\ [Next]_vars => [Promise!Next]_(Promise!vars)
<1> SUFFICES ASSUME IndInv, [Next]_vars PROVE Promise!Next \/ UNCHANGED Promise!vars
  OBVIOUS
<1>1. TypeInv
  BY DEF IndInv
<1>2. ASSUME NEW c \in Callers, NEW r \in {"ok", "err"}, LoadReturns(c, r)
      PROVE  UNCHANGED Promise!vars
  <2>1. /\ thread[c].entry # 0 /\ \A d \in Callers \ {c} : thread'[d] = thread[d]
        /\ thread'[c].entry = thread[c].entry
        /\ UNCHANGED <<in_flight, result, leader_panicked, calls>>
    BY <1>1, <1>2 DEF LoadReturns, TypeInv, Threads
  <2>2. QED
    BY <1>1, <2>1, MovesRefine
<1>3. ASSUME NEW c \in Callers, DropNotify(c) PROVE UNCHANGED Promise!vars
  BY <1>1, <1>3, NotifyAllEffect, MovesRefine DEF DropNotify, Pcs
<1>4. ASSUME NEW c \in Callers, NEW pc \in Pcs, To(c, pc),
             UNCHANGED <<in_flight, result, leader_panicked, calls>>
      PROVE  UNCHANGED Promise!vars
  <2>1. \A d \in Callers : /\ thread'[d].entry = thread[d].entry
                           /\ thread'[d].answer = thread[d].answer
    BY <1>1, <1>4 DEF To, TypeInv, Threads
  <2>2. QED
    BY <1>1, <1>4, <2>1, MovesRefine
<1>5. ASSUME NEW c \in Callers, Lock(c) \/ Park(c) PROVE UNCHANGED Promise!vars
  BY <1>4, <1>5 DEF Lock, Park, Pcs
<1>6. ASSUME NEW c \in Callers, CheckResult(c) PROVE Promise!Next \/ UNCHANGED Promise!vars
  <2>1. thread[c].pc # "idle" /\ UNCHANGED <<in_flight, result, leader_panicked, calls>>
    BY <1>6 DEF CheckResult
  <2>2. CASE result[thread[c].entry] = "none"
    BY <1>4, <1>6, <2>1, <2>2 DEF CheckResult, Pcs
  <2>3. CASE result[thread[c].entry] # "none"
    <3>1. PICK a \in {"ok", "err"} : a = result[thread[c].entry]
      BY <1>1, <2>1, <2>3, EntryKnown DEF TypeInv
    <3>2. Outcome(thread[c].entry) = a
      BY <3>1 DEF Outcome
    <3>3. thread' = Idle(c, a)
      BY <1>6, <2>3, <3>1 DEF CheckResult
    <3>4. QED
      BY <2>1, <3>2, <3>3, WaiterReturnsRefines
  <2>4. QED
    BY <2>2, <2>3
<1>7. ASSUME NEW c \in Callers, CheckPanicked(c) PROVE Promise!Next \/ UNCHANGED Promise!vars
  <2>1. thread[c].pc # "idle" /\ UNCHANGED <<in_flight, result, leader_panicked, calls>>
    BY <1>7 DEF CheckPanicked
  <2>2. CASE leader_panicked[thread[c].entry]
    <3>1. result[thread[c].entry] = "none"
      BY <1>1, <2>1, <2>2, EntryKnown DEF IndInv, OneOutcome
    <3>2. Outcome(thread[c].entry) = "lost"
      BY <2>2, <3>1 DEF Outcome
    <3>3. thread' = Idle(c, "lost")
      BY <1>7, <2>2 DEF CheckPanicked
    <3>4. QED
      BY <2>1, <3>2, <3>3, WaiterReturnsRefines
  <2>3. CASE ~leader_panicked[thread[c].entry]
    BY <1>4, <1>7, <2>1, <2>3 DEF CheckPanicked, Pcs
  <2>4. QED
    BY <2>2, <2>3
<1>8. CASE UNCHANGED vars
  BY <1>1, <1>8, MovesRefine DEF vars
<1>9. QED
  BY <1>2, <1>3, <1>5, <1>6, <1>7, <1>8, EnterRefines, SetResultRefines,
     LeaderPanicsRefines, LeaderLeavesRefines DEF Next, Step

\* SingleFlightSync implements the promise: entries of one key never overlap,
\* and a call ends with the outcome of the entry that it entered.
THEOREM SyncKeepsPromise == Spec => KeepsPromise
<1>1. Promise!Init /\ [][Promise!Next]_(Promise!vars) => KeepsPromise
  BY DEF KeepsPromise, Promise!Spec
<1>2. QED
  BY <1>1, InitRefines, NextRefines, SyncInvariant, PTL DEF Spec
===============================================================================

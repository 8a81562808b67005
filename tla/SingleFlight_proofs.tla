------------------------- MODULE SingleFlight_proofs -------------------------
(***************************************************************************)
(* SingleFlight for any keys, tasks and number of calls: its types, one    *)
(* load per key, every entry in the map owned, and the implementation of   *)
(* SingleFlightSpec.                                                       *)
(*                                                                         *)
(* All rest on one invariant.  A waiter count stays within the calls that  *)
(* could have raised it; a leader is alone with its entry, which is the    *)
(* one in the map, and where it is tells what has become of its load; a    *)
(* caller that is about to be the first counted finds its entry in the     *)
(* map; and a woken waiter's entry is not being loaded, so that an empty   *)
(* cell and a free key really mean that the load was lost.                 *)
(***************************************************************************)
EXTENDS SingleFlight, FiniteSetTheorems, TLAPS

Answers == {"none", "ok", "err", "lost"}
Tasks(n) == [pc : Pcs, key : Keys, entry : 0..n, answer : Answers]

\* The callers that hold entry e and are not counted yet.
Uncounted(e) == {c \in Callers : task[c].entry = e /\ task[c].pc = "joined"}

\* A load of entry e is under way, or its result is about to be stored.
Loading(e) == \E c \in Callers : task[c].entry = e /\ task[c].pc \in {"load", "set"}

\* The types, but for the bound of the waiter counts.
TypeInv ==
  /\ in_flight \in [Keys -> 0..calls]
  /\ waiter_count \in [Entries -> Nat]
  /\ result \in [Entries -> {"none", "ok", "err"}]
  /\ task \in [Callers -> Tasks(calls)]
  /\ \A c \in Callers : task[c].entry = 0 <=> task[c].pc = "idle"
  /\ calls \in 0..MaxCalls

\* No call is counted twice: the counted and the uncounted calls of an entry
\* are at most the calls that were made.
CountBound == \A e \in Entries : waiter_count[e] + Cardinality(Uncounted(e)) <= calls

\* An entry is in the map under one key, and it has its leader, or a caller
\* that is about to be.
EntriesOwned ==
  /\ \A j, k \in Keys : in_flight[j] # 0 /\ in_flight[j] = in_flight[k] => j = k
  /\ \A k \in Keys : in_flight[k] # 0 =>
       \E c \in Callers :
         /\ task[c].entry = in_flight[k] /\ task[c].key = k
         /\ IF waiter_count[in_flight[k]] = 0 THEN task[c].pc = "joined" ELSE Leading(c)

\* A leader is alone with its entry, and so is the key.
LeadersAlone ==
  \A c \in Callers : Leading(c) =>
    /\ in_flight[task[c].key] = task[c].entry
    /\ \A d \in Callers : Leading(d) /\ task[c].entry = task[d].entry => c = d

\* Where a leader is tells what has become of its load.
LeaderPhase ==
  \A c \in Callers :
    /\ task[c].pc \in {"load", "set", "dropNotify", "dropRemove"} =>
         result[task[c].entry] = "none"
    /\ task[c].pc \in {"set", "notify", "remove"} => task[c].answer \in {"ok", "err"}
    /\ task[c].pc \in {"notify", "remove"} => result[task[c].entry] = task[c].answer

\* Whoever is past add_waiter was counted; whoever is not, on an entry that
\* nobody was counted on, finds that entry in the map.
Counted ==
  \A c \in Callers :
    /\ task[c].pc \notin {"idle", "joined"} => waiter_count[task[c].entry] # 0
    /\ task[c].pc = "joined" /\ waiter_count[task[c].entry] = 0 =>
         in_flight[task[c].key] = task[c].entry

\* Nothing became of an entry that nobody was counted on.
NothingYet ==
  \A e \in Entries : /\ waiter_count[e] = 0 => result[e] = "none"
                     /\ e > calls => waiter_count[e] = 0

\* A waiter is woken when the load is over; an empty cell stays empty then.
WokenLate ==
  \A c \in Callers :
    /\ task[c].pc \in {"woken", "empty"} => ~Loading(task[c].entry)
    /\ task[c].pc = "empty" => result[task[c].entry] = "none"

IndInv ==
  /\ TypeInv /\ CountBound /\ EntriesOwned /\ LeadersAlone /\ LeaderPhase /\ Counted
  /\ NothingYet /\ WokenLate

-------------------------------------------------------------------------------
(* The invariant *)

\* No call has begun: nothing to keep.
LEMMA InitInv == Init => IndInv
<1> SUFFICES ASSUME Init PROVE IndInv
  OBVIOUS
<1>1. \A c \in Callers : task[c].pc = "idle" /\ task[c].entry = 0
  BY DEF Init
<1>2. TypeInv
  <2>1. task \in [Callers -> Tasks(0)]
    BY DEF Init, Tasks, Pcs, Answers
  <2>2. QED
    BY <1>1, <2>1, SingleFlightAssumption DEF Init, TypeInv
<1>3. CountBound
  <2>1. \A e \in Entries : Uncounted(e) = {}
    BY <1>1 DEF Uncounted
  <2>2. \A e \in Entries : Cardinality(Uncounted(e)) = 0
    BY <2>1, FS_EmptySet
  <2>3. QED
    BY <2>2 DEF CountBound, Init
<1>4. LeadersAlone /\ LeaderPhase /\ Counted /\ WokenLate
  BY <1>1 DEF LeadersAlone, LeaderPhase, Counted, WokenLate, Leading
<1>5. EntriesOwned /\ NothingYet
  BY DEF Init, EntriesOwned, NothingYet
<1>6. QED
  BY <1>2, <1>3, <1>4, <1>5 DEF IndInv

\* The entry of a call under way.
LEMMA EntryKnown ==
  ASSUME TypeInv, NEW c \in Callers, task[c].pc # "idle"
  PROVE  task[c].entry \in Entries /\ task[c].key \in Keys /\ task[c] \in Tasks(calls)
BY SingleFlightAssumption DEF TypeInv, Tasks, Entries

\* The bound of the counts is kept by a step that counts nobody.
LEMMA CountKept ==
  ASSUME CountBound, UNCHANGED <<waiter_count, calls>>,
         \A c \in Callers : /\ task'[c].pc = "joined" <=> task[c].pc = "joined"
                            /\ task[c].pc = "joined" => task'[c].entry = task[c].entry
  PROVE  CountBound'
<1>1. \A e \in Entries : Uncounted(e)' = Uncounted(e)
  BY DEF Uncounted
<1>2. QED
  BY <1>1 DEF CountBound

\* A caller takes a clone of the entry of its key, or inserts one.
LEMMA JoinInv == ASSUME IndInv, NEW c \in Callers, Join(c) PROVE IndInv'
<1>1. PICK k \in Keys :
        LET e == IF in_flight[k] = 0 THEN calls + 1 ELSE in_flight[k]
        IN  /\ in_flight' = [in_flight EXCEPT ![k] = e]
            /\ task' = [task EXCEPT ![c] = [pc |-> "joined", key |-> k, entry |-> e,
                                            answer |-> "none"]]
  BY DEF Join
<1>2. /\ TypeInv /\ calls < MaxCalls /\ calls' = calls + 1 /\ calls \in Nat
      /\ task[c].pc = "idle" /\ task[c].entry = 0 /\ UNCHANGED <<waiter_count, result>>
  BY SingleFlightAssumption DEF IndInv, TypeInv, Join
<1>3. in_flight[k] \in 0..calls
  BY <1>2 DEF TypeInv
<1>4. PICK f \in Entries : f = IF in_flight[k] = 0 THEN calls + 1 ELSE in_flight[k]
  BY <1>2, <1>3, SingleFlightAssumption DEF Entries
<1>5. /\ in_flight' = [in_flight EXCEPT ![k] = f]
      /\ task' = [task EXCEPT ![c] = [pc |-> "joined", key |-> k, entry |-> f,
                                      answer |-> "none"]]
  BY <1>1, <1>4
<1>6. /\ \A d \in Callers \ {c} : task'[d] = task[d]
      /\ task'[c].pc = "joined" /\ task'[c].key = k /\ task'[c].entry = f
  BY <1>2, <1>5 DEF TypeInv
<1>7. in_flight'[k] = f /\ \A j \in Keys \ {k} : in_flight'[j] = in_flight[j]
  BY <1>2, <1>5 DEF TypeInv
<1>8. f \in Nat /\ f # 0 /\ f <= calls'
  BY <1>2, <1>3, <1>4
<1>9. in_flight[k] = 0 => /\ f = calls + 1 /\ waiter_count[f] = 0 /\ result[f] = "none"
                          /\ \A j \in Keys : in_flight[j] # f
  BY <1>2, <1>4 DEF IndInv, NothingYet, TypeInv
<1>10. in_flight[k] # 0 => f = in_flight[k]
  BY <1>4
<1>11. \A d \in Callers : Leading(d)' <=> Leading(d)
  BY <1>2, <1>6 DEF Leading
<1>12. \A j \in Keys : in_flight[j] # 0 => in_flight'[j] = in_flight[j]
  BY <1>7, <1>10
<1>13. TypeInv'
  <2>1. task' \in [Callers -> Tasks(calls')]
    BY <1>2, <1>5, <1>8 DEF TypeInv, Tasks, Pcs, Answers
  <2>2. in_flight' \in [Keys -> 0..calls']
    BY <1>2, <1>5, <1>8 DEF TypeInv
  <2>3. \A d \in Callers : task'[d].entry = 0 <=> task'[d].pc = "idle"
    BY <1>2, <1>6, <1>8 DEF TypeInv
  <2>4. QED
    BY <1>2, <2>1, <2>2, <2>3, SingleFlightAssumption DEF TypeInv
<1>14. CountBound'
  <2>1. ASSUME NEW e \in Entries
        PROVE  waiter_count[e] + Cardinality(Uncounted(e)') <= calls + 1
    <3>1. IsFiniteSet(Uncounted(e))
      BY SingleFlightAssumption, FS_Subset DEF Uncounted
    <3>2. Uncounted(e)' = Uncounted(e) \/ Uncounted(e)' = Uncounted(e) \cup {c}
      BY <1>2, <1>6 DEF Uncounted
    <3>3. /\ Cardinality(Uncounted(e)) \in Nat
          /\ Cardinality(Uncounted(e) \cup {c}) = Cardinality(Uncounted(e)) + 1
      <4>1. c \notin Uncounted(e)
        BY <1>2 DEF Uncounted
      <4>2. Cardinality(Uncounted(e)) \in Nat
        BY <3>1, FS_CardinalityType
      <4>3. Cardinality(Uncounted(e) \cup {c}) = Cardinality(Uncounted(e)) + 1
        BY <3>1, <4>1, FS_AddElement
      <4>4. QED
        BY <4>2, <4>3
    <3>4. waiter_count[e] \in Nat /\ waiter_count[e] + Cardinality(Uncounted(e)) <= calls
      BY <1>2 DEF IndInv, CountBound, TypeInv
    <3>5. CASE Uncounted(e)' = Uncounted(e)
      BY <3>3, <3>4, <3>5, <1>2
    <3>6. CASE Uncounted(e)' = Uncounted(e) \cup {c}
      <4>1. Cardinality(Uncounted(e)') = Cardinality(Uncounted(e)) + 1
        BY <3>3, <3>6
      <4>2. QED
        BY <3>3, <3>4, <4>1, <1>2
    <3>7. QED
      BY <3>2, <3>5, <3>6
  <2>2. QED
    BY <2>1, <1>2 DEF CountBound
<1>15. EntriesOwned'
  <2>1. \A i, j \in Keys : in_flight'[i] # 0 /\ in_flight'[i] = in_flight'[j] => i = j
    BY <1>7, <1>9, <1>10 DEF IndInv, EntriesOwned
  <2>2. ASSUME NEW j \in Keys, in_flight[j] # 0
        PROVE  \E d \in Callers :
                 /\ task'[d].entry = in_flight'[j] /\ task'[d].key = j
                 /\ IF waiter_count[in_flight'[j]] = 0 THEN task'[d].pc = "joined"
                                                       ELSE Leading(d)'
    <3>1. PICK d \in Callers :
            /\ task[d].entry = in_flight[j] /\ task[d].key = j
            /\ IF waiter_count[in_flight[j]] = 0 THEN task[d].pc = "joined" ELSE Leading(d)
      BY <2>2 DEF IndInv, EntriesOwned
    <3>2. task'[d] = task[d] /\ in_flight'[j] = in_flight[j]
      BY <2>2, <3>1, <1>2, <1>6, <1>12
    <3>3. QED
      BY <3>1, <3>2, <1>11
  <2>3. CASE in_flight[k] = 0
    BY <2>1, <2>2, <2>3, <1>2, <1>6, <1>7, <1>9 DEF EntriesOwned
  <2>4. CASE in_flight[k] # 0
    BY <2>1, <2>2, <2>4, <1>2, <1>7 DEF EntriesOwned
  <2>5. QED
    BY <2>3, <2>4
<1>16. LeadersAlone'
  <2>1. ASSUME NEW d \in Callers, Leading(d)
        PROVE  /\ task'[d] = task[d] /\ task[d].entry # 0 /\ task[d].key \in Keys
               /\ in_flight'[task[d].key] = task[d].entry
    <3>1. task'[d] = task[d]
      BY <2>1, <1>2, <1>6 DEF Leading
    <3>2. task[d].entry # 0 /\ task[d].key \in Keys
      BY <2>1, <1>2, EntryKnown, SingleFlightAssumption DEF Leading, Entries
    <3>3. QED
      BY <2>1, <3>1, <3>2, <1>12 DEF IndInv, LeadersAlone
  <2>2. QED
    BY <2>1, <1>11 DEF IndInv, LeadersAlone
<1>17. LeaderPhase'
  BY <1>2, <1>6 DEF IndInv, LeaderPhase
<1>18. Counted'
  <2>1. ASSUME NEW d \in Callers \ {c}, task[d].pc = "joined", waiter_count[task[d].entry] = 0
        PROVE  in_flight'[task[d].key] = task[d].entry
    <3>1. in_flight[task[d].key] = task[d].entry /\ task[d].entry # 0 /\ task[d].key \in Keys
      BY <2>1, <1>2, EntryKnown, SingleFlightAssumption DEF IndInv, Counted, Entries
    <3>2. QED
      BY <3>1, <1>12
  <2>2. QED
    BY <2>1, <1>2, <1>6, <1>7 DEF IndInv, Counted
<1>19. NothingYet'
  BY <1>2 DEF IndInv, NothingYet, Entries
<1>20. WokenLate'
  <2>1. \A e \in Nat : Loading(e)' => Loading(e)
    BY <1>6 DEF Loading
  <2>2. QED
    BY <2>1, <1>2, <1>6 DEF IndInv, WokenLate, TypeInv, Tasks
<1>21. QED
  BY <1>13, <1>14, <1>15, <1>16, <1>17, <1>18, <1>19, <1>20 DEF IndInv

\* To(c, pc): who goes where.
LEMMA ToEffect ==
  ASSUME TypeInv, NEW c \in Callers, NEW pc \in Pcs, To(c, pc)
  PROVE  /\ task' \in [Callers -> Tasks(calls)]
         /\ task'[c].pc = pc /\ task'[c].entry = task[c].entry
         /\ task'[c].key = task[c].key /\ task'[c].answer = task[c].answer
         /\ \A d \in Callers \ {c} : task'[d] = task[d]
BY DEF To, TypeInv, Tasks

\* A caller is counted: the first leads, the others wait.
LEMMA AddWaiterInv == ASSUME IndInv, NEW c \in Callers, AddWaiter(c) PROVE IndInv'
<1>1. /\ TypeInv /\ task[c].pc = "joined" /\ UNCHANGED <<in_flight, result, calls>>
  BY DEF IndInv, AddWaiter
<1>2. PICK f \in Entries : f = task[c].entry
  BY <1>1, EntryKnown
<1>3. PICK k \in Keys : k = task[c].key
  BY <1>1, EntryKnown
<1>4. PICK pc \in {"load", "register"} :
        To(c, pc) /\ pc = IF waiter_count[f] = 0 THEN "load" ELSE "register"
  BY <1>2 DEF AddWaiter
<1>5. /\ task' \in [Callers -> Tasks(calls)]
      /\ task'[c].pc = pc /\ task'[c].entry = f /\ task'[c].key = k
      /\ \A d \in Callers \ {c} : task'[d] = task[d]
  BY <1>1, <1>2, <1>3, <1>4, ToEffect DEF Pcs
<1>6. /\ waiter_count' = [waiter_count EXCEPT ![f] = @ + 1]
      /\ waiter_count[f] \in Nat
  BY <1>1, <1>2 DEF AddWaiter, TypeInv
<1>7. /\ waiter_count' \in [Entries -> Nat]
      /\ waiter_count'[f] = waiter_count[f] + 1 /\ waiter_count'[f] # 0
      /\ \A e \in Entries \ {f} : waiter_count'[e] = waiter_count[e]
  BY <1>1, <1>6 DEF TypeInv
<1>8. f \in Nat /\ f # 0 /\ f <= calls
  BY <1>1, <1>2, SingleFlightAssumption DEF TypeInv, Tasks, Entries
<1>9. TypeInv'
  <2>1. \A d \in Callers : task'[d].entry = 0 <=> task'[d].pc = "idle"
    BY <1>1, <1>4, <1>5, <1>8 DEF TypeInv
  <2>2. QED
    BY <2>1, <1>1, <1>5, <1>7 DEF TypeInv
<1>10. CountBound'
  <2>1. ASSUME NEW e \in Entries
        PROVE  waiter_count'[e] + Cardinality(Uncounted(e)') <= calls
    <3>1. waiter_count[e] + Cardinality(Uncounted(e)) <= calls
      BY DEF IndInv, CountBound
    <3>2. CASE e # f
      <4>1. Uncounted(e)' = Uncounted(e)
        BY <3>2, <1>1, <1>2, <1>4, <1>5 DEF Uncounted
      <4>2. QED
        BY <3>1, <3>2, <4>1, <1>7
    <3>3. CASE e = f
      <4>1. Uncounted(e)' = Uncounted(e) \ {c} /\ c \in Uncounted(e)
        BY <3>3, <1>1, <1>2, <1>4, <1>5 DEF Uncounted
      <4>2. IsFiniteSet(Uncounted(e))
        BY SingleFlightAssumption, FS_Subset DEF Uncounted
      <4>3. Cardinality(Uncounted(e)) \in Nat
        BY <4>2, FS_CardinalityType
      <4>4. Cardinality(Uncounted(e)') = Cardinality(Uncounted(e)) - 1
        BY <4>1, <4>2, FS_RemoveElement
      <4>5. QED
        BY <3>1, <3>3, <4>3, <4>4, <1>1, <1>6, <1>7 DEF TypeInv
    <3>4. QED
      BY <3>2, <3>3
  <2>2. QED
    BY <2>1, <1>1 DEF CountBound
<1>11. LeaderPhase'
  <2>1. waiter_count[f] = 0 => result[f] = "none"
    BY DEF IndInv, NothingYet
  <2>2. QED
    BY <2>1, <1>1, <1>4, <1>5 DEF IndInv, LeaderPhase
<1>12. Counted'
  <2>1. ASSUME NEW d \in Callers \ {c}, task[d].pc # "idle"
        PROVE  /\ task[d].entry \in Entries
               /\ waiter_count'[task[d].entry] = 0 => waiter_count[task[d].entry] = 0
    BY <2>1, <1>1, <1>7, EntryKnown
  <2>2. QED
    BY <2>1, <1>1, <1>4, <1>5, <1>7 DEF IndInv, Counted
<1>13. NothingYet'
  BY <1>1, <1>7, <1>8 DEF IndInv, NothingYet, TypeInv, Entries
<1>14. CASE waiter_count[f] = 0
  <2>1. /\ pc = "load" /\ in_flight[k] = f
        /\ \A d \in Callers : task[d].entry = f => task[d].pc \in {"idle", "joined"}
    BY <1>1, <1>2, <1>3, <1>4, <1>14 DEF IndInv, Counted
  <2>2. EntriesOwned'
    <3>1. ASSUME NEW j \in Keys, j # k, in_flight[j] # 0
          PROVE  \E d \in Callers :
                   /\ task'[d].entry = in_flight[j] /\ task'[d].key = j
                   /\ IF waiter_count'[in_flight[j]] = 0 THEN task'[d].pc = "joined"
                                                         ELSE Leading(d)'
      <4>1. in_flight[j] \in Entries /\ in_flight[j] # f
        BY <3>1, <2>1, <1>1, <1>8, SingleFlightAssumption
           DEF IndInv, EntriesOwned, TypeInv, Entries
      <4>2. PICK d \in Callers :
              /\ task[d].entry = in_flight[j] /\ task[d].key = j
              /\ IF waiter_count[in_flight[j]] = 0 THEN task[d].pc = "joined" ELSE Leading(d)
        BY <3>1 DEF IndInv, EntriesOwned
      <4>3. task'[d] = task[d]
        BY <4>1, <4>2, <1>2, <1>5
      <4>4. QED
        BY <4>1, <4>2, <4>3, <1>7 DEF Leading
    <3>2. QED
      BY <3>1, <2>1, <1>1, <1>5, <1>7 DEF IndInv, EntriesOwned, Leading
  <2>3. LeadersAlone'
    BY <2>1, <1>1, <1>5 DEF IndInv, LeadersAlone, Leading
  <2>4. WokenLate'
    <3>1. \A e \in Nat : Loading(e)' => Loading(e) \/ e = f
      BY <1>5 DEF Loading
    <3>2. QED
      BY <3>1, <2>1, <1>1, <1>5 DEF IndInv, WokenLate, TypeInv, Tasks
  <2>5. QED
    BY <2>2, <2>3, <2>4, <1>9, <1>10, <1>11, <1>12, <1>13 DEF IndInv
<1>15. CASE waiter_count[f] # 0
  <2>1. pc = "register" /\ ~Leading(c) /\ ~Leading(c)'
    BY <1>1, <1>4, <1>5, <1>15 DEF Leading
  <2>2. EntriesOwned'
    <3>1. ASSUME NEW j \in Keys, in_flight[j] # 0
          PROVE  \E d \in Callers :
                   /\ task'[d].entry = in_flight[j] /\ task'[d].key = j
                   /\ IF waiter_count'[in_flight[j]] = 0 THEN task'[d].pc = "joined"
                                                         ELSE Leading(d)'
      <4>1. in_flight[j] \in Entries
        BY <3>1, <1>1, SingleFlightAssumption DEF TypeInv, Entries
      <4>2. PICK d \in Callers :
              /\ task[d].entry = in_flight[j] /\ task[d].key = j
              /\ IF waiter_count[in_flight[j]] = 0 THEN task[d].pc = "joined" ELSE Leading(d)
        BY <3>1 DEF IndInv, EntriesOwned
      <4>3. task'[d] = task[d]
        BY <4>2, <2>1, <1>2, <1>5, <1>15
      <4>4. waiter_count'[in_flight[j]] = 0 <=> waiter_count[in_flight[j]] = 0
        BY <4>1, <1>7, <1>15
      <4>5. QED
        BY <4>2, <4>3, <4>4 DEF Leading
    <3>2. QED
      BY <3>1, <1>1 DEF IndInv, EntriesOwned
  <2>3. LeadersAlone'
    BY <2>1, <1>1, <1>5 DEF IndInv, LeadersAlone, Leading
  <2>4. WokenLate'
    <3>1. \A e \in Nat : Loading(e)' => Loading(e)
      BY <2>1, <1>5 DEF Loading
    <3>2. QED
      BY <3>1, <2>1, <1>1, <1>5 DEF IndInv, WokenLate, TypeInv, Tasks
  <2>5. QED
    BY <2>2, <2>3, <2>4, <1>9, <1>10, <1>11, <1>12, <1>13 DEF IndInv
<1>16. QED
  BY <1>14, <1>15

\* A leader goes on in its path.  It may wake waiters of its entry once it no
\* longer loads, and only its storing of the result touches the cell.
LEMMA LeaderMoves ==
  ASSUME IndInv, NEW c \in Callers, Leading(c), Leading(c)',
         UNCHANGED <<in_flight, waiter_count, calls>>,
         task' \in [Callers -> Tasks(calls)],
         task'[c].entry = task[c].entry, task'[c].key = task[c].key,
         task'[c].pc \in {"load", "set"} => task[c].pc \in {"load", "set"},
         \A d \in Callers \ {c} :
           \/ task'[d] = task[d]
           \/ /\ task[d].pc = "waiting" /\ task'[d].pc = "woken"
              /\ task'[d].entry = task[d].entry /\ task'[d].key = task[d].key
              /\ task[d].entry = task[c].entry /\ task'[c].pc \notin {"load", "set"},
         result' \in [Entries -> {"none", "ok", "err"}],
         \A e \in Entries \ {task[c].entry} : result'[e] = result[e],
         task[c].pc # "set" => result'[task[c].entry] = result[task[c].entry],
         task'[c].pc \in {"load", "set", "dropNotify", "dropRemove"} =>
           result'[task[c].entry] = "none",
         task'[c].pc \in {"set", "notify", "remove"} => task'[c].answer \in {"ok", "err"},
         task'[c].pc \in {"notify", "remove"} => result'[task[c].entry] = task'[c].answer
  PROVE  IndInv'
<1>1. TypeInv /\ task[c].pc # "idle" /\ task'[c].pc # "idle"
  BY DEF IndInv, Leading
<1>2. \A d \in Callers : task'[d].entry = task[d].entry /\ task'[d].key = task[d].key
  OBVIOUS
<1>3. \A d \in Callers : Leading(d)' <=> Leading(d)
  BY DEF Leading
<1>4. ASSUME NEW d \in Callers \ {c}, Leading(d)
      PROVE  /\ task'[d] = task[d] /\ task[d].entry \in Entries
             /\ task[d].entry # task[c].entry /\ result'[task[d].entry] = result[task[d].entry]
  <2>1. task'[d] = task[d] /\ task[d].entry \in Entries
    BY <1>1, <1>4, EntryKnown DEF Leading
  <2>2. task[d].entry # task[c].entry
    BY <1>4 DEF IndInv, LeadersAlone
  <2>3. QED
    BY <2>1, <2>2
<1>5. TypeInv'
  <2>1. \A d \in Callers : task'[d].entry = 0 <=> task'[d].pc = "idle"
    BY <1>1, <1>2 DEF TypeInv
  <2>2. QED
    BY <2>1 DEF IndInv, TypeInv
<1>6. CountBound'
  <2>1. \A d \in Callers : /\ task'[d].pc = "joined" <=> task[d].pc = "joined"
                           /\ task'[d].entry = task[d].entry
    BY <1>2 DEF Leading
  <2>2. QED
    BY <2>1, CountKept DEF IndInv
<1>7. EntriesOwned'
  <2>1. \A d \in Callers : task[d].pc = "joined" => task'[d].pc = "joined"
    BY DEF Leading
  <2>2. QED
    BY <2>1, <1>2, <1>3 DEF IndInv, EntriesOwned
<1>8. LeadersAlone'
  BY <1>2, <1>3 DEF IndInv, LeadersAlone
<1>9. LeaderPhase'
  <2>1. ASSUME NEW d \in Callers \ {c}
        PROVE  /\ task'[d].pc \in {"load", "set", "dropNotify", "dropRemove"} =>
                    result'[task'[d].entry] = "none"
               /\ task'[d].pc \in {"set", "notify", "remove"} =>
                    task'[d].answer \in {"ok", "err"}
               /\ task'[d].pc \in {"notify", "remove"} =>
                    result'[task'[d].entry] = task'[d].answer
    <3>1. CASE Leading(d)
      BY <3>1, <1>4 DEF IndInv, LeaderPhase
    <3>2. CASE ~Leading(d)
      BY <3>2, <1>3 DEF Leading
    <3>3. QED
      BY <3>1, <3>2
  <2>2. QED
    BY <2>1, <1>2 DEF LeaderPhase
<1>10. Counted'
  <2>1. ASSUME NEW d \in Callers
        PROVE  /\ task'[d].pc \notin {"idle", "joined"} => task[d].pc \notin {"idle", "joined"}
               /\ task'[d].pc = "joined" => task[d].pc = "joined"
    BY <1>1 DEF Leading
  <2>2. QED
    BY <2>1, <1>2 DEF IndInv, Counted
<1>11. NothingYet'
  <2>1. waiter_count[task[c].entry] # 0
    BY <1>1 DEF IndInv, Counted, Leading
  <2>2. \A e \in Entries : waiter_count[e] = 0 => result'[e] = result[e]
    BY <2>1
  <2>3. QED
    BY <2>2 DEF IndInv, NothingYet
<1>12. WokenLate'
  <2>1. \A e \in Nat : Loading(e)' => Loading(e)
    BY <1>2 DEF Loading
  <2>2. ASSUME task'[c].pc \notin {"load", "set"} PROVE ~Loading(task[c].entry)'
    <3>1. \A d \in Callers : Leading(d) /\ task[d].entry = task[c].entry => d = c
      BY DEF IndInv, LeadersAlone
    <3>2. \A d \in Callers : task'[d].pc \in {"load", "set"} => Leading(d)
      BY <1>3 DEF Leading
    <3>3. QED
      BY <2>2, <3>1, <3>2, <1>2 DEF Loading
  <2>3. \A d \in Callers : task[d].entry \in Nat
    BY <1>1, SingleFlightAssumption DEF TypeInv, Tasks
  <2>4. ASSUME NEW d \in Callers, task'[d].pc = "empty" PROVE result'[task[d].entry] = "none"
    <3>1. d # c /\ task[d].pc = "empty" /\ task[d].entry \in Entries
      BY <2>4, <1>1, EntryKnown DEF Leading
    <3>2. ~Loading(task[d].entry) /\ result[task[d].entry] = "none"
      BY <3>1 DEF IndInv, WokenLate
    <3>3. task[c].pc = "set" => task[d].entry # task[c].entry
      BY <3>2 DEF Loading
    <3>4. QED
      BY <3>1, <3>2, <3>3
  <2>5. ASSUME NEW d \in Callers, task'[d].pc \in {"woken", "empty"}
        PROVE  ~Loading(task[d].entry)'
    <3>1. d # c
      BY <2>5 DEF Leading
    <3>2. CASE task'[d] = task[d]
      BY <2>1, <2>3, <2>5, <3>2 DEF IndInv, WokenLate
    <3>3. CASE task'[d] # task[d]
      <4>1. task[d].entry = task[c].entry /\ task'[c].pc \notin {"load", "set"}
        BY <3>1, <3>3
      <4>2. Loading(task[d].entry)' <=> Loading(task[c].entry)'
        BY <4>1, <1>2 DEF Loading
      <4>3. QED
        BY <2>2, <4>1, <4>2
    <3>4. QED
      BY <3>2, <3>3
  <2>6. QED
    BY <2>4, <2>5, <1>2 DEF WokenLate, Loading
<1>13. QED
  BY <1>5, <1>6, <1>7, <1>8, <1>9, <1>10, <1>11, <1>12 DEF IndInv

\* notify_waiters: who goes where.
LEMMA NotifyEffect ==
  ASSUME TypeInv, NEW c \in Callers, NEW pc \in Pcs, NotifyWaiters(c, pc)
  PROVE  /\ task' \in [Callers -> Tasks(calls)]
         /\ task'[c].pc = pc /\ task'[c].entry = task[c].entry
         /\ task'[c].key = task[c].key /\ task'[c].answer = task[c].answer
         /\ \A d \in Callers \ {c} :
              \/ task'[d] = task[d]
              \/ /\ task[d].pc = "waiting" /\ task'[d].pc = "woken"
                 /\ task'[d].entry = task[d].entry /\ task'[d].key = task[d].key
                 /\ task[d].entry = task[c].entry
<1>1. task \in [Callers -> Tasks(calls)]
  BY DEF TypeInv
<1>2. /\ task' \in [Callers -> Tasks(calls)]
      /\ task'[c] = [task[c] EXCEPT !.pc = pc]
      /\ \A d \in Callers \ {c} :
           \/ task'[d] = task[d]
           \/ /\ task[d].pc = "waiting" /\ task[d].entry = task[c].entry
              /\ task'[d] = [task[d] EXCEPT !.pc = "woken"]
  BY <1>1 DEF NotifyWaiters, Tasks, Pcs
<1>3. QED
  BY <1>1, <1>2 DEF Tasks

\* The steps of a leader that keeps its entry.
LEMMA LeaderStepInv ==
  ASSUME IndInv, NEW c \in Callers,
         \/ \E r \in {"ok", "err"} : LoadReturns(c, r)
         \/ SetResult(c) \/ Notify(c) \/ LeaderFails(c) \/ DropNotify(c)
  PROVE  IndInv'
<1>1. TypeInv
  BY DEF IndInv
<1>2. task[c].pc = "set" => task[c].entry \in Entries
  BY <1>1, EntryKnown
<1>3. ASSUME NEW r \in {"ok", "err"}, LoadReturns(c, r) PROVE IndInv'
  <2>1. /\ task[c].pc = "load" /\ UNCHANGED <<in_flight, waiter_count, result, calls>>
        /\ task' \in [Callers -> Tasks(calls)]
        /\ \A d \in Callers \ {c} : task'[d] = task[d]
        /\ task'[c].pc = "set" /\ task'[c].answer = r
        /\ task'[c].entry = task[c].entry /\ task'[c].key = task[c].key
    BY <1>1, <1>3 DEF LoadReturns, TypeInv, Tasks, Pcs, Answers
  <2>2. result[task[c].entry] = "none"
    BY <2>1 DEF IndInv, LeaderPhase
  <2>3. Leading(c) /\ Leading(c)' /\ result' \in [Entries -> {"none", "ok", "err"}]
    BY <2>1, <1>1 DEF Leading, TypeInv
  <2>4. QED
    BY <2>1, <2>2, <2>3, LeaderMoves
<1>4. CASE SetResult(c)
  <2>1. /\ task[c].pc = "set" /\ UNCHANGED <<in_flight, waiter_count, calls>>
        /\ task' \in [Callers -> Tasks(calls)]
        /\ \A d \in Callers \ {c} : task'[d] = task[d]
        /\ task'[c].pc = "notify" /\ task'[c].answer = task[c].answer
        /\ task'[c].entry = task[c].entry /\ task'[c].key = task[c].key
    BY <1>1, <1>4, ToEffect DEF SetResult, Pcs
  <2>2. task[c].answer \in {"ok", "err"} /\ task[c].entry \in Entries
    BY <1>2, <2>1 DEF IndInv, LeaderPhase
  <2>3. /\ result' \in [Entries -> {"none", "ok", "err"}]
        /\ \A e \in Entries \ {task[c].entry} : result'[e] = result[e]
        /\ result'[task[c].entry] = task[c].answer
    BY <1>1, <1>4, <2>2 DEF SetResult, TypeInv
  <2>4. Leading(c) /\ Leading(c)'
    BY <2>1 DEF Leading
  <2>5. QED
    BY <2>1, <2>2, <2>3, <2>4, LeaderMoves
<1>5. CASE Notify(c)
  <2>1. /\ task[c].pc = "notify" /\ UNCHANGED <<in_flight, waiter_count, result, calls>>
        /\ NotifyWaiters(c, "remove")
    BY <1>5 DEF Notify
  <2>2. /\ task[c].answer \in {"ok", "err"} /\ result[task[c].entry] = task[c].answer
        /\ result' \in [Entries -> {"none", "ok", "err"}]
    BY <1>1, <2>1 DEF IndInv, LeaderPhase, TypeInv
  <2>3. /\ task' \in [Callers -> Tasks(calls)]
        /\ task'[c].pc = "remove" /\ task'[c].entry = task[c].entry
        /\ task'[c].key = task[c].key /\ task'[c].answer = task[c].answer
        /\ \A d \in Callers \ {c} :
             \/ task'[d] = task[d]
             \/ /\ task[d].pc = "waiting" /\ task'[d].pc = "woken"
                /\ task'[d].entry = task[d].entry /\ task'[d].key = task[d].key
                /\ task[d].entry = task[c].entry
    BY <1>1, <2>1, NotifyEffect DEF Pcs
  <2>4. Leading(c) /\ Leading(c)'
    BY <2>1, <2>3 DEF Leading
  <2>5. QED
    BY <2>1, <2>2, <2>3, <2>4, LeaderMoves
<1>6. CASE LeaderFails(c)
  <2>1. /\ task[c].pc = "load" /\ UNCHANGED <<in_flight, waiter_count, result, calls>>
        /\ task' \in [Callers -> Tasks(calls)]
        /\ \A d \in Callers \ {c} : task'[d] = task[d]
        /\ task'[c].pc = "dropNotify"
        /\ task'[c].entry = task[c].entry /\ task'[c].key = task[c].key
    BY <1>1, <1>6, ToEffect DEF LeaderFails, Pcs
  <2>2. result[task[c].entry] = "none" /\ result' \in [Entries -> {"none", "ok", "err"}]
    BY <1>1, <2>1 DEF IndInv, LeaderPhase, TypeInv
  <2>3. Leading(c) /\ Leading(c)'
    BY <2>1 DEF Leading
  <2>4. QED
    BY <2>1, <2>2, <2>3, LeaderMoves
<1>7. CASE DropNotify(c)
  <2>1. /\ task[c].pc = "dropNotify" /\ UNCHANGED <<in_flight, waiter_count, result, calls>>
        /\ NotifyWaiters(c, "dropRemove")
    BY <1>7 DEF DropNotify
  <2>2. result[task[c].entry] = "none" /\ result' \in [Entries -> {"none", "ok", "err"}]
    BY <1>1, <2>1 DEF IndInv, LeaderPhase, TypeInv
  <2>3. /\ task' \in [Callers -> Tasks(calls)]
        /\ task'[c].pc = "dropRemove" /\ task'[c].entry = task[c].entry
        /\ task'[c].key = task[c].key
        /\ \A d \in Callers \ {c} :
             \/ task'[d] = task[d]
             \/ /\ task[d].pc = "waiting" /\ task'[d].pc = "woken"
                /\ task'[d].entry = task[d].entry /\ task'[d].key = task[d].key
                /\ task[d].entry = task[c].entry
    BY <1>1, <2>1, NotifyEffect DEF Pcs
  <2>4. Leading(c) /\ Leading(c)'
    BY <2>1, <2>3 DEF Leading
  <2>5. QED
    BY <2>1, <2>2, <2>3, <2>4, LeaderMoves
<1>8. QED
  BY <1>3, <1>4, <1>5, <1>6, <1>7

\* A call returns: it has no entry any more.
LEMMA IdleEffect ==
  ASSUME TypeInv, NEW c \in Callers, NEW a \in Answers, task' = Idle(c, a)
  PROVE  /\ task' \in [Callers -> Tasks(calls)]
         /\ task'[c].pc = "idle" /\ task'[c].entry = 0 /\ task'[c].answer = a
         /\ \A d \in Callers \ {c} : task'[d] = task[d]
<1>1. task[c] \in Tasks(calls) /\ task \in [Callers -> Tasks(calls)] /\ calls \in Nat
  BY SingleFlightAssumption DEF TypeInv
<1>2. [pc |-> "idle", key |-> task[c].key, entry |-> 0, answer |-> a] \in Tasks(calls)
  BY <1>1 DEF Tasks, Pcs
<1>3. QED
  BY <1>1, <1>2 DEF Idle

\* The leader takes its entry out of the map and returns.
LEMMA LeaderLeaves ==
  ASSUME IndInv, NEW c \in Callers, NEW a \in Answers,
         task[c].pc \in {"remove", "dropRemove"},
         in_flight' = [in_flight EXCEPT ![task[c].key] = 0],
         task' = Idle(c, a),
         UNCHANGED <<waiter_count, result, calls>>
  PROVE  IndInv'
<1>1. TypeInv /\ task[c].entry \in Entries /\ task[c].key \in Keys /\ Leading(c)
  BY EntryKnown DEF IndInv, Leading
<1>2. /\ task' \in [Callers -> Tasks(calls)]
      /\ task'[c].pc = "idle" /\ task'[c].entry = 0
      /\ \A d \in Callers \ {c} : task'[d] = task[d]
  BY <1>1, IdleEffect
<1>3. /\ in_flight' \in [Keys -> 0..calls] /\ in_flight'[task[c].key] = 0
      /\ \A k \in Keys : k # task[c].key => in_flight'[k] = in_flight[k]
  BY <1>1 DEF TypeInv
<1>4. in_flight[task[c].key] = task[c].entry /\ waiter_count[task[c].entry] # 0
  BY <1>1 DEF IndInv, LeadersAlone, Counted
<1>5. TypeInv'
  <2>1. \A d \in Callers : task'[d].entry = 0 <=> task'[d].pc = "idle"
    BY <1>1, <1>2 DEF TypeInv
  <2>2. QED
    BY <2>1, <1>1, <1>2, <1>3 DEF TypeInv
<1>6. CountBound'
  <2>1. \A d \in Callers : /\ task'[d].pc = "joined" <=> task[d].pc = "joined"
                           /\ task[d].pc = "joined" => task'[d].entry = task[d].entry
    BY <1>2
  <2>2. QED
    BY <2>1, CountKept DEF IndInv
<1>7. EntriesOwned'
  <2>1. ASSUME NEW k \in Keys, in_flight'[k] # 0
        PROVE  \E d \in Callers :
                 /\ task'[d].entry = in_flight'[k] /\ task'[d].key = k
                 /\ IF waiter_count[in_flight'[k]] = 0 THEN task'[d].pc = "joined"
                                                       ELSE Leading(d)'
    <3>1. k # task[c].key /\ in_flight'[k] = in_flight[k] /\ in_flight[k] # 0
      BY <2>1, <1>3
    <3>2. PICK d \in Callers :
            /\ task[d].entry = in_flight[k] /\ task[d].key = k
            /\ IF waiter_count[in_flight[k]] = 0 THEN task[d].pc = "joined" ELSE Leading(d)
      BY <3>1 DEF IndInv, EntriesOwned
    <3>3. task'[d] = task[d]
      BY <3>1, <3>2, <1>2
    <3>4. QED
      BY <3>1, <3>2, <3>3 DEF Leading
  <2>2. \A j, k \in Keys : in_flight'[j] # 0 /\ in_flight'[j] = in_flight'[k] => j = k
    BY <1>3 DEF IndInv, EntriesOwned
  <2>3. QED
    BY <2>1, <2>2 DEF EntriesOwned
<1>8. LeadersAlone'
  <2>1. ASSUME NEW d \in Callers, Leading(d)'
        PROVE  /\ task'[d] = task[d] /\ Leading(d) /\ task[d].key \in Keys
               /\ task[d].key # task[c].key
    <3>1. d # c /\ task'[d] = task[d] /\ Leading(d)
      BY <2>1, <1>2 DEF Leading
    <3>2. task[d].key \in Keys
      BY <1>1, <3>1, EntryKnown DEF Leading
    <3>3. QED
      BY <3>1, <3>2, <1>1, <1>4 DEF IndInv, LeadersAlone
  <2>2. QED
    BY <2>1, <1>3 DEF IndInv, LeadersAlone
<1>9. LeaderPhase'
  BY <1>2 DEF IndInv, LeaderPhase
<1>10. Counted'
  <2>1. ASSUME NEW d \in Callers, task'[d].pc = "joined", waiter_count[task'[d].entry] = 0
        PROVE  in_flight'[task'[d].key] = task'[d].entry
    <3>1. d # c /\ task'[d] = task[d] /\ task[d].key \in Keys
      BY <2>1, <1>1, <1>2, EntryKnown
    <3>2. in_flight[task[d].key] = task[d].entry
      BY <2>1, <3>1 DEF IndInv, Counted
    <3>3. task[d].key # task[c].key
      BY <2>1, <3>1, <3>2, <1>4
    <3>4. QED
      BY <3>1, <3>2, <3>3, <1>3
  <2>2. QED
    BY <2>1, <1>2 DEF IndInv, Counted
<1>11. NothingYet'
  BY DEF IndInv, NothingYet
<1>12. WokenLate'
  <2>1. \A e \in Nat : Loading(e)' => Loading(e)
    BY <1>2 DEF Loading
  <2>2. QED
    BY <2>1, <1>1, <1>2 DEF IndInv, WokenLate, TypeInv, Tasks
<1>13. QED
  BY <1>5, <1>6, <1>7, <1>8, <1>9, <1>10, <1>11, <1>12 DEF IndInv

\* A waiter goes on in its loop, or leaves it.
LEMMA WaiterMoves ==
  ASSUME IndInv, NEW c \in Callers,
         task[c].pc \in {"register", "waiting", "woken", "empty"},
         UNCHANGED <<in_flight, waiter_count, result, calls>>,
         \/ \E a \in Answers : task' = Idle(c, a)
         \/ To(c, "waiting") \/ To(c, "register")
         \/ To(c, "empty") /\ task[c].pc = "woken" /\ result[task[c].entry] = "none"
  PROVE  IndInv'
<1>1. TypeInv /\ task[c].entry \in Entries /\ ~Leading(c)
  BY EntryKnown DEF IndInv, Leading
<1>2. /\ task' \in [Callers -> Tasks(calls)]
      /\ \A d \in Callers \ {c} : task'[d] = task[d]
      /\ \/ task'[c].pc = "idle" /\ task'[c].entry = 0
         \/ /\ task'[c].pc \in {"waiting", "register", "empty"}
            /\ task'[c].entry = task[c].entry
            /\ task'[c].pc = "empty" =>
                 task[c].pc = "woken" /\ result[task[c].entry] = "none"
  <2>1. CASE \E a \in Answers : task' = Idle(c, a)
    BY <1>1, <2>1, IdleEffect
  <2>2. CASE To(c, "waiting") \/ To(c, "register")
    BY <1>1, <2>2, ToEffect DEF Pcs
  <2>3. CASE To(c, "empty") /\ task[c].pc = "woken" /\ result[task[c].entry] = "none"
    BY <1>1, <2>3, ToEffect DEF Pcs
  <2>4. QED
    BY <2>1, <2>2, <2>3
<1>3. \A d \in Callers : Leading(d)' <=> Leading(d)
  BY <1>1, <1>2 DEF Leading
<1>4. TypeInv'
  <2>1. \A d \in Callers : task'[d].entry = 0 <=> task'[d].pc = "idle"
    BY <1>1, <1>2 DEF TypeInv
  <2>2. QED
    BY <2>1, <1>1, <1>2 DEF TypeInv
<1>5. CountBound'
  <2>1. \A d \in Callers : /\ task'[d].pc = "joined" <=> task[d].pc = "joined"
                           /\ task[d].pc = "joined" => task'[d].entry = task[d].entry
    BY <1>2
  <2>2. QED
    BY <2>1, CountKept DEF IndInv
<1>6. EntriesOwned'
  <2>1. ASSUME NEW d \in Callers, task[d].pc = "joined" \/ Leading(d) PROVE task'[d] = task[d]
    BY <2>1, <1>1, <1>2
  <2>2. QED
    BY <2>1, <1>3 DEF IndInv, EntriesOwned
<1>7. LeadersAlone'
  <2>1. ASSUME NEW d \in Callers, Leading(d) PROVE task'[d] = task[d]
    BY <2>1, <1>1, <1>2
  <2>2. QED
    BY <2>1, <1>3 DEF IndInv, LeadersAlone
<1>8. LeaderPhase' /\ Counted' /\ NothingYet'
  BY <1>2 DEF IndInv, LeaderPhase, Counted, NothingYet
<1>9. WokenLate'
  <2>1. \A e \in Nat : Loading(e)' => Loading(e)
    BY <1>2 DEF Loading
  <2>2. QED
    BY <2>1, <1>1, <1>2 DEF IndInv, WokenLate, TypeInv, Tasks
<1>10. QED
  BY <1>4, <1>5, <1>6, <1>7, <1>8, <1>9 DEF IndInv

\* Every step keeps the invariant.
LEMMA NextInv == IndInv /\ [Next]_vars => IndInv'
<1> SUFFICES ASSUME IndInv, [Next]_vars PROVE IndInv'
  OBVIOUS
<1>1. ASSUME NEW c \in Callers, Remove(c) PROVE IndInv'
  <2>1. task[c].answer \in Answers
    BY DEF IndInv, TypeInv, Tasks
  <2>2. QED
    BY <1>1, <2>1, LeaderLeaves DEF Remove
<1>2. ASSUME NEW c \in Callers, DropRemove(c) PROVE IndInv'
  BY <1>2, LeaderLeaves DEF DropRemove, Answers
<1>3. ASSUME NEW c \in Callers, Register(c) \/ WaiterCancelled(c) PROVE IndInv'
  BY <1>3, WaiterMoves DEF Register, WaiterCancelled, Answers
<1>4. ASSUME NEW c \in Callers, CheckResult(c) PROVE IndInv'
  <2>1. result[task[c].entry] \in Answers
    BY <1>4, EntryKnown DEF IndInv, TypeInv, CheckResult, Answers
  <2>2. QED
    BY <1>4, <2>1, WaiterMoves DEF CheckResult
<1>5. ASSUME NEW c \in Callers, CheckKey(c) PROVE IndInv'
  BY <1>5, WaiterMoves DEF CheckKey, Answers
<1>6. CASE UNCHANGED vars
  BY <1>6 DEF vars, IndInv, TypeInv, CountBound, Uncounted, EntriesOwned, LeadersAlone,
              LeaderPhase, Counted, NothingYet, WokenLate, Loading, Leading
<1>7. QED
  BY <1>1, <1>2, <1>3, <1>4, <1>5, <1>6, JoinInv, AddWaiterInv, LeaderStepInv
     DEF Next, Step

\* The invariant holds in every behaviour of get_or_load.
THEOREM AsyncInvariant == Spec => []IndInv
BY InitInv, NextInv, PTL DEF Spec

\* The types; no waiter count exceeds the number of calls.
THEOREM AsyncTypeCorrect == Spec => []TypeOK
<1>1. IndInv => TypeOK
  <2> SUFFICES ASSUME IndInv PROVE TypeOK
    OBVIOUS
  <2>1. TypeInv
    BY DEF IndInv
  <2>2. ASSUME NEW e \in Entries PROVE waiter_count[e] \in 0..MaxCalls
    <3>1. IsFiniteSet(Uncounted(e))
      BY SingleFlightAssumption, FS_Subset DEF Uncounted
    <3>2. Cardinality(Uncounted(e)) \in Nat
      BY <3>1, FS_CardinalityType
    <3>3. QED
      BY <2>1, <3>2, SingleFlightAssumption DEF IndInv, CountBound, TypeInv
  <2>3. waiter_count \in [Entries -> 0..MaxCalls]
    BY <2>1, <2>2 DEF TypeInv
  <2>4. QED
    BY <2>1, <2>3 DEF TypeOK, TypeInv, Tasks, Answers
<1>2. QED
  BY <1>1, AsyncInvariant, PTL

\* At most one load runs for a key, whatever entries late callers still hold.
THEOREM AsyncOneLoadPerKey == Spec => []OneLoadPerKey
<1>1. IndInv => OneLoadPerKey
  BY DEF IndInv, LeadersAlone, OneLoadPerKey, Leading
<1>2. QED
  BY <1>1, AsyncInvariant, PTL

\* Every entry in the map has a caller that will take it out, whoever is cancelled.
THEOREM AsyncEntryOwned == Spec => []EntryOwned
<1>1. IndInv => EntryOwned
  BY DEF IndInv, EntriesOwned, EntryOwned
<1>2. QED
  BY <1>1, AsyncInvariant, PTL
-------------------------------------------------------------------------------
(* The refinement *)

\* What the promise sees of entries and calls.
LEMMA Seen ==
  /\ \A e \in Entries : OutcomeBar[e] = Outcome(e)
  /\ \A c \in Callers : CallBar[c].flight = task[c].entry
BY DEF OutcomeBar, CallBar

\* An outcome is what it was when the cell, the counting and the loading are.
LEMMA OutcomeKept ==
  ASSUME NEW e \in Entries, result'[e] = result[e],
         waiter_count'[e] = 0 <=> waiter_count[e] = 0, Loading(e)' <=> Loading(e)
  PROVE  Outcome(e)' = Outcome(e)
BY DEF Outcome, Loading

\* One outcome changes.
LEMMA OutcomeChanged ==
  ASSUME NEW f \in Entries, \A e \in Entries \ {f} : Outcome(e)' = Outcome(e)
  PROVE  OutcomeBar' = [OutcomeBar EXCEPT ![f] = Outcome(f)']
BY DEF OutcomeBar

\* The calls are what they were.
LEMMA CallsKept ==
  ASSUME \A c \in Callers : /\ task'[c].entry = task[c].entry
                            /\ task[c].entry = 0 => task'[c].answer = task[c].answer
  PROVE  CallBar' = CallBar
BY DEF CallBar

\* One call changes.
LEMMA CallChanged ==
  ASSUME NEW c \in Callers, \A d \in Callers \ {c} : task'[d] = task[d]
  PROVE  CallBar' = [CallBar EXCEPT ![c] =
           [flight |-> task'[c].entry,
            answer |-> IF task'[c].entry # 0 THEN "none" ELSE task'[c].answer]]
BY DEF CallBar

\* Steps that start, end and count nothing leave every outcome.
LEMMA OutcomesKept ==
  ASSUME UNCHANGED <<result, waiter_count>>,
         \A c \in Callers :
           /\ task'[c].pc \in {"load", "set"} <=> task[c].pc \in {"load", "set"}
           /\ task[c].pc \in {"load", "set"} => task'[c].entry = task[c].entry
  PROVE  OutcomeBar' = OutcomeBar
<1>1. \A e \in Entries : Loading(e)' <=> Loading(e)
  BY DEF Loading
<1>2. \A e \in Entries : Outcome(e)' = Outcome(e)
  BY <1>1, OutcomeKept
<1>3. QED
  BY <1>2 DEF OutcomeBar

\* Steps that the promise does not see.
LEMMA MovesRefine ==
  ASSUME UNCHANGED <<in_flight, result, waiter_count>>,
         \A c \in Callers :
           /\ task'[c].pc \in {"load", "set"} <=> task[c].pc \in {"load", "set"}
           /\ task'[c].entry = task[c].entry
           /\ task[c].entry = 0 => task'[c].answer = task[c].answer
  PROVE  UNCHANGED Promise!vars
BY OutcomesKept, CallsKept DEF Promise!vars

\* Initially nothing is open, loaded or called.
LEMMA InitRefines == Init => Promise!Init
<1> SUFFICES ASSUME Init PROVE Promise!Init
  OBVIOUS
<1>1. \A e \in Entries : Outcome(e) = "none"
  BY DEF Init, Outcome
<1>2. OutcomeBar = [e \in Entries |-> "none"]
  BY <1>1 DEF OutcomeBar
<1>3. \A c \in Callers : task[c].entry = 0 /\ task[c].answer = "none"
  BY DEF Init
<1>4. CallBar = [c \in Callers |-> [flight |-> 0, answer |-> "none"]]
  BY <1>3 DEF CallBar
<1>5. QED
  BY <1>2, <1>4 DEF Init, Promise!Init

\* Join boards the flight of the key, and opens one when there is none.
LEMMA JoinRefines == ASSUME IndInv, NEW c \in Callers, Join(c) PROVE Promise!Next
<1>1. PICK k \in Keys :
        LET e == IF in_flight[k] = 0 THEN calls + 1 ELSE in_flight[k]
        IN  /\ in_flight' = [in_flight EXCEPT ![k] = e]
            /\ task' = [task EXCEPT ![c] = [pc |-> "joined", key |-> k, entry |-> e,
                                            answer |-> "none"]]
  BY DEF Join
<1>2. /\ TypeInv /\ calls < MaxCalls /\ calls \in Nat
      /\ task[c].pc = "idle" /\ task[c].entry = 0 /\ UNCHANGED <<waiter_count, result>>
  BY SingleFlightAssumption DEF IndInv, TypeInv, Join
<1>3. \A j \in Keys : in_flight[j] \in 0..calls
  BY <1>2 DEF TypeInv
<1>4. PICK f \in Entries : f = IF in_flight[k] = 0 THEN calls + 1 ELSE in_flight[k]
  BY <1>2, <1>3, SingleFlightAssumption DEF Entries
<1>5. /\ in_flight' = [in_flight EXCEPT ![k] = f]
      /\ \A d \in Callers \ {c} : task'[d] = task[d]
      /\ task'[c].pc = "joined" /\ task'[c].entry = f
  BY <1>1, <1>2, <1>4 DEF TypeInv
<1>6. f # 0
  BY <1>2, <1>4
<1>7. OutcomeBar' = OutcomeBar
  <2>1. \A d \in Callers :
          /\ task'[d].pc \in {"load", "set"} <=> task[d].pc \in {"load", "set"}
          /\ task[d].pc \in {"load", "set"} => task'[d].entry = task[d].entry
    BY <1>2, <1>5
  <2>2. QED
    BY <2>1, <1>2, OutcomesKept
<1>8. CallBar' = [CallBar EXCEPT ![c] = [flight |-> f, answer |-> "none"]]
  BY <1>5, <1>6, CallChanged
<1>9. IF in_flight[k] = 0
      THEN OutcomeBar[f] = "none" /\ \A j \in Keys : in_flight[j] # f
      ELSE f = in_flight[k]
  <2>1. CASE in_flight[k] = 0
    <3>1. waiter_count[f] = 0 /\ result[f] = "none" /\ \A j \in Keys : in_flight[j] # f
      BY <1>2, <1>3, <1>4, <2>1 DEF IndInv, NothingYet
    <3>2. Outcome(f) = "none"
      BY <3>1 DEF Outcome
    <3>3. QED
      BY <2>1, <3>1, <3>2, Seen
  <2>2. CASE in_flight[k] # 0
    BY <2>2, <1>4
  <2>3. QED
    BY <2>1, <2>2
<1>10. CallBar[c].flight = 0
  BY <1>2, Seen
<1>11. Promise!Board(c, k)
  BY <1>5, <1>7, <1>8, <1>9, <1>10 DEF Promise!Board
<1>12. QED
  BY <1>11 DEF Promise!Next

\* The first to be counted starts the load; the others start nothing.
LEMMA AddWaiterRefines ==
  ASSUME IndInv, NEW c \in Callers, AddWaiter(c)
  PROVE  Promise!Next \/ UNCHANGED Promise!vars
<1>1. /\ TypeInv /\ task[c].pc = "joined" /\ UNCHANGED <<in_flight, result, calls>>
  BY DEF IndInv, AddWaiter
<1>2. PICK f \in Entries : f = task[c].entry
  BY <1>1, EntryKnown
<1>3. PICK k \in Keys : k = task[c].key
  BY <1>1, EntryKnown
<1>4. PICK pc \in {"load", "register"} :
        To(c, pc) /\ pc = IF waiter_count[f] = 0 THEN "load" ELSE "register"
  BY <1>2 DEF AddWaiter
<1>5. /\ task'[c].pc = pc /\ task'[c].entry = f
      /\ \A d \in Callers \ {c} : task'[d] = task[d]
  BY <1>1, <1>2, <1>4, ToEffect DEF Pcs
<1>6. /\ waiter_count'[f] # 0
      /\ \A e \in Entries \ {f} : waiter_count'[e] = waiter_count[e]
  BY <1>1, <1>2 DEF AddWaiter, TypeInv
<1>7. f # 0
  BY SingleFlightAssumption DEF Entries
<1>8. CallBar' = CallBar
  <2>1. \A d \in Callers : /\ task'[d].entry = task[d].entry
                           /\ task[d].entry = 0 => task'[d].answer = task[d].answer
    BY <1>2, <1>5, <1>7
  <2>2. QED
    BY <2>1, CallsKept
<1>9. ASSUME NEW e \in Entries \ {f} PROVE Outcome(e)' = Outcome(e)
  <2>1. Loading(e)' <=> Loading(e)
    BY <1>1, <1>2, <1>5, <1>9 DEF Loading
  <2>2. QED
    BY <2>1, <1>1, <1>6, <1>9, OutcomeKept
<1>10. CASE waiter_count[f] = 0
  <2>1. result[f] = "none" /\ in_flight[k] = f
    BY <1>1, <1>2, <1>3, <1>10 DEF IndInv, NothingYet, Counted
  <2>2. Outcome(f) = "none" /\ Outcome(f)' = "running"
    BY <2>1, <1>1, <1>4, <1>5, <1>6, <1>10 DEF Outcome
  <2>3. OutcomeBar' = [OutcomeBar EXCEPT ![f] = "running"] /\ OutcomeBar[f] = "none"
    BY <2>2, <1>9, OutcomeChanged, Seen
  <2>4. Promise!StartLoad(k)
    BY <2>1, <2>3, <1>1, <1>7, <1>8 DEF Promise!StartLoad
  <2>5. QED
    BY <2>4 DEF Promise!Next
<1>11. CASE waiter_count[f] # 0
  <2>1. Loading(f)' <=> Loading(f)
    BY <1>1, <1>4, <1>5, <1>11 DEF Loading
  <2>2. Outcome(f)' = Outcome(f)
    BY <2>1, <1>1, <1>6, <1>11, OutcomeKept
  <2>3. OutcomeBar' = OutcomeBar
    BY <2>2, <1>9 DEF OutcomeBar
  <2>4. QED
    BY <2>3, <1>1, <1>8 DEF Promise!vars
<1>12. QED
  BY <1>10, <1>11

\* A load ends with outcome o: its result is stored, or its leader fails.
LEMMA EndSeen ==
  ASSUME IndInv, NEW c \in Callers, NEW o \in {"ok", "err", "lost"},
         task[c].pc \in {"load", "set"}, task'[c].pc \notin {"load", "set"},
         task'[c].entry = task[c].entry, \A d \in Callers \ {c} : task'[d] = task[d],
         UNCHANGED <<in_flight, waiter_count, calls>>,
         \A e \in Entries \ {task[c].entry} : result'[e] = result[e],
         o = IF result'[task[c].entry] = "none" THEN "lost" ELSE result'[task[c].entry]
  PROVE  Promise!Next
<1>1. TypeInv /\ Leading(c)
  BY DEF IndInv, Leading
<1>2. PICK f \in Entries : f = task[c].entry
  BY <1>1, EntryKnown DEF Leading
<1>3. f # 0 /\ waiter_count[f] # 0 /\ result[f] = "none"
  BY <1>2, SingleFlightAssumption DEF IndInv, Counted, LeaderPhase, Entries
<1>4. OutcomeBar[f] = "running"
  <2>1. Outcome(f) = "running"
    BY <1>2, <1>3 DEF Outcome
  <2>2. QED
    BY <2>1, Seen
<1>5. ASSUME NEW e \in Entries \ {f} PROVE Outcome(e)' = Outcome(e)
  <2>1. Loading(e)' <=> Loading(e)
    BY <1>2, <1>5 DEF Loading
  <2>2. QED
    BY <2>1, <1>2, <1>5, OutcomeKept
<1>6. Outcome(f)' = o
  <2>1. \A d \in Callers : Leading(d) /\ task[d].entry = f => d = c
    BY <1>1, <1>2 DEF IndInv, LeadersAlone
  <2>2. \A d \in Callers : ~(task'[d].entry = f /\ task'[d].pc \in {"load", "set"})
    BY <1>2, <2>1 DEF Leading
  <2>3. QED
    BY <1>2, <1>3, <2>2 DEF Outcome
<1>7. OutcomeBar' = [OutcomeBar EXCEPT ![f] = o]
  BY <1>5, <1>6, OutcomeChanged
<1>8. CallBar' = CallBar
  <2>1. \A d \in Callers : /\ task'[d].entry = task[d].entry
                           /\ task[d].entry = 0 => task'[d].answer = task[d].answer
    BY <1>2, <1>3
  <2>2. QED
    BY <2>1, CallsKept
<1>9. Promise!End(f, o)
  BY <1>4, <1>7, <1>8 DEF Promise!End
<1>10. QED
  BY <1>9 DEF Promise!Next, Promise!Ended

\* The result that is stored, and the leader that fails, end the load.
LEMMA EndRefines ==
  ASSUME IndInv, NEW c \in Callers, SetResult(c) \/ LeaderFails(c) PROVE Promise!Next
<1>1. TypeInv
  BY DEF IndInv
<1>2. CASE SetResult(c)
  <2>1. /\ task[c].pc = "set" /\ task[c].entry \in Entries
        /\ UNCHANGED <<in_flight, waiter_count, calls>>
    BY <1>1, <1>2, EntryKnown DEF SetResult
  <2>2. /\ task'[c].pc = "notify" /\ task'[c].entry = task[c].entry
        /\ \A d \in Callers \ {c} : task'[d] = task[d]
    BY <1>1, <1>2, ToEffect DEF SetResult, Pcs
  <2>3. PICK o \in {"ok", "err"} : o = task[c].answer
    BY <2>1 DEF IndInv, LeaderPhase
  <2>4. /\ \A e \in Entries \ {task[c].entry} : result'[e] = result[e]
        /\ result'[task[c].entry] = o
    BY <1>1, <1>2, <2>1, <2>3 DEF SetResult, TypeInv
  <2>5. QED
    BY <2>1, <2>2, <2>4, EndSeen
<1>3. CASE LeaderFails(c)
  <2>1. task[c].pc = "load" /\ UNCHANGED <<in_flight, waiter_count, result, calls>>
    BY <1>3 DEF LeaderFails
  <2>2. /\ task'[c].pc = "dropNotify" /\ task'[c].entry = task[c].entry
        /\ \A d \in Callers \ {c} : task'[d] = task[d]
    BY <1>1, <1>3, ToEffect DEF LeaderFails, Pcs
  <2>3. result'[task[c].entry] = "none"
    BY <2>1 DEF IndInv, LeaderPhase
  <2>4. QED
    BY <2>1, <2>2, <2>3, EndSeen
<1>4. QED
  BY <1>2, <1>3

\* A call that does not load returns a.
LEMMA ReturnSeen ==
  ASSUME TypeInv, NEW c \in Callers, NEW a \in Answers, task[c].pc \notin {"load", "set"},
         task' = Idle(c, a), UNCHANGED <<waiter_count, result>>
  PROVE  /\ OutcomeBar' = OutcomeBar
         /\ CallBar' = [CallBar EXCEPT ![c] = [flight |-> 0, answer |-> a]]
<1>1. /\ task'[c].pc = "idle" /\ task'[c].entry = 0 /\ task'[c].answer = a
      /\ \A d \in Callers \ {c} : task'[d] = task[d]
  BY IdleEffect
<1>2. \A d \in Callers :
        /\ task'[d].pc \in {"load", "set"} <=> task[d].pc \in {"load", "set"}
        /\ task[d].pc \in {"load", "set"} => task'[d].entry = task[d].entry
  BY <1>1
<1>3. QED
  BY <1>1, <1>2, OutcomesKept, CallChanged

\* The leader closes its flight and returns its outcome.
LEMMA LeaderLeavesRefines ==
  ASSUME IndInv, NEW c \in Callers, Remove(c) \/ DropRemove(c) PROVE Promise!Next
<1>1. /\ TypeInv /\ task[c].pc \in {"remove", "dropRemove"} /\ Leading(c)
      /\ in_flight' = [in_flight EXCEPT ![task[c].key] = 0]
      /\ UNCHANGED <<waiter_count, result, calls>>
  BY DEF IndInv, Remove, DropRemove, Leading
<1>2. PICK f \in Entries : f = task[c].entry
  BY <1>1, EntryKnown
<1>3. PICK k \in Keys : k = task[c].key
  BY <1>1, EntryKnown
<1>4. in_flight[k] = f /\ f # 0 /\ waiter_count[f] # 0
  BY <1>1, <1>2, <1>3, SingleFlightAssumption DEF IndInv, LeadersAlone, Counted, Entries
<1>5. PICK a \in {"ok", "err", "lost"} : task' = Idle(c, a) /\ Outcome(f) = a
  <2>1. CASE Remove(c)
    <3>1. task[c].answer \in {"ok", "err"} /\ result[f] = task[c].answer
      BY <2>1, <1>2 DEF IndInv, LeaderPhase, Remove
    <3>2. QED
      BY <2>1, <3>1 DEF Remove, Outcome
  <2>2. CASE DropRemove(c)
    <3>1. task[c].pc = "dropRemove" /\ result[f] = "none"
      BY <2>2, <1>2 DEF IndInv, LeaderPhase, DropRemove
    <3>2. \A d \in Callers : task[d].entry = f => task[d].pc \notin {"load", "set"}
      BY <3>1, <1>1, <1>2 DEF IndInv, LeadersAlone, Leading
    <3>3. Outcome(f) = "lost"
      BY <3>1, <3>2, <1>4 DEF Outcome
    <3>4. QED
      BY <2>2, <3>3 DEF DropRemove
  <2>3. QED
    BY <2>1, <2>2
<1>6. /\ OutcomeBar' = OutcomeBar
      /\ CallBar' = [CallBar EXCEPT ![c] = [flight |-> 0, answer |-> a]]
  BY <1>1, <1>5, ReturnSeen DEF Answers
<1>7. OutcomeBar[f] = a /\ CallBar[c].flight = f
  BY <1>2, <1>5, Seen
<1>8. Promise!CloseAndReturn(c, k)
  BY <1>1, <1>3, <1>4, <1>6, <1>7
     DEF Promise!CloseAndReturn, Promise!Close, Promise!Answer, Promise!Ended
<1>9. QED
  BY <1>8 DEF Promise!Next

\* A woken waiter returns the outcome of its entry, or looks again.
LEMMA WokenRefines ==
  ASSUME IndInv, NEW c \in Callers, CheckResult(c) \/ CheckKey(c)
  PROVE  Promise!Next \/ UNCHANGED Promise!vars
<1>1. /\ TypeInv /\ task[c].pc \in {"woken", "empty"}
      /\ UNCHANGED <<in_flight, waiter_count, result, calls>>
  BY DEF IndInv, CheckResult, CheckKey
<1>2. PICK f \in Entries : f = task[c].entry
  BY <1>1, EntryKnown
<1>3. f # 0 /\ waiter_count[f] # 0 /\ ~Loading(f)
  BY <1>1, <1>2, SingleFlightAssumption DEF IndInv, Counted, WokenLate, Entries
<1>4. ASSUME NEW pc \in {"empty", "register"}, To(c, pc) PROVE UNCHANGED Promise!vars
  <2>1. /\ task'[c].pc = pc /\ task'[c].entry = task[c].entry
        /\ \A d \in Callers \ {c} : task'[d] = task[d]
    BY <1>1, <1>4, ToEffect DEF Pcs
  <2>2. \A d \in Callers :
          /\ task'[d].pc \in {"load", "set"} <=> task[d].pc \in {"load", "set"}
          /\ task'[d].entry = task[d].entry
          /\ task[d].entry = 0 => task'[d].answer = task[d].answer
    BY <2>1, <1>1, <1>2, <1>3
  <2>3. QED
    BY <2>2, <1>1, MovesRefine
<1>5. ASSUME NEW a \in {"ok", "err", "lost"}, task' = Idle(c, a), Outcome(f) = a
      PROVE  Promise!Next
  <2>1. /\ OutcomeBar' = OutcomeBar
        /\ CallBar' = [CallBar EXCEPT ![c] = [flight |-> 0, answer |-> a]]
    BY <1>1, <1>5, ReturnSeen DEF Answers
  <2>2. OutcomeBar[f] = a /\ CallBar[c].flight = f
    BY <1>2, <1>5, Seen
  <2>3. Promise!Return(c)
    BY <2>1, <2>2, <1>1, <1>3 DEF Promise!Return, Promise!Answer, Promise!Ended
  <2>4. QED
    BY <2>3 DEF Promise!Next
<1>6. CASE CheckResult(c)
  <2>1. CASE result[f] = "none"
    BY <2>1, <1>2, <1>4, <1>6 DEF CheckResult
  <2>2. CASE result[f] # "none"
    <3>1. PICK a \in {"ok", "err"} : a = result[f]
      BY <2>2, <1>1 DEF TypeInv
    <3>2. task' = Idle(c, a) /\ Outcome(f) = a
      BY <3>1, <2>2, <1>2, <1>6 DEF CheckResult, Outcome
    <3>3. QED
      BY <3>2, <1>5
  <2>3. QED
    BY <2>1, <2>2
<1>7. CASE CheckKey(c)
  <2>1. result[f] = "none"
    BY <1>2, <1>7 DEF CheckKey, IndInv, WokenLate
  <2>2. Outcome(f) = "lost"
    BY <2>1, <1>3 DEF Outcome, Loading
  <2>3. QED
    BY <2>2, <1>4, <1>5, <1>7 DEF CheckKey
<1>8. QED
  BY <1>6, <1>7

\* The caller of a waiter abandons it.
LEMMA CancelRefines == ASSUME IndInv, NEW c \in Callers, WaiterCancelled(c) PROVE Promise!Next
<1>1. /\ TypeInv /\ task[c].pc = "waiting" /\ task' = Idle(c, "none")
      /\ UNCHANGED <<in_flight, waiter_count, result>>
  BY DEF IndInv, WaiterCancelled
<1>2. /\ OutcomeBar' = OutcomeBar
      /\ CallBar' = [CallBar EXCEPT ![c] = [flight |-> 0, answer |-> "none"]]
  BY <1>1, ReturnSeen DEF Answers
<1>3. CallBar[c].flight # 0
  BY <1>1, Seen DEF TypeInv
<1>4. Promise!Abandon(c)
  BY <1>1, <1>2, <1>3 DEF Promise!Abandon, Promise!Answer
<1>5. QED
  BY <1>4 DEF Promise!Next

\* Every step of the code is a step of the promise, or one it does not see.
LEMMA NextRefines == IndInv /\ [Next]_vars => [Promise!Next]_(Promise!vars)
<1> SUFFICES ASSUME IndInv, [Next]_vars PROVE Promise!Next \/ UNCHANGED Promise!vars
  OBVIOUS
<1>1. TypeInv
  BY DEF IndInv
<1>2. ASSUME NEW c \in Callers, NEW r \in {"ok", "err"}, LoadReturns(c, r)
      PROVE  UNCHANGED Promise!vars
  <2>1. /\ task[c].pc = "load" /\ task[c].entry # 0 /\ task'[c].pc = "set"
        /\ \A d \in Callers \ {c} : task'[d] = task[d]
        /\ task'[c].entry = task[c].entry
        /\ UNCHANGED <<in_flight, result, waiter_count>>
    BY <1>1, <1>2 DEF LoadReturns, TypeInv, Tasks
  <2>2. QED
    BY <2>1, MovesRefine
<1>3. ASSUME NEW c \in Callers, Notify(c) \/ DropNotify(c) PROVE UNCHANGED Promise!vars
  <2>1. /\ task[c].pc \in {"notify", "dropNotify"}
        /\ UNCHANGED <<in_flight, result, waiter_count>>
    BY <1>3 DEF Notify, DropNotify
  <2>2. /\ task'[c].pc \in {"remove", "dropRemove"} /\ task'[c].entry = task[c].entry
        /\ \A d \in Callers \ {c} :
             \/ task'[d] = task[d]
             \/ /\ task[d].pc = "waiting" /\ task'[d].pc = "woken"
                /\ task'[d].entry = task[d].entry
    BY <1>1, <1>3, NotifyEffect DEF Notify, DropNotify, Pcs
  <2>3. \A d \in Callers : task[d].entry = 0 => task[d].pc = "idle"
    BY <1>1 DEF TypeInv
  <2>4. \A d \in Callers :
          /\ task'[d].pc \in {"load", "set"} <=> task[d].pc \in {"load", "set"}
          /\ task'[d].entry = task[d].entry
          /\ task[d].entry = 0 => task'[d].answer = task[d].answer
    BY <2>1, <2>2, <2>3
  <2>5. QED
    BY <2>1, <2>4, MovesRefine
<1>4. ASSUME NEW c \in Callers, Register(c) PROVE UNCHANGED Promise!vars
  <2>1. task[c].pc = "register" /\ UNCHANGED <<in_flight, result, waiter_count>>
    BY <1>4 DEF Register
  <2>2. /\ task'[c].pc = "waiting" /\ task'[c].entry = task[c].entry
        /\ task'[c].answer = task[c].answer
        /\ \A d \in Callers \ {c} : task'[d] = task[d]
    BY <1>1, <1>4, ToEffect DEF Register, Pcs
  <2>3. QED
    BY <2>1, <2>2, MovesRefine
<1>5. CASE UNCHANGED vars
  BY <1>5, MovesRefine DEF vars
<1>6. QED
  BY <1>2, <1>3, <1>4, <1>5, JoinRefines, AddWaiterRefines, EndRefines, LeaderLeavesRefines,
     WokenRefines, CancelRefines DEF Next, Step

\* SingleFlight implements the promise: entries of one key never overlap, and a
\* call ends with the outcome of the entry that it joined, whoever is cancelled.
THEOREM AsyncKeepsPromise == Spec => KeepsPromise
<1>1. Promise!Init /\ [][Promise!Next]_(Promise!vars) => KeepsPromise
  BY DEF KeepsPromise, Promise!Spec
<1>2. QED
  BY <1>1, InitRefines, NextRefines, AsyncInvariant, PTL DEF Spec
===============================================================================

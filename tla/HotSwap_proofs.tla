---------------------------- MODULE HotSwap_proofs ----------------------------
(***************************************************************************)
(* Theorems about HotSwap, for any adapters, requests, budget and backend: *)
(* its types, that the published index is the active map between commands, *)
(* that what a request has pinned is the stack it routes with, that staged *)
(* adapters are counted, that a Preload that succeeds is within budget,    *)
(* and what holds only so long as no rollback is issued.                   *)
(*                                                                         *)
(* The index differs from the table only between a flip and its            *)
(* publication, where every active adapter has a cell and the store's      *)
(* index is older, so that install cannot refuse (IndexInv).  A stack is   *)
(* given up before its failures exceed the limit (SweepType).  What a      *)
(* request has seen stays true for two reasons: behind the worker's lock   *)
(* nothing moves meanwhile (MutexInv); without it, but also without        *)
(* rollbacks, a generation never comes back, so an index of the            *)
(* generation of the request's stack is an index of that stack (GenInv).   *)
(* Without rollbacks the cells of the index are the table's (CellsInv)     *)
(* and the generation of the KV cache tells its stack (KvInv).             *)
(***************************************************************************)
EXTENDS HotSwap, FiniteSetTheorems, SequenceTheorems, WellFoundedInduction, TLAPS

CmdPcs == {"idle", "budget", "rebudget", "evict", "reevict", "selfevict", "load", "stage",
           "drain", "attach", "cleanup", "commit", "publish", "retire", "finish",
           "republish", "reretire"}
CmdStates == [pc : CmdPcs, add : SUBSET Adapters, remove : SUBSET Adapters, old : Stacks,
              need : {0, 1}, cands : SUBSET Adapters, target : Int,
              victim : SUBSET Adapters]
ReqPcs == {"idle", "pin", "again", "hash", "coherence", "run"}
ReqStates == [pc : ReqPcs, tries : Nat, stack : Stacks, generation : Nat,
              pins : [Adapters -> Nat], hash : SUBSET Adapters]

\* The stacks, the ids and the kernels' adapters.
StackType ==
  /\ active \subseteq Adapters /\ staged \subseteq Adapters /\ attached \subseteq Adapters
  /\ gen \in Nat
  /\ saved \in Stacks \cup {NoStack}
  /\ retired \in Seq(Stacks)

\* The command under way; what is counted after the staging is resident, and
\* only an eviction has a victim.
CmdType ==
  /\ cmd \in CmdStates
  /\ cmd.victim # {} => Evicting
  /\ cmd.pc \in {"rebudget", "reevict", "selfevict"} => cmd.need = 0
  /\ issued \in 0..MaxCmds

\* The retirement task has a list of stacks while it works.
RetType ==
  /\ ret \in [pc : {"idle", "check", "detach", "remove"}, list : Seq(Stacks)]
  /\ ret.pc = "idle" <=> ret.list = <<>>

SweepPcs == {"idle", "check", "keep", "unload", "detach", "remove", "failed"}

\* The manager's task counts a failure only where it has not given the stack up.
SweepType ==
  /\ retries \in [0..MaxCmds -> 0..MaxRetries]
  /\ sweep \in [pc : SweepPcs, i : Nat, stack : Stacks, forced : BOOLEAN]
  /\ sweep.pc # "idle" => sweep.i # 0
  /\ sweep.pc \in {"detach", "failed"} /\ ~sweep.forced =>
       \A g \in 0..MaxCmds : g = sweep.stack.generation => retries[g] < MaxRetries

\* The requests and the cache they fill.
ReqType == req \in [Requests -> ReqStates] /\ kv \in Stacks

\* The refcount cells: whoever knows one, it was allocated.
CellType ==
  /\ refcounts \in [Adapters -> Nat] /\ alloc \in [Adapters -> Nat]
  /\ index \in [generation : Nat, cells : [Adapters -> Nat]]
  /\ \A a \in Adapters :
       /\ refcounts[a] <= alloc[a] /\ index.cells[a] <= alloc[a]
       /\ \A r \in Requests : req[r].pins[a] <= alloc[a]

TypeInv == StackType /\ CmdType /\ RetType /\ SweepType /\ ReqType /\ CellType

\* The adapters of the published index.
Published == {a \in Adapters : index.cells[a] # 0}

\* The index is that of the table, but between a flip and its publication.
IndexInv ==
  /\ cmd.pc \notin {"publish", "republish"} => index.generation = gen /\ Published = active
  /\ cmd.pc = "publish" => index.generation < gen /\ \A a \in active : refcounts[a] # 0
  /\ StagedCounted

\* Behind the worker's lock a request runs alone, and sees one stack.
MutexInv ==
  \A r \in Requests : req[r].pc # "idle" =>
    /\ cmd.pc = "idle"
    /\ req[r].pc \in {"pin", "hash", "coherence", "run"} => req[r].stack.active = active
    /\ req[r].pc \in {"hash", "coherence", "run"} => req[r].pins = index.cells
    /\ req[r].pc \in {"coherence", "run"} => req[r].hash = active

\* Without rollbacks a generation stands for one stack.
GenInv ==
  /\ cmd.pc \notin {"republish", "reretire"}
  /\ index.generation <= gen
  /\ cmd.pc = "publish" => index.generation < gen
  /\ \A r \in Requests :
       req[r].pc = "pin" =>
         /\ req[r].stack.generation <= gen
         /\ req[r].stack.generation = gen => req[r].stack.active = active
         /\ req[r].stack.generation = index.generation => req[r].stack.active = Published

\* Without rollbacks a published cell is the table's own.
CellsInv == cmd.pc # "publish" => \A a \in active : index.cells[a] = refcounts[a]

\* Without rollbacks, behind the lock, a cache of this generation is of this stack.
KvInv ==
  /\ kv.generation <= gen
  /\ kv.generation = gen => kv.active = active
  /\ \A r \in Requests :
       /\ req[r].pc \in {"pin", "hash", "coherence", "run"} => req[r].stack.generation = gen
       /\ req[r].pc \in {"hash", "coherence", "run"} => req[r].generation = gen
       /\ req[r].pc = "run" => kv.generation = gen
-------------------------------------------------------------------------------
(* Lists, sets and cells *)

\* A nonempty set of naturals has a smallest element (the library states it with
\* an operator parameter).
LEMMA SmallestOf ==
  ASSUME NEW S \in SUBSET Nat, S # {}
  PROVE  \E m \in S : \A k \in S : m <= k
<1> DEFINE R == OpToRel(<, Nat)
<1>1. IsWellFoundedOn(R, Nat)
  BY NatLessThanWellFounded
<1> HIDE DEF R
<1>2. PICK m \in S : \A k \in S : ~(<<k, m>> \in R)
  BY <1>1, WFMin
<1>3. ASSUME NEW k \in S PROVE m <= k
  <2>1. k \in Nat /\ m \in Nat
    BY <1>2
  <2>2. k < m => <<k, m>> \in R
    BY <2>1 DEF R, OpToRel
  <2>3. QED
    BY <1>2, <2>1, <2>2
<1>4. QED
  BY <1>3

\* The members of a set of naturals up to m, and up to its predecessor.
LEMMA UpToStep ==
  ASSUME NEW K \in SUBSET Nat, NEW m \in Nat, m # 0
  PROVE  /\ m \notin K => {j \in K : j <= m} = {j \in K : j <= m - 1}
         /\ m \in K => /\ {j \in K : j <= m} = {j \in K : j <= m - 1} \cup {m}
                       /\ m \notin {j \in K : j <= m - 1}
<1>1. \A j \in K : j <= m <=> j <= m - 1 \/ j = m
  OBVIOUS
<1>2. ~(m <= m - 1)
  OBVIOUS
<1>3. m \notin K => {j \in K : j <= m} = {j \in K : j <= m - 1}
  BY <1>1
<1>4. m \in K => {j \in K : j <= m} = {j \in K : j <= m - 1} \cup {m}
  BY <1>1, Zenon
<1>5. QED
  BY <1>2, <1>3, <1>4

\* What remove_adapter_from_retired leaves is a list of stacks: the n-th of the
\* stacks that are kept exists.
LEMMA RetiredWithoutType ==
  ASSUME retired \in Seq(Stacks), NEW a
  PROVE  RetiredWithout(a) \in Seq(Stacks)
<1> DEFINE len == Len(retired)
           kept == {k \in 1..len : retired[k].active # {a}}
           UpTo(k) == {j \in kept : j <= k}
<1>1. len \in Nat
  BY LenProperties
<1>2. IsFiniteSet(kept) /\ \A k : IsFiniteSet(UpTo(k))
  <2>1. IsFiniteSet(1..len)
    BY <1>1, FS_Interval
  <2>2. QED
    BY <2>1, FS_Subset
<1>3. Cardinality(kept) \in Nat /\ \A k : Cardinality(UpTo(k)) \in Nat
  BY <1>2, FS_CardinalityType
<1>4. ASSUME NEW n \in 1..Cardinality(kept)
      PROVE  \E k \in kept : Cardinality(UpTo(k)) = n
  <2> DEFINE S == {m \in 0..len : Cardinality(UpTo(m)) >= n}
  <2>1. n \in Nat /\ n >= 1 /\ n <= Cardinality(kept)
    BY <1>3, <1>4
  <2>2. UpTo(len) = kept /\ UpTo(0) = {}
    BY <1>1
  <2>3. Cardinality(UpTo(len)) >= n
    BY <2>1, <2>2
  <2>4. len \in S /\ S \in SUBSET Nat
    <3> HIDE DEF UpTo
    <3>1. QED
      BY <1>1, <2>3
  <2>5. PICK m \in S : \A k \in S : m <= k
    <3> HIDE DEF S
    <3>1. QED
      BY <2>4, SmallestOf
  <2>6. m \in 0..len /\ Cardinality(UpTo(m)) >= n
    BY <2>5
  <2>7. m # 0
    <3>1. Cardinality(UpTo(0)) = 0
      BY <2>2, FS_EmptySet
    <3> HIDE DEF UpTo
    <3>2. QED
      BY <2>1, <2>6, <3>1
  <2>8. m - 1 \in 0..len /\ ~(Cardinality(UpTo(m - 1)) >= n)
    <3>1. m - 1 \in 0..len /\ ~(m <= m - 1)
      BY <1>1, <2>6, <2>7
    <3>2. m - 1 \notin S
      <4> HIDE DEF S
      <4>1. QED
        BY <2>5, <3>1
    <3> HIDE DEF UpTo
    <3>3. QED
      BY <3>1, <3>2
  <2>9. kept \in SUBSET Nat /\ m \in Nat /\ m # 0
    BY <1>1, <2>5, <2>7
  <2>10. m \in kept
    <3>1. m \notin kept => UpTo(m) = UpTo(m - 1)
      BY <2>9, UpToStep
    <3>2. QED
      BY <2>6, <2>8, <3>1
  <2>11. Cardinality(UpTo(m)) = Cardinality(UpTo(m - 1)) + 1
    <3>2. UpTo(m) = UpTo(m - 1) \cup {m} /\ m \notin UpTo(m - 1)
      BY <2>9, <2>10, UpToStep
    <3> HIDE DEF UpTo
    <3>3. Cardinality(UpTo(m - 1) \cup {m}) = Cardinality(UpTo(m - 1)) + 1
      BY <1>2, <3>2, FS_AddElement
    <3>4. QED
      BY <3>2, <3>3
  <2> HIDE DEF UpTo, S, kept
  <2>12. Cardinality(UpTo(m)) = n
    BY <1>3, <2>1, <2>6, <2>8, <2>11
  <2>13. QED
    BY <2>10, <2>12
<1> DEFINE Nth(n) == CHOOSE k \in kept : Cardinality(UpTo(k)) = n
           new(n) == [generation |-> retired[Nth(n)].generation,
                      active |-> retired[Nth(n)].active \ {a}]
<1>5. ASSUME NEW n \in 1..Cardinality(kept) PROVE new(n) \in Stacks
  <2>1. Nth(n) \in kept
    BY <1>4, <1>5
  <2> HIDE DEF Nth
  <2>2. retired[Nth(n)] \in Stacks
    BY <2>1
  <2>3. QED
    BY <2>2 DEF Stacks
<1> HIDE DEF Nth, new
<1>6. [n \in 1..Cardinality(kept) |-> new(n)] \in [1..Cardinality(kept) -> Stacks]
  BY <1>5
<1> HIDE DEF kept, UpTo
<1>7. [n \in 1..Cardinality(kept) |-> new(n)] \in Seq(Stacks)
  BY <1>3, <1>6, IsASeq
<1>8. QED
  BY <1>7 DEF RetiredWithout, kept, UpTo, Nth, new

\* A list of stacks without one of them is a list of stacks.
LEMMA RemovedType ==
  ASSUME NEW s \in Seq(Stacks), NEW pos \in 1..Len(s)
  PROVE  SubSeq(s, 1, pos - 1) \o SubSeq(s, pos + 1, Len(s)) \in Seq(Stacks)
<1>1. Len(s) \in Nat /\ \A i \in 1..Len(s) : s[i] \in Stacks
  BY LenProperties
<1>2. SubSeq(s, 1, pos - 1) \in Seq(Stacks)
  <2>1. 1 \in Int /\ pos - 1 \in Int /\ \A i \in 1..(pos - 1) : s[i] \in Stacks
    BY <1>1
  <2>2. QED
    BY <2>1, SubSeqProperties
<1>3. SubSeq(s, pos + 1, Len(s)) \in Seq(Stacks)
  <2>1. pos + 1 \in Int /\ Len(s) \in Int /\ \A i \in (pos + 1)..Len(s) : s[i] \in Stacks
    BY <1>1
  <2>2. QED
    BY <2>1, SubSeqProperties
<1>4. QED
  BY <1>2, <1>3, ConcatProperties

\* The first stack of a generation is one of the list.
LEMMA FirstOfType ==
  ASSUME retired \in Seq(Stacks), NEW g, RetiredOf(g) # {}
  PROVE  FirstOf(g) \in 1..Len(retired)
<1>1. RetiredOf(g) \in SUBSET Nat
  BY DEF RetiredOf
<1>2. \E k \in RetiredOf(g) : \A j \in RetiredOf(g) : k <= j
  BY <1>1, SmallestOf
<1>3. FirstOf(g) \in RetiredOf(g)
  BY <1>2 DEF FirstOf
<1>4. QED
  BY <1>3 DEF RetiredOf

\* A list of stacks stays one when its first stack of a generation goes.
LEMMA RemoveGenerationType ==
  ASSUME retired \in Seq(Stacks), NEW g, RemoveGeneration(g)
  PROVE  retired' \in Seq(Stacks)
<1>1. CASE RetiredOf(g) = {}
  BY <1>1 DEF RemoveGeneration
<1>2. CASE RetiredOf(g) # {}
  <2>1. FirstOf(g) \in 1..Len(retired)
    BY <1>2, FirstOfType
  <2>2. RemovedAt(FirstOf(g)) \in Seq(Stacks)
    BY <2>1, RemovedType DEF RemovedAt
  <2>3. QED
    BY <1>2, <2>2 DEF RemoveGeneration
<1>3. QED
  BY <1>1, <1>2

\* The ids of the retired stacks are adapters.
LEMMA RetiredIdsType ==
  ASSUME StackType
  PROVE  RetiredIds \subseteq Adapters
<1>1. \A k \in 1..Len(retired) : retired[k] \in Stacks
  BY LenProperties DEF StackType
<1>2. QED
  BY <1>1 DEF RetiredIds, Stacks

\* The resident adapters can be counted.
LEMMA ResidentFinite ==
  ASSUME StackType
  PROVE  Resident \subseteq Adapters /\ Cardinality(Resident) \in Nat
<1>1. Resident \subseteq Adapters
  BY RetiredIdsType DEF Resident, StackType
<1>2. QED
  BY <1>1, FS_Subset, FS_CardinalityType, HotSwapAssumption

\* New cells: every id of S has one, no id loses or changes its own, and
\* nothing allocated is forgotten.
LEMMA AllocateEffect ==
  ASSUME refcounts \in [Adapters -> Nat], alloc \in [Adapters -> Nat],
         \A a \in Adapters : refcounts[a] <= alloc[a],
         NEW S, Allocate(S)
  PROVE  /\ refcounts' \in [Adapters -> Nat] /\ alloc' \in [Adapters -> Nat]
         /\ \A a \in Adapters : refcounts'[a] <= alloc'[a] /\ alloc[a] <= alloc'[a]
         /\ \A a \in Adapters : refcounts[a] # 0 => refcounts'[a] # 0
         /\ \A a \in Adapters : a \in S => refcounts'[a] # 0
BY DEF Allocate
-------------------------------------------------------------------------------
(* What the parts leave alone *)

\* Commands leave requests and the retirement tasks alone.
LEMMA CmdFrame ==
  ASSUME CmdBegin \/ CmdStep
  PROVE  UNCHANGED <<kv, ret, sweep, req>>
<1>1. CASE CmdBegin
  BY <1>1 DEF CmdBegin, Preload, Swap, Rollback, tasks
<1>2. CASE CmdStep
  BY <1>2 DEF tasks, CmdStep, EnforceBudget, EvictCheck, EvictApply, EvictDone, LoadRefused, LoadOk,
     LoadFails, Stage, DrainRefs, AttachStaged, CleanupStaged, SwapCommit, SwapPublish,
     SwapRetire, SwapFinish, RollbackPublish, RollbackRetire
<1>3. QED
  BY <1>1, <1>2

\* The retirement tasks change the retired stacks and what is attached.
LEMMA RetireFrame ==
  ASSUME RetireStep \/ SweepStep
  PROVE  UNCHANGED <<active, gen, staged, saved, refcounts, alloc, index, kv, cmd, req, issued>>
<1>1. CASE RetireStep
  BY <1>1 DEF RetireStep, RetireClone, RetireCheck, RetireDetach, RetireRemove, table
<1>2. CASE SweepStep
  BY <1>2 DEF SweepStep, SweepBegin, SweepCheck, SweepSkip, Quarantine, SweepTake, SweepDetach,
     SweepRemove, SweepFailed, SweepOnly
<1>3. QED
  BY <1>1, <1>2

\* Each task leaves the other alone, and the worker's does not count.
LEMMA TasksApart ==
  /\ RetireStep => UNCHANGED <<retries, sweep>>
  /\ SweepStep => UNCHANGED ret
<1>1. RetireStep => UNCHANGED <<retries, sweep>>
  BY DEF RetireStep, RetireClone, RetireCheck, RetireDetach, RetireRemove, table
<1>2. SweepStep => UNCHANGED ret
  BY DEF SweepStep, SweepBegin, SweepCheck, SweepSkip, Quarantine, SweepTake, SweepDetach,
     SweepRemove, SweepFailed, SweepOnly
<1>3. QED
  BY <1>1, <1>2

\* Requests change only themselves and the KV cache.
LEMMA ReqFrame ==
  ASSUME NEW r \in Requests, ReqStep(r)
  PROVE  UNCHANGED <<active, gen, staged, saved, refcounts, alloc, retired, retries, index,
                     attached, cmd, ret, sweep, issued>>
BY DEF ReqStep, ReqHandle, ReqPin, ReqEmpty, ReqHash, ReqRun, ReqEnd, table, tasks
-------------------------------------------------------------------------------
(* The types are kept *)

\* Maps, generation, rollback state and retired stacks.
LEMMA StackKept ==
  ASSUME TypeInv, Next
  PROVE  StackType'
<1> USE DEF TypeInv, StackType
<1>1. ASSUME NEW a \in Adapters, EvictApply(a) PROVE StackType'
  <2>1. CASE DetachOk(a)
    <3>1. retired' \in Seq(Stacks)
      BY <1>1, <2>1, RetiredWithoutType DEF EvictApply, Forget
    <3>2. QED
      BY <1>1, <2>1, <3>1 DEF EvictApply, Forget
  <2>2. QED
    BY <1>1, <2>1 DEF EvictApply, table
<1>2. CASE LoadOk \/ LoadFails \/ Stage \/ CleanupStaged
  BY <1>2 DEF LoadOk, LoadFails, Stage, CleanupStaged, CmdType, CmdStates, table
<1>3. CASE SwapCommit
  BY <1>3 DEF SwapCommit, CmdType, CmdStates, Stacks
<1>4. CASE SwapRetire \/ RollbackRetire
  <2>1. cmd.old \in Stacks
    BY DEF CmdType, CmdStates
  <2>2. Append(retired, cmd.old) \in Seq(Stacks)
    BY <2>1, AppendProperties
  <2>3. QED
    BY <1>4, <2>2 DEF SwapRetire, RollbackRetire
<1>5. CASE SwapFinish
  BY <1>5 DEF SwapFinish, table
<1>6. CASE Rollback
  <2>1. saved \in Stacks
    BY <1>6 DEF Rollback
  <2>2. QED
    BY <1>6, <2>1 DEF Rollback, Stacks
<1>7. ASSUME NEW ids, NEW ok, Detach(ids, ok),
             UNCHANGED <<active, gen, staged, saved, retired>>
      PROVE  StackType'
  BY <1>7 DEF Detach
<1>8. ASSUME retired' \in Seq(Stacks), UNCHANGED <<active, gen, staged, saved, attached>>
      PROVE  StackType'
  BY <1>8
<1>9. CASE UNCHANGED <<table, attached>>
  BY <1>9 DEF table
<1>10. CASE CmdBegin
  <2>1. CmdBegin => Rollback \/ UNCHANGED <<table, attached>>
    BY DEF CmdBegin, Preload, Swap
  <2>2. QED
    BY <1>6, <1>9, <1>10, <2>1
<1>11. CASE CmdStep
  <2>1. EnforceBudget \/ EvictDone \/ LoadRefused \/ DrainRefs \/ AttachStaged \/ SwapPublish
          => UNCHANGED <<table, attached>>
    BY DEF EnforceBudget, EvictDone, LoadRefused, DrainRefs, AttachStaged, SwapPublish
  <2>2. ASSUME NEW a \in Adapters, EvictCheck(a) PROVE StackType'
    BY <1>9, <2>2 DEF EvictCheck
  <2>3. CASE RollbackPublish
    BY <2>3 DEF RollbackPublish
  <2>4. QED
    BY <1>1, <1>2, <1>3, <1>4, <1>5, <1>9, <1>11, <2>1, <2>2, <2>3 DEF CmdStep
<1>12. CASE RetireStep \/ SweepStep
  <2>1. UNCHANGED <<active, gen, staged, saved>>
    BY <1>12, RetireFrame
  <2>2. CASE RetireClone \/ RetireCheck
    BY <1>9, <2>2 DEF RetireClone, RetireCheck
  <2>3. CASE RetireDetach
    BY <1>7, <2>3 DEF RetireDetach, table
  <2>4. CASE RetireRemove
    BY <1>8, <2>1, <2>4, RemoveGenerationType DEF RetireRemove
  <2>5. CASE SweepDetach
    BY <1>7, <2>1, <2>5 DEF SweepDetach, ListKept
  <2>6. CASE SweepRemove
    BY <1>8, <2>1, <2>6, RemoveGenerationType DEF SweepRemove
  <2>7. CASE Quarantine
    <3>1. sweep.i \in 1..Len(retired)
      BY <2>7, LenProperties DEF Quarantine, InPlace, SweepType
    <3>2. RemovedAt(sweep.i) \in Seq(Stacks)
      BY <3>1, RemovedType DEF RemovedAt
    <3>3. QED
      BY <1>8, <2>1, <2>7, <3>2 DEF Quarantine
  <2>8. CASE UNCHANGED <<retired, attached>>
    BY <2>1, <2>8
  <2>9. QED
    BY <1>12, <2>2, <2>3, <2>4, <2>5, <2>6, <2>7, <2>8 DEF RetireStep, SweepStep, SweepBegin,
       SweepCheck, SweepSkip, SweepTake, SweepFailed, ListKept
<1>13. ASSUME NEW r \in Requests, ReqStep(r) PROVE StackType'
  <2>1. UNCHANGED <<table, attached>>
    BY <1>13 DEF ReqStep, ReqHandle, ReqPin, ReqEmpty, ReqHash, ReqRun, ReqEnd
  <2>2. QED
    BY <1>9, <2>1
<1>14. QED
  BY <1>10, <1>11, <1>12, <1>13 DEF Next

\* The command under way.
LEMMA CmdKept ==
  ASSUME TypeInv, Next
  PROVE  CmdType'
<1> USE DEF CmdPcs, CmdStates
<1>0. /\ EmptyStack \in Stacks /\ [generation |-> gen, active |-> active] \in Stacks
      /\ MaxCmds \in Nat
  BY HotSwapAssumption DEF EmptyStack, Stacks, TypeInv, StackType
<1>1. IdleCmd \in CmdStates /\ IdleCmd.victim = {} /\ IdleCmd.pc = "idle"
  BY <1>0 DEF IdleCmd
<1>2. CASE CmdBegin
  <2>1. ASSUME NEW c \in CmdStates, BeginCmd(c), c.victim = {},
               c.pc \notin {"rebudget", "reevict", "selfevict"}
        PROVE  CmdType'
    BY <1>0, <2>1 DEF BeginCmd, TypeInv, CmdType, Evicting
  <2>2. ASSUME NEW a \in Adapters, Preload(a) PROVE CmdType'
    <3> DEFINE c == [IdleCmd EXCEPT !.pc = "budget", !.add = {a},
                                    !.need = IF a \in Resident THEN 0 ELSE 1]
    <3>1. c \in CmdStates /\ c.victim = {} /\ c.pc = "budget"
      BY <1>1
    <3>2. BeginCmd(c)
      BY <2>2 DEF Preload
    <3> HIDE DEF c
    <3>3. QED
      BY <2>1, <3>1, <3>2
  <2>3. ASSUME NEW add \in SUBSET Adapters, NEW remove \in SUBSET Adapters, Swap(add, remove)
        PROVE  CmdType'
    <3>1. PICK ok \in BOOLEAN :
            BeginCmd([IdleCmd EXCEPT !.add = add, !.remove = remove,
                        !.pc = IF ~ok \/ ~(add \subseteq staged) THEN "cleanup"
                               ELSE IF remove = {} THEN "attach" ELSE "drain"])
      BY <2>3 DEF Swap
    <3> DEFINE c == [IdleCmd EXCEPT !.add = add, !.remove = remove,
                        !.pc = IF ~ok \/ ~(add \subseteq staged) THEN "cleanup"
                               ELSE IF remove = {} THEN "attach" ELSE "drain"]
    <3>2. c \in CmdStates /\ c.victim = {} /\ c.pc \in {"cleanup", "attach", "drain"}
      BY <1>1
    <3>3. BeginCmd(c)
      BY <3>1
    <3> HIDE DEF c
    <3>4. QED
      BY <2>1, <3>2, <3>3
  <2>4. CASE Rollback
    <3> DEFINE c == [IdleCmd EXCEPT !.pc = "republish",
                       !.old = [generation |-> gen, active |-> active]]
    <3>1. c \in CmdStates /\ c.victim = {} /\ c.pc = "republish"
      BY <1>0, <1>1
    <3>2. BeginCmd(c)
      BY <2>4 DEF Rollback
    <3> HIDE DEF c
    <3>3. QED
      BY <2>1, <3>1, <3>2
  <2>5. QED
    BY <1>2, <2>2, <2>3, <2>4 DEF CmdBegin
<1>3. CASE CmdStep
  <2>1. CASE cmd' = IdleCmd /\ issued' = issued
    BY <1>1, <2>1 DEF TypeInv, CmdType, Evicting
  <2>2. CASE EnforceBudget
    <3> DEFINE cands == {a \in (staged \cup RetiredIds) \ cmd.add :
                           a \notin active /\ Refs(a, refcounts[a]) = 0}
    <3>1. cands \in SUBSET Adapters
      BY RetiredIdsType DEF TypeInv, StackType
    <3>2. Over(cmd.need) \in Int
      BY ResidentFinite, HotSwapAssumption DEF Over, TypeInv, CmdType
    <3> HIDE DEF cands
    <3>3. /\ issued' = issued
          /\ \/ cmd' = IdleCmd
             \/ cmd' = [cmd EXCEPT !.pc = "load"]
             \/ cmd.pc = "budget" /\ cmd' = [cmd EXCEPT !.pc = "evict",
                                               !.target = Over(cmd.need), !.cands = cands]
             \/ cmd.pc = "rebudget" /\ cmd' = [cmd EXCEPT !.pc = "reevict",
                                                 !.target = Over(cmd.need), !.cands = cands]
          /\ cmd.pc \in {"budget", "rebudget"}
      BY <2>2 DEF EnforceBudget, cands
    <3>4. QED
      BY <2>1, <3>1, <3>2, <3>3 DEF TypeInv, CmdType, Evicting
  <2>3. ASSUME NEW a \in Adapters, EvictCheck(a) PROVE CmdType'
    BY <2>3 DEF EvictCheck, TypeInv, CmdType, Evicting
  <2>4. ASSUME NEW a \in Adapters, EvictApply(a) PROVE CmdType'
    <3>1. /\ issued' = issued
          /\ \/ cmd' = [cmd EXCEPT !.victim = {}, !.target = @ - 1]
             \/ cmd' = [cmd EXCEPT !.victim = {}]
      BY <2>4 DEF EvictApply
    <3>2. cmd \in CmdStates /\ cmd.target \in Int /\ cmd.target - 1 \in Int
      BY DEF TypeInv, CmdType
    <3>3. /\ cmd' \in CmdStates /\ cmd'.victim = {}
          /\ cmd'.pc = cmd.pc /\ cmd'.need = cmd.need
      BY <3>1, <3>2
    <3>4. QED
      BY <3>1, <3>3 DEF TypeInv, CmdType, Evicting
  <2>5. CASE EvictDone
    <3>1. /\ issued' = issued
          /\ cmd.victim = {}
          /\ \/ cmd' = IdleCmd
             \/ cmd' = [cmd EXCEPT !.pc = "load"]
             \/ cmd.pc = "reevict" /\ cmd' = [cmd EXCEPT !.pc = "selfevict",
                                                !.cands = cmd.add, !.target = 1]
      BY <2>5 DEF EvictDone
    <3>2. CASE cmd' = [cmd EXCEPT !.pc = "load"]
      BY <3>1, <3>2 DEF TypeInv, CmdType, Evicting
    <3>3. CASE /\ cmd.pc = "reevict"
               /\ cmd' = [cmd EXCEPT !.pc = "selfevict", !.cands = cmd.add, !.target = 1]
      <4>1. cmd \in CmdStates /\ cmd.add \in SUBSET Adapters /\ cmd.need = 0
        BY <3>3 DEF TypeInv, CmdType
      <4>2. PICK add \in SUBSET Adapters : add = cmd.add
        BY <4>1
      <4>3. cmd' = [cmd EXCEPT !.pc = "selfevict", !.cands = add, !.target = 1]
        BY <3>3, <4>2
      <4>4. "selfevict" \in CmdPcs /\ 1 \in Int /\ cmd \in CmdStates
        BY <4>1
      <4>5. cmd' \in CmdStates
        <5> HIDE DEF CmdPcs
        <5>1. QED
          BY <4>2, <4>3, <4>4
      <4>6. cmd'.pc = "selfevict" /\ cmd'.need = 0
        BY <4>1, <4>3
      <4>7. QED
        BY <3>1, <4>5, <4>6 DEF TypeInv, CmdType, Evicting
    <3>4. QED
      BY <2>1, <3>1, <3>2, <3>3
  <2>6. CASE LoadRefused \/ LoadFails \/ CleanupStaged \/ SwapFinish \/ RollbackRetire
    BY <2>1, <2>6 DEF LoadRefused, LoadFails, CleanupStaged, SwapFinish, RollbackRetire
  <2>7. CASE LoadOk
    BY <2>7 DEF LoadOk, CmdTo, TypeInv, CmdType, Evicting
  <2>8. CASE Stage
    BY <2>8 DEF Stage, TypeInv, CmdType, Evicting
  <2>9. ASSUME NEW pc \in {"attach", "cleanup", "commit", "retire", "finish", "reretire"},
               CmdTo(pc), cmd.victim = {}, issued' = issued
        PROVE  CmdType'
    BY <2>9 DEF CmdTo, TypeInv, CmdType, Evicting
  <2>10. CASE DrainRefs \/ AttachStaged \/ SwapPublish \/ SwapRetire \/ RollbackPublish
    <3>1. cmd.victim = {}
      BY <2>10 DEF DrainRefs, AttachStaged, SwapPublish, SwapRetire, RollbackPublish,
                   TypeInv, CmdType, Evicting
    <3>2. QED
      BY <2>9, <2>10, <3>1
         DEF DrainRefs, AttachStaged, SwapPublish, SwapRetire, RollbackPublish
  <2>11. CASE SwapCommit
    BY <1>0, <2>11 DEF SwapCommit, TypeInv, CmdType, Evicting
  <2>12. QED
    BY <1>3, <2>2, <2>3, <2>4, <2>5, <2>6, <2>7, <2>8, <2>10, <2>11 DEF CmdStep
<1>4. CASE RetireStep \/ SweepStep \/ \E r \in Requests : ReqStep(r)
  BY <1>4, RetireFrame, ReqFrame DEF TypeInv, CmdType, Evicting
<1>5. QED
  BY <1>2, <1>3, <1>4 DEF Next

\* The retirement task never runs past the end of its list.
LEMMA RetKept ==
  ASSUME TypeInv, Next
  PROVE  RetType'
<1>1. ASSUME ret.pc # "idle"
      PROVE  /\ NextStack \in [pc : {"idle", "check"}, list : Seq(Stacks)]
             /\ NextStack.pc = "idle" <=> NextStack.list = <<>>
  <2>1. ret.list \in Seq(Stacks) /\ ret.list # <<>>
    BY <1>1 DEF TypeInv, RetType
  <2>2. Tail(ret.list) \in Seq(Stacks) /\ Len(Tail(ret.list)) = Len(ret.list) - 1
    BY <2>1, HeadTailProperties
  <2>3. Len(ret.list) \in Nat /\ (Tail(ret.list) = <<>> <=> Len(Tail(ret.list)) = 0)
    BY <2>1, <2>2, LenProperties, EmptySeq
  <2>4. Len(ret.list) # 0
    BY <2>1, EmptySeq
  <2>5. /\ NextStack.list = Tail(ret.list)
        /\ NextStack.pc = IF Len(ret.list) > 1 THEN "check" ELSE "idle"
    BY DEF NextStack
  <2>6. Len(ret.list) > 1 <=> Tail(ret.list) # <<>>
    <3>1. PICK n \in Nat : n = Len(ret.list)
      BY <2>3
    <3>2. Tail(ret.list) = <<>> <=> n - 1 = 0
      BY <2>2, <2>3, <3>1
    <3>3. n # 0
      BY <2>4, <3>1
    <3>4. n > 1 <=> n - 1 # 0
      BY <3>3
    <3>5. QED
      BY <3>1, <3>2, <3>4
  <2>7. NextStack \in [pc : {"idle", "check"}, list : Seq(Stacks)]
    BY <2>2 DEF NextStack
  <2>8. QED
    BY <2>5, <2>6, <2>7
<1>2. CASE RetireStep
  <2>1. CASE ret' = NextStack /\ ret.pc # "idle"
    BY <1>1, <2>1 DEF RetType
  <2>2. CASE RetireClone
    BY <2>2 DEF RetireClone, TypeInv, StackType, RetType
  <2>3. ASSUME NEW pc \in {"detach", "remove"}, ret' = [ret EXCEPT !.pc = pc], ret.pc # "idle"
        PROVE  RetType'
    BY <2>3 DEF TypeInv, RetType
  <2>4. CASE RetireCheck
    BY <2>1, <2>3, <2>4 DEF RetireCheck
  <2>5. CASE RetireDetach
    BY <2>1, <2>3, <2>5 DEF RetireDetach
  <2>6. CASE RetireRemove
    BY <2>1, <2>6 DEF RetireRemove
  <2>7. QED
    BY <1>2, <2>2, <2>4, <2>5, <2>6 DEF RetireStep
<1>3. CASE CmdBegin \/ CmdStep \/ SweepStep \/ \E r \in Requests : ReqStep(r)
  BY <1>3, CmdFrame, TasksApart, ReqFrame DEF TypeInv, RetType
<1>4. QED
  BY <1>2, <1>3 DEF Next

\* The manager's task goes on to a stack of the list, or rests.
LEMMA SweepAtType ==
  ASSUME TypeInv, NEW list \in Seq(Stacks), NEW i \in Nat \ {0}, SweepAt(i, list)
  PROVE  /\ sweep' \in [pc : SweepPcs, i : Nat, stack : Stacks, forced : BOOLEAN]
         /\ sweep'.pc \in {"idle", "check"} /\ (sweep'.pc # "idle" => sweep'.i # 0)
<1>1. sweep \in [pc : SweepPcs, i : Nat, stack : Stacks, forced : BOOLEAN]
  BY DEF TypeInv, SweepType
<1>2. CASE i <= Len(list)
  <2>1. PICK st \in Stacks : st = list[i]
    BY <1>2, LenProperties
  <2>2. sweep' = [sweep EXCEPT !.pc = "check", !.i = i, !.stack = st]
    BY <1>2, <2>1 DEF SweepAt
  <2>3. QED
    BY <1>1, <2>2 DEF SweepPcs
<1>3. CASE ~(i <= Len(list))
  BY <1>3 DEF SweepAt, IdleSweep, EmptyStack, Stacks, SweepPcs
<1>4. QED
  BY <1>2, <1>3

\* A generation is given up before its failures exceed the limit.
LEMMA SweepKept ==
  ASSUME TypeInv, Next
  PROVE  SweepType'
<1>1. /\ retries \in [0..MaxCmds -> 0..MaxRetries] /\ MaxRetries \in Nat /\ MaxCmds \in Nat
      /\ sweep \in [pc : SweepPcs, i : Nat, stack : Stacks, forced : BOOLEAN]
      /\ retired \in Seq(Stacks)
  BY HotSwapAssumption DEF TypeInv, SweepType, StackType
<1>2. ASSUME sweep' = sweep, retries' \in [0..MaxCmds -> 0..MaxRetries],
             \A g \in 0..MaxCmds : retries'[g] <= retries[g]
      PROVE  SweepType'
  <2>1. ASSUME sweep.pc \in {"detach", "failed"}, ~sweep.forced,
               NEW g \in 0..MaxCmds, g = sweep.stack.generation
        PROVE  retries'[g] < MaxRetries
    <3>1. retries[g] < MaxRetries
      BY <2>1 DEF TypeInv, SweepType
    <3>2. retries'[g] <= retries[g] /\ retries'[g] \in Nat /\ retries[g] \in Nat
      BY <1>1, <1>2
    <3>3. QED
      BY <1>1, <3>1, <3>2
  <2>2. QED
    BY <1>1, <1>2, <2>1 DEF TypeInv, SweepType
<1>3. CASE UNCHANGED <<retries, sweep>>
  BY <1>3 DEF TypeInv, SweepType
<1>4. CASE CmdBegin \/ CmdStep
  <2>1. sweep' = sweep
    BY <1>4, CmdFrame
  <2>2. ASSUME NEW a \in Adapters, Forget(a) PROVE SweepType'
    <3> DEFINE emptied(g) == \E k \in 1..Len(retired) :
                               retired[k] = [generation |-> g, active |-> {a}]
    <3>1. retries' = [g \in 0..MaxCmds |-> IF emptied(g) THEN 0 ELSE retries[g]]
      BY <2>2 DEF Forget
    <3> HIDE DEF emptied
    <3>2. /\ retries' \in [0..MaxCmds -> 0..MaxRetries]
          /\ \A g \in 0..MaxCmds : retries'[g] <= retries[g]
      BY <1>1, <3>1
    <3>3. QED
      BY <1>2, <2>1, <3>2
  <2>3. ASSUME NEW a \in Adapters, EvictApply(a) PROVE SweepType'
    BY <1>3, <2>1, <2>2, <2>3 DEF EvictApply, table
  <2>4. ASSUME NEW a \in Adapters, EvictCheck(a) PROVE SweepType'
    BY <1>3, <2>1, <2>4 DEF EvictCheck, table
  <2>5. CASE CmdBegin
    BY <1>3, <2>1, <2>5 DEF CmdBegin, Preload, Swap, Rollback, table
  <2>6. CASE CmdStep
    BY <1>3, <2>1, <2>3, <2>4, <2>6 DEF CmdStep, EnforceBudget, EvictDone, LoadRefused, LoadOk,
       LoadFails, Stage, DrainRefs, AttachStaged, CleanupStaged, SwapCommit, SwapPublish,
       SwapRetire, SwapFinish, RollbackPublish, RollbackRetire, table
  <2>7. QED
    BY <1>4, <2>5, <2>6
<1>5. CASE RetireStep
  BY <1>3, <1>5, TasksApart
<1>6. ASSUME NEW r \in Requests, ReqStep(r) PROVE SweepType'
  BY <1>3, <1>6, ReqFrame
<1>7. CASE SweepStep
  <2>1. ASSUME sweep' \in [pc : SweepPcs, i : Nat, stack : Stacks, forced : BOOLEAN],
               sweep'.pc \notin {"detach", "failed"}, sweep'.pc # "idle" => sweep'.i # 0,
               retries' \in [0..MaxCmds -> 0..MaxRetries]
        PROVE  SweepType'
    BY <2>1 DEF SweepType
  <2>2. ASSUME NEW g PROVE [retries EXCEPT ![g] = 0] \in [0..MaxCmds -> 0..MaxRetries]
    BY <1>1
  <2>3. sweep.i \in Nat /\ sweep.i + 1 \in Nat \ {0}
    BY <1>1
  <2>0. sweep.pc # "idle" => sweep.i # 0
    BY DEF TypeInv, SweepType
  <2>4. ASSUME NEW forced \in BOOLEAN, SweepBegin(forced) PROVE SweepType'
    <3>1. Len(retired) \in Nat /\ Len(retired) # 0
      BY <1>1, <2>4, LenProperties, EmptySeq DEF SweepBegin
    <3>2. PICK st \in Stacks : st = retired[1]
      BY <1>1, <3>1, LenProperties
    <3>3. sweep' = [pc |-> "check", i |-> 1, stack |-> st, forced |-> forced]
      BY <2>4, <3>2 DEF SweepBegin
    <3>4. /\ sweep' \in [pc : SweepPcs, i : Nat, stack : Stacks, forced : BOOLEAN]
          /\ sweep'.pc = "check" /\ sweep'.i = 1
      BY <3>3 DEF SweepPcs
    <3>5. QED
      BY <1>1, <2>1, <2>4, <3>4 DEF SweepBegin, ListKept
  <2>5. CASE SweepCheck
    <3>1. sweep' = [sweep EXCEPT !.pc = "unload"] \/ sweep' = [sweep EXCEPT !.pc = "keep"]
      BY <2>5 DEF SweepCheck
    <3>2. /\ sweep' \in [pc : SweepPcs, i : Nat, stack : Stacks, forced : BOOLEAN]
          /\ sweep'.pc \in {"unload", "keep"} /\ sweep'.i = sweep.i
      BY <1>1, <3>1 DEF SweepPcs
    <3>3. QED
      BY <1>1, <2>1, <2>5, <2>0, <3>2 DEF SweepCheck, ListKept
  <2>6. CASE SweepSkip
    <3>1. SweepAt(sweep.i + 1, retired) /\ retries' = retries
      BY <2>6 DEF SweepSkip, ListKept
    <3>2. QED
      BY <1>1, <2>1, <2>3, <3>1, SweepAtType
  <2>8. CASE Quarantine
    <3>1. SweepAt(sweep.i, retired')
      BY <2>8 DEF Quarantine
    <3>2. retired' \in Seq(Stacks)
      BY StackKept DEF StackType
    <3>3. retries' \in [0..MaxCmds -> 0..MaxRetries]
      BY <2>2, <2>8 DEF Quarantine
    <3>4. sweep.i \in Nat \ {0}
      BY <2>3, <2>0, <2>8 DEF Quarantine
    <3>5. QED
      BY <2>1, <3>1, <3>2, <3>3, <3>4, SweepAtType
  <2>9. CASE SweepTake
    <3>1. InPlace /\ ~GiveUp /\ retries' = retries
      BY <2>9 DEF SweepTake, ListKept
    <3>2. sweep.i \in 1..Len(retired)
      BY <1>1, <2>3, <2>0, <2>9, <3>1, LenProperties DEF SweepTake, InPlace
    <3>3. PICK st \in Stacks : st = retired[sweep.i]
      BY <1>1, <3>2, LenProperties
    <3>4. sweep' = [sweep EXCEPT !.pc = "detach", !.stack = st]
      BY <2>9, <3>3 DEF SweepTake
    <3>5. /\ sweep' \in [pc : SweepPcs, i : Nat, stack : Stacks, forced : BOOLEAN]
          /\ sweep'.forced = sweep.forced /\ sweep'.stack = st /\ sweep'.i = sweep.i
      BY <1>1, <3>4 DEF SweepPcs
    <3>6. st.generation = sweep.stack.generation
      BY <3>1, <3>3 DEF InPlace
    <3>7. ASSUME ~sweep.forced, NEW g \in 0..MaxCmds, g = sweep.stack.generation
          PROVE  retries[g] < MaxRetries
      <4>1. ~(retries[g] >= MaxRetries)
        BY <3>1, <3>7 DEF GiveUp
      <4>2. retries[g] \in Nat
        BY <1>1
      <4>3. QED
        BY <1>1, <4>1, <4>2
    <3>8. QED
      BY <1>1, <2>0, <2>9, <3>1, <3>5, <3>6, <3>7 DEF SweepType, SweepTake
  <2>10. CASE SweepDetach
    <3>1. sweep.pc = "detach" /\ retries' = retries
      BY <2>10 DEF SweepDetach, ListKept
    <3>2. sweep' = [sweep EXCEPT !.pc = "remove"] \/ sweep' = [sweep EXCEPT !.pc = "failed"]
      BY <2>10 DEF SweepDetach
    <3>3. /\ sweep' \in [pc : SweepPcs, i : Nat, stack : Stacks, forced : BOOLEAN]
          /\ sweep'.forced = sweep.forced /\ sweep'.stack = sweep.stack /\ sweep'.i = sweep.i
      BY <1>1, <3>2 DEF SweepPcs
    <3>4. QED
      BY <1>1, <3>1, <3>3 DEF SweepType, TypeInv
  <2>11. CASE SweepRemove
    <3>1. SweepAt(sweep.i, retired')
      BY <2>11 DEF SweepRemove
    <3>2. retired' \in Seq(Stacks)
      BY StackKept DEF StackType
    <3>3. retries' \in [0..MaxCmds -> 0..MaxRetries]
      BY <1>1, <2>2, <2>11 DEF SweepRemove
    <3>4. sweep.i \in Nat \ {0}
      BY <2>3, <2>0, <2>11 DEF SweepRemove
    <3>5. QED
      BY <2>1, <3>1, <3>2, <3>3, <3>4, SweepAtType
  <2>12. CASE SweepFailed
    <3>1. sweep.pc = "failed" /\ SweepAt(sweep.i + 1, retired)
      BY <2>12 DEF SweepFailed
    <3>2. CASE sweep.forced
      <4>1. retries' = retries
        BY <2>12, <3>2 DEF SweepFailed
      <4>2. QED
        BY <1>1, <2>1, <2>3, <3>1, <4>1, SweepAtType
    <3>3. CASE ~sweep.forced
      <4>1. PICK g : g = sweep.stack.generation
        OBVIOUS
      <4>2. retries' = [retries EXCEPT ![g] = retries[g] + 1]
        BY <2>12, <3>3, <4>1 DEF SweepFailed
      <4>3. g \in 0..MaxCmds => retries[g] < MaxRetries
        BY <3>1, <3>3, <4>1 DEF TypeInv, SweepType
      <4>4. g \in 0..MaxCmds => retries[g] + 1 \in 0..MaxRetries
        BY <1>1, <4>3
      <4>5. retries' \in [0..MaxCmds -> 0..MaxRetries]
        BY <1>1, <4>2, <4>4
      <4>6. QED
        BY <1>1, <2>1, <2>3, <3>1, <4>5, SweepAtType
    <3>4. QED
      BY <3>2, <3>3
  <2>13. QED
    BY <1>7, <2>4, <2>5, <2>6, <2>8, <2>9, <2>10, <2>11, <2>12 DEF SweepStep
<1>8. QED
  BY <1>4, <1>5, <1>6, <1>7 DEF Next

\* The requests and the KV cache.
LEMMA ReqKept ==
  ASSUME TypeInv, Next
  PROVE  ReqType'
<1>1. IdleReq \in ReqStates
  BY DEF IdleReq, ReqStates, ReqPcs, EmptyStack, Stacks, NoCells
<1>2. ASSUME NEW r \in Requests, ReqStep(r) PROVE ReqType'
  <2>1. ASSUME NEW q \in ReqStates, req' = [req EXCEPT ![r] = q], kv' \in Stacks
        PROVE  ReqType'
    BY <2>1 DEF TypeInv, ReqType
  <2>2. PICK q \in ReqStates : q = req[r]
    BY DEF TypeInv, ReqType
  <2>3. kv \in Stacks
    BY DEF TypeInv, ReqType
  <2>4. CASE ReqHandle(r)
    <3>1. PICK st \in Stacks : st = [generation |-> gen, active |-> active]
      BY DEF TypeInv, StackType, Stacks
    <3>2. PICK n \in Nat : n = req[r].tries + 1
      BY <2>2 DEF ReqStates
    <3>3. req' = [req EXCEPT ![r] = [req[r] EXCEPT !.pc = "pin", !.tries = n, !.stack = st]]
      BY <2>4, <3>1, <3>2 DEF ReqHandle
    <3>4. req' = [req EXCEPT ![r] = [q EXCEPT !.pc = "pin", !.tries = n, !.stack = st]]
      BY <2>2, <3>3
    <3>5. [q EXCEPT !.pc = "pin", !.tries = n, !.stack = st] \in ReqStates
      BY DEF ReqStates, ReqPcs
    <3>6. kv' \in Stacks
      BY <2>3, <2>4 DEF ReqHandle
    <3>7. QED
      BY <2>1, <3>4, <3>5, <3>6
  <2>5. CASE ReqPin(r)
    <3>1. PICK g \in Nat : g = index.generation
      BY DEF TypeInv, CellType
    <3>2. PICK cells \in [Adapters -> Nat] : cells = index.cells
      BY DEF TypeInv, CellType
    <3>3. \/ req' = [req EXCEPT ![r] = [q EXCEPT !.pc = "hash", !.generation = g,
                                               !.pins = cells]]
          \/ req' = [req EXCEPT ![r] = [q EXCEPT !.pc = "again"]]
          \/ req' = [req EXCEPT ![r] = IdleReq]
      BY <2>2, <2>5, <3>1, <3>2 DEF ReqPin
    <3>4. /\ [q EXCEPT !.pc = "hash", !.generation = g, !.pins = cells] \in ReqStates
          /\ [q EXCEPT !.pc = "again"] \in ReqStates
      BY DEF ReqStates, ReqPcs
    <3>5. kv' \in Stacks
      BY <2>3, <2>5 DEF ReqPin
    <3>6. QED
      BY <1>1, <2>1, <3>3, <3>4, <3>5
  <2>6. CASE ReqEmpty(r) \/ ReqEnd(r)
    BY <1>1, <2>1, <2>3, <2>6 DEF ReqEmpty, ReqEnd
  <2>7. CASE ReqHash(r)
    <3>1. req' = [req EXCEPT ![r] = [q EXCEPT !.pc = "coherence", !.hash = active]]
      BY <2>2, <2>7 DEF ReqHash
    <3>2. [q EXCEPT !.pc = "coherence", !.hash = active] \in ReqStates
      BY DEF ReqStates, ReqPcs, TypeInv, StackType
    <3>3. kv' \in Stacks
      BY <2>3, <2>7 DEF ReqHash
    <3>4. QED
      BY <2>1, <3>1, <3>2, <3>3
  <2>8. CASE ReqRun(r)
    <3>1. req' = [req EXCEPT ![r] = [q EXCEPT !.pc = "run"]]
      BY <2>2, <2>8 DEF ReqRun, ReqTo
    <3>2. [q EXCEPT !.pc = "run"] \in ReqStates
      BY DEF ReqStates, ReqPcs
    <3>3. kv' \in Stacks
      BY <2>2, <2>3, <2>8 DEF ReqRun, ReqStates
    <3>4. QED
      BY <2>1, <3>1, <3>2, <3>3
  <2>9. QED
    BY <1>2, <2>4, <2>5, <2>6, <2>7, <2>8 DEF ReqStep
<1>3. CASE CmdBegin \/ CmdStep \/ RetireStep \/ SweepStep
  BY <1>3, CmdFrame, RetireFrame DEF TypeInv, ReqType
<1>4. QED
  BY <1>2, <1>3 DEF Next

\* What a step of a request does, field by field.
LEMMA ReqEffect ==
  ASSUME TypeInv, NEW r \in Requests, ReqStep(r)
  PROVE  /\ \A s \in Requests : s # r => req'[s] = req[s]
         /\ \/ /\ (req[r].pc = "idle" /\ (WorkerMutex => cmd.pc = "idle")) \/ req[r].pc = "again"
               /\ req'[r].pc = "pin" /\ req'[r].pins = req[r].pins /\ kv' = kv
               /\ req'[r].stack.generation = gen /\ req'[r].stack.active = active
            \/ /\ req[r].pc = "pin" /\ req'[r].pc = "hash"
               /\ req[r].stack.generation = index.generation
               /\ req'[r].stack = req[r].stack /\ req'[r].pins = index.cells
               /\ req'[r].generation = index.generation /\ kv' = kv
            \/ /\ req[r].pc = "pin" /\ req'[r].pc = "again"
               /\ req'[r].pins = req[r].pins /\ kv' = kv
            \/ req'[r].pc = "idle" /\ req'[r].pins = NoCells /\ kv' = kv
            \/ /\ req[r].pc = "hash" /\ req'[r].pc = "coherence"
               /\ req'[r].stack = req[r].stack /\ req'[r].pins = req[r].pins
               /\ req'[r].hash = active
               /\ req'[r].generation = req[r].generation /\ kv' = kv
            \/ /\ req[r].pc = "coherence" /\ req'[r].pc = "run"
               /\ req'[r].stack = req[r].stack /\ req'[r].pins = req[r].pins
               /\ req'[r].hash = req[r].hash
               /\ req'[r].generation = req[r].generation
               /\ kv' = IF kv.generation # req[r].generation THEN req[r].stack ELSE kv
<1> USE DEF TypeInv, ReqType
<1>1. ASSUME NEW s \in Requests, s # r PROVE req'[s] = req[s]
  BY <1>1 DEF ReqStep, ReqHandle, ReqPin, ReqEmpty, ReqHash, ReqRun, ReqEnd, ReqTo
<1>2. PICK q \in ReqStates : q = req[r]
  OBVIOUS
<1>3. CASE ReqHandle(r)
  <2>1. req'[r] = [req[r] EXCEPT !.pc = "pin", !.tries = req[r].tries + 1,
                     !.stack = [generation |-> gen, active |-> active]]
    BY <1>3 DEF ReqHandle
  <2>2. /\ req'[r].pc = "pin" /\ req'[r].pins = req[r].pins
        /\ req'[r].stack = [generation |-> gen, active |-> active]
    BY <1>2, <2>1 DEF ReqStates
  <2>3. (req[r].pc = "idle" /\ (WorkerMutex => cmd.pc = "idle")) \/ req[r].pc = "again"
    BY <1>3 DEF ReqHandle
  <2>4. kv' = kv
    BY <1>3 DEF ReqHandle
  <2>5. QED
    BY <1>1, <2>2, <2>3, <2>4
<1>4. CASE ReqPin(r)
  <2>1. req[r].pc = "pin" /\ kv' = kv
    BY <1>4 DEF ReqPin
  <2>2. CASE index.generation = req[r].stack.generation
    <3>1. req'[r] = [req[r] EXCEPT !.pc = "hash", !.generation = index.generation,
                                   !.pins = index.cells]
      BY <1>4, <2>2 DEF ReqPin
    <3>2. /\ req'[r].pc = "hash" /\ req'[r].stack = req[r].stack
          /\ req'[r].pins = index.cells /\ req'[r].generation = index.generation
      BY <1>2, <3>1 DEF ReqStates
    <3>3. QED
      BY <1>1, <2>1, <2>2, <3>2
  <2>3. CASE index.generation # req[r].stack.generation
    <3>1. req'[r] = [req[r] EXCEPT !.pc = "again"] \/ req'[r] = IdleReq
      BY <1>4, <2>3 DEF ReqPin
    <3>2. CASE req'[r] = [req[r] EXCEPT !.pc = "again"]
      <4>1. req'[r].pc = "again" /\ req'[r].pins = req[r].pins
        BY <1>2, <3>2 DEF ReqStates
      <4>2. QED
        BY <1>1, <2>1, <4>1
    <3>3. CASE req'[r] = IdleReq
      BY <1>1, <2>1, <3>3 DEF IdleReq
    <3>4. QED
      BY <3>1, <3>2, <3>3
  <2>4. QED
    BY <2>2, <2>3
<1>5. CASE ReqEmpty(r) \/ ReqEnd(r)
  <2>1. req'[r] = IdleReq /\ kv' = kv
    BY <1>5 DEF ReqEmpty, ReqEnd
  <2>2. QED
    BY <1>1, <2>1 DEF IdleReq
<1>6. CASE ReqHash(r)
  <2>1. req[r].pc = "hash" /\ req'[r] = [req[r] EXCEPT !.pc = "coherence", !.hash = active]
    BY <1>6 DEF ReqHash
  <2>2. /\ req'[r].pc = "coherence" /\ req'[r].stack = req[r].stack
        /\ req'[r].pins = req[r].pins /\ req'[r].hash = active
        /\ req'[r].generation = req[r].generation
    BY <1>2, <2>1 DEF ReqStates
  <2>3. kv' = kv
    BY <1>6 DEF ReqHash
  <2>4. QED
    BY <1>1, <2>1, <2>2, <2>3
<1>7. CASE ReqRun(r)
  <2>1. req[r].pc = "coherence" /\ req'[r] = [req[r] EXCEPT !.pc = "run"]
    BY <1>7 DEF ReqRun, ReqTo
  <2>2. /\ req'[r].pc = "run" /\ req'[r].stack = req[r].stack
        /\ req'[r].pins = req[r].pins /\ req'[r].hash = req[r].hash
        /\ req'[r].generation = req[r].generation
    BY <1>2, <2>1 DEF ReqStates
  <2>3. kv' = IF kv.generation # req[r].generation THEN req[r].stack ELSE kv
    BY <1>7 DEF ReqRun
  <2>4. QED
    BY <1>1, <2>1, <2>2, <2>3
<1>8. QED
  BY <1>3, <1>4, <1>5, <1>6, <1>7 DEF ReqStep

\* Cells are allocated before anyone refers to them.
LEMMA CellKept ==
  ASSUME TypeInv, Next
  PROVE  CellType'
<1>1. /\ refcounts \in [Adapters -> Nat] /\ alloc \in [Adapters -> Nat]
      /\ index \in [generation : Nat, cells : [Adapters -> Nat]]
      /\ \A a \in Adapters :
           /\ refcounts[a] <= alloc[a] /\ index.cells[a] <= alloc[a]
           /\ \A r \in Requests : req[r].pins[a] \in Nat /\ req[r].pins[a] <= alloc[a]
  BY DEF TypeInv, CellType, ReqType, ReqStates
<1>2. ASSUME UNCHANGED req,
             refcounts' \in [Adapters -> Nat], alloc' \in [Adapters -> Nat],
             index' \in [generation : Nat, cells : [Adapters -> Nat]],
             \A a \in Adapters : /\ alloc[a] <= alloc'[a]
                                 /\ refcounts'[a] <= alloc'[a]
                                 /\ index'.cells[a] <= alloc'[a]
      PROVE  CellType'
  BY <1>1, <1>2 DEF CellType
<1>3. CASE CmdBegin
  <2>1. UNCHANGED <<refcounts, alloc, index, req>>
    BY <1>3 DEF CmdBegin, Preload, Swap, Rollback, table
  <2>2. QED
    BY <1>1, <1>2, <2>1
<1>4. CASE CmdStep
  <2>1. UNCHANGED req
    BY <1>4, CmdFrame
  <2>2. CASE UNCHANGED <<refcounts, alloc, index>>
    BY <1>1, <1>2, <2>1, <2>2
  <2>3. ASSUME UNCHANGED <<alloc, index>>, refcounts' \in [Adapters -> Nat],
               \A a \in Adapters : refcounts'[a] = refcounts[a] \/ refcounts'[a] = 0
        PROVE  CellType'
    <3>1. \A a \in Adapters : refcounts'[a] <= alloc[a]
      BY <1>1, <2>3
    <3>2. QED
      BY <1>1, <1>2, <2>1, <2>3, <3>1
  <2>4. ASSUME NEW a \in Adapters, EvictApply(a) PROVE CellType'
    <3>1. CASE DetachOk(a)
      <4>1. refcounts' = [refcounts EXCEPT ![a] = IF a \in active THEN @ ELSE 0]
        BY <2>4, <3>1 DEF EvictApply, Forget
      <4>2. UNCHANGED <<alloc, index>>
        BY <2>4, <3>1 DEF EvictApply, Forget
      <4>3. refcounts' \in [Adapters -> Nat]
        BY <1>1, <4>1
      <4>4. \A b \in Adapters : refcounts'[b] = refcounts[b] \/ refcounts'[b] = 0
        BY <1>1, <4>1
      <4>5. QED
        BY <2>3, <4>2, <4>3, <4>4
    <3>2. QED
      BY <2>2, <2>4, <3>1 DEF EvictApply, table
  <2>5. CASE CleanupStaged
    <3>1. refcounts' = [a \in Adapters |-> IF a \in StagedAdds THEN 0 ELSE refcounts[a]]
      BY <2>5 DEF CleanupStaged
    <3>2. /\ refcounts' \in [Adapters -> Nat]
          /\ \A a \in Adapters : refcounts'[a] = refcounts[a] \/ refcounts'[a] = 0
      BY <1>1, <3>1
    <3>3. QED
      BY <2>3, <2>5, <3>2 DEF CleanupStaged
  <2>6. ASSUME NEW S, Allocate(S), UNCHANGED index PROVE CellType'
    <3>1. /\ refcounts' \in [Adapters -> Nat] /\ alloc' \in [Adapters -> Nat]
          /\ \A a \in Adapters : refcounts'[a] <= alloc'[a] /\ alloc[a] <= alloc'[a]
      BY <1>1, <2>6, AllocateEffect
    <3>2. \A a \in Adapters : index'.cells[a] <= alloc'[a]
      BY <1>1, <2>6, <3>1
    <3>3. QED
      BY <1>1, <1>2, <2>1, <2>6, <3>1, <3>2
  <2>7. CASE Stage \/ SwapCommit
    BY <2>6, <2>7 DEF Stage, SwapCommit
  <2>8. CASE SwapPublish
    <3>1. UNCHANGED <<refcounts, alloc>>
      BY <2>8 DEF SwapPublish, table
    <3>2. \/ index' = index
          \/ index' = [generation |-> gen,
                       cells |-> [a \in Adapters |-> IF a \in active THEN refcounts[a] ELSE 0]]
      BY <2>8 DEF SwapPublish
    <3>3. gen \in Nat
      BY DEF TypeInv, StackType
    <3>4. /\ index' \in [generation : Nat, cells : [Adapters -> Nat]]
          /\ \A a \in Adapters : index'.cells[a] <= alloc[a]
      BY <1>1, <3>2, <3>3
    <3>5. QED
      BY <1>1, <1>2, <2>1, <3>1, <3>4
  <2>9. CASE RollbackPublish
    <3> DEFINE fresh == {a \in active : refcounts[a] = 0}
    <3>1. refcounts' = refcounts
      BY <2>9 DEF RollbackPublish
    <3>2. index' = [generation |-> gen,
                    cells |-> [a \in Adapters |-> IF a \notin active THEN 0
                                                  ELSE IF a \in fresh THEN alloc[a] + 1
                                                  ELSE refcounts[a]]]
      BY <2>9 DEF RollbackPublish
    <3>3. alloc' = [a \in Adapters |-> IF a \in fresh THEN alloc[a] + 1 ELSE alloc[a]]
      BY <2>9 DEF RollbackPublish
    <3>4. gen \in Nat
      BY DEF TypeInv, StackType
    <3> HIDE DEF fresh
    <3>5. alloc' \in [Adapters -> Nat] /\ \A a \in Adapters : alloc[a] <= alloc'[a]
      BY <1>1, <3>3
    <3>6. index' \in [generation : Nat, cells : [Adapters -> Nat]]
      BY <1>1, <3>2, <3>4
    <3>7. \A a \in Adapters : index'.cells[a] <= alloc'[a]
      BY <1>1, <3>2, <3>3
    <3>8. \A a \in Adapters : refcounts'[a] <= alloc'[a]
      BY <1>1, <3>1, <3>5
    <3>9. QED
      BY <1>1, <1>2, <2>1, <3>1, <3>5, <3>6, <3>7, <3>8
  <2>10. ASSUME NEW a \in Adapters, EvictCheck(a) PROVE CellType'
    BY <2>2, <2>10 DEF EvictCheck, table
  <2>11. CASE \/ EnforceBudget \/ EvictDone \/ LoadRefused \/ LoadOk \/ LoadFails
              \/ DrainRefs \/ AttachStaged \/ SwapRetire \/ SwapFinish \/ RollbackRetire
    BY <2>2, <2>11 DEF EnforceBudget, EvictDone, LoadRefused, LoadOk, LoadFails, DrainRefs,
       AttachStaged, SwapRetire, SwapFinish, RollbackRetire, table
  <2>12. QED
    BY <1>4, <2>4, <2>5, <2>7, <2>8, <2>9, <2>10, <2>11 DEF CmdStep
<1>5. CASE RetireStep \/ SweepStep
  <2>1. UNCHANGED <<refcounts, alloc, index, req>>
    BY <1>5, RetireFrame
  <2>2. QED
    BY <1>1, <1>2, <2>1
<1>6. ASSUME NEW r \in Requests, ReqStep(r) PROVE CellType'
  <2>1. UNCHANGED <<refcounts, alloc, index>>
    BY <1>6, ReqFrame
  <2>2. ASSUME NEW s \in Requests, NEW a \in Adapters PROVE req'[s].pins[a] <= alloc[a]
    <3>1. NoCells[a] = 0
      BY DEF NoCells
    <3>2. \/ req'[s].pins = req[s].pins
          \/ req'[s].pins = index.cells
          \/ req'[s].pins = NoCells
      BY <1>6, ReqEffect
    <3>3. QED
      BY <1>1, <3>1, <3>2
  <2>3. QED
    BY <1>1, <2>1, <2>2 DEF CellType
<1>7. QED
  BY <1>3, <1>4, <1>5, <1>6 DEF Next
-------------------------------------------------------------------------------
(* The types hold *)

\* The worker starts without adapters.
LEMMA InitType ==
  ASSUME Init
  PROVE  TypeInv
<1>1. EmptyStack \in Stacks /\ <<>> \in Seq(Stacks) /\ NoCells \in [Adapters -> Nat]
  BY DEF EmptyStack, Stacks, NoCells
<1>2. StackType
  BY <1>1 DEF Init, StackType
<1>3. CmdType
  BY <1>1, HotSwapAssumption DEF Init, IdleCmd, CmdType, CmdStates, CmdPcs, Evicting
<1>4. RetType
  BY <1>1 DEF Init, RetType
<1>5. ReqType
  BY <1>1 DEF Init, IdleReq, ReqType, ReqStates, ReqPcs
<1>6. CellType
  BY <1>1 DEF Init, IdleReq, NoCells, CellType
<1>7. SweepType
  BY <1>1, HotSwapAssumption DEF Init, NoRetries, IdleSweep, SweepType, SweepPcs
<1>8. QED
  BY <1>2, <1>3, <1>4, <1>5, <1>6, <1>7 DEF TypeInv

\* Every step keeps the types.
LEMMA TypeKept ==
  ASSUME TypeInv, [Next]_vars
  PROVE  TypeInv'
<1>1. CASE Next
  BY <1>1, StackKept, CmdKept, RetKept, SweepKept, ReqKept, CellKept DEF TypeInv
<1>2. CASE UNCHANGED vars
  BY <1>2 DEF vars, table, tasks, TypeInv, StackType, CmdType, Evicting, RetType, SweepType,
     ReqType, CellType
<1>3. QED
  BY <1>1, <1>2

\* Commands, evictions, retirements and requests keep the worker's adapter
\* state well typed, and a cell that anyone refers to was allocated.
THEOREM HotSwapTypeCorrect == Spec => []TypeOK
<1>1. TypeInv => TypeOK
  <2>1. ASSUME TypeInv PROVE \A a \in Adapters :
                               /\ refcounts[a] \in 0..alloc[a]
                               /\ index.cells[a] \in 0..alloc[a]
                               /\ \A r \in Requests : req[r].pins[a] \in 0..alloc[a]
    BY <2>1 DEF TypeInv, CellType, ReqType, ReqStates
  <2>2. QED
    BY <2>1 DEF TypeInv, StackType, CmdType, RetType, SweepType, ReqType, CellType, TypeOK
<1>2. QED
  BY <1>1, InitType, TypeKept, PTL DEF Spec
-------------------------------------------------------------------------------
(* The published index *)

\* The empty index is that of the empty table.
LEMMA InitIndex ==
  ASSUME Init
  PROVE  IndexInv
<1>1. Published = {}
  BY DEF Init, Published, NoCells
<1>2. QED
  BY <1>1 DEF Init, IndexInv, IdleCmd, StagedCounted

\* AdapterStore never refuses the index of a swap.
LEMMA PublishInstalls ==
  ASSUME TypeInv, IndexInv, SwapPublish
  PROVE  index' = [generation |-> gen,
                   cells |-> [a \in Adapters |-> IF a \in active THEN refcounts[a] ELSE 0]]
<1>1. index.generation \in Nat /\ gen \in Nat /\ index.generation < gen
  BY DEF TypeInv, CellType, StackType, IndexInv, SwapPublish
<1>2. ~(gen <= index.generation)
  BY <1>1
<1>3. QED
  BY <1>2 DEF SwapPublish

\* A flip is followed by its publication, and nothing else separates the two.
LEMMA IndexKept ==
  ASSUME TypeInv, IndexInv, [Next]_vars
  PROVE  IndexInv'
<1>1. ASSUME cmd.pc \notin {"publish", "republish"}, cmd'.pc \notin {"publish", "republish"},
             UNCHANGED <<active, gen, index>>, StagedCounted'
      PROVE  IndexInv'
  BY <1>1 DEF IndexInv, Published
<1>2. CASE UNCHANGED <<active, gen, index, staged, refcounts>> /\ cmd'.pc = cmd.pc
  BY <1>2 DEF IndexInv, Published, StagedCounted
<1>3. CASE CmdBegin
  <2>1. StagedCounted'
    BY <1>3 DEF CmdBegin, Preload, Swap, Rollback, table, IndexInv, StagedCounted
  <2>2. cmd.pc = "idle"
    BY <1>3 DEF CmdBegin, Preload, Swap, Rollback, BeginCmd
  <2>3. ASSUME NEW a \in Adapters, Preload(a) PROVE IndexInv'
    <3>1. cmd'.pc = "budget"
      BY <2>3 DEF Preload, BeginCmd, IdleCmd
    <3>2. QED
      BY <1>1, <2>1, <2>2, <2>3, <3>1 DEF Preload, table
  <2>4. ASSUME NEW add \in SUBSET Adapters, NEW remove \in SUBSET Adapters, Swap(add, remove)
        PROVE  IndexInv'
    <3>1. cmd'.pc \in {"cleanup", "attach", "drain"}
      BY <2>4 DEF Swap, BeginCmd, IdleCmd
    <3>2. QED
      BY <1>1, <2>1, <2>2, <2>4, <3>1 DEF Swap, table
  <2>5. CASE Rollback
    <3>1. cmd'.pc = "republish"
      BY <2>5 DEF Rollback, BeginCmd, IdleCmd
    <3>2. QED
      BY <2>1, <3>1 DEF IndexInv
  <2>6. QED
    BY <1>3, <2>3, <2>4, <2>5 DEF CmdBegin
<1>4. CASE CmdStep
  <2>0. cmd \in CmdStates /\ IdleCmd.pc = "idle"
    BY DEF TypeInv, CmdType, IdleCmd
  <2>1. ASSUME UNCHANGED <<staged, refcounts>> PROVE StagedCounted'
    BY <2>1 DEF IndexInv, StagedCounted
  <2>2. CASE \/ EnforceBudget \/ EvictDone \/ LoadRefused \/ LoadOk \/ LoadFails
             \/ DrainRefs \/ AttachStaged \/ SwapRetire \/ SwapFinish \/ RollbackRetire
    <3>1. UNCHANGED <<active, gen, index, staged, refcounts>>
      BY <2>2 DEF EnforceBudget, EvictDone, LoadRefused, LoadOk, LoadFails, DrainRefs,
         AttachStaged, SwapRetire, SwapFinish, RollbackRetire, table
    <3>2. cmd.pc \notin {"publish", "republish"}
      BY <2>2 DEF EnforceBudget, EvictDone, LoadRefused, LoadOk, LoadFails, DrainRefs,
         AttachStaged, SwapRetire, SwapFinish, RollbackRetire, Evicting
    <3>3. cmd'.pc \notin {"publish", "republish"}
      <4>1. CASE EnforceBudget
        BY <2>0, <4>1 DEF EnforceBudget, CmdStates
      <4>2. CASE EvictDone
        BY <2>0, <4>2 DEF EvictDone, CmdStates
      <4>3. CASE \/ LoadRefused \/ LoadOk \/ LoadFails \/ DrainRefs \/ AttachStaged
                 \/ SwapRetire \/ SwapFinish \/ RollbackRetire
        BY <2>0, <4>3 DEF LoadRefused, LoadOk, LoadFails, DrainRefs, AttachStaged, SwapRetire,
           SwapFinish, RollbackRetire, CmdTo, CmdStates
      <4>4. QED
        BY <2>2, <4>1, <4>2, <4>3
    <3>4. QED
      BY <1>1, <2>1, <3>1, <3>2, <3>3
  <2>3. ASSUME NEW a \in Adapters, EvictCheck(a) PROVE IndexInv'
    <3>1. cmd'.pc = cmd.pc
      BY <2>0, <2>3 DEF EvictCheck, CmdStates
    <3>2. QED
      BY <1>2, <2>3, <3>1 DEF EvictCheck, table
  <2>4. ASSUME NEW a \in Adapters, EvictApply(a) PROVE IndexInv'
    <3>1. Evicting
      BY <2>4 DEF EvictApply, TypeInv, CmdType
    <3>2. cmd'.pc = cmd.pc
      BY <2>0, <2>4 DEF EvictApply, CmdStates
    <3>3. UNCHANGED <<active, gen, index>>
      BY <2>4 DEF EvictApply, Forget, table
    <3>4. StagedCounted'
      <4>1. CASE DetachOk(a)
        <5>1. staged' = staged \ {a}
          BY <2>4, <4>1 DEF EvictApply, Forget
        <5>2. refcounts' = [refcounts EXCEPT ![a] = IF a \in active THEN @ ELSE 0]
          BY <2>4, <4>1 DEF EvictApply, Forget
        <5>3. refcounts \in [Adapters -> Nat] /\ staged \subseteq Adapters
          BY DEF TypeInv, CellType, StackType
        <5>4. \A b \in staged' : refcounts'[b] = refcounts[b]
          BY <5>1, <5>2, <5>3
        <5>5. QED
          BY <5>1, <5>4 DEF IndexInv, StagedCounted
      <4>2. QED
        BY <2>1, <2>4, <4>1 DEF EvictApply, table
    <3>5. QED
      BY <1>1, <3>1, <3>2, <3>3, <3>4 DEF Evicting
  <2>5. CASE Stage
    <3>1. \A b \in Adapters : /\ refcounts[b] # 0 => refcounts'[b] # 0
                              /\ b \in cmd.add => refcounts'[b] # 0
      BY <2>5, AllocateEffect DEF Stage, TypeInv, CellType
    <3>2. staged \subseteq Adapters /\ cmd.add \subseteq Adapters
      BY <2>0 DEF TypeInv, StackType, CmdStates
    <3>3. staged' = staged \cup cmd.add
      BY <2>5 DEF Stage
    <3>4. StagedCounted'
      BY <3>1, <3>2, <3>3 DEF IndexInv, StagedCounted
    <3>5. cmd'.pc = "rebudget"
      BY <2>0, <2>5 DEF Stage, CmdStates
    <3>6. QED
      BY <1>1, <2>5, <3>4, <3>5 DEF Stage
  <2>6. CASE CleanupStaged
    <3>1. staged' = staged \ StagedAdds
      BY <2>6 DEF CleanupStaged
    <3>2. refcounts' = [b \in Adapters |-> IF b \in StagedAdds THEN 0 ELSE refcounts[b]]
      BY <2>6 DEF CleanupStaged
    <3>3. staged \subseteq Adapters
      BY DEF TypeInv, StackType
    <3>4. \A b \in staged' : refcounts'[b] = refcounts[b]
      BY <3>1, <3>2, <3>3
    <3>5. StagedCounted'
      BY <3>1, <3>4 DEF IndexInv, StagedCounted
    <3>6. cmd'.pc = "idle"
      BY <2>0, <2>6 DEF CleanupStaged
    <3>7. QED
      BY <1>1, <2>6, <3>5, <3>6 DEF CleanupStaged
  <2>7. CASE SwapCommit
    <3>1. \A b \in Adapters : /\ refcounts[b] # 0 => refcounts'[b] # 0
                              /\ b \in active' => refcounts'[b] # 0
      BY <2>7, AllocateEffect DEF SwapCommit, TypeInv, CellType
    <3>2. active' \subseteq Adapters /\ staged \subseteq Adapters /\ staged' = staged
      BY <2>0, <2>7 DEF SwapCommit, TypeInv, StackType, CmdStates
    <3>3. StagedCounted' /\ \A b \in active' : refcounts'[b] # 0
      BY <3>1, <3>2 DEF IndexInv, StagedCounted
    <3>4. cmd'.pc = "publish"
      BY <2>0, <2>7 DEF SwapCommit, CmdStates
    <3>5. index'.generation < gen'
      BY <2>7 DEF SwapCommit, IndexInv, TypeInv, StackType
    <3>6. QED
      BY <3>3, <3>4, <3>5 DEF IndexInv
  <2>8. CASE SwapPublish
    <3>1. cmd'.pc = "retire"
      BY <2>0, <2>8 DEF SwapPublish, CmdTo, CmdStates
    <3>2. index' = [generation |-> gen,
                    cells |-> [a \in Adapters |-> IF a \in active THEN refcounts[a] ELSE 0]]
      BY <2>8, PublishInstalls
    <3>3. \A a \in Adapters : index'.cells[a] # 0 <=> a \in active
      BY <2>8, <3>2 DEF SwapPublish, IndexInv
    <3>4. UNCHANGED <<active, gen, staged, refcounts>>
      BY <2>8 DEF SwapPublish, table
    <3>5. Published' = active' /\ index'.generation = gen'
      BY <3>2, <3>3, <3>4 DEF Published, TypeInv, StackType
    <3>6. QED
      BY <2>1, <3>1, <3>4, <3>5 DEF IndexInv
  <2>9. CASE RollbackPublish
    <3>1. cmd'.pc = "reretire"
      BY <2>0, <2>9 DEF RollbackPublish, CmdTo, CmdStates
    <3>2. index' = [generation |-> gen,
                    cells |-> [a \in Adapters |->
                                 IF a \notin active THEN 0
                                 ELSE IF a \in {b \in active : refcounts[b] = 0}
                                 THEN alloc[a] + 1 ELSE refcounts[a]]]
      BY <2>9 DEF RollbackPublish
    <3>3. \A a \in Adapters : index'.cells[a] # 0 <=> a \in active
      BY <3>2 DEF TypeInv, CellType
    <3>4. UNCHANGED <<active, gen, staged, refcounts>>
      BY <2>9 DEF RollbackPublish
    <3>5. Published' = active' /\ index'.generation = gen'
      BY <3>2, <3>3, <3>4 DEF Published, TypeInv, StackType
    <3>6. QED
      BY <2>1, <3>1, <3>4, <3>5 DEF IndexInv
  <2>10. QED
    BY <1>4, <2>2, <2>3, <2>4, <2>5, <2>6, <2>7, <2>8, <2>9 DEF CmdStep
<1>5. CASE RetireStep \/ SweepStep
  BY <1>2, <1>5, RetireFrame
<1>6. ASSUME NEW r \in Requests, ReqStep(r) PROVE IndexInv'
  BY <1>2, <1>6, ReqFrame
<1>7. CASE UNCHANGED vars
  BY <1>2, <1>7 DEF vars, table
<1>8. QED
  BY <1>3, <1>4, <1>5, <1>6, <1>7 DEF Next

\* The invariant of every theorem below.
LEMMA IndexInvariant == Spec => [](TypeInv /\ IndexInv)
<1>1. Init => TypeInv /\ IndexInv
  BY InitType, InitIndex
<1>2. TypeInv /\ IndexInv /\ [Next]_vars => (TypeInv /\ IndexInv)'
  BY TypeKept, IndexKept
<1>3. QED
  BY <1>1, <1>2, PTL DEF Spec

\* Between commands what AdapterStore publishes is the active map at the table's
\* generation: swap, rollback and the failure paths of both leave no other index.
THEOREM IndexMatchesTable == Spec => []StoreMatchesTable
<1>1. IndexInv => StoreMatchesTable
  BY DEF IndexInv, StoreMatchesTable, Published
<1>2. QED
  BY <1>1, IndexInvariant, PTL

\* Whatever evict_adapter_by_id and cleanup_staged_on_failure remove, an adapter
\* that stays staged keeps its refcount entry.
THEOREM StagedAreCounted == Spec => []StagedCounted
<1>1. IndexInv => StagedCounted
  BY DEF IndexInv
<1>2. QED
  BY <1>1, IndexInvariant, PTL
-------------------------------------------------------------------------------
(* The budget *)

\* A Preload that reports success leaves the resident adapters within the cache
\* budget: enforce_adapter_cache_budget counts again in the step that ends it.
THEOREM PreloadFitsBudget == Spec => PreloadWithinBudget
<1>1. ASSUME TypeInv, [Next]_vars, cmd.pc \in {"rebudget", "reevict"}, cmd'.pc = "idle"
      PROVE  Cardinality(Resident') <= Budget
  <2>1. cmd \in CmdStates /\ cmd.need = 0
    BY <1>1 DEF TypeInv, CmdType
  <2>2. ASSUME UNCHANGED table, Over(cmd.need) <= 0 PROVE Cardinality(Resident') <= Budget
    <3>1. Resident' = Resident
      BY <2>2 DEF table, Resident, RetiredIds
    <3>2. Cardinality(Resident) \in Nat /\ Budget \in Nat
      BY <1>1, ResidentFinite, HotSwapAssumption DEF TypeInv
    <3>3. Cardinality(Resident) + 0 - Budget <= 0
      BY <2>1, <2>2 DEF Over
    <3>4. Cardinality(Resident) <= Budget
      BY <3>2, <3>3
    <3>5. QED
      BY <3>1, <3>4
  <2>3. CASE CmdBegin
    BY <1>1, <2>3 DEF CmdBegin, Preload, Swap, Rollback, BeginCmd
  <2>4. CASE EnforceBudget
    <3>1. ~(Over(cmd.need) <= 0) => cmd'.pc # "idle"
      BY <2>1, <2>4 DEF EnforceBudget, CmdStates
    <3>2. QED
      BY <1>1, <2>2, <2>4, <3>1 DEF EnforceBudget
  <2>5. CASE EvictDone
    <3>1. cmd.pc = "reevict"
      BY <1>1, <2>5 DEF EvictDone, Evicting
    <3>2. Over(cmd.need) > 0 => cmd'.pc = "selfevict"
      BY <2>1, <2>5, <3>1 DEF EvictDone, CmdStates
    <3>3. Over(cmd.need) \in Int
      BY <1>1, <2>1, ResidentFinite, HotSwapAssumption DEF Over, TypeInv
    <3>4. Over(cmd.need) <= 0
      BY <1>1, <3>2, <3>3
    <3>5. QED
      BY <2>2, <2>5, <3>4 DEF EvictDone
  <2>6. ASSUME NEW a \in Adapters, EvictCheck(a) \/ EvictApply(a) PROVE FALSE
    <3>1. cmd'.pc = cmd.pc
      BY <2>1, <2>6 DEF EvictCheck, EvictApply, CmdStates
    <3>2. QED
      BY <1>1, <3>1
  <2>7. CASE CmdStep
    BY <1>1, <2>4, <2>5, <2>6, <2>7 DEF CmdStep, LoadRefused, LoadOk, LoadFails, Stage,
       DrainRefs, AttachStaged, CleanupStaged, SwapCommit, SwapPublish, SwapRetire, SwapFinish,
       RollbackPublish, RollbackRetire
  <2>8. CASE RetireStep \/ SweepStep
    BY <1>1, <2>8, RetireFrame
  <2>9. ASSUME NEW r \in Requests, ReqStep(r) PROVE FALSE
    BY <1>1, <2>9, ReqFrame
  <2>10. CASE UNCHANGED vars
    BY <1>1, <2>10 DEF vars
  <2>11. QED
    BY <1>1, <2>3, <2>7, <2>8, <2>9, <2>10 DEF Next
<1>2. TypeInv /\ [Next]_vars =>
        [cmd.pc \in {"rebudget", "reevict"} /\ cmd'.pc = "idle"
           => Cardinality(Resident') <= Budget]_vars
  BY <1>1
<1>3. QED
  BY <1>2, IndexInvariant, PTL DEF Spec, PreloadWithinBudget
-------------------------------------------------------------------------------
(* Behind the worker's lock *)

\* A command begins, and takes its steps, only while no request is under way.
LEMMA CommandsAlone ==
  ASSUME WorkerMutex, TypeInv, MutexInv, CmdBegin \/ CmdStep
  PROVE  \A r \in Requests : req[r].pc = "idle"
<1>1. CASE CmdBegin
  BY <1>1 DEF CmdBegin, Preload, Swap, Rollback, BeginCmd, Requesting
<1>2. CASE CmdStep
  <2>1. cmd.pc # "idle"
    BY <1>2 DEF CmdStep, EnforceBudget, EvictCheck, EvictApply, EvictDone, LoadRefused,
       LoadOk, LoadFails, Stage, DrainRefs, AttachStaged, CleanupStaged, SwapCommit,
       SwapPublish, SwapRetire, SwapFinish, RollbackPublish, RollbackRetire, Evicting,
       TypeInv, CmdType
  <2>2. QED
    BY <2>1 DEF MutexInv
<1>3. QED
  BY <1>1, <1>2

\* What a request has seen stays so until it ends.
LEMMA MutexKept ==
  ASSUME WorkerMutex, TypeInv, MutexInv, [Next]_vars
  PROVE  MutexInv'
<1>1. CASE CmdBegin \/ CmdStep
  BY <1>1, CommandsAlone, CmdFrame DEF MutexInv
<1>2. CASE RetireStep \/ SweepStep
  BY <1>2, RetireFrame DEF MutexInv
<1>3. ASSUME NEW r \in Requests, ReqStep(r) PROVE MutexInv'
  <2>1. UNCHANGED <<active, index, cmd>>
    BY <1>3, ReqFrame
  <2>2. \A s \in Requests : s # r => req'[s] = req[s]
    BY <1>3, ReqEffect
  <2>3. req'[r].pc # "idle" =>
          /\ cmd.pc = "idle"
          /\ req'[r].pc \in {"pin", "hash", "coherence", "run"} => req'[r].stack.active = active
          /\ req'[r].pc \in {"hash", "coherence", "run"} => req'[r].pins = index.cells
          /\ req'[r].pc \in {"coherence", "run"} => req'[r].hash = active
    BY <1>3, ReqEffect DEF MutexInv
  <2>4. QED
    BY <2>1, <2>2, <2>3 DEF MutexInv
<1>4. CASE UNCHANGED vars
  BY <1>4 DEF vars, table, MutexInv
<1>5. QED
  BY <1>1, <1>2, <1>3, <1>4 DEF Next

\* Where the worker is locked for a whole inference, the stack a request routes
\* with, the adapters RequestPinner holds for it and the hash it reports agree.
THEOREM LockedRequestsMatch ==
  ASSUME WorkerMutex
  PROVE  Spec => []PinnedStackMatches
<1>1. Init => MutexInv
  BY DEF Init, MutexInv, IdleReq
<1>2. TypeInv /\ MutexInv /\ [Next]_vars => MutexInv'
  BY MutexKept
<1>3. IndexInv /\ MutexInv => PinnedStackMatches
  BY DEF IndexInv, MutexInv, PinnedStackMatches, Published
<1>4. QED
  BY <1>1, <1>2, <1>3, IndexInvariant, PTL DEF Spec
-------------------------------------------------------------------------------
(* Without the lock, and without rollbacks *)

\* SwapCommit is the only step that moves the table, to a generation no index
\* and no request has seen; SwapPublish then gives that generation its stack.
LEMMA GenKept ==
  ASSUME ~Rollbacks, TypeInv, IndexInv, GenInv, [Next]_vars
  PROVE  GenInv'
<1>1. cmd \in CmdStates /\ gen \in Nat /\ index.generation \in Nat /\ IdleCmd.pc = "idle"
  BY DEF TypeInv, CmdType, StackType, CellType, IdleCmd
<1>2. CASE /\ UNCHANGED <<active, gen, index, req>>
           /\ cmd'.pc \notin {"publish", "republish", "reretire"}
  BY <1>2 DEF GenInv, Published
<1>3. CASE UNCHANGED <<active, gen, index, req, cmd>>
  BY <1>3 DEF GenInv, Published
<1>4. CASE CmdBegin
  <2>1. UNCHANGED <<active, gen, index, req>>
    BY <1>4 DEF CmdBegin, Preload, Swap, Rollback, table
  <2>2. ASSUME NEW a \in Adapters, Preload(a) PROVE cmd'.pc = "budget"
    BY <2>2 DEF Preload, BeginCmd, IdleCmd
  <2>3. ASSUME NEW add \in SUBSET Adapters, NEW remove \in SUBSET Adapters, Swap(add, remove)
        PROVE  cmd'.pc \in {"cleanup", "attach", "drain"}
    BY <2>3 DEF Swap, BeginCmd, IdleCmd
  <2>4. cmd'.pc \notin {"publish", "republish", "reretire"}
    BY <1>4, <2>2, <2>3 DEF CmdBegin, Rollback
  <2>5. QED
    BY <1>2, <2>1, <2>4
<1>5. CASE CmdStep
  <2>1. req' = req
    BY <1>5, CmdFrame
  <2>2. CASE \/ EnforceBudget \/ EvictDone \/ LoadRefused \/ LoadOk \/ LoadFails \/ Stage
             \/ DrainRefs \/ AttachStaged \/ CleanupStaged \/ SwapRetire \/ SwapFinish
    <3>1. UNCHANGED <<active, gen, index>>
      BY <2>2 DEF EnforceBudget, EvictDone, LoadRefused, LoadOk, LoadFails, Stage, DrainRefs,
         AttachStaged, CleanupStaged, SwapRetire, SwapFinish, table
    <3>2. cmd'.pc \notin {"publish", "republish", "reretire"}
      <4>1. CASE EnforceBudget
        BY <1>1, <4>1 DEF EnforceBudget, CmdStates
      <4>2. CASE EvictDone
        BY <1>1, <4>2 DEF EvictDone, CmdStates
      <4>3. CASE \/ LoadRefused \/ LoadOk \/ LoadFails \/ Stage \/ DrainRefs \/ AttachStaged
                 \/ CleanupStaged \/ SwapRetire \/ SwapFinish
        BY <1>1, <4>3 DEF LoadRefused, LoadOk, LoadFails, Stage, DrainRefs, AttachStaged,
           CleanupStaged, SwapRetire, SwapFinish, CmdTo, CmdStates
      <4>4. QED
        BY <2>2, <4>1, <4>2, <4>3
    <3>3. QED
      BY <1>2, <2>1, <3>1, <3>2
  <2>3. ASSUME NEW a \in Adapters, EvictCheck(a) \/ EvictApply(a) PROVE GenInv'
    <3>1. Evicting
      BY <2>3 DEF EvictCheck, EvictApply, TypeInv, CmdType
    <3>2. cmd'.pc = cmd.pc
      BY <1>1, <2>3 DEF EvictCheck, EvictApply, CmdStates
    <3>3. UNCHANGED <<active, gen, index>>
      BY <2>3 DEF EvictCheck, EvictApply, Forget, table
    <3>4. QED
      BY <1>2, <2>1, <3>1, <3>2, <3>3 DEF Evicting
  <2>4. CASE SwapCommit
    <3>1. gen' = gen + 1 /\ index' = index
      BY <2>4 DEF SwapCommit
    <3>2. cmd'.pc = "publish"
      BY <1>1, <2>4 DEF SwapCommit, CmdStates
    <3>3. index'.generation <= gen' /\ index'.generation < gen'
      BY <1>1, <3>1 DEF GenInv
    <3>4. ASSUME NEW r \in Requests, req[r].pc = "pin"
          PROVE  /\ req[r].stack.generation <= gen'
                 /\ req[r].stack.generation # gen'
                 /\ req[r].stack.generation = index'.generation =>
                      req[r].stack.active = Published'
      <4>1. req[r].stack.generation \in Nat
        BY DEF TypeInv, ReqType, ReqStates, Stacks
      <4>2. req[r].stack.generation <= gen
        BY <3>4 DEF GenInv
      <4>3. req[r].stack.generation = index.generation => req[r].stack.active = Published
        BY <3>4 DEF GenInv
      <4>4. Published' = Published
        BY <3>1 DEF Published
      <4>5. QED
        BY <1>1, <3>1, <4>1, <4>2, <4>3, <4>4
    <3>5. QED
      BY <2>1, <3>2, <3>3, <3>4 DEF GenInv
  <2>5. CASE SwapPublish
    <3>1. cmd'.pc = "retire"
      BY <1>1, <2>5 DEF SwapPublish, CmdTo, CmdStates
    <3>2. UNCHANGED <<active, gen>>
      BY <2>5 DEF SwapPublish, table
    <3>3. IndexInv'
      BY IndexKept
    <3>4. index'.generation = gen' /\ Published' = active'
      BY <3>1, <3>3 DEF IndexInv
    <3>5. gen' \in Nat
      BY <1>1, <3>2
    <3>6. ASSUME NEW r \in Requests, req[r].pc = "pin"
          PROVE  /\ req[r].stack.generation <= gen
                 /\ req[r].stack.generation = gen => req[r].stack.active = active
      BY <3>6 DEF GenInv
    <3>7. QED
      BY <2>1, <3>1, <3>2, <3>4, <3>5, <3>6 DEF GenInv
  <2>6. CASE RollbackPublish \/ RollbackRetire
    BY <2>6 DEF RollbackPublish, RollbackRetire, GenInv
  <2>7. QED
    BY <1>5, <2>2, <2>3, <2>4, <2>5, <2>6 DEF CmdStep
<1>6. CASE RetireStep \/ SweepStep
  BY <1>3, <1>6, RetireFrame
<1>7. ASSUME NEW r \in Requests, ReqStep(r) PROVE GenInv'
  <2>1. UNCHANGED <<active, gen, index, cmd>>
    BY <1>7, ReqFrame
  <2>2. Published' = Published
    BY <2>1 DEF Published
  <2>3. \A s \in Requests : s # r => req'[s] = req[s]
    BY <1>7, ReqEffect
  <2>4. req'[r].pc = "pin" => req'[r].stack.generation = gen /\ req'[r].stack.active = active
    BY <1>7, ReqEffect
  <2>5. gen = index.generation => active = Published
    <3>1. cmd.pc # "republish" /\ (cmd.pc = "publish" => index.generation < gen)
      BY DEF GenInv
    <3>2. CASE cmd.pc = "publish"
      BY <1>1, <3>1, <3>2
    <3>3. CASE cmd.pc # "publish"
      BY <3>1, <3>3 DEF IndexInv
    <3>4. QED
      BY <3>2, <3>3
  <2>6. gen <= gen
    BY <1>1
  <2>7. ASSUME NEW s \in Requests, req'[s].pc = "pin"
        PROVE  /\ req'[s].stack.generation <= gen
               /\ req'[s].stack.generation = gen => req'[s].stack.active = active
               /\ req'[s].stack.generation = index.generation =>
                    req'[s].stack.active = Published
    <3>1. CASE s = r
      BY <2>4, <2>5, <2>6, <2>7, <3>1
    <3>2. CASE s # r
      BY <2>3, <2>7, <3>2 DEF GenInv
    <3>3. QED
      BY <3>1, <3>2
  <2>8. QED
    BY <2>1, <2>2, <2>7 DEF GenInv
<1>8. CASE UNCHANGED vars
  BY <1>3, <1>8 DEF vars, table
<1>9. QED
  BY <1>4, <1>5, <1>6, <1>7, <1>8 DEF Next

\* A request keeps the stack and the pins it accepted.
LEMMA PinsKept ==
  ASSUME ~Rollbacks, TypeInv, GenInv, PinsMatchStack, [Next]_vars
  PROVE  PinsMatchStack'
<1>1. CASE CmdBegin \/ CmdStep
  BY <1>1, CmdFrame DEF PinsMatchStack
<1>2. CASE RetireStep \/ SweepStep
  BY <1>2, RetireFrame DEF PinsMatchStack
<1>3. ASSUME NEW r \in Requests, ReqStep(r) PROVE PinsMatchStack'
  <2>1. \A s \in Requests : s # r => req'[s] = req[s]
    BY <1>3, ReqEffect
  <2>2. CASE req'[r].pc \notin {"hash", "coherence", "run"}
    BY <2>1, <2>2 DEF PinsMatchStack
  <2>3. CASE /\ req[r].pc \in {"hash", "coherence"}
             /\ req'[r].stack = req[r].stack /\ req'[r].pins = req[r].pins
    BY <2>1, <2>3 DEF PinsMatchStack
  <2>4. CASE /\ req[r].pc = "pin" /\ req[r].stack.generation = index.generation
             /\ req'[r].stack = req[r].stack /\ req'[r].pins = index.cells
    <3>1. req[r].stack.active = Published
      BY <2>4 DEF GenInv
    <3>2. {a \in Adapters : req'[r].pins[a] # 0} = req'[r].stack.active
      BY <2>4, <3>1 DEF Published
    <3>3. QED
      BY <2>1, <3>2 DEF PinsMatchStack
  <2>5. QED
    BY <1>3, <2>2, <2>3, <2>4, ReqEffect
<1>4. CASE UNCHANGED vars
  BY <1>4 DEF vars, PinsMatchStack
<1>5. QED
  BY <1>1, <1>2, <1>3, <1>4 DEF Next

\* The adapters a request has pinned are those of the stack it routes with, behind
\* the worker's lock as well as with swaps in between, so long as no rollback
\* brings a generation back: comparing the two generations is enough.
THEOREM PinsMatch ==
  ASSUME WorkerMutex \/ ~Rollbacks
  PROVE  Spec => []PinsMatchStack
<1>1. CASE WorkerMutex
  <2>1. Init => MutexInv
    BY DEF Init, MutexInv, IdleReq
  <2>2. TypeInv /\ MutexInv /\ [Next]_vars => MutexInv'
    BY <1>1, MutexKept
  <2>3. IndexInv /\ MutexInv => PinsMatchStack
    BY DEF IndexInv, MutexInv, PinsMatchStack, Published
  <2>4. QED
    BY <2>1, <2>2, <2>3, IndexInvariant, PTL DEF Spec
<1>2. CASE ~Rollbacks
  <2>1. Init => GenInv /\ PinsMatchStack
    BY DEF Init, GenInv, PinsMatchStack, IdleReq, IdleCmd
  <2>2. /\ TypeInv /\ IndexInv /\ GenInv /\ PinsMatchStack /\ [Next]_vars
        => GenInv' /\ PinsMatchStack'
    BY <1>2, GenKept, PinsKept
  <2>3. QED
    BY <2>1, <2>2, IndexInvariant, PTL DEF Spec
<1>3. QED
  BY <1>1, <1>2

\* Cells that both know stay the same: nothing takes an active adapter's entry,
\* and a swap publishes the table's.
LEMMA CellsKept ==
  ASSUME ~Rollbacks, TypeInv, IndexInv, GenInv, CellsInv, [Next]_vars
  PROVE  CellsInv'
<1>1. /\ refcounts \in [Adapters -> Nat] /\ active \subseteq Adapters /\ cmd \in CmdStates
      /\ index.cells \in [Adapters -> Nat] /\ IdleCmd.pc = "idle"
  BY DEF TypeInv, CellType, StackType, CmdType, IdleCmd
<1>2. ASSUME cmd.pc # "publish", UNCHANGED <<active, index>>,
             \A a \in active : refcounts'[a] = refcounts[a]
      PROVE  CellsInv'
  BY <1>2 DEF CellsInv
<1>3. CASE UNCHANGED <<active, index, refcounts, cmd>>
  BY <1>3 DEF CellsInv
<1>4. CASE CmdBegin
  <2>1. cmd.pc = "idle" /\ UNCHANGED <<active, index, refcounts>>
    BY <1>4 DEF CmdBegin, Preload, Swap, Rollback, BeginCmd, table
  <2>2. QED
    BY <1>2, <2>1
<1>5. CASE CmdStep
  <2>1. CASE \/ EnforceBudget \/ EvictDone \/ LoadRefused \/ LoadOk \/ LoadFails
             \/ DrainRefs \/ AttachStaged \/ SwapRetire \/ SwapFinish \/ RollbackRetire
    <3>1. cmd.pc # "publish" /\ UNCHANGED <<active, index, refcounts>>
      BY <2>1 DEF EnforceBudget, EvictDone, LoadRefused, LoadOk, LoadFails, DrainRefs,
         AttachStaged, SwapRetire, SwapFinish, RollbackRetire, Evicting, table
    <3>2. QED
      BY <1>2, <3>1
  <2>2. ASSUME NEW a \in Adapters, EvictCheck(a) PROVE CellsInv'
    <3>1. cmd.pc # "publish" /\ UNCHANGED <<active, index, refcounts>>
      BY <2>2 DEF EvictCheck, Evicting, table
    <3>2. QED
      BY <1>2, <3>1
  <2>3. ASSUME NEW a \in Adapters, EvictApply(a) PROVE CellsInv'
    <3>1. cmd.pc # "publish"
      BY <2>3 DEF EvictApply, TypeInv, CmdType, Evicting
    <3>2. UNCHANGED <<active, index>>
      BY <2>3 DEF EvictApply, Forget, table
    <3>3. CASE DetachOk(a)
      <4>1. refcounts' = [refcounts EXCEPT ![a] = IF a \in active THEN @ ELSE 0]
        BY <2>3, <3>3 DEF EvictApply, Forget
      <4>2. \A b \in active : refcounts'[b] = refcounts[b]
        BY <1>1, <4>1
      <4>3. QED
        BY <1>2, <3>1, <3>2, <4>2
    <3>4. CASE ~DetachOk(a)
      <4>1. refcounts' = refcounts
        BY <2>3, <3>4 DEF EvictApply, table
      <4>2. QED
        BY <1>2, <3>1, <3>2, <4>1
    <3>5. QED
      BY <3>3, <3>4
  <2>4. CASE Stage
    <3>1. cmd.pc # "publish" /\ UNCHANGED <<active, index>>
      BY <2>4 DEF Stage
    <3>2. \A b \in active : index.cells[b] # 0
      BY <2>4 DEF Stage, IndexInv, Published
    <3>3. \A b \in active : refcounts[b] # 0
      BY <3>1, <3>2 DEF CellsInv
    <3>4. refcounts' = [b \in Adapters |-> IF b \in cmd.add /\ refcounts[b] = 0
                                           THEN alloc[b] + 1 ELSE refcounts[b]]
      BY <2>4 DEF Stage, Allocate
    <3>5. \A b \in active : refcounts'[b] = refcounts[b]
      BY <1>1, <3>3, <3>4
    <3>6. QED
      BY <1>2, <3>1, <3>5
  <2>5. CASE CleanupStaged
    <3>1. cmd.pc # "publish" /\ UNCHANGED <<active, index>>
      BY <2>5 DEF CleanupStaged
    <3>2. refcounts' = [b \in Adapters |-> IF b \in StagedAdds THEN 0 ELSE refcounts[b]]
      BY <2>5 DEF CleanupStaged
    <3>3. \A b \in active : refcounts'[b] = refcounts[b]
      BY <1>1, <3>2 DEF StagedAdds
    <3>4. QED
      BY <1>2, <3>1, <3>3
  <2>6. CASE SwapCommit
    <3>1. cmd'.pc = "publish"
      BY <1>1, <2>6 DEF SwapCommit, CmdStates
    <3>2. QED
      BY <3>1 DEF CellsInv
  <2>7. CASE SwapPublish
    <3>1. UNCHANGED <<active, refcounts>>
      BY <2>7 DEF SwapPublish, table
    <3>2. index'.cells = [b \in Adapters |-> IF b \in active THEN refcounts[b] ELSE 0]
      BY <2>7, PublishInstalls
    <3>3. \A b \in active : index'.cells[b] = refcounts[b]
      BY <1>1, <3>2
    <3>4. QED
      BY <3>1, <3>3 DEF CellsInv
  <2>8. CASE RollbackPublish
    BY <2>8 DEF RollbackPublish, GenInv
  <2>9. QED
    BY <1>5, <2>1, <2>2, <2>3, <2>4, <2>5, <2>6, <2>7, <2>8 DEF CmdStep
<1>6. CASE RetireStep \/ SweepStep
  BY <1>3, <1>6, RetireFrame
<1>7. ASSUME NEW r \in Requests, ReqStep(r) PROVE CellsInv'
  BY <1>3, <1>7, ReqFrame
<1>8. CASE UNCHANGED vars
  BY <1>3, <1>8 DEF vars, table
<1>9. QED
  BY <1>4, <1>5, <1>6, <1>7, <1>8 DEF Next

\* Without rollbacks the refcounts of the table are the cells AdapterStore
\* publishes, through swaps, evictions and failed commands.
THEOREM CellsShared ==
  ASSUME ~Rollbacks
  PROVE  Spec => []RefcountShared
<1>1. Init => GenInv /\ CellsInv
  BY DEF Init, GenInv, CellsInv, IdleReq, IdleCmd
<1>2. TypeInv /\ IndexInv /\ GenInv /\ CellsInv /\ [Next]_vars => GenInv' /\ CellsInv'
  BY GenKept, CellsKept
<1>3. CellsInv => RefcountShared
  BY DEF CellsInv, RefcountShared
<1>4. QED
  BY <1>1, <1>2, <1>3, IndexInvariant, PTL DEF Spec

\* A swap moves the table past the cache's generation, and a request that resets
\* the cache does so with the stack of the table.
LEMMA KvKept ==
  ASSUME WorkerMutex, ~Rollbacks, TypeInv, IndexInv, MutexInv, KvInv, [Next]_vars
  PROVE  KvInv'
<1>1. gen \in Nat /\ kv.generation \in Nat
  BY DEF TypeInv, StackType, ReqType, Stacks
<1>2. CASE UNCHANGED <<active, gen, kv, req>>
  BY <1>2 DEF KvInv
<1>3. CASE CmdBegin \/ CmdStep
  <2>1. UNCHANGED <<kv, req>> /\ \A r \in Requests : req[r].pc = "idle"
    BY <1>3, CmdFrame, CommandsAlone
  <2>2. CASE UNCHANGED <<active, gen>>
    BY <1>2, <2>1, <2>2
  <2>3. CASE SwapCommit
    <3>1. gen' = gen + 1
      BY <2>3 DEF SwapCommit
    <3>2. kv'.generation <= gen' /\ kv'.generation # gen'
      BY <1>1, <2>1, <3>1 DEF KvInv
    <3>3. QED
      BY <2>1, <3>2 DEF KvInv
  <2>4. CASE CmdBegin
    BY <2>2, <2>4 DEF CmdBegin, Preload, Swap, Rollback, table
  <2>5. CASE CmdStep
    BY <2>2, <2>3, <2>5 DEF CmdStep, EnforceBudget, EvictCheck, EvictApply, Forget, EvictDone,
       LoadRefused, LoadOk, LoadFails, Stage, DrainRefs, AttachStaged, CleanupStaged,
       SwapPublish, SwapRetire, SwapFinish, RollbackPublish, RollbackRetire, table
  <2>6. QED
    BY <1>3, <2>4, <2>5
<1>4. CASE RetireStep \/ SweepStep
  BY <1>2, <1>4, RetireFrame
<1>5. ASSUME NEW r \in Requests, ReqStep(r) PROVE KvInv'
  <2>1. UNCHANGED <<active, gen, index, cmd>>
    BY <1>5, ReqFrame
  <2>2. \A s \in Requests : s # r => req'[s] = req[s]
    BY <1>5, ReqEffect
  <2>3. /\ req'[r].pc \in {"pin", "hash", "coherence", "run"} => req'[r].stack.generation = gen
        /\ req'[r].pc \in {"hash", "coherence", "run"} => req'[r].generation = gen
    BY <1>5, ReqEffect DEF KvInv
  <2>4. CASE kv' = kv /\ req'[r].pc # "run"
    BY <2>1, <2>2, <2>3, <2>4 DEF KvInv
  <2>5. CASE /\ req[r].pc = "coherence"
             /\ kv' = IF kv.generation # req[r].generation THEN req[r].stack ELSE kv
    <3>1. /\ req[r].generation = gen /\ req[r].stack.generation = gen
          /\ req[r].stack.active = active
      BY <2>5 DEF KvInv, MutexInv
    <3>2. kv'.generation = gen /\ kv'.active = active
      BY <2>5, <3>1 DEF KvInv
    <3>3. gen <= gen
      BY <1>1
    <3>4. QED
      BY <2>1, <2>2, <2>3, <3>2, <3>3 DEF KvInv
  <2>6. QED
    BY <1>5, <2>4, <2>5, ReqEffect
<1>6. CASE UNCHANGED vars
  BY <1>2, <1>6 DEF vars, table
<1>7. QED
  BY <1>3, <1>4, <1>5, <1>6 DEF Next

\* Without rollbacks the generation that ensure_cache_coherence compares tells
\* stacks apart: behind the worker's lock a running request has a KV cache that
\* was filled under its own stack.
THEOREM CacheCoherent ==
  ASSUME WorkerMutex, ~Rollbacks
  PROVE  Spec => []KvCoherent
<1>1. Init => MutexInv /\ KvInv
  BY DEF Init, MutexInv, KvInv, IdleReq, EmptyStack
<1>2. TypeInv /\ IndexInv /\ MutexInv /\ KvInv /\ [Next]_vars => MutexInv' /\ KvInv'
  BY MutexKept, KvKept
<1>3. MutexInv /\ KvInv => KvCoherent
  BY DEF MutexInv, KvInv, KvCoherent
<1>4. QED
  BY <1>1, <1>2, <1>3, IndexInvariant, PTL DEF Spec
===============================================================================

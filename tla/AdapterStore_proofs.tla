------------------------- MODULE AdapterStore_proofs -------------------------
(***************************************************************************)
(* Theorems about AdapterStore, for any number of requests, any set of     *)
(* cells and any bounds: the types, the exactness of the refcounts, that a *)
(* completed pin keeps its snapshot tracked, the retention cap of a drain, *)
(* and the chain of the audit log.                                         *)
(*                                                                         *)
(* RefcountExact is not inductive alone: a request that leaves or enters   *)
(* "idle" must hold nothing, and the type of rc (no underflow) needs the   *)
(* count itself.  PinShape ties a request's control point to what it       *)
(* holds; SavedOlder says what a rollback can restore.  AuditChain needs   *)
(* to know which generation the log ends with, also between a replacement  *)
(* and its audit: ChainInv says so.                                        *)
(***************************************************************************)
EXTENDS AdapterStore, FiniteSetTheorems, SequenceTheorems, TLAPS

\* What a request holds follows from where it is.
PinShape ==
  \A r \in Requests :
    /\ req[r].pinned \subseteq req[r].snap.entries
    /\ req[r].pc = "idle" => req[r].pinned = {}
    /\ req[r].pc = "pinned" => req[r].pinned = req[r].snap.entries

\* The caller's rollback state is the current snapshot or an older generation.
SavedOlder == saved # NoSnapshot => saved = current \/ saved.generation < current.generation

Holders(c) == {r \in Requests : c \in req[r].pinned}

IndInv == TypeOK /\ PinShape /\ RefcountExact

\* The audit log stays a log within its cap.
LEMMA AuditedType ==
  ASSUME NEW log \in Seq(AuditRecords), Len(log) <= MaxAudit,
         NEW e \in Events, NEW g \in Nat, NEW p \in Nat
  PROVE  /\ Audited(log, e, g, p) \in Seq(AuditRecords)
         /\ Len(Audited(log, e, g, p)) <= MaxAudit
<1> DEFINE rec == [event |-> e, generation |-> g, previous |-> p]
<1>1. rec \in AuditRecords
  BY DEF AuditRecords
<1>2. CASE Len(log) = MaxAudit
  <2>1. log # <<>>
    BY <1>2, StoreAssumption
  <2>2. Tail(log) \in Seq(AuditRecords) /\ Len(Tail(log)) = Len(log) - 1
    BY <2>1, HeadTailProperties
  <2>3. QED
    BY <1>1, <1>2, <2>2, AppendProperties DEF Audited
<1>3. CASE Len(log) # MaxAudit
  BY <1>1, <1>3, StoreAssumption, AppendProperties DEF Audited
<1>4. QED
  BY <1>2, <1>3

\* Removing a position of a list keeps its elements' type and shortens it.
LEMMA WithoutType ==
  ASSUME NEW S, NEW s \in Seq(S), NEW k \in 1..Len(s)
  PROVE  /\ Without(s, k) \in Seq(S)
         /\ Len(Without(s, k)) = Len(s) - 1
         /\ \A j \in 1..Len(s) : j # k => \E m \in 1..(Len(s) - 1) : Without(s, k)[m] = s[j]
<1> DEFINE u == SubSeq(s, 1, k - 1)
           v == SubSeq(s, k + 1, Len(s))
<1>0. Len(s) \in Nat /\ k \in Nat
  BY LenProperties
<1>1. u \in Seq(S) /\ Len(u) = k - 1 /\ \A i \in 1..(k - 1) : u[i] = s[i]
  BY <1>0, SubSeqProperties
<1>2. v \in Seq(S) /\ Len(v) = Len(s) - k /\ \A i \in 1..(Len(s) - k) : v[i] = s[k + i]
  BY <1>0, SubSeqProperties
<1> HIDE DEF u, v
<1>3. /\ u \o v \in Seq(S)
      /\ Len(u \o v) = Len(s) - 1
      /\ \A i \in 1..(Len(s) - 1) : (u \o v)[i] = IF i <= k - 1 THEN u[i] ELSE v[i - (k - 1)]
  <2>1. Len(u) + Len(v) = Len(s) - 1
    BY <1>0, <1>1, <1>2
  <2>2. /\ u \o v \in Seq(S)
        /\ Len(u \o v) = Len(u) + Len(v)
        /\ \A i \in 1..(Len(u) + Len(v)) :
             (u \o v)[i] = IF i <= Len(u) THEN u[i] ELSE v[i - Len(u)]
    BY <1>1, <1>2, ConcatProperties
  <2>3. QED
    BY <1>1, <2>1, <2>2
<1>4. ASSUME NEW j \in 1..Len(s), j # k
      PROVE  \E m \in 1..(Len(s) - 1) : (u \o v)[m] = s[j]
  <2>1. CASE j < k
    BY <1>0, <1>1, <1>3, <2>1
  <2>2. CASE j > k
    <3>1. j - 1 \in 1..(Len(s) - 1) /\ ~(j - 1 <= k - 1) /\ j - k \in 1..(Len(s) - k)
      BY <1>0, <2>2
    <3>2. (j - 1) - (k - 1) = j - k /\ k + (j - k) = j
      BY <1>0
    <3>3. (u \o v)[j - 1] = v[(j - 1) - (k - 1)]
      BY <1>3, <3>1
    <3>4. v[j - k] = s[k + (j - k)]
      BY <1>2, <3>1
    <3>5. QED
      BY <3>1, <3>2, <3>3, <3>4
  <2>3. j < k \/ j > k
    BY <1>0, <1>4
  <2>4. QED
    BY <2>1, <2>2, <2>3
<1>5. QED
  BY <1>3, <1>4 DEF Without, u, v

\* A cell that a request holds is counted: its refcount is not zero.
LEMMA HeldPositive ==
  ASSUME TypeOK, RefcountExact, NEW r \in Requests, NEW c \in Cells,
         c \in req[r].pinned
  PROVE  rc[c] >= 1
<1>1. IsFiniteSet(Holders(c)) /\ r \in Holders(c)
  BY StoreAssumption, FS_Subset DEF Holders
<1>2. Cardinality(Holders(c)) # 0 /\ Cardinality(Holders(c)) \in Nat
  BY <1>1, FS_EmptySet, FS_CardinalityType
<1>3. QED
  BY <1>2 DEF RefcountExact, Holders

\* The initial state satisfies the inductive invariant.
LEMMA InitInv == Init => IndInv
<1> SUFFICES ASSUME Init PROVE IndInv
  OBVIOUS
<1>1. TypeOK
  BY StoreAssumption DEF Init, TypeOK, IdleRequest, IdleInstall, IdleDrain,
     EmptySnapshot, Snapshots, Events, InstallEvents, RequestStates, InstallStates,
     DrainStates
<1>2. PinShape
  BY DEF Init, PinShape, IdleRequest
<1>3. RefcountExact
  <2> SUFFICES ASSUME NEW c \in Cells
               PROVE  rc[c] = Cardinality({r \in Requests : c \in req[r].pinned})
    BY DEF RefcountExact
  <2>1. {r \in Requests : c \in req[r].pinned} = {}
    BY DEF Init, IdleRequest
  <2>2. QED
    BY <2>1, FS_EmptySet DEF Init
<1>4. QED
  BY <1>1, <1>2, <1>3 DEF IndInv

\* Replacing the snapshot, or refusing to, keeps the types.
LEMMA ReplaceType ==
  ASSUME TypeOK, NEW g \in Nat, NEW E \in SUBSET Cells, NEW e \in Events,
         NEW n \in Nat, Replace(g, E, e, n)
  PROVE  /\ current' \in Snapshots
         /\ inst' \in InstallStates
BY DEF TypeOK, Replace, Snapshots, Events, InstallStates

\* Every step keeps the types; that rc stays a natural number is HeldPositive.
LEMMA TypeStep == IndInv /\ [Next]_vars => TypeOK'
<1> SUFFICES ASSUME IndInv, [Next]_vars PROVE TypeOK'
  OBVIOUS
<1> USE DEF IndInv
<1>1. ASSUME NEW r \in Requests, RequestNext(r) PROVE TypeOK'
  <2>1. CASE PinSnapshot(r)
    <3>1. req' \in [Requests -> RequestStates]
      BY <2>1 DEF PinSnapshot, TypeOK, RequestStates
    <3>2. QED
      BY <2>1, <3>1 DEF PinSnapshot, TypeOK
  <2>2. ASSUME NEW c \in Cells, PinCell(r, c) PROVE TypeOK'
    <3>1. req' \in [Requests -> RequestStates]
      BY <2>2 DEF PinCell, TypeOK, RequestStates
    <3>2. rc' \in [Cells -> Nat]
      BY <2>2 DEF PinCell, TypeOK
    <3>3. QED
      BY <2>2, <3>1, <3>2 DEF PinCell, TypeOK
  <2>3. ASSUME NEW c \in Cells, DropCell(r, c) PROVE TypeOK'
    <3>1. rc[c] >= 1
      BY <2>3, HeldPositive DEF DropCell
    <3>2. rc' \in [Cells -> Nat]
      BY <2>3, <3>1 DEF DropCell, TypeOK
    <3>3. req' \in [Requests -> RequestStates]
      BY <2>3 DEF DropCell, TypeOK, RequestStates
    <3>4. QED
      BY <2>3, <3>2, <3>3 DEF DropCell, TypeOK
  <2>4. CASE PinDone(r)
    <3>1. req' \in [Requests -> RequestStates]
      BY <2>4 DEF PinDone, TypeOK, RequestStates
    <3>2. QED
      BY <2>4, <3>1 DEF PinDone, TypeOK
  <2>5. CASE DropBegin(r)
    <3>1. req' \in [Requests -> RequestStates]
      BY <2>5 DEF DropBegin, TypeOK, RequestStates
    <3>2. QED
      BY <2>5, <3>1 DEF DropBegin, TypeOK
  <2>6. CASE DropDone(r)
    <3>1. req' \in [Requests -> RequestStates]
      BY <2>6 DEF DropDone, TypeOK, RequestStates, IdleRequest, EmptySnapshot, Snapshots
    <3>2. QED
      BY <2>6, <3>1 DEF DropDone, TypeOK
  <2>7. QED
    BY <1>1, <2>1, <2>2, <2>3, <2>4, <2>5, <2>6 DEF RequestNext
<1>2. ASSUME NEW g \in 1..MaxGen, NEW E \in SUBSET Cells, NEW n \in {0, MaxAttempts},
             Install(g, E, n)
      PROVE  TypeOK'
  <2>1. g \in Nat /\ n \in Nat /\ "generation_installed" \in Events
    BY StoreAssumption DEF Events, InstallEvents
  <2>2. Replace(g, E, "generation_installed", n)
    BY <1>2 DEF Install
  <2>3. QED
    BY <1>2, <2>1, <2>2, ReplaceType DEF Install, TypeOK
<1>3. CASE SwapAborted
  BY <1>3 DEF SwapAborted, TypeOK
<1>4. CASE InstallForce
  <2>1. saved \in Snapshots /\ "generation_forced_install" \in Events
    BY <1>4 DEF InstallForce, TypeOK, Events, InstallEvents
  <2>2. saved.generation \in Nat /\ saved.entries \in SUBSET Cells
    BY <2>1 DEF Snapshots
  <2>3. Replace(saved.generation, saved.entries, "generation_forced_install", 0)
    BY <1>4 DEF InstallForce
  <2>4. QED
    BY <1>4, <2>1, <2>2, <2>3, ReplaceType DEF InstallForce, TypeOK
<1>5. CASE PushRetired
  <2>1. inst.old \in Snapshots /\ inst' \in InstallStates
    BY <1>5 DEF TypeOK, PushRetired, InstallStates
  <2>2. Append(retired, inst.old) \in Seq(Snapshots)
    BY <2>1, AppendProperties DEF TypeOK
  <2>3. QED
    BY <1>5, <2>1, <2>2 DEF PushRetired, RetiredFree, TypeOK
<1>6. CASE InstallAudit
  <2>1. /\ inst.event \in Events /\ "generation_retry_succeeded" \in Events
        /\ inst.generation \in Nat /\ inst.old.generation \in Nat
        /\ current.generation \in Nat
    BY DEF TypeOK, InstallStates, Snapshots, Events
  <2> DEFINE log == Audited(audit, inst.event, inst.generation, inst.old.generation)
  <2>2. log \in Seq(AuditRecords) /\ Len(log) <= MaxAudit
    BY <2>1, AuditedType DEF TypeOK
  <2> HIDE DEF log
  <2>3. LET l2 == Audited(log, "generation_retry_succeeded", inst.generation,
                          current.generation)
        IN  l2 \in Seq(AuditRecords) /\ Len(l2) <= MaxAudit
    BY <2>1, <2>2, AuditedType
  <2>4. audit' \in Seq(AuditRecords) /\ Len(audit') <= MaxAudit
    BY <1>6, <2>2, <2>3 DEF InstallAudit, log
  <2>5. inst' \in InstallStates
    <3>1. inst \in InstallStates /\ inst' = AfterAttempt
      BY <1>6 DEF InstallAudit, TypeOK
    <3>2. IdleInstall \in InstallStates
      BY DEF IdleInstall, InstallStates, EmptySnapshot, Snapshots, Events
    <3>3. ASSUME inst.left > 1
          PROVE  [inst EXCEPT !.pc = "sleep", !.left = @ - 1] \in InstallStates
      <4>1. inst.left - 1 \in Nat
        BY <3>1, <3>3 DEF InstallStates
      <4>2. QED
        BY <3>1, <4>1 DEF InstallStates
    <3>4. [inst EXCEPT !.pc = "exhausted"] \in InstallStates
      BY <3>1 DEF InstallStates
    <3>5. QED
      BY <3>1, <3>2, <3>3, <3>4 DEF AfterAttempt
  <2>6. QED
    BY <1>6, <2>4, <2>5 DEF InstallAudit, TypeOK
<1>7. CASE InstallAgain
  <2>1. "generation_installed" \in Events /\ inst.generation \in Nat
        /\ inst.entries \in SUBSET Cells /\ inst.left \in Nat
    BY DEF TypeOK, InstallStates, Events, InstallEvents
  <2>2. QED
    BY <1>7, <2>1, ReplaceType DEF InstallAgain, TypeOK
<1>8. CASE RetryExhausted
  <2>1. "generation_retry_exhausted" \in Events /\ inst.generation \in Nat
        /\ current.generation \in Nat
    BY DEF TypeOK, InstallStates, Snapshots, Events
  <2>2. audit' \in Seq(AuditRecords) /\ Len(audit') <= MaxAudit
    BY <1>8, <2>1, AuditedType DEF RetryExhausted, TypeOK
  <2>3. IdleInstall \in InstallStates
    BY DEF IdleInstall, InstallStates, EmptySnapshot, Snapshots, Events
  <2>4. QED
    BY <1>8, <2>2, <2>3 DEF RetryExhausted, TypeOK
<1>9. CASE DrainBegin
  <2>1. Len(retired) \in Nat
    BY LenProperties DEF TypeOK
  <2>2. drain' \in DrainStates /\ drain'.pos = 1 /\ drain'.pc = "scan"
    <3>1. /\ drain \in DrainStates /\ drain.pos = 1
          /\ drain' = [drain EXCEPT !.pc = "scan"]
      BY <1>9 DEF DrainBegin, TypeOK, IdleDrain
    <3>2. QED
      BY <3>1 DEF DrainStates
  <2>3. QED
    BY <1>9, <2>1, <2>2 DEF DrainBegin, TypeOK
<1>10. ASSUME drain.pc = "scan", drain.pos \in 1..Len(retired), FreeScanned
       PROVE  /\ retired' \in Seq(Snapshots) /\ drain' \in DrainStates
              /\ drain'.pc = "scan" /\ drain'.pos <= Len(retired') + 1
  <2>1. /\ Without(retired, drain.pos) \in Seq(Snapshots)
        /\ Len(Without(retired, drain.pos)) = Len(retired) - 1
    BY <1>10, WithoutType DEF TypeOK
  <2>2. drain' \in DrainStates /\ drain'.pc = "scan" /\ drain'.pos = drain.pos
    <3>1. /\ drain \in DrainStates /\ drain.pc = "scan"
          /\ drain' = [drain EXCEPT !.seen = {}, !.freed = @ + 1]
      BY <1>10 DEF FreeScanned, TypeOK
    <3>2. drain.freed + 1 \in Nat
      BY <3>1 DEF DrainStates
    <3>3. QED
      BY <3>1, <3>2 DEF DrainStates
  <2>3. Len(retired) \in Nat /\ drain.pos <= Len(retired)
    BY <1>10, LenProperties DEF TypeOK
  <2>4. QED
    BY <1>10, <2>1, <2>2, <2>3 DEF FreeScanned
<1>11. CASE ScanEmpty
  BY <1>10, <1>11 DEF ScanEmpty, TypeOK
<1>12. ASSUME NEW c \in Cells, ScanCell(c) PROVE TypeOK'
  <2>1. CASE rc[c] > 0
    <3>1. Len(retired) \in Nat /\ drain.pos <= Len(retired) /\ drain.pos \in Nat
      BY <1>12, LenProperties DEF TypeOK, ScanCell, DrainStates
    <3>2. drain' \in DrainStates /\ drain'.pc = "scan" /\ drain'.pos = drain.pos + 1
      <4>1. /\ drain \in DrainStates /\ drain.pc = "scan"
            /\ drain' = [drain EXCEPT !.pos = @ + 1, !.seen = {}]
        BY <1>12, <2>1 DEF ScanCell, TypeOK
      <4>2. drain.pos + 1 \in Nat \ {0}
        BY <4>1 DEF DrainStates
      <4>3. QED
        BY <4>1, <4>2 DEF DrainStates
    <3>3. QED
      BY <1>12, <2>1, <3>1, <3>2 DEF ScanCell, TypeOK
  <2>2. CASE ~(rc[c] > 0) /\ retired[drain.pos].entries = drain.seen \cup {c}
    BY <1>10, <1>12, <2>2 DEF ScanCell, TypeOK
  <2>3. CASE ~(rc[c] > 0) /\ retired[drain.pos].entries # drain.seen \cup {c}
    <3>1. drain' \in DrainStates /\ drain'.pc = "scan" /\ drain'.pos = drain.pos
      <4>1. /\ drain \in DrainStates /\ drain.pc = "scan"
            /\ drain' = [drain EXCEPT !.seen = @ \cup {c}]
        BY <1>12, <2>3 DEF ScanCell, TypeOK
      <4>2. QED
        BY <4>1 DEF DrainStates
    <3>2. QED
      BY <1>12, <2>3, <3>1 DEF ScanCell, TypeOK
  <2>4. QED
    BY <2>1, <2>2, <2>3
<1>13. CASE ScanEnd
  <2>0. Len(retired) \in Nat
    BY LenProperties DEF TypeOK
  <2>1. CASE Len(retired) > MaxRetired
    <3> DEFINE excess == Len(retired) - MaxRetired
    <3>1. excess \in Nat /\ excess <= Len(retired)
      BY <2>0, <2>1, StoreAssumption
    <3>2. /\ SubSeq(retired, 1, excess) \in Seq(Snapshots)
          /\ SubSeq(retired, excess + 1, Len(retired)) \in Seq(Snapshots)
      BY <2>0, <3>1, SubSeqProperties DEF TypeOK
    <3>3. drain' \in DrainStates /\ drain'.pc = "evict"
      BY <1>13, <2>1, <3>2 DEF ScanEnd, TypeOK, DrainStates
    <3>4. QED
      BY <1>13, <2>1, <3>2, <3>3 DEF ScanEnd, TypeOK
  <2>2. CASE ~(Len(retired) > MaxRetired)
    <3>1. drain' \in DrainStates /\ drain'.pc = "report"
      BY <1>13, <2>2 DEF ScanEnd, TypeOK, DrainStates
    <3>2. QED
      BY <1>13, <2>2, <3>1 DEF ScanEnd, TypeOK
  <2>3. QED
    BY <2>1, <2>2
<1>14. CASE EvictAudit
  <2>1. drain.evicted \in Seq(Snapshots) /\ drain.evicted # <<>>
    BY <1>14 DEF EvictAudit, TypeOK, DrainStates
  <2>2. Head(drain.evicted) \in Snapshots /\ Tail(drain.evicted) \in Seq(Snapshots)
    BY <2>1, HeadTailProperties
  <2>3. /\ "retired_force_evicted" \in Events /\ Head(drain.evicted).generation \in Nat
        /\ current.generation \in Nat
    BY <2>2 DEF TypeOK, Snapshots, Events
  <2>4. audit' \in Seq(AuditRecords) /\ Len(audit') <= MaxAudit
    BY <1>14, <2>3, AuditedType DEF EvictAudit, TypeOK
  <2>5. drain' \in DrainStates /\ drain'.pc = "evict"
    <3>1. /\ drain \in DrainStates /\ drain.pc = "evict"
          /\ drain' = [drain EXCEPT !.evicted = Tail(@), !.freed = @ + 1]
      BY <1>14 DEF EvictAudit, TypeOK
    <3>2. drain.freed + 1 \in Nat
      BY <3>1 DEF DrainStates
    <3>3. QED
      BY <2>2, <3>1, <3>2 DEF DrainStates
  <2>6. QED
    BY <1>14, <2>4, <2>5 DEF EvictAudit, TypeOK
<1>15. CASE EvictDone
  <2>1. drain' \in DrainStates /\ drain'.pc = "report"
    BY <1>15 DEF EvictDone, TypeOK, DrainStates
  <2>2. QED
    BY <1>15, <2>1 DEF EvictDone, TypeOK
<1>16. CASE DrainReport
  <2>1. "retired_drained" \in Events /\ current.generation \in Nat /\ 0 \in Nat
    BY DEF TypeOK, Snapshots, Events
  <2>2. audit' \in Seq(AuditRecords) /\ Len(audit') <= MaxAudit
    BY <1>16, <2>1, AuditedType DEF DrainReport, TypeOK
  <2>3. IdleDrain \in DrainStates /\ IdleDrain.pc = "idle"
    BY DEF IdleDrain, DrainStates
  <2>4. QED
    BY <1>16, <2>2, <2>3 DEF DrainReport, TypeOK
<1>17. CASE UNCHANGED vars
  BY <1>17 DEF vars, TypeOK
<1>18. QED
  BY <1>1, <1>2, <1>3, <1>4, <1>5, <1>6, <1>7, <1>8, <1>9, <1>11, <1>12, <1>13, <1>14,
     <1>15, <1>16, <1>17 DEF Next, SwapNext, InstallStep, DrainStep

\* Only the steps of requests change what requests hold and the refcounts.
LEMMA PinsUntouched ==
  ASSUME Next \/ UNCHANGED vars, ~(\E r \in Requests : RequestNext(r))
  PROVE  UNCHANGED <<req, rc>>
BY DEF Next, SwapNext, Install, SwapAborted, InstallForce, InstallStep, PushRetired,
   InstallAudit, InstallAgain, RetryExhausted, DrainBegin, DrainStep, ScanEmpty,
   ScanCell, ScanEnd, EvictAudit, EvictDone, DrainReport, vars

\* Every step keeps what a request holds tied to its control point.
LEMMA ShapeStep == IndInv /\ [Next]_vars => PinShape'
<1> SUFFICES ASSUME IndInv, [Next]_vars PROVE PinShape'
  OBVIOUS
<1>1. CASE \E r \in Requests : RequestNext(r)
  <2>1. PICK r \in Requests : RequestNext(r)
    BY <1>1
  <2>2. ASSUME NEW q \in Requests
        PROVE  /\ req'[q].pinned \subseteq req'[q].snap.entries
               /\ req'[q].pc = "idle" => req'[q].pinned = {}
               /\ req'[q].pc = "pinned" => req'[q].pinned = req'[q].snap.entries
    <3>0. req \in [Requests -> RequestStates]
      BY DEF IndInv, TypeOK
    <3>1. CASE q # r
      <4>1. req'[q] = req[q]
        BY <2>1, <3>0, <3>1 DEF RequestNext, PinSnapshot, PinCell, DropCell, PinDone,
           DropBegin, DropDone
      <4>2. QED
        BY <4>1 DEF IndInv, PinShape
    <3>2. CASE q = r
      <4>1. CASE PinSnapshot(r)
        BY <3>0, <3>2, <4>1 DEF PinSnapshot, RequestStates
      <4>2. ASSUME NEW c \in Cells, PinCell(r, c)
            PROVE  /\ req'[r].pinned \subseteq req'[r].snap.entries
                   /\ req'[r].pc = "pinning"
        BY <3>0, <4>2 DEF PinCell, RequestStates, IndInv, PinShape
      <4>3. ASSUME NEW c \in Cells, DropCell(r, c)
            PROVE  /\ req'[r].pinned \subseteq req'[r].snap.entries
                   /\ req'[r].pc = "dropping"
        BY <3>0, <4>3 DEF DropCell, RequestStates, IndInv, PinShape
      <4>4. CASE PinDone(r)
        BY <3>0, <3>2, <4>4 DEF PinDone, RequestStates, IndInv, PinShape
      <4>5. CASE DropBegin(r)
        BY <3>0, <3>2, <4>5 DEF DropBegin, RequestStates, IndInv, PinShape
      <4>6. CASE DropDone(r)
        BY <3>0, <3>2, <4>6 DEF DropDone, RequestStates, IdleRequest
      <4>7. QED
        BY <2>1, <3>2, <4>1, <4>2, <4>3, <4>4, <4>5, <4>6 DEF RequestNext
    <3>3. QED
      BY <3>1, <3>2
  <2>3. QED
    BY <2>2 DEF PinShape
<1>2. CASE ~(\E r \in Requests : RequestNext(r))
  <2>1. UNCHANGED req
    BY <1>2, PinsUntouched
  <2>2. QED
    BY <2>1 DEF IndInv, PinShape
<1>3. QED
  BY <1>1, <1>2

\* Every step keeps the refcounts exact: an increment adds the request to the
\* holders of the cell, a decrement removes it, and nothing else does either.
LEMMA CountStep == IndInv /\ [Next]_vars => RefcountExact'
<1> SUFFICES ASSUME IndInv, [Next]_vars, NEW c \in Cells
             PROVE  rc'[c] = Cardinality(Holders(c)')
  BY DEF RefcountExact, Holders
<1>0. /\ req \in [Requests -> RequestStates] /\ rc \in [Cells -> Nat]
      /\ rc[c] = Cardinality(Holders(c)) /\ IsFiniteSet(Holders(c))
  BY StoreAssumption, FS_Subset DEF IndInv, TypeOK, RefcountExact, Holders
<1>1. ASSUME NEW r \in Requests, RequestNext(r) PROVE rc'[c] = Cardinality(Holders(c)')
  <2>1. ASSUME UNCHANGED rc, req'[r].pinned = req[r].pinned,
               \A q \in Requests : q # r => req'[q] = req[q]
        PROVE  rc'[c] = Cardinality(Holders(c)')
    <3>1. Holders(c)' = Holders(c)
      BY <2>1 DEF Holders
    <3>2. QED
      BY <1>0, <2>1, <3>1
  <2>2. CASE PinSnapshot(r)
    BY <1>0, <2>1, <2>2 DEF PinSnapshot, IndInv, PinShape
  <2>3. ASSUME NEW d \in Cells, PinCell(r, d) PROVE rc'[c] = Cardinality(Holders(c)')
    <3>1. CASE d = c
      <4>1. r \notin Holders(c)
        BY <2>3, <3>1 DEF PinCell, Holders
      <4>2. Holders(c)' = Holders(c) \cup {r}
        BY <1>0, <2>3, <3>1 DEF PinCell, Holders, RequestStates
      <4>3. Cardinality(Holders(c) \cup {r}) = Cardinality(Holders(c)) + 1
        BY <1>0, <4>1, FS_AddElement
      <4>4. QED
        BY <1>0, <2>3, <3>1, <4>2, <4>3 DEF PinCell
    <3>2. CASE d # c
      <4>1. Holders(c)' = Holders(c)
        BY <1>0, <2>3, <3>2 DEF PinCell, Holders, RequestStates
      <4>2. QED
        BY <1>0, <2>3, <3>2, <4>1 DEF PinCell
    <3>3. QED
      BY <3>1, <3>2
  <2>4. ASSUME NEW d \in Cells, DropCell(r, d) PROVE rc'[c] = Cardinality(Holders(c)')
    <3>1. CASE d = c
      <4>1. r \in Holders(c)
        BY <2>4, <3>1 DEF DropCell, Holders
      <4>2. Holders(c)' = Holders(c) \ {r}
        BY <1>0, <2>4, <3>1 DEF DropCell, Holders, RequestStates
      <4>3. Cardinality(Holders(c) \ {r}) = Cardinality(Holders(c)) - 1
        BY <1>0, <4>1, FS_RemoveElement
      <4>4. QED
        BY <1>0, <2>4, <3>1, <4>2, <4>3 DEF DropCell
    <3>2. CASE d # c
      <4>1. Holders(c)' = Holders(c)
        BY <1>0, <2>4, <3>2 DEF DropCell, Holders, RequestStates
      <4>2. QED
        BY <1>0, <2>4, <3>2, <4>1 DEF DropCell
    <3>3. QED
      BY <3>1, <3>2
  <2>5. CASE PinDone(r)
    BY <1>0, <2>1, <2>5 DEF PinDone, RequestStates
  <2>6. CASE DropBegin(r)
    BY <1>0, <2>1, <2>6 DEF DropBegin, RequestStates
  <2>7. CASE DropDone(r)
    BY <1>0, <2>1, <2>7 DEF DropDone, IdleRequest
  <2>8. QED
    BY <1>1, <2>2, <2>3, <2>4, <2>5, <2>6, <2>7 DEF RequestNext
<1>2. CASE ~(\E r \in Requests : RequestNext(r))
  <2>1. UNCHANGED <<req, rc>>
    BY <1>2, PinsUntouched
  <2>2. Holders(c)' = Holders(c)
    BY <2>1 DEF Holders
  <2>3. QED
    BY <1>0, <2>1, <2>2
<1>3. QED
  BY <1>1, <1>2

\* The inductive invariant holds in every reachable state of the store.
THEOREM StoreInvariant == Spec => []IndInv
<1>1. Init => IndInv
  BY InitInv
<1>2. IndInv /\ [Next]_vars => IndInv'
  BY TypeStep, ShapeStep, CountStep DEF IndInv
<1>3. QED
  BY <1>1, <1>2, PTL DEF Spec

\* The store's state always has its types; in particular no refcount ever
\* underflows and no scan runs past the end of the retired list.
THEOREM StoreTypeOK == Spec => []TypeOK
<1>1. IndInv => TypeOK
  BY DEF IndInv
<1>2. QED
  BY <1>1, StoreInvariant, PTL

\* Refcounts are exact whatever installs, rollbacks and drains run meanwhile:
\* the assertion of AdapterPins::drop never fails.
THEOREM StoreRefcountExact == Spec => []RefcountExact
<1>1. IndInv => RefcountExact
  BY DEF IndInv
<1>2. QED
  BY <1>1, StoreInvariant, PTL
-------------------------------------------------------------------------------
\* What a rollback can restore is the current snapshot or an older one.
LEMMA SavedStep == IndInv /\ SavedOlder /\ [Next]_vars => SavedOlder'
<1> SUFFICES ASSUME IndInv, SavedOlder, [Next]_vars PROVE SavedOlder'
  OBVIOUS
<1>0. current \in Snapshots /\ saved \in Snapshots \cup {NoSnapshot} /\ current.generation \in Nat
  BY DEF IndInv, TypeOK, Snapshots
<1>1. ASSUME NEW g \in Nat, NEW E, NEW n, Replace(g, E, "generation_installed", n)
      PROVE  current' = current \/ current'.generation > current.generation
  BY <1>0, <1>1 DEF Replace
<1>2. ASSUME NEW g \in 1..MaxGen, NEW E \in SUBSET Cells, NEW n \in {0, MaxAttempts},
             Install(g, E, n)
      PROVE  SavedOlder'
  <2>1. current' = current \/ current'.generation > current.generation
    BY <1>1, <1>2 DEF Install
  <2>2. QED
    BY <1>0, <1>2, <2>1 DEF Install, SavedOlder
<1>3. CASE InstallAgain
  <2>1. inst.generation \in Nat
    BY DEF IndInv, TypeOK, InstallStates
  <2>2. current' = current \/ current'.generation > current.generation
    BY <1>1, <1>3, <2>1 DEF InstallAgain
  <2>3. UNCHANGED saved
    BY <1>3 DEF InstallAgain
  <2>4. CASE saved # NoSnapshot /\ current'.generation > current.generation
    <3>1. saved.generation \in Nat /\ saved.generation <= current.generation
      BY <1>0, <2>4 DEF SavedOlder, Snapshots
    <3>2. current'.generation \in Nat
      BY <1>0, <1>3, <2>1 DEF InstallAgain, Replace
    <3>3. QED
      BY <1>0, <2>3, <2>4, <3>1, <3>2 DEF SavedOlder
  <2>5. QED
    BY <2>2, <2>3, <2>4 DEF SavedOlder
<1>4. CASE SwapAborted
  BY <1>4 DEF SwapAborted, SavedOlder
<1>5. CASE InstallForce
  BY <1>5 DEF InstallForce, SavedOlder
<1>6. CASE UNCHANGED <<saved, current>>
  BY <1>6 DEF SavedOlder
<1>7. QED
  BY <1>2, <1>3, <1>4, <1>5, <1>6 DEF Next, RequestNext, PinSnapshot, PinCell, PinDone,
     DropBegin, DropCell, DropDone, SwapNext, InstallStep, PushRetired, InstallAudit,
     RetryExhausted, DrainBegin, DrainStep, ScanEmpty, ScanCell, ScanEnd, EvictAudit,
     EvictDone, DrainReport, vars

\* One step drops a tracked snapshot of a completed, non-empty pin only by a
\* forced eviction.
LEMMA RetainedStep ==
  ASSUME IndInv, SavedOlder, [Next]_vars, NEW r \in Requests,
         req[r].pc = "pinned", req'[r].pc = "pinned", req[r].snap.entries # {},
         Tracked(req[r].snap)
  PROVE  Tracked(req[r].snap)' \/ drain'.pc = "evict"
<1> DEFINE s == req[r].snap
<1>0. /\ current \in Snapshots /\ retired \in Seq(Snapshots) /\ Len(retired) \in Nat
      /\ req \in [Requests -> RequestStates]
  BY LenProperties DEF IndInv, TypeOK
\* The request itself does not move, so its snapshot is the same.
<1>1. req'[r] = req[r]
  <2>1. CASE \E q \in Requests : RequestNext(q)
    <3>1. PICK q \in Requests : RequestNext(q)
      BY <2>1
    <3>2. CASE q = r
      <4>1. DropBegin(r)
        BY <3>1, <3>2 DEF RequestNext, PinSnapshot, PinCell, PinDone, DropCell, DropDone
      <4>2. req'[r].pc = "dropping"
        BY <1>0, <4>1 DEF DropBegin, RequestStates
      <4>3. QED
        BY <4>2
    <3>3. CASE q # r
      BY <1>0, <3>1, <3>3 DEF RequestNext, PinSnapshot, PinCell, PinDone, DropBegin,
         DropCell, DropDone
    <3>4. QED
      BY <3>2, <3>3
  <2>2. CASE ~(\E q \in Requests : RequestNext(q))
    BY <2>2, PinsUntouched
  <2>3. QED
    BY <2>1, <2>2
<1>2. ASSUME UNCHANGED <<current, retired>>, inst.pc = "push" => UNCHANGED inst
      PROVE  Tracked(s)'
  BY <1>1, <1>2 DEF Tracked
<1>3. ASSUME NEW g \in Nat, NEW E, NEW e, NEW n, Replace(g, E, e, n),
             inst.pc # "push", UNCHANGED retired,
             e = "generation_installed"
               \/ (g = current.generation => E = current.entries)
      PROVE  Tracked(s)'
  <2>1. CASE s = current
    <3>1. CASE current' = current
      BY <1>1, <2>1, <3>1 DEF Tracked
    <3>2. CASE current' # current
      <4>1. g # current.generation
        BY <1>0, <1>3, <3>2 DEF Replace, Snapshots
      <4>2. inst'.pc = "push" /\ inst'.old = current
        BY <1>3, <3>2, <4>1 DEF Replace
      <4>3. QED
        BY <1>1, <2>1, <4>2 DEF Tracked
    <3>3. QED
      BY <3>1, <3>2
  <2>2. CASE \E k \in 1..Len(retired) : retired[k] = s
    BY <1>1, <1>3, <2>2 DEF Tracked
  <2>3. QED
    BY <1>3, <2>1, <2>2 DEF Tracked
<1>4. ASSUME NEW g \in 1..MaxGen, NEW E \in SUBSET Cells, NEW n \in {0, MaxAttempts},
             Install(g, E, n)
      PROVE  Tracked(s)'
  BY <1>3, <1>4 DEF Install
<1>5. CASE InstallAgain
  <2>1. inst.generation \in Nat
    BY DEF IndInv, TypeOK, InstallStates
  <2>2. QED
    BY <1>3, <1>5, <2>1 DEF InstallAgain
<1>6. CASE InstallForce
  <2>1. saved \in Snapshots /\ (saved = current \/ saved.generation < current.generation)
    BY <1>6 DEF IndInv, TypeOK, SavedOlder, InstallForce
  <2>2. saved.generation \in Nat /\ (saved.generation = current.generation => saved.entries = current.entries)
    BY <1>0, <2>1 DEF Snapshots
  <2>3. QED
    BY <1>3, <1>6, <2>2 DEF InstallForce
<1>7. CASE PushRetired
  <2>1. inst.old \in Snapshots
    BY DEF IndInv, TypeOK, InstallStates
  <2>2. /\ Len(retired') = Len(retired) + 1 /\ retired'[Len(retired) + 1] = inst.old
        /\ \A k \in 1..Len(retired) : retired'[k] = retired[k]
    BY <1>0, <1>7, <2>1, AppendProperties DEF PushRetired
  <2>3. UNCHANGED current
    BY <1>7 DEF PushRetired
  <2>4. QED
    BY <1>0, <1>1, <2>2, <2>3 DEF Tracked
\* A snapshot is freed by the scan only on reading a zero refcount of an entry
\* of it, and a completed pin holds every entry.
<1>8. ASSUME drain.pos \in 1..Len(retired), FreeScanned, UNCHANGED <<current, inst>>,
             retired[drain.pos] # s
      PROVE  Tracked(s)'
  <2>1. /\ Len(Without(retired, drain.pos)) = Len(retired) - 1
        /\ \A j \in 1..Len(retired) : j # drain.pos =>
             \E m \in 1..(Len(retired) - 1) : Without(retired, drain.pos)[m] = retired[j]
    BY <1>0, <1>8, WithoutType
  <2>2. retired' = Without(retired, drain.pos)
    BY <1>8 DEF FreeScanned
  <2>3. QED
    BY <1>1, <1>8, <2>1, <2>2 DEF Tracked
<1>9. CASE ScanEmpty
  BY <1>8, <1>9 DEF ScanEmpty
<1>10. ASSUME NEW c \in Cells, ScanCell(c) PROVE Tracked(s)'
  <2>1. CASE UNCHANGED retired
    BY <1>2, <1>10, <2>1 DEF ScanCell
  <2>2. CASE ~(rc[c] > 0) /\ FreeScanned
    <3>1. retired[drain.pos] # s
      <4>1. SUFFICES ASSUME retired[drain.pos] = s PROVE FALSE
        OBVIOUS
      <4>2. c \in req[r].pinned
        BY <1>10, <4>1 DEF ScanCell, IndInv, PinShape
      <4>3. rc[c] >= 1 /\ rc[c] \in Nat
        BY <4>2, HeldPositive DEF IndInv, TypeOK
      <4>4. QED
        BY <2>2, <4>3
    <3>2. QED
      BY <1>8, <1>10, <2>2, <3>1 DEF ScanCell
  <2>3. QED
    BY <1>10, <2>1, <2>2 DEF ScanCell
<1>11. CASE ScanEnd
  <2>1. CASE Len(retired) > MaxRetired
    <3>1. drain \in DrainStates
      BY DEF IndInv, TypeOK
    <3>2. drain'.pc = "evict"
      BY <1>11, <2>1, <3>1 DEF ScanEnd, DrainStates
    <3>3. QED
      BY <3>2
  <2>2. CASE ~(Len(retired) > MaxRetired)
    BY <1>2, <1>11, <2>2 DEF ScanEnd
  <2>3. QED
    BY <2>1, <2>2
<1>12. CASE (\E q \in Requests : RequestNext(q)) \/ SwapAborted \/ InstallAudit
            \/ RetryExhausted \/ DrainBegin \/ EvictAudit \/ EvictDone \/ DrainReport
            \/ UNCHANGED vars
  BY <1>2, <1>12 DEF RequestNext, PinSnapshot, PinCell, PinDone, DropBegin, DropCell,
     DropDone, SwapAborted, InstallAudit, RetryExhausted, DrainBegin, EvictAudit,
     EvictDone, DrainReport, vars
<1>13. QED
  BY <1>4, <1>5, <1>6, <1>7, <1>9, <1>10, <1>11, <1>12 DEF Next, SwapNext, InstallStep,
     DrainStep

\* A completed pin keeps its snapshot tracked by the store until it is dropped
\* or the retention cap forces the snapshot out.
THEOREM StorePinnedRetained == Spec => PinnedRetained
<1> DEFINE Kept(r) ==
      /\ req[r].pc = "pinned" /\ req'[r].pc = "pinned"
      /\ req[r].snap.entries # {}
      /\ Tracked(req[r].snap)
      /\ ~Tracked(req[r].snap)'
      => drain'.pc = "evict"
<1>1. Init => SavedOlder
  BY DEF Init, SavedOlder
<1>2. IndInv /\ SavedOlder /\ [Next]_vars => SavedOlder'
  BY SavedStep
<1>3. IndInv /\ SavedOlder /\ [Next]_vars => [\A r \in Requests : Kept(r)]_vars
  <2>1. ASSUME IndInv, SavedOlder, [Next]_vars, NEW r \in Requests PROVE Kept(r)
    <3>1. SUFFICES ASSUME req[r].pc = "pinned", req'[r].pc = "pinned",
                          req[r].snap.entries # {}, Tracked(req[r].snap),
                          ~Tracked(req[r].snap)'
                   PROVE  drain'.pc = "evict"
      OBVIOUS
    <3>2. Tracked(req[r].snap)' \/ drain'.pc = "evict"
      BY <2>1, <3>1, RetainedStep
    <3>3. QED
      BY <3>1, <3>2
  <2>2. QED
    BY <2>1
<1>4. QED
  BY <1>1, <1>2, <1>3, StoreInvariant, PTL DEF Spec, PinnedRetained
-------------------------------------------------------------------------------
(* The retention cap and the audit chain *)

\* From the forced evictions to the return the list is within the cap: the
\* retired lock keeps installs from growing it again.
CapKept == drain.pc \in {"evict", "report"} => Len(retired) <= MaxRetired

\* Each install event among the first n of the log names the generation of the
\* one before it.
Linked(log, n) ==
  \A j, k \in 1..n :
    /\ j < k
    /\ log[j].event \in InstallEvents
    /\ log[k].event \in InstallEvents
    /\ \A m \in (j + 1)..(k - 1) : log[m].event \notin InstallEvents
    => log[k].previous = log[j].generation

Chain(log) == Linked(log, Len(log))

\* The last install event of the log, if there is one, is for generation g.
EndsWith(log, g) ==
  \A k \in 1..Len(log) :
    /\ log[k].event \in InstallEvents
    /\ \A m \in (k + 1)..Len(log) : log[m].event \notin InstallEvents
    => log[k].generation = g

\* An install that has replaced the snapshot and has not yet been audited.
Unaudited == inst.pc \in {"push", "audit"} /\ inst.event \in InstallEvents

\* The log is a chain that ends with the current generation, or with the one
\* just replaced while its replacement is still to be audited.
ChainInv ==
  /\ Chain(audit)
  /\ Unaudited => current.generation = inst.generation
  /\ EndsWith(audit, IF Unaudited THEN inst.old.generation ELSE current.generation)

\* What an audited log holds: the old events, but for the oldest when the log
\* was full, and the new one at the end.
LEMMA AuditedAt ==
  ASSUME NEW log \in Seq(AuditRecords), Len(log) <= MaxAudit,
         NEW e, NEW g, NEW p
  PROVE  \E off \in {0, 1} :
           /\ off <= Len(log)
           /\ Len(Audited(log, e, g, p)) = Len(log) - off + 1
           /\ \A k \in 1..(Len(log) - off) : Audited(log, e, g, p)[k] = log[k + off]
           /\ Audited(log, e, g, p)[Len(log) - off + 1] =
                [event |-> e, generation |-> g, previous |-> p]
<1> DEFINE rec == [event |-> e, generation |-> g, previous |-> p]
           out == Audited(log, e, g, p)
<1>0. Len(log) \in Nat
  BY LenProperties
<1>1. ASSUME NEW s \in Seq(AuditRecords)
      PROVE  /\ Len(Append(s, rec)) = Len(s) + 1
             /\ \A k \in 1..Len(s) : Append(s, rec)[k] = s[k]
             /\ Append(s, rec)[Len(s) + 1] = rec
  OBVIOUS
<1>2. CASE Len(log) = MaxAudit
  <2>1. log # <<>> /\ Len(log) >= 1
    BY <1>0, <1>2, StoreAssumption
  <2>2. /\ Tail(log) \in Seq(AuditRecords) /\ Len(Tail(log)) = Len(log) - 1
        /\ \A k \in 1..(Len(log) - 1) : Tail(log)[k] = log[k + 1]
    BY <2>1, HeadTailProperties
  <2>3. out = Append(Tail(log), rec)
    BY <1>2 DEF Audited
  <2> HIDE DEF out, rec
  <2>4. /\ Len(out) = Len(Tail(log)) + 1
        /\ \A k \in 1..Len(Tail(log)) : out[k] = Tail(log)[k]
        /\ out[Len(Tail(log)) + 1] = rec
    BY <1>1, <2>2, <2>3
  <2>5. /\ 1 <= Len(log) /\ Len(out) = Len(log) - 1 + 1
        /\ \A k \in 1..(Len(log) - 1) : out[k] = log[k + 1]
        /\ out[Len(log) - 1 + 1] = rec
    BY <1>0, <2>1, <2>2, <2>4
  <2>6. QED
    BY <2>5 DEF out, rec
<1>3. CASE Len(log) # MaxAudit
  <2>1. out = Append(log, rec)
    BY <1>3 DEF Audited
  <2> HIDE DEF out, rec
  <2>2. /\ Len(out) = Len(log) + 1
        /\ \A k \in 1..Len(log) : out[k] = log[k]
        /\ out[Len(log) + 1] = rec
    BY <1>1, <2>1
  <2>3. /\ 0 <= Len(log) /\ Len(out) = Len(log) - 0 + 1
        /\ \A k \in 1..(Len(log) - 0) : out[k] = log[k + 0]
        /\ out[Len(log) - 0 + 1] = rec
    BY <1>0, <2>2
  <2>4. QED
    BY <2>3 DEF out, rec
<1>4. QED
  BY <1>2, <1>3

\* The links between events that stay in the log.
LEMMA LinksKept ==
  ASSUME NEW n \in Nat, NEW off \in {0, 1}, NEW log, NEW out, Linked(log, n),
         \A k \in 1..(n - off) : out[k] = log[k + off]
  PROVE  Linked(out, n - off)
<1> SUFFICES ASSUME NEW j \in 1..(n - off), NEW k \in 1..(n - off), j < k,
                    out[j].event \in InstallEvents, out[k].event \in InstallEvents,
                    \A m \in (j + 1)..(k - 1) : out[m].event \notin InstallEvents
             PROVE  out[k].previous = out[j].generation
  BY DEF Linked
<1>1. /\ j + off \in 1..n /\ k + off \in 1..n /\ j + off < k + off
      /\ out[j] = log[j + off] /\ out[k] = log[k + off]
  OBVIOUS
<1>2. ASSUME NEW m \in (j + off + 1)..(k + off - 1) PROVE log[m].event \notin InstallEvents
  <2>1. m - off \in (j + 1)..(k - 1) /\ m - off \in 1..(n - off) /\ (m - off) + off = m
    BY <1>2
  <2>2. out[m - off] = log[m]
    BY <2>1
  <2>3. QED
    BY <2>1, <2>2
<1>3. QED
  BY <1>1, <1>2 DEF Linked

\* An event that is no install leaves the chain and its end.
LEMMA AuditedOther ==
  ASSUME NEW log \in Seq(AuditRecords), Len(log) <= MaxAudit,
         NEW e, e \notin InstallEvents, NEW g, NEW p, NEW x,
         Chain(log), EndsWith(log, x)
  PROVE  Chain(Audited(log, e, g, p)) /\ EndsWith(Audited(log, e, g, p), x)
<1> DEFINE out == Audited(log, e, g, p)
           n == Len(log)
<1>1. PICK off \in {0, 1} :
        /\ off <= n /\ Len(out) = n - off + 1
        /\ \A k \in 1..(n - off) : out[k] = log[k + off]
        /\ out[n - off + 1] = [event |-> e, generation |-> g, previous |-> p]
  BY AuditedAt
<1>2. n \in Nat /\ off \in Int
  BY LenProperties
<1> HIDE DEF out, n
<1>3. out[n - off + 1].event \notin InstallEvents
  BY <1>1
<1>4. Linked(out, n - off)
  <2>1. Linked(log, n)
    BY DEF Chain, n
  <2>2. \A k \in 1..(n - off) : out[k] = log[k + off]
    BY <1>1
  <2>3. QED
    BY <1>2, <2>1, <2>2, LinksKept
<1>5. Chain(out)
  <2>1. \A k \in 1..Len(out) : k \in 1..(n - off) \/ k = n - off + 1
    BY <1>1, <1>2
  <2>2. QED
    BY <1>1, <1>3, <1>4, <2>1 DEF Chain, Linked
<1>6. ASSUME NEW k \in 1..(n - off), out[k].event \in InstallEvents,
             \A m \in (k + 1)..(n - off + 1) : out[m].event \notin InstallEvents
      PROVE  out[k].generation = x
  <2>1. k + off \in 1..n /\ out[k] = log[k + off]
    BY <1>1, <1>2
  <2>2. ASSUME NEW m \in (k + off + 1)..n PROVE log[m].event \notin InstallEvents
    <3>1. m - off \in (k + 1)..(n - off) /\ m - off \in 1..(n - off) /\ (m - off) + off = m
      BY <1>2, <2>2
    <3>2. out[m - off] = log[m] /\ m - off \in (k + 1)..(n - off + 1)
      BY <1>1, <1>2, <3>1
    <3>3. QED
      BY <1>6, <3>2
  <2>3. QED
    BY <1>6, <2>1, <2>2 DEF EndsWith, n
<1>7. EndsWith(out, x)
  <2>1. \A k \in 1..Len(out) : k \in 1..(n - off) \/ k = n - off + 1
    BY <1>1, <1>2
  <2>2. QED
    BY <1>1, <1>3, <1>6, <2>1 DEF EndsWith
<1>8. QED
  BY <1>5, <1>7 DEF out

\* An install that names the generation at the chain's end is the next link.
LEMMA AuditedInstall ==
  ASSUME NEW log \in Seq(AuditRecords), Len(log) <= MaxAudit,
         NEW e \in InstallEvents, NEW g, NEW p, Chain(log), EndsWith(log, p)
  PROVE  Chain(Audited(log, e, g, p)) /\ EndsWith(Audited(log, e, g, p), g)
<1> DEFINE out == Audited(log, e, g, p)
           n == Len(log)
<1>1. PICK off \in {0, 1} :
        /\ off <= n /\ Len(out) = n - off + 1
        /\ \A k \in 1..(n - off) : out[k] = log[k + off]
        /\ out[n - off + 1] = [event |-> e, generation |-> g, previous |-> p]
  BY AuditedAt
<1>2. n \in Nat /\ off \in Int
  BY LenProperties
<1> HIDE DEF out, n
<1>3. /\ out[n - off + 1].event \in InstallEvents
      /\ out[n - off + 1].generation = g /\ out[n - off + 1].previous = p
  BY <1>1
<1>4. Linked(out, n - off)
  <2>1. Linked(log, n)
    BY DEF Chain, n
  <2>2. \A k \in 1..(n - off) : out[k] = log[k + off]
    BY <1>1
  <2>3. QED
    BY <1>2, <2>1, <2>2, LinksKept
<1>5. ASSUME NEW j \in 1..(n - off), out[j].event \in InstallEvents,
             \A m \in (j + 1)..(n - off) : out[m].event \notin InstallEvents
      PROVE  out[j].generation = p
  <2>1. j + off \in 1..n /\ out[j] = log[j + off]
    BY <1>1, <1>2
  <2>2. ASSUME NEW m \in (j + off + 1)..n PROVE log[m].event \notin InstallEvents
    <3>1. m - off \in (j + 1)..(n - off) /\ m - off \in 1..(n - off) /\ (m - off) + off = m
      BY <1>2, <2>2
    <3>2. out[m - off] = log[m]
      BY <1>1, <3>1
    <3>3. QED
      BY <1>5, <3>1, <3>2
  <2>3. QED
    BY <1>5, <2>1, <2>2 DEF EndsWith, n
<1>6. \A k \in 1..Len(out) : k \in 1..(n - off) \/ k = n - off + 1
  BY <1>1, <1>2
<1>7. Chain(out)
  <2>1. ASSUME NEW j \in 1..Len(out), NEW k \in 1..Len(out), j < k,
               out[j].event \in InstallEvents, out[k].event \in InstallEvents,
               \A m \in (j + 1)..(k - 1) : out[m].event \notin InstallEvents
        PROVE  out[k].previous = out[j].generation
    <3>1. CASE k \in 1..(n - off)
      <4>1. j \in 1..(n - off)
        BY <1>2, <2>1, <3>1
      <4>2. QED
        BY <1>4, <2>1, <3>1, <4>1 DEF Linked
    <3>2. CASE k = n - off + 1
      <4>1. j \in 1..(n - off) /\ k - 1 = n - off
        BY <1>1, <1>2, <2>1, <3>2
      <4>2. QED
        BY <1>3, <1>5, <2>1, <3>2, <4>1
    <3>3. QED
      BY <1>6, <3>1, <3>2
  <2>2. QED
    BY <2>1 DEF Chain, Linked
<1>8. EndsWith(out, g)
  <2>1. ASSUME NEW k \in 1..(n - off) PROVE n - off + 1 \in (k + 1)..Len(out)
    BY <1>1, <1>2
  <2>2. QED
    BY <1>3, <1>6, <2>1 DEF EndsWith
<1>9. QED
  BY <1>7, <1>8 DEF out

\* Every step keeps the list within the cap once a drain has cut it.
LEMMA CapStep == IndInv /\ CapKept /\ [Next]_vars => CapKept'
<1> SUFFICES ASSUME IndInv, CapKept, [Next]_vars PROVE CapKept'
  OBVIOUS
<1>0. drain \in DrainStates /\ retired \in Seq(Snapshots) /\ Len(retired) \in Nat
  BY LenProperties DEF IndInv, TypeOK
<1>1. CASE ScanEnd
  <2>1. CASE Len(retired) > MaxRetired
    <3> DEFINE excess == Len(retired) - MaxRetired
    <3>1. excess \in Nat /\ excess <= Len(retired)
      BY <1>0, <2>1, StoreAssumption
    <3>2. Len(SubSeq(retired, excess + 1, Len(retired))) = MaxRetired
      BY <1>0, <3>1, SubSeqProperties, StoreAssumption
    <3>3. retired' = SubSeq(retired, excess + 1, Len(retired))
      BY <1>1, <2>1 DEF ScanEnd
    <3>4. QED
      BY <3>2, <3>3, StoreAssumption DEF CapKept
  <2>2. CASE ~(Len(retired) > MaxRetired)
    BY <1>0, <1>1, <2>2, StoreAssumption DEF ScanEnd, CapKept
  <2>3. QED
    BY <2>1, <2>2
<1>2. CASE EvictAudit \/ EvictDone
  BY <1>0, <1>2 DEF EvictAudit, EvictDone, CapKept, DrainStates
<1>3. CASE DrainReport
  BY <1>3 DEF DrainReport, CapKept, IdleDrain
<1>4. CASE DrainBegin
  BY <1>0, <1>4 DEF DrainBegin, CapKept, DrainStates
<1>5. CASE PushRetired
  BY <1>5 DEF PushRetired, RetiredFree, CapKept
<1>6. ASSUME ScanEmpty \/ \E c \in Cells : ScanCell(c) PROVE CapKept'
  <2>1. drain'.pc = "scan"
    BY <1>0, <1>6 DEF ScanEmpty, ScanCell, FreeScanned, DrainStates
  <2>2. QED
    BY <2>1 DEF CapKept
<1>7. CASE UNCHANGED <<drain, retired>>
  BY <1>7 DEF CapKept
<1>8. QED
  BY <1>1, <1>2, <1>3, <1>4, <1>5, <1>6, <1>7 DEF Next, RequestNext, PinSnapshot, PinCell,
     PinDone, DropBegin, DropCell, DropDone, SwapNext, Install, SwapAborted, InstallForce,
     InstallStep, InstallAudit, InstallAgain, RetryExhausted, DrainStep, vars

\* When drain_retired is about to return, the retired list is within the cap.
THEOREM StoreRetentionCap == Spec => []RetentionCap
<1>1. Init => CapKept
  BY DEF Init, CapKept, IdleDrain
<1>2. IndInv /\ CapKept /\ [Next]_vars => CapKept'
  BY CapStep
<1>3. CapKept => RetentionCap
  BY DEF CapKept, RetentionCap
<1>4. QED
  BY <1>1, <1>2, <1>3, StoreInvariant, PTL DEF Spec

\* Every step keeps the log a chain that ends where the store is.
LEMMA ChainStep == IndInv /\ ChainInv /\ [Next]_vars => ChainInv'
<1> SUFFICES ASSUME IndInv, ChainInv, [Next]_vars PROVE ChainInv'
  OBVIOUS
<1>0. /\ audit \in Seq(AuditRecords) /\ Len(audit) <= MaxAudit
      /\ inst \in InstallStates /\ drain \in DrainStates
  BY DEF IndInv, TypeOK
\* A replacement leaves the log, which then ends with the replaced generation.
<1>1. ASSUME NEW g, NEW E, NEW e \in InstallEvents, NEW n, Replace(g, E, e, n),
             ~Unaudited, UNCHANGED audit
      PROVE  ChainInv'
  <2>1. Chain(audit) /\ EndsWith(audit, current.generation)
    BY <1>1 DEF ChainInv
  <2>2. CASE e = "generation_installed" /\ g <= current.generation
    <3>1. UNCHANGED current /\ ~Unaudited'
      BY <1>1, <2>2 DEF Replace, Unaudited, InstallEvents
    <3>2. QED
      BY <1>1, <2>1, <3>1 DEF ChainInv
  <2>3. CASE ~(e = "generation_installed" /\ g <= current.generation)
    <3>1. /\ current'.generation = g /\ inst'.generation = g /\ inst'.old = current
          /\ Unaudited'
      BY <1>1, <2>3 DEF Replace, Unaudited
    <3>2. QED
      BY <1>1, <2>1, <3>1 DEF ChainInv
  <2>4. QED
    BY <2>2, <2>3
<1>2. ASSUME NEW g \in 1..MaxGen, NEW E \in SUBSET Cells, NEW n \in {0, MaxAttempts},
             Install(g, E, n)
      PROVE  ChainInv'
  BY <1>1, <1>2 DEF Install, Unaudited, InstallEvents
<1>3. CASE InstallAgain
  BY <1>1, <1>3 DEF InstallAgain, Unaudited, InstallEvents
<1>4. CASE InstallForce
  BY <1>1, <1>4 DEF InstallForce, Unaudited, InstallEvents
<1>5. CASE PushRetired
  <2>1. /\ UNCHANGED <<audit, current>> /\ inst'.pc = "audit" /\ inst'.event = inst.event
        /\ inst'.generation = inst.generation /\ inst'.old = inst.old /\ inst.pc = "push"
    BY <1>0, <1>5 DEF PushRetired, InstallStates
  <2>2. Unaudited' <=> Unaudited
    BY <2>1 DEF Unaudited
  <2>3. QED
    BY <2>1, <2>2 DEF ChainInv
\* The audit of an install is the next link of the chain; that of a refusal is none.
<1>6. CASE InstallAudit
  <2> DEFINE log == Audited(audit, inst.event, inst.generation, inst.old.generation)
  <2>1. /\ inst.event \in Events /\ inst.generation \in Nat /\ inst.old.generation \in Nat
    BY <1>0 DEF InstallStates, Snapshots
  <2>2. log \in Seq(AuditRecords) /\ Len(log) <= MaxAudit
    BY <1>0, <2>1, AuditedType
  <2>3. Chain(log) /\ EndsWith(log, current.generation)
    <3>1. CASE inst.event \in InstallEvents
      <4>1. Unaudited
        BY <1>6, <3>1 DEF InstallAudit, Unaudited
      <4>2. /\ Chain(audit) /\ EndsWith(audit, inst.old.generation)
            /\ current.generation = inst.generation
        BY <4>1 DEF ChainInv
      <4>3. QED
        BY <1>0, <3>1, <4>2, AuditedInstall
    <3>2. CASE inst.event \notin InstallEvents
      <4>1. ~Unaudited
        BY <3>2 DEF Unaudited
      <4>2. Chain(audit) /\ EndsWith(audit, current.generation)
        BY <4>1 DEF ChainInv
      <4>3. QED
        BY <1>0, <3>2, <4>2, AuditedOther
    <3>3. QED
      BY <3>1, <3>2
  <2> HIDE DEF log
  <2>4. LET l2 == Audited(log, "generation_retry_succeeded", inst.generation,
                          current.generation)
        IN  Chain(l2) /\ EndsWith(l2, current.generation)
    <3>1. "generation_retry_succeeded" \notin InstallEvents
      BY DEF InstallEvents
    <3>2. QED
      BY <2>2, <2>3, <3>1, AuditedOther
  <2>5. Chain(audit') /\ EndsWith(audit', current.generation)
    BY <1>6, <2>3, <2>4 DEF InstallAudit, log
  <2>6. UNCHANGED current /\ inst'.pc \notin {"push", "audit"}
    BY <1>0, <1>6 DEF InstallAudit, AfterAttempt, IdleInstall, InstallStates
  <2>7. QED
    BY <2>5, <2>6 DEF ChainInv, Unaudited
\* The other events are no installs, and no install is under way.
<1>7. ASSUME NEW e, e \notin InstallEvents, NEW g, NEW p, audit' = Audited(audit, e, g, p),
             WriteFree, UNCHANGED current, inst'.pc \notin {"push", "audit"}
      PROVE  ChainInv'
  <2>1. ~Unaudited /\ ~Unaudited'
    BY <1>7 DEF Unaudited, WriteFree
  <2>2. Chain(audit) /\ EndsWith(audit, current.generation)
    BY <2>1 DEF ChainInv
  <2>3. Chain(audit') /\ EndsWith(audit', current.generation)
    BY <1>0, <1>7, <2>2, AuditedOther
  <2>4. QED
    BY <1>7, <2>1, <2>3 DEF ChainInv
<1>8. CASE RetryExhausted
  <2>1. "generation_retry_exhausted" \notin InstallEvents /\ WriteFree
    BY <1>8 DEF InstallEvents, RetryExhausted, WriteFree
  <2>2. QED
    BY <1>7, <1>8, <2>1 DEF RetryExhausted, IdleInstall
<1>9. CASE EvictAudit
  <2>1. "retired_force_evicted" \notin InstallEvents
    BY DEF InstallEvents
  <2>2. QED
    BY <1>7, <1>9, <2>1 DEF EvictAudit, WriteFree
<1>10. CASE DrainReport
  <2>1. "retired_drained" \notin InstallEvents
    BY DEF InstallEvents
  <2>2. CASE drain.freed > 0
    BY <1>7, <1>10, <2>1, <2>2 DEF DrainReport, WriteFree
  <2>3. CASE ~(drain.freed > 0)
    BY <1>10, <2>3 DEF DrainReport, ChainInv, Unaudited
  <2>4. QED
    BY <2>2, <2>3
<1>11. CASE UNCHANGED <<audit, current, inst>>
  BY <1>11 DEF ChainInv, Unaudited
<1>12. QED
  BY <1>2, <1>3, <1>4, <1>5, <1>6, <1>8, <1>9, <1>10, <1>11 DEF Next, RequestNext,
     PinSnapshot, PinCell, PinDone, DropBegin, DropCell, DropDone, SwapNext, SwapAborted,
     InstallStep, DrainBegin, DrainStep, ScanEmpty, ScanCell, ScanEnd, EvictDone, vars

\* The audit log is a chain of install generations for every bound of the log,
\* whatever rollbacks reuse and whatever drains write in between.
THEOREM StoreAuditChain == Spec => []AuditChain
<1>1. Init => ChainInv
  BY DEF Init, ChainInv, Chain, Linked, EndsWith, Unaudited, IdleInstall
<1>2. IndInv /\ ChainInv /\ [Next]_vars => ChainInv'
  BY ChainStep
<1>3. ChainInv => AuditChain
  BY DEF ChainInv, Chain, Linked, AuditChain
<1>4. QED
  BY <1>1, <1>2, <1>3, StoreInvariant, PTL DEF Spec
===============================================================================

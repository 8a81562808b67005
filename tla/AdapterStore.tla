----------------------------- MODULE AdapterStore -----------------------------
(***************************************************************************)
(* The RCU adapter index of adapteros-core/src/adapter_store.rs.           *)
(*                                                                         *)
(* A snapshot is a generation and the set of refcount cells of its entries *)
(* (a cell stands for one AdapterCacheKey with its Arc<AtomicUsize>; cells *)
(* are shared between snapshots, as the adapter table shares them).        *)
(*                                                                         *)
(* Three kinds of threads run against the store:                           *)
(*   - requests, which pin the current snapshot one refcount at a time;    *)
(*   - the swap thread, which calls install, install_with_retry and        *)
(*     install_force (adapter commands are serialised by the worker);      *)
(*   - the retirement task, which calls drain_retired.                     *)
(* The two locks have no variables of their own: `current` is write-locked *)
(* exactly while the swap thread is inside an install (WriteFree), and     *)
(* `retired` is locked exactly while a drain is under way (RetiredFree).   *)
(* Every other acquisition is released within the step that makes it.      *)
(***************************************************************************)
EXTENDS Integers, Sequences, FiniteSets

CONSTANTS Cells,        \* refcount cells (adapter cache entries)
          Requests,     \* requests that pin snapshots
          MaxGen,       \* bound: largest generation a caller asks for
          MaxCalls,     \* bound: number of calls the swap thread makes
          MaxAttempts,  \* install_with_retry's max_attempts
          MaxRetired,   \* MAX_RETIRED_SNAPSHOTS
          MaxAudit,     \* MAX_GENERATION_AUDIT_EVENTS
          NoSnapshot    \* the caller has no saved rollback state

ASSUME StoreAssumption ==
  /\ IsFiniteSet(Requests)
  /\ MaxGen \in Nat
  /\ MaxCalls \in Nat
  /\ MaxAttempts \in Nat \ {0}
  /\ MaxRetired \in Nat
  /\ MaxAudit \in Nat \ {0}

VARIABLES current,  \* the published snapshot
          retired,  \* snapshots waiting to be drained, oldest first
          audit,    \* the bounded generation audit log
          rc,       \* the value of every refcount cell
          req,      \* requests: control point, snapshot, cells incremented
          inst,     \* the swap thread's call
          drain,    \* the retirement task's call
          saved,    \* the caller's rollback state
          calls     \* number of calls made so far (bound)

vars == <<current, retired, audit, rc, req, inst, drain, saved, calls>>

Snapshots == [generation : Nat, entries : SUBSET Cells]
EmptySnapshot == [generation |-> 0, entries |-> {}]

IdleRequest == [pc |-> "idle", snap |-> EmptySnapshot, pinned |-> {}]
IdleInstall == [pc |-> "idle", event |-> "none", generation |-> 0,
                entries |-> {}, old |-> EmptySnapshot, left |-> 0]
IdleDrain == [pc |-> "idle", pos |-> 1, seen |-> {}, freed |-> 0,
              evicted |-> <<>>]

InstallEvents == {"generation_installed", "generation_forced_install"}
Events == InstallEvents \cup {"none", "generation_rejected",
            "generation_retry_succeeded", "generation_retry_exhausted",
            "retired_force_evicted", "retired_drained"}
RequestStates == [pc : {"idle", "pinning", "pinned", "dropping"},
                  snap : Snapshots, pinned : SUBSET Cells]
InstallStates == [pc : {"idle", "push", "audit", "sleep", "exhausted"},
                  event : Events, generation : Nat, entries : SUBSET Cells,
                  old : Snapshots, left : Nat]
DrainStates == [pc : {"idle", "scan", "evict", "report"}, pos : Nat \ {0},
                seen : SUBSET Cells, freed : Nat, evicted : Seq(Snapshots)]
AuditRecords == [event : Events, generation : Nat, previous : Nat]

Init ==
  /\ current = EmptySnapshot
  /\ retired = <<>>
  /\ audit = <<>>
  /\ rc = [c \in Cells |-> 0]
  /\ req = [r \in Requests |-> IdleRequest]
  /\ inst = IdleInstall
  /\ drain = IdleDrain
  /\ saved = NoSnapshot
  /\ calls = 0

WriteFree == inst.pc \in {"idle", "sleep", "exhausted"}
RetiredFree == drain.pc = "idle"

\* Mutant of Audited: the log is never trimmed.
AuditedUntrimmed(log, event, generation, previous) ==
  Append(log, [event |-> event, generation |-> generation, previous |-> previous])

\* push_generation_audit: the oldest event goes when the log is full.
Audited(log, event, generation, previous) ==
  Append(IF Len(log) = MaxAudit THEN Tail(log) ELSE log,
         [event |-> event, generation |-> generation, previous |-> previous])
-------------------------------------------------------------------------------
\* pin_current: `current` is read-locked only while it is cloned.
PinSnapshot(r) ==
  /\ req[r].pc = "idle"
  /\ WriteFree
  /\ req' = [req EXCEPT ![r] = [pc |-> "pinning", snap |-> current, pinned |-> {}]]
  /\ UNCHANGED <<current, retired, audit, rc, inst, drain, saved, calls>>

\* Mutant of PinCell: the refcount is a flag, not a count.
PinCellOnce(r, c) ==
  /\ req[r].pc = "pinning"
  /\ c \in req[r].snap.entries \ req[r].pinned
  /\ rc' = [rc EXCEPT ![c] = 1]
  /\ req' = [req EXCEPT ![r].pinned = @ \cup {c}]
  /\ UNCHANGED <<current, retired, audit, inst, drain, saved, calls>>

\* One fetch_add of pin_current's loop.
PinCell(r, c) ==
  /\ req[r].pc = "pinning"
  /\ c \in req[r].snap.entries \ req[r].pinned
  /\ rc' = [rc EXCEPT ![c] = @ + 1]
  /\ req' = [req EXCEPT ![r].pinned = @ \cup {c}]
  /\ UNCHANGED <<current, retired, audit, inst, drain, saved, calls>>

\* pin_current returns the guard.
PinDone(r) ==
  /\ req[r].pc = "pinning"
  /\ req[r].pinned = req[r].snap.entries
  /\ req' = [req EXCEPT ![r].pc = "pinned"]
  /\ UNCHANGED <<current, retired, audit, rc, inst, drain, saved, calls>>

\* AdapterPins::drop starts.
DropBegin(r) ==
  /\ req[r].pc = "pinned"
  /\ req' = [req EXCEPT ![r].pc = "dropping"]
  /\ UNCHANGED <<current, retired, audit, rc, inst, drain, saved, calls>>

\* One fetch_sub of AdapterPins::drop.
DropCell(r, c) ==
  /\ req[r].pc = "dropping"
  /\ c \in req[r].pinned
  /\ rc' = [rc EXCEPT ![c] = @ - 1]
  /\ req' = [req EXCEPT ![r].pinned = @ \ {c}]
  /\ UNCHANGED <<current, retired, audit, inst, drain, saved, calls>>

DropDone(r) ==
  /\ req[r].pc = "dropping"
  /\ req[r].pinned = {}
  /\ req' = [req EXCEPT ![r] = IdleRequest]
  /\ UNCHANGED <<current, retired, audit, rc, inst, drain, saved, calls>>
-------------------------------------------------------------------------------
\* The body of install once `current` is write-locked: refuse a generation
\* that does not grow, or replace the snapshot and go on to retire the old one.
Replace(g, E, event, left) ==
  IF event = "generation_installed" /\ g <= current.generation
  THEN /\ inst' = [pc |-> "audit", event |-> "generation_rejected",
                   generation |-> g, entries |-> E, old |-> current, left |-> left]
       /\ UNCHANGED current
  ELSE /\ current' = [generation |-> g, entries |-> E]
       /\ inst' = [pc |-> IF current.generation # g THEN "push" ELSE "audit",
                   event |-> event, generation |-> g, entries |-> E,
                   old |-> current, left |-> left]

\* The caller saves its rollback state and calls install (attempts = 0) or
\* install_with_retry (attempts > 0).
Install(g, E, attempts) ==
  /\ inst.pc = "idle"
  /\ calls < MaxCalls
  /\ calls' = calls + 1
  /\ saved' = current
  /\ Replace(g, E, "generation_installed", attempts)
  /\ UNCHANGED <<retired, audit, rc, req, drain>>

\* The next attempt of install_with_retry, after its sleep.
InstallAgain ==
  /\ inst.pc = "sleep"
  /\ Replace(inst.generation, inst.entries, "generation_installed", inst.left)
  /\ UNCHANGED <<retired, audit, rc, req, drain, saved, calls>>

\* A swap that fails its validation has saved its rollback state and calls
\* no install.
SwapAborted ==
  /\ inst.pc = "idle"
  /\ calls < MaxCalls
  /\ calls' = calls + 1
  /\ saved' = current
  /\ UNCHANGED <<current, retired, audit, rc, req, inst, drain>>

\* Rollback: install_force of the saved snapshot, which is consumed.
InstallForce ==
  /\ inst.pc = "idle"
  /\ saved # NoSnapshot
  /\ saved' = NoSnapshot
  /\ Replace(saved.generation, saved.entries, "generation_forced_install", 0)
  /\ UNCHANGED <<retired, audit, rc, req, drain, calls>>

\* self.retired.lock().push(old), with `current` still write-locked.
PushRetired ==
  /\ inst.pc = "push"
  /\ RetiredFree
  /\ retired' = Append(retired, inst.old)
  /\ inst' = [inst EXCEPT !.pc = "audit"]
  /\ UNCHANGED <<current, audit, rc, req, drain, saved, calls>>

\* What install_with_retry does with the snapshot that install returned (the
\* current one): its generation decides between return, sleep and exhaustion.
AfterAttempt ==
  IF inst.left = 0 \/ current.generation = inst.generation
  THEN IdleInstall
  ELSE IF inst.left > 1
       THEN [inst EXCEPT !.pc = "sleep", !.left = @ - 1]
       ELSE [inst EXCEPT !.pc = "exhausted"]

\* Mutant of InstallAudit: the previous generation is read after the replacement.
InstallAuditLate ==
  /\ inst.pc = "audit"
  /\ RetiredFree
  /\ audit' = Audited(audit, inst.event, inst.generation, current.generation)
  /\ inst' = AfterAttempt
  /\ UNCHANGED <<current, retired, rc, req, drain, saved, calls>>

\* The audit event of an install (retired_count() takes the retired lock);
\* the write lock goes with the return.
InstallAudit ==
  /\ inst.pc = "audit"
  /\ RetiredFree
  /\ audit' = LET log == Audited(audit, inst.event, inst.generation, inst.old.generation)
              IN  IF /\ current.generation = inst.generation
                     /\ inst.left \in 1..(MaxAttempts - 1)
                  THEN Audited(log, "generation_retry_succeeded", inst.generation,
                               current.generation)
                  ELSE log
  /\ inst' = AfterAttempt
  /\ UNCHANGED <<current, retired, rc, req, drain, saved, calls>>

\* install_with_retry gives up: it reports the snapshot it finds.
RetryExhausted ==
  /\ inst.pc = "exhausted"
  /\ RetiredFree
  /\ audit' = Audited(audit, "generation_retry_exhausted", inst.generation,
                      current.generation)
  /\ inst' = IdleInstall
  /\ UNCHANGED <<current, retired, rc, req, drain, saved, calls>>
-------------------------------------------------------------------------------
\* drain_retired takes the retired lock and keeps it until it returns.
DrainBegin ==
  /\ drain.pc = "idle"
  /\ retired # <<>>
  /\ drain' = [drain EXCEPT !.pc = "scan"]
  /\ UNCHANGED <<current, retired, audit, rc, req, inst, saved, calls>>

Without(s, k) == SubSeq(s, 1, k - 1) \o SubSeq(s, k + 1, Len(s))

\* retain() drops the snapshot at the scan position.
FreeScanned ==
  /\ retired' = Without(retired, drain.pos)
  /\ drain' = [drain EXCEPT !.seen = {}, !.freed = @ + 1]

\* An entry-less snapshot is never in use.
ScanEmpty ==
  /\ drain.pc = "scan"
  /\ drain.pos \in 1..Len(retired)
  /\ retired[drain.pos].entries = {}
  /\ FreeScanned
  /\ UNCHANGED <<current, audit, rc, req, inst, saved, calls>>

\* Mutant of ScanCell: a single holder is taken for the store's own reference.
ScanCellOffByOne(c) ==
  /\ drain.pc = "scan"
  /\ drain.pos \in 1..Len(retired)
  /\ c \in retired[drain.pos].entries \ drain.seen
  /\ IF rc[c] > 1
     THEN /\ drain' = [drain EXCEPT !.pos = @ + 1, !.seen = {}]
          /\ UNCHANGED retired
     ELSE IF retired[drain.pos].entries = drain.seen \cup {c}
          THEN FreeScanned
          ELSE /\ drain' = [drain EXCEPT !.seen = @ \cup {c}]
               /\ UNCHANGED retired
  /\ UNCHANGED <<current, audit, rc, req, inst, saved, calls>>

\* One refcount load of the any() over the entries of the scanned snapshot.
\* The removal is made with the last load: the list is locked, so nobody can
\* tell when it is removed between that load and the end of the pass.
ScanCell(c) ==
  /\ drain.pc = "scan"
  /\ drain.pos \in 1..Len(retired)
  /\ c \in retired[drain.pos].entries \ drain.seen
  /\ IF rc[c] > 0
     THEN /\ drain' = [drain EXCEPT !.pos = @ + 1, !.seen = {}]
          /\ UNCHANGED retired
     ELSE IF retired[drain.pos].entries = drain.seen \cup {c}
          THEN FreeScanned
          ELSE /\ drain' = [drain EXCEPT !.seen = @ \cup {c}]
               /\ UNCHANGED retired
  /\ UNCHANGED <<current, audit, rc, req, inst, saved, calls>>

\* Mutant of ScanEnd: no second pass.
ScanEndNoCap ==
  /\ drain.pc = "scan"
  /\ drain.pos > Len(retired)
  /\ drain' = [drain EXCEPT !.pc = "report"]
  /\ UNCHANGED <<current, retired, audit, rc, req, inst, saved, calls>>

\* The second pass: the oldest snapshots beyond the cap go whatever their
\* refcounts.
ScanEnd ==
  /\ drain.pc = "scan"
  /\ drain.pos > Len(retired)
  /\ IF Len(retired) > MaxRetired
     THEN LET excess == Len(retired) - MaxRetired
          IN  /\ drain' = [drain EXCEPT !.pc = "evict",
                             !.evicted = SubSeq(retired, 1, excess)]
              /\ retired' = SubSeq(retired, excess + 1, Len(retired))
     ELSE /\ drain' = [drain EXCEPT !.pc = "report"]
          /\ UNCHANGED retired
  /\ UNCHANGED <<current, audit, rc, req, inst, saved, calls>>

\* One force-evicted snapshot is audited; snapshot() waits for the writer.
EvictAudit ==
  /\ drain.pc = "evict"
  /\ drain.evicted # <<>>
  /\ WriteFree
  /\ audit' = Audited(audit, "retired_force_evicted", Head(drain.evicted).generation,
                      current.generation)
  /\ drain' = [drain EXCEPT !.evicted = Tail(@), !.freed = @ + 1]
  /\ UNCHANGED <<current, retired, rc, req, inst, saved, calls>>

EvictDone ==
  /\ drain.pc = "evict"
  /\ drain.evicted = <<>>
  /\ drain' = [drain EXCEPT !.pc = "report"]
  /\ UNCHANGED <<current, retired, audit, rc, req, inst, saved, calls>>

\* The drain returns; if it freed anything it audits the current generation
\* first, waiting for the writer with the retired lock held.
DrainReport ==
  /\ drain.pc = "report"
  /\ IF drain.freed > 0
     THEN /\ WriteFree
          /\ audit' = Audited(audit, "retired_drained", current.generation, 0)
     ELSE UNCHANGED audit
  /\ drain' = IdleDrain
  /\ UNCHANGED <<current, retired, rc, req, inst, saved, calls>>
-------------------------------------------------------------------------------
RequestNext(r) ==
  \/ PinSnapshot(r)
  \/ \E c \in Cells : PinCell(r, c) \/ DropCell(r, c)
  \/ PinDone(r)
  \/ DropBegin(r)
  \/ DropDone(r)

\* The steps of a call that is under way.
InstallStep == PushRetired \/ InstallAudit \/ InstallAgain \/ RetryExhausted

SwapNext ==
  \/ \E g \in 1..MaxGen, E \in SUBSET Cells, n \in {0, MaxAttempts} : Install(g, E, n)
  \/ SwapAborted
  \/ InstallForce
  \/ InstallStep

\* The steps of a drain that is under way.
DrainStep ==
  \/ ScanEmpty
  \/ \E c \in Cells : ScanCell(c)
  \/ ScanEnd
  \/ EvictAudit
  \/ EvictDone
  \/ DrainReport

Next == (\E r \in Requests : RequestNext(r)) \/ SwapNext \/ DrainBegin \/ DrainStep

Spec == Init /\ [][Next]_vars

\* Threads inside a call of the store keep running.
FairSpec == Spec /\ WF_vars(InstallStep) /\ WF_vars(DrainStep)
-------------------------------------------------------------------------------
(* Properties *)

\* The types of the store's state, with the list positions of a drain inside
\* the list it scans.
TypeOK ==
  /\ current \in Snapshots
  /\ retired \in Seq(Snapshots)
  /\ audit \in Seq(AuditRecords)
  /\ Len(audit) <= MaxAudit
  /\ rc \in [Cells -> Nat]
  /\ req \in [Requests -> RequestStates]
  /\ inst \in InstallStates
  /\ drain \in DrainStates
  /\ drain.pc = "idle" => drain = IdleDrain
  /\ drain.pc = "scan" => drain.pos <= Len(retired) + 1
  /\ saved \in Snapshots \cup {NoSnapshot}
  /\ calls \in Nat

\* The refcount of a cell is the number of requests that have incremented and
\* not yet decremented it, whatever is swapped or drained meanwhile (what the
\* "refcount underflow" assertion of AdapterPins::drop relies on).
RefcountExact ==
  \A c \in Cells : rc[c] = Cardinality({r \in Requests : c \in req[r].pinned})

\* The snapshot is still tracked by the store: current, retired, or on its way
\* from the one to the other.
Tracked(s) ==
  \/ s = current
  \/ \E k \in 1..Len(retired) : retired[k] = s
  \/ inst.pc = "push" /\ inst.old = s

\* A snapshot whose entries a request has pinned is not dropped by the store
\* while the pin is held, unless the retention cap forces it out: install's
\* "will stay there until all refcounts drop to zero", for completed pins.
PinnedRetained ==
  [][\A r \in Requests :
       /\ req[r].pc = "pinned" /\ req'[r].pc = "pinned"
       /\ req[r].snap.entries # {}
       /\ Tracked(req[r].snap)
       /\ ~Tracked(req[r].snap)'
       => drain'.pc = "evict"]_vars

\* When drain_retired is about to return, the retired list is within the cap,
\* although installs keep arriving (the retired lock keeps them out).
RetentionCap == drain.pc = "report" => Len(retired) <= MaxRetired

\* In the audit log, each install event names as its previous generation the
\* generation of the install event before it: the log is a chain even when a
\* rollback reuses generations and drains write between the installs.
AuditChain ==
  \A j, k \in 1..Len(audit) :
    /\ j < k
    /\ audit[j].event \in InstallEvents
    /\ audit[k].event \in InstallEvents
    /\ \A m \in (j + 1)..(k - 1) : audit[m].event \notin InstallEvents
    => audit[k].previous = audit[j].generation

\* A drain that has begun returns: drain_retired is documented to drop what
\* has reached zero and to return the generations it freed.
DrainReturns == (drain.pc # "idle") ~> (drain.pc = "idle")

\* install_with_retry ends without its "exhausted" report only when it has
\* installed its entries at its generation.
RetryInstalls ==
  [][ /\ inst.pc = "audit" /\ inst.left > 0
      /\ inst'.pc = "idle"
      => current.entries = inst.entries /\ current.generation = inst.generation]_vars
===============================================================================

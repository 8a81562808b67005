-------------------------------- MODULE HotSwap --------------------------------
(***************************************************************************)
(* The adapter hot-swap of adapteros-lora-worker: the double-buffered      *)
(* AdapterTable, the HotSwapManager commands, the two background tasks     *)
(* that retire stacks (adapter_hotswap.rs), the request pinner             *)
(* (request_pinner.rs) and the generation check of the KV cache            *)
(* (kvcache.rs, lib.rs).                                                   *)
(*                                                                         *)
(* An adapter stands for its id, hash and weights; every adapter takes one *)
(* unit of the cache budget.  The AdapterStore is used through what        *)
(* AdapterStore.tla establishes: an index is published atomically, and the *)
(* refcount of a cell is the number of requests that pin it, so cells need *)
(* only an identity.  Cell n of adapter a is the n-th Arc allocated for a; *)
(* 0 stands for "no entry".                                                *)
(*                                                                         *)
(* Commands are executed one at a time.  Under WorkerMutex a request also  *)
(* excludes commands, as behind the worker's UDS server, which locks the   *)
(* worker for a whole inference; without it requests and commands          *)
(* interleave, as in the crate's own concurrency tests.  The retirement    *)
(* tasks always run concurrently with both and with each other: one starts *)
(* with the HotSwapManager (new_with_kernels), and the worker starts       *)
(* another one (start_retirement_task), which the tests do not.            *)
(***************************************************************************)
EXTENDS Integers, Sequences, FiniteSets

CONSTANTS Adapters,     \* adapter ids
          Requests,     \* inference requests
          Budget,       \* adapter cache budget, in adapters
          Backend,      \* "metal", "coreml" or "mlx"
          WorkerMutex,  \* requests exclude commands
          WorkerTask,   \* the worker has started its own retirement task
          Rollbacks,    \* whether Rollback commands are issued
          Pressure,     \* whether the memory monitor may report high pressure
          MaxRetries,   \* failed unloads of a stack before its quarantine, 3
          MaxCmds,      \* bound: number of commands
          NoStack       \* no rollback state is saved

ASSUME HotSwapAssumption ==
  /\ IsFiniteSet(Adapters) /\ IsFiniteSet(Requests)
  /\ Budget \in Nat \ {0} /\ MaxCmds \in Nat
  /\ Backend \in {"metal", "coreml", "mlx"}
  /\ WorkerMutex \in BOOLEAN /\ WorkerTask \in BOOLEAN /\ Rollbacks \in BOOLEAN
  /\ Pressure \in BOOLEAN /\ MaxRetries \in Nat

VARIABLES active,     \* ids in the active map
          gen,        \* current_stack
          staged,     \* ids in the staging map
          saved,      \* rollback_state
          refcounts,  \* refcount cell of each id, 0 if it has no entry
          alloc,      \* number of cells ever allocated for each id
          retired,    \* retired_stacks
          retries,    \* retry_counts: failed unloads of each generation
          index,      \* the snapshot published in the AdapterStore
          attached,   \* ids whose weights the kernel backend holds
          kv,         \* generation of the KV cache and the stack it was filled under
          cmd,        \* the command under way
          ret,        \* the retirement task of the worker
          sweep,      \* the retirement task of the manager
          req,        \* the requests
          issued      \* number of commands issued (bound)

table == <<active, gen, staged, saved, refcounts, alloc, retired, retries>>
tasks == <<ret, sweep>>
vars == <<table, index, attached, kv, cmd, tasks, req, issued>>

Stacks == [generation : Nat, active : SUBSET Adapters]
NoCells == [a \in Adapters |-> 0]
EmptyStack == [generation |-> 0, active |-> {}]

IdleCmd == [pc |-> "idle", add |-> {}, remove |-> {}, old |-> EmptyStack,
            need |-> 0, cands |-> {}, target |-> 0, victim |-> {}]
IdleReq == [pc |-> "idle", tries |-> 0, stack |-> EmptyStack, generation |-> 0,
            pins |-> NoCells, hash |-> {}]

IdleSweep == [pc |-> "idle", i |-> 0, stack |-> EmptyStack, forced |-> FALSE]

\* No generation is higher than the number of commands.
NoRetries == [g \in 0..MaxCmds |-> 0]

Init ==
  /\ active = {} /\ gen = 0 /\ staged = {} /\ saved = NoStack
  /\ refcounts = NoCells /\ alloc = NoCells
  /\ retired = <<>> /\ retries = NoRetries
  /\ index = [generation |-> 0, cells |-> NoCells]
  /\ attached = {}
  /\ kv = EmptyStack
  /\ cmd = IdleCmd
  /\ ret = [pc |-> "idle", list |-> <<>>] /\ sweep = IdleSweep
  /\ req = [r \in Requests |-> IdleReq]
  /\ issued = 0

\* The value of cell n of adapter a.
Refs(a, n) == Cardinality({r \in Requests : n # 0 /\ req[r].pins[a] = n})

RetiredIds == UNION {retired[k].active : k \in 1..Len(retired)}
Resident == active \cup staged \cup RetiredIds

\* entry(id).or_insert_with(new Arc) for every id of S.
Allocate(S) ==
  /\ refcounts' = [a \in Adapters |-> IF a \in S /\ refcounts[a] = 0
                                      THEN alloc[a] + 1 ELSE refcounts[a]]
  /\ alloc' = [a \in Adapters |-> IF a \in S /\ refcounts[a] = 0
                                  THEN alloc[a] + 1 ELSE alloc[a]]

\* detach_adapter unloads; only the MLX backend fails for an id it does not hold.
DetachOk(a) == a \in attached \/ Backend # "mlx"
\* attach_adapter is a no-op except in CoreML, which refuses what is not loaded.
AttachOk(S) == Backend = "coreml" => S \subseteq attached

Requesting == \E r \in Requests : req[r].pc # "idle"
-------------------------------------------------------------------------------
(* Commands *)

\* Mutant of BeginCmd: a command starts without the worker lock.
BeginCmdUnlocked(c) ==
  /\ cmd.pc = "idle"
  /\ issued < MaxCmds
  /\ issued' = issued + 1
  /\ cmd' = c

BeginCmd(c) ==
  /\ cmd.pc = "idle"
  /\ WorkerMutex => ~Requesting
  /\ issued < MaxCmds
  /\ issued' = issued + 1
  /\ cmd' = c

CmdTo(pc) == cmd' = [cmd EXCEPT !.pc = pc]

\* Preload: the file is loaded and verified (or the command fails there, which
\* changes nothing), and the budget is enforced for a new adapter.
Preload(a) ==
  /\ BeginCmd([IdleCmd EXCEPT !.pc = "budget", !.add = {a},
                              !.need = IF a \in Resident THEN 0 ELSE 1])
  /\ UNCHANGED <<table, index, attached, kv, tasks, req>>

Over(need) == Cardinality(Resident) + need - Budget

\* enforce_adapter_cache_budget, before the load and again after the staging.
EnforceBudget ==
  /\ cmd.pc \in {"budget", "rebudget"}
  /\ cmd' = IF Over(cmd.need) <= 0
            THEN IF cmd.pc = "budget" THEN [cmd EXCEPT !.pc = "load"] ELSE IdleCmd
            ELSE [cmd EXCEPT !.pc = IF @ = "budget" THEN "evict" ELSE "reevict",
                             !.target = Over(cmd.need),
                             !.cands = {a \in (staged \cup RetiredIds) \ cmd.add :
                                          a \notin active /\ Refs(a, refcounts[a]) = 0}]
  /\ UNCHANGED <<table, index, attached, kv, tasks, req, issued>>

Evicting == cmd.pc \in {"evict", "reevict", "selfevict"}

\* evict_adapter_by_id checks the next candidate and waits for the kernels.
EvictCheck(a) ==
  /\ Evicting
  /\ cmd.victim = {} /\ cmd.target > 0
  /\ a \in cmd.cands
  /\ cmd' = [cmd EXCEPT !.cands = @ \ {a},
               !.victim = IF a \notin active /\ Refs(a, refcounts[a]) = 0
                             /\ a \in staged \cup RetiredIds
                          THEN {a} ELSE {}]
  /\ UNCHANGED <<table, index, attached, kv, tasks, req, issued>>

\* remove_adapter_from_retired: a stack that this empties goes, the others keep
\* their order (the n-th of the rest is the one with n of them up to it).
RetiredWithout(a) ==
  LET kept == {k \in 1..Len(retired) : retired[k].active # {a}}
      UpTo(k) == {j \in kept : j <= k}
      Nth(n) == CHOOSE k \in kept : Cardinality(UpTo(k)) = n
  IN  [n \in 1..Cardinality(kept) |->
         [generation |-> retired[Nth(n)].generation, active |-> retired[Nth(n)].active \ {a}]]

\* Mutant of Forget: the staging map keeps the id.
ForgetKeepsStaged(a) ==
  /\ attached' = attached \ {a}
  /\ retired' = RetiredWithout(a)
  /\ refcounts' = [refcounts EXCEPT ![a] = IF a \in active THEN @ ELSE 0]
  /\ UNCHANGED <<active, gen, staged, saved, alloc, retries>>

\* Detach the adapter and forget it: the failed unloads of the stacks that this
\* empties are forgotten, and its refcount cell goes with its last use.
Forget(a) ==
  /\ attached' = attached \ {a}
  /\ staged' = staged \ {a}
  /\ retired' = RetiredWithout(a)
  /\ retries' = [g \in 0..MaxCmds |->
                   IF \E k \in 1..Len(retired) : retired[k] = [generation |-> g, active |-> {a}]
                   THEN 0 ELSE retries[g]]
  /\ refcounts' = [refcounts EXCEPT ![a] = IF a \in active THEN @ ELSE 0]
  /\ UNCHANGED <<active, gen, saved, alloc>>

EvictApply(a) ==
  /\ a \in cmd.victim
  /\ IF DetachOk(a)
     THEN /\ Forget(a)
          /\ cmd' = [cmd EXCEPT !.victim = {}, !.target = @ - 1]
     ELSE /\ cmd' = [cmd EXCEPT !.victim = {}]
          /\ UNCHANGED <<table, attached>>
  /\ UNCHANGED <<index, kv, tasks, req, issued>>

\* Mutant of EvictDone: the post-check of the budget is missing.
EvictDoneUnchecked ==
  /\ Evicting
  /\ cmd.victim = {} /\ (cmd.target <= 0 \/ cmd.cands = {})
  /\ cmd' = IF cmd.pc = "evict" THEN [cmd EXCEPT !.pc = "load"] ELSE IdleCmd
  /\ UNCHANGED <<table, index, attached, kv, tasks, req, issued>>

\* The bytes are counted again: too many fail the command, and after the
\* staging the new adapter itself is evicted first.
EvictDone ==
  /\ Evicting
  /\ cmd.victim = {} /\ (cmd.target <= 0 \/ cmd.cands = {})
  /\ cmd' = IF cmd.pc = "evict" /\ Over(cmd.need) <= 0
            THEN [cmd EXCEPT !.pc = "load"]
            ELSE IF cmd.pc = "reevict" /\ Over(cmd.need) > 0
            THEN [cmd EXCEPT !.pc = "selfevict", !.cands = cmd.add, !.target = 1]
            ELSE IdleCmd
  /\ UNCHANGED <<table, index, attached, kv, tasks, req, issued>>

\* The memory monitor refuses the load.
LoadRefused ==
  /\ cmd.pc = "load"
  /\ cmd' = IdleCmd
  /\ UNCHANGED <<table, index, attached, kv, tasks, req, issued>>

\* The weights go to the kernels; a failed load detaches the id.
LoadOk ==
  /\ cmd.pc = "load"
  /\ attached' = attached \cup cmd.add
  /\ CmdTo("stage")
  /\ UNCHANGED <<table, index, kv, tasks, req, issued>>

LoadFails ==
  /\ cmd.pc = "load"
  /\ attached' = attached \ cmd.add
  /\ cmd' = IdleCmd
  /\ UNCHANGED <<table, index, kv, tasks, req, issued>>

\* AdapterTable::preload_with_backing, then the budget again.
Stage ==
  /\ cmd.pc = "stage"
  /\ staged' = staged \cup cmd.add
  /\ Allocate(cmd.add)
  /\ cmd' = [cmd EXCEPT !.pc = "rebudget", !.need = 0]
  /\ UNCHANGED <<active, gen, saved, retired, retries, index, attached, kv, tasks, req,
                 issued>>

\* Swap: an unstaged or corrupt adapter fails the integrity check.
Swap(add, remove) ==
  /\ \E ok \in BOOLEAN :
       BeginCmd([IdleCmd EXCEPT !.add = add, !.remove = remove,
                   !.pc = IF ~ok \/ ~(add \subseteq staged) THEN "cleanup"
                          ELSE IF remove = {} THEN "attach" ELSE "drain"])
  /\ UNCHANGED <<table, index, attached, kv, tasks, req>>

Referenced == {a \in cmd.remove : Refs(a, refcounts[a]) > 0}

\* wait_for_zero_refs sees every removed adapter unreferenced, or times out.
DrainRefs ==
  /\ cmd.pc = "drain"
  /\ CmdTo(IF Referenced = {} THEN "attach" ELSE "cleanup")
  /\ UNCHANGED <<table, index, attached, kv, tasks, req, issued>>

\* Mutant of StagedAdds: what is active already is attached, and cleaned up, again.
StagedAddsActive == cmd.add \cap staged

StagedAdds == (cmd.add \cap staged) \ active

AttachStaged ==
  /\ cmd.pc = "attach"
  /\ CmdTo(IF AttachOk(StagedAdds) THEN "commit" ELSE "cleanup")
  /\ UNCHANGED <<table, index, attached, kv, tasks, req, issued>>

\* cleanup_staged_on_failure.
CleanupStaged ==
  /\ cmd.pc = "cleanup"
  /\ attached' = attached \ StagedAdds
  /\ staged' = staged \ StagedAdds
  /\ refcounts' = [a \in Adapters |-> IF a \in StagedAdds THEN 0 ELSE refcounts[a]]
  /\ cmd' = IdleCmd
  /\ UNCHANGED <<active, gen, saved, alloc, retired, retries, index, kv, tasks, req, issued>>

\* AdapterTable::swap up to the pointer flip: rollback state, new active map,
\* refcount cells, generation.
SwapCommit ==
  /\ cmd.pc = "commit"
  /\ saved' = [generation |-> gen, active |-> active]
  /\ active' = (active \ cmd.remove) \cup cmd.add
  /\ gen' = gen + 1
  /\ Allocate((active \ cmd.remove) \cup cmd.add)
  /\ cmd' = [cmd EXCEPT !.pc = "publish", !.old = [generation |-> gen, active |-> active]]
  /\ UNCHANGED <<staged, retired, retries, index, attached, kv, tasks, req, issued>>

\* store.install: the index of the new active map, with the table's cells.  The
\* store refuses a generation that is not newer; the swap does not look.
SwapPublish ==
  /\ cmd.pc = "publish"
  /\ index' = IF gen <= index.generation THEN index
              ELSE [generation |-> gen,
                    cells |-> [a \in Adapters |-> IF a \in active THEN refcounts[a] ELSE 0]]
  /\ CmdTo("retire")
  /\ UNCHANGED <<table, attached, kv, tasks, req, issued>>

SwapRetire ==
  /\ cmd.pc = "retire"
  /\ retired' = Append(retired, cmd.old)
  /\ CmdTo("finish")
  /\ UNCHANGED <<active, gen, staged, saved, refcounts, alloc, retries, index, attached, kv,
                 tasks, req, issued>>

\* detach_removed_after_swap, then the switch hint: CoreML drops every other
\* adapter when the stack is the one adapter just added.
SwapFinish ==
  /\ cmd.pc = "finish"
  /\ attached' = LET left == attached \ (cmd.remove \ active)
                 IN  IF Backend = "coreml" /\ active = cmd.add /\ Cardinality(active) = 1
                     THEN left \cap active ELSE left
  /\ cmd' = IdleCmd
  /\ UNCHANGED <<table, index, kv, tasks, req, issued>>

\* Rollback: the saved stack becomes active again.
Rollback ==
  /\ Rollbacks
  /\ saved # NoStack
  /\ BeginCmd([IdleCmd EXCEPT !.pc = "republish",
                 !.old = [generation |-> gen, active |-> active]])
  /\ active' = saved.active
  /\ gen' = saved.generation
  /\ UNCHANGED <<staged, saved, refcounts, alloc, retired, retries, index, attached, kv,
                 tasks, req>>

\* Mutant of RollbackPublish: the store keeps the index of the failed swap.
RollbackSkipsPublish ==
  /\ cmd.pc = "republish"
  /\ CmdTo("reretire")
  /\ UNCHANGED <<table, index, attached, kv, tasks, req, issued>>

\* store.install_force: an id without a refcount entry gets a cell of its own
\* that the table does not know.
RollbackPublish ==
  /\ cmd.pc = "republish"
  /\ LET fresh == {a \in active : refcounts[a] = 0}
     IN  /\ index' = [generation |-> gen,
                      cells |-> [a \in Adapters |->
                                   IF a \notin active THEN 0
                                   ELSE IF a \in fresh THEN alloc[a] + 1
                                   ELSE refcounts[a]]]
         /\ alloc' = [a \in Adapters |-> IF a \in fresh THEN alloc[a] + 1 ELSE alloc[a]]
  /\ CmdTo("reretire")
  /\ UNCHANGED <<active, gen, staged, saved, refcounts, retired, retries, attached, kv, tasks,
                 req, issued>>

\* The failed stack is retired and the rollback state consumed.
RollbackRetire ==
  /\ cmd.pc = "reretire"
  /\ retired' = IF cmd.old.generation > gen THEN Append(retired, cmd.old) ELSE retired
  /\ saved' = NoStack
  /\ cmd' = IdleCmd
  /\ UNCHANGED <<active, gen, staged, refcounts, alloc, retries, index, attached, kv, tasks,
                 req, issued>>
-------------------------------------------------------------------------------
(* The retirement tasks *)

\* Every 50 ms the worker's task clones the list of retired stacks.
RetireClone ==
  /\ WorkerTask
  /\ ret.pc = "idle"
  /\ retired # <<>>
  /\ ret' = [pc |-> "check", list |-> retired]
  /\ UNCHANGED <<table, index, attached, kv, cmd, sweep, req, issued>>

Unreferenced(stack) ==
  \A a \in stack.active : refcounts[a] # 0 /\ Refs(a, refcounts[a]) = 0

\* Mutant of NextStack: the loop over the cloned list runs past its end.
NextStackPastEnd == [pc |-> "check", list |-> Tail(ret.list)]

NextStack == [pc |-> IF Len(ret.list) > 1 THEN "check" ELSE "idle", list |-> Tail(ret.list)]

\* Under the refcount lock: may this stack be unloaded?
RetireCheck ==
  /\ ret.pc = "check"
  /\ ret' = IF Unreferenced(Head(ret.list)) THEN [ret EXCEPT !.pc = "detach"] ELSE NextStack
  /\ UNCHANGED <<table, index, attached, kv, cmd, sweep, req, issued>>

\* Under the kernel lock: the adapters are detached one after the other, in no
\* particular order, up to the first failure.
Detach(ids, ok) ==
  LET good == {a \in ids : DetachOk(a)}
  IN  /\ ok = (good = ids)
      /\ IF ok THEN attached' = attached \ ids
         ELSE \E done \in SUBSET good : attached' = attached \ done

\* A failure leaves the stack for the next round.
RetireDetach ==
  /\ ret.pc = "detach"
  /\ \E ok \in BOOLEAN :
       /\ Detach(Head(ret.list).active, ok)
       /\ ret' = IF ok THEN [ret EXCEPT !.pc = "remove"] ELSE NextStack
  /\ UNCHANGED <<table, index, kv, cmd, sweep, req, issued>>

RetiredOf(g) == {k \in 1..Len(retired) : retired[k].generation = g}
FirstOf(g) == CHOOSE k \in RetiredOf(g) : \A j \in RetiredOf(g) : k <= j
RemovedAt(pos) == SubSeq(retired, 1, pos - 1) \o SubSeq(retired, pos + 1, Len(retired))

\* The first retired stack of that generation is removed.
RemoveGeneration(g) ==
  retired' = IF RetiredOf(g) = {} THEN retired ELSE RemovedAt(FirstOf(g))

RetireRemove ==
  /\ ret.pc = "remove"
  /\ RemoveGeneration(Head(ret.list).generation)
  /\ ret' = NextStack
  /\ UNCHANGED <<active, gen, staged, saved, refcounts, alloc, retries, index, attached, kv,
                 cmd, sweep, req, issued>>

\* The manager's task walks the list itself: process_retired_stacks every 5 s or
\* when a refcount reaches zero, force_cleanup_retired under memory pressure.  The
\* stack at place i is looked at before the lock is released.
SweepAt(i, list) ==
  sweep' = IF i <= Len(list)
           THEN [sweep EXCEPT !.pc = "check", !.i = i, !.stack = list[i]] ELSE IdleSweep

SweepOnly ==
  UNCHANGED <<active, gen, staged, saved, refcounts, alloc, index, kv, cmd, ret, req, issued>>
ListKept == UNCHANGED <<retired, retries>>

SweepBegin(forced) ==
  /\ sweep.pc = "idle" /\ retired # <<>>
  /\ forced => Pressure
  /\ sweep' = [pc |-> "check", i |-> 1, stack |-> retired[1], forced |-> forced]
  /\ SweepOnly /\ ListKept /\ UNCHANGED attached

SweepCheck ==
  /\ sweep.pc = "check"
  /\ sweep' = [sweep EXCEPT !.pc = IF Unreferenced(sweep.stack) THEN "unload" ELSE "keep"]
  /\ SweepOnly /\ ListKept /\ UNCHANGED attached

\* The stack is still where it was when the lock is taken again.
InPlace ==
  sweep.i <= Len(retired) /\ retired[sweep.i].generation = sweep.stack.generation

SweepSkip ==
  /\ sweep.pc = "keep" \/ (sweep.pc = "unload" /\ ~InPlace)
  /\ SweepAt(sweep.i + 1, retired)
  /\ SweepOnly /\ ListKept /\ UNCHANGED attached

GiveUp == ~sweep.forced /\ retries[sweep.stack.generation] >= MaxRetries

\* After MaxRetries failures the stack is only taken off the list.
Quarantine ==
  /\ sweep.pc = "unload" /\ InPlace /\ GiveUp
  /\ retired' = RemovedAt(sweep.i)
  /\ retries' = [retries EXCEPT ![sweep.stack.generation] = 0]
  /\ SweepAt(sweep.i, retired')
  /\ SweepOnly /\ UNCHANGED attached

\* The adapters to unload are read from the list again.
SweepTake ==
  /\ sweep.pc = "unload" /\ InPlace /\ ~GiveUp
  /\ sweep' = [sweep EXCEPT !.pc = "detach", !.stack = retired[sweep.i]]
  /\ SweepOnly /\ ListKept /\ UNCHANGED attached

SweepDetach ==
  /\ sweep.pc = "detach"
  /\ \E ok \in BOOLEAN :
       /\ Detach(sweep.stack.active, ok)
       /\ sweep' = [sweep EXCEPT !.pc = IF ok THEN "remove" ELSE "failed"]
  /\ SweepOnly /\ ListKept

SweepRemove ==
  LET g == sweep.stack.generation
  IN  /\ sweep.pc = "remove"
      /\ RemoveGeneration(g)
      /\ retries' = IF RetiredOf(g) = {} THEN retries ELSE [retries EXCEPT ![g] = 0]
      /\ SweepAt(sweep.i, retired')
      /\ SweepOnly /\ UNCHANGED attached

\* Only process_retired_stacks counts the failure.
SweepFailed ==
  /\ sweep.pc = "failed"
  /\ retries' = IF sweep.forced THEN retries
                ELSE [retries EXCEPT ![sweep.stack.generation] = @ + 1]
  /\ SweepAt(sweep.i + 1, retired)
  /\ SweepOnly /\ UNCHANGED <<retired, attached>>
-------------------------------------------------------------------------------
(* Requests *)

ReqTo(r, pc) == req' = [req EXCEPT ![r].pc = pc]

\* get_current_stack_handle; an empty stack is refused (no request here is
\* base-only).
ReqHandle(r) ==
  /\ \/ req[r].pc = "idle" /\ (WorkerMutex => cmd.pc = "idle" /\ ~Requesting)
     \/ req[r].pc = "again"
  /\ active # {}
  /\ req' = [req EXCEPT ![r] = [@ EXCEPT !.pc = "pin", !.tries = req[r].tries + 1,
                                  !.stack = [generation |-> gen, active |-> active]]]
  /\ UNCHANGED <<table, index, attached, kv, cmd, tasks, issued>>

\* Mutant of ReqPin: the generations are not compared.
ReqPinUnchecked(r) ==
  /\ req[r].pc = "pin"
  /\ req' = [req EXCEPT ![r] = [@ EXCEPT !.pc = "hash", !.generation = index.generation,
                                         !.pins = index.cells]]
  /\ UNCHANGED <<table, index, attached, kv, cmd, tasks, issued>>

\* store.pin_current, kept only when the generations agree; after two
\* mismatches the request fails.
ReqPin(r) ==
  /\ req[r].pc = "pin"
  /\ req' = [req EXCEPT ![r] =
               IF index.generation = @.stack.generation
               THEN [@ EXCEPT !.pc = "hash", !.generation = index.generation,
                              !.pins = index.cells]
               ELSE IF @.tries < 2 THEN [@ EXCEPT !.pc = "again"] ELSE IdleReq]
  /\ UNCHANGED <<table, index, attached, kv, cmd, tasks, issued>>

\* An empty stack on the second attempt fails the request.
ReqEmpty(r) ==
  /\ req[r].pc = "again" /\ active = {}
  /\ req' = [req EXCEPT ![r] = IdleReq]
  /\ UNCHANGED <<table, index, attached, kv, cmd, tasks, issued>>

\* compute_stack_hash reads the active map once more.
ReqHash(r) ==
  /\ req[r].pc = "hash"
  /\ req' = [req EXCEPT ![r] = [@ EXCEPT !.pc = "coherence", !.hash = active]]
  /\ UNCHANGED <<table, index, attached, kv, cmd, tasks, issued>>

\* ensure_cache_coherence: reset on another generation, then fill the cache.
ReqRun(r) ==
  /\ req[r].pc = "coherence"
  /\ kv' = IF kv.generation # req[r].generation THEN req[r].stack ELSE kv
  /\ ReqTo(r, "run")
  /\ UNCHANGED <<table, index, attached, cmd, tasks, issued>>

\* The request ends and drops its pins.
ReqEnd(r) ==
  /\ req[r].pc = "run"
  /\ req' = [req EXCEPT ![r] = IdleReq]
  /\ UNCHANGED <<table, index, attached, kv, cmd, tasks, issued>>
-------------------------------------------------------------------------------
CmdStep ==
  \/ EnforceBudget
  \/ \E a \in Adapters : EvictCheck(a) \/ EvictApply(a)
  \/ EvictDone
  \/ LoadRefused \/ LoadOk \/ LoadFails \/ Stage
  \/ DrainRefs \/ AttachStaged \/ CleanupStaged
  \/ SwapCommit \/ SwapPublish \/ SwapRetire \/ SwapFinish
  \/ RollbackPublish \/ RollbackRetire

CmdBegin ==
  \/ \E a \in Adapters : Preload(a)
  \/ \E add, remove \in SUBSET Adapters : Swap(add, remove)
  \/ Rollback

RetireStep == RetireClone \/ RetireCheck \/ RetireDetach \/ RetireRemove

SweepStep ==
  \/ \E forced \in BOOLEAN : SweepBegin(forced)
  \/ SweepCheck \/ SweepSkip \/ Quarantine \/ SweepTake
  \/ SweepDetach \/ SweepRemove \/ SweepFailed

ReqStep(r) ==
  ReqHandle(r) \/ ReqPin(r) \/ ReqEmpty(r) \/ ReqHash(r) \/ ReqRun(r) \/ ReqEnd(r)

Next == CmdBegin \/ CmdStep \/ RetireStep \/ SweepStep \/ \E r \in Requests : ReqStep(r)

Spec == Init /\ [][Next]_vars

\* Commands that have begun are executed, the retirement tasks keep being
\* woken, and a request that has begun ends.
FairSpec ==
  /\ Spec
  /\ WF_vars(CmdStep)
  /\ WF_vars(RetireStep) /\ WF_vars(SweepStep)
  /\ \A r \in Requests : WF_vars(req[r].pc # "idle" /\ ReqStep(r))
-------------------------------------------------------------------------------
(* Properties *)

\* The types of the worker's adapter state: a referenced cell was allocated, and
\* process_retired_stacks counts at most MaxRetries failures of a generation
\* (start_retirement_task makes its attempts without counting).
TypeOK ==
  /\ active \subseteq Adapters /\ staged \subseteq Adapters /\ attached \subseteq Adapters
  /\ gen \in Nat /\ issued \in 0..MaxCmds
  /\ saved \in Stacks \cup {NoStack}
  /\ retired \in Seq(Stacks) /\ retries \in [0..MaxCmds -> 0..MaxRetries]
  /\ alloc \in [Adapters -> Nat]
  /\ \A a \in Adapters :
       /\ refcounts[a] \in 0..alloc[a]
       /\ index.cells[a] \in 0..alloc[a]
       /\ \A r \in Requests : req[r].pins[a] \in 0..alloc[a]
  /\ index.generation \in Nat
  /\ kv \in Stacks
  /\ ret.list \in Seq(Stacks) /\ (ret.pc = "idle" <=> ret.list = <<>>)

\* Between commands the index that requests pin is the active map at the
\* table's generation, after swaps, failed swaps and rollbacks alike (the
\* consistency that rollback's documentation promises).
StoreMatchesTable ==
  cmd.pc = "idle" =>
    /\ index.generation = gen
    /\ {a \in Adapters : index.cells[a] # 0} = active

\* The stack a request routes with, the adapters it has pinned and the hash it
\* reports are the same set of adapters.
PinnedStackMatches ==
  \A r \in Requests :
    req[r].pc \in {"coherence", "run"} =>
      /\ {a \in Adapters : req[r].pins[a] # 0} = req[r].stack.active
      /\ req[r].hash = req[r].stack.active

\* The same without the hash, which concurrent commands may change.
PinsMatchStack ==
  \A r \in Requests :
    req[r].pc \in {"hash", "coherence", "run"} =>
      {a \in Adapters : req[r].pins[a] # 0} = req[r].stack.active

\* A Preload that succeeds leaves the resident adapters within the budget,
\* although the retirement task removes stacks while it counts and evicts.
PreloadWithinBudget ==
  [][cmd.pc \in {"rebudget", "reevict"} /\ cmd'.pc = "idle"
       => Cardinality(Resident') <= Budget]_vars

\* Every staged adapter has a refcount entry, whatever is evicted or cleaned
\* up: without one its retired stacks could not be recognised as unreferenced.
StagedCounted == \A a \in staged : refcounts[a] # 0

\* The cell under which an active adapter is published is the table's own:
\* the refcounts are "shared with AdapterStore".
RefcountShared ==
  cmd.pc = "idle" => \A a \in active : index.cells[a] = refcounts[a]

\* The kernels hold every adapter a running request has pinned: pinning is
\* there "so mid-request swaps cannot evict adapters".
PinnedAttached ==
  [][\A r \in Requests : \A a \in Adapters :
       /\ req[r].pc = "run" /\ req'[r].pc = "run" /\ req[r].pins[a] # 0
       /\ a \in attached
       => a \in attached']_vars

\* A running request uses a KV cache that was filled under its own stack: the
\* generation of the cache tells stacks apart.
KvCoherent == \A r \in Requests : req[r].pc = "run" => kv.active = req[r].stack.active

\* When requests stop for good, every retired stack is cleaned up in the end.
RetiredCleanedUp == <>[](~Requesting) => <>[](retired = <<>>)
===============================================================================

--------------------------- MODULE ServerLifecycle ----------------------------
(***************************************************************************)
(* The life of the control plane's process: the boot state machine         *)
(* (boot_state.rs), the startup warmup that promotes it, the middlewares   *)
(* that admit and count requests, the admin endpoints that drain, stop and *)
(* restart it, and the graduated drain that a signal starts (shutdown.rs,  *)
(* boot/server.rs).  All of them read and change one state, each through   *)
(* transition(), which checks and sets under one lock.                     *)
(*                                                                         *)
(* Not every request passes the middlewares: the health, version, audit    *)
(* and UI routes are merged beside the API (boot/finalization.rs) and are  *)
(* handled in every state, uncounted ("spoke").                            *)
(*                                                                         *)
(* Phases of the drain that only log are one phase here.  The degraded     *)
(* state is in the table and has no caller.  The components that are shut  *)
(* down after the server, one after the other, are one step.               *)
(***************************************************************************)
EXTENDS Naturals, FiniteSets

CONSTANTS Requests,      \* connections, with one request each
          Kinds,         \* what requests may ask for
          Targets,       \* number of models the warmup loads
          DrainTimeout,  \* samples that a drain takes before it is forced
          Transport      \* "tcp" or "uds"

AdminKinds == {"drain", "immediate", "maintenance", "restart"}

ASSUME LifecycleAssumption ==
  /\ IsFiniteSet(Requests) /\ Kinds \subseteq AdminKinds \cup {"work", "stream", "spoke"}
  /\ Targets \in Nat /\ DrainTimeout \in Nat /\ Transport \in {"tcp", "uds"}

VARIABLES phase,               \* BootStateManager.current
          main,                \* the task that boots, serves and exits
          warmup,              \* the startup warmup task
          request,             \* the requests
          in_flight_requests,  \* the counter of request_tracking_middleware
          signalled,           \* a signal or shutdown_tx has fired
          drain                \* the shutdown signal future

vars == <<phase, main, warmup, request, in_flight_requests, signalled, drain>>

BootPhases == {"stopped", "starting", "db_connecting", "migrating", "seeding",
               "loading_policies", "starting_backend", "loading_base_models",
               "loading_adapters", "worker_discovery"}
Phases == BootPhases \cup {"ready", "fully_ready", "degraded", "maintenance",
                           "draining", "stopping", "failed"}

IsReady(p) == p \in {"ready", "fully_ready"}
IsShuttingDown(p) == p \in {"draining", "stopping"}
IsTerminal(p) == p \in {"stopping", "failed"}

BootOrder ==
  {<<"stopped", "starting">>, <<"starting", "db_connecting">>,
   <<"db_connecting", "migrating">>, <<"migrating", "seeding">>,
   <<"seeding", "loading_policies">>, <<"loading_policies", "starting_backend">>,
   <<"starting_backend", "loading_base_models">>,
   <<"loading_base_models", "loading_adapters">>,
   <<"loading_adapters", "worker_discovery">>, <<"worker_discovery", "ready">>}

IsAllowedTransition(from, to) ==
  /\ ~IsTerminal(from)
  /\ \/ to = "failed"
     \/ to = "degraded" /\ IsReady(from)
     \/ to = "ready" /\ from \in {"degraded", "maintenance"}
     \/ <<from, to>> \in BootOrder
     \/ to = "fully_ready" /\ from = "ready"
     \/ to = "maintenance" /\ IsReady(from)
     \/ to = "draining" /\ (IsReady(from) \/ from \in {"degraded", "maintenance"})
     \/ to = "stopping" /\ from = "draining"

\* Mutant of Transition: the caller's check is trusted.
TransitionUnchecked(to) == phase' = to

\* Checked and set under the write lock; a transition that is not allowed is
\* logged and changes nothing, and its caller goes on.
Transition(to) == phase' = IF IsAllowedTransition(phase, to) THEN to ELSE phase

Init ==
  /\ phase = "stopped" /\ main = "boot" /\ signalled = FALSE
  /\ warmup = [pc |-> "poll", loaded |-> 0, failed |-> FALSE]
  /\ request = [r \in Requests |-> [pc |-> "new", kind |-> "work", late |-> FALSE]]
  /\ in_flight_requests = 0
  /\ drain = [pc |-> "wait", samples |-> 0, forced |-> FALSE]
-------------------------------------------------------------------------------
(* Boot and warmup *)

\* The boot steps up to worker discovery, in their order.
Boot ==
  /\ main = "boot"
  /\ \E to \in BootPhases : <<phase, to>> \in BootOrder /\ Transition(to)
  /\ UNCHANGED <<main, warmup, request, in_flight_requests, signalled, drain>>

\* A step of the boot fails and the process ends; only some steps, in strict mode,
\* record it in the state first.
BootFails ==
  /\ main = "boot"
  /\ Transition("failed") \/ UNCHANGED phase
  /\ main' = "exited"
  /\ UNCHANGED <<warmup, request, in_flight_requests, signalled, drain>>

\* The listener is bound.
Serve ==
  /\ main = "boot" /\ phase = "worker_discovery"
  /\ Transition("ready") /\ main' = "serve"
  /\ UNCHANGED <<warmup, request, in_flight_requests, signalled, drain>>

WarmupTo(pc) == warmup' = [warmup EXCEPT !.pc = pc]
WarmupOnly == UNCHANGED <<main, request, in_flight_requests, signalled, drain>>

\* run_startup_inference_warmup polls until the server is ready, or gives up.
WarmupPoll ==
  /\ warmup.pc = "poll" /\ main # "exited"
  /\ IsReady(phase) \/ phase = "failed" \/ IsShuttingDown(phase) \/ signalled
  /\ WarmupTo(IF IsReady(phase) THEN "load" ELSE "over")
  /\ WarmupOnly /\ UNCHANGED phase

\* The targets cannot be read from the database.
WarmupUnresolved ==
  /\ warmup.pc = "load" /\ warmup.loaded = 0 /\ main # "exited"
  /\ WarmupTo("over") /\ WarmupOnly /\ UNCHANGED phase

\* execute_warmup_targets: one model after the other, failures are remembered.
WarmupLoad(ok) ==
  /\ warmup.pc = "load" /\ warmup.loaded < Targets /\ main # "exited"
  /\ warmup' = [warmup EXCEPT !.loaded = @ + 1, !.failed = @ \/ ~ok]
  /\ WarmupOnly /\ UNCHANGED phase

\* Mutant of WarmupCheck: failed models do not keep the server from promotion.
WarmupCheckLenient ==
  /\ warmup.pc = "load" /\ warmup.loaded = Targets /\ main # "exited"
  /\ WarmupTo(IF phase = "ready" THEN "promote" ELSE "over")
  /\ WarmupOnly /\ UNCHANGED phase

\* finalize_boot_state_after_warmup checks ...
WarmupCheck ==
  /\ warmup.pc = "load" /\ warmup.loaded = Targets /\ main # "exited"
  /\ WarmupTo(IF ~warmup.failed /\ phase = "ready" THEN "promote" ELSE "over")
  /\ WarmupOnly /\ UNCHANGED phase

\* ... and then promotes, whatever has happened since.
WarmupPromote ==
  /\ warmup.pc = "promote" /\ main # "exited"
  /\ Transition("fully_ready")
  /\ WarmupTo("over") /\ WarmupOnly
-------------------------------------------------------------------------------
(* Requests: drain_middleware, lifecycle_gate, request_tracking_middleware  *)
(* and the handler, from the outside in.                                    *)

RequestTo(r, pc) == request' = [request EXCEPT ![r].pc = pc]
RequestOnly == main # "exited" /\ UNCHANGED <<main, warmup, drain>>

\* The routes that the middlewares are layered on.
Behind(r) == request[r].kind # "spoke"

\* Requests come until the drain is over and axum closes its connections; the UDS
\* loop leaves them to their tasks, which serve them until the process exits.
Arrive(r, k) ==
  /\ main \in {"serve", "coordinate"} /\ request[r].pc = "new"
  /\ Transport = "tcp" => drain.pc # "over"
  /\ request' = [request EXCEPT ![r] =
       [pc |-> "arrived", kind |-> k, late |-> IsShuttingDown(phase)]]
  /\ RequestOnly /\ UNCHANGED <<phase, in_flight_requests, signalled>>

\* Mutant of DrainMiddleware: only the draining state refuses requests.
DrainMiddlewareDrainingOnly(r) ==
  /\ request[r].pc = "arrived" /\ Behind(r)
  /\ RequestTo(r, IF phase = "draining" THEN "rejected" ELSE "gate")
  /\ RequestOnly /\ UNCHANGED <<phase, in_flight_requests, signalled>>

DrainMiddleware(r) ==
  /\ request[r].pc = "arrived" /\ Behind(r)
  /\ RequestTo(r, IF IsShuttingDown(phase) THEN "rejected" ELSE "gate")
  /\ RequestOnly /\ UNCHANGED <<phase, in_flight_requests, signalled>>

LifecycleGate(r) ==
  /\ request[r].pc = "gate"
  /\ RequestTo(r, IF /\ request[r].kind \notin AdminKinds
                     /\ phase = "maintenance" \/ IsShuttingDown(phase)
                  THEN "rejected" ELSE "count")
  /\ RequestOnly /\ UNCHANGED <<phase, in_flight_requests, signalled>>

Count(r) ==
  /\ request[r].pc = "count"
  /\ in_flight_requests' = in_flight_requests + 1
  /\ RequestTo(r, "run")
  /\ RequestOnly /\ UNCHANGED <<phase, signalled>>

\* A route beside the middlewares goes straight to its handler.
HandleSpoke(r) ==
  /\ ~Behind(r)
  /\ \/ request[r].pc = "arrived" /\ RequestTo(r, "open")
     \/ request[r].pc = "open" /\ RequestTo(r, "done")
  /\ RequestOnly /\ UNCHANGED <<phase, in_flight_requests, signalled>>

\* The handlers.  Work, an administrator's request that is refused, and one that
\* is for the workers only leave the state alone.  A change of state awaits its
\* audit record, so that a handler with two of them can be interrupted in between.
HandleWork(r) ==
  /\ request[r].pc = "run"
  /\ RequestTo(r, "ran")
  /\ RequestOnly /\ UNCHANGED <<phase, in_flight_requests, signalled>>

HandleAdmin(r, kind, pc, to, next) ==
  /\ request[r].kind = kind /\ request[r].pc = pc
  /\ Transition(to)
  /\ RequestTo(r, next)
  /\ RequestOnly /\ UNCHANGED <<in_flight_requests, signalled>>

RequestShutdown(r) ==
  \/ HandleAdmin(r, "drain", "run", "draining", "ran")
  \/ HandleAdmin(r, "immediate", "run", "draining", "run2")
  \/ HandleAdmin(r, "immediate", "run2", "stopping", "ran")

RequestMaintenance(r) == HandleAdmin(r, "maintenance", "run", "maintenance", "ran")

SafeRestart(r) ==
  \/ HandleAdmin(r, "restart", "run", "maintenance", "run2")
  \/ HandleAdmin(r, "restart", "run2", "draining", "run3")
  \/ /\ request[r].kind = "restart" /\ request[r].pc = "run3"
     /\ signalled' = TRUE
     /\ RequestTo(r, "ran")
     /\ RequestOnly /\ UNCHANGED <<phase, in_flight_requests>>

\* The response is there; the body of a stream is still to be sent.
Uncount(r) ==
  /\ request[r].pc = "ran"
  /\ in_flight_requests' = in_flight_requests - 1
  /\ RequestTo(r, IF request[r].kind = "stream" THEN "body" ELSE "done")
  /\ RequestOnly /\ UNCHANGED <<phase, signalled>>

SendBody(r) ==
  /\ request[r].pc = "body"
  /\ RequestTo(r, "done")
  /\ RequestOnly /\ UNCHANGED <<phase, in_flight_requests, signalled>>

Handling == {"run", "run2", "run3"}

\* Mutant of Disconnect: every dropped request gives a count back.
DisconnectGivesBack(r) ==
  /\ request[r].pc \in {"arrived", "gate", "count", "body", "open"} \cup Handling
  /\ RequestTo(r, IF request[r].pc \in Handling THEN "leaked" ELSE "dropped")
  /\ in_flight_requests' = IF in_flight_requests > 0 THEN in_flight_requests - 1 ELSE 0
  /\ RequestOnly /\ UNCHANGED <<phase, signalled>>

\* The client disconnects and the future is dropped where it is: nothing takes
\* back the count of a handler.
Disconnect(r) ==
  /\ request[r].pc \in {"arrived", "gate", "count", "body", "open"} \cup Handling
  /\ RequestTo(r, IF request[r].pc \in Handling THEN "leaked" ELSE "dropped")
  /\ RequestOnly /\ UNCHANGED <<phase, in_flight_requests, signalled>>
-------------------------------------------------------------------------------
(* The drain and the end.  The future is polled only once the server is     *)
(* ready, so that its check for a signal during boot never applies.         *)

DrainOnly == UNCHANGED <<main, warmup, request, in_flight_requests>>

\* SIGINT or SIGTERM.
Signal ==
  /\ main = "serve" /\ ~signalled
  /\ signalled' = TRUE
  /\ DrainOnly /\ UNCHANGED <<phase, drain>>

BeginDrain ==
  /\ main = "serve" /\ drain.pc = "wait" /\ signalled
  /\ Transition("draining")
  /\ drain' = [drain EXCEPT !.pc = "sample"]
  /\ DrainOnly /\ UNCHANGED signalled

\* Mutant of Sample: the loop waits for the counter alone.
SampleNoTimeout ==
  /\ drain.pc = "sample"
  /\ in_flight_requests = 0
  /\ drain' = [drain EXCEPT !.pc = "stop"]
  /\ DrainOnly /\ UNCHANGED <<phase, signalled>>

\* Mutant of Sample: one sample too many.
SampleOffByOne ==
  /\ drain.pc = "sample"
  /\ drain' = IF in_flight_requests = 0 THEN [drain EXCEPT !.pc = "stop"]
              ELSE IF drain.samples > DrainTimeout
              THEN [drain EXCEPT !.pc = "stop", !.forced = TRUE]
              ELSE [drain EXCEPT !.samples = @ + 1]
  /\ DrainOnly /\ UNCHANGED <<phase, signalled>>

\* One turn of the loop, every 100 ms.
Sample ==
  /\ drain.pc = "sample"
  /\ drain' = IF in_flight_requests = 0 THEN [drain EXCEPT !.pc = "stop"]
              ELSE IF drain.samples >= DrainTimeout
              THEN [drain EXCEPT !.pc = "stop", !.forced = TRUE]
              ELSE [drain EXCEPT !.samples = @ + 1]
  /\ DrainOnly /\ UNCHANGED <<phase, signalled>>

Stop ==
  /\ drain.pc = "stop"
  /\ Transition("stopping")
  /\ drain' = [drain EXCEPT !.pc = "over"]
  /\ DrainOnly /\ UNCHANGED signalled

Settled(r) == request[r].pc \in {"new", "rejected", "done", "dropped", "leaked"}

\* axum waits for its connections; the UDS loop just ends.
StopServing ==
  /\ main = "serve" /\ drain.pc = "over"
  /\ Transport = "tcp" => \A r \in Requests : Settled(r)
  /\ main' = "coordinate"
  /\ UNCHANGED <<phase, warmup, request, in_flight_requests, signalled, drain>>

\* ShutdownCoordinator::shutdown, bounded by its overall timeout, and the exit.
Exit ==
  /\ main = "coordinate"
  /\ main' = "exited"
  /\ UNCHANGED <<phase, warmup, request, in_flight_requests, signalled, drain>>

RequestStep(r) ==
  \/ DrainMiddleware(r) \/ LifecycleGate(r) \/ Count(r) \/ HandleWork(r) \/ HandleSpoke(r)
  \/ RequestShutdown(r) \/ RequestMaintenance(r) \/ SafeRestart(r)
  \/ Uncount(r) \/ SendBody(r) \/ Disconnect(r)

ServerStep == BeginDrain \/ Sample \/ Stop \/ StopServing \/ Exit

Next ==
  \/ Boot \/ BootFails \/ Serve
  \/ WarmupPoll \/ WarmupUnresolved \/ WarmupCheck \/ WarmupPromote
  \/ \E ok \in BOOLEAN : WarmupLoad(ok)
  \/ \E r \in Requests : RequestStep(r) \/ \E k \in Kinds : Arrive(r, k)
  \/ Signal \/ BeginDrain \/ Sample \/ Stop \/ StopServing \/ Exit

Spec == Init /\ [][Next]_vars

\* The task that serves and drains runs; requests may be stuck for ever.
FairSpec == Spec /\ WF_vars(ServerStep)
-------------------------------------------------------------------------------
(* Properties *)

RequestStates ==
  [pc : {"new", "arrived", "gate", "count", "open", "ran", "body", "done", "rejected",
         "dropped", "leaked"} \cup Handling,
   kind : AdminKinds \cup {"work", "stream", "spoke"}, late : BOOLEAN]

WarmupStates ==
  [pc : {"poll", "load", "promote", "over"}, loaded : 0..Targets, failed : BOOLEAN]

DrainStates ==
  [pc : {"wait", "sample", "stop", "over"}, samples : 0..DrainTimeout, forced : BOOLEAN]

\* The types; a drain never takes more samples than its timeout allows.
TypeOK ==
  /\ phase \in Phases /\ main \in {"boot", "serve", "coordinate", "exited"}
  /\ warmup \in WarmupStates /\ drain \in DrainStates
  /\ request \in [Requests -> RequestStates]
  /\ in_flight_requests \in Nat /\ signalled \in BOOLEAN

\* The requests in a handler behind request_tracking_middleware, and those whose
\* client went away while they were.
Handled == {r \in Requests : request[r].pc \in Handling \cup {"ran"}}
Leaked == {r \in Requests : request[r].pc = "leaked"}

\* The counter covers every handler behind the middlewares, so that a drain that
\* finds zero leaves none of them behind, and whatever it shows beyond them was left
\* by a client that went away in a handler: requests that are turned down, or dropped
\* anywhere else, neither take a count nor give one back.
CountCovers ==
  /\ Cardinality(Handled) <= in_flight_requests
  /\ in_flight_requests <= Cardinality(Handled) + Cardinality(Leaked)

\* Nothing brings a server that shuts down back, neither a promotion whose check is
\* older than the drain nor an administrator's maintenance.
ShutdownAbsorbs == [][IsShuttingDown(phase) => IsShuttingDown(phase')]_vars

\* A request that comes when the server shuts down is never handled behind the
\* middlewares, not even an administrator's, however the drain goes on from there:
\* "Return 503 Service Unavailable for new requests when the server is draining".
NoLateAdmission ==
  \A r \in Requests :
    request[r].late /\ Behind(r) => request[r].pc \in {"arrived", "rejected", "dropped"}

\* FullyReady "only if all tenant warmups succeed", and the warmup is over.
FullyReadyWarm ==
  phase = "fully_ready" => warmup = [pc |-> "over", loaded |-> Targets, failed |-> FALSE]

\* A signal ends the process, even when requests are stuck or their count has leaked.
SignalExits == signalled ~> (main = "exited")

\* A drain that was not forced let every admitted request complete: "ensure all
\* active requests complete before the server terminates".
DrainCompletes ==
  main = "exited" /\ drain.pc = "over" /\ ~drain.forced
    => \A r \in Requests : Settled(r) \/ request[r].pc \in {"arrived", "gate"}

\* The counter goes down "when the request completes".
CountReturns == (\A r \in Requests : Settled(r)) => in_flight_requests = 0
===============================================================================

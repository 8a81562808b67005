------------------------------ MODULE PauseReview ------------------------------
(***************************************************************************)
(* One streamed inference of the control plane that its worker pauses for  *)
(* human review:                                                           *)
(*   - the worker writes tokens and pauses to its connection and waits in  *)
(*     its registry until a pause is reviewed;                             *)
(*   - the reader (infer_stream of uds_client.rs) takes the events from    *)
(*     the connection until the worker ends, no line comes in time or the  *)
(*     stream is gone, and what it has not read by then is lost;           *)
(*   - the forwarder (inference_core/core.rs) sends tokens and pauses down *)
(*     two separate channels and registers a pause with the tracker;       *)
(*   - the stream selects over the two channels, gates the tokens of a     *)
(*     safety pause until its review and, when it is a StreamState, ends   *)
(*     idle streams and pauses that last too long.  A LoadingStreamState   *)
(*     (Loading) has the gate but neither limit nor heartbeat, and nothing *)
(*     cancels its inference when it is dropped;                           *)
(*   - reviewers submit through ServerPauseTracker::submit_review, whose   *)
(*     call to the worker may fail or time out and be made again.          *)
(* Time is counted in ticks.  The phases before the first token (loading   *)
(* included) and the final stream_finished event change nothing the        *)
(* properties see and are left out, and so is the inference state tracker, *)
(* which is keyed by another id and never matches.                         *)
(***************************************************************************)
EXTENDS Naturals, Sequences, FiniteSets

CONSTANTS Reviewers,
          NoReview,       \* stands for "not reviewed"
          MaxPauses,      \* bound: pauses of the inference
          MaxTokens,      \* bound: tokens of the inference
          MaxSubmits,     \* bound: submissions of a reviewer
          EventCapacity,  \* capacity of the channel of worker events, 64
          TokenCapacity,  \* inference_token_buffer_capacity
          PauseCapacity,  \* capacity of the channel of pauses, 8
          ReadTimeout,    \* timeout of a line read from the worker
          Heartbeat,      \* inference_heartbeat_interval_secs, an hour for 0
          IdleTimeout,    \* inference_idle_timeout_secs
          MaxPause,       \* max_pause_duration_secs
          Loading,        \* whether the stream is a LoadingStreamState
          Honest          \* whether the worker keeps silent until it is reviewed

\* The durations are settings of their own: nothing orders them.
ASSUME PauseAssumption ==
  /\ MaxPauses \in Nat /\ MaxTokens \in Nat /\ MaxSubmits \in Nat
  /\ EventCapacity \in Nat \ {0} /\ TokenCapacity \in Nat \ {0} /\ PauseCapacity \in Nat \ {0}
  /\ ReadTimeout \in Nat /\ Heartbeat \in Nat \ {0} /\ IdleTimeout \in Nat /\ MaxPause \in Nat
  /\ Loading \in BOOLEAN /\ Honest \in BOOLEAN
  /\ NoReview \notin Reviewers \X (1..MaxSubmits)

VARIABLES
  \* the worker
  sent_tokens, sent_pauses,  \* how many it has sent
  running,                   \* it has not completed or failed
  registry,                  \* the pauses it waits on (InferencePauseRegistry)
  applied,                   \* the submission that resumed each pause
  kind,                      \* trigger kind of each pause
  calls,                     \* submissions under way to it
  \* its connection
  wire,                      \* the events on their way: 0 a token, p the pause p
  ready,                     \* how many of them the reader has taken
  reading,                   \* the reader takes events from it
  \* the control plane
  forwarder,                 \* the task that handles the worker's events
  received,                  \* the last pause it has taken
  token_rx, pause_rx,        \* the two channels; of the tokens only the number
  tracker,                   \* ServerPauseTracker.paused
  review,                    \* the reviewers' submissions
  stream,                    \* StreamState or LoadingStreamState
  \* clocks
  since_line, since_token, since_pause

worker == <<sent_tokens, sent_pauses, running, registry, applied, kind>>
connection == <<wire, ready, reading>>
clocks == <<since_line, since_token, since_pause>>
vars == <<worker, calls, connection, forwarder, received, token_rx, pause_rx, tracker, review,
          stream, clocks>>

Pauses == 1..MaxPauses
Submissions == Reviewers \X (1..MaxSubmits)
Running == [active |-> FALSE, pause |-> 0, safety |-> FALSE]

Init ==
  /\ sent_tokens = 0 /\ sent_pauses = 0 /\ running = TRUE
  /\ registry = {} /\ applied = [p \in Pauses |-> NoReview] /\ calls = {}
  /\ kind = [p \in Pauses |-> "other"]
  /\ wire = <<>> /\ ready = 0 /\ reading = TRUE
  /\ forwarder = "read" /\ received = 0 /\ token_rx = 0 /\ pause_rx = <<>> /\ tracker = {}
  /\ review = [r \in Reviewers |-> [pc |-> "idle", pause |-> 0, n |-> 0]]
  /\ stream = [pc |-> "head", gate |-> Running]
  /\ since_line = 0 /\ since_token = 0 /\ since_pause = 0
-------------------------------------------------------------------------------
(* The worker writes its events; what it writes when nobody reads any more *)
(* is lost.                                                                *)

Write(event) == wire' = IF reading THEN Append(wire, event) ELSE wire

WorkerToken ==
  /\ running /\ sent_tokens < MaxTokens
  /\ Honest => registry = {}
  /\ sent_tokens' = sent_tokens + 1
  /\ Write(0)
  /\ UNCHANGED <<sent_pauses, running, registry, applied, kind, calls, ready, reading,
                 forwarder, received, token_rx, pause_rx, tracker, review, stream, clocks>>

\* The worker pauses: it waits in its registry from now on, whether or not the
\* event reaches anyone.
WorkerPause(k) ==
  /\ running /\ sent_pauses < MaxPauses
  /\ Honest => registry = {}
  /\ LET p == sent_pauses + 1
     IN  /\ sent_pauses' = p
         /\ registry' = registry \cup {p}
         /\ kind' = [kind EXCEPT ![p] = k]
         /\ Write(p)
  /\ UNCHANGED <<sent_tokens, running, applied, calls, ready, reading, forwarder, received,
                 token_rx, pause_rx, tracker, review, stream, clocks>>

\* The worker completes or fails; nobody waits for a review any more.
WorkerEnds ==
  /\ running
  /\ running' = FALSE /\ registry' = {}
  /\ UNCHANGED <<sent_tokens, sent_pauses, applied, kind, calls, connection, forwarder,
                 received, token_rx, pause_rx, tracker, review, stream, clocks>>
-------------------------------------------------------------------------------
(* The reader. *)

NoOtherChange ==
  UNCHANGED <<worker, calls, forwarder, received, token_rx, pause_rx, tracker, review, stream,
              since_token, since_pause>>

\* The events it has not read are lost.
Stop == reading' = FALSE /\ wire' = SubSeq(wire, 1, ready)

\* The next event goes to the forwarder's channel; a full channel makes the reader
\* wait, and a forwarder that is gone makes it give up.
ReadEvent ==
  /\ reading /\ ready < Len(wire)
  /\ IF forwarder = "ended"
     THEN Stop /\ UNCHANGED <<ready, since_line>>
     ELSE /\ ready < EventCapacity
          /\ ready' = ready + 1 /\ since_line' = 0
          /\ UNCHANGED <<wire, reading>>
  /\ NoOtherChange

\* The reader waits for a line, and not for room in its channel.
AwaitsLine == reading /\ (ready = Len(wire) \/ ready < EventCapacity)

\* It stops: the worker has ended and everything is read, or no line has come for
\* ReadTimeout, or the dropped stream has cancelled the inference (StreamDropGuard).
ReaderStops ==
  /\ AwaitsLine
  /\ \/ ~running /\ ready = Len(wire)
     \/ since_line >= ReadTimeout
     \/ ~Loading /\ stream.pc = "done"
  /\ Stop
  /\ UNCHANGED <<ready, since_line>> /\ NoOtherChange
-------------------------------------------------------------------------------
(* The forwarder. *)

Take == wire' = Tail(wire) /\ ready' = ready - 1

\* The forwarder drops its channel with the events in it.
GiveUp ==
  /\ forwarder' = "ended"
  /\ wire' = SubSeq(wire, ready + 1, Len(wire)) /\ ready' = 0 /\ UNCHANGED token_rx

\* A full channel makes the forwarder wait; a stream that is gone makes it give up.
ForwardToken ==
  /\ forwarder = "read" /\ ready > 0 /\ Head(wire) = 0
  /\ stream.pc = "done" \/ token_rx < TokenCapacity
  /\ IF stream.pc = "done"
     THEN GiveUp
     ELSE token_rx' = token_rx + 1 /\ Take /\ UNCHANGED forwarder
  /\ UNCHANGED <<worker, calls, reading, received, pause_rx, tracker, review, stream, clocks>>

ReceivePause ==
  /\ forwarder = "read" /\ ready > 0 /\ Head(wire) # 0
  /\ Take /\ received' = Head(wire)
  /\ forwarder' = "send"
  /\ UNCHANGED <<worker, calls, reading, token_rx, pause_rx, tracker, review, stream, clocks>>

\* Mutant of SendPause: the channel does not hold the forwarder back.
SendPauseUnbounded ==
  /\ forwarder = "send"
  /\ pause_rx' = IF stream.pc = "done" THEN pause_rx ELSE Append(pause_rx, received)
  /\ forwarder' = "register"
  /\ UNCHANGED <<worker, calls, connection, received, token_rx, tracker, review, stream, clocks>>

\* The pause goes to the client first, which may be gone, ...
SendPause ==
  /\ forwarder = "send"
  /\ stream.pc = "done" \/ Len(pause_rx) < PauseCapacity
  /\ pause_rx' = IF stream.pc = "done" THEN pause_rx ELSE Append(pause_rx, received)
  /\ forwarder' = "register"
  /\ UNCHANGED <<worker, calls, connection, received, token_rx, tracker, review, stream, clocks>>

\* ... and to the tracker second (register_pause).
RegisterPause ==
  /\ forwarder = "register"
  /\ tracker' = tracker \cup {received}
  /\ forwarder' = "read"
  /\ UNCHANGED <<worker, calls, connection, received, token_rx, pause_rx, review, stream, clocks>>

\* The reader has stopped and its channel is empty.
ForwarderEnds ==
  /\ forwarder = "read" /\ ~reading /\ ready = 0
  /\ forwarder' = "ended"
  /\ UNCHANGED <<worker, calls, connection, received, token_rx, pause_rx, tracker, review,
                 stream, clocks>>
-------------------------------------------------------------------------------
(* Reviews: submit_review of the tracker and of the worker's registry. *)

Submit(r, p) ==
  /\ review[r].pc # "waiting" /\ review[r].n < MaxSubmits
  /\ p \in tracker
  /\ LET n == review[r].n + 1
     IN  /\ review' = [review EXCEPT ![r] = [pc |-> "waiting", pause |-> p, n |-> n]]
         /\ calls' = calls \cup {[by |-> <<r, n>>, pause |-> p, reply |-> "none"]}
  /\ UNCHANGED <<worker, connection, forwarder, received, token_rx, pause_rx, tracker, stream,
                 clocks>>

Awaited(c) == review[c.by[1]].pc = "waiting" /\ review[c.by[1]].n = c.by[2]

\* The worker handles a call, whether or not its caller still waits: the entry
\* is taken out of the registry and the review sent to the inference.
WorkerReviews(c) ==
  /\ c.reply = "none"
  /\ LET known == c.pause \in registry
     IN  /\ registry' = registry \ {c.pause}
         /\ applied' = IF known THEN [applied EXCEPT ![c.pause] = c.by] ELSE applied
         /\ calls' = (calls \ {c}) \cup
              IF Awaited(c) THEN {[c EXCEPT !.reply = IF known THEN "resumed" ELSE "error"]}
              ELSE {}
  /\ UNCHANGED <<sent_tokens, sent_pauses, running, kind, connection, forwarder, received,
                 token_rx, pause_rx, tracker, review, stream, clocks>>

Answer(c, result, tracked) ==
  /\ Awaited(c)
  /\ review' = [review EXCEPT ![c.by[1]].pc = result]
  /\ tracker' = tracked
  /\ UNCHANGED <<worker, connection, forwarder, received, token_rx, pause_rx, stream, clocks>>

\* Mutant of Respond: the status of the worker's response is not looked at.
RespondAnyStatus(c) ==
  /\ c.reply # "none"
  /\ calls' = calls \ {c}
  /\ Answer(c, "accepted", tracker \ {c.pause})

\* The worker's response: the pause is forgotten only when it was resumed.
Respond(c) ==
  /\ c.reply # "none"
  /\ calls' = calls \ {c}
  /\ IF c.reply = "resumed"
     THEN Answer(c, "accepted", tracker \ {c.pause})
     ELSE Answer(c, "refused", tracker)

\* Mutant of CallFails: the pause is forgotten when the call fails.
CallFailsForgets(c) ==
  /\ calls' = IF c.reply = "none" THEN calls ELSE calls \ {c}
  /\ Answer(c, "refused", tracker \ {c.pause})

\* The connection breaks or the client's timeout passes, before or after the
\* worker has handled the call; an unhandled one may still be handled.
CallFails(c) ==
  /\ calls' = IF c.reply = "none" THEN calls ELSE calls \ {c}
  /\ Answer(c, "refused", tracker)
-------------------------------------------------------------------------------
(* The stream: each turn of the loop of next_event (next_loading_event)    *)
(* checks the clocks (checks nothing) and then waits in select for         *)
(* whichever event it gets.                                                *)

StreamOnly ==
  UNCHANGED <<worker, calls, connection, forwarder, received, tracker, review, since_line>>
Turn(pc, gate) == stream' = [pc |-> pc, gate |-> gate]

\* A stream that ends drops its receivers with what they hold.
End ==
  /\ Turn("done", Running)
  /\ token_rx' = 0 /\ pause_rx' = <<>> /\ since_token' = 0 /\ since_pause' = 0

Wait(gate) == Turn("select", gate) /\ UNCHANGED <<token_rx, pause_rx, since_token, since_pause>>


\* is_idle: a pause holds the idle timeout off until it has lasted too long; then
\* it is cleared, and the stream ends or goes on as its idle time says.
Check ==
  /\ stream.pc = "head"
  /\ IF Loading \/ (stream.gate.active /\ since_pause < MaxPause)
     THEN Wait(stream.gate)
     ELSE IF since_token > IdleTimeout THEN End ELSE Wait(Running)
  /\ StreamOnly

TakePause ==
  /\ stream.pc = "select" /\ pause_rx # <<>>
  /\ Turn("head", [active |-> TRUE, pause |-> Head(pause_rx),
                   safety |-> kind[Head(pause_rx)] = "safety"])
  /\ pause_rx' = Tail(pause_rx) /\ since_pause' = 0
  /\ StreamOnly /\ UNCHANGED <<token_rx, since_token>>

\* The review gate: is_safety_pause_reviewed looks for the pause in the tracker.
Gated == stream.gate.active /\ stream.gate.safety /\ stream.gate.pause \in tracker

\* Mutant of TakeToken: a dropped token counts as activity.
TakeTokenAlwaysActive ==
  /\ stream.pc = "select" /\ token_rx > 0
  /\ token_rx' = token_rx - 1
  /\ Turn("head", IF Gated THEN stream.gate ELSE Running)
  /\ since_token' = 0
  /\ StreamOnly /\ UNCHANGED <<pause_rx, since_pause>>

\* A gated token is dropped and changes nothing else; any other token goes to
\* the client, counts as activity and ends the pause.
TakeToken ==
  /\ stream.pc = "select" /\ token_rx > 0
  /\ token_rx' = token_rx - 1
  /\ IF Gated
     THEN Turn("head", stream.gate) /\ UNCHANGED since_token
     ELSE Turn("head", Running) /\ since_token' = 0
  /\ StreamOnly /\ UNCHANGED <<pause_rx, since_pause>>

\* The token channel is closed and empty.
TakeEnd ==
  /\ stream.pc = "select" /\ token_rx = 0 /\ forwarder = "ended"
  /\ End /\ StreamOnly

\* The sleep of select is over; nothing remembers when the last heartbeat was.
SendHeartbeat ==
  /\ ~Loading /\ stream.pc = "select" /\ since_token >= Heartbeat
  /\ Turn("head", stream.gate)
  /\ StreamOnly /\ UNCHANGED <<token_rx, pause_rx, since_token, since_pause>>

StreamStep == Check \/ TakePause \/ TakeToken \/ TakeEnd \/ SendHeartbeat

\* The client disconnects.
Disconnect ==
  /\ stream.pc # "done"
  /\ End /\ StreamOnly

Later(clock, last) == IF clock < last THEN clock + 1 ELSE clock

\* The last reading of the clock of the tokens that is told apart.
Larger(m, n) == IF m >= n THEN m ELSE n
TokenClockEnd == Larger(IdleTimeout + 1, Larger(MaxPause, Heartbeat))

Tick ==
  /\ stream.pc # "done"
  /\ since_line' = Later(since_line, ReadTimeout)
  /\ since_token' = Later(since_token, TokenClockEnd)
  /\ since_pause' = Later(since_pause, MaxPause)
  /\ UNCHANGED <<worker, calls, connection, forwarder, received, token_rx, pause_rx, tracker,
                 review, stream>>

Next ==
  \/ WorkerToken \/ WorkerEnds \/ \E k \in {"safety", "other"} : WorkerPause(k)
  \/ ReadEvent \/ ReaderStops
  \/ ForwardToken \/ ReceivePause \/ SendPause \/ RegisterPause \/ ForwarderEnds
  \/ \E r \in Reviewers, p \in Pauses : Submit(r, p)
  \/ \E c \in calls : WorkerReviews(c) \/ Respond(c) \/ CallFails(c)
  \/ Check \/ TakePause \/ TakeToken \/ TakeEnd \/ SendHeartbeat \/ Disconnect
  \/ Tick

Spec == Init /\ [][Next]_vars

\* The client keeps polling its stream and time passes.  Which branch select
\* takes is left open, and nothing is assumed of the worker or the reviewers.
FairSpec == Spec /\ WF_vars(StreamStep) /\ WF_vars(Tick)
-------------------------------------------------------------------------------
(* Properties *)

Calls == [by : Submissions, pause : Pauses, reply : {"none", "resumed", "error"}]
Reviews ==
  [pc : {"idle", "waiting", "accepted", "refused"}, pause : 0..MaxPauses, n : 0..MaxSubmits]
Streams ==
  [pc : {"head", "select", "done"},
   gate : [active : BOOLEAN, pause : 0..MaxPauses, safety : BOOLEAN]]

\* The types; the channels stay within their capacities.
TypeOK ==
  /\ sent_tokens \in 0..MaxTokens /\ sent_pauses \in 0..MaxPauses /\ running \in BOOLEAN
  /\ registry \subseteq Pauses /\ tracker \subseteq Pauses /\ calls \subseteq Calls
  /\ applied \in [Pauses -> Submissions \cup {NoReview}]
  /\ kind \in [Pauses -> {"safety", "other"}]
  /\ wire \in Seq(0..MaxPauses) /\ reading \in BOOLEAN
  /\ ready \in 0..EventCapacity /\ ready <= Len(wire)
  /\ forwarder \in {"read", "send", "register", "ended"} /\ received \in 0..MaxPauses
  /\ token_rx \in 0..TokenCapacity
  /\ pause_rx \in Seq(Pauses) /\ Len(pause_rx) <= PauseCapacity
  /\ review \in [Reviewers -> Reviews] /\ stream \in Streams
  /\ since_line \in 0..ReadTimeout
  /\ since_token \in 0..TokenClockEnd /\ since_pause \in 0..MaxPause

GateOn(p) == stream.gate.active /\ stream.gate.safety /\ stream.gate.pause = p

\* The gate of a safety pause goes down only with the stream, with a later pause,
\* after a review has resumed the worker ("tokens gated until review submitted"),
\* while the pause is on its way to the tracker, or because the pause has lasted
\* max_pause_duration in a server whose idle timeout is not shorter than that:
\* with the defaults (300 and 1800 seconds) a pause that expires ends the stream.
GateHolds ==
  [][\A p \in Pauses : GateOn(p) /\ ~GateOn(p)' =>
       \/ stream'.pc = "done" \/ stream'.gate.pause > p
       \/ applied[p] # NoReview
       \/ forwarder = "register" /\ received = p
       \/ ~Loading /\ since_pause >= MaxPause /\ IdleTimeout >= MaxPause]_vars

\* A submission that is answered as accepted is the one the worker resumed with,
\* so that of two reviewers at most one is told "Review accepted", however their
\* calls overlap, fail and are made again.
AcceptedIsApplied ==
  \A r \in Reviewers :
    review[r].pc = "accepted" => applied[review[r].pause] = <<r, review[r].n>>

\* The pause has been written and the forwarder has not taken it yet.
OnItsWay(p) == \E i \in 1..Len(wire) : wire[i] = p

\* A pause that the worker still waits on is reviewable from the moment the
\* forwarder has taken it until it is reviewed: failed and refused submissions
\* "keep pause in tracking for retry".  Before that it is on its way, unless the
\* reader or the forwarder has ended: then the event may be lost, and the worker
\* waits on a pause that no reviewer hears of.
ReviewableWhileWaiting ==
  \A p \in registry :
    \/ p \in tracker
    \/ forwarder \in {"send", "register"} /\ p = received
    \/ p > received /\ (OnItsWay(p) \/ ~reading \/ forwarder = "ended")


\* The last pause that was sent to the client.
LastSent == IF forwarder = "send" THEN received - 1 ELSE received

\* While the worker waits for the review of a pause that the client has seen, "the
\* stream remains open to allow resume [...] up to max_pause_duration".
PauseKeepsStreamOpen ==
  [][StreamStep /\ stream'.pc = "done" =>
       (LastSent - Len(pause_rx) \in registry => since_pause >= MaxPause)]_vars

\* The gate drops tokens only while the review is missing: "If the pause_id is still
\* in the tracker, the review has NOT been submitted."
DropsOnlyUnreviewed ==
  [][TakeToken /\ Gated => applied[stream.gate.pause] = NoReview]_vars

\* A submission that is answered as failed has not resumed the worker.
RefusedNotApplied ==
  \A r \in Reviewers :
    review[r].pc = "refused" => applied[review[r].pause] # <<r, review[r].n>>

\* A pause is forgotten "if inference completes or errors".
EndedNotTracked == forwarder = "ended" => tracker = {}
===============================================================================

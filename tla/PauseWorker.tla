----------------------------- MODULE PauseWorker ------------------------------
(***************************************************************************)
(* The worker's side of a pause: connections of the UDS server share one   *)
(* Worker behind a fair mutex (uds_server.rs).  An inference holds the     *)
(* mutex from its first to its last token, and while it is paused: it      *)
(* registers with InferencePauseRegistry and waits on a oneshot channel    *)
(* (lib.rs, inference_pause.rs).  The handler of a review takes the mutex  *)
(* to reach the registry.  The control plane submits a review, gives up    *)
(* after its timeout, and submits again.                                   *)
(***************************************************************************)
EXTENDS Naturals, Sequences, FiniteSets

CONSTANTS Requests,    \* inference requests
          Streaming,   \* the ones whose client reads a stream of events
          MaxReviews   \* bound: reviews submitted for a request

VARIABLES queue,      \* tasks that hold or wait for the mutex, the holder first
          request,    \* the inferences
          registry,   \* InferencePauseRegistry.paused, by request
          announced,  \* pauses the control plane has been told of
          waiting,    \* reviews whose submitter still waits
          reviews     \* reviews submitted for each request

vars == <<queue, request, registry, announced, waiting, reviews>>

Infer(r) == [task |-> "infer", of |-> r]
Resume(r) == [task |-> "resume", of |-> r]
Holds(t) == queue # <<>> /\ Head(queue) = t
InQueue(t) == \E i \in 1..Len(queue) : queue[i] = t

Init ==
  /\ queue = <<>> /\ registry = {} /\ announced = {} /\ waiting = {}
  /\ request = [r \in Requests |-> "new"]
  /\ reviews = [r \in Requests |-> 0]

\* A connection asks for an inference: its task queues up for the mutex.
Arrive(r) ==
  /\ request[r] = "new"
  /\ request' = [request EXCEPT ![r] = "running"]
  /\ queue' = Append(queue, Infer(r))
  /\ UNCHANGED <<registry, announced, waiting, reviews>>

\* A token triggers a review (one per request here): register, tell the client if it reads a stream,
\* and wait, with the mutex held.
Pause(r) ==
  /\ Holds(Infer(r)) /\ request[r] = "running" /\ reviews[r] = 0
  /\ request' = [request EXCEPT ![r] = "paused"]
  /\ registry' = registry \cup {r}
  /\ announced' = IF r \in Streaming THEN announced \cup {r} ELSE announced
  /\ UNCHANGED <<queue, waiting, reviews>>

\* The last token, or the flag of the cancel endpoint, which is read between two
\* tokens and not while the inference waits for a review.
Finish(r) ==
  /\ Holds(Infer(r)) /\ request[r] = "running"
  /\ request' = [request EXCEPT ![r] = "done"]
  /\ queue' = Tail(queue)
  /\ UNCHANGED <<registry, announced, waiting, reviews>>

\* A review arrives: its handler queues up for the mutex.
Submit(r) ==
  /\ r \in announced \ waiting /\ reviews[r] < MaxReviews
  /\ reviews' = [reviews EXCEPT ![r] = @ + 1]
  /\ queue' = Append(queue, Resume(r))
  /\ waiting' = waiting \cup {r}
  /\ UNCHANGED <<request, registry, announced>>

\* The submitter's timeout: its handler stays in the queue.
SubmitTimesOut(r) ==
  /\ r \in waiting
  /\ waiting' = waiting \ {r}
  /\ UNCHANGED <<queue, request, registry, announced, reviews>>

\* The handler has the mutex: submit_review takes the entry out and wakes the
\* inference; there is none when the pause has been answered.
Review(r) ==
  /\ Holds(Resume(r))
  /\ queue' = Tail(queue)
  /\ request' = IF r \in registry THEN [request EXCEPT ![r] = "running"] ELSE request
  /\ registry' = registry \ {r}
  /\ waiting' = waiting \ {r}
  /\ UNCHANGED <<announced, reviews>>

Next ==
  \E r \in Requests :
    \/ Arrive(r) \/ Pause(r) \/ Finish(r)
    \/ Submit(r) \/ SubmitTimesOut(r) \/ Review(r)

Spec == Init /\ [][Next]_vars

\* Inferences and handlers run, and a human reviews every pause that is known.
FairSpec ==
  Spec /\ \A r \in Requests :
            WF_vars(Finish(r)) /\ WF_vars(Review(r)) /\ WF_vars(Submit(r))
-------------------------------------------------------------------------------
(* Properties *)

\* The types; an inference is paused exactly while the registry knows it.
TypeOK ==
  /\ queue \in Seq([task : {"infer", "resume"}, of : Requests])
  /\ request \in [Requests -> {"new", "running", "paused", "done"}]
  /\ reviews \in [Requests -> 0..MaxReviews]
  /\ announced \subseteq Streaming /\ waiting \subseteq announced
  /\ registry = {r \in Requests : request[r] = "paused"}

\* "Human submits review via API. Registry resumes the paused inference with review
\* context": an inference whose pause was announced goes on.
ReviewResumes ==
  \A r \in Requests : (request[r] = "paused" /\ r \in announced) ~> (request[r] # "paused")
===============================================================================

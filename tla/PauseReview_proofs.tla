-------------------------- MODULE PauseReview_proofs --------------------------
(***************************************************************************)
(* The safety properties of reviews and of the review gate, for every      *)
(* number of reviewers, submissions, pauses and tokens and all timeouts.   *)
(*                                                                         *)
(* AcceptedIsApplied needs to know what calls under way carry: the answer  *)
(* "resumed" belongs to the submission that took the pause out of the      *)
(* worker's registry, where it never returns (ReviewInv).                  *)
(* ReviewableWhileWaiting needs that the pauses on the connection continue *)
(* those the forwarder has taken, in order and without a gap (WireInv).    *)
(* GateHolds needs the order of the pauses on their channel, that a pause  *)
(* only leaves the tracker after its review, and that an active pause is   *)
(* younger than the last token, so that a pause that is too long meets a   *)
(* stream that is idle unless the idle timeout is the longer of the two    *)
(* (StreamInv).                                                            *)
(***************************************************************************)
EXTENDS PauseReview, SequenceTheorems, TLAPS

Registering(p) == forwarder \in {"send", "register"} /\ p = received

\* Only pauses that were sent, and received, are known anywhere.
OnlySent ==
  /\ registry \subseteq 1..sent_pauses /\ tracker \subseteq 1..received
  /\ received <= sent_pauses
  /\ forwarder \in {"send", "register"} => received \in Pauses

\* What a call says of its reviewer and, once it is answered, of the worker.
CallsKnown ==
  \A c \in calls :
    /\ c.by[2] <= review[c.by[1]].n
    /\ c.by[2] = review[c.by[1]].n => review[c.by[1]].pause = c.pause
    /\ c.pause <= received
    /\ c.reply = "resumed" => applied[c.pause] = c.by /\ c.pause \notin registry

\* The pause of an accepted review is over.
AcceptedOver ==
  \A r \in Reviewers : review[r].pc = "accepted" =>
    review[r].pause \in 1..received /\ review[r].pause \notin registry

\* A pause leaves the tracker only after its review.
ForgottenReviewed ==
  \A p \in 1..received : p \in tracker \/ applied[p] # NoReview \/ Registering(p)

ReviewInv ==
  /\ OnlySent /\ CallsKnown /\ AcceptedOver /\ ForgottenReviewed
  /\ AcceptedIsApplied /\ ReviewableWhileWaiting

\* The pauses in w are n + 1, n + 2, ..., in that order.
Orderly(w, n) ==
  \A i \in 1..Len(w) : w[i] # 0 =>
    /\ n < w[i]
    /\ \A j \in 1..Len(w) : i < j /\ w[j] # 0 => w[i] < w[j]
    /\ \A q \in Nat : n < q /\ q < w[i] => \E j \in 1..i : w[j] = q

\* What the forwarder will take continues what it has taken.
WireInv ==
  forwarder # "ended" =>
    /\ Orderly(wire, received)
    /\ \A i \in 1..Len(wire) : wire[i] <= sent_pauses
    /\ reading => \A q \in (received + 1)..sent_pauses : OnItsWay(q)

\* The channel holds the last pauses, in order, and the gate an earlier one.
InOrder ==
  stream.pc # "done" =>
    /\ \A i \in 1..Len(pause_rx) : pause_rx[i] = LastSent - Len(pause_rx) + i
    /\ stream.gate.pause <= LastSent - Len(pause_rx)

\* An active pause began after the last token.
PauseYounger == stream.gate.active => since_pause <= since_token

StreamInv == InOrder /\ PauseYounger

IndInv == TypeOK /\ ReviewInv /\ WireInv /\ StreamInv

reviewVars == <<worker, calls, connection, forwarder, received, tracker, review>>
wireVars == <<connection, forwarder, received, sent_pauses>>

-------------------------------------------------------------------------------
(* Types *)

LEMMA RunningType == Running \in [active : BOOLEAN, pause : 0..MaxPauses, safety : BOOLEAN]
BY PauseAssumption DEF Running

\* The clock of the tokens reaches every limit.
LEMMA ClockEnd ==
  /\ TokenClockEnd \in Nat /\ MaxPause <= TokenClockEnd /\ IdleTimeout < TokenClockEnd
BY PauseAssumption DEF TokenClockEnd, Larger

\* Init establishes the invariant.
LEMMA InitInv == Init => IndInv
<1> SUFFICES ASSUME Init PROVE IndInv
  OBVIOUS
<1> USE PauseAssumption DEF Init
<1>1. review \in [Reviewers -> Reviews] /\ \A r \in Reviewers : review[r].pc = "idle"
  BY DEF Reviews
<1>2. stream \in Streams /\ stream.gate.pause = 0 /\ stream.gate.active = FALSE
  BY RunningType DEF Streams, Running
<1>3. applied \in [Pauses -> Submissions \cup {NoReview}] /\ kind \in [Pauses -> {"safety", "other"}]
  OBVIOUS
<1>4. /\ wire \in Seq(0..MaxPauses) /\ pause_rx \in Seq(Pauses) /\ Len(wire) = 0
      /\ Len(pause_rx) = 0 /\ TokenClockEnd \in Nat
  BY ClockEnd
<1>5. TypeOK
  BY <1>1, <1>2, <1>3, <1>4 DEF TypeOK
<1>6. ReviewInv
  BY <1>1 DEF ReviewInv, OnlySent, CallsKnown, AcceptedOver, ForgottenReviewed,
     AcceptedIsApplied, ReviewableWhileWaiting
<1>7. StreamInv
  BY <1>2, <1>4 DEF StreamInv, InOrder, LastSent, PauseYounger
<1>8. WireInv
  BY <1>4 DEF WireInv, Orderly
<1> QED BY <1>5, <1>6, <1>7, <1>8 DEF IndInv

-------------------------------------------------------------------------------
(* The connection *)

\* Writing a token or the next pause, taking the first event and losing the last
\* ones leave the pauses in order.
LEMMA AppendToken ==
  ASSUME NEW w \in Seq(Nat), NEW n \in Nat, Orderly(w, n)
  PROVE  Orderly(Append(w, 0), n)
<1>1. /\ Len(Append(w, 0)) = Len(w) + 1 /\ Append(w, 0)[Len(w) + 1] = 0 /\ Len(w) \in Nat
      /\ \A i \in 1..Len(w) : Append(w, 0)[i] = w[i]
  OBVIOUS
<1> DEFINE v == Append(w, 0)
<1> HIDE DEF v
<1>2. /\ Len(v) = Len(w) + 1 /\ v[Len(w) + 1] = 0 /\ \A i \in 1..Len(w) : v[i] = w[i]
  BY <1>1 DEF v
<1>3. SUFFICES ASSUME NEW i \in 1..Len(v), v[i] # 0
      PROVE /\ n < v[i]
            /\ \A j \in 1..Len(v) : i < j /\ v[j] # 0 => v[i] < v[j]
            /\ \A q \in Nat : n < q /\ q < v[i] => \E j \in 1..i : v[j] = q
  BY DEF Orderly, v
<1>4. i \in 1..Len(w) /\ v[i] = w[i]
  BY <1>1, <1>2, <1>3
<1>5. n < v[i]
  BY <1>3, <1>4 DEF Orderly
<1>6. ASSUME NEW j \in 1..Len(v), i < j, v[j] # 0 PROVE v[i] < v[j]
  <2>1. j \in 1..Len(w) /\ v[j] = w[j]
    BY <1>1, <1>2, <1>6
  <2> QED BY <1>3, <1>4, <1>6, <2>1 DEF Orderly
<1>7. ASSUME NEW q \in Nat, n < q, q < v[i] PROVE \E j \in 1..i : v[j] = q
  <2>1. PICK j \in 1..i : w[j] = q
    BY <1>3, <1>4, <1>7 DEF Orderly
  <2>2. j \in 1..Len(w)
    BY <1>1, <1>4, <2>1
  <2> QED BY <1>2, <2>1, <2>2
<1> QED BY <1>5, <1>6, <1>7

LEMMA AppendPause ==
  ASSUME NEW w \in Seq(Nat), NEW n \in Nat, NEW m \in Nat, Orderly(w, n), n <= m,
         \A i \in 1..Len(w) : w[i] <= m,
         \A q \in (n + 1)..m : \E i \in 1..Len(w) : w[i] = q
  PROVE  Orderly(Append(w, m + 1), n)
<1> DEFINE v == Append(w, m + 1)
<1>1. /\ Len(v) = Len(w) + 1 /\ v[Len(w) + 1] = m + 1 /\ Len(w) \in Nat
      /\ \A i \in 1..Len(w) : v[i] = w[i] /\ w[i] \in Nat
  OBVIOUS
<1> HIDE DEF v
<1>2. SUFFICES ASSUME NEW i \in 1..Len(v), v[i] # 0
      PROVE /\ n < v[i]
            /\ \A j \in 1..Len(v) : i < j /\ v[j] # 0 => v[i] < v[j]
            /\ \A q \in Nat : n < q /\ q < v[i] => \E j \in 1..i : v[j] = q
  BY DEF Orderly, v
<1>3. CASE i \in 1..Len(w)
  <2>3. v[i] = w[i] /\ w[i] # 0 /\ w[i] <= m /\ w[i] \in Nat
    BY <1>1, <1>2, <1>3
  <2>4. n < v[i]
    BY <1>3, <2>3 DEF Orderly
  <2>1. ASSUME NEW q \in Nat, n < q, q < v[i] PROVE \E j \in 1..i : v[j] = q
    <3>1. PICK j \in 1..i : w[j] = q
      BY <1>3, <2>1, <2>3 DEF Orderly
    <3>2. j \in 1..Len(w)
      BY <1>1, <1>3, <3>1
    <3> QED BY <1>1, <3>1, <3>2
  <2>2. ASSUME NEW j \in 1..Len(v), i < j, v[j] # 0 PROVE v[i] < v[j]
    <3>1. CASE j \in 1..Len(w)
      BY <1>1, <1>2, <1>3, <2>2, <3>1 DEF Orderly
    <3>2. CASE j = Len(w) + 1
      BY <1>1, <2>3, <3>2
    <3> QED BY <1>1, <3>1, <3>2
  <2> QED BY <2>1, <2>2, <2>4
<1>4. CASE i = Len(w) + 1
  <2>1. ASSUME NEW q \in Nat, n < q, q < v[i] PROVE \E j \in 1..i : v[j] = q
    <3>1. q \in (n + 1)..m
      BY <1>1, <1>4, <2>1
    <3>2. PICK j \in 1..Len(w) : w[j] = q
      BY <3>1
    <3> QED BY <1>1, <1>4, <3>2
  <2> QED BY <1>1, <1>4, <2>1
<1> QED BY <1>1, <1>3, <1>4

LEMMA TailFacts ==
  ASSUME NEW S, NEW w \in Seq(S), w # <<>>
  PROVE  /\ Tail(w) \in Seq(S) /\ Head(w) = w[1] /\ Head(w) \in S
         /\ Len(w) \in Nat \ {0} /\ Len(Tail(w)) = Len(w) - 1
         /\ \A i \in 1..Len(Tail(w)) : Tail(w)[i] = w[i + 1]
OBVIOUS

LEMMA TakeToken1 ==
  ASSUME NEW w \in Seq(Nat), NEW n \in Nat, Orderly(w, n), w # <<>>, Head(w) = 0
  PROVE  Orderly(Tail(w), n)
<1> DEFINE v == Tail(w)
<1>1. /\ v \in Seq(Nat) /\ w[1] = 0 /\ Len(w) \in Nat \ {0} /\ Len(v) = Len(w) - 1
      /\ \A i \in 1..Len(v) : v[i] = w[i + 1]
  BY TailFacts
<1> HIDE DEF v
<1>2. SUFFICES ASSUME NEW i \in 1..Len(v), v[i] # 0
      PROVE /\ n < v[i]
            /\ \A j \in 1..Len(v) : i < j /\ v[j] # 0 => v[i] < v[j]
            /\ \A q \in Nat : n < q /\ q < v[i] => \E j \in 1..i : v[j] = q
  BY DEF Orderly, v
<1>3. i + 1 \in 1..Len(w) /\ w[i + 1] = v[i]
  BY <1>1
<1>4. n < v[i]
  BY <1>2, <1>3 DEF Orderly
<1>5. ASSUME NEW j \in 1..Len(v), i < j, v[j] # 0 PROVE v[i] < v[j]
  <2>1. j + 1 \in 1..Len(w) /\ w[j + 1] = v[j] /\ i + 1 < j + 1
    BY <1>1, <1>5
  <2> QED BY <1>2, <1>3, <1>5, <2>1 DEF Orderly
<1>6. ASSUME NEW q \in Nat, n < q, q < v[i] PROVE \E j \in 1..i : v[j] = q
  <2>1. PICK j \in 1..(i + 1) : w[j] = q
    BY <1>2, <1>3, <1>6 DEF Orderly
  <2>2. j # 1
    BY <1>1, <1>6, <2>1
  <2>3. j - 1 \in 1..i /\ j - 1 \in 1..Len(v) /\ v[j - 1] = w[j]
    BY <1>1, <2>1, <2>2
  <2> QED BY <2>1, <2>3
<1> QED BY <1>4, <1>5, <1>6

LEMMA TakePause1 ==
  ASSUME NEW w \in Seq(Nat), NEW n \in Nat, Orderly(w, n), w # <<>>, Head(w) # 0
  PROVE  Head(w) = n + 1 /\ Orderly(Tail(w), n + 1)
<1> DEFINE v == Tail(w)
<1>1. /\ v \in Seq(Nat) /\ w[1] # 0 /\ Len(w) \in Nat \ {0} /\ Len(v) = Len(w) - 1
      /\ \A i \in 1..Len(v) : v[i] = w[i + 1]
      /\ Head(w) = w[1] /\ w[1] \in Nat
  BY TailFacts
<1> HIDE DEF v
<1>2. w[1] = n + 1
  <2>1. n < w[1] /\ \A q \in Nat : n < q /\ q < w[1] => \E j \in 1..1 : w[j] = q
    BY <1>1 DEF Orderly
  <2>2. CASE n + 1 < w[1]
    <3>1. PICK j \in 1..1 : w[j] = n + 1
      BY <2>1, <2>2
    <3> QED BY <1>1, <2>2, <3>1
  <2> QED BY <1>1, <2>1, <2>2
<1>3. SUFFICES ASSUME NEW i \in 1..Len(v), v[i] # 0
      PROVE /\ n + 1 < v[i]
            /\ \A j \in 1..Len(v) : i < j /\ v[j] # 0 => v[i] < v[j]
            /\ \A q \in Nat : n + 1 < q /\ q < v[i] => \E j \in 1..i : v[j] = q
  BY <1>1, <1>2 DEF Orderly, v
<1>4. i + 1 \in 1..Len(w) /\ w[i + 1] = v[i] /\ 1 \in 1..Len(w) /\ 1 < i + 1
  BY <1>1
<1>5. n + 1 < v[i]
  BY <1>1, <1>2, <1>3, <1>4 DEF Orderly
<1>6. ASSUME NEW j \in 1..Len(v), i < j, v[j] # 0 PROVE v[i] < v[j]
  <2>1. j + 1 \in 1..Len(w) /\ w[j + 1] = v[j] /\ i + 1 < j + 1
    BY <1>1, <1>6
  <2> QED BY <1>3, <1>4, <1>6, <2>1 DEF Orderly
<1>7. ASSUME NEW q \in Nat, n + 1 < q, q < v[i] PROVE \E j \in 1..i : v[j] = q
  <2>1. PICK j \in 1..(i + 1) : w[j] = q
    BY <1>3, <1>4, <1>7 DEF Orderly
  <2>2. j # 1
    BY <1>2, <1>7, <2>1
  <2>4. i \in 1..Len(v) /\ Len(v) \in Nat
    BY <1>1
  <2>5. j - 1 \in 1..i /\ j - 1 \in 1..Len(v) /\ (j - 1) + 1 = j
    BY <2>1, <2>2, <2>4
  <2>3. j - 1 \in 1..i /\ v[j - 1] = w[j]
    BY <1>1, <2>5
  <2> QED BY <2>1, <2>3
<1> QED BY <1>5, <1>6, <1>7

LEMMA LoseLast ==
  ASSUME NEW S, NEW w \in Seq(S), NEW k \in 0..Len(w)
  PROVE  /\ SubSeq(w, 1, k) \in Seq(S) /\ Len(SubSeq(w, 1, k)) = k
         /\ \A i \in 1..k : SubSeq(w, 1, k)[i] = w[i]
         /\ \A n \in Nat : Orderly(w, n) => Orderly(SubSeq(w, 1, k), n)
<1> DEFINE v == SubSeq(w, 1, k)
<1>1. v \in Seq(S) /\ Len(v) = k /\ \A i \in 1..k : v[i] = w[i]
  OBVIOUS
<1> HIDE DEF v
<1>2. ASSUME NEW n \in Nat, Orderly(w, n) PROVE Orderly(v, n)
  BY <1>1, <1>2 DEF Orderly
<1> QED BY <1>1, <1>2 DEF v

\* The wire is left alone.
LEMMA WireKept == ASSUME IndInv, UNCHANGED wireVars PROVE WireInv'
BY DEF wireVars, connection, IndInv, WireInv, OnItsWay

-------------------------------------------------------------------------------
(* The worker and the reader *)

\* The reviews are left alone by a step that only writes or reads events.
LEMMA WorkerTokenInv == ASSUME IndInv, WorkerToken PROVE IndInv'
<1>1. /\ UNCHANGED <<sent_pauses, running, registry, applied, kind, calls, ready, reading,
                     forwarder, received, token_rx, pause_rx, tracker, review, stream, clocks>>
      /\ wire' = IF reading THEN Append(wire, 0) ELSE wire
  BY DEF WorkerToken, Write
<1>2. sent_tokens' \in 0..MaxTokens
  BY PauseAssumption DEF WorkerToken, IndInv, TypeOK
<1>3. wire \in Seq(0..MaxPauses) /\ wire \in Seq(Nat) /\ received \in Nat /\ Len(wire) \in Nat
  BY PauseAssumption DEF IndInv, TypeOK
<1>4. /\ wire' \in Seq(0..MaxPauses) /\ Len(wire') >= Len(wire)
      /\ \A i \in 1..Len(wire) : wire'[i] = wire[i]
      /\ \A i \in 1..Len(wire') : i \in 1..Len(wire) \/ wire'[i] = 0
  <2>1. CASE wire' = wire
    BY <1>3, <2>1
  <2>2. CASE wire' = Append(wire, 0)
    BY <1>3, <2>2, PauseAssumption
  <2> QED BY <1>1, <2>1, <2>2
<1>5. TypeOK'
  <2>1. ready' \in 0..EventCapacity /\ ready' <= Len(wire')
    BY <1>1, <1>3, <1>4, PauseAssumption DEF IndInv, TypeOK
  <2> QED BY <1>1, <1>2, <1>4, <2>1 DEF clocks, IndInv, TypeOK
<1>6. \A p : OnItsWay(p) => OnItsWay(p)'
  BY <1>3, <1>4 DEF OnItsWay
<1>7. ReviewInv'
  BY <1>1, <1>6 DEF IndInv, ReviewInv, OnlySent, CallsKnown, AcceptedOver, ForgottenReviewed,
     AcceptedIsApplied, ReviewableWhileWaiting, Registering
<1>8. WireInv'
  <2>1. SUFFICES ASSUME forwarder # "ended" PROVE WireInv'
    BY <1>1 DEF WireInv
  <2>2. Orderly(wire', received)
    BY <1>1, <1>3, <2>1, AppendToken DEF IndInv, WireInv
  <2>3. \A i \in 1..Len(wire') : wire'[i] <= sent_pauses
    BY <1>4, <2>1, PauseAssumption DEF IndInv, WireInv, TypeOK
  <2> QED BY <1>1, <1>6, <2>1, <2>2, <2>3 DEF IndInv, WireInv
<1>9. StreamInv'
  BY <1>1 DEF clocks, IndInv, StreamInv, InOrder, LastSent, PauseYounger
<1> QED BY <1>5, <1>7, <1>8, <1>9 DEF IndInv

LEMMA WorkerPauseInv ==
  ASSUME IndInv, NEW k \in {"safety", "other"}, WorkerPause(k) PROVE IndInv'
<1>1. /\ UNCHANGED <<sent_tokens, running, applied, calls, ready, reading, forwarder, received,
                     token_rx, pause_rx, tracker, review, stream, clocks>>
      /\ sent_pauses' = sent_pauses + 1 /\ registry' = registry \cup {sent_pauses + 1}
      /\ kind' = [kind EXCEPT ![sent_pauses + 1] = k]
      /\ wire' = IF reading THEN Append(wire, sent_pauses + 1) ELSE wire
  BY DEF WorkerPause, Write
<1>2. /\ sent_pauses \in Nat /\ sent_pauses + 1 \in Pauses /\ sent_pauses' \in 0..MaxPauses
      /\ received \in Nat /\ received <= sent_pauses
  BY <1>1, PauseAssumption DEF WorkerPause, IndInv, TypeOK, Pauses, ReviewInv, OnlySent
<1>3. wire \in Seq(0..MaxPauses) /\ wire \in Seq(Nat) /\ Len(wire) \in Nat
  BY PauseAssumption DEF IndInv, TypeOK
<1>4. /\ wire' \in Seq(0..MaxPauses) /\ Len(wire') >= Len(wire)
      /\ \A i \in 1..Len(wire) : wire'[i] = wire[i]
      /\ \A i \in 1..Len(wire') : i \in 1..Len(wire) \/ wire'[i] = sent_pauses + 1
      /\ reading => \E i \in 1..Len(wire') : wire'[i] = sent_pauses + 1
  <2>1. CASE wire' = wire /\ ~reading
    BY <1>3, <2>1
  <2>2. CASE wire' = Append(wire, sent_pauses + 1)
    <3>1. sent_pauses + 1 \in 0..MaxPauses
      BY <1>2, PauseAssumption DEF Pauses
    <3>2. /\ wire' \in Seq(0..MaxPauses) /\ Len(wire') = Len(wire) + 1
          /\ wire'[Len(wire) + 1] = sent_pauses + 1
          /\ \A i \in 1..Len(wire) : wire'[i] = wire[i]
      BY <1>3, <2>2, <3>1
    <3> QED BY <1>3, <3>2
  <2> QED BY <1>1, <2>1, <2>2
<1>5. TypeOK'
  <2>1. ready' \in 0..EventCapacity /\ ready' <= Len(wire')
    BY <1>1, <1>3, <1>4, PauseAssumption DEF IndInv, TypeOK
  <2> QED BY <1>1, <1>2, <1>4, <2>1 DEF clocks, IndInv, TypeOK
<1>6. /\ \A p : OnItsWay(p) => OnItsWay(p)'
      /\ reading => \A p : p = sent_pauses + 1 => OnItsWay(p)'
  BY <1>3, <1>4 DEF OnItsWay
<1>7. ReviewInv'
  <2>1. OnlySent'
    BY <1>1, <1>2 DEF IndInv, ReviewInv, OnlySent
  <2>2. AcceptedIsApplied' /\ ForgottenReviewed'
    BY <1>1 DEF IndInv, ReviewInv, AcceptedIsApplied, ForgottenReviewed, Registering
  <2>3. CallsKnown'
    <3>1. \A c \in calls : c.pause \in Pauses
      BY DEF IndInv, TypeOK, Calls
    <3> QED BY <1>1, <1>2, <3>1 DEF IndInv, ReviewInv, CallsKnown, Pauses
  <2>4. AcceptedOver'
    BY <1>1, <1>2 DEF IndInv, ReviewInv, AcceptedOver
  <2>5. ReviewableWhileWaiting'
    <3>1. SUFFICES ASSUME NEW p \in registry'
          PROVE \/ p \in tracker'
                \/ forwarder' \in {"send", "register"} /\ p = received'
                \/ p > received' /\ (OnItsWay(p)' \/ ~reading' \/ forwarder' = "ended")
      BY DEF ReviewableWhileWaiting
    <3>2. CASE p = sent_pauses + 1
      BY <1>1, <1>2, <1>6, <3>2
    <3>3. CASE p \in registry
      BY <1>1, <1>6, <3>3 DEF IndInv, ReviewInv, ReviewableWhileWaiting
    <3> QED BY <1>1, <3>2, <3>3
  <2> QED BY <2>1, <2>2, <2>3, <2>4, <2>5 DEF ReviewInv
<1>8. WireInv'
  <2>1. SUFFICES ASSUME forwarder # "ended" PROVE WireInv'
    BY <1>1 DEF WireInv
  <2>2. /\ Orderly(wire, received) /\ \A i \in 1..Len(wire) : wire[i] <= sent_pauses
        /\ reading => \A q \in (received + 1)..sent_pauses : \E i \in 1..Len(wire) : wire[i] = q
    BY <2>1 DEF IndInv, WireInv, OnItsWay
  <2>3. Orderly(wire', received)
    BY <1>1, <1>2, <1>3, <2>2, AppendPause
  <2>4. \A i \in 1..Len(wire') : wire'[i] <= sent_pauses'
    BY <1>1, <1>2, <1>3, <1>4, <2>2, PauseAssumption
  <2>5. ASSUME reading, NEW q \in (received' + 1)..sent_pauses' PROVE OnItsWay(q)'
    <3>1. q = sent_pauses + 1 \/ q \in (received + 1)..sent_pauses
      BY <1>1, <1>2
    <3>2. CASE q \in (received + 1)..sent_pauses
      BY <1>6, <2>1, <2>5, <3>2 DEF IndInv, WireInv
    <3> QED BY <1>6, <2>5, <3>1, <3>2
  <2> QED BY <1>1, <2>3, <2>4, <2>5 DEF WireInv
<1>9. StreamInv'
  BY <1>1 DEF clocks, IndInv, StreamInv, InOrder, LastSent, PauseYounger
<1> QED BY <1>5, <1>7, <1>8, <1>9 DEF IndInv

LEMMA WorkerEndsInv == ASSUME IndInv, WorkerEnds PROVE IndInv'
<1>1. /\ UNCHANGED <<sent_tokens, sent_pauses, applied, kind, calls, connection, forwarder,
                     received, token_rx, pause_rx, tracker, review, stream, clocks>>
      /\ running' \in BOOLEAN /\ registry' = {}
  BY DEF WorkerEnds
<1>2. TypeOK'
  BY <1>1 DEF clocks, connection, IndInv, TypeOK
<1>3. ReviewInv'
  BY <1>1 DEF IndInv, ReviewInv, OnlySent, CallsKnown, AcceptedOver, ForgottenReviewed,
     AcceptedIsApplied, ReviewableWhileWaiting, Registering
<1>4. StreamInv'
  BY <1>1 DEF clocks, IndInv, StreamInv, InOrder, LastSent, PauseYounger
<1>5. WireInv'
  BY <1>1, WireKept DEF wireVars
<1> QED BY <1>2, <1>3, <1>4, <1>5 DEF IndInv

LEMMA ReaderInv == ASSUME IndInv, ReadEvent \/ ReaderStops PROVE IndInv'
<1>1. UNCHANGED <<worker, calls, forwarder, received, token_rx, pause_rx, tracker, review, stream,
                  since_token, since_pause>>
  BY DEF ReadEvent, ReaderStops, NoOtherChange
<1>2. /\ wire \in Seq(0..MaxPauses) /\ wire \in Seq(Nat) /\ Len(wire) \in Nat
      /\ ready \in 0..EventCapacity /\ ready \in 0..Len(wire) /\ received \in Nat
  BY PauseAssumption DEF IndInv, TypeOK
<1>3. since_line' \in 0..ReadTimeout /\ reading' \in BOOLEAN
  <2>1. since_line \in 0..ReadTimeout /\ 0 \in 0..ReadTimeout
    BY PauseAssumption DEF IndInv, TypeOK
  <2>2. since_line' = since_line \/ since_line' = 0
    BY DEF ReadEvent, ReaderStops
  <2>3. reading' = reading \/ reading' = FALSE
    BY DEF ReadEvent, ReaderStops, Stop
  <2> QED BY <2>1, <2>2, <2>3 DEF IndInv, TypeOK
<1>4. \/ /\ wire' = wire /\ reading' = reading
         /\ ready' \in 0..EventCapacity /\ ready' <= Len(wire)
      \/ /\ reading' = FALSE /\ ready' = ready /\ wire' = SubSeq(wire, 1, ready)
  BY <1>2, PauseAssumption DEF ReadEvent, ReaderStops, Stop
<1>5. CASE wire' = wire /\ reading' = reading /\ ready' \in 0..EventCapacity /\ ready' <= Len(wire)
  <2>1. TypeOK'
    BY <1>1, <1>3, <1>5 DEF worker, IndInv, TypeOK
  <2>2. WireInv'
    BY <1>1, <1>5 DEF worker, IndInv, WireInv, OnItsWay
  <2>3. ReviewInv'
    BY <1>1, <1>5 DEF worker, IndInv, ReviewInv, OnlySent, CallsKnown, AcceptedOver,
       ForgottenReviewed, AcceptedIsApplied, ReviewableWhileWaiting, Registering, OnItsWay
  <2>4. StreamInv'
    BY <1>1 DEF IndInv, StreamInv, InOrder, LastSent, PauseYounger
  <2> QED BY <2>1, <2>2, <2>3, <2>4 DEF IndInv
<1>6. ASSUME reading' = FALSE, wire' \in Seq(0..MaxPauses), ready' \in 0..EventCapacity,
             ready' <= Len(wire'), WireInv'
      PROVE  IndInv'
  <2>1. TypeOK'
    BY <1>1, <1>3, <1>6 DEF worker, IndInv, TypeOK
  <2>2. ReviewInv'
    BY <1>1, <1>6 DEF worker, IndInv, ReviewInv, OnlySent, CallsKnown, AcceptedOver,
       ForgottenReviewed, AcceptedIsApplied, ReviewableWhileWaiting, Registering
  <2>3. StreamInv'
    BY <1>1 DEF IndInv, StreamInv, InOrder, LastSent, PauseYounger
  <2> QED BY <1>6, <2>1, <2>2, <2>3 DEF IndInv
<1>7. CASE reading' = FALSE /\ ready' = ready /\ wire' = SubSeq(wire, 1, ready)
  <2>1. /\ wire' \in Seq(0..MaxPauses) /\ Len(wire') = ready
        /\ \A i \in 1..ready : wire'[i] = wire[i]
        /\ Orderly(wire, received) => Orderly(wire', received)
    BY <1>2, <1>7, LoseLast
  <2>2. WireInv'
    BY <1>1, <1>2, <1>7, <2>1 DEF worker, IndInv, WireInv
  <2>3. ready' \in 0..EventCapacity /\ ready' <= Len(wire')
    BY <1>2, <1>7, <2>1, PauseAssumption
  <2> QED BY <1>6, <1>7, <2>1, <2>2, <2>3
<1> QED BY <1>4, <1>5, <1>7

-------------------------------------------------------------------------------
(* The forwarder *)

LEMMA ForwardTokenInv == ASSUME IndInv, ForwardToken PROVE IndInv'
<1>1. /\ UNCHANGED <<worker, calls, reading, received, pause_rx, tracker, review, stream, clocks>>
      /\ forwarder = "read" /\ ready > 0 /\ Head(wire) = 0
      /\ \/ /\ forwarder' = "ended" /\ wire' = SubSeq(wire, ready + 1, Len(wire))
            /\ ready' = 0 /\ token_rx' = token_rx
         \/ /\ forwarder' = "read" /\ wire' = Tail(wire) /\ ready' = ready - 1
            /\ token_rx < TokenCapacity /\ token_rx' = token_rx + 1
  BY DEF ForwardToken, GiveUp, Take
<1>2. /\ wire \in Seq(0..MaxPauses) /\ wire \in Seq(Nat) /\ Len(wire) \in Nat \ {0}
      /\ ready \in 1..EventCapacity /\ ready \in 1..Len(wire) /\ received \in Nat
  BY <1>1, PauseAssumption DEF IndInv, TypeOK
<1>3. StreamInv'
  BY <1>1 DEF worker, clocks, IndInv, StreamInv, InOrder, LastSent, PauseYounger
<1>4. CASE forwarder' = "ended" /\ wire' = SubSeq(wire, ready + 1, Len(wire)) /\ ready' = 0
           /\ token_rx' = token_rx
  <2>1. wire' \in Seq(0..MaxPauses) /\ Len(wire') \in Nat
    <3>1. /\ ready + 1 \in Int /\ Len(wire) \in Int
          /\ \A i \in (ready + 1)..Len(wire) : wire[i] \in 0..MaxPauses
      <4>1. \A i \in 1..Len(wire) : wire[i] \in 0..MaxPauses
        BY <1>2, LenProperties
      <4>2. ready + 1 \in Int /\ Len(wire) \in Int /\ (ready + 1)..Len(wire) \subseteq 1..Len(wire)
        BY <1>2
      <4> QED BY <4>1, <4>2
    <3>2. SubSeq(wire, ready + 1, Len(wire)) \in Seq(0..MaxPauses)
      BY <3>1, SubSeqProperties
    <3> QED BY <1>4, <3>2
  <2>2. TypeOK'
    BY <1>1, <1>4, <2>1, PauseAssumption DEF worker, clocks, IndInv, TypeOK
  <2>3. ReviewInv'
    BY <1>1, <1>4 DEF worker, IndInv, ReviewInv, OnlySent, CallsKnown, AcceptedOver,
       ForgottenReviewed, AcceptedIsApplied, ReviewableWhileWaiting, Registering
  <2>4. WireInv'
    BY <1>4 DEF WireInv
  <2> QED BY <1>3, <2>2, <2>3, <2>4 DEF IndInv
<1>5. CASE forwarder' = "read" /\ wire' = Tail(wire) /\ ready' = ready - 1
           /\ token_rx < TokenCapacity /\ token_rx' = token_rx + 1
  <2>1. /\ wire' \in Seq(0..MaxPauses) /\ wire[1] = 0 /\ Len(wire') = Len(wire) - 1
        /\ \A i \in 1..Len(wire') : wire'[i] = wire[i + 1]
    BY <1>1, <1>2, <1>5, TailFacts
  <2>2. TypeOK'
    <3>1. /\ ready' \in 0..EventCapacity /\ ready' <= Len(wire')
          /\ token_rx' \in 0..TokenCapacity
      BY <1>2, <1>5, <2>1, PauseAssumption DEF IndInv, TypeOK
    <3> QED BY <1>1, <1>5, <2>1, <3>1 DEF worker, clocks, IndInv, TypeOK
  <2>3. \A p \in Nat \ {0} : OnItsWay(p) => OnItsWay(p)'
    <3>1. SUFFICES ASSUME NEW p \in Nat \ {0}, NEW i \in 1..Len(wire), wire[i] = p
                   PROVE  OnItsWay(p)'
      BY DEF OnItsWay
    <3>2. i # 1
      BY <2>1, <3>1
    <3>3. i - 1 \in 1..Len(wire') /\ wire'[i - 1] = wire[i]
      BY <1>2, <2>1, <3>2
    <3> QED BY <3>1, <3>3 DEF OnItsWay
  <2>4. ReviewInv'
    <3>1. ReviewableWhileWaiting'
      <4>1. registry \subseteq Nat \ {0}
        BY DEF IndInv, TypeOK, Pauses
      <4> QED BY <1>1, <1>5, <2>3, <4>1 DEF worker, IndInv, ReviewInv, ReviewableWhileWaiting
    <3> QED BY <1>1, <1>5, <3>1 DEF worker, IndInv, ReviewInv, OnlySent, CallsKnown,
               AcceptedOver, ForgottenReviewed, AcceptedIsApplied, Registering
  <2>5. WireInv'
    <3>1. /\ Orderly(wire, received) /\ \A i \in 1..Len(wire) : wire[i] <= sent_pauses
          /\ reading => \A q \in (received + 1)..sent_pauses : OnItsWay(q)
      BY <1>1 DEF IndInv, WireInv
    <3>2. Orderly(wire', received)
      BY <1>1, <1>2, <1>5, <3>1, TakeToken1
    <3>3. \A i \in 1..Len(wire') : wire'[i] <= sent_pauses
      BY <1>2, <2>1, <3>1
    <3>4. (received + 1)..sent_pauses \subseteq Nat \ {0}
      BY <1>2 DEF IndInv, TypeOK
    <3> QED BY <1>1, <2>3, <3>1, <3>2, <3>3, <3>4 DEF worker, WireInv
  <2> QED BY <1>3, <2>2, <2>4, <2>5 DEF IndInv
<1> QED BY <1>1, <1>4, <1>5

LEMMA ReceivePauseInv == ASSUME IndInv, ReceivePause PROVE IndInv'
<1>1. /\ UNCHANGED <<worker, calls, reading, token_rx, pause_rx, tracker, review, stream, clocks>>
      /\ forwarder = "read" /\ ready > 0 /\ Head(wire) # 0
      /\ forwarder' = "send" /\ received' = Head(wire)
      /\ wire' = Tail(wire) /\ ready' = ready - 1
  BY DEF ReceivePause, Take
<1>2. /\ wire \in Seq(0..MaxPauses) /\ wire \in Seq(Nat) /\ Len(wire) \in Nat \ {0}
      /\ ready \in 1..EventCapacity /\ ready \in 1..Len(wire)
      /\ received \in Nat /\ sent_pauses \in Nat
  BY <1>1, PauseAssumption DEF IndInv, TypeOK
<1>3. /\ wire' \in Seq(0..MaxPauses) /\ Head(wire) = wire[1] /\ Len(wire') = Len(wire) - 1
      /\ wire[1] \in 0..MaxPauses
      /\ \A i \in 1..Len(wire') : wire'[i] = wire[i + 1]
  <2>1. wire # <<>>
    BY <1>2
  <2> QED BY <1>1, <1>2, <2>1, TailFacts
<1>4. /\ Orderly(wire, received) /\ \A i \in 1..Len(wire) : wire[i] <= sent_pauses
      /\ reading => \A q \in (received + 1)..sent_pauses : OnItsWay(q)
  BY <1>1 DEF IndInv, WireInv
<1>5. received' = received + 1 /\ wire[1] = received + 1 /\ Orderly(wire', received + 1)
  BY <1>1, <1>2, <1>3, <1>4, TakePause1
<1>6. received' \in Pauses /\ received' \in 0..MaxPauses /\ received' <= sent_pauses
  BY <1>2, <1>3, <1>4, <1>5, PauseAssumption DEF Pauses
<1>7. TypeOK'
  <2>1. ready' \in 0..EventCapacity /\ ready' <= Len(wire')
    BY <1>1, <1>2, <1>3, PauseAssumption
  <2> QED BY <1>1, <1>3, <1>6, <2>1 DEF worker, clocks, IndInv, TypeOK
<1>8. \A p \in Nat : p # received + 1 /\ OnItsWay(p) => OnItsWay(p)'
  <2>1. SUFFICES ASSUME NEW p \in Nat, p # received + 1, NEW i \in 1..Len(wire), wire[i] = p
                 PROVE  OnItsWay(p)'
    BY DEF OnItsWay
  <2>2. i # 1
    BY <1>5, <2>1
  <2>3. i - 1 \in 1..Len(wire') /\ wire'[i - 1] = wire[i]
    BY <1>2, <1>3, <2>2
  <2> QED BY <2>1, <2>3 DEF OnItsWay
<1>9. ReviewInv'
  <2>1. OnlySent'
    BY <1>1, <1>2, <1>5, <1>6 DEF worker, IndInv, ReviewInv, OnlySent
  <2>2. CallsKnown'
    <3>1. \A c \in calls : c.pause \in Nat
      BY DEF IndInv, TypeOK, Calls, Pauses
    <3> QED BY <1>1, <1>2, <1>5, <3>1 DEF worker, IndInv, ReviewInv, CallsKnown
  <2>3. AcceptedOver' /\ AcceptedIsApplied'
    <3>1. review' = review /\ registry' = registry /\ applied' = applied
      BY <1>1 DEF worker
    <3>2. 1..received \subseteq 1..received'
      BY <1>2, <1>5
    <3>3. AcceptedOver'
      BY <3>1, <3>2 DEF IndInv, ReviewInv, AcceptedOver
    <3>4. AcceptedIsApplied'
      BY <3>1 DEF IndInv, ReviewInv, AcceptedIsApplied
    <3> QED BY <3>3, <3>4
  <2>4. ForgottenReviewed'
    BY <1>1, <1>2, <1>5 DEF worker, IndInv, ReviewInv, ForgottenReviewed, Registering
  <2>5. ReviewableWhileWaiting'
    <3>1. registry \subseteq Nat
      BY DEF IndInv, TypeOK, Pauses
    <3> QED BY <1>1, <1>2, <1>5, <1>8, <3>1
            DEF worker, IndInv, ReviewInv, ReviewableWhileWaiting
  <2> QED BY <2>1, <2>2, <2>3, <2>4, <2>5 DEF ReviewInv
<1>10. WireInv'
  <2>1. \A i \in 1..Len(wire') : wire'[i] <= sent_pauses
    BY <1>2, <1>3, <1>4
  <2>2. reading => \A q \in (received' + 1)..sent_pauses : OnItsWay(q)'
    BY <1>2, <1>4, <1>5, <1>8
  <2> QED BY <1>1, <1>5, <2>1, <2>2 DEF worker, WireInv
<1>11. LastSent' = LastSent
  BY <1>1, <1>2, <1>5 DEF LastSent
<1>12. StreamInv'
  BY <1>1, <1>11 DEF clocks, IndInv, StreamInv, InOrder, PauseYounger
<1> QED BY <1>7, <1>9, <1>10, <1>12 DEF IndInv

LEMMA SendPauseInv == ASSUME IndInv, SendPause PROVE IndInv'
<1>1. /\ UNCHANGED <<worker, calls, connection, received, token_rx, tracker, review, stream, clocks>>
      /\ forwarder = "send" /\ forwarder' = "register"
      /\ stream.pc = "done" \/ Len(pause_rx) < PauseCapacity
      /\ pause_rx' = IF stream.pc = "done" THEN pause_rx ELSE Append(pause_rx, received)
  BY DEF SendPause
<1>2. /\ received \in Pauses /\ received \in Nat /\ received' = received
      /\ pause_rx \in Seq(Pauses) /\ Len(pause_rx) \in Nat
  BY <1>1, PauseAssumption DEF IndInv, ReviewInv, OnlySent, TypeOK, worker
<1>3. pause_rx' \in Seq(Pauses) /\ Len(pause_rx') <= PauseCapacity
  <2>1. CASE pause_rx' = pause_rx
    BY <2>1 DEF IndInv, TypeOK
  <2>2. CASE pause_rx' = Append(pause_rx, received) /\ Len(pause_rx) < PauseCapacity
    BY <1>2, <2>2, PauseAssumption
  <2> QED BY <1>1, <2>1, <2>2
<1>4. TypeOK'
  BY <1>1, <1>3 DEF worker, connection, clocks, IndInv, TypeOK
<1>5. ReviewInv'
  BY <1>1, <1>2 DEF worker, connection, IndInv, ReviewInv, OnlySent, CallsKnown, AcceptedOver,
     ForgottenReviewed, AcceptedIsApplied, ReviewableWhileWaiting, Registering, OnItsWay
<1>6. PauseYounger'
  BY <1>1 DEF clocks, IndInv, StreamInv, PauseYounger
<1>9. WireInv'
  BY <1>1 DEF worker, connection, IndInv, WireInv, OnItsWay
<1>7. CASE stream.pc = "done"
  BY <1>1, <1>4, <1>5, <1>6, <1>7, <1>9 DEF IndInv, StreamInv, InOrder
<1>8. CASE stream.pc # "done"
  <2>1. /\ Len(pause_rx') = Len(pause_rx) + 1
        /\ \A i \in 1..Len(pause_rx) : pause_rx'[i] = pause_rx[i]
        /\ pause_rx'[Len(pause_rx) + 1] = received
    BY <1>1, <1>2, <1>8
  <2>2. LastSent = received - 1 /\ LastSent' = received
    BY <1>1, <1>2 DEF LastSent
  <2>3. /\ \A i \in 1..Len(pause_rx) : pause_rx[i] = received - 1 - Len(pause_rx) + i
        /\ stream.gate.pause <= received - 1 - Len(pause_rx)
    BY <1>8, <2>2 DEF IndInv, StreamInv, InOrder
  <2>4. \A i \in 1..Len(pause_rx') : pause_rx'[i] = received - Len(pause_rx') + i
    <3>1. SUFFICES ASSUME NEW i \in 1..Len(pause_rx')
                   PROVE  pause_rx'[i] = received - Len(pause_rx') + i
      OBVIOUS
    <3>2. CASE i \in 1..Len(pause_rx)
      BY <1>2, <2>1, <2>3, <3>2
    <3>3. CASE i = Len(pause_rx) + 1
      BY <1>2, <2>1, <3>3
    <3> QED BY <1>2, <2>1, <3>2, <3>3
  <2>5. received - Len(pause_rx') = received - 1 - Len(pause_rx) /\ stream' = stream
    BY <1>1, <1>2, <2>1
  <2>6. InOrder'
    BY <2>2, <2>3, <2>4, <2>5 DEF InOrder
  <2> QED BY <1>4, <1>5, <1>6, <1>9, <2>6 DEF IndInv, StreamInv
<1> QED BY <1>7, <1>8

LEMMA RegisterPauseInv == ASSUME IndInv, RegisterPause PROVE IndInv'
<1>1. /\ UNCHANGED <<worker, calls, connection, received, token_rx, pause_rx, review, stream, clocks>>
      /\ forwarder = "register" /\ forwarder' = "read"
      /\ tracker' = tracker \cup {received}
  BY DEF RegisterPause
<1>2. received \in Pauses /\ received \in 1..received
  BY <1>1 DEF IndInv, ReviewInv, OnlySent, Pauses
<1>3. TypeOK'
  BY <1>1, <1>2 DEF worker, connection, clocks, IndInv, TypeOK
<1>4. ReviewInv'
  BY <1>1, <1>2 DEF worker, connection, IndInv, ReviewInv, OnlySent, CallsKnown, AcceptedOver,
     ForgottenReviewed, AcceptedIsApplied, ReviewableWhileWaiting, Registering, OnItsWay
<1>5. StreamInv'
  BY <1>1 DEF worker, clocks, IndInv, StreamInv, InOrder, LastSent, PauseYounger
<1>6. WireInv'
  BY <1>1 DEF worker, connection, IndInv, WireInv, OnItsWay
<1> QED BY <1>3, <1>4, <1>5, <1>6 DEF IndInv

LEMMA ForwarderEndsInv == ASSUME IndInv, ForwarderEnds PROVE IndInv'
<1>1. /\ UNCHANGED <<worker, calls, connection, received, token_rx, pause_rx, tracker, review,
                     stream, clocks>>
      /\ forwarder = "read" /\ forwarder' = "ended"
  BY DEF ForwarderEnds
<1>2. TypeOK'
  BY <1>1 DEF worker, connection, clocks, IndInv, TypeOK
<1>3. ReviewInv'
  BY <1>1 DEF worker, connection, IndInv, ReviewInv, OnlySent, CallsKnown, AcceptedOver,
     ForgottenReviewed, AcceptedIsApplied, ReviewableWhileWaiting, Registering
<1>4. StreamInv'
  BY <1>1 DEF worker, clocks, IndInv, StreamInv, InOrder, LastSent, PauseYounger
<1>5. WireInv'
  BY <1>1 DEF WireInv
<1> QED BY <1>2, <1>3, <1>4, <1>5 DEF IndInv

-------------------------------------------------------------------------------
(* Reviews *)

\* A call names its reviewer and its submission.
LEMMA CallParts ==
  ASSUME TypeOK, NEW c \in calls
  PROVE  /\ c \in Calls /\ c.by \in Submissions /\ c.pause \in Pauses
         /\ c.by[1] \in Reviewers /\ c.by[2] \in 1..MaxSubmits
         /\ c.by = <<c.by[1], c.by[2]>> /\ c.by # NoReview
<1>1. c \in Calls /\ c.by \in Submissions /\ c.pause \in Pauses
  BY DEF TypeOK, Calls
<1>2. c.by # NoReview
  BY <1>1, PauseAssumption DEF Submissions
<1> QED BY <1>1, <1>2 DEF Submissions

LEMMA SubmitInv ==
  ASSUME IndInv, NEW r \in Reviewers, NEW p \in Pauses, Submit(r, p) PROVE IndInv'
<1> DEFINE n == review[r].n + 1
           d == [by |-> <<r, n>>, pause |-> p, reply |-> "none"]
           s == [pc |-> "waiting", pause |-> p, n |-> n]
<1>1. /\ UNCHANGED <<worker, connection, forwarder, received, token_rx, pause_rx, tracker,
                     stream, clocks>>
      /\ review' = [review EXCEPT ![r] = s] /\ calls' = calls \cup {d}
      /\ review[r].n < MaxSubmits /\ p \in tracker
  BY DEF Submit
<1>2. review[r].n \in Nat /\ n \in 1..MaxSubmits
  BY <1>1, PauseAssumption DEF IndInv, TypeOK, Reviews
<1>3. s \in Reviews /\ d \in Calls
  BY <1>2, PauseAssumption DEF Reviews, Calls, Submissions, Pauses
<1>4. review' \in [Reviewers -> Reviews] /\ calls' \subseteq Calls
  BY <1>1, <1>3 DEF IndInv, TypeOK
<1>5. TypeOK'
  BY <1>1, <1>4 DEF worker, connection, clocks, IndInv, TypeOK
<1>6. /\ review'[r] = s /\ \A q \in Reviewers : q # r => review'[q] = review[q]
  BY <1>1 DEF IndInv, TypeOK
<1>7. CallsKnown'
  <2>1. SUFFICES ASSUME NEW c \in calls'
        PROVE /\ c.by[2] <= review'[c.by[1]].n
              /\ c.by[2] = review'[c.by[1]].n => review'[c.by[1]].pause = c.pause
              /\ c.pause <= received'
              /\ c.reply = "resumed" => applied'[c.pause] = c.by /\ c.pause \notin registry'
    BY DEF CallsKnown
  <2>2. CASE c = d
    <3>1. c.by[1] = r /\ c.by[2] = n /\ c.pause = p /\ c.reply = "none"
      BY <2>2
    <3>2. p <= received
      BY <1>1 DEF IndInv, ReviewInv, OnlySent
    <3> QED BY <1>1, <1>2, <1>6, <3>1, <3>2 DEF worker
  <2>3. CASE c \in calls
    <3>1. /\ c.by[2] <= review[c.by[1]].n
          /\ c.by[2] = review[c.by[1]].n => review[c.by[1]].pause = c.pause
          /\ c.pause <= received
          /\ c.reply = "resumed" => applied[c.pause] = c.by /\ c.pause \notin registry
      BY <2>3 DEF IndInv, ReviewInv, CallsKnown
    <3>2. c.by[1] \in Reviewers /\ c.by[2] \in Nat
      BY <2>3, CallParts, PauseAssumption DEF IndInv
    <3>3. CASE c.by[1] = r
      BY <1>1, <1>2, <1>6, <3>1, <3>2, <3>3 DEF worker
    <3>4. CASE c.by[1] # r
      BY <1>1, <1>6, <3>1, <3>2, <3>4 DEF worker
    <3> QED BY <3>3, <3>4
  <2> QED BY <1>1, <2>2, <2>3
<1>8. AcceptedOver' /\ AcceptedIsApplied'
  <2>1. review'[r].pc # "accepted"
    BY <1>6
  <2> HIDE DEF s, n, d
  <2> QED BY <1>1, <1>6, <2>1 DEF worker, IndInv, ReviewInv, AcceptedOver, AcceptedIsApplied
<1>9. OnlySent' /\ ForgottenReviewed' /\ ReviewableWhileWaiting'
  BY <1>1 DEF worker, IndInv, ReviewInv, OnlySent, ForgottenReviewed, ReviewableWhileWaiting,
     Registering, OnItsWay, connection
<1>10. StreamInv'
  BY <1>1 DEF worker, clocks, IndInv, StreamInv, InOrder, LastSent, PauseYounger
<1>11. WireInv'
  BY <1>1, WireKept DEF wireVars, worker
<1> QED BY <1>5, <1>7, <1>8, <1>9, <1>10, <1>11 DEF IndInv, ReviewInv

LEMMA WorkerReviewsInv ==
  ASSUME IndInv, NEW c \in calls, WorkerReviews(c) PROVE IndInv'
<1> DEFINE known == c.pause \in registry
           d == [c EXCEPT !.reply = IF known THEN "resumed" ELSE "error"]
<1>1. /\ UNCHANGED <<sent_tokens, sent_pauses, running, kind, connection, forwarder, received,
                     token_rx, pause_rx, tracker, review, stream, clocks>>
      /\ registry' = registry \ {c.pause}
      /\ applied' = IF known THEN [applied EXCEPT ![c.pause] = c.by] ELSE applied
      /\ calls' \subseteq calls \cup {d}
  BY DEF WorkerReviews
<1>2. /\ c \in Calls /\ c.by \in Submissions /\ c.pause \in Pauses
      /\ c.by[1] \in Reviewers /\ c.by # NoReview
  BY CallParts DEF IndInv
<1>3. /\ d \in Calls /\ d.by = c.by /\ d.pause = c.pause
      /\ d.reply = "resumed" => known
  BY <1>2 DEF Calls
<1>4. applied' \in [Pauses -> Submissions \cup {NoReview}]
  BY <1>1, <1>2 DEF IndInv, TypeOK
<1>5. TypeOK'
  BY <1>1, <1>3, <1>4 DEF connection, clocks, IndInv, TypeOK
<1>6. /\ \A p \in Pauses : p \notin registry => applied'[p] = applied[p]
      /\ known => applied'[c.pause] = c.by
      /\ \A p \in Pauses : applied[p] # NoReview => applied'[p] # NoReview
  BY <1>1, <1>2 DEF IndInv, TypeOK
<1> HIDE DEF d, known
<1>7. CallsKnown'
  <2>1. c.pause \notin registry'
    BY <1>1
  <2>2. \A e \in calls : e.pause \in Pauses
    BY CallParts DEF IndInv
  <2> QED BY <1>1, <1>3, <1>6, <2>1, <2>2 DEF IndInv, ReviewInv, CallsKnown
<1>8. AcceptedOver' /\ AcceptedIsApplied'
  <2>1. 1..received \subseteq Pauses
    BY PauseAssumption DEF IndInv, TypeOK, Pauses
  <2> QED BY <1>1, <1>6, <2>1 DEF IndInv, ReviewInv, AcceptedOver, AcceptedIsApplied
<1>9. OnlySent' /\ ForgottenReviewed' /\ ReviewableWhileWaiting'
  <2>1. 1..received \subseteq Pauses
    BY PauseAssumption DEF IndInv, TypeOK, Pauses
  <2> QED BY <1>1, <1>6, <2>1 DEF IndInv, ReviewInv, OnlySent, ForgottenReviewed,
             ReviewableWhileWaiting, Registering, OnItsWay, connection
<1>10. StreamInv'
  BY <1>1 DEF clocks, IndInv, StreamInv, InOrder, LastSent, PauseYounger
<1>11. WireInv'
  BY <1>1, WireKept DEF wireVars, worker
<1> QED BY <1>5, <1>7, <1>8, <1>9, <1>10, <1>11 DEF IndInv, ReviewInv

\* An answer is either an acceptance of a review that resumed the worker, which
\* ends the pause, or leaves the pause where it is.
LEMMA AnswerInv ==
  ASSUME IndInv, NEW c \in calls, Respond(c) \/ CallFails(c) PROVE IndInv'
<1> DEFINE r == c.by[1]
<1>1. PICK result \in {"accepted", "refused"}, tracked \in {tracker, tracker \ {c.pause}} :
        /\ Answer(c, result, tracked) /\ calls' \subseteq calls
        /\ \/ c.reply = "resumed"
           \/ result = "refused" /\ tracked = tracker
  BY DEF Respond, CallFails
<1>2. /\ UNCHANGED <<worker, connection, forwarder, received, token_rx, pause_rx, stream, clocks>>
      /\ review' = [review EXCEPT ![r].pc = result] /\ tracker' = tracked
      /\ review[r].n = c.by[2]
  BY <1>1 DEF Answer, Awaited
<1>3. r \in Reviewers /\ c.by = <<r, c.by[2]>> /\ c.by # NoReview /\ c.pause \in Pauses
  BY CallParts DEF IndInv
<1>4. /\ review' \in [Reviewers -> Reviews]
      /\ review'[r].pc = result /\ review'[r].n = review[r].n
      /\ review'[r].pause = review[r].pause
      /\ \A q \in Reviewers : q # r => review'[q] = review[q]
  BY <1>2, <1>3 DEF IndInv, TypeOK, Reviews
<1>5. TypeOK'
  BY <1>1, <1>2, <1>4 DEF worker, connection, clocks, IndInv, TypeOK
<1>6. /\ review[r].pause = c.pause /\ c.pause \in 1..received
      /\ c.reply = "resumed" => applied[c.pause] = c.by /\ c.pause \notin registry
  BY <1>2, <1>3 DEF IndInv, TypeOK, ReviewInv, CallsKnown, Pauses
<1> HIDE DEF r
<1>7. CallsKnown'
  <2>1. \A e \in calls : e.by[1] \in Reviewers
    BY CallParts DEF IndInv
  <2> QED BY <1>1, <1>2, <1>4, <2>1 DEF worker, IndInv, ReviewInv, CallsKnown
<1>8. AcceptedOver' /\ AcceptedIsApplied'
  <2>1. result = "accepted" => c.reply = "resumed"
    BY <1>1
  <2>2. SUFFICES ASSUME NEW q \in Reviewers, review'[q].pc = "accepted"
        PROVE /\ review'[q].pause \in 1..received /\ review'[q].pause \notin registry
              /\ applied[review'[q].pause] = <<q, review'[q].n>>
    BY <1>2 DEF worker, AcceptedOver, AcceptedIsApplied
  <2>3. CASE q = r
    BY <1>2, <1>3, <1>4, <1>6, <2>1, <2>2, <2>3
  <2>4. CASE q # r
    BY <1>4, <2>2, <2>4 DEF IndInv, ReviewInv, AcceptedOver, AcceptedIsApplied
  <2> QED BY <2>3, <2>4
<1>9. OnlySent' /\ ForgottenReviewed' /\ ReviewableWhileWaiting'
  BY <1>1, <1>2, <1>3, <1>6 DEF worker, IndInv, ReviewInv, OnlySent, ForgottenReviewed,
     ReviewableWhileWaiting, Registering, OnItsWay, connection
<1>10. StreamInv'
  BY <1>2 DEF worker, clocks, IndInv, StreamInv, InOrder, LastSent, PauseYounger
<1>11. WireInv'
  BY <1>2, WireKept DEF wireVars, worker
<1> QED BY <1>5, <1>7, <1>8, <1>9, <1>10, <1>11 DEF IndInv, ReviewInv

-------------------------------------------------------------------------------
(* The stream: its steps leave the reviews alone. *)

\* What the steps of the stream and of the clock have in common.
LEMMA ReviewInvKept ==
  ASSUME IndInv, UNCHANGED reviewVars PROVE ReviewInv'
BY DEF reviewVars, worker, IndInv, ReviewInv, OnlySent, CallsKnown, AcceptedOver,
   ForgottenReviewed, AcceptedIsApplied, ReviewableWhileWaiting, Registering, OnItsWay, connection

LEMMA StreamStepInv ==
  ASSUME IndInv, StreamOnly, token_rx' \in 0..TokenCapacity,
         pause_rx' \in Seq(Pauses), Len(pause_rx') <= PauseCapacity, stream' \in Streams,
         since_token' \in 0..TokenClockEnd, since_pause' \in 0..MaxPause, StreamInv'
  PROVE  IndInv'
<1>1. UNCHANGED reviewVars /\ UNCHANGED since_line
  BY DEF StreamOnly, reviewVars
<1>2. TypeOK'
  BY <1>1 DEF reviewVars, worker, connection, IndInv, TypeOK
<1>3. WireInv'
  BY <1>1, WireKept DEF reviewVars, wireVars, worker
<1> QED BY <1>1, <1>2, <1>3, ReviewInvKept DEF IndInv

\* A stream that ends.
LEMMA EndInv == ASSUME IndInv, StreamOnly, End PROVE IndInv'
<1>1. /\ stream' = [pc |-> "done", gate |-> Running] /\ token_rx' = 0 /\ pause_rx' = <<>>
      /\ since_token' = 0 /\ since_pause' = 0
  BY DEF End, Turn
<1>2. /\ token_rx' \in 0..TokenCapacity
      /\ pause_rx' \in Seq(Pauses) /\ Len(pause_rx') <= PauseCapacity
      /\ since_token' \in 0..TokenClockEnd /\ since_pause' \in 0..MaxPause
  BY <1>1, PauseAssumption, ClockEnd
<1>3. stream' \in Streams
  BY <1>1, RunningType DEF Streams
<1>4. StreamInv'
  BY <1>1 DEF StreamInv, InOrder, LastSent, PauseYounger, Running
<1> QED BY <1>2, <1>3, <1>4, StreamStepInv

\* A turn that keeps the gate or lifts it.
LEMMA TurnInv ==
  ASSUME IndInv, StreamOnly, stream.pc # "done", NEW pc \in {"head", "select"},
         NEW gate \in {stream.gate, Running}, Turn(pc, gate), UNCHANGED <<pause_rx, since_pause>>,
         token_rx' \in 0..TokenCapacity,
         since_token' = since_token \/ (since_token' = 0 /\ gate = Running)
  PROVE  IndInv'
<1>1. stream' \in Streams /\ stream'.gate = gate /\ stream'.pc # "done"
  BY RunningType DEF Turn, Streams, IndInv, TypeOK
<1>2. /\ pause_rx' \in Seq(Pauses) /\ Len(pause_rx') <= PauseCapacity
      /\ since_token' \in 0..TokenClockEnd /\ since_pause' \in 0..MaxPause
  BY PauseAssumption, ClockEnd DEF IndInv, TypeOK
<1>3. UNCHANGED LastSent
  BY DEF StreamOnly, worker, LastSent
<1>4. gate.pause <= LastSent - Len(pause_rx)
  <2>1. stream.gate.pause \in Nat /\ LastSent \in Int /\ Len(pause_rx) \in Nat
    BY PauseAssumption DEF IndInv, TypeOK, Streams, LastSent
  <2>2. stream.gate.pause <= LastSent - Len(pause_rx)
    BY DEF IndInv, StreamInv, InOrder
  <2> QED BY <2>1, <2>2 DEF Running
<1>5. InOrder'
  BY <1>1, <1>3, <1>4 DEF IndInv, StreamInv, InOrder
<1>6. PauseYounger'
  BY <1>1 DEF IndInv, StreamInv, PauseYounger, Running
<1> QED BY <1>1, <1>2, <1>5, <1>6, StreamStepInv DEF StreamInv

LEMMA TakePauseInv == ASSUME IndInv, TakePause PROVE IndInv'
<1> DEFINE p == Head(pause_rx)
           gate == [active |-> TRUE, pause |-> p, safety |-> kind[p] = "safety"]
<1>1. /\ StreamOnly /\ UNCHANGED <<token_rx, since_token>> /\ stream.pc # "done"
      /\ pause_rx # <<>> /\ pause_rx' = Tail(pause_rx) /\ since_pause' = 0
      /\ stream' = [pc |-> "head", gate |-> gate]
  BY DEF TakePause, Turn
<1>2. /\ pause_rx \in Seq(Pauses) /\ p \in Pauses /\ p = pause_rx[1]
      /\ Len(pause_rx) \in Nat \ {0}
      /\ pause_rx' \in Seq(Pauses) /\ Len(pause_rx') = Len(pause_rx) - 1
      /\ \A i \in 1..Len(pause_rx') : pause_rx'[i] = pause_rx[i + 1]
  BY <1>1 DEF IndInv, TypeOK
<1>3. stream' \in Streams
  <2>1. (kind[p] = "safety") \in BOOLEAN /\ p \in 0..MaxPauses
    BY <1>2, PauseAssumption DEF Pauses
  <2> QED BY <1>1, <2>1 DEF Streams
<1>4. UNCHANGED LastSent /\ LastSent \in Int
  BY <1>1, PauseAssumption DEF StreamOnly, worker, IndInv, TypeOK, LastSent
<1>5. \A i \in 1..Len(pause_rx) : pause_rx[i] = LastSent - Len(pause_rx) + i
  BY <1>1 DEF IndInv, StreamInv, InOrder
<1>6. p = LastSent - Len(pause_rx')
  BY <1>2, <1>4, <1>5
<1>7. \A i \in 1..Len(pause_rx') : pause_rx'[i] = LastSent - Len(pause_rx') + i
  BY <1>2, <1>4, <1>5
<1>8. InOrder'
  <2>1. stream'.gate.pause = p
    BY <1>1
  <2>2. LastSent - Len(pause_rx') <= LastSent - Len(pause_rx')
    BY <1>2, <1>4
  <2>3. /\ \A i \in 1..Len(pause_rx') : pause_rx'[i] = LastSent' - Len(pause_rx') + i
        /\ stream'.gate.pause <= LastSent' - Len(pause_rx')
    BY <1>4, <1>6, <1>7, <2>1, <2>2
  <2> QED BY <2>3 DEF InOrder
<1>9. /\ since_token \in 0..TokenClockEnd /\ token_rx \in 0..TokenCapacity
      /\ Len(pause_rx') <= PauseCapacity
  BY <1>2, PauseAssumption DEF IndInv, TypeOK
<1>10. PauseYounger' /\ since_pause' \in 0..MaxPause
  BY <1>1, <1>9, PauseAssumption, ClockEnd DEF PauseYounger
<1> QED BY <1>1, <1>2, <1>3, <1>8, <1>9, <1>10, StreamStepInv DEF StreamInv

LEMMA StreamNextInv == ASSUME IndInv, StreamStep \/ Disconnect PROVE IndInv'
<1>1. StreamOnly
  BY DEF StreamStep, Check, TakePause, TakeToken, TakeEnd, SendHeartbeat, Disconnect
<1>2. token_rx \in 0..TokenCapacity
  BY DEF IndInv, TypeOK
<1>3. CASE Check
  <2>1. CASE End
    BY <1>1, <2>1, EndInv
  <2>2. ASSUME NEW gate \in {stream.gate, Running}, Wait(gate) PROVE IndInv'
    <3>1. /\ stream.pc # "done" /\ Turn("select", gate)
          /\ UNCHANGED <<pause_rx, since_pause>> /\ token_rx' = token_rx
          /\ since_token' = since_token
      BY <1>3, <2>2 DEF Check, Wait
    <3> QED BY <1>1, <1>2, <3>1, TurnInv
  <2>3. Wait(stream.gate) \/ Wait(Running) \/ End
    BY <1>3 DEF Check
  <2> QED BY <2>1, <2>2, <2>3
<1>4. CASE TakePause
  BY <1>4, TakePauseInv
<1>5. CASE TakeToken
  <2>1. token_rx' \in 0..TokenCapacity
    BY <1>2, <1>5, PauseAssumption DEF TakeToken
  <2>2. stream.pc # "done" /\ UNCHANGED <<pause_rx, since_pause>>
    BY <1>5 DEF TakeToken
  <2>3. PICK gate \in {stream.gate, Running} :
          /\ Turn("head", gate)
          /\ since_token' = since_token \/ (since_token' = 0 /\ gate = Running)
    BY <1>5 DEF TakeToken
  <2> QED BY <1>1, <2>1, <2>2, <2>3, TurnInv
<1>6. CASE TakeEnd \/ Disconnect
  BY <1>1, <1>6, EndInv DEF TakeEnd, Disconnect
<1>7. CASE SendHeartbeat
  <2>1. /\ stream.pc # "done" /\ Turn("head", stream.gate)
        /\ UNCHANGED <<pause_rx, since_pause>> /\ token_rx' = token_rx
        /\ since_token' = since_token
    BY <1>7 DEF SendHeartbeat
  <2> QED BY <1>1, <1>2, <2>1, TurnInv
<1> QED BY <1>3, <1>4, <1>5, <1>6, <1>7 DEF StreamStep

LEMMA TickInv == ASSUME IndInv, Tick PROVE IndInv'
<1>1. UNCHANGED reviewVars /\ UNCHANGED <<worker, token_rx, pause_rx, stream>>
  BY DEF Tick, reviewVars
<1>2. /\ since_line \in 0..ReadTimeout /\ since_token \in 0..TokenClockEnd
      /\ since_pause \in 0..MaxPause
  BY DEF IndInv, TypeOK
<1>3. /\ since_line' \in 0..ReadTimeout /\ since_token' \in 0..TokenClockEnd
      /\ since_pause' \in 0..MaxPause
      /\ since_pause <= since_token => since_pause' <= since_token'
  BY <1>2, PauseAssumption, ClockEnd DEF Tick, Later
<1>4. TypeOK'
  BY <1>1, <1>3 DEF reviewVars, worker, connection, IndInv, TypeOK
<1>5. StreamInv'
  BY <1>1, <1>3 DEF reviewVars, worker, IndInv, StreamInv, InOrder, LastSent, PauseYounger
<1>6. WireInv'
  BY <1>1, WireKept DEF reviewVars, wireVars, worker
<1> QED BY <1>1, <1>4, <1>5, <1>6, ReviewInvKept DEF IndInv

-------------------------------------------------------------------------------
(* Theorems *)

\* Every step preserves the invariant.
LEMMA NextInv == IndInv /\ [Next]_vars => IndInv'
<1> SUFFICES ASSUME IndInv, [Next]_vars PROVE IndInv'
  OBVIOUS
<1>1. CASE \/ WorkerToken \/ WorkerEnds \/ ReadEvent \/ ReaderStops
           \/ ForwardToken \/ ReceivePause \/ SendPause \/ RegisterPause \/ ForwarderEnds
  BY <1>1, WorkerTokenInv, WorkerEndsInv, ReaderInv, ForwardTokenInv, ReceivePauseInv,
     SendPauseInv, RegisterPauseInv, ForwarderEndsInv
<1>2. ASSUME NEW k \in {"safety", "other"}, WorkerPause(k) PROVE IndInv'
  BY <1>2, WorkerPauseInv
<1>3. ASSUME NEW r \in Reviewers, NEW p \in Pauses, Submit(r, p) PROVE IndInv'
  BY <1>3, SubmitInv
<1>4. ASSUME NEW c \in calls, WorkerReviews(c) \/ Respond(c) \/ CallFails(c) PROVE IndInv'
  BY <1>4, WorkerReviewsInv, AnswerInv
<1>5. CASE Check \/ TakePause \/ TakeToken \/ TakeEnd \/ SendHeartbeat \/ Disconnect
  BY <1>5, StreamNextInv DEF StreamStep
<1>6. CASE Tick
  BY <1>6, TickInv
<1>7. CASE UNCHANGED vars
  <2>1. UNCHANGED reviewVars /\ TypeOK' /\ StreamInv'
    BY <1>7 DEF vars, reviewVars, worker, connection, clocks, IndInv, TypeOK, StreamInv, InOrder, LastSent,
       PauseYounger
  <2>2. WireInv'
    BY <2>1, WireKept DEF reviewVars, wireVars, worker
  <2> QED BY <2>1, <2>2, ReviewInvKept DEF IndInv
<1> QED BY <1>1, <1>2, <1>3, <1>4, <1>5, <1>6, <1>7 DEF Next

\* The types, what calls and the tracker know and the order of the pauses form an
\* inductive invariant.
THEOREM PauseInvariant == Spec => []IndInv
BY InitInv, NextInv, PTL DEF Spec

\* The state keeps its types, and the channels their capacities.
THEOREM PauseTypeOK == Spec => []TypeOK
<1>1. IndInv => TypeOK
  BY DEF IndInv
<1> QED BY <1>1, PauseInvariant, PTL

\* A review that is answered as accepted is the one the worker resumed with.
THEOREM PauseAcceptedIsApplied == Spec => []AcceptedIsApplied
<1>1. IndInv => AcceptedIsApplied
  BY DEF IndInv, ReviewInv
<1> QED BY <1>1, PauseInvariant, PTL

\* A pause that the worker waits on can be reviewed from the moment the forwarder
\* has taken its event, and the event is on its way until then unless the reader or
\* the forwarder has ended.
THEOREM PauseReviewableWhileWaiting == Spec => []ReviewableWhileWaiting
<1>1. IndInv => ReviewableWhileWaiting
  BY DEF IndInv, ReviewInv
<1> QED BY <1>1, PauseInvariant, PTL

\* What a step may do to a gate that is up, from the invariant.
LEMMA NextGate ==
  ASSUME IndInv, [Next]_vars, NEW p \in Pauses, GateOn(p), ~GateOn(p)'
  PROVE  \/ stream'.pc = "done" \/ stream'.gate.pause > p
         \/ applied[p] # NoReview
         \/ forwarder = "register" /\ received = p
         \/ ~Loading /\ since_pause >= MaxPause /\ IdleTimeout >= MaxPause
<1>1. stream.gate.active /\ stream.gate.safety /\ stream.gate.pause = p
  BY DEF GateOn
<1>2. stream'.gate # stream.gate
  BY DEF GateOn
<1>3. CASE Check
  <2>1. stream' = [pc |-> "done", gate |-> Running] \/ stream'.gate = stream.gate
        \/ (~Loading /\ since_pause >= MaxPause /\ ~(since_token > IdleTimeout))
    BY <1>1, <1>3, PauseAssumption DEF Check, Wait, End, Turn, IndInv, TypeOK
  <2>2. since_pause >= MaxPause /\ ~(since_token > IdleTimeout) => IdleTimeout >= MaxPause
    BY <1>1, PauseAssumption, ClockEnd DEF IndInv, TypeOK, StreamInv, PauseYounger
  <2> QED BY <1>2, <2>1, <2>2
<1>4. CASE TakePause
  <2>1. /\ stream.pc # "done" /\ pause_rx # <<>>
        /\ stream'.gate.pause = Head(pause_rx)
    BY <1>4 DEF TakePause, Turn
  <2>2. /\ Len(pause_rx) \in Nat \ {0} /\ Head(pause_rx) = pause_rx[1]
        /\ LastSent \in Int /\ p \in Nat
    BY <2>1, PauseAssumption DEF IndInv, TypeOK, Pauses, LastSent
  <2>3. /\ pause_rx[1] = LastSent - Len(pause_rx) + 1
        /\ p <= LastSent - Len(pause_rx)
    BY <1>1, <2>1, <2>2 DEF IndInv, StreamInv, InOrder
  <2> QED BY <2>1, <2>2, <2>3
<1>5. CASE TakeToken
  <2>1. p \notin tracker
    BY <1>1, <1>2, <1>5 DEF TakeToken, Turn, Gated
  <2>2. stream.pc # "done"
    BY <1>5 DEF TakeToken
  <2>3. p \in 1..received /\ (forwarder = "send" => p # received)
    <3>1. Len(pause_rx) \in Nat /\ received \in Nat /\ p \in Nat \ {0}
      BY PauseAssumption DEF IndInv, TypeOK, Pauses
    <3>2. p <= LastSent - Len(pause_rx)
      BY <1>1, <2>2 DEF IndInv, StreamInv, InOrder
    <3> QED BY <3>1, <3>2 DEF LastSent
  <2> QED BY <2>1, <2>3 DEF IndInv, ReviewInv, ForgottenReviewed, Registering
<1>6. CASE TakeEnd \/ Disconnect
  BY <1>6 DEF TakeEnd, Disconnect, End, Turn
<1>7. CASE SendHeartbeat
  BY <1>2, <1>7 DEF SendHeartbeat, Turn
<1>8. CASE \/ WorkerToken \/ WorkerEnds \/ ReadEvent \/ ReaderStops
           \/ ForwardToken \/ ReceivePause \/ SendPause \/ RegisterPause \/ ForwarderEnds \/ Tick
  BY <1>2, <1>8 DEF WorkerToken, WorkerEnds, ReadEvent, ReaderStops, NoOtherChange, ForwardToken,
     ReceivePause, SendPause, RegisterPause, ForwarderEnds, Tick
<1>9. ASSUME NEW k \in {"safety", "other"}, WorkerPause(k) PROVE FALSE
  BY <1>2, <1>9 DEF WorkerPause
<1>10. ASSUME NEW r \in Reviewers, NEW q \in Pauses, Submit(r, q) PROVE FALSE
  BY <1>2, <1>10 DEF Submit
<1>11. ASSUME NEW c \in calls, WorkerReviews(c) \/ Respond(c) \/ CallFails(c) PROVE FALSE
  BY <1>2, <1>11 DEF WorkerReviews, Respond, CallFails, Answer
<1>12. CASE UNCHANGED vars
  BY <1>2, <1>12 DEF vars
<1> QED BY <1>3, <1>4, <1>5, <1>6, <1>7, <1>8, <1>9, <1>10, <1>11, <1>12 DEF Next

\* The review gate of a safety pause goes down because of a timeout only in a server
\* whose idle timeout is not shorter than the longest pause, whatever the settings.
THEOREM PauseGateHolds == Spec => GateHolds
<1> DEFINE Holds ==
      \A p \in Pauses : GateOn(p) /\ ~GateOn(p)' =>
        \/ stream'.pc = "done" \/ stream'.gate.pause > p
        \/ applied[p] # NoReview
        \/ forwarder = "register" /\ received = p
        \/ ~Loading /\ since_pause >= MaxPause /\ IdleTimeout >= MaxPause
<1>1. IndInv /\ [Next]_vars => [Holds]_vars
  BY NextGate
<1>2. GateHolds <=> [][Holds]_vars
  BY DEF GateHolds
<1> HIDE DEF Holds
<1> QED BY <1>1, <1>2, PauseInvariant, PTL DEF Spec
===============================================================================

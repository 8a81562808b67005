--------------------------- MODULE SingleFlightSpec ---------------------------
(***************************************************************************)
(* What adapteros-core's single-flight utilities promise (singleflight/    *)
(* mod.rs), whatever they synchronise with.  Calls for a key board the     *)
(* flight that is open for it; a flight loads at most once; every call     *)
(* ends with the outcome of the flight it boarded; and a new flight opens  *)
(* for a key only after the old one has ended and was closed, so loads of  *)
(* one key never overlap and an error never reaches a later call.          *)
(***************************************************************************)
EXTENDS Naturals

CONSTANTS Keys, Callers, Flights

VARIABLES open,     \* open[k] : the flight that calls for k board, 0 for none
          outcome,  \* outcome[f] : what became of flight f
          call      \* call[c] : the flight c has boarded (0 for none) and its last answer

vars == <<open, outcome, call>>

Ended == {"ok", "err", "lost"}

Init ==
  /\ open = [k \in Keys |-> 0]
  /\ outcome = [f \in Flights |-> "none"]
  /\ call = [c \in Callers |-> [flight |-> 0, answer |-> "none"]]

Board(c, k) ==
  /\ call[c].flight = 0
  /\ \E f \in Flights :
       /\ IF open[k] = 0
          THEN outcome[f] = "none" /\ \A j \in Keys : open[j] # f
          ELSE f = open[k]
       /\ open' = [open EXCEPT ![k] = f]
       /\ call' = [call EXCEPT ![c] = [flight |-> f, answer |-> "none"]]
  /\ UNCHANGED outcome

StartLoad(k) ==
  /\ open[k] # 0 /\ outcome[open[k]] = "none"
  /\ outcome' = [outcome EXCEPT ![open[k]] = "running"]
  /\ UNCHANGED <<open, call>>

\* The load returns, or the call that leads it is cancelled or panics.
End(f, o) ==
  /\ outcome[f] = "running"
  /\ outcome' = [outcome EXCEPT ![f] = o]
  /\ UNCHANGED <<open, call>>

Answer(c, a) == call' = [call EXCEPT ![c] = [flight |-> 0, answer |-> a]]

Close(k) ==
  /\ open[k] # 0 /\ outcome[open[k]] \in Ended
  /\ open' = [open EXCEPT ![k] = 0]

\* The leader closes its flight and returns in one step.
CloseAndReturn(c, k) ==
  /\ Close(k)
  /\ call[c].flight = open[k]
  /\ Answer(c, outcome[open[k]])
  /\ UNCHANGED outcome

Return(c) ==
  /\ call[c].flight # 0 /\ outcome[call[c].flight] \in Ended
  /\ Answer(c, outcome[call[c].flight])
  /\ UNCHANGED <<open, outcome>>

\* A call that waits is abandoned by its caller.
Abandon(c) ==
  /\ call[c].flight # 0
  /\ Answer(c, "none")
  /\ UNCHANGED <<open, outcome>>

\* Opening and starting are one step where the map is locked meanwhile.
BoardAndStart(c, k) ==
  /\ call[c].flight = 0 /\ open[k] = 0
  /\ \E f \in Flights :
       /\ outcome[f] = "none" /\ \A j \in Keys : open[j] # f
       /\ open' = [open EXCEPT ![k] = f]
       /\ call' = [call EXCEPT ![c] = [flight |-> f, answer |-> "none"]]
       /\ outcome' = [outcome EXCEPT ![f] = "running"]

Next ==
  \/ \E c \in Callers, k \in Keys :
       Board(c, k) \/ CloseAndReturn(c, k) \/ BoardAndStart(c, k)
  \/ \E k \in Keys : StartLoad(k)
  \/ \E f \in Flights, o \in Ended : End(f, o)
  \/ \E c \in Callers : Return(c) \/ Abandon(c)

Spec == Init /\ [][Next]_vars
===============================================================================

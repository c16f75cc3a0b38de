---------------------------- MODULE TwoStageStop ----------------------------
(***************************************************************************)
(* What stopping a bidder promises: the gesture of `ProcessJob.stop`,      *)
(* `stop_poll` and `_disarm_on_sigint`, without the flag file, the         *)
(* signals and the threads that carry it.  The first request disarms an    *)
(* armed run and leaves it drawing the room; the second ends it; a run     *)
(* that was never armed ends on the first.  A run may also die for other   *)
(* reasons: a crash, a kill, an interrupt before its handler is there.     *)
(***************************************************************************)
CONSTANTS
  Run,     \* the runs
  Click    \* the requests to stop

VARIABLES
  mode,    \* Run -> "idle", "armed", "watching", "left" or "died"
  began,   \* Run -> was it armed when it started
  asked,   \* Run -> the requests that reached it
  raising  \* Run -> is a raise of its own on its way

vars == <<mode, began, asked, raising>>

Up == {r \in Run : mode[r] \in {"armed", "watching"}}

\* Two different requests reached the run.
Twice(r) == \E c, d \in asked[r] : c # d

Init ==
  /\ mode = [r \in Run |-> "idle"]
  /\ began = [r \in Run |-> FALSE]
  /\ asked = [r \in Run |-> {}]
  /\ raising = [r \in Run |-> FALSE]

Begin(r) ==
  /\ mode[r] = "idle"
  /\ \E arm \in BOOLEAN :
       /\ mode' = [mode EXCEPT ![r] = IF arm THEN "armed" ELSE "watching"]
       /\ began' = [began EXCEPT ![r] = arm]
  /\ UNCHANGED <<asked, raising>>

\* A request reaches the runs that share its flag; it reaches them once.
Ask(c) ==
  /\ \A r \in Run : c \notin asked[r]
  /\ \E S \in SUBSET Up :
       asked' = [r \in Run |-> IF r \in S THEN asked[r] \cup {c} ELSE asked[r]]
  /\ UNCHANGED <<mode, began, raising>>

Disarm(r) ==
  /\ mode[r] = "armed" /\ asked[r] # {}
  /\ mode' = [mode EXCEPT ![r] = "watching"]
  /\ UNCHANGED <<began, asked, raising>>

Leave(r) ==
  /\ r \in Up
  /\ IF began[r] THEN Twice(r) ELSE asked[r] # {}
  /\ mode' = [mode EXCEPT ![r] = "left"]
  /\ raising' = [raising EXCEPT ![r] = FALSE]
  /\ UNCHANGED <<began, asked>>

Die(r) ==
  /\ r \in Up
  /\ mode' = [mode EXCEPT ![r] = "died"]
  /\ raising' = [raising EXCEPT ![r] = FALSE]
  /\ UNCHANGED <<began, asked>>

\* A disarmed run sends nothing.
Raise(r) ==
  /\ mode[r] = "armed" /\ ~raising[r]
  /\ raising' = [raising EXCEPT ![r] = TRUE]
  /\ UNCHANGED <<mode, began, asked>>

Settle(r) ==
  /\ raising[r]
  /\ raising' = [raising EXCEPT ![r] = FALSE]
  /\ UNCHANGED <<mode, began, asked>>

Next ==
  \/ \E r \in Run :
       Begin(r) \/ Disarm(r) \/ Leave(r) \/ Die(r) \/ Raise(r) \/ Settle(r)
  \/ \E c \in Click : Ask(c)

Spec == Init /\ [][Next]_vars

=============================================================================

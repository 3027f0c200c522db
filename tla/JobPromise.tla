------------------------------ MODULE JobPromise ------------------------------
(***************************************************************************)
(* What an asynchronous job promises to the workflow that asked for it:    *)
(* the Worker decides the outcome of a job at most once, and the           *)
(* orchestrator learns that outcome or nothing, and never forgets it.      *)
(***************************************************************************)
CONSTANTS Jobs, Outcomes, Unknown

VARIABLES
  decided,  \* job |-> the outcome the Worker gave it, Unknown before
  learnt    \* job |-> the outcome the orchestrator holds, Unknown before

Init == decided = [j \in Jobs |-> Unknown] /\ learnt = [j \in Jobs |-> Unknown]

Decide(j) ==
  /\ decided[j] = Unknown
  /\ \E o \in Outcomes : decided' = [decided EXCEPT ![j] = o]
  /\ UNCHANGED learnt

Learn(j) ==
  /\ decided[j] # Unknown /\ learnt[j] = Unknown
  /\ learnt' = [learnt EXCEPT ![j] = decided[j]]
  /\ UNCHANGED decided

Next == \E j \in Jobs : Decide(j) \/ Learn(j)

Spec == Init /\ [][Next]_<<decided, learnt>>

=============================================================================

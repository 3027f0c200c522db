----------------------------- MODULE MCJobTracker -----------------------------
(***************************************************************************)
(* Two jobs, two Worker names, two commands, two contents: every pair of   *)
(* names can be crossed and every terminal contradicted.                   *)
(***************************************************************************)
EXTENDS JobTracker, TLC

\* Names are interchangeable; invariants and action properties only.
Symmetry == Permutations(Jobs) \cup Permutations(WorkerIds)
              \cup Permutations(Commands) \cup Permutations(Contents)

=============================================================================

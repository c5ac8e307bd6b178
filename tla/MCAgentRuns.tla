----------------------------- MODULE MCAgentRuns -----------------------------
(***************************************************************************)
(* AgentRuns for TLC.                                                       *)
(***************************************************************************)
EXTENDS AgentRuns, TLC

\* Slots, runs and workers are interchangeable in Init, Next and the safety
\* properties of the runs that use this symmetry.
Symmetry == Permutations(Coros) \cup Permutations(Runs) \cup Permutations(Workers)
=============================================================================

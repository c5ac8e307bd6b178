------------------------------ MODULE MCSession ------------------------------
(***************************************************************************)
(* Session for TLC.                                                         *)
(***************************************************************************)
EXTENDS Session, TLC

\* Tabs, calls and slots are interchangeable.
Symmetry == Permutations(Tabs) \cup Permutations(Reqs) \cup Permutations(Slots)
=============================================================================

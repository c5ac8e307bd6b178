----------------------------- MODULE MCScheduler -----------------------------
(***************************************************************************)
(* Scheduler for TLC: jobs, names, workers and slots are interchangeable.   *)
(***************************************************************************)
EXTENDS Scheduler, TLC

\* Each update asks for one column: a rename, an enabling, a disabling.
OneColumnAsks ==
    {a \in [name : Names \cup {None}, enabled : BOOLEAN \cup {None}] :
        (a.name = None) # (a.enabled = None)}

Symmetry == Permutations(Jobs) \cup Permutations(Names)
            \cup Permutations(Workers) \cup Permutations(Coros)
=============================================================================

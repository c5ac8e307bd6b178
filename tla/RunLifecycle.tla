---------------------------- MODULE RunLifecycle ----------------------------
(***************************************************************************)
(* What the clients of the run API may rely on, whatever happens inside:    *)
(* a run is known by its status and by whether some part of the system      *)
(* still holds it.  A status changes only while the run is held, along      *)
(* Edges until some holder's write overtakes what it had read, along        *)
(* Disturbed from then on; and only an open run can be taken up again.      *)
(***************************************************************************)
CONSTANTS Runs,      \* the run ids
          Edges,     \* the pairs <<s, t>> such that a held run may go from s to t
          Disturbed  \* and the ones after a holder acted on a status that was gone

VARIABLES status,    \* status[r]: the status a client reads
          held,      \* the runs some request, execution or scan holds
          overtaken  \* the runs of which a holder acted on a status that was gone

vars == <<status, held, overtaken>>

Open == {"running", "cancelling", "interrupted"}

Init == /\ status = [r \in Runs |-> "absent"]
        /\ held = {}
        /\ overtaken = {}

(* A client submits a run. *)
Submit(r) == /\ status[r] = "absent"
             /\ status' = [status EXCEPT ![r] = "running"]
             /\ held' = held \cup {r}
             /\ UNCHANGED overtaken

(* A request or a recovery scan takes up open runs. *)
Take(S) == /\ \A r \in S : status[r] \in Open
           /\ held' = held \cup S
           /\ UNCHANGED <<status, overtaken>>

(* A holder writes the status of its run, and may be done with it. *)
Change(r, t) == /\ r \in held
                /\ overtaken' \in {overtaken, overtaken \cup {r}}
                /\ <<status[r], t>> \in IF r \in overtaken' THEN Disturbed ELSE Edges
                /\ status' = [status EXCEPT ![r] = t]
                /\ held' \in {held, held \ {r}}

(* Holders end: a request is answered, a process dies. *)
Release(S) == /\ held' = held \ S
              /\ UNCHANGED <<status, overtaken>>

Next == \/ \E r \in Runs : Submit(r)
        \/ \E S \in SUBSET Runs : Take(S) \/ Release(S)
        \/ \E r \in Runs, t \in {"running", "completed", "cancelled", "interrupted", "failed"} :
              Change(r, t)

Spec == Init /\ [][Next]_vars
=============================================================================

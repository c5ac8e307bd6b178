---------------------------- MODULE BoundedRetry ----------------------------
(***************************************************************************)
(* What a caller of the executor is promised: an execution begins its graph *)
(* at most MaxAttempts times, one after the other, and never again once its *)
(* verdict is out; a verdict other than "timeout" is the outcome of a graph *)
(* that did run.                                                            *)
(***************************************************************************)
EXTENDS Naturals

CONSTANTS Execs, MaxAttempts

VARIABLES begun,   \* begun[x]: how many times the graph of x was begun
          verdict  \* verdict[x]: what the caller was told, or "none"

vars == <<begun, verdict>>

Init == /\ begun = [x \in Execs |-> 0]
        /\ verdict = [x \in Execs |-> "none"]

Begin(x) == /\ verdict[x] = "none"
            /\ begun[x] < MaxAttempts
            /\ begun' = [begun EXCEPT ![x] = @ + 1]
            /\ UNCHANGED verdict

Conclude(x, v) == /\ verdict[x] = "none"
                  /\ v = "timeout" \/ begun[x] > 0
                  /\ verdict' = [verdict EXCEPT ![x] = v]
                  /\ UNCHANGED begun

Next == \E x \in Execs : \/ Begin(x)
                         \/ \E v \in {"completed", "failed", "timeout"} : Conclude(x, v)

Spec == Init /\ [][Next]_vars
=============================================================================

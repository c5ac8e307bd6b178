---------------------------- MODULE RetryExecutor ----------------------------
(***************************************************************************)
(* The executor of agent runs: RetryExecutor around SyncExecutor            *)
(* (backend/workflows/retry_executor.py, executor.py), under the time limit *)
(* of AgentRuntimeService._execute_run.                                     *)
(*                                                                         *)
(* An execution is one call of RetryExecutor.execute.  Each of its attempts *)
(* is a work item of the process's default thread pool.  When wait_for      *)
(* gives up, the coroutine is gone at once: an item still in the pool's     *)
(* queue is cancelled with it, but a thread that has begun cannot be        *)
(* stopped and keeps its place in the pool until the graph ends.            *)
(***************************************************************************)
EXTENDS Naturals, FiniteSets

CONSTANTS Execs,       \* the executions of one process
          PoolSize,    \* threads of the default executor
          MaxAttempts, \* max_attempts, BaseDelay, MaxDelay: RetryExecutor.__init__
          BaseDelay,
          MaxDelay

ASSUME ExecutorAssumption ==
    /\ PoolSize \in Nat \ {0}
    /\ MaxAttempts \in Nat \ {0}
    /\ BaseDelay \in Nat
    /\ MaxDelay \in Nat
    /\ MaxDelay >= BaseDelay

VARIABLES phase,    \* phase[x]: where the coroutine of x stands
          attempt,  \* attempt[x]: the loop variable
          retries,  \* retries[x]: actual_retries
          delay,    \* delay[x]: the last back-off, 0 before the first
          res,      \* res[x]: what the last graph that ended came to
          queued,   \* executions with an item in the pool's queue
          running,  \* executions whose graph occupies a thread
          begun,    \* begun[x]: how many times a thread began the graph of x
          verdict   \* verdict[x]: status of the RunResult, or "timeout"

vars == <<phase, attempt, retries, delay, res, queued, running, begun, verdict>>

-----------------------------------------------------------------------------
Phase == {"idle", "waiting", "deciding", "backoff", "ended"}

\* An error message is known by the kinds of patterns it contains.
Marks == {"permanent", "transient"}

Result == [ok : BOOLEAN, marks : SUBSET Marks]

Success == [ok |-> TRUE, marks |-> {}]

\* What a graph may come to.
Outcomes == {Success} \cup [ok : {FALSE}, marks : SUBSET Marks]

TransientFirst(marks) == IF "transient" \in marks THEN "transient" ELSE "permanent"

\* classify_error: permanent patterns first, unknown errors are permanent.
classify_error(marks) ==
    IF "transient" \in marks /\ "permanent" \notin marks THEN "transient" ELSE "permanent"

BackoffDelay(a) ==
    IF BaseDelay * 2^(a - 1) <= MaxDelay THEN BaseDelay * 2^(a - 1) ELSE MaxDelay

AttemptsRemain(a) == a < MaxAttempts

Init == /\ phase = [x \in Execs |-> "idle"]
        /\ attempt = [x \in Execs |-> 0]
        /\ retries = [x \in Execs |-> 0]
        /\ delay = [x \in Execs |-> 0]
        /\ res = [x \in Execs |-> Success]
        /\ queued = {}
        /\ running = {}
        /\ begun = [x \in Execs |-> 0]
        /\ verdict = [x \in Execs |-> "none"]

-----------------------------------------------------------------------------
(* An attempt: run_in_executor puts an item in the pool's queue. *)
Attempt(x) ==
    /\ phase' = [phase EXCEPT ![x] = "waiting"]
    /\ attempt' = [attempt EXCEPT ![x] = @ + 1]
    /\ queued' = queued \cup {x}

Begin(x) ==
    /\ phase[x] = "idle"
    /\ Attempt(x)
    /\ UNCHANGED <<retries, delay, res, running, begun, verdict>>

(* A free thread takes an item (in the order of the queue, on which nothing *)
(* here depends) and begins the graph.                                      *)
ThreadBegins(x) ==
    /\ x \in queued
    /\ x \notin running
    /\ Cardinality(running) < PoolSize
    /\ queued' = queued \ {x}
    /\ running' = running \cup {x}
    /\ begun' = [begun EXCEPT ![x] = @ + 1]
    /\ UNCHANGED <<phase, attempt, retries, delay, res, verdict>>

(* The graph ended.  _sync_execute_impl turns every exception into a failed *)
(* result; if nobody waits for it any more it is dropped.                   *)
LateResultCounts(x) ==
    /\ x \in running
    /\ running' = running \ {x}
    /\ \E r \in Outcomes : res' = [res EXCEPT ![x] = r]
    /\ phase' = [phase EXCEPT ![x] = "deciding"]
    /\ UNCHANGED <<attempt, retries, delay, queued, begun, verdict>>

ThreadEnds(x) ==
    /\ x \in running
    /\ running' = running \ {x}
    /\ IF phase[x] = "waiting"
       THEN /\ \E r \in Outcomes : res' = [res EXCEPT ![x] = r]
            /\ phase' = [phase EXCEPT ![x] = "deciding"]
       ELSE UNCHANGED <<phase, res>>
    /\ UNCHANGED <<attempt, retries, delay, queued, begun, verdict>>

(* The coroutine of _execute_run learns the verdict and finalises.          *)
End(x, v) ==
    /\ phase' = [phase EXCEPT ![x] = "ended"]
    /\ verdict' = [verdict EXCEPT ![x] = v]

Retryable(x) == /\ ~res[x].ok
                /\ classify_error(res[x].marks) = "transient"
                /\ AttemptsRemain(attempt[x])

(* RetryExecutor looks at the result: it returns it, or sleeps.             *)
Return(x) ==
    /\ phase[x] = "deciding"
    /\ ~Retryable(x)
    /\ End(x, IF res[x].ok THEN "completed" ELSE "failed")
    /\ UNCHANGED <<attempt, retries, delay, res, queued, running, begun>>

BackOff(x) ==
    /\ phase[x] = "deciding"
    /\ Retryable(x)
    /\ phase' = [phase EXCEPT ![x] = "backoff"]
    /\ delay' = [delay EXCEPT ![x] = BackoffDelay(attempt[x])]
    /\ UNCHANGED <<attempt, retries, res, queued, running, begun, verdict>>

(* The sleep is over: the retry is counted and the next attempt starts.     *)
WakeUncounted(x) ==
    /\ phase[x] = "backoff"
    /\ Attempt(x)
    /\ UNCHANGED <<retries, delay, res, running, begun, verdict>>

Wake(x) ==
    /\ phase[x] = "backoff"
    /\ retries' = [retries EXCEPT ![x] = @ + 1]
    /\ Attempt(x)
    /\ UNCHANGED <<delay, res, running, begun, verdict>>

(* wait_for gives up, wherever the execution stands.                        *)
TimeLimitKeepsQueue(x) ==
    /\ phase[x] \in {"waiting", "deciding", "backoff"}
    /\ End(x, "timeout")
    /\ UNCHANGED <<attempt, retries, delay, res, queued, running, begun>>

TimeLimitBetweenAttempts(x) ==
    /\ phase[x] \in {"deciding", "backoff"}
    /\ End(x, "timeout")
    /\ UNCHANGED <<attempt, retries, delay, res, queued, running, begun>>

TimeLimit(x) ==
    /\ phase[x] \in {"waiting", "deciding", "backoff"}
    /\ queued' = queued \ {x}
    /\ End(x, "timeout")
    /\ UNCHANGED <<attempt, retries, delay, res, running, begun>>

Step(x) == \/ Begin(x) \/ ThreadBegins(x) \/ ThreadEnds(x)
           \/ Return(x) \/ BackOff(x) \/ Wake(x) \/ TimeLimit(x)

Next == \E x \in Execs : Step(x)

Spec == Init /\ [][Next]_vars

(* The event loop runs ready coroutines and timers; free threads take work. *)
(* Nothing makes a graph end.                                               *)
Fairness == \A x \in Execs : /\ WF_vars(Return(x)) /\ WF_vars(BackOff(x)) /\ WF_vars(Wake(x))
                             /\ WF_vars(TimeLimit(x))

FairSpec == Spec /\ Fairness
-----------------------------------------------------------------------------
(* Properties *)

\* Every variable has its type; that of delay is BackoffDelay's.
TypeOK ==
    /\ phase \in [Execs -> Phase]
    /\ attempt \in [Execs -> 0..MaxAttempts]
    /\ retries \in [Execs -> Nat]
    /\ DOMAIN delay = Execs
    /\ res \in [Execs -> Result]
    /\ queued \subseteq Execs
    /\ running \subseteq Execs
    /\ begun \in [Execs -> Nat]
    /\ verdict \in [Execs -> {"none", "completed", "failed", "timeout"}]

(* The count an executor returns is the number of graphs begun after the    *)
(* first: every attempt it counts did run, and no other did.                *)
RetryCountIsExact == \A x \in Execs :
    verdict[x] \in {"completed", "failed"} => begun[x] = retries[x] + 1

(* One graph of an execution at a time: a retry never runs beside the       *)
(* attempt it repeats, whatever is still queued or left over in the pool.   *)
AttemptsDoNotOverlap == \A x \in Execs :
    /\ ~(x \in queued /\ x \in running)
    /\ x \in queued \cup running => phase[x] = "waiting" \/ (x \in running /\ verdict[x] = "timeout")

(* An error that carries a permanent mark is the last word: the graph of    *)
(* that execution is not begun again, even if the message looks transient   *)
(* as well.                                                                 *)
PermanentIsLast ==
    [][\A x \in Execs : ~res[x].ok /\ "permanent" \in res[x].marks => begun'[x] = begun[x]]_vars

(* An execution ends although every thread of the pool may hang for good.   *)
EveryExecutionEnds == \A x \in Execs : phase[x] = "waiting" ~> phase[x] = "ended"
=============================================================================

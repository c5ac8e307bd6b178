------------------------------ MODULE AgentRuns ------------------------------
(***************************************************************************)
(* The life of an agent run: AgentRuntimeService                           *)
(* (backend/services/agent_runtime_service.py) on one PostgreSQL table,    *)
(* served by several gunicorn workers (Dockerfile.backend starts four).    *)
(*                                                                         *)
(* Shared by the workers is only the database: the row of each run, its    *)
(* LangGraph checkpoint and its evaluation rows.  Everything else is in a  *)
(* worker's memory: the coroutines of the HTTP requests and the background *)
(* tasks that execute runs.  A step of the model is the code between two   *)
(* awaits that touch shared state, so a guard and the write it protects    *)
(* are two steps wherever the code awaits between them.                    *)
(*                                                                         *)
(* A session that ends without commit is rolled back, hence only committed *)
(* rows are state.  An UPDATE and the commit that follows it are one step: *)
(* the row lock keeps every other writer of the row out in between.  The   *)
(* SELECT before it takes no lock and is a step of its own.  The ORM sends *)
(* only the columns that differ from what the session loaded.              *)
(***************************************************************************)
EXTENDS Naturals, FiniteSets

CONSTANTS Runs,     \* the run ids
          Workers,  \* the gunicorn worker processes
          Coros,    \* coroutine slots: how many requests and tasks are in flight
          None      \* no run, no worker

ASSUME RunsAssumption ==
    /\ None \notin Runs
    /\ None \notin Workers

VARIABLES row,     \* row[r]: the committed row of agent_runs
          ckpt,    \* ckpt[r]: LangGraph holds a checkpoint for the run's thread_id
          evals,   \* evals[r]: rows of agent_evaluations for the run, 2 for several
          co,      \* co[c]: the coroutine in slot c
          worker,  \* worker[w]: "down", "scanning" (start-up recovery) or "up"
          todo,    \* todo[w]: stale runs the recovery scan has yet to visit
          overtaken \* history, read by no action: the runs of which a commit was
                   \* made although its guard no longer accepted the row

vars == <<row, ckpt, evals, co, worker, todo, overtaken>>

-----------------------------------------------------------------------------
(* Data *)

\* The values the code assigns to or compares with AgentRun.status.
Status == {"absent", "running", "cancelling", "completed", "cancelled",
           "interrupted", "failed", "timeout"}

\* old: started_at is before the recovery cutoff (24 hours, main.py).
\* finished: finished_at is set.
\* owner: "user", or "nobody" for the run of a scheduled job (user_id None).
Row == [status : Status, old : BOOLEAN, finished : BOOLEAN, owner : {"user", "nobody"}]

NoRow == [status |-> "absent", old |-> FALSE, finished |-> FALSE, owner |-> "nobody"]

NewRow(o) == [NoRow EXCEPT !.status = "running", !.owner = o]

\* Where a coroutine stands.  A request holds "cancelling" or "resuming" when its
\* guards passed on the row it read and its write is still to come; a submitted
\* or resumed run goes through the phases of Working.  A finaliser that loaded
\* the row is "storing", or "stamping" when it found the row completed already.
Asking  == {"cancelling", "resuming"}
Working == {"dispatch", "executing", "evaluating", "finalizing", "storing", "stamping",
            "failing"}

Idle == [phase |-> "idle", run |-> None, at |-> None]

Coroutine == [phase : {"idle"} \cup Asking \cup Working,
              run : Runs \cup {None}, at : Workers \cup {None}]

\* A slot at rest holds nothing; a busy one names its run and its worker.
SlotOK(k) == \/ k = Idle
             \/ k.phase # "idle" /\ k.run \in Runs /\ k.at \in Workers

At(c, p) == co[c].phase = p

\* Nothing in any worker holds the run: no coroutine, no scan about to visit it.
Quiet(r) == /\ \A c \in Coros : co[c].run # r
            /\ \A w \in Workers : r \notin todo[w]

\* Some coroutine executes the run, or is committed to do so.
Executed(r) == \E c \in Coros : co[c].run = r /\ co[c].phase \in Working

-----------------------------------------------------------------------------
(* The columns each operation writes, and what it requires of the row *)

\* cancel_run: status in ("running", "cancelling").
CancelAllowedAfterEnd(d) == d.status \in {"running", "cancelling", "completed"}

CancelAllowed(d) == d.status \in {"running", "cancelling"}

CancelledRow(d) == [d EXCEPT !.status = "cancelled", !.finished = TRUE]

ResumeAllowedAfterFailure(d) == d.status \in {"interrupted", "failed"}

ResumeAllowedAfterCancel(d) == d.status \in {"interrupted", "cancelled"}

ResumeAllowed(d) == d.status = "interrupted"

\* resume(): started_at is refreshed and finished_at cleared.
ResumedRowKeepsEnd(d) == [d EXCEPT !.status = "running", !.old = FALSE]

ResumedRowKeepsStart(d) == [d EXCEPT !.status = "running", !.finished = FALSE]

ResumedRowLater(d) == [d EXCEPT !.old = FALSE, !.finished = FALSE]

ResumedRow(d) == [d EXCEPT !.status = "running", !.old = FALSE, !.finished = FALSE]

\* _finalize_completed, on a row that was loaded as not completed; and on one
\* that was, where the unchanged status is not part of the UPDATE.
CompletedRow(d) == [d EXCEPT !.status = "completed", !.finished = TRUE]

StampedRow(d) == [d EXCEPT !.finished = TRUE]

\* The WHERE clause of the recovery scan.
StaleAnyAge(d) == d.status \in {"running", "cancelling"}

Stale(d) == d.status \in {"running", "cancelling"} /\ d.old

RecoveredRow(d) == [d EXCEPT !.status = "interrupted", !.finished = TRUE]

LostRow(d) == [d EXCEPT !.status = "failed", !.finished = TRUE]

-----------------------------------------------------------------------------
Init == /\ row = [r \in Runs |-> NoRow]
        /\ ckpt = [r \in Runs |-> FALSE]
        /\ evals = [r \in Runs |-> 0]
        /\ co = [c \in Coros |-> Idle]
        /\ worker = [w \in Workers |-> "down"]
        /\ todo = [w \in Workers |-> {}]
        /\ overtaken = {}

Goto(c, p) == co' = [co EXCEPT ![c].phase = p]

Start(c, p, r, w) == /\ co[c] = Idle
                     /\ worker[w] = "up"
                     /\ co' = [co EXCEPT ![c] = [phase |-> p, run |-> r, at |-> w]]

End(c) == co' = [co EXCEPT ![c] = Idle]

Write(r, d) == row' = [row EXCEPT ![r] = d]

\* A commit under a guard that was checked in an earlier step.
Record(r, accepted) == overtaken' = IF accepted THEN overtaken ELSE overtaken \cup {r}

(* submit: the row is created and committed, the task is dispatched later.  *)
(* The scheduler's own service submits with user_id None.                   *)
Submit(c, r, w, o) ==
    /\ row[r].status = "absent"
    /\ Start(c, "dispatch", r, w)
    /\ Write(r, NewRow(o))
    /\ UNCHANGED <<ckpt, evals, worker, todo, overtaken>>

(* create_task(_execute_run): at the end of submit, and of resume after it  *)
(* has asked the checkpointer for the saved state.                          *)
Dispatch(c) ==
    /\ At(c, "dispatch")
    /\ Goto(c, "executing")
    /\ UNCHANGED <<row, ckpt, evals, worker, todo, overtaken>>

(* A node of the graph ended and LangGraph saved the thread's state.        *)
SaveCheckpoint(c) ==
    /\ At(c, "executing")
    /\ ckpt' = [ckpt EXCEPT ![co[c].run] = TRUE]
    /\ UNCHANGED <<row, evals, co, worker, todo, overtaken>>

(* The executor returned: RetryExecutor answers "completed" or "failed".    *)
(* Its token map belongs to the service of the submitting request, which no *)
(* cancelling request shares, so it never answers "cancelled".              *)
ExecutorReturns(c) ==
    /\ At(c, "executing")
    /\ \E p \in {"evaluating", "failing"} : Goto(c, p)
    /\ UNCHANGED <<row, ckpt, evals, worker, todo, overtaken>>

(* asyncio.wait_for gave up after timeout_seconds.  The thread that runs    *)
(* the graph is not stopped: it may still save a checkpoint, long before    *)
(* anything looks for one.                                                  *)
NoTimeLimit(c) == FALSE /\ UNCHANGED vars

TimeLimit(c) ==
    /\ At(c, "executing")
    /\ Goto(c, "failing")
    /\ \/ UNCHANGED ckpt
       \/ ckpt' = [ckpt EXCEPT ![co[c].run] = TRUE]
    /\ UNCHANGED <<row, evals, worker, todo, overtaken>>

(* _evaluate_output answered; an evaluation is committed on its own, before *)
(* the run is finalised.                                                    *)
Evaluate(c) ==
    /\ At(c, "evaluating")
    /\ Goto(c, "finalizing")
    /\ \/ UNCHANGED evals
       \/ evals' = [evals EXCEPT ![co[c].run] = IF @ = 0 THEN 1 ELSE 2]
    /\ UNCHANGED <<row, ckpt, worker, todo, overtaken>>

(* _finalize_completed loads the row by its id, with no condition on it.    *)
FinalizeLoad(c) ==
    /\ At(c, "finalizing")
    /\ Goto(c, IF row[co[c].run].status = "completed" THEN "stamping" ELSE "storing")
    /\ UNCHANGED <<row, ckpt, evals, worker, todo, overtaken>>

(* Its UPDATE is sent after an await and commits, whatever the row is by    *)
(* now: the status is part of it only if the loaded one was another.        *)
FinalizeCompleted(c) ==
    /\ \/ At(c, "storing") /\ Write(co[c].run, CompletedRow(row[co[c].run]))
       \/ At(c, "stamping") /\ Write(co[c].run, StampedRow(row[co[c].run]))
    /\ End(c)
    /\ UNCHANGED <<ckpt, evals, worker, todo, overtaken>>

(* _finalize_failed: the update is flushed, never committed; the finally    *)
(* clause of _execute_run closes the session, which rolls it back.          *)
FinalizeFailed(c) ==
    /\ At(c, "failing")
    /\ End(c)
    /\ UNCHANGED <<row, ckpt, evals, worker, todo, overtaken>>

(* The database raised while a result was stored (an evaluation without a   *)
(* score, a broken session): the handler's own update raises too.           *)
StoreBreaks(c) ==
    /\ co[c].phase \in {"evaluating", "finalizing", "storing", "stamping"}
    /\ End(c)
    /\ UNCHANGED <<row, ckpt, evals, worker, todo, overtaken>>

(* cancel_run: the guards read the row, the write comes after an await.     *)
CancelCheck(c, r, w) ==
    /\ row[r].owner = "user"
    /\ CancelAllowed(row[r])
    /\ Start(c, "cancelling", r, w)
    /\ UNCHANGED <<row, ckpt, evals, worker, todo, overtaken>>

(* The request's service has an empty _run_tasks, so there is no task to    *)
(* wait for; "cancelling" is flushed and replaced before the one commit.    *)
CancelCommit(c) ==
    /\ At(c, "cancelling")
    /\ Write(co[c].run, CancelledRow(row[co[c].run]))
    /\ Record(co[c].run, CancelAllowed(row[co[c].run]))
    /\ End(c)
    /\ UNCHANGED <<ckpt, evals, worker, todo>>

ResumeCheck(c, r, w) ==
    /\ row[r].owner = "user"
    /\ ResumeAllowed(row[r])
    /\ Start(c, "resuming", r, w)
    /\ UNCHANGED <<row, ckpt, evals, worker, todo, overtaken>>

ResumeCommit(c) ==
    /\ At(c, "resuming")
    /\ Write(co[c].run, ResumedRow(row[co[c].run]))
    /\ Record(co[c].run, ResumeAllowed(row[co[c].run]))
    /\ Goto(c, "dispatch")
    /\ UNCHANGED <<ckpt, evals, worker, todo>>

-----------------------------------------------------------------------------
(* Start-up recovery, crashes, time *)

(* lifespan(): _recover_stale_runs selects the stale runs of the table.     *)
BootScan(w) ==
    /\ worker[w] = "down"
    /\ worker' = [worker EXCEPT ![w] = "scanning"]
    /\ todo' = [todo EXCEPT ![w] = {r \in Runs : Stale(row[r])}]
    /\ UNCHANGED <<row, ckpt, evals, co, overtaken>>

(* One turn of its loop: a failed lookup and a missing checkpoint both fail *)
(* the run.  The row is updated by id, whatever its status is by now.       *)
ScanRun(w, r) ==
    /\ r \in todo[w]
    /\ todo' = [todo EXCEPT ![w] = @ \ {r}]
    /\ \/ ckpt[r] /\ Write(r, RecoveredRow(row[r]))
       \/ Write(r, LostRow(row[r]))
    /\ Record(r, Stale(row[r]))
    /\ UNCHANGED <<ckpt, evals, co, worker>>

(* The scan is over, was left by an exception (which start-up survives), or *)
(* there is no checkpointer and it returned at once.                        *)
Serve(w) ==
    /\ worker[w] = "scanning"
    /\ worker' = [worker EXCEPT ![w] = "up"]
    /\ todo' = [todo EXCEPT ![w] = {}]
    /\ UNCHANGED <<row, ckpt, evals, co, overtaken>>

(* The process dies: its coroutines are gone, their sessions rolled back.   *)
Crash(w) ==
    /\ worker[w] # "down"
    /\ worker' = [worker EXCEPT ![w] = "down"]
    /\ todo' = [todo EXCEPT ![w] = {}]
    /\ co' = [c \in Coros |-> IF co[c].at = w THEN Idle ELSE co[c]]
    /\ UNCHANGED <<row, ckpt, evals, overtaken>>

(* 24 hours pass since started_at.  Nothing in flight lasts that long: an   *)
(* execution is cut after 300 seconds, a request and a scan are far shorter.*)
GrowOld(r) ==
    /\ row[r].status # "absent"
    /\ ~row[r].old
    /\ Quiet(r)
    /\ row' = [row EXCEPT ![r].old = TRUE]
    /\ UNCHANGED <<ckpt, evals, co, worker, todo, overtaken>>

-----------------------------------------------------------------------------
Request(c, r, w) == \/ \E o \in {"user", "nobody"} : Submit(c, r, w, o)
                    \/ CancelCheck(c, r, w)
                    \/ ResumeCheck(c, r, w)

Step(c) == \/ Dispatch(c) \/ SaveCheckpoint(c) \/ ExecutorReturns(c) \/ TimeLimit(c)
           \/ Evaluate(c) \/ FinalizeLoad(c) \/ FinalizeCompleted(c) \/ FinalizeFailed(c)
           \/ StoreBreaks(c) \/ CancelCommit(c) \/ ResumeCommit(c)

Process(w) == BootScan(w) \/ Serve(w) \/ Crash(w) \/ \E r \in Runs : ScanRun(w, r)

Next == \/ \E c \in Coros, r \in Runs, w \in Workers : Request(c, r, w)
        \/ \E c \in Coros : Step(c)
        \/ \E w \in Workers : Process(w)
        \/ \E r \in Runs : GrowOld(r)

Spec == Init /\ [][Next]_vars

(* The event loop runs every ready coroutine and the timer of wait_for      *)
(* fires; an LLM call has no such guarantee, so ExecutorReturns has none.   *)
Fairness == \A c \in Coros :
              /\ WF_vars(Dispatch(c)) /\ WF_vars(TimeLimit(c)) /\ WF_vars(Evaluate(c))
              /\ WF_vars(FinalizeLoad(c)) /\ WF_vars(FinalizeCompleted(c))
              /\ WF_vars(FinalizeFailed(c))
              /\ WF_vars(CancelCommit(c)) /\ WF_vars(ResumeCommit(c))

FairSpec == Spec /\ Fairness

-----------------------------------------------------------------------------
(* Properties *)

\* Every variable has its type; a slot at rest holds no run and no worker.
TypeOK ==
    /\ row \in [Runs -> Row]
    /\ ckpt \in [Runs -> BOOLEAN]
    /\ evals \in [Runs -> 0..2]
    /\ co \in [Coros -> Coroutine]
    /\ \A c \in Coros : SlotOK(co[c])
    /\ worker \in [Workers -> {"down", "scanning", "up"}]
    /\ todo \in [Workers -> SUBSET Runs]
    /\ overtaken \subseteq Runs

(* A row that is no longer running has its finished_at; and unless a commit *)
(* overtook its own check, a running row has none.  A finaliser that loaded *)
(* a completed row stamps finished_at without the status, and two overlapping *)
(* resumes of the run let it do so on a row that runs again.                *)
RowCoherent == \A r \in Runs :
    /\ row[r].status \notin {"absent", "running"} => row[r].finished
    /\ r \notin overtaken /\ row[r].finished => row[r].status \notin {"absent", "running"}

(* Two executions of one run need a commit that overtook its check (two     *)
(* resumes that both read "interrupted", a scan that reaches a run another  *)
(* worker has resumed): no cancellation, crash, restart or recovery scan in *)
(* the order the guards see starts a second one beside the first.           *)
OneExecution == \A r \in Runs \ overtaken : \A c, d \in Coros :
    /\ co[c].run = r /\ co[c].phase \in Working
    /\ co[d].run = r /\ co[d].phase \in Working
    => c = d

(* A run that some coroutine still executes is never older than the         *)
(* recovery cutoff, so the scan of a restarting worker cannot select a run  *)
(* that is live in another worker.  It rests on resume() refreshing         *)
(* started_at and on the cutoff being longer than any execution.            *)
LiveRunsAreFresh == \A r \in Runs : Executed(r) => ~row[r].old

(* A coroutine is held by a worker that serves: nothing runs in a process   *)
(* that is down or still in its start-up scan.                              *)
CoroutinesAreServed ==
    \A c \in Coros : co[c].phase # "idle" => worker[co[c].at] = "up"

(* A run is interrupted only while nothing executes it, so that the resume  *)
(* that finds it interrupted starts its only execution.                     *)
InterruptedIsIdle ==
    \A r \in Runs : row[r].status = "interrupted" => ~Executed(r)

(* A run is settled when its status is one that no operation accepts.       *)
Settled(r) == row[r].status \in {"completed", "cancelled", "failed"}

(* Once a run is settled and nothing in flight holds it, it is settled for  *)
(* good: no request, no restart and no recovery scan reopens it.            *)
SettledIsFinal ==
    [][\A r \in Runs : Settled(r) /\ Quiet(r) =>
          row'[r].status = row[r].status /\ Quiet(r)']_vars

(* The recovery scan reaches only orphans: a run that is selected has no    *)
(* coroutine executing it, in any worker.                                   *)
ScanSelectsOrphans ==
    [][\A w \in Workers : \A r \in todo'[w] \ todo[w] : ~Executed(r)]_vars

(* Every request and every execution comes to an end, whatever the LLM      *)
(* does: wait_for bounds the one wait that has no end of its own.           *)
EveryCoroutineEnds ==
    \A c \in Coros : ~At(c, "idle") ~> At(c, "idle")

-----------------------------------------------------------------------------
(* The lifecycle the clients of the run API rely on *)

\* The status changes of a run of which no commit overtook its check.  The
\* execution of a cancelled run is not stopped, so it may still complete.
Undisturbed ==
    {"running"} \X {"completed", "cancelled", "interrupted", "failed"}
    \cup {<<"cancelled", "completed">>, <<"interrupted", "running">>}

\* The status changes any interleaving of one worker's coroutines can make.
DisturbedOnOneWorker ==
    {"running", "cancelled", "completed"} \X {"completed", "cancelled", "running"}
    \cup {"interrupted"} \X {"running"}
    \cup {"running"} \X {"interrupted", "failed"}

\* With several workers a recovery scan may overwrite any status, and so may
\* the coroutines that were in flight when it did.
DisturbedOnManyWorkers ==
    LET Seen == {"running", "completed", "cancelled", "interrupted", "failed"}
    IN  Seen \X Seen

\* What a client sees of the runs, and the runs something in the system holds.
StatusOf == [r \in Runs |-> row[r].status]
HeldRuns == {r \in Runs : ~Quiet(r)}

OneWorker == INSTANCE RunLifecycle WITH
    Edges <- Undisturbed, Disturbed <- DisturbedOnOneWorker,
    status <- StatusOf, held <- HeldRuns

ManyWorkers == INSTANCE RunLifecycle WITH
    Edges <- Undisturbed, Disturbed <- DisturbedOnManyWorkers,
    status <- StatusOf, held <- HeldRuns

(* AgentRuns on one worker implements the lifecycle: a run follows the      *)
(* narrow graph until a commit overtakes its check, and even then nothing   *)
(* leaves "failed" and "interrupted" leads to "running" only.               *)
OneWorkerLifecycle == OneWorker!Spec

(* On any number of workers it implements the lifecycle in which a status   *)
(* changes only while the run is held, settled runs are not taken up again, *)
(* and a run follows the narrow graph until a commit overtakes its check:   *)
(* without one, no scan of a restarting worker interrupts a run that        *)
(* another worker then completes, and no settled run reopens.               *)
ManyWorkersLifecycle == ManyWorkers!Spec

-----------------------------------------------------------------------------
(* What documents of the repository say, and the code does not do.          *)

(* "Timeout: interrupt graph, mark as timeout", "failed: retry_count        *)
(* persisted": when an execution ends in failure, the row says so.          *)
FailureIsRecorded ==
    [][\A c \in Coros : FinalizeFailed(c) =>
          row'[co[c].run].status \in {"failed", "timeout"}]_vars
=============================================================================

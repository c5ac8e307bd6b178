------------------------------ MODULE Scheduler ------------------------------
(***************************************************************************)
(* Scheduled jobs: SchedulerService (backend/services/scheduler/service.py) *)
(* in each gunicorn worker, over the one table scheduled_jobs.              *)
(*                                                                         *)
(* A request loads or checks, awaits, and commits; requests of one worker   *)
(* and of several overlap between those steps.  A run is submitted through  *)
(* the one AgentRuntimeService of the worker, whose single AsyncSession     *)
(* serves all submissions of jobs.                                          *)
(*                                                                         *)
(* No job ever gets a trigger: add_job is passed cron_trigger=, a keyword   *)
(* that CronTrigger does not take, and raises whenever it is called.  So a  *)
(* request that registers ends in an error after its commit, a start-up     *)
(* that finds an enabled job never starts APScheduler, and nothing fires.   *)
(***************************************************************************)
EXTENDS Naturals, FiniteSets

CONSTANTS Jobs,     \* job ids; each is created at most once
          Names,    \* the names of jobs
          Workers,  \* the gunicorn worker processes
          Coros,    \* coroutine slots: requests in flight
          Asks,     \* the bodies of updates; None is a column they do not mention
          None,
          MaxRuns,  \* bound: a job with that many runs is not triggered again
          DbFails   \* whether the database may fail a statement

ASSUME SchedulerAssumption ==
    /\ None \notin Jobs /\ None \notin Workers /\ None \notin Names
    /\ None \notin BOOLEAN
    /\ Asks \subseteq [name : Names \cup {None}, enabled : BOOLEAN \cup {None}]
    /\ MaxRuns \in Nat
    /\ DbFails \in BOOLEAN

VARIABLES job,    \* job[j]: the committed row of scheduled_jobs
          sched,  \* sched[w]: what start-up made of w's SchedulerService
          shared, \* shared[w]: the session of w's runtime service
          runs,   \* runs[j]: how many rows of agent_runs were created for j
          co      \* co[c]: the request in slot c

vars == <<job, sched, shared, runs, co>>

-----------------------------------------------------------------------------
(* Rows.  The column "enabled" stands for every column without constraint.  *)

Columns == [name : Names, enabled : BOOLEAN]

JobRow == [state : {"absent", "present", "deleted"}, cols : Columns \cup {None}]

Row(cols) == [state |-> "present", cols |-> cols]

NoRow(state) == [state |-> state, cols |-> None]

Present(j) == job[j].state = "present"

EnabledJobs == {j \in Jobs : Present(j) /\ job[j].cols.enabled}

\* No other job has the name.
NameFree(j, n) == \A i \in Jobs \ {j} : Present(i) => job[i].cols.name # n

-----------------------------------------------------------------------------
(* Requests in flight: what the next step is, for which job, where; the     *)
(* columns it loaded or is to insert, and those it was asked to change.     *)

Slot(op, j, w, cols, ask) == [op |-> op, job |-> j, at |-> w, cols |-> cols, ask |-> ask]

Idle == Slot("idle", None, None, None, None)

Busy == {"creating", "checking", "updating", "deleting", "triggering"}

\* The endpoints get the service from app.state, or raise.
Serving(w) == sched[w] \in {"unstarted", "started"}

Begin(c, op, j, w, cols, ask) ==
    /\ co[c] = Idle
    /\ Serving(w)
    /\ co' = [co EXCEPT ![c] = Slot(op, j, w, cols, ask)]

End(c) == co' = [co EXCEPT ![c] = Idle]

At(c, op) == co[c].op = op

Init == /\ job = [j \in Jobs |-> NoRow("absent")]
        /\ sched = [w \in Workers |-> "down"]
        /\ shared = [w \in Workers |-> "ok"]
        /\ runs = [j \in Jobs |-> 0]
        /\ co = [c \in Coros |-> Idle]

-----------------------------------------------------------------------------
(* create_job                                                              *)

\* The name is looked up; the new id is nobody's.
CreateCheck(c, j, w, n) ==
    /\ job[j].state = "absent"
    /\ \A d \in Coros : co[d].job # j
    /\ NameFree(j, n)
    /\ Begin(c, "creating", j, w, [name |-> n, enabled |-> TRUE], None)
    /\ UNCHANGED <<job, sched, shared, runs>>

CreateUnconstrained(c) ==
    /\ At(c, "creating")
    /\ job' = [job EXCEPT ![co[c].job] = Row(co[c].cols)]
    /\ End(c)
    /\ UNCHANGED <<sched, shared, runs>>

\* The constraint on the name decides; registering raises behind the commit.
CreateCommit(c) ==
    /\ At(c, "creating")
    /\ job' = IF NameFree(co[c].job, co[c].cols.name)
              THEN [job EXCEPT ![co[c].job] = Row(co[c].cols)]
              ELSE job
    /\ End(c)
    /\ UNCHANGED <<sched, shared, runs>>

-----------------------------------------------------------------------------
(* update_job, which is toggle_job too                                      *)

UpdateLoad(c, j, w, ask) ==
    /\ Present(j)
    /\ Begin(c, "checking", j, w, job[j].cols, ask)
    /\ UNCHANGED <<job, sched, shared, runs>>

\* A new name must be nobody else's by now; then the loaded object is changed.
UpdateCheck(c) ==
    /\ At(c, "checking")
    /\ IF co[c].ask.name # None => NameFree(co[c].job, co[c].ask.name)
       THEN co' = [co EXCEPT ![c] = [@ EXCEPT !.op = "updating"]]
       ELSE End(c)
    /\ UNCHANGED <<job, sched, shared, runs>>

\* The columns that an UPDATE of this request writes: those that were asked for
\* and differ from what was loaded.
Changed(s, field) == s.ask[field] # None /\ s.ask[field] # s.cols[field]

Written(s, old) == [name |-> IF Changed(s, "name") THEN s.ask.name ELSE old.name,
                    enabled |-> IF Changed(s, "enabled") THEN s.ask.enabled ELSE old.enabled]

\* All columns of the loaded object, whether they were asked for or not.
WrittenWhole(s, old) == [name |-> IF s.ask.name # None THEN s.ask.name ELSE s.cols.name,
                         enabled |-> IF s.ask.enabled # None THEN s.ask.enabled ELSE s.cols.enabled]

UpdateWhole(c) ==
    /\ At(c, "updating")
    /\ LET j == co[c].job
           new == WrittenWhole(co[c], job[j].cols)
       IN  job' = IF Present(j) /\ NameFree(j, new.name) THEN [job EXCEPT ![j] = Row(new)] ELSE job
    /\ End(c)
    /\ UNCHANGED <<sched, shared, runs>>

\* An UPDATE that finds no row, or a name that is taken, raises.  Whether a
\* trigger is then unregistered or registering one raises changes nothing.
UpdateCommit(c) ==
    /\ At(c, "updating")
    /\ LET j == co[c].job
           new == Written(co[c], job[j].cols)
       IN  job' = IF Present(j) /\ NameFree(j, new.name) THEN [job EXCEPT ![j] = Row(new)] ELSE job
    /\ End(c)
    /\ UNCHANGED <<sched, shared, runs>>

-----------------------------------------------------------------------------
(* delete_job, and a request that the database fails                        *)

DeleteLoad(c, j, w) ==
    /\ Present(j)
    /\ Begin(c, "deleting", j, w, None, None)
    /\ UNCHANGED <<job, sched, shared, runs>>

\* Runs of the job keep their rows and lose their reference (ON DELETE SET NULL).
DeleteCommit(c) ==
    /\ At(c, "deleting")
    /\ job' = [job EXCEPT ![co[c].job] = NoRow("deleted")]
    /\ End(c)
    /\ UNCHANGED <<sched, shared, runs>>

RequestFails(c) ==
    /\ DbFails
    /\ co[c].op \in {"creating", "checking", "updating", "deleting"}
    /\ End(c)
    /\ UNCHANGED <<job, sched, shared, runs>>

-----------------------------------------------------------------------------
(* trigger_job_now                                                         *)

\* Any present job, enabled or not.
Trigger(c, j, w) ==
    /\ Present(j)
    /\ runs[j] < MaxRuns
    /\ Begin(c, "triggering", j, w, None, None)
    /\ UNCHANGED <<job, sched, shared, runs>>

SubmitWithoutForeignKey(c) ==
    /\ At(c, "triggering")
    /\ shared[co[c].at] = "ok"
    /\ runs' = [runs EXCEPT ![co[c].job] = @ + 1]
    /\ End(c)
    /\ UNCHANGED <<job, sched, shared>>

(* AgentRuntimeService.submit: the run's row refers to the job's.           *)
Submit(c) ==
    /\ At(c, "triggering")
    /\ shared[co[c].at] = "ok"
    /\ Present(co[c].job)
    /\ runs' = [runs EXCEPT ![co[c].job] = @ + 1]
    /\ End(c)
    /\ UNCHANGED <<job, sched, shared>>

(* A flush that fails, on the foreign key of a job deleted meanwhile or     *)
(* because the database failed, leaves the session unusable until somebody  *)
(* rolls it back; nobody does.  Two submissions that overlap in one session *)
(* may also raise, without harm to the session.                             *)
SubmitFails(c) ==
    /\ At(c, "triggering")
    /\ LET w == co[c].at IN
         \/ shared[w] = "broken" /\ UNCHANGED shared
         \/ /\ ~Present(co[c].job) \/ DbFails
            /\ shared' = [shared EXCEPT ![w] = "broken"]
         \/ /\ \E d \in Coros \ {c} : At(d, "triggering") /\ co[d].at = w
            /\ UNCHANGED shared
    /\ End(c)
    /\ UNCHANGED <<job, sched, runs>>

-----------------------------------------------------------------------------
(* Processes *)

\* add_job raises whenever it is called: registering succeeds for no job at all.
Registers(S) == S = {}

(* start(): every enabled job is registered, then APScheduler is started;   *)
(* what is raised is logged, and the worker serves.                         *)
Restore(w) ==
    /\ sched[w] = "down"
    /\ sched' = [sched EXCEPT ![w] = IF Registers(EnabledJobs) THEN "started" ELSE "unstarted"]
    /\ UNCHANGED <<job, shared, runs, co>>

(* The recovery scan before it raised, or the reading of the jobs did.      *)
StartFails(w) ==
    /\ DbFails
    /\ sched[w] = "down"
    /\ \E s \in {"missing", "unstarted"} : sched' = [sched EXCEPT ![w] = s]
    /\ UNCHANGED <<job, shared, runs, co>>

Crash(w) ==
    /\ sched[w] # "down"
    /\ sched' = [sched EXCEPT ![w] = "down"]
    /\ shared' = [shared EXCEPT ![w] = "ok"]
    /\ co' = [c \in Coros |-> IF co[c].at = w THEN Idle ELSE co[c]]
    /\ UNCHANGED <<job, runs>>

(* The endpoints: each calls its operation of the service.                  *)
Request(c, j, w) ==
    \/ \E n \in Names : CreateCheck(c, j, w, n)
    \/ \E ask \in Asks : UpdateLoad(c, j, w, ask)
    \/ DeleteLoad(c, j, w)
    \/ Trigger(c, j, w)

Step(c) == \/ CreateCommit(c) \/ UpdateCheck(c) \/ UpdateCommit(c) \/ DeleteCommit(c)
           \/ RequestFails(c) \/ Submit(c) \/ SubmitFails(c)

Process(w) == Restore(w) \/ StartFails(w) \/ Crash(w)

Next == \/ \E c \in Coros, j \in Jobs, w \in Workers : Request(c, j, w)
        \/ \E c \in Coros : Step(c)
        \/ \E w \in Workers : Process(w)

Spec == Init /\ [][Next]_vars
-----------------------------------------------------------------------------
(* Properties *)

Coroutine == [op : Busy \cup {"idle"}, job : Jobs \cup {None}, at : Workers \cup {None},
              cols : Columns \cup {None}, ask : Asks \cup {None}]

\* What a request carries fits its step.
SlotOK(s) ==
    \/ s = Idle
    \/ /\ s.op \in Busy
       /\ s.job \in Jobs /\ s.at \in Workers
       /\ s.op \in {"creating", "checking", "updating"} => s.cols \in Columns
       /\ s.op \in {"checking", "updating"} => s.ask \in Asks

\* Every variable has its type; a present row has columns.
TypeOK ==
    /\ job \in [Jobs -> JobRow]
    /\ \A j \in Jobs : Present(j) => job[j].cols \in Columns
    /\ sched \in [Workers -> {"down", "missing", "unstarted", "started"}]
    /\ shared \in [Workers -> {"ok", "broken"}]
    /\ runs \in [Jobs -> Nat]
    /\ co \in [Coros -> Coroutine]
    /\ \A c \in Coros : SlotOK(co[c])

(* No two jobs have one name, although creation and renaming look the name  *)
(* up, await, and commit later, in several workers at once, and although a  *)
(* client repeats a creation that was answered with an error after its      *)
(* commit.                                                                 *)
NamesAreUnique ==
    \A i, j \in Jobs : Present(i) /\ Present(j) /\ job[i].cols.name = job[j].cols.name => i = j

(* A job that was deleted gets no run any more, although a trigger request  *)
(* may have loaded it before it went.                                       *)
DeletedGetsNoRuns ==
    [][\A j \in Jobs : job[j].state = "deleted" => runs'[j] = runs[j]]_vars

\* An update under way ends with the commit of the value it was asked for.
AskedFor(j, field) ==
    \E c \in Coros : /\ At(c, "updating") /\ co'[c] = Idle
                     /\ co[c].job = j /\ co[c].ask[field] = job'[j].cols[field]

(* Overlapping updates leave each other's columns alone: a column of a      *)
(* present job changes only in the commit of an update that was asked for   *)
(* this value, however old the row is that the update loaded.               *)
UpdatesKeepApart ==
    [][\A j \in Jobs, field \in {"name", "enabled"} :
          Present(j) /\ Present(j)' /\ job'[j].cols[field] # job[j].cols[field] => AskedFor(j, field)]_vars

(* What the docstring of the module says of start-up: a worker that serves  *)
(* has registered the enabled jobs and started its APScheduler.             *)
ServingIsStarted == \A w \in Workers : Serving(w) => sched[w] = "started"
=============================================================================

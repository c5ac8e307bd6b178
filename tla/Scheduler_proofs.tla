--------------------------- MODULE Scheduler_proofs ---------------------------
(***************************************************************************)
(* Proofs about Scheduler, for any sets of jobs, names, workers, requests   *)
(* and update bodies, whatever the database may do.                         *)
(***************************************************************************)
EXTENDS Scheduler, TLAPS

-----------------------------------------------------------------------------
(* Types *)

JobsOK == /\ job \in [Jobs -> JobRow]
          /\ \A j \in Jobs : Present(j) => job[j].cols \in Columns

WorkersOK == /\ sched \in [Workers -> {"down", "missing", "unstarted", "started"}]
             /\ shared \in [Workers -> {"ok", "broken"}]

RunsOK == runs \in [Jobs -> Nat]

CoOK == /\ co \in [Coros -> Coroutine]
        /\ \A c \in Coros : SlotOK(co[c])

LEMMA TypeParts == TypeOK <=> JobsOK /\ WorkersOK /\ RunsOK /\ CoOK
BY DEF TypeOK, JobsOK, WorkersOK, RunsOK, CoOK

LEMMA IdleOK == Idle \in Coroutine /\ SlotOK(Idle)
BY DEF Idle, Slot, Coroutine, SlotOK

(* A slot that is given a well-formed content, or none, stays well-formed.  *)
LEMMA SlotWritten ==
    ASSUME CoOK, NEW c \in Coros, NEW s \in Coroutine, SlotOK(s), co' = [co EXCEPT ![c] = s]
    PROVE  CoOK'
BY DEF CoOK

LEMMA EndOK == ASSUME CoOK, NEW c \in Coros, End(c) PROVE CoOK'
BY IdleOK, SlotWritten DEF End

LEMMA BeginOK ==
    ASSUME CoOK, NEW c \in Coros, NEW op \in Busy, NEW j \in Jobs, NEW w \in Workers,
           NEW cols \in Columns \cup {None}, NEW ask \in Asks \cup {None},
           op \in {"creating", "checking"} => cols \in Columns,
           op = "checking" => ask \in Asks,
           op # "updating",
           Begin(c, op, j, w, cols, ask)
    PROVE  CoOK'
<1> DEFINE s == Slot(op, j, w, cols, ask)
<1>1. s \in Coroutine /\ SlotOK(s)
  BY DEF Slot, Coroutine, SlotOK, Busy
<1>2. co' = [co EXCEPT ![c] = s]
  BY DEF Begin
<1> HIDE DEF s
<1> QED
  BY <1>1, <1>2, SlotWritten

\* A busy slot holds a job, a worker and what its step needs.
LEMMA BusySlot ==
    ASSUME CoOK, NEW c \in Coros, co[c].op # "idle"
    PROVE  /\ co[c] \in Coroutine /\ co[c].op \in Busy /\ co[c].job \in Jobs /\ co[c].at \in Workers
           /\ co[c].op \in {"creating", "checking", "updating"} => co[c].cols \in Columns
           /\ co[c].op \in {"checking", "updating"} => co[c].ask \in Asks
BY DEF CoOK, SlotOK, Idle, Slot

LEMMA WrittenOK ==
    ASSUME NEW s \in Coroutine, s.ask \in Asks, NEW old \in Columns
    PROVE  Written(s, old) \in Columns
BY SchedulerAssumption DEF Written, Changed, Columns

LEMMA RequestTypeOK ==
    ASSUME TypeOK, NEW c \in Coros, NEW j \in Jobs, NEW w \in Workers, Request(c, j, w)
    PROVE  TypeOK'
<1>0. JobsOK /\ WorkersOK /\ RunsOK /\ CoOK
  BY TypeParts
<1>1. UNCHANGED <<job, sched, shared, runs>>
  BY DEF Request, CreateCheck, UpdateLoad, DeleteLoad, Trigger
<1>2. CoOK'
  <2>1. ASSUME NEW n \in Names, CreateCheck(c, j, w, n) PROVE CoOK'
    <3>1. [name |-> n, enabled |-> TRUE] \in Columns
      BY DEF Columns
    <3> QED
      BY <2>1, <3>1, <1>0, BeginOK DEF CreateCheck, Busy
  <2>2. ASSUME NEW ask \in Asks, UpdateLoad(c, j, w, ask) PROVE CoOK'
    <3>1. job[j].cols \in Columns
      BY <2>2, <1>0 DEF UpdateLoad, JobsOK
    <3> QED
      BY <2>2, <3>1, <1>0, BeginOK DEF UpdateLoad, Busy
  <2>3. DeleteLoad(c, j, w) \/ Trigger(c, j, w) => CoOK'
    BY <1>0, BeginOK DEF DeleteLoad, Trigger, Busy
  <2> QED
    BY <2>1, <2>2, <2>3 DEF Request
<1>3. JobsOK' /\ WorkersOK' /\ RunsOK'
  BY <1>0, <1>1 DEF JobsOK, WorkersOK, RunsOK, Present
<1> QED
  BY <1>2, <1>3 DEF TypeOK, JobsOK, WorkersOK, RunsOK, CoOK

LEMMA StepTypeOK == ASSUME TypeOK, NEW c \in Coros, Step(c) PROVE TypeOK'
<1> DEFINE s == co[c]
<1>0. JobsOK /\ WorkersOK /\ RunsOK /\ CoOK
  BY TypeParts
<1>a. s.op # "idle"
  BY DEF Step, CreateCommit, UpdateCheck, UpdateCommit, DeleteCommit, RequestFails, Submit, SubmitFails, At
<1>b. /\ s \in Coroutine /\ s.op \in Busy /\ s.job \in Jobs /\ s.at \in Workers
      /\ s.op \in {"creating", "checking", "updating"} => s.cols \in Columns
      /\ s.op \in {"checking", "updating"} => s.ask \in Asks
  BY <1>a, <1>0, BusySlot
<1> SUFFICES JobsOK' /\ WorkersOK' /\ RunsOK' /\ CoOK'
  BY DEF TypeOK, JobsOK, WorkersOK, RunsOK, CoOK
<1>1. CASE CreateCommit(c)
  <2>1. s.cols \in Columns /\ Row(s.cols) \in JobRow
    BY <1>1, <1>b DEF CreateCommit, At, Row, JobRow
  <2>2. JobsOK'
    BY <1>1, <1>b, <2>1, <1>0 DEF CreateCommit, JobsOK, Row, Present
  <2> QED
    BY <1>1, <2>2, <1>0, EndOK DEF CreateCommit, WorkersOK, RunsOK
<1>2. CASE UpdateCheck(c)
  <2>1. CoOK'
    <3> DEFINE t == [s EXCEPT !.op = "updating"]
    <3>1. t \in Coroutine /\ SlotOK(t)
      <4>1. s.op = "checking" /\ s.cols \in Columns /\ s.ask \in Asks
        BY <1>2, <1>b DEF UpdateCheck, At
      <4> QED
        BY <1>b, <4>1 DEF Coroutine, SlotOK, Busy
    <3>2. co' = [co EXCEPT ![c] = t] \/ End(c)
      BY <1>2 DEF UpdateCheck
    <3> HIDE DEF t
    <3> QED
      BY <3>1, <3>2, <1>0, SlotWritten, EndOK
  <2> QED
    BY <1>2, <2>1, <1>0 DEF UpdateCheck, JobsOK, WorkersOK, RunsOK, Present
<1>3. CASE UpdateCommit(c)
  <2> DEFINE new == Written(s, job[s.job].cols)
  <2>1. ASSUME Present(s.job) PROVE new \in Columns /\ Row(new) \in JobRow
    <3>1. job[s.job].cols \in Columns /\ s.ask \in Asks
      BY <1>3, <1>b, <2>1, <1>0 DEF UpdateCommit, At, JobsOK
    <3> QED
      BY <1>b, <3>1, WrittenOK DEF Row, JobRow
  <2>2. job' = job \/ (Present(s.job) /\ job' = [job EXCEPT ![s.job] = Row(new)])
    BY <1>3 DEF UpdateCommit
  <2>3. JobsOK'
    <3> HIDE DEF new
    <3> QED
      BY <1>b, <2>1, <2>2, <1>0 DEF JobsOK, Row, Present
  <2> QED
    BY <1>3, <2>3, <1>0, EndOK DEF UpdateCommit, WorkersOK, RunsOK
<1>4. CASE DeleteCommit(c)
  <2>1. JobsOK'
    BY <1>4, <1>b, <1>0 DEF DeleteCommit, JobsOK, NoRow, JobRow, Present
  <2> QED
    BY <1>4, <2>1, <1>0, EndOK DEF DeleteCommit, WorkersOK, RunsOK
<1>5. CASE RequestFails(c)
  BY <1>5, <1>0, EndOK DEF RequestFails, JobsOK, WorkersOK, RunsOK, Present
<1>6. CASE Submit(c)
  <2>1. RunsOK'
    BY <1>6, <1>b, <1>0 DEF Submit, RunsOK
  <2> QED
    BY <1>6, <2>1, <1>0, EndOK DEF Submit, JobsOK, WorkersOK, Present
<1>7. CASE SubmitFails(c)
  <2>1. WorkersOK'
    BY <1>7, <1>0 DEF SubmitFails, WorkersOK
  <2> QED
    BY <1>7, <2>1, <1>0, EndOK DEF SubmitFails, JobsOK, RunsOK, Present
<1> QED
  BY <1>1, <1>2, <1>3, <1>4, <1>5, <1>6, <1>7 DEF Step

LEMMA ProcessTypeOK == ASSUME TypeOK, NEW w \in Workers, Process(w) PROVE TypeOK'
<1>0. JobsOK /\ WorkersOK /\ RunsOK /\ CoOK
  BY TypeParts
<1>1. WorkersOK'
  BY <1>0 DEF Process, Restore, StartFails, Crash, WorkersOK
<1>2. CoOK'
  BY <1>0, IdleOK DEF Process, Restore, StartFails, Crash, CoOK
<1>3. JobsOK' /\ RunsOK'
  BY <1>0 DEF Process, Restore, StartFails, Crash, JobsOK, RunsOK, Present
<1> QED
  BY <1>1, <1>2, <1>3 DEF TypeOK, JobsOK, WorkersOK, RunsOK, CoOK

LEMMA NextTypeOK == TypeOK /\ [Next]_vars => TypeOK'
<1>1. TypeOK /\ UNCHANGED vars => TypeOK'
  BY DEF vars, TypeOK, Present
<1> QED
  BY <1>1, RequestTypeOK, StepTypeOK, ProcessTypeOK DEF Next

(* Every variable of the scheduler keeps its type, and a request holds what *)
(* its next step needs.                                                     *)
THEOREM TypeCorrect == Spec => []TypeOK
<1>1. Init => TypeOK
  BY IdleOK DEF Init, TypeOK, NoRow, JobRow, Present
<1> QED
  BY <1>1, NextTypeOK, PTL DEF Spec

-----------------------------------------------------------------------------
(* Who writes what *)

(* Only a submission that finds the job's row makes a run, and it makes one *)
(* for that job.                                                            *)
LEMMA OnlySubmitMakesRuns == [Next]_vars => UNCHANGED runs \/ \E c \in Coros : Submit(c)
BY DEF Next, Request, Step, Process, CreateCheck, UpdateLoad, DeleteLoad, Trigger, CreateCommit,
       UpdateCheck, UpdateCommit, DeleteCommit, RequestFails, SubmitFails, Restore, StartFails, Crash, vars

(* Only the three commits change the table.                                 *)
LEMMA OnlyCommitsWrite ==
    [Next]_vars => UNCHANGED job \/ \E c \in Coros : CreateCommit(c) \/ UpdateCommit(c) \/ DeleteCommit(c)
BY DEF Next, Request, Step, Process, CreateCheck, UpdateLoad, DeleteLoad, Trigger,
       UpdateCheck, RequestFails, Submit, SubmitFails, Restore, StartFails, Crash, vars

(* A job that is deleted gets no run any more, although a request loaded it *)
(* before it went.                                                          *)
THEOREM NoRunsAfterDelete == Spec => DeletedGetsNoRuns
<1>1. ASSUME TypeOK, [Next]_vars, NEW j \in Jobs, job[j].state = "deleted" PROVE runs'[j] = runs[j]
  <2>1. ASSUME NEW c \in Coros, Submit(c) PROVE runs'[j] = runs[j]
    <3>1. co[c].job # j /\ runs' = [runs EXCEPT ![co[c].job] = @ + 1] /\ runs \in [Jobs -> Nat]
      BY <1>1, <2>1 DEF Submit, Present, TypeOK
    <3> QED
      BY <3>1
  <2> QED
    BY <1>1, <2>1, OnlySubmitMakesRuns
<1>2. TypeOK /\ [Next]_vars =>
         [\A j \in Jobs : job[j].state = "deleted" => runs'[j] = runs[j]]_vars
  BY <1>1
<1> QED
  BY <1>2, TypeCorrect, PTL DEF Spec, DeletedGetsNoRuns

-----------------------------------------------------------------------------
(* Names *)

\* A row whose name is free may be written.
LEMMA FreeNameWritten ==
    ASSUME JobsOK, NamesAreUnique, NEW j \in Jobs, NEW cols \in Columns, NameFree(j, cols.name),
           job' = [job EXCEPT ![j] = Row(cols)]
    PROVE  NamesAreUnique'
<1>1. job'[j] = Row(cols) /\ \A i \in Jobs \ {j} : job'[i] = job[i]
  BY DEF JobsOK
<1>2. ASSUME NEW i \in Jobs, NEW k \in Jobs, Present(i)', Present(k)',
             job'[i].cols.name = job'[k].cols.name, i # k
      PROVE  FALSE
  <2>1. Row(cols).cols = cols
    BY DEF Row
  <2>2. CASE i # j /\ k # j
    BY <1>1, <1>2, <2>2 DEF Present, NamesAreUnique
  <2>3. CASE i = j
    BY <1>1, <1>2, <2>1, <2>3 DEF Present, NameFree
  <2>4. CASE k = j
    BY <1>1, <1>2, <2>1, <2>4 DEF Present, NameFree
  <2> QED
    BY <2>2, <2>3, <2>4
<1> QED
  BY <1>2 DEF NamesAreUnique

(* No two jobs have one name: whatever the look-ups before said, a commit   *)
(* writes a name only while nobody else has it.                             *)
THEOREM NamesUnique == Spec => []NamesAreUnique
<1>1. Init => NamesAreUnique
  BY DEF Init, NamesAreUnique, NoRow, Present
<1>2. TypeOK /\ NamesAreUnique /\ [Next]_vars => NamesAreUnique'
  <2> SUFFICES ASSUME TypeOK, NamesAreUnique, [Next]_vars PROVE NamesAreUnique'
    OBVIOUS
  <2>0. JobsOK /\ CoOK
    BY TypeParts
  <2>1. ASSUME UNCHANGED job PROVE NamesAreUnique'
    BY <2>1 DEF NamesAreUnique, Present
  <2>2. ASSUME NEW c \in Coros, CreateCommit(c) PROVE NamesAreUnique'
    <3>1. co[c].job \in Jobs /\ co[c].cols \in Columns
      BY <2>2, <2>0, BusySlot DEF CreateCommit, At
    <3> QED
      BY <2>1, <2>2, <3>1, <2>0, FreeNameWritten DEF CreateCommit
  <2>3. ASSUME NEW c \in Coros, UpdateCommit(c) PROVE NamesAreUnique'
    <3> DEFINE j == co[c].job
               new == Written(co[c], job[j].cols)
    <3>1. j \in Jobs /\ co[c] \in Coroutine /\ co[c].ask \in Asks
      BY <2>3, <2>0, BusySlot DEF UpdateCommit, At
    <3>2. Present(j) => new \in Columns
      BY <3>1, <2>0, WrittenOK DEF JobsOK
    <3>3. UNCHANGED job \/ (Present(j) /\ NameFree(j, new.name) /\ job' = [job EXCEPT ![j] = Row(new)])
      BY <2>3 DEF UpdateCommit
    <3> HIDE DEF new, j
    <3> QED
      BY <2>1, <3>1, <3>2, <3>3, <2>0, FreeNameWritten
  <2>4. ASSUME NEW c \in Coros, DeleteCommit(c) PROVE NamesAreUnique'
    <3>1. \A i \in Jobs : Present(i)' => Present(i) /\ job'[i] = job[i]
      BY <2>4, <2>0 DEF DeleteCommit, NoRow, Present, JobsOK
    <3> QED
      BY <3>1 DEF NamesAreUnique
  <2> QED
    BY <2>1, <2>2, <2>3, <2>4, OnlyCommitsWrite
<1> QED
  BY <1>1, <1>2, TypeCorrect, PTL DEF Spec

-----------------------------------------------------------------------------
(* Updates *)

(* An id under creation is in the table of nobody and in no other request.  *)
IdsAreFresh ==
    \A c \in Coros : At(c, "creating") =>
        /\ job[co[c].job].state = "absent"
        /\ \A d \in Coros \ {c} : co[d].job # co[c].job

\* A slot that keeps its job or gives it up disturbs no other; nor does the table.
LEMMA FreshKept ==
    ASSUME CoOK, IdsAreFresh,
           \A c \in Coros : co'[c].op = "creating" => co[c].op = "creating" /\ co'[c].job = co[c].job,
           \A c \in Coros : co'[c].job \in {co[c].job, None},
           \A c \in Coros : co'[c].op = "creating" => job'[co[c].job] = job[co[c].job]
    PROVE  IdsAreFresh'
<1> SUFFICES ASSUME NEW c \in Coros, co'[c].op = "creating"
             PROVE  /\ job'[co'[c].job].state = "absent"
                    /\ \A d \in Coros \ {c} : co'[d].job # co'[c].job
  BY DEF IdsAreFresh, At
<1>1. co[c].op = "creating" /\ co'[c].job = co[c].job /\ job'[co[c].job] = job[co[c].job]
  OBVIOUS
<1>2. co[c].job \in Jobs
  BY <1>1, BusySlot
<1>3. co[c].job # None
  BY <1>2, SchedulerAssumption
<1> QED
  BY <1>1, <1>3 DEF IdsAreFresh, At

LEMMA FreshBegun ==
    ASSUME CoOK, IdsAreFresh, NEW c \in Coros, NEW op \in Busy, NEW j \in Jobs, NEW w, NEW cols, NEW ask,
           Begin(c, op, j, w, cols, ask), UNCHANGED job,
           IF op = "creating" THEN job[j].state = "absent" /\ \A d \in Coros : co[d].job # j ELSE Present(j)
    PROVE  IdsAreFresh'
<1> DEFINE s == Slot(op, j, w, cols, ask)
<1>1. s.op = op /\ s.job = j
  BY DEF Slot
<1>2. co'[c] = s /\ \A d \in Coros \ {c} : co'[d] = co[d]
  BY DEF Begin, CoOK
<1> HIDE DEF s
<1> SUFFICES ASSUME NEW d \in Coros, co'[d].op = "creating"
             PROVE  /\ job[co'[d].job].state = "absent"
                    /\ \A e \in Coros \ {d} : co'[e].job # co'[d].job
  BY DEF IdsAreFresh, At
<1>3. CASE d = c
  BY <1>1, <1>2, <1>3
<1>4. CASE d # c
  <2>1. job[co[d].job].state = "absent" /\ \A e \in Coros \ {d} : co[e].job # co[d].job
    BY <1>2, <1>4 DEF IdsAreFresh, At
  <2>2. j # co[d].job
    BY <2>1 DEF Present
  <2> QED
    BY <1>1, <1>2, <1>4, <2>1, <2>2
<1> QED
  BY <1>3, <1>4

LEMMA FreshStep == TypeOK /\ IdsAreFresh /\ [Next]_vars => IdsAreFresh'
<1> SUFFICES ASSUME TypeOK, IdsAreFresh, [Next]_vars PROVE IdsAreFresh'
  OBVIOUS
<1>0. JobsOK /\ CoOK /\ co \in [Coros -> Coroutine] /\ job \in [Jobs -> JobRow]
  BY TypeParts DEF CoOK, JobsOK
<1>1. ASSUME NEW c \in Coros, NEW j \in Jobs, NEW w \in Workers, Request(c, j, w) PROVE IdsAreFresh'
  <2>1. ASSUME NEW n \in Names, CreateCheck(c, j, w, n) PROVE IdsAreFresh'
    BY <2>1, <1>0, FreshBegun DEF CreateCheck, Busy
  <2>2. ASSUME NEW ask \in Asks, UpdateLoad(c, j, w, ask) PROVE IdsAreFresh'
    BY <2>2, <1>0, FreshBegun DEF UpdateLoad, Busy
  <2>3. DeleteLoad(c, j, w) \/ Trigger(c, j, w) => IdsAreFresh'
    BY <1>0, FreshBegun DEF DeleteLoad, Trigger, Busy
  <2> QED
    BY <1>1, <2>1, <2>2, <2>3 DEF Request
<1>2. ASSUME NEW c \in Coros, Step(c) PROVE IdsAreFresh'
  <2>1. \/ co' = [co EXCEPT ![c] = Idle]
        \/ At(c, "checking") /\ co' = [co EXCEPT ![c] = [@ EXCEPT !.op = "updating"]]
    BY <1>2 DEF Step, CreateCommit, UpdateCheck, UpdateCommit, DeleteCommit, RequestFails, Submit, SubmitFails, End
  <2>2. \A d \in Coros \ {c} : co'[d] = co[d]
    BY <2>1, <1>0
  <2>3. co'[c].op # "creating" /\ co'[c].job \in {co[c].job, None}
    BY <2>1, <1>0 DEF Idle, Slot, Coroutine
  <2>4. \A j \in Jobs \ {co[c].job} : job'[j] = job[j]
    BY <1>2, <1>0 DEF Step, CreateCommit, UpdateCheck, UpdateCommit, DeleteCommit, RequestFails, Submit, SubmitFails
  <2>5. ASSUME NEW d \in Coros, co'[d].op = "creating"
        PROVE  d # c /\ co[d].job \in Jobs \ {co[c].job}
    <3>1. d # c /\ co[d].op = "creating"
      BY <2>2, <2>3, <2>5
    <3> QED
      BY <3>1, <1>0, BusySlot DEF IdsAreFresh, At
  <2> QED
    BY <2>2, <2>3, <2>4, <2>5, <1>0, FreshKept
<1>3. ASSUME NEW w \in Workers, Process(w) PROVE IdsAreFresh'
  <2>1. UNCHANGED job /\ \A c \in Coros : co'[c] \in {co[c], Idle}
    BY <1>3, <1>0 DEF Process, Restore, StartFails, Crash
  <2>2. Idle.op # "creating" /\ Idle.job = None
    BY DEF Idle, Slot
  <2> QED
    BY <2>1, <2>2, <1>0, FreshKept
<1>4. CASE UNCHANGED vars
  BY <1>4 DEF vars, IdsAreFresh, At
<1> QED
  BY <1>1, <1>2, <1>3, <1>4 DEF Next

LEMMA ColumnsKeptApart ==
    ASSUME TypeOK, IdsAreFresh, [Next]_vars, NEW j \in Jobs, NEW field \in {"name", "enabled"},
           Present(j), Present(j)', job'[j].cols[field] # job[j].cols[field]
    PROVE  AskedFor(j, field)
<1>0. job \in [Jobs -> JobRow] /\ co \in [Coros -> Coroutine] /\ CoOK
  BY TypeParts DEF CoOK, JobsOK
<1>1. ASSUME NEW c \in Coros, CreateCommit(c) PROVE FALSE
  <2>1. co[c].job # j
    BY <1>1 DEF IdsAreFresh, CreateCommit, Present
  <2> QED
    BY <1>1, <2>1, <1>0 DEF CreateCommit
<1>2. ASSUME NEW c \in Coros, DeleteCommit(c) PROVE FALSE
  <2>1. co[c].job # j
    BY <1>2, <1>0 DEF DeleteCommit, NoRow, Present
  <2> QED
    BY <1>2, <2>1, <1>0 DEF DeleteCommit
<1>3. ASSUME NEW c \in Coros, UpdateCommit(c) PROVE AskedFor(j, field)
  <2> DEFINE new == Written(co[c], job[co[c].job].cols)
  <2>1. co[c].job = j /\ job' = [job EXCEPT ![j] = Row(new)]
    BY <1>3, <1>0 DEF UpdateCommit
  <2>2. job'[j].cols = new
    BY <2>1, <1>0 DEF Row
  <2>3. new[field] # job[j].cols[field]
    BY <2>2
  <2>4. new[field] = co[c].ask[field]
    <3>1. CASE field = "name"
      <4>1. new["name"] = IF Changed(co[c], "name") THEN co[c].ask.name ELSE job[j].cols.name
        BY <2>1 DEF Written
      <4> QED
        BY <2>3, <3>1, <4>1
    <3>2. CASE field = "enabled"
      <4>1. new["enabled"] = IF Changed(co[c], "enabled") THEN co[c].ask.enabled ELSE job[j].cols.enabled
        BY <2>1 DEF Written
      <4> QED
        BY <2>3, <3>2, <4>1
    <3> QED
      BY <3>1, <3>2
  <2>5. At(c, "updating") /\ co'[c] = Idle
    BY <1>3, <1>0 DEF UpdateCommit, End
  <2> QED
    BY <2>1, <2>2, <2>4, <2>5 DEF AskedFor
<1> QED
  BY <1>1, <1>2, <1>3, OnlyCommitsWrite

(* A column of a present job changes only in the commit of an update that   *)
(* was asked for the value it gets, however old the row is that it loaded.  *)
THEOREM UpdatesApart == Spec => UpdatesKeepApart
<1>1. Init => IdsAreFresh
  BY DEF Init, IdsAreFresh, At, Idle, Slot
<1>2. TypeOK /\ IdsAreFresh /\ [Next]_vars =>
         [\A j \in Jobs, field \in {"name", "enabled"} :
            Present(j) /\ Present(j)' /\ job'[j].cols[field] # job[j].cols[field] => AskedFor(j, field)]_vars
  BY ColumnsKeptApart
<1> QED
  BY <1>1, <1>2, FreshStep, TypeCorrect, PTL DEF Spec, UpdatesKeepApart
===============================================================================

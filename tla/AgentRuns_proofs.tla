--------------------------- MODULE AgentRuns_proofs ---------------------------
(***************************************************************************)
(* Proofs about AgentRuns, for every number of runs, workers and slots.     *)
(***************************************************************************)
EXTENDS AgentRuns, TLAPS

(* Every operator that describes a written row yields a row. *)
LEMMA RowOperators ==
    ASSUME NEW d \in Row
    PROVE  /\ CancelledRow(d) \in Row /\ ResumedRow(d) \in Row /\ CompletedRow(d) \in Row
           /\ RecoveredRow(d) \in Row /\ LostRow(d) \in Row /\ StampedRow(d) \in Row
           /\ [d EXCEPT !.old = TRUE] \in Row
  BY DEF Row, Status, CancelledRow, ResumedRow, CompletedRow, StampedRow, RecoveredRow, LostRow

LEMMA NewRowTyped == NoRow \in Row /\ \A o \in {"user", "nobody"} : NewRow(o) \in Row
  BY DEF Row, Status, NoRow, NewRow

LEMMA IdleSlot == SlotOK(Idle) /\ Idle \in Coroutine
  BY DEF SlotOK, Idle, Coroutine

(* A busy slot that moves to another phase is still a busy slot. *)
LEMMA MovedSlot ==
    ASSUME NEW c \in Coros, co \in [Coros -> Coroutine], SlotOK(co[c]), ~At(c, "idle"),
           NEW p \in Asking \cup Working, Goto(c, p), \A d \in Coros : SlotOK(co[d])
    PROVE  co' \in [Coros -> Coroutine] /\ \A d \in Coros : SlotOK(co'[d])
<1>1. [co[c] EXCEPT !.phase = p] \in Coroutine
  BY DEF Coroutine
<1>2. co[c].run \in Runs /\ co[c].at \in Workers
  BY DEF SlotOK, At, Idle
<1>3. p # "idle"
  BY DEF Asking, Working
<1>4. SlotOK([co[c] EXCEPT !.phase = p])
  BY <1>1, <1>2, <1>3 DEF SlotOK, Coroutine
<1>5. co' = [co EXCEPT ![c] = [co[c] EXCEPT !.phase = p]]
  BY DEF Goto
<1>6. QED
  BY <1>1, <1>4, <1>5

LEMMA StartedSlot ==
    ASSUME NEW c \in Coros, co \in [Coros -> Coroutine], NEW p \in Asking \cup Working,
           NEW r \in Runs, NEW w \in Workers, Start(c, p, r, w), \A d \in Coros : SlotOK(co[d])
    PROVE  co' \in [Coros -> Coroutine] /\ \A d \in Coros : SlotOK(co'[d])
<1> DEFINE k == [phase |-> p, run |-> r, at |-> w]
<1>1. k \in Coroutine /\ SlotOK(k)
  BY DEF SlotOK, Coroutine, Asking, Working
<1>2. co' = [co EXCEPT ![c] = k]
  BY DEF Start
<1>3. QED
  BY <1>1, <1>2

LEMMA EndedSlot ==
    ASSUME NEW c \in Coros, co \in [Coros -> Coroutine], End(c), \A d \in Coros : SlotOK(co[d])
    PROVE  co' \in [Coros -> Coroutine] /\ \A d \in Coros : SlotOK(co'[d])
  BY IdleSlot DEF End, SlotOK

-----------------------------------------------------------------------------
LEMMA TypeInit == Init => TypeOK
  BY NewRowTyped, IdleSlot DEF Init, TypeOK

LEMMA TypeRequest ==
    ASSUME TypeOK, NEW c \in Coros, NEW r \in Runs, NEW w \in Workers, Request(c, r, w)
    PROVE  TypeOK'
<1> USE DEF TypeOK
<1>1. ASSUME NEW o \in {"user", "nobody"}, Submit(c, r, w, o) PROVE TypeOK'
  BY <1>1, StartedSlot, NewRowTyped DEF Submit, Write, Working, TypeOK, SlotOK, At
<1>2. CASE CancelCheck(c, r, w)
  BY <1>2, StartedSlot DEF CancelCheck, Asking, TypeOK, SlotOK, At
<1>3. CASE ResumeCheck(c, r, w)
  BY <1>3, StartedSlot DEF ResumeCheck, Asking, TypeOK, SlotOK, At
<1>4. QED
  BY <1>1, <1>2, <1>3 DEF Request

LEMMA TypeStep ==
    ASSUME TypeOK, NEW c \in Coros, Step(c)
    PROVE  TypeOK'
<1> USE DEF TypeOK
<1>0. /\ SlotOK(co[c])
      /\ ~At(c, "idle") => co[c].run \in Runs /\ row[co[c].run] \in Row
  BY DEF SlotOK, Idle, At
<1>1. CASE Dispatch(c)
  BY <1>0, <1>1, MovedSlot DEF Dispatch, Working, At
<1>2. CASE SaveCheckpoint(c)
  <2>1. co[c].run \in Runs
    BY <1>0, <1>2 DEF SaveCheckpoint, At
  <2>2. ckpt' \in [Runs -> BOOLEAN]
    BY <2>1, <1>2 DEF SaveCheckpoint
  <2>3. QED
    BY <2>2, <1>2 DEF SaveCheckpoint, TypeOK, At
<1>3. CASE ExecutorReturns(c)
  BY <1>0, <1>3, MovedSlot DEF ExecutorReturns, Working, At
<1>4. CASE TimeLimit(c)
  <2>1. co' \in [Coros -> Coroutine] /\ \A d \in Coros : SlotOK(co'[d])
    BY <1>0, <1>4, MovedSlot DEF TimeLimit, Working, At
  <2>2. ckpt' \in [Runs -> BOOLEAN]
    BY <1>0, <1>4 DEF TimeLimit, At
  <2>3. QED
    BY <2>1, <2>2, <1>4 DEF TimeLimit
<1>5. CASE Evaluate(c)
  <2>1. co' \in [Coros -> Coroutine] /\ \A d \in Coros : SlotOK(co'[d])
    BY <1>0, <1>5, MovedSlot DEF Evaluate, Working, At
  <2>2. evals' \in [Runs -> 0..2]
    BY <1>0, <1>5 DEF Evaluate, At
  <2>3. QED
    BY <2>1, <2>2, <1>5 DEF Evaluate
<1>6. CASE FinalizeLoad(c)
  BY <1>0, <1>6, MovedSlot DEF FinalizeLoad, Working, At
<1>12. CASE FinalizeCompleted(c)
  <2>1. co' \in [Coros -> Coroutine] /\ \A d \in Coros : SlotOK(co'[d])
    BY <1>12, EndedSlot DEF FinalizeCompleted
  <2>2. row' \in [Runs -> Row]
    BY <1>0, <1>12, RowOperators DEF FinalizeCompleted, Write, At
  <2>3. QED
    BY <2>1, <2>2, <1>12 DEF FinalizeCompleted
<1>7. CASE FinalizeFailed(c)
  BY <1>0, <1>7, EndedSlot DEF FinalizeFailed
<1>8. CASE StoreBreaks(c)
  BY <1>0, <1>8, EndedSlot DEF StoreBreaks
<1>9. CASE CancelCommit(c)
  BY <1>0, <1>9, EndedSlot, RowOperators DEF CancelCommit, Write, Record, At
<1>10. CASE ResumeCommit(c)
  <2>1. co' \in [Coros -> Coroutine] /\ \A d \in Coros : SlotOK(co'[d])
    BY <1>0, <1>10, MovedSlot DEF ResumeCommit, Working, At
  <2>2. row' \in [Runs -> Row]
    BY <1>0, <1>10, RowOperators DEF ResumeCommit, Write, At
  <2>3. QED
    BY <1>0, <2>1, <2>2, <1>10 DEF ResumeCommit, Record, At
<1>11. QED
  BY <1>1, <1>2, <1>3, <1>4, <1>5, <1>6, <1>7, <1>8, <1>9, <1>10, <1>12 DEF Step

LEMMA TypeProcess ==
    ASSUME TypeOK, NEW w \in Workers, Process(w)
    PROVE  TypeOK'
<1> USE DEF TypeOK
<1>1. CASE BootScan(w)
  BY <1>1 DEF BootScan
<1>2. CASE Serve(w)
  BY <1>2 DEF Serve
<1>3. CASE Crash(w)
  BY <1>3, IdleSlot DEF Crash, SlotOK
<1>4. ASSUME NEW r \in Runs, ScanRun(w, r) PROVE TypeOK'
  <2>0. RecoveredRow(row[r]) \in Row /\ LostRow(row[r]) \in Row
    BY RowOperators
  <2>1. row' \in [Runs -> Row]
    BY <1>4, <2>0 DEF ScanRun, Write
  <2>2. todo' \in [Workers -> SUBSET Runs]
    BY <1>4 DEF ScanRun
  <2>3. QED
    BY <1>4, <2>1, <2>2 DEF ScanRun, Record
<1>5. QED
  BY <1>1, <1>2, <1>3, <1>4 DEF Process

(* TypeOK holds in every state: the statuses, phases and worker states the  *)
(* code writes are the ones the model declares, and a slot at rest is empty. *)
THEOREM TypeCorrect == Spec => []TypeOK
<1>1. ASSUME TypeOK, [Next]_vars PROVE TypeOK'
  <2>1. ASSUME NEW r \in Runs, GrowOld(r) PROVE TypeOK'
    BY <1>1, <2>1, RowOperators DEF GrowOld, TypeOK
  <2>2. CASE UNCHANGED vars
    BY <1>1, <2>2 DEF vars, TypeOK
  <2>3. QED
    BY <1>1, <2>1, <2>2, TypeRequest, TypeStep, TypeProcess DEF Next
<1>2. QED
  BY <1>1, TypeInit, PTL DEF Spec

-----------------------------------------------------------------------------
(* Coroutines, workers and time *)

(* What a step of a coroutine leaves alone: the workers, the scans, and     *)
(* every other slot.                                                        *)
LEMMA StepFrame ==
    ASSUME TypeOK, NEW c \in Coros, Step(c)
    PROVE  /\ UNCHANGED <<worker, todo>>
           /\ ~At(c, "idle")
           /\ \A d \in Coros : d # c => co'[d] = co[d]
           /\ co'[c] = Idle \/ (co'[c].run = co[c].run /\ co'[c].at = co[c].at)
           /\ co'[c].phase \in Working => co[c].phase \in Working \cup {"resuming"}
           /\ co'[c].phase \in Working /\ co[c].phase = "resuming" => ResumeCommit(c)
<1>1. ASSUME End(c)
      PROVE  /\ \A d \in Coros : d # c => co'[d] = co[d]
             /\ co'[c] = Idle /\ co'[c].phase \notin Working
  BY <1>1 DEF End, TypeOK, Idle, Working
<1>2. ASSUME NEW p, Goto(c, p), ~At(c, "idle")
      PROVE  /\ \A d \in Coros : d # c => co'[d] = co[d]
             /\ co'[c].phase = p /\ co'[c].run = co[c].run /\ co'[c].at = co[c].at
  BY <1>2 DEF Goto, TypeOK, Coroutine
<1>3. CASE Dispatch(c)
  BY <1>2, <1>3 DEF Dispatch, At, Working
<1>4. CASE SaveCheckpoint(c)
  BY <1>4 DEF SaveCheckpoint, At, Working
<1>5. CASE ExecutorReturns(c)
  BY <1>2, <1>5 DEF ExecutorReturns, At, Working
<1>6. CASE TimeLimit(c)
  BY <1>2, <1>6 DEF TimeLimit, At, Working
<1>7. CASE Evaluate(c)
  BY <1>2, <1>7 DEF Evaluate, At, Working
<1>11. CASE FinalizeLoad(c)
  BY <1>2, <1>11 DEF FinalizeLoad, At, Working
<1>8. CASE FinalizeCompleted(c) \/ FinalizeFailed(c) \/ CancelCommit(c) \/ StoreBreaks(c)
  <2>1. End(c) /\ ~At(c, "idle") /\ UNCHANGED <<worker, todo>>
    BY <1>8 DEF FinalizeCompleted, FinalizeFailed, CancelCommit, StoreBreaks, At
  <2>2. QED
    BY <1>1, <2>1
<1>9. CASE ResumeCommit(c)
  BY <1>2, <1>9 DEF ResumeCommit, At
<1>10. QED
  BY <1>3, <1>4, <1>5, <1>6, <1>7, <1>8, <1>9, <1>11 DEF Step

(* A request starts in a free slot of a serving worker and touches no other. *)
LEMMA RequestFrame ==
    ASSUME TypeOK, NEW c \in Coros, NEW r \in Runs, NEW w \in Workers, Request(c, r, w)
    PROVE  /\ UNCHANGED <<worker, todo>>
           /\ worker[w] = "up"
           /\ \A d \in Coros : d # c => co'[d] = co[d]
           /\ co'[c].run = r /\ co'[c].at = w
           /\ co'[c].phase \in Working => row' = [row EXCEPT ![r] = NewRow(row'[r].owner)]
           /\ co'[c].phase \notin Working => UNCHANGED row
           /\ row[r].status \in {"absent", "running", "cancelling", "interrupted"}
<1> USE DEF TypeOK, Start, Working
<1>1. ASSUME NEW o \in {"user", "nobody"}, Submit(c, r, w, o)
      PROVE  /\ co'[c].phase = "dispatch"
             /\ row' = [row EXCEPT ![r] = NewRow(row'[r].owner)]
  BY <1>1 DEF Submit, Write, NewRow, NoRow
<1>2. CASE \E o \in {"user", "nobody"} : Submit(c, r, w, o)
  BY <1>1, <1>2 DEF Submit
<1>3. CASE CancelCheck(c, r, w)
  BY <1>3 DEF CancelCheck, CancelAllowed
<1>4. CASE ResumeCheck(c, r, w)
  BY <1>4 DEF ResumeCheck, ResumeAllowed
<1>5. QED
  BY <1>2, <1>3, <1>4 DEF Request

(* CoroutinesAreServed holds in every state: a crash takes the coroutines   *)
(* of its worker with it, and a worker takes requests only after its scan.  *)
THEOREM CoroutinesServed == Spec => []CoroutinesAreServed
<1>1. Init => CoroutinesAreServed
  BY DEF Init, CoroutinesAreServed, Idle
<1>2. ASSUME TypeOK, CoroutinesAreServed, [Next]_vars PROVE CoroutinesAreServed'
  <2> USE <1>2 DEF CoroutinesAreServed
  <2>1. ASSUME NEW c \in Coros, NEW r \in Runs, NEW w \in Workers, Request(c, r, w)
        PROVE  CoroutinesAreServed'
    BY <2>1, RequestFrame
  <2>2. ASSUME NEW c \in Coros, Step(c) PROVE CoroutinesAreServed'
    BY <2>2, StepFrame DEF At, Idle
  <2>3. ASSUME NEW w \in Workers, Process(w) PROVE CoroutinesAreServed'
    <3>1. CASE BootScan(w)
      BY <3>1 DEF BootScan, TypeOK, SlotOK, Idle
    <3>2. CASE Serve(w)
      BY <3>2 DEF Serve, TypeOK, SlotOK, Idle
    <3>3. CASE Crash(w)
      BY <3>3 DEF Crash, TypeOK, SlotOK, Idle
    <3>4. ASSUME NEW r \in Runs, ScanRun(w, r) PROVE CoroutinesAreServed'
      BY <3>4 DEF ScanRun
    <3>5. QED
      BY <2>3, <3>1, <3>2, <3>3, <3>4 DEF Process
  <2>4. ASSUME NEW r \in Runs, GrowOld(r) PROVE CoroutinesAreServed'
    BY <2>4 DEF GrowOld
  <2>5. QED
    BY <2>1, <2>2, <2>3, <2>4 DEF Next, vars
<1>3. QED
  BY <1>1, <1>2, TypeCorrect, PTL DEF Spec

\* Only a worker in its start-up has runs left to visit.
TodoIsScanned == \A w \in Workers : todo[w] # {} => worker[w] = "scanning"

LEMMA ScansInStartup == Spec => []TodoIsScanned
<1>1. Init => TodoIsScanned
  BY DEF Init, TodoIsScanned
<1>2. ASSUME TypeOK, TodoIsScanned, [Next]_vars PROVE TodoIsScanned'
  <2> USE <1>2 DEF TodoIsScanned
  <2>1. CASE UNCHANGED <<worker, todo>>
    BY <2>1
  <2>2. ASSUME NEW v \in Workers, Process(v) PROVE TodoIsScanned'
    BY <2>2 DEF Process, BootScan, Serve, Crash, ScanRun, TypeOK
  <2>3. QED
    BY <2>1, <2>2, RequestFrame, StepFrame DEF Next, GrowOld, vars
<1>3. QED
  BY <1>1, <1>2, TypeCorrect, PTL DEF Spec

-----------------------------------------------------------------------------
(* The rows a step of a coroutine writes *)

(* A step of a coroutine writes no row but its run's, makes no row old, and *)
(* never writes "interrupted" or "failed"; a resume writes a fresh running  *)
(* row.                                                                     *)
LEMMA StepRow ==
    ASSUME TypeOK, NEW c \in Coros, Step(c)
    PROVE  /\ co[c].run \in Runs
           /\ \A q \in Runs : q # co[c].run => row'[q] = row[q]
           /\ \A q \in Runs : row'[q].old => row[q].old
           /\ \A q \in Runs : row'[q].status \in {"interrupted", "failed"} => row'[q].status = row[q].status
           /\ ResumeCommit(c) =>
                ~row'[co[c].run].old /\ row'[co[c].run].status = "running"
<1> DEFINE r == co[c].run
<1>0. r \in Runs /\ \A q \in Runs : row[q] \in Row
  BY StepFrame DEF TypeOK, SlotOK, At, Idle
<1>1. ASSUME NEW d \in Row, Write(r, d), d.old => row[r].old, d.status \notin {"interrupted", "failed"}
      PROVE  /\ \A q \in Runs : q # r => row'[q] = row[q]
             /\ row'[r] = d
  BY <1>0, <1>1 DEF Write, TypeOK
<1>2. /\ ~CompletedRow(row[r]).old \/ row[r].old
      /\ ~CancelledRow(row[r]).old \/ row[r].old
      /\ StampedRow(row[r]).old = row[r].old /\ StampedRow(row[r]).status = row[r].status
      /\ ~ResumedRow(row[r]).old /\ ResumedRow(row[r]).status = "running"
      /\ CompletedRow(row[r]).status = "completed"
      /\ CancelledRow(row[r]).status = "cancelled"
  BY <1>0 DEF CompletedRow, StampedRow, CancelledRow, ResumedRow, Row
<1>3. CASE FinalizeCompleted(c)
  <2>1. ~ResumeCommit(c)
    BY <1>3 DEF FinalizeCompleted, ResumeCommit, At
  <2>2. CASE Write(r, CompletedRow(row[r]))
    BY <1>0, <1>1, <1>2, <2>1, <2>2, RowOperators
  <2>3. CASE Write(r, StampedRow(row[r]))
    <3>1. row' = [row EXCEPT ![r] = StampedRow(row[r])]
      BY <2>3 DEF Write
    <3>2. QED
      BY <1>0, <1>2, <2>1, <3>1 DEF TypeOK
  <2>4. QED
    BY <1>3, <2>2, <2>3 DEF FinalizeCompleted
<1>4. CASE CancelCommit(c)
  <2>1. Write(r, CancelledRow(row[r])) /\ ~ResumeCommit(c)
    BY <1>4 DEF CancelCommit, ResumeCommit, At
  <2>2. QED
    BY <1>0, <1>1, <1>2, <2>1, RowOperators
<1>5. CASE ResumeCommit(c)
  <2>1. Write(r, ResumedRow(row[r]))
    BY <1>5 DEF ResumeCommit
  <2>2. QED
    BY <1>0, <1>1, <1>2, <2>1, RowOperators
<1>6. CASE UNCHANGED row /\ ~ResumeCommit(c)
  BY <1>0, <1>6
<1>7. QED
  BY <1>3, <1>4, <1>5, <1>6 DEF Step, Dispatch, SaveCheckpoint, ExecutorReturns,
     TimeLimit, Evaluate, FinalizeLoad, FinalizeFailed, StoreBreaks, ResumeCommit, At

(* A slot that works after a step of its coroutine worked before it, on the *)
(* same run, or is resuming it in this very step.                           *)
LEMMA StepExecuted ==
    ASSUME TypeOK, NEW c \in Coros, Step(c), NEW q \in Runs, Executed(q)'
    PROVE  Executed(q) \/ (ResumeCommit(c) /\ q = co[c].run)
<1>1. PICK d \in Coros : co'[d].run = q /\ co'[d].phase \in Working
  BY DEF Executed
<1>2. CASE d # c
  <2>1. co'[d] = co[d]
    BY <1>2, StepFrame
  <2>2. QED
    BY <1>1, <2>1 DEF Executed
<1>3. CASE d = c
  <2>1. co'[c].phase # "idle"
    BY <1>1, <1>3 DEF Working
  <2>2. co'[c].run = co[c].run
    BY <2>1, StepFrame DEF Idle
  <2>3. co[c].phase \in Working \/ ResumeCommit(c)
    BY <1>1, <1>3, StepFrame
  <2>4. QED
    BY <1>1, <1>3, <2>2, <2>3 DEF Executed
<1>4. QED
  BY <1>2, <1>3

(* A request leaves the slots of other runs alone; if it makes its own slot *)
(* work, it has just created the run.                                       *)
LEMMA RequestExecuted ==
    ASSUME TypeOK, NEW c \in Coros, NEW r \in Runs, NEW w \in Workers, Request(c, r, w),
           NEW q \in Runs, Executed(q)'
    PROVE  \/ Executed(q) /\ row'[q] = row[q]
           \/ ~row'[q].old /\ row'[q].status = "running"
<1>1. PICK d \in Coros : co'[d].run = q /\ co'[d].phase \in Working
  BY DEF Executed
<1>2. CASE co'[c].phase \in Working
  <2>1. row' = [row EXCEPT ![r] = NewRow(row'[r].owner)]
    BY <1>2, RequestFrame
  <2>2. CASE q = r
    BY <2>1, <2>2 DEF TypeOK, NewRow, NoRow
  <2>3. CASE q # r
    <3>1. d # c
      BY <1>1, <2>3, RequestFrame
    <3>2. co'[d] = co[d]
      BY <3>1, RequestFrame
    <3>3. row'[q] = row[q]
      BY <2>1, <2>3 DEF TypeOK
    <3>4. QED
      BY <1>1, <3>2, <3>3 DEF Executed
  <2>4. QED
    BY <2>2, <2>3
<1>3. CASE co'[c].phase \notin Working
  <2>1. d # c /\ row' = row
    BY <1>1, <1>3, RequestFrame
  <2>2. co'[d] = co[d]
    BY <2>1, RequestFrame
  <2>3. QED
    BY <1>1, <2>1, <2>2 DEF Executed
<1>4. QED
  BY <1>2, <1>3

(* Only the scan of a process writes rows; it ages none.                    *)
LEMMA ProcessRow ==
    ASSUME TypeOK, NEW w \in Workers, Process(w), NEW q \in Runs
    PROVE  /\ row'[q].old = row[q].old
           /\ row'[q] = row[q] \/ ScanRun(w, q)
<1>0. row[q] \in Row
  BY DEF TypeOK
<1>1. RecoveredRow(row[q]).old = row[q].old /\ LostRow(row[q]).old = row[q].old
  BY <1>0 DEF RecoveredRow, LostRow, Row
<1>2. ASSUME NEW r \in Runs, ScanRun(w, r), r # q PROVE row'[q] = row[q]
  BY <1>2 DEF ScanRun, Write, TypeOK
<1>3. CASE ScanRun(w, q)
  <2>1. row'[q] = RecoveredRow(row[q]) \/ row'[q] = LostRow(row[q])
    BY <1>3 DEF ScanRun, Write, TypeOK
  <2>2. QED
    BY <1>1, <1>3, <2>1
<1>4. CASE UNCHANGED row
  BY <1>4
<1>5. QED
  BY <1>2, <1>3, <1>4 DEF Process, BootScan, Serve, Crash

(* A process that starts or dies leaves a run executed only if it was.      *)
LEMMA ProcessExecuted ==
    ASSUME TypeOK, NEW w \in Workers, Process(w), NEW q \in Runs, Executed(q)'
    PROVE  Executed(q)
<1>1. PICK d \in Coros : co'[d].run = q /\ co'[d].phase \in Working
  BY DEF Executed
<1>2. co'[d] = co[d] \/ co'[d] = Idle
  BY DEF Process, BootScan, Serve, Crash, ScanRun, TypeOK
<1>3. co'[d] # Idle
  BY <1>1 DEF Idle, Working
<1>4. QED
  BY <1>1, <1>2, <1>3 DEF Executed
-----------------------------------------------------------------------------
(* Orphans *)

(* LiveRunsAreFresh holds in every state: a submit and a resume write a     *)
(* fresh started_at, and a row ages only while nothing holds its run.       *)
THEOREM LiveRunsFresh == Spec => []LiveRunsAreFresh
<1>1. Init => LiveRunsAreFresh
  BY DEF Init, LiveRunsAreFresh, Executed, Idle, Working
<1>2. ASSUME TypeOK, LiveRunsAreFresh, [Next]_vars PROVE LiveRunsAreFresh'
  <2> USE <1>2
  <2>1. SUFFICES ASSUME NEW q \in Runs, Executed(q)' PROVE ~row'[q].old
    BY DEF LiveRunsAreFresh
  <2>2. Executed(q) => ~row[q].old
    BY DEF LiveRunsAreFresh
  <2>3. ASSUME NEW c \in Coros, NEW r \in Runs, NEW w \in Workers, Request(c, r, w)
        PROVE  ~row'[q].old
    BY <2>1, <2>2, <2>3, RequestExecuted
  <2>4. ASSUME NEW c \in Coros, Step(c) PROVE ~row'[q].old
    BY <2>1, <2>2, <2>4, StepRow, StepExecuted
  <2>5. ASSUME NEW w \in Workers, Process(w) PROVE ~row'[q].old
    <3>1. row'[q].old = row[q].old
      BY <2>5, ProcessRow
    <3>2. QED
      BY <2>1, <2>2, <2>5, <3>1, ProcessExecuted
  <2>6. ASSUME NEW r \in Runs, GrowOld(r) PROVE ~row'[q].old
    <3>1. Executed(q) /\ ~Executed(r)
      BY <2>1, <2>6 DEF GrowOld, Executed, Quiet
    <3>2. q # r
      BY <3>1
    <3>3. QED
      BY <2>2, <2>6, <3>1, <3>2 DEF GrowOld, TypeOK
  <2>7. CASE UNCHANGED vars
    BY <2>1, <2>2, <2>7 DEF vars, Executed
  <2>8. QED
    BY <2>3, <2>4, <2>5, <2>6, <2>7 DEF Next
<1>3. QED
  BY <1>1, <1>2, TypeCorrect, PTL DEF Spec

(* ScanSelectsOrphans holds of every step: what the recovery scan of a      *)
(* starting worker selects is old, and what is executed anywhere is not.    *)
THEOREM OrphansOnly == Spec => ScanSelectsOrphans
<1>1. ASSUME TypeOK, LiveRunsAreFresh, [Next]_vars
      PROVE  \A w \in Workers : \A r \in todo'[w] \ todo[w] : ~Executed(r)
  <2> USE <1>1
  <2>1. SUFFICES ASSUME NEW w \in Workers, NEW r \in todo'[w], r \notin todo[w] PROVE ~Executed(r)
    OBVIOUS
  <2>2. ASSUME NEW v \in Workers, Process(v) PROVE ~Executed(r)
    <3>1. CASE BootScan(v)
      BY <2>1, <3>1 DEF BootScan, Stale, LiveRunsAreFresh, TypeOK
    <3>2. CASE Serve(v) \/ Crash(v)
      BY <2>1, <3>2 DEF Serve, Crash, TypeOK
    <3>3. ASSUME NEW q \in Runs, ScanRun(v, q) PROVE ~Executed(r)
      BY <2>1, <3>3 DEF ScanRun, TypeOK
    <3>4. QED
      BY <2>2, <3>1, <3>2, <3>3 DEF Process
  <2>3. CASE UNCHANGED todo
    BY <2>1, <2>3
  <2>4. QED
    BY <2>2, <2>3, RequestFrame, StepFrame DEF Next, GrowOld, vars
<1>2. QED
  BY <1>1, TypeCorrect, LiveRunsFresh, PTL DEF Spec, ScanSelectsOrphans

-----------------------------------------------------------------------------
(* Settled runs *)

(* SettledIsFinal holds of every step: once a run is settled and nothing    *)
(* holds it, no request, restart, scan or ageing changes its outcome or     *)
(* takes it up again.                                                       *)
THEOREM SettledFinal == Spec => SettledIsFinal
<1>1. ASSUME TypeOK, [Next]_vars
      PROVE  \A r \in Runs : Settled(r) /\ Quiet(r) =>
                row'[r].status = row[r].status /\ Quiet(r)'
  <2> SUFFICES ASSUME NEW r \in Runs, Settled(r), Quiet(r)
               PROVE  row'[r].status = row[r].status /\ Quiet(r)'
    OBVIOUS
  <2> USE <1>1
  <2>0. r # None
    BY RunsAssumption
  <2>1. ASSUME NEW c \in Coros, NEW q \in Runs, NEW w \in Workers, Request(c, q, w)
        PROVE  row'[r] = row[r] /\ Quiet(r)'
    <3>1. q # r
      BY <2>1, RequestFrame DEF Settled
    <3>2. row'[r] = row[r]
      BY <2>1, <3>1, RequestFrame DEF TypeOK
    <3>3. co'[c].run = q /\ todo' = todo /\ \A d \in Coros : d # c => co'[d] = co[d]
      BY <2>1, RequestFrame
    <3>4. QED
      BY <3>1, <3>2, <3>3 DEF Quiet
  <2>2. ASSUME NEW c \in Coros, Step(c) PROVE row'[r] = row[r] /\ Quiet(r)'
    <3>1. co[c].run # r
      BY DEF Quiet
    <3>2. co'[c].run # r
      BY <2>0, <2>2, <3>1, StepFrame DEF Idle
    <3>3. todo' = todo /\ \A d \in Coros : d # c => co'[d] = co[d]
      BY <2>2, StepFrame
    <3>4. QED
      BY <2>2, <3>1, <3>2, <3>3, StepRow DEF Quiet
  <2>3. ASSUME NEW w \in Workers, Process(w) PROVE row'[r] = row[r] /\ Quiet(r)'
    <3>1. CASE BootScan(w)
      BY <3>1 DEF BootScan, Quiet, Stale, Settled, TypeOK
    <3>2. CASE Serve(w)
      BY <3>2 DEF Serve, Quiet, TypeOK
    <3>3. CASE Crash(w)
      BY <2>0, <3>3 DEF Crash, Quiet, Idle, TypeOK
    <3>4. ASSUME NEW q \in Runs, ScanRun(w, q) PROVE row'[r] = row[r] /\ Quiet(r)'
      <4>1. q # r
        BY <3>4 DEF ScanRun, Quiet
      <4>2. row'[r] = row[r] /\ co' = co
        BY <3>4, <4>1 DEF ScanRun, Write, TypeOK
      <4>3. \A v \in Workers : r \notin todo'[v]
        BY <3>4 DEF ScanRun, Quiet, TypeOK
      <4>4. QED
        BY <4>2, <4>3 DEF Quiet
    <3>5. QED
      BY <2>3, <3>1, <3>2, <3>3, <3>4 DEF Process
  <2>4. ASSUME NEW q \in Runs, GrowOld(q)
        PROVE  row'[r].status = row[r].status /\ Quiet(r)'
    BY <2>4 DEF GrowOld, Quiet, TypeOK, Row
  <2>5. CASE UNCHANGED vars
    BY <2>5 DEF vars, Quiet
  <2>6. QED
    BY <2>1, <2>2, <2>3, <2>4, <2>5 DEF Next
<1>2. QED
  BY <1>1, TypeCorrect, PTL DEF Spec, SettledIsFinal
-----------------------------------------------------------------------------
(* One worker *)

(* A deployment with a single worker process. *)
SingleWorker == \A v, w \in Workers : v = w

(* Why recovery is safe on one worker: whatever has a run left to scan is   *)
(* still in its start-up, when no coroutine runs, and a run that was found  *)
(* lost is out of every hand.                                               *)
OneWorkerInv ==
    /\ CoroutinesAreServed
    /\ InterruptedIsIdle
    /\ TodoIsScanned
    /\ \A r \in Runs : row[r].status = "failed" => Quiet(r)

(* On one worker nothing is in flight while a scan has a run to visit.      *)
LEMMA ScanAlone ==
    ASSUME SingleWorker, TypeOK, OneWorkerInv, NEW w \in Workers, todo[w] # {}
    PROVE  \A c \in Coros : co[c] = Idle
<1>1. worker[w] = "scanning"
  BY DEF OneWorkerInv, TodoIsScanned
<1>2. ASSUME NEW c \in Coros, co[c] # Idle PROVE FALSE
  <2>1. co[c].phase # "idle" /\ co[c].at \in Workers
    BY <1>2 DEF TypeOK, SlotOK
  <2>2. co[c].at = w
    BY <2>1 DEF SingleWorker
  <2>3. QED
    BY <1>1, <2>1, <2>2 DEF OneWorkerInv, CoroutinesAreServed
<1>3. QED
  BY <1>2

(* A run in the failed status stays out of every hand.                      *)
LEMMA FailedStaysQuiet ==
    ASSUME SingleWorker, TypeOK, OneWorkerInv, [Next]_vars, NEW r \in Runs, row'[r].status = "failed"
    PROVE  Quiet(r)'
<1>0. r # None /\ Idle.run = None
  BY RunsAssumption DEF Idle
<1>1. ASSUME NEW c \in Coros, NEW q \in Runs, NEW w \in Workers, Request(c, q, w) PROVE Quiet(r)'
  <2>1. UNCHANGED row \/ row' = [row EXCEPT ![q] = NewRow(row'[q].owner)]
    BY <1>1, RequestFrame
  <2>2. row[r].status = "failed"
    BY <2>1 DEF TypeOK, NewRow, NoRow
  <2>3. q # r /\ co'[c].run = q /\ todo' = todo /\ \A d \in Coros : d # c => co'[d] = co[d]
    BY <1>1, <2>2, RequestFrame
  <2>4. QED
    BY <2>2, <2>3 DEF Quiet, OneWorkerInv
<1>2. ASSUME NEW c \in Coros, Step(c) PROVE Quiet(r)'
  <2>1. Quiet(r)
    BY <1>2, StepRow DEF OneWorkerInv
  <2>2. co[c].run # r
    BY <2>1 DEF Quiet
  <2>3. co'[c].run # r
    BY <1>0, <1>2, <2>2, StepFrame
  <2>4. todo' = todo /\ \A d \in Coros : d # c => co'[d] = co[d]
    BY <1>2, StepFrame
  <2>5. QED
    BY <2>1, <2>3, <2>4 DEF Quiet
<1>3. ASSUME NEW w \in Workers, Process(w) PROVE Quiet(r)'
  <2>1. CASE ScanRun(w, r)
    <3>1. \A c \in Coros : co'[c] = Idle
      BY <2>1, ScanAlone DEF ScanRun
    <3>2. \A v \in Workers : r \notin todo'[v]
      BY <2>1 DEF ScanRun, TypeOK, SingleWorker
    <3>3. QED
      BY <1>0, <3>1, <3>2 DEF Quiet
  <2>2. CASE ~ScanRun(w, r)
    <3>1. row'[r] = row[r]
      BY <1>3, <2>2, ProcessRow
    <3>2. Quiet(r)
      BY <3>1 DEF OneWorkerInv
    <3>3. CASE BootScan(w)
      BY <3>1, <3>2, <3>3 DEF BootScan, Quiet, Stale, TypeOK
    <3>4. CASE Serve(w)
      BY <3>2, <3>4 DEF Serve, Quiet, TypeOK
    <3>5. CASE Crash(w)
      BY <1>0, <3>2, <3>5 DEF Crash, Quiet, TypeOK
    <3>6. ASSUME NEW q \in Runs, ScanRun(w, q) PROVE Quiet(r)'
      BY <3>2, <3>6 DEF ScanRun, Quiet, TypeOK
    <3>7. QED
      BY <1>3, <3>3, <3>4, <3>5, <3>6 DEF Process
  <2>3. QED
    BY <2>1, <2>2
<1>4. ASSUME NEW q \in Runs, GrowOld(q) PROVE Quiet(r)'
  BY <1>4 DEF GrowOld, TypeOK, Row, OneWorkerInv, Quiet
<1>5. CASE UNCHANGED vars
  BY <1>5 DEF vars, OneWorkerInv, Quiet
<1>6. QED
  BY <1>1, <1>2, <1>3, <1>4, <1>5 DEF Next

(* An interrupted run stays out of execution.                               *)
LEMMA InterruptedStaysIdle ==
    ASSUME SingleWorker, TypeOK, OneWorkerInv, [Next]_vars, NEW r \in Runs,
           row'[r].status = "interrupted", Executed(r)'
    PROVE  FALSE
<1>0. row[r].status = "interrupted" => ~Executed(r)
  BY DEF OneWorkerInv, InterruptedIsIdle
<1>1. ASSUME NEW c \in Coros, NEW q \in Runs, NEW w \in Workers, Request(c, q, w) PROVE FALSE
  BY <1>0, <1>1, RequestExecuted
<1>2. ASSUME NEW c \in Coros, Step(c) PROVE FALSE
  BY <1>0, <1>2, StepRow, StepExecuted
<1>3. ASSUME NEW w \in Workers, Process(w) PROVE FALSE
  <2>1. Executed(r)
    BY <1>3, ProcessExecuted
  <2>2. CASE ScanRun(w, r)
    <3>1. \A c \in Coros : co[c] = Idle
      BY <2>2, ScanAlone DEF ScanRun
    <3>2. QED
      BY <2>1, <3>1 DEF Executed, Idle, Working
  <2>3. QED
    BY <1>0, <1>3, <2>1, <2>2, ProcessRow
<1>4. ASSUME NEW q \in Runs, GrowOld(q) PROVE FALSE
  BY <1>0, <1>4 DEF GrowOld, Executed, TypeOK, Row
<1>5. CASE UNCHANGED vars
  BY <1>0, <1>5 DEF vars, Executed
<1>6. QED
  BY <1>1, <1>2, <1>3, <1>4, <1>5 DEF Next

(* The invariant of a single worker is inductive.                           *)
LEMMA OneWorkerInductive ==
    SingleWorker => (Spec => [](TypeOK /\ OneWorkerInv))
<1> SUFFICES ASSUME SingleWorker PROVE Spec => [](TypeOK /\ OneWorkerInv)
  OBVIOUS
<1>1. Init => OneWorkerInv
  BY DEF Init, OneWorkerInv, CoroutinesAreServed, InterruptedIsIdle, TodoIsScanned, NoRow, Idle
<1>2. ASSUME TypeOK, OneWorkerInv, [Next]_vars, CoroutinesAreServed', TodoIsScanned'
      PROVE  OneWorkerInv'
  <2> USE <1>2
  <2>1. InterruptedIsIdle'
    BY InterruptedStaysIdle DEF InterruptedIsIdle
  <2>2. (\A r \in Runs : row[r].status = "failed" => Quiet(r))'
    BY FailedStaysQuiet
  <2>3. QED
    BY <2>1, <2>2 DEF OneWorkerInv
<1>3. QED
  BY <1>1, <1>2, TypeCorrect, CoroutinesServed, ScansInStartup, PTL DEF Spec

(* On one worker, InterruptedIsIdle holds in every state: recovery          *)
(* interrupts a run only before the worker accepts requests.                *)
THEOREM InterruptedIdle == SingleWorker => (Spec => []InterruptedIsIdle)
  BY OneWorkerInductive, PTL DEF OneWorkerInv

-----------------------------------------------------------------------------
(* The lifecycle *)

(* What the refinement needs of every deployment: no row is left in a       *)
(* status the code only compares with, and a run that is held exists.       *)
HeldRunsExist ==
    \A r \in Runs : /\ row[r].status \notin {"cancelling", "timeout"}
                    /\ ~Quiet(r) => row[r].status # "absent"

(* And of one worker: a request that is about to cancel never finds its run *)
(* interrupted, and the scan finds the rows as it selected them.            *)
OneWorkerHolds ==
    /\ \A c \in Coros : At(c, "cancelling") => row[co[c].run].status # "interrupted"
    /\ \A w \in Workers : \A r \in todo[w] : row[r].status = "running"

\* The status of run r becomes t, and no other row is touched.
StatusBecomes(r, t) == /\ row'[r].status = t
                       /\ \A q \in Runs : q # r => row'[q] = row[q]

(* The three steps of a coroutine that write a status, and what they write; *)
(* a finaliser that loaded a completed row writes no status.                *)
LEMMA StepStatus ==
    ASSUME TypeOK, NEW c \in Coros, Step(c)
    PROVE  /\ co[c].run \in Runs
           /\ \/ UNCHANGED <<row, overtaken>>
              \/ FinalizeCompleted(c) /\ At(c, "stamping")
                 /\ \A q \in Runs : row'[q].status = row[q].status
              \/ FinalizeCompleted(c) /\ At(c, "storing") /\ StatusBecomes(co[c].run, "completed")
              \/ CancelCommit(c) /\ StatusBecomes(co[c].run, "cancelled")
              \/ ResumeCommit(c) /\ StatusBecomes(co[c].run, "running")
<1> DEFINE r == co[c].run
<1>1. r \in Runs /\ row[r] \in Row
  BY StepFrame DEF TypeOK, SlotOK, At, Idle
<1>2. ASSUME NEW d \in Row, Write(r, d) PROVE StatusBecomes(r, d.status)
  BY <1>1, <1>2 DEF Write, TypeOK, StatusBecomes
<1>3. /\ CompletedRow(row[r]) \in Row /\ CompletedRow(row[r]).status = "completed"
      /\ CancelledRow(row[r]) \in Row /\ CancelledRow(row[r]).status = "cancelled"
      /\ ResumedRow(row[r]) \in Row /\ ResumedRow(row[r]).status = "running"
      /\ StampedRow(row[r]) \in Row /\ StampedRow(row[r]).status = row[r].status
  BY <1>1, RowOperators DEF CompletedRow, CancelledRow, ResumedRow, StampedRow, Row
<1>4. CASE FinalizeCompleted(c)
  <2>1. CASE At(c, "storing") /\ Write(r, CompletedRow(row[r]))
    BY <1>1, <1>2, <1>3, <1>4, <2>1
  <2>2. CASE At(c, "stamping") /\ Write(r, StampedRow(row[r]))
    <3>1. StatusBecomes(r, row[r].status)
      BY <1>2, <1>3, <2>2
    <3>2. QED
      BY <1>1, <1>4, <2>2, <3>1 DEF StatusBecomes
  <2>3. QED
    BY <1>4, <2>1, <2>2 DEF FinalizeCompleted
<1>5. CASE CancelCommit(c)
  BY <1>1, <1>2, <1>3, <1>5 DEF CancelCommit
<1>6. CASE ResumeCommit(c)
  BY <1>1, <1>2, <1>3, <1>6 DEF ResumeCommit
<1>7. CASE UNCHANGED <<row, overtaken>>
  BY <1>1, <1>7
<1>8. QED
  BY <1>4, <1>5, <1>6, <1>7 DEF Step, Dispatch, SaveCheckpoint, ExecutorReturns,
     TimeLimit, Evaluate, FinalizeLoad, FinalizeFailed, StoreBreaks

(* A turn of the scan settles one run either way and lets go of it.         *)
LEMMA ScanStatus ==
    ASSUME TypeOK, NEW w \in Workers, NEW r \in Runs, ScanRun(w, r)
    PROVE  /\ StatusBecomes(r, "interrupted") \/ StatusBecomes(r, "failed")
           /\ r \in todo[w] /\ UNCHANGED <<co, worker>>
           /\ \A v \in Workers : todo'[v] = IF v = w THEN todo[w] \ {r} ELSE todo[v]
<1>1. row[r] \in Row
  BY DEF TypeOK
<1>2. RecoveredRow(row[r]).status = "interrupted" /\ LostRow(row[r]).status = "failed"
  BY <1>1 DEF RecoveredRow, LostRow, Row
<1>3. QED
  BY <1>2 DEF ScanRun, Write, TypeOK, StatusBecomes

(* A coroutine that steps lets go of its run or keeps it.                   *)
LEMMA StepHeld ==
    ASSUME TypeOK, NEW c \in Coros, Step(c)
    PROVE  /\ co[c].run \in HeldRuns
           /\ HeldRuns' \in {HeldRuns, HeldRuns \ {co[c].run}}
<1> DEFINE r == co[c].run
<1>1. r \in Runs /\ r # None /\ Idle.run = None
  BY StepStatus, RunsAssumption DEF Idle
<1>2. r \in HeldRuns
  BY <1>1 DEF HeldRuns, Quiet
<1>3. todo' = todo /\ (\A d \in Coros : d # c => co'[d] = co[d]) /\ co'[c].run \in {None, r}
  BY <1>1, StepFrame
<1>4. \A q \in Runs : q # r => (Quiet(q)' <=> Quiet(q))
  <2> SUFFICES ASSUME NEW q \in Runs, q # r PROVE Quiet(q)' <=> Quiet(q)
    OBVIOUS
  <2>1. q # None
    BY RunsAssumption
  <2>2. \A d \in Coros : co'[d].run = q <=> co[d].run = q
    BY <1>3, <2>1
  <2>3. QED
    BY <1>3, <2>2 DEF Quiet
<1>5. HeldRuns' = {q \in Runs : ~Quiet(q)'}
  BY DEF HeldRuns
<1>6. \A q \in Runs : q # r => (q \in HeldRuns' <=> q \in HeldRuns)
  BY <1>4, <1>5 DEF HeldRuns
<1>7. CASE r \in HeldRuns'
  <2>1. HeldRuns' = HeldRuns
    BY <1>2, <1>5, <1>6, <1>7 DEF HeldRuns
  <2>2. QED
    BY <1>2, <2>1
<1>8. CASE r \notin HeldRuns'
  <2>1. HeldRuns' = HeldRuns \ {r}
    BY <1>2, <1>5, <1>6, <1>8 DEF HeldRuns
  <2>2. QED
    BY <1>2, <2>1
<1>9. QED
  BY <1>7, <1>8

(* HeldRunsExist is an invariant: whoever takes a run up has read its row.  *)
LEMMA RunsExist == Spec => []HeldRunsExist
<1>1. Init => HeldRunsExist
  <2>1. \A r \in Runs : r # None
    BY RunsAssumption
  <2>2. QED
    BY <2>1 DEF Init, HeldRunsExist, Quiet, NoRow, Idle
<1>2. ASSUME TypeOK, HeldRunsExist, [Next]_vars PROVE HeldRunsExist'
  <2> USE <1>2
  <2> SUFFICES ASSUME NEW q \in Runs
               PROVE  /\ row'[q].status \notin {"cancelling", "timeout"}
                      /\ Quiet(q)' \/ row'[q].status # "absent"
    BY DEF HeldRunsExist
  <2>0. /\ row[q].status \notin {"cancelling", "timeout"}
        /\ Quiet(q) \/ row[q].status # "absent"
        /\ q # None /\ Idle.run = None /\ row[q] \in Row
    BY RunsAssumption DEF HeldRunsExist, Idle, TypeOK
  <2>1. ASSUME NEW c \in Coros, NEW r \in Runs, NEW w \in Workers, Request(c, r, w)
        PROVE  /\ row'[q].status \notin {"cancelling", "timeout"}
               /\ Quiet(q)' \/ row'[q].status # "absent"
    <3>1. todo' = todo /\ co'[c].run = r /\ \A d \in Coros : d # c => co'[d] = co[d]
      BY <2>1, RequestFrame
    <3>2. row' = row \/ row' = [row EXCEPT ![r] = NewRow(row'[r].owner)]
      BY <2>1, RequestFrame
    <3>3. row'[q] = row[q] \/ row'[q].status = "running"
      BY <3>2 DEF TypeOK, NewRow, NoRow
    <3>4. q = r => row'[q].status # "absent"
      <4>1. ASSUME NEW o \in {"user", "nobody"}, Submit(c, r, w, o) PROVE row'[r].status = "running"
        BY <4>1 DEF Submit, Write, TypeOK, NewRow, NoRow
      <4>2. CASE CancelCheck(c, r, w) \/ ResumeCheck(c, r, w)
        BY <4>2 DEF CancelCheck, ResumeCheck, CancelAllowed, ResumeAllowed
      <4>3. QED
        BY <2>1, <4>1, <4>2 DEF Request
    <3>5. q # r /\ Quiet(q) => Quiet(q)'
      BY <3>1 DEF Quiet
    <3>6. QED
      BY <2>0, <3>3, <3>4, <3>5
  <2>2. ASSUME NEW c \in Coros, Step(c)
        PROVE  /\ row'[q].status \notin {"cancelling", "timeout"}
               /\ Quiet(q)' \/ row'[q].status # "absent"
    <3>1. \/ row'[q].status = row[q].status
          \/ row'[q].status \in {"completed", "cancelled", "running"}
      BY <2>2, StepStatus DEF StatusBecomes
    <3>2. q \in HeldRuns' => q \in HeldRuns
      BY <2>2, StepHeld
    <3>3. Quiet(q) => Quiet(q)'
      BY <3>2 DEF HeldRuns
    <3>4. QED
      BY <2>0, <3>1, <3>3
  <2>3. ASSUME NEW w \in Workers, Process(w)
        PROVE  /\ row'[q].status \notin {"cancelling", "timeout"}
               /\ Quiet(q)' \/ row'[q].status # "absent"
    <3>1. CASE BootScan(w)
      BY <2>0, <3>1 DEF BootScan, Quiet, Stale, TypeOK
    <3>2. CASE Serve(w)
      BY <2>0, <3>2 DEF Serve, Quiet, TypeOK
    <3>3. CASE Crash(w)
      BY <2>0, <3>3 DEF Crash, Quiet, TypeOK
    <3>4. ASSUME NEW r \in Runs, ScanRun(w, r)
          PROVE  /\ row'[q].status \notin {"cancelling", "timeout"}
                 /\ Quiet(q)' \/ row'[q].status # "absent"
      <4>1. row'[q] = row[q] \/ row'[q].status \in {"interrupted", "failed"}
        BY <3>4, ScanStatus DEF StatusBecomes
      <4>2. Quiet(q) => Quiet(q)'
        BY <3>4, ScanStatus DEF Quiet
      <4>3. QED
        BY <2>0, <4>1, <4>2
    <3>5. QED
      BY <2>3, <3>1, <3>2, <3>3, <3>4 DEF Process
  <2>4. ASSUME NEW r \in Runs, GrowOld(r)
        PROVE  /\ row'[q].status \notin {"cancelling", "timeout"}
               /\ Quiet(q)' \/ row'[q].status # "absent"
    BY <2>0, <2>4 DEF GrowOld, Quiet, TypeOK, Row
  <2>5. CASE UNCHANGED vars
    BY <2>0, <2>5 DEF vars, Quiet
  <2>6. QED
    BY <2>1, <2>2, <2>3, <2>4, <2>5 DEF Next
<1>3. QED
  BY <1>1, <1>2, TypeCorrect, PTL DEF Spec

-----------------------------------------------------------------------------
(* Runs no commit of which overtook its check *)

\* Coroutine c executes run r, or is committed to do so.
WorksOn(c, r) == co[c].run = r /\ co[c].phase \in Working

(* Why such a run has one execution and a coherent row: while a coroutine   *)
(* works on it no other does and its row is running or cancelled, so that   *)
(* its finaliser never loads a completed row.                               *)
Orderly(r) ==
    /\ \A c, d \in Coros : WorksOn(c, r) /\ WorksOn(d, r) => c = d
    /\ \A c \in Coros : WorksOn(c, r) =>
          row[r].status \in {"running", "cancelled"} /\ ~At(c, "stamping")
    /\ row[r].finished => row[r].status \notin {"absent", "running"}

OrderlyRuns == \A r \in Runs \ overtaken : Orderly(r)

(* A step whose guard was checked earlier records when the row is no longer *)
(* the one the guard accepts; no other step touches the history.            *)
LEMMA OvertakenRecords ==
    ASSUME TypeOK, [Next]_vars
    PROVE  /\ overtaken \subseteq overtaken'
           /\ \A c \in Coros : Step(c) =>
                 /\ overtaken' \in {overtaken, overtaken \cup {co[c].run}}
                 /\ co[c].run \notin overtaken' =>
                       /\ CancelCommit(c) => CancelAllowed(row[co[c].run])
                       /\ ResumeCommit(c) => ResumeAllowed(row[co[c].run])
           /\ \A w \in Workers, r \in Runs : ScanRun(w, r) =>
                 /\ overtaken' \in {overtaken, overtaken \cup {r}}
                 /\ r \notin overtaken' => Stale(row[r])
<1>1. ASSUME NEW c \in Coros, Step(c)
      PROVE  /\ overtaken' \in {overtaken, overtaken \cup {co[c].run}}
             /\ co[c].run \notin overtaken' =>
                   /\ CancelCommit(c) => CancelAllowed(row[co[c].run])
                   /\ ResumeCommit(c) => ResumeAllowed(row[co[c].run])
  <2>1. CASE CancelCommit(c)
    BY <2>1 DEF CancelCommit, ResumeCommit, Record, At
  <2>2. CASE ResumeCommit(c)
    BY <2>2 DEF CancelCommit, ResumeCommit, Record, At
  <2>3. CASE ~CancelCommit(c) /\ ~ResumeCommit(c)
    BY <1>1, <2>3 DEF Step, Dispatch, SaveCheckpoint, ExecutorReturns, TimeLimit, Evaluate,
       FinalizeLoad, FinalizeCompleted, FinalizeFailed, StoreBreaks
  <2>4. QED
    BY <2>1, <2>2, <2>3
<1>2. ASSUME NEW w \in Workers, NEW r \in Runs, ScanRun(w, r)
      PROVE  /\ overtaken' \in {overtaken, overtaken \cup {r}}
             /\ r \notin overtaken' => Stale(row[r])
  BY <1>2 DEF ScanRun, Record
<1>3. overtaken \subseteq overtaken'
  <2>1. ASSUME NEW c \in Coros, NEW r \in Runs, NEW w \in Workers, Request(c, r, w)
        PROVE  UNCHANGED overtaken
    BY <2>1 DEF Request, Submit, CancelCheck, ResumeCheck
  <2>2. ASSUME NEW w \in Workers, Process(w) PROVE overtaken \subseteq overtaken'
    BY <1>2, <2>2 DEF Process, BootScan, Serve, Crash
  <2>3. QED
    BY <1>1, <2>1, <2>2 DEF Next, GrowOld, vars
<1>4. QED
  BY <1>1, <1>2, <1>3

(* A run of which the row's status and finished_at stay, and on which no    *)
(* coroutine newly works or newly finds it completed, stays orderly.        *)
LEMMA OrderlyKept ==
    ASSUME NEW r \in Runs, Orderly(r),
           row'[r].status = row[r].status, row'[r].finished = row[r].finished,
           \A c \in Coros : WorksOn(c, r)' => WorksOn(c, r) /\ (At(c, "stamping")' => At(c, "stamping"))
    PROVE  Orderly(r)'
<1>1. \A c, d \in Coros : WorksOn(c, r)' /\ WorksOn(d, r)' => c = d
  BY DEF Orderly
<1>2. \A c \in Coros : WorksOn(c, r)' =>
        row'[r].status \in {"running", "cancelled"} /\ ~At(c, "stamping")'
  BY DEF Orderly
<1>3. row'[r].finished => row'[r].status \notin {"absent", "running"}
  BY DEF Orderly
<1>4. QED
  BY <1>1, <1>2, <1>3 DEF Orderly

(* A step of a coroutine keeps an undisturbed run orderly.                  *)
LEMMA OrderlyStep ==
    ASSUME TypeOK, HeldRunsExist, OrderlyRuns, NEW c \in Coros, Step(c), [Next]_vars,
           NEW q \in Runs, q \notin overtaken'
    PROVE  Orderly(q)'
<1> DEFINE r == co[c].run
<1>0. /\ r \in Runs /\ row[r] \in Row /\ Orderly(q) /\ q # None /\ Idle.run = None
      /\ \A p \in Runs : p # r => row'[p] = row[p]
  BY OvertakenRecords, StepRow, RunsAssumption DEF OrderlyRuns, Idle, TypeOK
<1>1. /\ \A d \in Coros : d # c => co'[d] = co[d]
      /\ co'[c] = Idle \/ (co'[c].run = r /\ co'[c].at = co[c].at)
      /\ co'[c].phase \in Working => co[c].phase \in Working \cup {"resuming"}
      /\ co'[c].phase \in Working /\ co[c].phase = "resuming" => ResumeCommit(c)
  BY StepFrame
<1>2. ASSUME NEW d \in Coros, d # c
      PROVE  (WorksOn(d, q)' <=> WorksOn(d, q)) /\ (At(d, "stamping")' <=> At(d, "stamping"))
  BY <1>1, <1>2 DEF WorksOn, At
<1>3. CASE q # r
  <2>1. ~WorksOn(c, q)' /\ row'[q] = row[q]
    BY <1>0, <1>1, <1>3 DEF WorksOn
  <2>2. QED
    BY <1>0, <1>2, <2>1, OrderlyKept
<1>4. CASE q = r /\ ResumeCommit(c)
  <2>1. row[q].status = "interrupted"
    BY <1>4, OvertakenRecords DEF ResumeAllowed
  <2>2. \A d \in Coros : ~WorksOn(d, q)
    BY <1>0, <2>1 DEF Orderly
  <2>3. row'[q].status = "running" /\ row'[q].finished = FALSE
    BY <1>0, <1>4 DEF ResumeCommit, Write, ResumedRow, TypeOK, Row
  <2>4. ~At(c, "stamping")'
    BY <1>4 DEF ResumeCommit, Goto, At, TypeOK, Coroutine
  <2>5. QED
    BY <1>2, <2>2, <2>3, <2>4 DEF Orderly
<1>5. CASE q = r /\ ~ResumeCommit(c)
  <2>1. WorksOn(c, q)' => WorksOn(c, q)
    BY <1>0, <1>1, <1>5 DEF WorksOn, Idle, Asking, Working
  <2>2. CASE FinalizeCompleted(c)
    <3>1. WorksOn(c, q) /\ At(c, "storing")
      BY <1>0, <1>5, <2>2 DEF FinalizeCompleted, WorksOn, At, Working, Orderly
    <3>2. \A d \in Coros : ~WorksOn(d, q)'
      <4>1. ~WorksOn(c, q)'
        BY <2>2 DEF FinalizeCompleted, End, WorksOn, Idle, Working, TypeOK
      <4>2. QED
        BY <1>0, <1>2, <3>1, <4>1 DEF Orderly
    <3>3. row'[q].status = "completed"
      <4>1. row' = [row EXCEPT ![r] = CompletedRow(row[r])]
        BY <2>2, <3>1 DEF FinalizeCompleted, Write, At
      <4>2. QED
        BY <1>0, <1>5, <4>1 DEF CompletedRow, TypeOK, Row
    <3>4. QED
      BY <3>2, <3>3 DEF Orderly
  <2>3. CASE CancelCommit(c)
    <3>1. row[q].status \in {"running", "cancelling"}
      BY <1>5, <2>3, OvertakenRecords DEF CancelAllowed
    <3>2. row'[q].status = "cancelled"
      BY <1>0, <1>5, <2>3 DEF CancelCommit, Write, CancelledRow, TypeOK, Row
    <3>3. ~WorksOn(c, q)'
      BY <2>3 DEF CancelCommit, End, WorksOn, Idle, Working, TypeOK
    <3>4. QED
      BY <1>0, <1>2, <3>2, <3>3 DEF Orderly
  <2>4. CASE FinalizeLoad(c)
    <3>1. WorksOn(c, q)
      BY <1>5, <2>4 DEF FinalizeLoad, WorksOn, At, Working
    <3>2. row[q].status # "completed"
      BY <1>0, <3>1 DEF Orderly
    <3>3. ~At(c, "stamping")' /\ row' = row
      BY <1>5, <2>4, <3>2 DEF FinalizeLoad, Goto, At, TypeOK, Coroutine
    <3>4. QED
      BY <1>0, <1>2, <2>1, <3>3, OrderlyKept
  <2>5. CASE UNCHANGED row /\ (At(c, "stamping")' => At(c, "stamping"))
    BY <1>0, <1>2, <2>1, <2>5, OrderlyKept
  <2>6. ASSUME NEW p, Goto(c, p), p # "stamping" PROVE ~At(c, "stamping")'
    BY <2>6 DEF Goto, At, TypeOK, Coroutine
  <2>7. ASSUME End(c) PROVE ~At(c, "stamping")'
    BY <2>7 DEF End, At, Idle, TypeOK
  <2>8. CASE SaveCheckpoint(c)
    BY <2>5, <2>8 DEF SaveCheckpoint, At
  <2>9. CASE Dispatch(c) \/ ExecutorReturns(c) \/ TimeLimit(c) \/ Evaluate(c)
    BY <2>5, <2>6, <2>9 DEF Dispatch, ExecutorReturns, TimeLimit, Evaluate
  <2>10. CASE FinalizeFailed(c) \/ StoreBreaks(c)
    BY <2>5, <2>7, <2>10 DEF FinalizeFailed, StoreBreaks
  <2>11. QED
    BY <1>5, <2>2, <2>3, <2>4, <2>8, <2>9, <2>10 DEF Step
<1>6. QED
  BY <1>3, <1>4, <1>5

(* So does a request: a submission is the run's first execution.            *)
LEMMA OrderlyRequest ==
    ASSUME TypeOK, HeldRunsExist, NEW c \in Coros, NEW r \in Runs, NEW w \in Workers,
           Request(c, r, w), NEW q \in Runs, Orderly(q)
    PROVE  Orderly(q)'
<1>1. /\ co'[c].run = r /\ \A d \in Coros : d # c => co'[d] = co[d]
      /\ row' = row \/ row' = [row EXCEPT ![r] = NewRow(row'[r].owner)]
  BY RequestFrame
<1>2. ASSUME NEW d \in Coros, d # c
      PROVE  (WorksOn(d, q)' <=> WorksOn(d, q)) /\ (At(d, "stamping")' <=> At(d, "stamping"))
  BY <1>1, <1>2 DEF WorksOn, At
<1>3. CASE q # r
  <2>1. ~WorksOn(c, q)' /\ row'[q] = row[q]
    BY <1>1, <1>3 DEF WorksOn, TypeOK
  <2>2. QED
    BY <1>2, <2>1, OrderlyKept
<1>4. CASE q = r /\ \E o \in {"user", "nobody"} : Submit(c, r, w, o)
  <2>1. row[q].status = "absent"
    BY <1>4 DEF Submit
  <2>2. \A d \in Coros : ~WorksOn(d, q)
    BY <2>1 DEF HeldRunsExist, Quiet, WorksOn
  <2>3. row'[q].status = "running" /\ row'[q].finished = FALSE
    BY <1>4 DEF Submit, Write, NewRow, NoRow, TypeOK
  <2>4. ~At(c, "stamping")'
    BY <1>4 DEF Submit, Start, At, TypeOK
  <2>5. QED
    BY <1>2, <2>2, <2>3, <2>4 DEF Orderly
<1>5. CASE q = r /\ (CancelCheck(c, r, w) \/ ResumeCheck(c, r, w))
  <2>1. row' = row /\ ~WorksOn(c, q)'
    BY <1>5 DEF CancelCheck, ResumeCheck, Start, WorksOn, Working, TypeOK
  <2>2. QED
    BY <1>2, <2>1, OrderlyKept
<1>6. QED
  BY <1>3, <1>4, <1>5 DEF Request

(* And so does a process: a scan in time finds the run old, and an old run  *)
(* is executed by nobody.                                                   *)
LEMMA OrderlyProcess ==
    ASSUME TypeOK, LiveRunsAreFresh, OrderlyRuns, [Next]_vars, NEW w \in Workers, Process(w),
           NEW q \in Runs, q \notin overtaken'
    PROVE  Orderly(q)'
<1>0. Orderly(q)
  BY OvertakenRecords DEF OrderlyRuns
<1>1. \A d \in Coros : co'[d] = co[d] \/ co'[d] = Idle
  BY DEF Process, BootScan, Serve, Crash, ScanRun, TypeOK
<1>2. \A d \in Coros : WorksOn(d, q)' => WorksOn(d, q) /\ (At(d, "stamping")' => At(d, "stamping"))
  BY <1>1 DEF WorksOn, At, Idle, Working
<1>3. CASE ScanRun(w, q)
  <2>1. row[q].old
    BY <1>3, OvertakenRecords DEF Stale
  <2>2. \A d \in Coros : ~WorksOn(d, q)'
    BY <1>2, <2>1 DEF LiveRunsAreFresh, Executed, WorksOn
  <2>3. row'[q].status \in {"interrupted", "failed"}
    BY <1>3, ScanStatus DEF StatusBecomes
  <2>4. QED
    BY <2>2, <2>3 DEF Orderly
<1>4. CASE ~ScanRun(w, q)
  <2>1. row'[q] = row[q]
    BY <1>4, ProcessRow
  <2>2. QED
    BY <1>0, <1>2, <2>1, OrderlyKept DEF WorksOn, At
<1>5. QED
  BY <1>3, <1>4

LEMMA OrderlyInductive == Spec => []OrderlyRuns
<1>1. Init => OrderlyRuns
  BY DEF Init, OrderlyRuns, Orderly, WorksOn, NoRow, Idle, Working
<1>2. ASSUME TypeOK, HeldRunsExist, LiveRunsAreFresh, OrderlyRuns, [Next]_vars
      PROVE  OrderlyRuns'
  <2> USE <1>2
  <2> SUFFICES ASSUME NEW q \in Runs, q \notin overtaken' PROVE Orderly(q)'
    BY DEF OrderlyRuns
  <2>0. Orderly(q)
    BY OvertakenRecords DEF OrderlyRuns
  <2>1. ASSUME NEW r \in Runs, GrowOld(r) PROVE Orderly(q)'
    <3>1. row'[q].status = row[q].status /\ row'[q].finished = row[q].finished /\ co' = co
      BY <2>1 DEF GrowOld, TypeOK, Row
    <3>2. QED
      BY <2>0, <3>1, OrderlyKept DEF WorksOn, At
  <2>2. CASE UNCHANGED vars
    BY <2>0, <2>2, OrderlyKept DEF vars, WorksOn, At
  <2>3. QED
    BY <2>0, <2>1, <2>2, OrderlyStep, OrderlyRequest, OrderlyProcess DEF Next
<1>3. QED
  BY <1>1, <1>2, TypeCorrect, RunsExist, LiveRunsFresh, PTL DEF Spec

\* Whatever took a run out of execution set its finished_at.
DoneIsFinished == \A r \in Runs : row[r].status \notin {"absent", "running"} => row[r].finished

LEMMA DoneFinished == Spec => []DoneIsFinished
<1>1. Init => DoneIsFinished
  BY DEF Init, DoneIsFinished, NoRow
<1>2. ASSUME TypeOK, DoneIsFinished, [Next]_vars PROVE DoneIsFinished'
  <2> USE <1>2
  <2> DEFINE Done(d) == d.status \notin {"absent", "running"} => d.finished
  <2>0. \A r \in Runs : row[r] \in Row /\ Done(row[r])
    BY DEF DoneIsFinished, TypeOK
  <2>1. SUFFICES \A r \in Runs : Done(row'[r])
    BY DEF DoneIsFinished
  <2>2. \A d \in Row : /\ Done(CancelledRow(d)) /\ Done(ResumedRow(d)) /\ Done(CompletedRow(d))
                       /\ Done(StampedRow(d)) /\ Done(RecoveredRow(d)) /\ Done(LostRow(d))
                       /\ Done(d) => Done([d EXCEPT !.old = TRUE])
    BY DEF Row, CancelledRow, ResumedRow, CompletedRow, StampedRow, RecoveredRow, LostRow
  <2>3. \A o : Done(NewRow(o))
    BY DEF NewRow, NoRow
  <2>4. ASSUME NEW r \in Runs, NEW d, Done(d), Write(r, d) PROVE \A q \in Runs : Done(row'[q])
    BY <2>0, <2>4 DEF Write, TypeOK
  <2>5. CASE UNCHANGED row
    BY <2>0, <2>5
  <2>6. ASSUME NEW c \in Coros, NEW r \in Runs, NEW w \in Workers, Request(c, r, w)
        PROVE  \A q \in Runs : Done(row'[q])
    BY <2>3, <2>4, <2>5, <2>6 DEF Request, Submit, CancelCheck, ResumeCheck
  <2>7. ASSUME NEW c \in Coros, Step(c) PROVE \A q \in Runs : Done(row'[q])
    <3>1. co[c].run \in Runs
      BY <2>7, StepRow
    <3>2. CASE FinalizeCompleted(c)
      BY <2>0, <2>2, <2>4, <3>1, <3>2 DEF FinalizeCompleted
    <3>3. CASE CancelCommit(c)
      BY <2>0, <2>2, <2>4, <3>1, <3>3 DEF CancelCommit
    <3>4. CASE ResumeCommit(c)
      BY <2>0, <2>2, <2>4, <3>1, <3>4 DEF ResumeCommit
    <3>5. QED
      BY <2>5, <2>7, <3>2, <3>3, <3>4 DEF Step, Dispatch, SaveCheckpoint, ExecutorReturns,
         TimeLimit, Evaluate, FinalizeLoad, FinalizeFailed, StoreBreaks
  <2>8. ASSUME NEW w \in Workers, Process(w) PROVE \A q \in Runs : Done(row'[q])
    BY <2>0, <2>2, <2>4, <2>5, <2>8 DEF Process, BootScan, Serve, Crash, ScanRun
  <2>9. ASSUME NEW r \in Runs, GrowOld(r) PROVE \A q \in Runs : Done(row'[q])
    BY <2>0, <2>2, <2>9 DEF GrowOld, TypeOK
  <2>10. QED
    BY <2>5, <2>6, <2>7, <2>8, <2>9 DEF Next, vars
<1>3. QED
  BY <1>1, <1>2, TypeCorrect, PTL DEF Spec

(* RowCoherent holds in every state: a finished row is never running unless *)
(* a commit overtook its check, although the finaliser's UPDATE may leave   *)
(* the status out.                                                          *)
THEOREM RowsCoherent == Spec => []RowCoherent
<1>1. OrderlyRuns /\ DoneIsFinished => RowCoherent
  BY DEF OrderlyRuns, Orderly, DoneIsFinished, RowCoherent
<1>2. QED
  BY <1>1, OrderlyInductive, DoneFinished, PTL

(* OneExecution holds in every state, on any number of workers: only a      *)
(* commit that overtook its check gives a run two executions.               *)
THEOREM ExecutedOnce == Spec => []OneExecution
<1>1. OrderlyRuns => OneExecution
  BY DEF OrderlyRuns, Orderly, OneExecution, WorksOn
<1>2. QED
  BY <1>1, OrderlyInductive, PTL

(* The edge an undisturbed run takes, by the commit that takes it.          *)
LEMMA UndisturbedEdges ==
    ASSUME TypeOK, HeldRunsExist, OrderlyRuns, [Next]_vars, NEW r \in Runs, r \notin overtaken'
    PROVE  /\ \A c \in Coros : Step(c) /\ co[c].run = r =>
                 /\ FinalizeCompleted(c) => <<row[r].status, "completed">> \in Undisturbed
                 /\ CancelCommit(c) => <<row[r].status, "cancelled">> \in Undisturbed
                 /\ ResumeCommit(c) => <<row[r].status, "running">> \in Undisturbed
           /\ \A w \in Workers : ScanRun(w, r) =>
                 /\ <<row[r].status, "interrupted">> \in Undisturbed
                 /\ <<row[r].status, "failed">> \in Undisturbed
<1>0. Orderly(r) /\ row[r].status # "cancelling"
  BY OvertakenRecords DEF OrderlyRuns, HeldRunsExist
<1>1. ASSUME NEW c \in Coros, Step(c), co[c].run = r
      PROVE  /\ FinalizeCompleted(c) => <<row[r].status, "completed">> \in Undisturbed
             /\ CancelCommit(c) => <<row[r].status, "cancelled">> \in Undisturbed
             /\ ResumeCommit(c) => <<row[r].status, "running">> \in Undisturbed
  <2>1. ASSUME FinalizeCompleted(c) PROVE row[r].status \in {"running", "cancelled"}
    BY <1>0, <1>1, <2>1 DEF FinalizeCompleted, Orderly, WorksOn, At, Working
  <2>2. ASSUME CancelCommit(c) PROVE row[r].status = "running"
    BY <1>0, <1>1, <2>2, OvertakenRecords DEF CancelAllowed
  <2>3. ASSUME ResumeCommit(c) PROVE row[r].status = "interrupted"
    BY <1>1, <2>3, OvertakenRecords DEF ResumeAllowed
  <2>4. QED
    BY <2>1, <2>2, <2>3 DEF Undisturbed
<1>2. ASSUME NEW w \in Workers, ScanRun(w, r) PROVE row[r].status = "running"
  BY <1>0, <1>2, OvertakenRecords DEF Stale
<1>3. QED
  BY <1>1, <1>2 DEF Undisturbed

-----------------------------------------------------------------------------
(* What a client sees *)

\* A holder of run r writes status t; a client sees nothing else change.  The
\* edge is one of the narrow graph if no commit of r overtook its check.
Changes(r, t) == /\ r \in HeldRuns
                 /\ StatusOf' = [StatusOf EXCEPT ![r] = t]
                 /\ HeldRuns' \in {HeldRuns, HeldRuns \ {r}}
                 /\ overtaken' \in {overtaken, overtaken \cup {r}}
                 /\ r \notin overtaken' => <<row[r].status, t>> \in Undisturbed

LEMMA StatusSeen ==
    ASSUME TypeOK, NEW r \in Runs, NEW t, StatusBecomes(r, t)
    PROVE  StatusOf' = [StatusOf EXCEPT ![r] = t]
<1>1. StatusOf' = [q \in Runs |-> row'[q].status]
  BY DEF StatusOf
<1>2. \A q \in Runs : row'[q].status = IF q = r THEN t ELSE row[q].status
  BY DEF StatusBecomes
<1>3. QED
  BY <1>1, <1>2 DEF StatusOf

(* Asking for a run takes it up, and lets go of none.                       *)
LEMMA RequestHeld ==
    ASSUME TypeOK, NEW c \in Coros, NEW r \in Runs, NEW w \in Workers, Request(c, r, w)
    PROVE  HeldRuns' = HeldRuns \cup {r}
<1>1. todo' = todo /\ co'[c].run = r /\ \A d \in Coros : d # c => co'[d] = co[d]
  BY RequestFrame
<1>2. co[c].run = None
  BY DEF Request, Submit, CancelCheck, ResumeCheck, Start, Idle
<1>3. \A q \in Runs : q # None
  BY RunsAssumption
<1>4. \A q \in Runs : ~Quiet(q)' <=> ~Quiet(q) \/ q = r
  BY <1>1, <1>2, <1>3 DEF Quiet
<1>5. HeldRuns' = {q \in Runs : ~Quiet(q)'}
  BY DEF HeldRuns
<1>6. QED
  BY <1>4, <1>5 DEF HeldRuns

(* A request is a submission or takes up an open run.                       *)
LEMMA RequestIsAllowed ==
    ASSUME TypeOK, NEW c \in Coros, NEW r \in Runs, NEW w \in Workers, Request(c, r, w)
    PROVE  ManyWorkers!Submit(r) \/ ManyWorkers!Take({r})
<1>1. HeldRuns' = HeldRuns \cup {r}
  BY RequestHeld
<1>2. ASSUME NEW o \in {"user", "nobody"}, Submit(c, r, w, o) PROVE ManyWorkers!Submit(r)
  <2>1. StatusBecomes(r, "running")
    BY <1>2 DEF Submit, Write, TypeOK, NewRow, NoRow, StatusBecomes
  <2>2. StatusOf[r] = "absent"
    BY <1>2 DEF Submit, StatusOf
  <2>3. QED
    BY <1>1, <1>2, <2>1, <2>2, StatusSeen DEF ManyWorkers!Submit, Submit
<1>3. CASE CancelCheck(c, r, w) \/ ResumeCheck(c, r, w)
  <2>1. StatusOf' = StatusOf
    BY <1>3 DEF CancelCheck, ResumeCheck, StatusOf
  <2>2. StatusOf[r] \in {"running", "cancelling", "interrupted"}
    BY <1>3 DEF CancelCheck, ResumeCheck, CancelAllowed, ResumeAllowed, StatusOf
  <2>3. QED
    BY <1>1, <1>3, <2>1, <2>2 DEF ManyWorkers!Take, ManyWorkers!Open, CancelCheck, ResumeCheck
<1>4. QED
  BY <1>2, <1>3 DEF Request

(* A start-up scan takes up the runs it selects; a worker that serves or    *)
(* dies only lets go; a turn of the scan writes the run it holds.           *)
LEMMA ProcessIsAllowed ==
    ASSUME TypeOK, TodoIsScanned, HeldRunsExist, OrderlyRuns, [Next]_vars, NEW w \in Workers, Process(w)
    PROVE  \/ \E S \in SUBSET Runs : ManyWorkers!Take(S) \/ ManyWorkers!Release(S)
           \/ \E r \in Runs : ScanRun(w, r) /\ (Changes(r, "interrupted") \/ Changes(r, "failed"))
<1>0. HeldRuns' = {q \in Runs : ~Quiet(q)'}
  BY DEF HeldRuns
<1>1. CASE BootScan(w)
  <2> DEFINE S == {r \in Runs : Stale(row[r])}
  <2>1. todo[w] = {} /\ todo' = [todo EXCEPT ![w] = S] /\ UNCHANGED <<row, co>>
    BY <1>1 DEF BootScan, TodoIsScanned
  <2>2. \A q \in Runs : ~Quiet(q)' <=> ~Quiet(q) \/ q \in S
    BY <2>1 DEF Quiet, TypeOK
  <2>3. HeldRuns' = HeldRuns \cup S
    BY <1>0, <2>2 DEF HeldRuns
  <2>4. StatusOf' = StatusOf /\ \A r \in S : StatusOf[r] \in {"running", "cancelling"}
    BY <2>1 DEF StatusOf, Stale
  <2>5. ManyWorkers!Take(S)
    BY <1>1, <2>3, <2>4 DEF ManyWorkers!Take, ManyWorkers!Open, BootScan
  <2>6. QED
    BY <2>5
<1>2. CASE Serve(w) \/ Crash(w)
  <2>1. \A q \in Runs : Quiet(q) => Quiet(q)'
    BY <1>2, RunsAssumption DEF Serve, Crash, Quiet, TypeOK, Idle
  <2>2. HeldRuns' \subseteq HeldRuns /\ HeldRuns \subseteq Runs
    BY <1>0, <2>1 DEF HeldRuns
  <2>3. StatusOf' = StatusOf
    BY <1>2 DEF Serve, Crash, StatusOf
  <2>4. ManyWorkers!Release(HeldRuns \ HeldRuns')
    BY <1>2, <2>2, <2>3 DEF ManyWorkers!Release, Serve, Crash
  <2>5. QED
    BY <2>2, <2>4
<1>3. ASSUME NEW r \in Runs, ScanRun(w, r) PROVE Changes(r, "interrupted") \/ Changes(r, "failed")
  <2>1. StatusOf' \in {[StatusOf EXCEPT ![r] = "interrupted"], [StatusOf EXCEPT ![r] = "failed"]}
    BY <1>3, ScanStatus, StatusSeen
  <2>2. r \in HeldRuns
    BY <1>3, ScanStatus DEF HeldRuns, Quiet
  <2>3. \A q \in Runs : q # r => (Quiet(q)' <=> Quiet(q))
    BY <1>3, ScanStatus DEF Quiet
  <2>4. HeldRuns' \in {HeldRuns, HeldRuns \ {r}}
    <3>1. CASE Quiet(r)'
      BY <1>0, <2>2, <2>3, <3>1 DEF HeldRuns
    <3>2. CASE ~Quiet(r)'
      BY <1>0, <2>2, <2>3, <3>2 DEF HeldRuns
    <3>3. QED
      BY <3>1, <3>2
  <2>5. /\ overtaken' \in {overtaken, overtaken \cup {r}}
        /\ r \notin overtaken' => /\ <<row[r].status, "interrupted">> \in Undisturbed
                                 /\ <<row[r].status, "failed">> \in Undisturbed
    BY <1>3, OvertakenRecords, UndisturbedEdges
  <2>6. QED
    BY <2>1, <2>2, <2>4, <2>5 DEF Changes
<1>4. QED
  BY <1>1, <1>2, <1>3 DEF Process

(* A coroutine that steps writes the status of its run, lets go of it, or   *)
(* does nothing a client sees.                                              *)
LEMMA StepIsAllowed ==
    ASSUME TypeOK, HeldRunsExist, OrderlyRuns, [Next]_vars, NEW c \in Coros, Step(c)
    PROVE  LET r == co[c].run
           IN  \/ \E S \in SUBSET Runs : ManyWorkers!Release(S)
               \/ FinalizeCompleted(c) /\ At(c, "storing") /\ Changes(r, "completed")
               \/ CancelCommit(c) /\ Changes(r, "cancelled")
               \/ ResumeCommit(c) /\ Changes(r, "running")
<1> DEFINE r == co[c].run
<1>1. r \in Runs /\ r \in HeldRuns /\ HeldRuns' \in {HeldRuns, HeldRuns \ {r}}
  BY StepStatus, StepHeld
<1>2. ASSUME NEW t, StatusBecomes(r, t), r \notin overtaken' => <<row[r].status, t>> \in Undisturbed
      PROVE  Changes(r, t)
  BY <1>1, <1>2, StatusSeen, OvertakenRecords DEF Changes
<1>3. CASE UNCHANGED overtaken /\ \A q \in Runs : row'[q].status = row[q].status
  <2>1. StatusOf' = StatusOf
    BY <1>3 DEF StatusOf
  <2>2. ManyWorkers!Release({}) \/ ManyWorkers!Release({r})
    BY <1>1, <1>3, <2>1 DEF ManyWorkers!Release
  <2>3. QED
    BY <1>1, <2>2
<1>4. CASE FinalizeCompleted(c) /\ At(c, "stamping") /\ \A q \in Runs : row'[q].status = row[q].status
  BY <1>3, <1>4 DEF FinalizeCompleted
<1>5. CASE UNCHANGED <<row, overtaken>>
  BY <1>3, <1>5
<1>6. r \notin overtaken' =>
        /\ FinalizeCompleted(c) => <<row[r].status, "completed">> \in Undisturbed
        /\ CancelCommit(c) => <<row[r].status, "cancelled">> \in Undisturbed
        /\ ResumeCommit(c) => <<row[r].status, "running">> \in Undisturbed
  BY <1>1, UndisturbedEdges
<1>7. QED
  BY <1>2, <1>4, <1>5, <1>6, StepStatus

(* Every step is a submission, takes up open runs, lets go of runs, or is   *)
(* one of the four that write the status of a run that is held.             *)
LEMMA LifecycleStep ==
    ASSUME TypeOK, TodoIsScanned, HeldRunsExist, OrderlyRuns, [Next]_vars
    PROVE  \/ \E r \in Runs : ManyWorkers!Submit(r)
           \/ \E S \in SUBSET Runs : ManyWorkers!Take(S) \/ ManyWorkers!Release(S)
           \/ \E c \in Coros : /\ Step(c)
                               /\ \/ /\ FinalizeCompleted(c) /\ At(c, "storing")
                                     /\ Changes(co[c].run, "completed")
                                  \/ CancelCommit(c) /\ Changes(co[c].run, "cancelled")
                                  \/ ResumeCommit(c) /\ Changes(co[c].run, "running")
           \/ \E w \in Workers, r \in Runs :
                 /\ ScanRun(w, r)
                 /\ Changes(r, "interrupted") \/ Changes(r, "failed")
<1>1. ASSUME NEW c \in Coros, NEW r \in Runs, NEW w \in Workers, Request(c, r, w)
      PROVE  ManyWorkers!Submit(r) \/ ManyWorkers!Take({r})
  BY <1>1, RequestIsAllowed
<1>2. CASE UNCHANGED vars \/ \E r \in Runs : GrowOld(r)
  <2>1. StatusOf' = StatusOf
    BY <1>2 DEF vars, GrowOld, StatusOf, TypeOK, Row
  <2>2. HeldRuns' = HeldRuns
    BY <1>2 DEF vars, GrowOld, HeldRuns, Quiet
  <2>3. ManyWorkers!Release({})
    BY <1>2, <2>1, <2>2 DEF ManyWorkers!Release, vars, GrowOld
  <2>4. QED
    BY <2>3
<1>3. QED
  BY <1>1, <1>2, StepIsAllowed, ProcessIsAllowed DEF Next

(* On any number of workers AgentRuns implements RunLifecycle: a status     *)
(* changes only while the run is held, only an open run is taken up, a run  *)
(* begins with its submission and follows the narrow graph until a commit   *)
(* overtakes its check.                                                     *)
THEOREM ImplementsManyWorkers == Spec => ManyWorkersLifecycle
<1>1. Init => ManyWorkers!Init
  BY RunsAssumption DEF Init, ManyWorkers!Init, StatusOf, HeldRuns, Quiet, NoRow, Idle
<1>2. ASSUME TypeOK, HeldRunsExist, OrderlyRuns, TodoIsScanned, [Next]_vars
      PROVE  [ManyWorkers!Next]_(ManyWorkers!vars)
  <2> USE <1>2
  <2>1. ASSUME NEW r \in Runs, NEW t \in {"running", "completed", "cancelled", "interrupted", "failed"},
               Changes(r, t)
        PROVE  ManyWorkers!Change(r, t)
    <3>1. ~Quiet(r) /\ StatusOf[r] = row[r].status /\ row[r] \in Row
      BY <2>1 DEF Changes, HeldRuns, StatusOf, TypeOK
    <3>2. StatusOf[r] \in {"running", "completed", "cancelled", "interrupted", "failed"}
      BY <3>1 DEF HeldRunsExist, Row, Status
    <3>3. QED
      BY <2>1, <3>1, <3>2 DEF Changes, ManyWorkers!Change, DisturbedOnManyWorkers
  <2>2. ASSUME NEW c \in Coros, Step(c) PROVE co[c].run \in Runs
    BY <2>2, StepStatus
  <2>3. QED
    BY <2>1, <2>2, LifecycleStep DEF ManyWorkers!Next
<1>3. QED
  BY <1>1, <1>2, TypeCorrect, RunsExist, OrderlyInductive, ScansInStartup, PTL
     DEF Spec, ManyWorkersLifecycle, ManyWorkers!Spec

(* On one worker, OneWorkerHolds is inductive.                              *)
LEMMA OneWorkerHoldsInductive ==
    SingleWorker => (Spec => []OneWorkerHolds)
<1> SUFFICES ASSUME SingleWorker PROVE Spec => []OneWorkerHolds
  OBVIOUS
<1>1. Init => OneWorkerHolds
  BY DEF Init, OneWorkerHolds, At, Idle
<1>2. ASSUME TypeOK, HeldRunsExist, OneWorkerInv, OneWorkerHolds, [Next]_vars
      PROVE  OneWorkerHolds'
  <2> USE <1>2
  <2> DEFINE CancelsOpen(c) == At(c, "cancelling") => row[co[c].run].status # "interrupted"
             ScansRunning(w) == \A r \in todo[w] : row[r].status = "running"
  <2> SUFFICES (\A c \in Coros : CancelsOpen(c)') /\ (\A w \in Workers : ScansRunning(w)')
    BY DEF OneWorkerHolds
  <2>0. /\ \A c \in Coros : CancelsOpen(c)
        /\ \A w \in Workers : ScansRunning(w)
        /\ \A w \in Workers : todo[w] \subseteq Runs
        /\ \A c \in Coros : At(c, "cancelling") => co[c].run \in Runs
    BY DEF OneWorkerHolds, TypeOK, SlotOK, At, Idle
  <2>1. ASSUME NEW c \in Coros, NEW r \in Runs, NEW w \in Workers, Request(c, r, w)
        PROVE  (\A d \in Coros : CancelsOpen(d)') /\ (\A v \in Workers : ScansRunning(v)')
    <3>1. /\ todo' = todo /\ co'[c].run = r /\ \A d \in Coros : d # c => co'[d] = co[d]
          /\ row' = row \/ row' = [row EXCEPT ![r] = NewRow(row'[r].owner)]
      BY <2>1, RequestFrame
    <3>2. ASSUME NEW q \in Runs PROVE row'[q] = row[q] \/ row'[q].status = "running"
      <4>1. \A o : NewRow(o).status = "running"
        BY DEF NewRow, NoRow
      <4>2. QED
        BY <3>1, <4>1 DEF TypeOK
    <3>3. CancelsOpen(c)'
      <4>1. ASSUME NEW o \in {"user", "nobody"}, Submit(c, r, w, o) PROVE co'[c].phase = "dispatch"
        BY <4>1 DEF Submit, Start, TypeOK
      <4>2. CASE ResumeCheck(c, r, w)
        BY <4>2 DEF ResumeCheck, Start, TypeOK, At
      <4>3. CASE CancelCheck(c, r, w)
        BY <3>1, <4>3 DEF CancelCheck, CancelAllowed
      <4>4. QED
        BY <2>1, <4>1, <4>2, <4>3 DEF Request, At
    <3>4. ASSUME NEW d \in Coros, d # c PROVE CancelsOpen(d)'
      BY <2>0, <3>1, <3>2, <3>4 DEF At
    <3>5. \A v \in Workers : ScansRunning(v)'
      BY <2>0, <3>1, <3>2
    <3>6. QED
      BY <3>3, <3>4, <3>5
  <2>2. ASSUME NEW c \in Coros, Step(c)
        PROVE  (\A d \in Coros : CancelsOpen(d)') /\ (\A v \in Workers : ScansRunning(v)')
    <3>1. /\ todo' = todo /\ \A d \in Coros : d # c => co'[d] = co[d]
          /\ co'[c] = Idle \/ co'[c].run = co[c].run
      BY <2>2, StepFrame
    <3>2. \A q \in Runs : row'[q].status = row[q].status
                           \/ row'[q].status \in {"completed", "cancelled", "running"}
      BY <2>2, StepStatus DEF StatusBecomes
    <3>3. ~At(c, "cancelling")'
      <4>1. ASSUME NEW p, Goto(c, p), p # "cancelling" PROVE ~At(c, "cancelling")'
        BY <4>1 DEF Goto, At, TypeOK, Coroutine
      <4>2. CASE End(c)
        BY <4>2 DEF End, At, Idle, TypeOK
      <4>3. CASE SaveCheckpoint(c)
        BY <4>3 DEF SaveCheckpoint, At
      <4>4. QED
        BY <2>2, <4>1, <4>2, <4>3 DEF Step, Dispatch, ExecutorReturns, TimeLimit, Evaluate,
           FinalizeLoad, FinalizeCompleted, FinalizeFailed, StoreBreaks, CancelCommit, ResumeCommit
    <3>4. \A d \in Coros : CancelsOpen(d)'
      BY <2>0, <3>1, <3>2, <3>3 DEF At
    <3>5. ASSUME NEW v \in Workers PROVE ScansRunning(v)'
      <4>1. todo[v] = {}
        BY <2>2, ScanAlone, StepFrame DEF At, Idle
      <4>2. QED
        BY <3>1, <4>1
    <3>6. QED
      BY <3>4, <3>5
  <2>3. ASSUME NEW w \in Workers, Process(w)
        PROVE  (\A d \in Coros : CancelsOpen(d)') /\ (\A v \in Workers : ScansRunning(v)')
    <3>1. CASE BootScan(w)
      <4>1. \A q \in Runs : Stale(row[q]) => row[q].status = "running"
        BY DEF Stale, HeldRunsExist
      <4>2. QED
        BY <2>0, <3>1, <4>1 DEF BootScan, TypeOK, At
    <3>2. CASE Serve(w)
      BY <2>0, <3>2 DEF Serve, TypeOK, At
    <3>3. CASE Crash(w)
      BY <2>0, <3>3 DEF Crash, TypeOK, At, Idle
    <3>4. ASSUME NEW r \in Runs, ScanRun(w, r)
          PROVE  (\A d \in Coros : CancelsOpen(d)') /\ (\A v \in Workers : ScansRunning(v)')
      <4>1. \A c \in Coros : co'[c] = Idle
        BY <3>4, ScanAlone, ScanStatus
      <4>2. \A q \in Runs : q # r => row'[q] = row[q]
        BY <3>4, ScanStatus DEF StatusBecomes
      <4>3. ASSUME NEW v \in Workers PROVE ScansRunning(v)'
        <5>1. v = w
          BY DEF SingleWorker
        <5>2. todo'[v] = todo[v] \ {r}
          BY <3>4, <5>1, ScanStatus
        <5>3. QED
          BY <2>0, <4>2, <5>2
      <4>4. QED
        BY <4>1, <4>3 DEF At, Idle
    <3>5. QED
      BY <2>3, <3>1, <3>2, <3>3, <3>4 DEF Process
  <2>4. ASSUME NEW r \in Runs, GrowOld(r)
        PROVE  (\A d \in Coros : CancelsOpen(d)') /\ (\A v \in Workers : ScansRunning(v)')
    <3>1. \A q \in Runs : row'[q].status = row[q].status
      BY <2>4 DEF GrowOld, TypeOK, Row
    <3>2. QED
      BY <2>0, <2>4, <3>1 DEF GrowOld, At
  <2>5. CASE UNCHANGED vars
    BY <2>0, <2>5 DEF vars, At
  <2>6. QED
    BY <2>1, <2>2, <2>3, <2>4, <2>5 DEF Next
<1>3. QED
  BY <1>1, <1>2, RunsExist, OneWorkerInductive, PTL DEF Spec

(* On one worker it does so with a narrower graph for the runs a commit     *)
(* overtook: nothing leaves "failed", and "interrupted" leads to "running"  *)
(* only.                                                                    *)
THEOREM ImplementsOneWorker == SingleWorker => (Spec => OneWorkerLifecycle)
<1> SUFFICES ASSUME SingleWorker PROVE Spec => OneWorkerLifecycle
  OBVIOUS
<1>1. Init => OneWorker!Init
  BY RunsAssumption DEF Init, OneWorker!Init, StatusOf, HeldRuns, Quiet, NoRow, Idle
<1>2. ASSUME TypeOK, HeldRunsExist, OrderlyRuns, OneWorkerInv, OneWorkerHolds, [Next]_vars
      PROVE  [OneWorker!Next]_(OneWorker!vars)
  <2> USE <1>2
  <2>1. ASSUME NEW r \in Runs, NEW t \in {"running", "completed", "cancelled", "interrupted", "failed"},
               Changes(r, t), <<row[r].status, t>> \in DisturbedOnOneWorker
        PROVE  OneWorker!Change(r, t)
    BY <2>1 DEF Changes, StatusOf, OneWorker!Change
  <2>2. ASSUME NEW r \in Runs, r \in HeldRuns
        PROVE  row[r].status \in {"running", "completed", "cancelled", "interrupted"}
    <3>1. ~Quiet(r) /\ row[r] \in Row
      BY <2>2 DEF HeldRuns, TypeOK
    <3>2. QED
      BY <3>1 DEF HeldRunsExist, OneWorkerInv, Row, Status
  <2>3. ASSUME NEW c \in Coros, Step(c), FinalizeCompleted(c), Changes(co[c].run, "completed")
        PROVE  OneWorker!Change(co[c].run, "completed")
    <3>1. co[c].run \in Runs /\ Executed(co[c].run)
      BY <2>3, StepStatus DEF FinalizeCompleted, Executed, At, Working
    <3>2. row[co[c].run].status \in {"running", "completed", "cancelled"}
      BY <2>2, <2>3, <3>1 DEF OneWorkerInv, InterruptedIsIdle, Changes
    <3>3. QED
      BY <2>1, <2>3, <3>1, <3>2 DEF DisturbedOnOneWorker
  <2>4. ASSUME NEW c \in Coros, Step(c), CancelCommit(c), Changes(co[c].run, "cancelled")
        PROVE  OneWorker!Change(co[c].run, "cancelled")
    <3>1. co[c].run \in Runs
      BY <2>4, StepStatus
    <3>2. row[co[c].run].status \in {"running", "completed", "cancelled"}
      BY <2>2, <2>4, <3>1 DEF CancelCommit, OneWorkerHolds, Changes
    <3>3. QED
      BY <2>1, <2>4, <3>1, <3>2 DEF DisturbedOnOneWorker
  <2>5. ASSUME NEW c \in Coros, Step(c), ResumeCommit(c), Changes(co[c].run, "running")
        PROVE  OneWorker!Change(co[c].run, "running")
    <3>1. co[c].run \in Runs
      BY <2>5, StepStatus
    <3>2. row[co[c].run].status \in {"running", "completed", "cancelled", "interrupted"}
      BY <2>2, <2>5, <3>1 DEF Changes
    <3>3. QED
      BY <2>1, <2>5, <3>1, <3>2 DEF DisturbedOnOneWorker
  <2>6. ASSUME NEW w \in Workers, NEW r \in Runs, ScanRun(w, r),
               Changes(r, "interrupted") \/ Changes(r, "failed")
        PROVE  OneWorker!Change(r, "interrupted") \/ OneWorker!Change(r, "failed")
    <3>1. row[r].status = "running"
      BY <2>6 DEF ScanRun, OneWorkerHolds
    <3>2. QED
      BY <2>1, <2>6, <3>1 DEF DisturbedOnOneWorker
  <2>7. ASSUME NEW r \in Runs, ManyWorkers!Submit(r) PROVE OneWorker!Submit(r)
    BY <2>7 DEF ManyWorkers!Submit, OneWorker!Submit
  <2>8. ASSUME NEW S \in SUBSET Runs, ManyWorkers!Take(S) \/ ManyWorkers!Release(S)
        PROVE  OneWorker!Take(S) \/ OneWorker!Release(S)
    BY <2>8 DEF ManyWorkers!Take, OneWorker!Take, ManyWorkers!Release, OneWorker!Release,
       ManyWorkers!Open, OneWorker!Open
  <2>9. TodoIsScanned /\ \A c \in Coros : Step(c) => co[c].run \in Runs
    BY StepStatus DEF OneWorkerInv
  <2>10. QED
    BY <2>3, <2>4, <2>5, <2>6, <2>7, <2>8, <2>9, LifecycleStep DEF OneWorker!Next
<1>3. QED
  BY <1>1, <1>2, RunsExist, OrderlyInductive, OneWorkerInductive, OneWorkerHoldsInductive, PTL
     DEF Spec, OneWorkerLifecycle, OneWorker!Spec
=============================================================================

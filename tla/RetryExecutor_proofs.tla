------------------------- MODULE RetryExecutor_proofs -------------------------
(***************************************************************************)
(* Proofs about RetryExecutor, for any number of executions, threads and    *)
(* attempts and any bounds of the back-off.                                 *)
(***************************************************************************)
EXTENDS MCRetryExecutor, TLAPS

-----------------------------------------------------------------------------
(* The inductive invariant *)

\* The coroutine waits: the attempt is queued or runs, and no error that is
\* permanent came before it.
AttemptIsInPool(x) ==
    /\ attempt[x] = retries[x] + 1
    /\ x \in queued => x \notin running /\ begun[x] = retries[x]
    /\ x \notin queued => x \in running /\ begun[x] = retries[x] + 1
    /\ res[x].ok \/ "permanent" \notin res[x].marks

\* The graph of the last attempt has ended, and nothing is left in the pool.
AttemptIsOver(x) ==
    /\ attempt[x] = retries[x] + 1
    /\ begun[x] = retries[x] + 1
    /\ x \notin queued /\ x \notin running

Coherent(x) ==
    /\ x \in queued => phase[x] = "waiting"
    /\ x \in running => phase[x] = "waiting" \/ verdict[x] = "timeout"
    /\ phase[x] = "ended" <=> verdict[x] # "none"
    /\ phase[x] = "idle" => attempt[x] = 0 /\ retries[x] = 0 /\ begun[x] = 0 /\ res[x].ok
    /\ phase[x] = "waiting" => AttemptIsInPool(x)
    /\ phase[x] \in {"deciding", "backoff"} => AttemptIsOver(x)
    /\ phase[x] = "backoff" => Retryable(x)
    /\ verdict[x] \in {"completed", "failed"} => AttemptIsOver(x)

IInv == TypeOK /\ \A x \in Execs : Coherent(x)

LEMMA InitIInv == Init => IInv
<1> SUFFICES ASSUME Init PROVE IInv
  OBVIOUS
<1>1. TypeOK
  BY ExecutorAssumption DEF Init, TypeOK, Phase, Result, Success
<1>2. \A x \in Execs : Coherent(x)
  BY DEF Init, Coherent, Success
<1> QED
  BY <1>1, <1>2 DEF IInv

LEMMA NextTypeOK == ASSUME IInv, NEW x \in Execs, Step(x) PROVE TypeOK'
<1> USE ExecutorAssumption DEF IInv, TypeOK, Phase
<1>1. CASE Begin(x)
  BY <1>1 DEF Begin, Attempt, Coherent
<1>2. CASE ThreadBegins(x)
  BY <1>2 DEF ThreadBegins
<1>3. CASE ThreadEnds(x)
  <2>1. Success \in Result
    BY DEF Success, Result
  <2>2. \A r \in [ok : {FALSE}, marks : SUBSET Marks] : r \in Result
    BY DEF Result
  <2>3. Outcomes \subseteq Result
    BY <2>1, <2>2 DEF Outcomes
  <2> HIDE DEF Outcomes
  <2>4. phase' \in [Execs -> Phase] /\ res' \in [Execs -> Result]
    BY <1>3, <2>3 DEF ThreadEnds
  <2> QED
    BY <1>3, <2>4 DEF ThreadEnds
<1>4. CASE Return(x)
  BY <1>4 DEF Return, End
<1>5. CASE BackOff(x)
  BY <1>5 DEF BackOff
<1>6. CASE Wake(x)
  BY <1>6 DEF Wake, Attempt, Coherent, Retryable, AttemptsRemain
<1>7. CASE TimeLimit(x)
  BY <1>7 DEF TimeLimit, End
<1> QED
  BY <1>1, <1>2, <1>3, <1>4, <1>5, <1>6, <1>7 DEF Step

\* A step of one execution leaves the others as they are.
LEMMA OthersCoherent ==
    ASSUME IInv, NEW x \in Execs, Step(x), NEW y \in Execs, y # x PROVE Coherent(y)'
<1>1. /\ phase'[y] = phase[y] /\ attempt'[y] = attempt[y] /\ retries'[y] = retries[y]
      /\ res'[y] = res[y] /\ begun'[y] = begun[y] /\ verdict'[y] = verdict[y]
      /\ (y \in queued' <=> y \in queued) /\ (y \in running' <=> y \in running)
  <2> USE DEF IInv, TypeOK
  <2>1. CASE Begin(x)
    BY <2>1 DEF Begin, Attempt
  <2>2. CASE ThreadBegins(x)
    BY <2>2 DEF ThreadBegins
  <2>3. CASE ThreadEnds(x)
    BY <2>3 DEF ThreadEnds
  <2>4. CASE Return(x)
    BY <2>4 DEF Return, End
  <2>5. CASE BackOff(x)
    BY <2>5 DEF BackOff
  <2>6. CASE Wake(x)
    BY <2>6 DEF Wake, Attempt
  <2>7. CASE TimeLimit(x)
    BY <2>7 DEF TimeLimit, End
  <2> QED
    BY <2>1, <2>2, <2>3, <2>4, <2>5, <2>6, <2>7 DEF Step
<1>2. Coherent(y)
  BY DEF IInv
<1> QED
  BY <1>1, <1>2 DEF Coherent, AttemptIsInPool, AttemptIsOver, Retryable

LEMMA StepCoherent == ASSUME IInv, NEW x \in Execs, Step(x) PROVE Coherent(x)'
<1>0. Coherent(x) /\ TypeOK
  BY DEF IInv
<1>1. CASE Begin(x)
  BY <1>0, <1>1 DEF TypeOK, Begin, Attempt, Coherent, AttemptIsInPool
<1>2. CASE ThreadBegins(x)
  BY <1>0, <1>2 DEF TypeOK, ThreadBegins, Coherent, AttemptIsInPool
<1>3. CASE ThreadEnds(x)
  <2>1. CASE phase[x] = "waiting"
    BY <1>0, <1>3, <2>1 DEF TypeOK, ThreadEnds, Coherent, AttemptIsInPool, AttemptIsOver
  <2>2. CASE phase[x] # "waiting"
    BY <1>0, <1>3, <2>2 DEF TypeOK, ThreadEnds, Coherent, AttemptIsOver
  <2> QED
    BY <2>1, <2>2
<1>4. CASE Return(x)
  BY <1>0, <1>4 DEF TypeOK, Return, End, Coherent, AttemptIsOver
<1>5. CASE BackOff(x)
  BY <1>0, <1>5 DEF TypeOK, BackOff, Coherent, AttemptIsOver, Retryable
<1>6. CASE Wake(x)
  <2>1. "permanent" \notin res[x].marks
    BY <1>0, <1>6 DEF Wake, Coherent, Retryable, classify_error
  <2> QED
    BY <1>0, <1>6, <2>1 DEF TypeOK, Wake, Attempt, Coherent, AttemptIsInPool, AttemptIsOver
<1>7. CASE TimeLimit(x)
  BY <1>0, <1>7 DEF TypeOK, TimeLimit, End, Coherent
<1> QED
  BY <1>1, <1>2, <1>3, <1>4, <1>5, <1>6, <1>7 DEF Step

LEMMA NextIInv == IInv /\ [Next]_vars => IInv'
<1> SUFFICES ASSUME IInv, [Next]_vars PROVE IInv'
  OBVIOUS
<1>1. CASE Next
  BY <1>1, NextTypeOK, OthersCoherent, StepCoherent DEF Next, IInv
<1>2. CASE UNCHANGED vars
  BY <1>2 DEF vars, IInv, TypeOK, Coherent, AttemptIsInPool, AttemptIsOver, Retryable
<1> QED
  BY <1>1, <1>2

LEMMA Invariant == Spec => []IInv
BY InitIInv, NextIInv, PTL DEF Spec

-----------------------------------------------------------------------------
(* Theorems *)

(* The loop of RetryExecutor.execute keeps its variables' types; above all, *)
(* the attempt never passes max_attempts.                                   *)
THEOREM TypeCorrect == Spec => []TypeOK
<1>1. IInv => TypeOK
  BY DEF IInv
<1> QED
  BY <1>1, Invariant, PTL

(* actual_retries in the result is the number of graphs begun after the     *)
(* first.                                                                   *)
THEOREM CountExact == Spec => []RetryCountIsExact
<1>1. IInv => RetryCountIsExact
  BY DEF IInv, Coherent, AttemptIsOver, RetryCountIsExact
<1> QED
  BY <1>1, Invariant, PTL

(* A retry never runs beside the attempt it repeats, whatever wait_for has  *)
(* left behind in the thread pool.                                          *)
THEOREM NoOverlap == Spec => []AttemptsDoNotOverlap
<1>1. IInv => AttemptsDoNotOverlap
  BY DEF IInv, Coherent, AttemptIsInPool, AttemptsDoNotOverlap
<1> QED
  BY <1>1, Invariant, PTL

(* After an error with a permanent mark the graph is not begun again:       *)
(* classify_error looks for permanent patterns first.                       *)
THEOREM PermanentLast == Spec => PermanentIsLast
<1>1. ASSUME IInv, Next, NEW x \in Execs, ~res[x].ok, "permanent" \in res[x].marks
      PROVE  begun'[x] = begun[x]
  <2>1. PICK y \in Execs : Step(y)
    BY <1>1 DEF Next
  <2>2. x \notin queued
    BY <1>1 DEF IInv, Coherent, AttemptIsInPool
  <2>3. CASE ThreadBegins(y)
    BY <1>1, <2>2, <2>3 DEF ThreadBegins, IInv, TypeOK
  <2>4. CASE ~ThreadBegins(y)
    BY <2>1, <2>4 DEF Step, Begin, ThreadEnds, Return, BackOff, Wake, TimeLimit
  <2> QED
    BY <2>3, <2>4
<1>2. IInv /\ [Next]_vars =>
        [\A x \in Execs : ~res[x].ok /\ "permanent" \in res[x].marks => begun'[x] = begun[x]]_vars
  BY <1>1
<1> QED
  BY <1>2, Invariant, PTL DEF Spec, PermanentIsLast

(* The executor implements what its caller is promised.  Only a thread that *)
(* begins a graph and a verdict are steps of the promise.                   *)
THEOREM ImplementsPromise == Spec => KeepsItsPromise
<1>1. Init => Promise!Init
  BY DEF Init, Promise!Init
<1>2. IInv /\ [Next]_vars => [Promise!Next]_(Promise!vars)
  <2> SUFFICES ASSUME IInv, [Next]_vars PROVE [Promise!Next]_(Promise!vars)
    OBVIOUS
  <2>1. ASSUME NEW x \in Execs, ThreadBegins(x) PROVE Promise!Begin(x)
    <3>1. verdict[x] = "none" /\ begun[x] < MaxAttempts
      BY <2>1, ExecutorAssumption DEF IInv, TypeOK, Coherent, AttemptIsInPool, ThreadBegins
    <3> QED
      BY <2>1, <3>1 DEF ThreadBegins, Promise!Begin
  <2>2. ASSUME NEW x \in Execs, Return(x)
        PROVE  \E v \in {"completed", "failed"} : Promise!Conclude(x, v)
    <3>1. verdict[x] = "none" /\ begun[x] > 0
      BY <2>2 DEF IInv, TypeOK, Coherent, AttemptIsOver, Return
    <3> QED
      BY <2>2, <3>1 DEF Return, End, Promise!Conclude
  <2>3. ASSUME NEW x \in Execs, TimeLimit(x) PROVE Promise!Conclude(x, "timeout")
    BY <2>3 DEF IInv, TypeOK, Coherent, TimeLimit, End, Promise!Conclude
  <2>4. ASSUME NEW x \in Execs, Begin(x) \/ ThreadEnds(x) \/ BackOff(x) \/ Wake(x)
        PROVE  UNCHANGED Promise!vars
    BY <2>4 DEF Begin, ThreadEnds, BackOff, Wake, Promise!vars
  <2>5. UNCHANGED vars => UNCHANGED Promise!vars
    BY DEF vars, Promise!vars
  <2>6. Next => [Promise!Next]_(Promise!vars)
    BY <2>1, <2>2, <2>3, <2>4 DEF Next, Step, Promise!Next
  <2> QED
    BY <2>5, <2>6
<1> QED
  BY <1>1, <1>2, Invariant, PTL DEF Spec, KeepsItsPromise, Promise!Spec
=============================================================================

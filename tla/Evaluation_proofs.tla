-------------------------- MODULE Evaluation_proofs --------------------------
(***************************************************************************)
(* Proofs about Evaluation, for any sets of executions, contents and scores *)
(* and any number of faults.                                                *)
(***************************************************************************)
EXTENDS Evaluation, TLAPS

-----------------------------------------------------------------------------
(* Types *)

LEMMA InitTypeOK == Init => TypeOK
<1> SUFFICES ASSUME Init PROVE TypeOK
  OBVIOUS
<1>1. Ready \in Execution /\ NoEntry \in [score : Scores \cup {None}, fresh : BOOLEAN]
  BY DEF Ready, Execution, NoEntry
<1>2. CacheOK
  BY <1>1 DEF Init, CacheOK
<1> QED
  BY <1>1, <1>2 DEF Init, TypeOK, ScoresOK, ExecsOK, CountsOK, Ready, At

LEMMA Kinds ==
    ASSUME TypeOK, NEW e \in Execs
    PROVE  /\ ex[e].content \in Contents \cup {None} /\ ex[e].broken \in BOOLEAN
           /\ ex[e].seen \in Scores \cup {None} /\ ex[e].answer \in Scores \cup {None}
           /\ ex[e].pend \in Scores \cup {None}
           /\ At(e, "ready") \/ Content(e) \in Contents
BY DEF TypeOK, ExecsOK, Execution

LEMMA NextTypeOK ==
    ASSUME TypeOK, Next PROVE TypeOK'
<1>1. \A e \in Execs, h \in Contents : Begin(e, h) => TypeOK'
  <2> SUFFICES ASSUME NEW e \in Execs, NEW h \in Contents, Begin(e, h) PROVE TypeOK'
    OBVIOUS
  <2>1. CacheOK'
    BY DEF TypeOK, CacheOK, Begin
  <2>2. ScoresOK'
    BY DEF TypeOK, ScoresOK, Begin
  <2>3. ExecsOK'
    <3>1. ex'[e] \in Execution
      BY DEF TypeOK, ExecsOK, Execution, Begin, At, Goto
    <3> QED
      BY <3>1, Kinds DEF TypeOK, ExecsOK, At, Content, Begin, Goto
  <2>4. CountsOK'
    BY DEF TypeOK, CountsOK, Begin
  <2> QED
    BY <2>1, <2>2, <2>3, <2>4 DEF TypeOK
<1>2. \A e \in Execs : Skip(e) => TypeOK'
  <2> SUFFICES ASSUME NEW e \in Execs, Skip(e) PROVE TypeOK'
    OBVIOUS
  <2>1. CacheOK'
    BY DEF TypeOK, CacheOK, Skip
  <2>2. ScoresOK'
    BY DEF TypeOK, ScoresOK, Skip
  <2>3. ExecsOK'
    <3>1. ex'[e] \in Execution
      BY DEF TypeOK, ExecsOK, Execution, Skip, At, Goto
    <3> QED
      BY <3>1, Kinds DEF TypeOK, ExecsOK, At, Content, Skip, Goto
  <2>4. CountsOK'
    BY DEF TypeOK, CountsOK, Skip
  <2> QED
    BY <2>1, <2>2, <2>3, <2>4 DEF TypeOK
<1>3. \A e \in Execs : Lookup(e) => TypeOK'
  <2> SUFFICES ASSUME NEW e \in Execs, Lookup(e) PROVE TypeOK'
    OBVIOUS
  <2>1. CacheOK'
    BY DEF TypeOK, CacheOK, Lookup
  <2>2. ScoresOK'
    BY DEF TypeOK, ScoresOK, Lookup
  <2>3. ExecsOK'
    <3>1. ex'[e] \in Execution
      <4>1. CASE Fresh(Content(e))
        <5>1. ex'[e] = [ex[e] EXCEPT !.pc = "persist", !.answer = cache[Content(e)].score]
          BY <4>1 DEF TypeOK, ExecsOK, Lookup
        <5>2. ex[e] \in Execution /\ cache[Content(e)].score \in Scores \cup {None}
          BY Kinds DEF TypeOK, ExecsOK, CacheOK, Lookup, At
        <5> QED
          BY <5>1, <5>2 DEF Execution
      <4>2. CASE ~Fresh(Content(e))
        <5>1. ex'[e] = [ex[e] EXCEPT !.pc = "asking", !.seen = cache[Content(e)].score]
          BY <4>2 DEF TypeOK, ExecsOK, Lookup
        <5>2. ex[e] \in Execution /\ cache[Content(e)].score \in Scores \cup {None}
          BY Kinds DEF TypeOK, ExecsOK, CacheOK, Lookup, At
        <5> QED
          BY <5>1, <5>2 DEF Execution
      <4> QED
        BY <4>1, <4>2
    <3> QED
      BY <3>1, Kinds DEF TypeOK, ExecsOK, At, Content, Lookup, Fresh
  <2>4. CountsOK'
    BY DEF TypeOK, CountsOK, Lookup
  <2> QED
    BY <2>1, <2>2, <2>3, <2>4 DEF TypeOK
<1>4. \A e \in Execs : LookupFails(e) => TypeOK'
  <2> SUFFICES ASSUME NEW e \in Execs, LookupFails(e) PROVE TypeOK'
    OBVIOUS
  <2>1. CacheOK'
    BY DEF TypeOK, CacheOK, LookupFails
  <2>2. ScoresOK'
    BY DEF TypeOK, ScoresOK, LookupFails
  <2>3. ExecsOK'
    <3>1. ex'[e] \in Execution
      <4>1. PICK b \in BOOLEAN : ex' = [ex EXCEPT ![e].pc = "asking", ![e].broken = b]
        BY DEF LookupFails
      <4>2. ex'[e] = [ex[e] EXCEPT !.pc = "asking", !.broken = b]
        BY <4>1 DEF TypeOK, ExecsOK
      <4> QED
        BY <4>2 DEF TypeOK, ExecsOK, Execution
    <3> QED
      BY <3>1, Kinds DEF TypeOK, ExecsOK, At, Content, LookupFails, Fault
  <2>4. CountsOK'
    BY DEF TypeOK, CountsOK, LookupFails, Fault
  <2> QED
    BY <2>1, <2>2, <2>3, <2>4 DEF TypeOK
<1>5. \A e \in Execs, s \in Scores \cup {None} : Answer(e, s) => TypeOK'
  <2> SUFFICES ASSUME NEW e \in Execs, NEW s \in Scores \cup {None}, Answer(e, s) PROVE TypeOK'
    OBVIOUS
  <2>1. CacheOK'
    BY DEF TypeOK, CacheOK, Answer
  <2>2. ScoresOK'
    BY DEF TypeOK, ScoresOK, Answer
  <2>3. ExecsOK'
    <3>1. ex'[e] \in Execution
      BY DEF TypeOK, ExecsOK, Execution, Answer, At
    <3> QED
      BY <3>1, Kinds DEF TypeOK, ExecsOK, At, Content, Answer
  <2>4. CountsOK'
    BY DEF TypeOK, CountsOK, Answer
  <2> QED
    BY <2>1, <2>2, <2>3, <2>4 DEF TypeOK
<1>6. \A e \in Execs : NoAnswer(e) => TypeOK'
  <2> SUFFICES ASSUME NEW e \in Execs, NoAnswer(e) PROVE TypeOK'
    OBVIOUS
  <2>1. CacheOK'
    BY DEF TypeOK, CacheOK, NoAnswer
  <2>2. ScoresOK'
    BY DEF TypeOK, ScoresOK, NoAnswer
  <2>3. ExecsOK'
    <3>1. ex'[e] \in Execution
      BY DEF TypeOK, ExecsOK, Execution, NoAnswer, At, Goto
    <3> QED
      BY <3>1, Kinds DEF TypeOK, ExecsOK, At, Content, NoAnswer, Goto
  <2>4. CountsOK'
    BY DEF TypeOK, CountsOK, NoAnswer
  <2> QED
    BY <2>1, <2>2, <2>3, <2>4 DEF TypeOK
<1>7. \A e \in Execs : Reread(e) => TypeOK'
  <2> SUFFICES ASSUME NEW e \in Execs, Reread(e) PROVE TypeOK'
    OBVIOUS
  <2>1. CacheOK'
    BY DEF TypeOK, CacheOK, Reread
  <2>2. ScoresOK'
    BY DEF TypeOK, ScoresOK, Reread
  <2>3. ExecsOK'
    <3>1. ex'[e] \in Execution
      <4>1. CASE ex[e].broken
        BY <4>1, Kinds DEF TypeOK, ExecsOK, Execution, Reread, At
      <4>2. CASE ~ex[e].broken
        <5>1. ex'[e] = [ex[e] EXCEPT !.pc = "write", !.seen = IF @ = None THEN cache[Content(e)].score ELSE @]
          BY <4>2 DEF TypeOK, ExecsOK, Reread
        <5>2. ex[e] \in Execution /\ cache[Content(e)].score \in Scores \cup {None}
          BY Kinds DEF TypeOK, ExecsOK, CacheOK, Reread, At
        <5> QED
          BY <5>1, <5>2 DEF Execution
      <4> QED
        BY <4>1, <4>2
    <3> QED
      BY <3>1, Kinds DEF TypeOK, ExecsOK, At, Content, Reread, Rivals
  <2>4. CountsOK'
    BY DEF TypeOK, CountsOK, Reread, At, Content, Rivals
  <2> QED
    BY <2>1, <2>2, <2>3, <2>4 DEF TypeOK
<1>8. \A e \in Execs : Write(e) => TypeOK'
  <2> SUFFICES ASSUME NEW e \in Execs, Write(e) PROVE TypeOK'
    OBVIOUS
  <2>1. CacheOK'
    BY DEF TypeOK, CacheOK, Write
  <2>2. ScoresOK'
    BY DEF TypeOK, ScoresOK, Write
  <2>3. ExecsOK'
    <3>1. ex'[e] \in Execution
      BY DEF TypeOK, ExecsOK, Execution, Write, At, Inserts, Unchanged, Goto
    <3> QED
      BY <3>1, Kinds DEF TypeOK, ExecsOK, Execution, At, Content, Write, Goto
  <2>4. CountsOK'
    BY DEF TypeOK, CountsOK, Write
  <2> QED
    BY <2>1, <2>2, <2>3, <2>4 DEF TypeOK
<1>9. \A e \in Execs : Persist(e) => TypeOK'
  <2> SUFFICES ASSUME NEW e \in Execs, Persist(e) PROVE TypeOK'
    OBVIOUS
  <2>1. CacheOK'
    <3>1. CASE ex[e].pend = None
      BY <3>1 DEF TypeOK, CacheOK, Persist, CommitsCache
    <3>2. CASE ex[e].pend # None
      <4>1. ex[e].pend \in Scores
        BY <3>2, Kinds
      <4>2. PICK f \in BOOLEAN : cache' = [cache EXCEPT ![Content(e)] = [score |-> ex[e].pend, fresh |-> f]]
        BY <3>2 DEF TypeOK, CacheOK, Persist, CommitsCache
      <4> QED
        BY <4>1, <4>2, EvaluationAssumption DEF TypeOK, CacheOK
    <3> QED
      BY <3>1, <3>2
  <2>2. ScoresOK'
    BY Kinds DEF TypeOK, ScoresOK, Persist
  <2>3. ExecsOK'
    <3>1. ex'[e] \in Execution
      BY DEF TypeOK, ExecsOK, Execution, Persist, At, CommitsCache, Over
    <3> QED
      BY <3>1, Kinds DEF TypeOK, ExecsOK, At, Content, Persist, CommitsCache, Over
  <2>4. CountsOK'
    BY DEF TypeOK, CountsOK, Persist, CommitsCache
  <2> QED
    BY <2>1, <2>2, <2>3, <2>4 DEF TypeOK
<1>10. \A e \in Execs : PersistFails(e) => TypeOK'
  <2> SUFFICES ASSUME NEW e \in Execs, PersistFails(e) PROVE TypeOK'
    OBVIOUS
  <2>1. CacheOK'
    BY DEF TypeOK, CacheOK, PersistFails
  <2>2. ScoresOK'
    BY DEF TypeOK, ScoresOK, PersistFails
  <2>3. ExecsOK'
    <3>1. ex'[e] \in Execution
      BY DEF TypeOK, ExecsOK, Execution, PersistFails, At, Over
    <3> QED
      BY <3>1, Kinds DEF TypeOK, ExecsOK, At, Content, PersistFails, Over
  <2>4. CountsOK'
    BY DEF TypeOK, CountsOK, PersistFails
  <2> QED
    BY <2>1, <2>2, <2>3, <2>4 DEF TypeOK
<1>11. \A e \in Execs : Finalize(e) => TypeOK'
  <2> SUFFICES ASSUME NEW e \in Execs, Finalize(e) PROVE TypeOK'
    OBVIOUS
  <2>1. CacheOK'
    BY DEF TypeOK, CacheOK, Finalize
  <2>2. ScoresOK'
    BY DEF TypeOK, ScoresOK, Finalize
  <2>3. ExecsOK'
    <3>1. ex'[e] \in Execution
      BY DEF TypeOK, ExecsOK, Execution, Finalize, At, Over
    <3> QED
      BY <3>1, Kinds DEF TypeOK, ExecsOK, At, Content, Finalize, Over
  <2>4. CountsOK'
    BY DEF TypeOK, CountsOK, Finalize
  <2> QED
    BY <2>1, <2>2, <2>3, <2>4 DEF TypeOK
<1>12. \A e \in Execs : UpsertFails(e) => TypeOK'
  <2> SUFFICES ASSUME NEW e \in Execs, UpsertFails(e) PROVE TypeOK'
    OBVIOUS
  <2>1. CacheOK'
    BY DEF TypeOK, CacheOK, UpsertFails
  <2>2. ScoresOK'
    BY DEF TypeOK, ScoresOK, UpsertFails
  <2>3. ExecsOK'
    <3>1. ex'[e] \in Execution
      BY DEF TypeOK, ExecsOK, Execution, UpsertFails, At
    <3> QED
      BY <3>1, Kinds DEF TypeOK, ExecsOK, At, Content, UpsertFails, Fault
  <2>4. CountsOK'
    BY DEF TypeOK, CountsOK, UpsertFails, Fault
  <2> QED
    BY <2>1, <2>2, <2>3, <2>4 DEF TypeOK
<1>13. \A e \in Execs : StatementFails(e) => TypeOK'
  <2> SUFFICES ASSUME NEW e \in Execs, StatementFails(e) PROVE TypeOK'
    OBVIOUS
  <2>1. CacheOK'
    BY DEF TypeOK, CacheOK, StatementFails
  <2>2. ScoresOK'
    BY DEF TypeOK, ScoresOK, StatementFails
  <2>3. ExecsOK'
    <3>1. ex'[e] \in Execution
      BY DEF TypeOK, ExecsOK, Execution, StatementFails, At, Over
    <3> QED
      BY <3>1, Kinds DEF TypeOK, ExecsOK, At, Content, StatementFails, Fault, Over
  <2>4. CountsOK'
    BY DEF TypeOK, CountsOK, StatementFails, Fault
  <2> QED
    BY <2>1, <2>2, <2>3, <2>4 DEF TypeOK
<1>14. \A e \in Execs : Crash(e) => TypeOK'
  <2> SUFFICES ASSUME NEW e \in Execs, Crash(e) PROVE TypeOK'
    OBVIOUS
  <2>1. CacheOK'
    BY DEF TypeOK, CacheOK, Crash
  <2>2. ScoresOK'
    BY DEF TypeOK, ScoresOK, Crash
  <2>3. ExecsOK'
    <3>1. ex'[e] \in Execution
      BY DEF TypeOK, ExecsOK, Execution, Crash, At, Over
    <3> QED
      BY <3>1, Kinds DEF TypeOK, ExecsOK, At, Content, Crash, Fault, Over
  <2>4. CountsOK'
    BY DEF TypeOK, CountsOK, Crash, Fault
  <2> QED
    BY <2>1, <2>2, <2>3, <2>4 DEF TypeOK
<1>15. \A h \in Contents : Ages(h) => TypeOK'
  <2> SUFFICES ASSUME NEW h \in Contents, Ages(h) PROVE TypeOK'
    OBVIOUS
  <2>1. CacheOK'
    BY DEF TypeOK, CacheOK, Ages, At, Content, Fresh
  <2>2. ScoresOK'
    BY DEF TypeOK, ScoresOK, Ages
  <2>3. ExecsOK'
    BY DEF TypeOK, ExecsOK, Ages, At, Content, Fresh
  <2>4. CountsOK'
    BY DEF TypeOK, CountsOK, Ages
  <2> QED
    BY <2>1, <2>2, <2>3, <2>4 DEF TypeOK
<1> QED
  BY <1>1, <1>2, <1>3, <1>4, <1>5, <1>6, <1>7, <1>8, <1>9, <1>10, <1>11, <1>12, <1>13, <1>14, <1>15 DEF Next, Step, Asked, Mishaps

LEMMA StutterTypeOK == TypeOK /\ UNCHANGED vars => TypeOK'
BY DEF vars, TypeOK, CacheOK, ScoresOK, ExecsOK, CountsOK, NoEntry, At, Content

(* What evaluate(), upsert() and _persist_evaluation write keeps its type.  *)
THEOREM TypeCorrect == Spec => []TypeOK
BY InitTypeOK, NextTypeOK, StutterTypeOK, PTL DEF Spec

-----------------------------------------------------------------------------
(* The inductive invariant *)

\* A pending entry is about to be committed with the answer it was made from.
PendIsAnswer == \A e \in Execs : ex[e].pend # None =>
    At(e, "persist") /\ ex[e].pend = Stored(ex[e].answer)

ScoredIsOver == \A e \in Execs : score[e] # None =>
    ex[e].pc \in {"finalize", "done", "stranded"}

Backed == PendIsAnswer /\ ScoredIsOver /\ CacheIsBacked

\* Between the second look at the entry and the commit.
InWindow(e) == At(e, "write") \/ ex[e].pend # None

RivalsAreMarked == \A d, e \in Execs :
    d # e /\ Content(d) = Content(e) /\ InWindow(d) /\ InWindow(e) => d \in mishap

FlawsAreMarked == \A e \in Execs :
    \/ ex[e].broken \/ At(e, "stranded")
    \/ ex[e].pc \in {"reread", "write", "persist"} /\ ex[e].answer = None
    => e \in mishap

\* An INSERT that will fail: the entry came between the look and the flush.
InsertsAreMarked == \A e \in Execs :
    At(e, "write") /\ ex[e].seen = None /\ cache[Content(e)] # NoEntry => e \in mishap

Marked == RivalsAreMarked /\ FlawsAreMarked /\ InsertsAreMarked

IInv == TypeOK /\ Backed /\ Marked

LEMMA Frame ==
    ASSUME CacheIsBacked, cache' = cache, score' = score,
           \A d \in Execs : ex'[d].content = ex[d].content
    PROVE  CacheIsBacked'
BY DEF CacheIsBacked, Content

LEMMA InitIInv == Init => IInv
<1> SUFFICES ASSUME Init PROVE IInv
  OBVIOUS
<1>1. Backed
  BY DEF Init, Backed, PendIsAnswer, ScoredIsOver, CacheIsBacked, Ready, At, Content
<1>2. Marked
  BY DEF Init, Marked, RivalsAreMarked, FlawsAreMarked, InsertsAreMarked, InWindow, Ready, At, Content
<1> QED
  BY <1>1, <1>2, InitTypeOK DEF IInv

\* The three outcomes of a flush as one.
LEMMA WriteEffect ==
    ASSUME IInv, NEW e \in Execs, Write(e)
    PROVE  \E b \in BOOLEAN, p \in Scores \cup {None} :
              /\ ex' = [ex EXCEPT ![e] = [@ EXCEPT !.pc = "persist", !.broken = b, !.pend = p]]
              /\ b => ex[e].broken \/ (ex[e].seen = None /\ cache[Content(e)] # NoEntry)
              /\ p # None => p = Stored(ex[e].answer)
<1>1. ex[e].pend = None /\ ex[e] \in Execution /\ Stored(ex[e].answer) \in Scores
  BY Kinds, EvaluationAssumption DEF IInv, TypeOK, ExecsOK, Backed, PendIsAnswer, Write, At, Stored
<1>2. CASE Goto(e, "persist")
  <2>1. ex' = [ex EXCEPT ![e] = [@ EXCEPT !.pc = "persist", !.broken = ex[e].broken, !.pend = None]]
    BY <1>1, <1>2 DEF IInv, TypeOK, Goto, Execution
  <2> QED
    BY <1>1, <2>1 DEF Execution
<1>3. CASE /\ Inserts(e) /\ cache[Content(e)] # NoEntry
           /\ ex' = [ex EXCEPT ![e].pc = "persist", ![e].broken = TRUE]
  <2>1. ex' = [ex EXCEPT ![e] = [@ EXCEPT !.pc = "persist", !.broken = TRUE, !.pend = None]]
    BY <1>1, <1>3 DEF IInv, TypeOK, Execution
  <2> QED
    BY <1>3, <2>1 DEF Inserts
<1>4. CASE ex' = [ex EXCEPT ![e].pc = "persist", ![e].pend = Stored(ex[e].answer)]
  <2>1. ex' = [ex EXCEPT ![e] = [@ EXCEPT !.pc = "persist", !.broken = ex[e].broken,
                                          !.pend = Stored(ex[e].answer)]]
    BY <1>1, <1>4 DEF IInv, TypeOK, Execution
  <2> QED
    BY <1>1, <2>1 DEF Execution
<1> QED
  BY <1>2, <1>3, <1>4 DEF Write

LEMMA NextBacked ==
    ASSUME IInv, Next PROVE Backed'
<1>1. \A e \in Execs, h \in Contents : Begin(e, h) => Backed'
  <2> SUFFICES ASSUME NEW e \in Execs, NEW h \in Contents, Begin(e, h) PROVE Backed'
    OBVIOUS
  <2>1. PendIsAnswer'
    BY DEF IInv, TypeOK, ExecsOK, Execution, Backed, PendIsAnswer, Stored, Begin, At, Goto
  <2>2. ScoredIsOver'
    BY DEF IInv, TypeOK, ExecsOK, Execution, Backed, ScoredIsOver, Begin, At, Goto
  <2>3. CacheIsBacked'
    BY DEF IInv, TypeOK, ExecsOK, Execution, Backed, CacheIsBacked, Begin, Content, Goto
  <2> QED
    BY <2>1, <2>2, <2>3 DEF Backed
<1>2. \A e \in Execs : Skip(e) => Backed'
  <2> SUFFICES ASSUME NEW e \in Execs, Skip(e) PROVE Backed'
    OBVIOUS
  <2>1. PendIsAnswer'
    BY DEF IInv, TypeOK, ExecsOK, Execution, Backed, PendIsAnswer, Stored, Skip, At, Goto
  <2>2. ScoredIsOver'
    BY DEF IInv, TypeOK, ExecsOK, Execution, Backed, ScoredIsOver, Skip, At, Goto
  <2>3. CacheIsBacked'
    BY DEF IInv, TypeOK, ExecsOK, Execution, Backed, CacheIsBacked, Skip, Content, Goto
  <2> QED
    BY <2>1, <2>2, <2>3 DEF Backed
<1>3. \A e \in Execs : Lookup(e) => Backed'
  <2> SUFFICES ASSUME NEW e \in Execs, Lookup(e) PROVE Backed'
    OBVIOUS
  <2>1. PendIsAnswer'
    BY DEF IInv, TypeOK, ExecsOK, Execution, Backed, PendIsAnswer, Stored, Lookup, At
  <2>2. ScoredIsOver'
    BY DEF IInv, TypeOK, ExecsOK, Execution, Backed, ScoredIsOver, Lookup, At
  <2>3. CacheIsBacked'
    BY DEF IInv, TypeOK, ExecsOK, Execution, Backed, CacheIsBacked, Lookup, Content
  <2> QED
    BY <2>1, <2>2, <2>3 DEF Backed
<1>4. \A e \in Execs : LookupFails(e) => Backed'
  <2> SUFFICES ASSUME NEW e \in Execs, LookupFails(e) PROVE Backed'
    OBVIOUS
  <2>1. PendIsAnswer'
    BY DEF IInv, TypeOK, ExecsOK, Execution, Backed, PendIsAnswer, Stored, LookupFails, At
  <2>2. ScoredIsOver'
    BY DEF IInv, TypeOK, ExecsOK, Execution, Backed, ScoredIsOver, LookupFails, At
  <2>3. CacheIsBacked'
    BY Frame DEF IInv, TypeOK, Backed, ExecsOK, Execution, LookupFails, Over
  <2> QED
    BY <2>1, <2>2, <2>3 DEF Backed
<1>5. \A e \in Execs, s \in Scores \cup {None} : Answer(e, s) => Backed'
  <2> SUFFICES ASSUME NEW e \in Execs, NEW s \in Scores \cup {None}, Answer(e, s) PROVE Backed'
    OBVIOUS
  <2>1. PendIsAnswer'
    BY DEF IInv, TypeOK, ExecsOK, Execution, Backed, PendIsAnswer, Stored, Answer, At
  <2>2. ScoredIsOver'
    BY DEF IInv, TypeOK, ExecsOK, Execution, Backed, ScoredIsOver, Answer, At
  <2>3. CacheIsBacked'
    BY DEF IInv, TypeOK, ExecsOK, Execution, Backed, CacheIsBacked, Answer, Content
  <2> QED
    BY <2>1, <2>2, <2>3 DEF Backed
<1>6. \A e \in Execs : NoAnswer(e) => Backed'
  <2> SUFFICES ASSUME NEW e \in Execs, NoAnswer(e) PROVE Backed'
    OBVIOUS
  <2>1. PendIsAnswer'
    BY DEF IInv, TypeOK, ExecsOK, Execution, Backed, PendIsAnswer, Stored, NoAnswer, At, Goto
  <2>2. ScoredIsOver'
    BY DEF IInv, TypeOK, ExecsOK, Execution, Backed, ScoredIsOver, NoAnswer, At, Goto
  <2>3. CacheIsBacked'
    BY DEF IInv, TypeOK, ExecsOK, Execution, Backed, CacheIsBacked, NoAnswer, Content, Goto
  <2> QED
    BY <2>1, <2>2, <2>3 DEF Backed
<1>7. \A e \in Execs : Reread(e) => Backed'
  <2> SUFFICES ASSUME NEW e \in Execs, Reread(e) PROVE Backed'
    OBVIOUS
  <2>1. PendIsAnswer'
    BY DEF IInv, TypeOK, ExecsOK, Execution, Backed, PendIsAnswer, Stored, Reread, At
  <2>2. ScoredIsOver'
    BY DEF IInv, TypeOK, ExecsOK, Execution, Backed, ScoredIsOver, Reread, At
  <2>3. CacheIsBacked'
    BY DEF IInv, TypeOK, ExecsOK, Execution, Backed, CacheIsBacked, Reread, Content
  <2> QED
    BY <2>1, <2>2, <2>3 DEF Backed
<1>8. \A e \in Execs : Write(e) => Backed'
  <2> SUFFICES ASSUME NEW e \in Execs, Write(e) PROVE Backed'
    OBVIOUS
  <2>1. PendIsAnswer'
    <3>1. PICK b \in BOOLEAN, p \in Scores \cup {None} :
              /\ ex' = [ex EXCEPT ![e] = [@ EXCEPT !.pc = "persist", !.broken = b, !.pend = p]]
              /\ p # None => p = Stored(ex[e].answer)
      BY WriteEffect
    <3> QED
      BY <3>1 DEF IInv, TypeOK, ExecsOK, Execution, Backed, PendIsAnswer, Stored, At
  <2>2. ScoredIsOver'
    BY DEF IInv, TypeOK, ExecsOK, Execution, Backed, ScoredIsOver, Write, At, Goto
  <2>3. CacheIsBacked'
    <3>1. PICK b \in BOOLEAN, p \in Scores \cup {None} :
              ex' = [ex EXCEPT ![e] = [@ EXCEPT !.pc = "persist", !.broken = b, !.pend = p]]
      BY WriteEffect
    <3>2. \A d \in Execs : ex'[d].content = ex[d].content
      BY <3>1 DEF IInv, TypeOK, ExecsOK, Execution
    <3>3. cache' = cache /\ score' = score
      BY DEF Write
    <3> QED
      BY <3>2, <3>3, Frame DEF IInv, Backed
  <2> QED
    BY <2>1, <2>2, <2>3 DEF Backed
<1>9. \A e \in Execs : Persist(e) => Backed'
  <2> SUFFICES ASSUME NEW e \in Execs, Persist(e) PROVE Backed'
    OBVIOUS
  <2>1. PendIsAnswer'
    BY DEF IInv, TypeOK, ExecsOK, Execution, Backed, PendIsAnswer, Stored, Persist, At, Over
  <2>2. ScoredIsOver'
    BY DEF IInv, TypeOK, ExecsOK, Execution, Backed, ScoredIsOver, Persist, At, Over
  <2>3. CacheIsBacked'
    <3> SUFFICES ASSUME NEW h \in Contents, cache'[h] # NoEntry
                 PROVE  \E d \in Execs : ex'[d].content = h /\ score'[d] = cache'[h].score
      BY DEF CacheIsBacked, Content
    <3>1. score' = [score EXCEPT ![e] = ex[e].answer] /\ \A d \in Execs : ex'[d].content = ex[d].content
      BY DEF IInv, TypeOK, ExecsOK, Execution, Persist, Over
    <3>2. score[e] = None
      BY DEF IInv, Backed, ScoredIsOver, Persist, At
    <3>3. CASE h = Content(e) /\ ex[e].pend # None
      <4>1. cache'[h].score = ex[e].answer
        BY <3>3 DEF IInv, TypeOK, CacheOK, Backed, PendIsAnswer, Stored, Persist, CommitsCache
      <4> QED
        BY <3>1, <3>3, <4>1 DEF IInv, TypeOK, ScoresOK, Content
    <3>4. CASE ~(h = Content(e) /\ ex[e].pend # None)
      <4>1. cache'[h] = cache[h]
        BY <3>4 DEF IInv, TypeOK, Persist, CommitsCache
      <4>2. PICK d \in Execs : Content(d) = h /\ score[d] = cache[h].score
        BY <4>1 DEF IInv, Backed, CacheIsBacked
      <4>3. d # e
        BY <3>2, <4>1, <4>2 DEF IInv, TypeOK, CacheOK
      <4> QED
        BY <3>1, <4>1, <4>2, <4>3 DEF Content
    <3> QED
      BY <3>3, <3>4
  <2> QED
    BY <2>1, <2>2, <2>3 DEF Backed
<1>10. \A e \in Execs : PersistFails(e) => Backed'
  <2> SUFFICES ASSUME NEW e \in Execs, PersistFails(e) PROVE Backed'
    OBVIOUS
  <2>1. PendIsAnswer'
    BY DEF IInv, TypeOK, ExecsOK, Execution, Backed, PendIsAnswer, Stored, PersistFails, At, Over
  <2>2. ScoredIsOver'
    BY DEF IInv, TypeOK, ExecsOK, Execution, Backed, ScoredIsOver, PersistFails, At, Over
  <2>3. CacheIsBacked'
    BY Frame DEF IInv, TypeOK, Backed, ExecsOK, Execution, PersistFails, Over
  <2> QED
    BY <2>1, <2>2, <2>3 DEF Backed
<1>11. \A e \in Execs : Finalize(e) => Backed'
  <2> SUFFICES ASSUME NEW e \in Execs, Finalize(e) PROVE Backed'
    OBVIOUS
  <2>1. PendIsAnswer'
    BY DEF IInv, TypeOK, ExecsOK, Execution, Backed, PendIsAnswer, Stored, Finalize, At, Over
  <2>2. ScoredIsOver'
    BY DEF IInv, TypeOK, ExecsOK, Execution, Backed, ScoredIsOver, Finalize, At, Over
  <2>3. CacheIsBacked'
    BY Frame DEF IInv, TypeOK, Backed, ExecsOK, Execution, Finalize, Over
  <2> QED
    BY <2>1, <2>2, <2>3 DEF Backed
<1>12. \A e \in Execs : UpsertFails(e) => Backed'
  <2> SUFFICES ASSUME NEW e \in Execs, UpsertFails(e) PROVE Backed'
    OBVIOUS
  <2>1. PendIsAnswer'
    BY DEF IInv, TypeOK, ExecsOK, Execution, Backed, PendIsAnswer, Stored, UpsertFails, At
  <2>2. ScoredIsOver'
    BY DEF IInv, TypeOK, ExecsOK, Execution, Backed, ScoredIsOver, UpsertFails, At
  <2>3. CacheIsBacked'
    BY Frame DEF IInv, TypeOK, Backed, ExecsOK, Execution, UpsertFails, Over
  <2> QED
    BY <2>1, <2>2, <2>3 DEF Backed
<1>13. \A e \in Execs : StatementFails(e) => Backed'
  <2> SUFFICES ASSUME NEW e \in Execs, StatementFails(e) PROVE Backed'
    OBVIOUS
  <2>1. PendIsAnswer'
    BY DEF IInv, TypeOK, ExecsOK, Execution, Backed, PendIsAnswer, Stored, StatementFails, At, Over
  <2>2. ScoredIsOver'
    BY DEF IInv, TypeOK, ExecsOK, Execution, Backed, ScoredIsOver, StatementFails, At, Over
  <2>3. CacheIsBacked'
    BY Frame DEF IInv, TypeOK, Backed, ExecsOK, Execution, StatementFails, Over
  <2> QED
    BY <2>1, <2>2, <2>3 DEF Backed
<1>14. \A e \in Execs : Crash(e) => Backed'
  <2> SUFFICES ASSUME NEW e \in Execs, Crash(e) PROVE Backed'
    OBVIOUS
  <2>1. PendIsAnswer'
    BY DEF IInv, TypeOK, ExecsOK, Execution, Backed, PendIsAnswer, Stored, Crash, At, Over
  <2>2. ScoredIsOver'
    BY DEF IInv, TypeOK, ExecsOK, Execution, Backed, ScoredIsOver, Crash, At, Over
  <2>3. CacheIsBacked'
    BY Frame DEF IInv, TypeOK, Backed, ExecsOK, Execution, Crash, Over
  <2> QED
    BY <2>1, <2>2, <2>3 DEF Backed
<1>15. \A h \in Contents : Ages(h) => Backed'
  <2> SUFFICES ASSUME NEW h \in Contents, Ages(h) PROVE Backed'
    OBVIOUS
  <2>1. PendIsAnswer'
    BY DEF IInv, TypeOK, ExecsOK, Execution, Backed, PendIsAnswer, Stored, Ages, At
  <2>2. ScoredIsOver'
    BY DEF IInv, TypeOK, ExecsOK, Execution, Backed, ScoredIsOver, Ages, At
  <2>3. CacheIsBacked'
    <3>1. \A g \in Contents : cache'[g].score = cache[g].score /\ (cache'[g] # NoEntry => cache[g] # NoEntry)
      <4>1. cache[h].score # None /\ cache' = [cache EXCEPT ![h].fresh = FALSE]
        BY DEF Ages, Fresh
      <4>2. cache'[h].score = cache[h].score
        BY <4>1 DEF IInv, TypeOK
      <4>3. \A g \in Contents \ {h} : cache'[g] = cache[g]
        BY <4>1 DEF IInv, TypeOK
      <4>4. cache[h] # NoEntry
        BY <4>1 DEF NoEntry
      <4> QED
        BY <4>2, <4>3, <4>4
    <3>2. UNCHANGED <<score, ex>>
      BY DEF Ages
    <3> QED
      BY <3>1, <3>2 DEF IInv, Backed, CacheIsBacked, Content
  <2> QED
    BY <2>1, <2>2, <2>3 DEF Backed
<1> QED
  BY <1>1, <1>2, <1>3, <1>4, <1>5, <1>6, <1>7, <1>8, <1>9, <1>10, <1>11, <1>12, <1>13, <1>14, <1>15 DEF Next, Step, Asked, Mishaps

LEMMA NextMarked ==
    ASSUME IInv, Next PROVE Marked'
<1>1. \A e \in Execs, h \in Contents : Begin(e, h) => Marked'
  <2> SUFFICES ASSUME NEW e \in Execs, NEW h \in Contents, Begin(e, h) PROVE Marked'
    OBVIOUS
  <2>1. RivalsAreMarked'
    BY DEF IInv, TypeOK, ExecsOK, Execution, Marked, RivalsAreMarked, InWindow, Begin, At, Content, Goto
  <2>2. FlawsAreMarked'
    BY DEF IInv, TypeOK, CacheOK, ExecsOK, Execution, Marked, FlawsAreMarked, Begin, At, Goto
  <2>3. InsertsAreMarked'
    BY DEF IInv, TypeOK, CacheOK, ExecsOK, Execution, Backed, Marked, PendIsAnswer, RivalsAreMarked, InWindow, InsertsAreMarked, Begin, At, Content, Goto
  <2> QED
    BY <2>1, <2>2, <2>3 DEF Marked
<1>2. \A e \in Execs : Skip(e) => Marked'
  <2> SUFFICES ASSUME NEW e \in Execs, Skip(e) PROVE Marked'
    OBVIOUS
  <2>1. RivalsAreMarked'
    BY DEF IInv, TypeOK, ExecsOK, Execution, Marked, RivalsAreMarked, InWindow, Skip, At, Content, Goto
  <2>2. FlawsAreMarked'
    BY DEF IInv, TypeOK, CacheOK, ExecsOK, Execution, Marked, FlawsAreMarked, Skip, At, Goto
  <2>3. InsertsAreMarked'
    BY DEF IInv, TypeOK, CacheOK, ExecsOK, Execution, Backed, Marked, PendIsAnswer, RivalsAreMarked, InWindow, InsertsAreMarked, Skip, At, Content, Goto
  <2> QED
    BY <2>1, <2>2, <2>3 DEF Marked
<1>3. \A e \in Execs : Lookup(e) => Marked'
  <2> SUFFICES ASSUME NEW e \in Execs, Lookup(e) PROVE Marked'
    OBVIOUS
  <2>1. RivalsAreMarked'
    BY DEF IInv, TypeOK, ExecsOK, Execution, Marked, RivalsAreMarked, InWindow, Lookup, At, Content
  <2>2. FlawsAreMarked'
    BY DEF IInv, TypeOK, CacheOK, ExecsOK, Execution, Marked, FlawsAreMarked, Lookup, At, Fresh
  <2>3. InsertsAreMarked'
    BY DEF IInv, TypeOK, CacheOK, ExecsOK, Execution, Backed, Marked, PendIsAnswer, RivalsAreMarked, InWindow, InsertsAreMarked, Lookup, At, Content
  <2> QED
    BY <2>1, <2>2, <2>3 DEF Marked
<1>4. \A e \in Execs : LookupFails(e) => Marked'
  <2> SUFFICES ASSUME NEW e \in Execs, LookupFails(e) PROVE Marked'
    OBVIOUS
  <2>1. RivalsAreMarked'
    BY DEF IInv, TypeOK, ExecsOK, Execution, Marked, RivalsAreMarked, InWindow, LookupFails, At, Content, Fault
  <2>2. FlawsAreMarked'
    BY DEF IInv, TypeOK, CacheOK, ExecsOK, Execution, Marked, FlawsAreMarked, LookupFails, At, Fault
  <2>3. InsertsAreMarked'
    BY DEF IInv, TypeOK, CacheOK, ExecsOK, Execution, Backed, Marked, PendIsAnswer, RivalsAreMarked, InWindow, InsertsAreMarked, LookupFails, At, Content, Fault
  <2> QED
    BY <2>1, <2>2, <2>3 DEF Marked
<1>5. \A e \in Execs, s \in Scores \cup {None} : Answer(e, s) => Marked'
  <2> SUFFICES ASSUME NEW e \in Execs, NEW s \in Scores \cup {None}, Answer(e, s) PROVE Marked'
    OBVIOUS
  <2>1. RivalsAreMarked'
    BY DEF IInv, TypeOK, ExecsOK, Execution, Marked, RivalsAreMarked, InWindow, Answer, At, Content
  <2>2. FlawsAreMarked'
    BY DEF IInv, TypeOK, CacheOK, ExecsOK, Execution, Marked, FlawsAreMarked, Answer, At
  <2>3. InsertsAreMarked'
    BY DEF IInv, TypeOK, CacheOK, ExecsOK, Execution, Backed, Marked, PendIsAnswer, RivalsAreMarked, InWindow, InsertsAreMarked, Answer, At, Content
  <2> QED
    BY <2>1, <2>2, <2>3 DEF Marked
<1>6. \A e \in Execs : NoAnswer(e) => Marked'
  <2> SUFFICES ASSUME NEW e \in Execs, NoAnswer(e) PROVE Marked'
    OBVIOUS
  <2>1. RivalsAreMarked'
    BY DEF IInv, TypeOK, ExecsOK, Execution, Marked, RivalsAreMarked, InWindow, NoAnswer, At, Content, Goto
  <2>2. FlawsAreMarked'
    BY DEF IInv, TypeOK, CacheOK, ExecsOK, Execution, Marked, FlawsAreMarked, NoAnswer, At, Goto
  <2>3. InsertsAreMarked'
    BY DEF IInv, TypeOK, CacheOK, ExecsOK, Execution, Backed, Marked, PendIsAnswer, RivalsAreMarked, InWindow, InsertsAreMarked, NoAnswer, At, Content, Goto
  <2> QED
    BY <2>1, <2>2, <2>3 DEF Marked
<1>7. \A e \in Execs : Reread(e) => Marked'
  <2> SUFFICES ASSUME NEW e \in Execs, Reread(e) PROVE Marked'
    OBVIOUS
  <2>1. RivalsAreMarked'
    BY DEF IInv, TypeOK, ExecsOK, Execution, Marked, RivalsAreMarked, InWindow, Reread, At, Content, Rivals
  <2>2. FlawsAreMarked'
    BY DEF IInv, TypeOK, CacheOK, ExecsOK, Execution, Marked, FlawsAreMarked, Reread, At
  <2>3. InsertsAreMarked'
    <3>1. UNCHANGED cache /\ mishap \subseteq mishap'
      BY DEF Reread
    <3>2. \A d \in Execs \ {e} : ex'[d] = ex[d]
      BY DEF IInv, TypeOK, ExecsOK, Reread
    <3>3. ex'[e].pc = "write" /\ ex'[e].seen = None => cache[Content(e)] = NoEntry
      <4>1. CASE ex[e].broken
        BY <4>1 DEF IInv, TypeOK, ExecsOK, Execution, Reread
      <4>2. CASE ~ex[e].broken
        BY <4>2 DEF IInv, TypeOK, ExecsOK, CacheOK, Execution, Reread, At, Content
      <4> QED
        BY <4>1, <4>2
    <3>4. ex'[e].content = ex[e].content
      BY DEF IInv, TypeOK, ExecsOK, Execution, Reread
    <3> QED
      BY <3>1, <3>2, <3>3, <3>4 DEF IInv, Marked, InsertsAreMarked, At, Content
  <2> QED
    BY <2>1, <2>2, <2>3 DEF Marked
<1>8. \A e \in Execs : Write(e) => Marked'
  <2> SUFFICES ASSUME NEW e \in Execs, Write(e) PROVE Marked'
    OBVIOUS
  <2>1. RivalsAreMarked'
    BY DEF IInv, TypeOK, ExecsOK, Execution, Marked, RivalsAreMarked, InWindow, Write, At, Content, Inserts, Unchanged, Goto
  <2>2. FlawsAreMarked'
    <3>1. PICK b \in BOOLEAN, p \in Scores \cup {None} :
              /\ ex' = [ex EXCEPT ![e] = [@ EXCEPT !.pc = "persist", !.broken = b, !.pend = p]]
              /\ b => ex[e].broken \/ (ex[e].seen = None /\ cache[Content(e)] # NoEntry)
      BY WriteEffect
    <3>2. At(e, "write") /\ mishap' = mishap
      BY DEF Write
    <3>3. b => e \in mishap
      BY <3>1, <3>2 DEF IInv, Marked, FlawsAreMarked, InsertsAreMarked
    <3> QED
      BY <3>1, <3>2, <3>3 DEF IInv, TypeOK, ExecsOK, Execution, Marked, FlawsAreMarked, At
  <2>3. InsertsAreMarked'
    BY DEF IInv, TypeOK, CacheOK, ExecsOK, Execution, Backed, Marked, PendIsAnswer, RivalsAreMarked, InWindow, InsertsAreMarked, Write, At, Content, Inserts, Unchanged, Goto
  <2> QED
    BY <2>1, <2>2, <2>3 DEF Marked
<1>9. \A e \in Execs : Persist(e) => Marked'
  <2> SUFFICES ASSUME NEW e \in Execs, Persist(e) PROVE Marked'
    OBVIOUS
  <2>1. RivalsAreMarked'
    BY DEF IInv, TypeOK, ExecsOK, Execution, Marked, RivalsAreMarked, InWindow, Persist, At, Content, Over
  <2>2. FlawsAreMarked'
    BY DEF IInv, TypeOK, CacheOK, ExecsOK, Execution, Marked, FlawsAreMarked, Persist, At, Over
  <2>3. InsertsAreMarked'
    BY DEF IInv, TypeOK, CacheOK, ExecsOK, Execution, Backed, Marked, PendIsAnswer, RivalsAreMarked, InWindow, InsertsAreMarked, Persist, At, Content, CommitsCache, Over
  <2> QED
    BY <2>1, <2>2, <2>3 DEF Marked
<1>10. \A e \in Execs : PersistFails(e) => Marked'
  <2> SUFFICES ASSUME NEW e \in Execs, PersistFails(e) PROVE Marked'
    OBVIOUS
  <2>1. RivalsAreMarked'
    BY DEF IInv, TypeOK, ExecsOK, Execution, Marked, RivalsAreMarked, InWindow, PersistFails, At, Content, Over
  <2>2. FlawsAreMarked'
    BY DEF IInv, TypeOK, CacheOK, ExecsOK, Execution, Marked, FlawsAreMarked, PersistFails, At, Over
  <2>3. InsertsAreMarked'
    BY DEF IInv, TypeOK, CacheOK, ExecsOK, Execution, Backed, Marked, PendIsAnswer, RivalsAreMarked, InWindow, InsertsAreMarked, PersistFails, At, Content, Over
  <2> QED
    BY <2>1, <2>2, <2>3 DEF Marked
<1>11. \A e \in Execs : Finalize(e) => Marked'
  <2> SUFFICES ASSUME NEW e \in Execs, Finalize(e) PROVE Marked'
    OBVIOUS
  <2>1. RivalsAreMarked'
    BY DEF IInv, TypeOK, ExecsOK, Execution, Marked, RivalsAreMarked, InWindow, Finalize, At, Content, Over
  <2>2. FlawsAreMarked'
    BY DEF IInv, TypeOK, CacheOK, ExecsOK, Execution, Marked, FlawsAreMarked, Finalize, At, Over
  <2>3. InsertsAreMarked'
    BY DEF IInv, TypeOK, CacheOK, ExecsOK, Execution, Backed, Marked, PendIsAnswer, RivalsAreMarked, InWindow, InsertsAreMarked, Finalize, At, Content, Over
  <2> QED
    BY <2>1, <2>2, <2>3 DEF Marked
<1>12. \A e \in Execs : UpsertFails(e) => Marked'
  <2> SUFFICES ASSUME NEW e \in Execs, UpsertFails(e) PROVE Marked'
    OBVIOUS
  <2>1. RivalsAreMarked'
    BY DEF IInv, TypeOK, ExecsOK, Execution, Marked, RivalsAreMarked, InWindow, UpsertFails, At, Content, Fault
  <2>2. FlawsAreMarked'
    BY DEF IInv, TypeOK, CacheOK, ExecsOK, Execution, Marked, FlawsAreMarked, UpsertFails, At, Fault
  <2>3. InsertsAreMarked'
    BY DEF IInv, TypeOK, CacheOK, ExecsOK, Execution, Backed, Marked, PendIsAnswer, RivalsAreMarked, InWindow, InsertsAreMarked, UpsertFails, At, Content, Fault
  <2> QED
    BY <2>1, <2>2, <2>3 DEF Marked
<1>13. \A e \in Execs : StatementFails(e) => Marked'
  <2> SUFFICES ASSUME NEW e \in Execs, StatementFails(e) PROVE Marked'
    OBVIOUS
  <2>1. RivalsAreMarked'
    BY DEF IInv, TypeOK, ExecsOK, Execution, Marked, RivalsAreMarked, InWindow, StatementFails, At, Content, Fault, Over
  <2>2. FlawsAreMarked'
    BY DEF IInv, TypeOK, CacheOK, ExecsOK, Execution, Marked, FlawsAreMarked, StatementFails, At, Fault, Over
  <2>3. InsertsAreMarked'
    BY DEF IInv, TypeOK, CacheOK, ExecsOK, Execution, Backed, Marked, PendIsAnswer, RivalsAreMarked, InWindow, InsertsAreMarked, StatementFails, At, Content, Fault, Over
  <2> QED
    BY <2>1, <2>2, <2>3 DEF Marked
<1>14. \A e \in Execs : Crash(e) => Marked'
  <2> SUFFICES ASSUME NEW e \in Execs, Crash(e) PROVE Marked'
    OBVIOUS
  <2>1. RivalsAreMarked'
    BY DEF IInv, TypeOK, ExecsOK, Execution, Marked, RivalsAreMarked, InWindow, Crash, At, Content, Fault, Over
  <2>2. FlawsAreMarked'
    BY DEF IInv, TypeOK, CacheOK, ExecsOK, Execution, Marked, FlawsAreMarked, Crash, At, Fault, Over
  <2>3. InsertsAreMarked'
    BY DEF IInv, TypeOK, CacheOK, ExecsOK, Execution, Backed, Marked, PendIsAnswer, RivalsAreMarked, InWindow, InsertsAreMarked, Crash, At, Content, Fault, Over
  <2> QED
    BY <2>1, <2>2, <2>3 DEF Marked
<1>15. \A h \in Contents : Ages(h) => Marked'
  <2> SUFFICES ASSUME NEW h \in Contents, Ages(h) PROVE Marked'
    OBVIOUS
  <2>1. RivalsAreMarked'
    BY DEF IInv, TypeOK, ExecsOK, Execution, Marked, RivalsAreMarked, InWindow, Ages, At, Content
  <2>2. FlawsAreMarked'
    BY DEF IInv, TypeOK, CacheOK, ExecsOK, Execution, Marked, FlawsAreMarked, Ages, At, Fresh
  <2>3. InsertsAreMarked'
    BY DEF IInv, TypeOK, CacheOK, ExecsOK, NoEntry, Execution, Backed, Marked, PendIsAnswer, RivalsAreMarked, InWindow, InsertsAreMarked, Ages, At, Content, Fresh
  <2> QED
    BY <2>1, <2>2, <2>3 DEF Marked
<1> QED
  BY <1>1, <1>2, <1>3, <1>4, <1>5, <1>6, <1>7, <1>8, <1>9, <1>10, <1>11, <1>12, <1>13, <1>14, <1>15 DEF Next, Step, Asked, Mishaps

LEMMA NextIInv == IInv /\ [Next]_vars => IInv'
<1> SUFFICES ASSUME IInv, [Next]_vars PROVE IInv'
  OBVIOUS
<1>1. CASE Next
  BY <1>1, NextTypeOK, NextBacked, NextMarked DEF IInv
<1>2. CASE UNCHANGED vars
  <2>1. Backed'
    BY <1>2 DEF IInv, vars, Backed, PendIsAnswer, ScoredIsOver, CacheIsBacked, At, Content
  <2>2. Marked'
    BY <1>2 DEF IInv, vars, Marked, RivalsAreMarked, FlawsAreMarked, InsertsAreMarked, InWindow, At, Content
  <2> QED
    BY <1>2, <2>1, <2>2, StutterTypeOK DEF IInv
<1> QED
  BY <1>1, <1>2

-----------------------------------------------------------------------------
(* An entry of the cache is the recorded evaluation of some execution with  *)
(* its content, since upsert() and _persist_evaluation commit together.     *)
THEOREM CacheBacked == Spec => []CacheIsBacked
<1>1. IInv => CacheIsBacked
  BY DEF IInv, Backed
<1> QED
  BY <1>1, InitIInv, NextIInv, PTL DEF Spec

(* A run is left unfinished by its evaluation only after a fault, an answer *)
(* without a score or a rival between upsert()'s second look and commit.    *)
THEOREM OnlyMishaps == Spec => []OnlyMishapsStrand
<1>1. IInv => OnlyMishapsStrand
  BY DEF IInv, Marked, FlawsAreMarked, OnlyMishapsStrand
<1> QED
  BY <1>1, InitIInv, NextIInv, PTL DEF Spec
=============================================================================

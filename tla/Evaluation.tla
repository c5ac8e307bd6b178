------------------------------ MODULE Evaluation -----------------------------
(***************************************************************************)
(* Scoring a finished execution: EvaluationService.evaluate                 *)
(* (backend/services/evaluation/service.py) and what _execute_run does with *)
(* its result, for executions that run side by side in one worker or many.  *)
(*                                                                         *)
(* An execution has one database session for all of it.  The cache entry it *)
(* writes is committed with the evaluation row, and until then it keeps a   *)
(* lock on the content.  A statement that fails leaves the session broken:  *)
(* evaluate() swallows the exception, but nobody rolls back, and whatever   *)
(* the session does next fails as well.                                     *)
(***************************************************************************)
EXTENDS Naturals

CONSTANTS Execs,    \* executions that have an output; a resumed run has a new one
          Contents, \* hashes of input and output
          Scores,   \* what the model answers: score, criteria and notes, as one value
          None,
          MaxFaults \* bound: failed statements and crashes

ASSUME EvaluationAssumption == 0 \in Scores /\ Scores \subseteq Nat /\ None \notin Scores

VARIABLES cache,   \* cache[h]: the committed entry of evaluation_cache, or NoEntry
          score,   \* score[e]: the committed row of agent_evaluations, or None
          ex,      \* ex[e]: how far the execution is
          faults,  \* how many faults have happened
          mishap   \* executions something listed at OnlyMishapsStrand happened to

vars == <<cache, score, ex, faults, mishap>>

-----------------------------------------------------------------------------
NoEntry == [score |-> None, fresh |-> FALSE]

Fresh(h) == cache[h].score # None /\ cache[h].fresh

\* seen: what the session has read of the entry; pend: what it has flushed;
\* broken: a statement has failed.
Ready == [pc |-> "ready", content |-> None, seen |-> None, answer |-> None,
          pend |-> None, broken |-> FALSE]

At(e, p) == ex[e].pc = p

Goto(e, p) == ex' = [ex EXCEPT ![e].pc = p]

Content(e) == ex[e].content

\* A flushed entry locks its content until the session ends.
Locked(h) == \E e \in Execs : Content(e) = h /\ ex[e].pend # None

Fault(e) == /\ faults < MaxFaults
            /\ faults' = faults + 1
            /\ mishap' = mishap \cup {e}

\* The execution is over.  A flush that fails is rolled back at once, and the
\* session is closed in any case, so a pending entry is gone.
OverKeepsLock(e, p) == Goto(e, p)

Over(e, p) == ex' = [ex EXCEPT ![e].pc = p, ![e].pend = None]

Init == /\ cache = [h \in Contents |-> NoEntry]
        /\ score = [e \in Execs |-> None]
        /\ ex = [e \in Execs |-> Ready]
        /\ faults = 0
        /\ mishap = {}

-----------------------------------------------------------------------------
Begin(e, h) ==
    /\ At(e, "ready")
    /\ ex' = [ex EXCEPT ![e].pc = "lookup", ![e].content = h]
    /\ UNCHANGED <<cache, score, faults, mishap>>

(* Sampling, or a pipeline without a prompt: nothing is evaluated.          *)
Skip(e) ==
    /\ At(e, "lookup")
    /\ Goto(e, "finalize")
    /\ UNCHANGED <<cache, score, faults, mishap>>

(* The entry is used if it is at most a day old.                            *)
Lookup(e) ==
    /\ At(e, "lookup")
    /\ LET h == Content(e) IN
       ex' = IF Fresh(h)
               THEN [ex EXCEPT ![e].pc = "persist", ![e].answer = cache[h].score]
               ELSE [ex EXCEPT ![e].pc = "asking", ![e].seen = cache[h].score]
    /\ UNCHANGED <<cache, score, faults, mishap>>

(* A failed lookup is a miss.  The session is spoilt if a statement failed, *)
(* and not if there was no connection to be had.                            *)
LookupFails(e) ==
    /\ At(e, "lookup")
    /\ Fault(e)
    /\ \E b \in BOOLEAN : ex' = [ex EXCEPT ![e].pc = "asking", ![e].broken = b]
    /\ UNCHANGED <<cache, score>>

(* The model answers; s is None if the answer has no number for a score.    *)
Answer(e, s) ==
    /\ At(e, "asking")
    /\ ex' = [ex EXCEPT ![e].pc = "reread", ![e].answer = s]
    /\ mishap' = IF s = None THEN mishap \cup {e} ELSE mishap
    /\ UNCHANGED <<cache, score, faults>>

(* A time-out after 30 seconds, an error, or an answer that is not JSON.    *)
(* Without evaluation_model (the default) every other answer ends here too: *)
(* it is asked for a provider, which it does not have, and raises.          *)
NoAnswer(e) ==
    /\ At(e, "asking")
    /\ Goto(e, "finalize")
    /\ UNCHANGED <<cache, score, faults, mishap>>

\* "response.score or 0"
Stored(s) == IF s = None THEN 0 ELSE s

\* Others between their second look at the entry and their commit.
Rivals(e) == {d \in Execs \ {e} : /\ Content(d) = Content(e)
                                  /\ \/ At(d, "write")
                                     \/ ex[d].pend # None}

(* upsert() looks again.  An object that the session has loaded already     *)
(* keeps the attributes of the first look.                                  *)
Reread(e) ==
    /\ At(e, "reread")
    /\ ex' = IF ex[e].broken
               THEN [ex EXCEPT ![e].pc = "persist"]
               ELSE [ex EXCEPT ![e].pc = "write",
                               ![e].seen = IF @ = None THEN cache[Content(e)].score ELSE @]
    /\ mishap' = IF Rivals(e) = {} THEN mishap ELSE mishap \cup {e} \cup Rivals(e)
    /\ UNCHANGED <<cache, score, faults>>

InsertAlways(e) == TRUE

Inserts(e) == ex[e].seen = None

\* An attribute that is set to the value it had is not written.
Unchanged(e) == ex[e].seen = Stored(ex[e].answer)

(* The flush of upsert(): an INSERT, an UPDATE or nothing.  It waits for    *)
(* whoever has written the entry; an INSERT fails if that one commits.      *)
Write(e) ==
    /\ At(e, "write")
    /\ LET h == Content(e) IN
       \/ /\ ~Inserts(e) /\ Unchanged(e)
          /\ Goto(e, "persist")
       \/ /\ Inserts(e) \/ ~Unchanged(e)
          /\ ~Locked(h)
          /\ ex' = IF Inserts(e) /\ cache[h] # NoEntry
                     THEN [ex EXCEPT ![e].pc = "persist", ![e].broken = TRUE]
                     ELSE [ex EXCEPT ![e].pc = "persist", ![e].pend = Stored(ex[e].answer)]
    /\ UNCHANGED <<cache, score, faults, mishap>>

\* evaluated_at is set by the INSERT and never renewed.
CommitsCache(e) ==
    cache' = IF ex[e].pend = None THEN cache
             ELSE [cache EXCEPT ![Content(e)] =
                     [score |-> ex[e].pend, fresh |-> @ = NoEntry \/ @.fresh]]

(* _persist_evaluation and commit: the evaluation, and the cache entry with *)
(* it.  A row without a score is refused (NOT NULL).                        *)
Persist(e) ==
    /\ At(e, "persist")
    /\ ~ex[e].broken
    /\ ex[e].answer # None
    /\ score' = [score EXCEPT ![e] = ex[e].answer]
    /\ CommitsCache(e)
    /\ Over(e, "finalize")
    /\ UNCHANGED <<faults, mishap>>

PersistIsSwallowed(e) ==
    /\ At(e, "persist")
    /\ ex[e].broken \/ ex[e].answer = None
    /\ CommitsCache(e)
    /\ Over(e, "done")
    /\ UNCHANGED <<score, faults, mishap>>

PersistFails(e) ==
    /\ At(e, "persist")
    /\ ex[e].broken \/ ex[e].answer = None
    /\ Over(e, "stranded")
    /\ UNCHANGED <<cache, score, faults, mishap>>

(* _finalize_completed on the same session.  If that fails, so does         *)
(* _finalize_failed, and the run's row says "running" for ever.             *)
Finalize(e) ==
    /\ At(e, "finalize")
    /\ Over(e, IF ex[e].broken THEN "stranded" ELSE "done")
    /\ UNCHANGED <<cache, score, faults, mishap>>

-----------------------------------------------------------------------------
(* Any statement may fail.  Those of the upsert are inside a try.           *)
UpsertFails(e) ==
    /\ ex[e].pc \in {"reread", "write"}
    /\ Fault(e)
    /\ ex' = [ex EXCEPT ![e].pc = "persist", ![e].broken = TRUE]
    /\ UNCHANGED <<cache, score>>

StatementFails(e) ==
    /\ ex[e].pc \in {"persist", "finalize"}
    /\ Fault(e)
    /\ Over(e, "stranded")
    /\ UNCHANGED <<cache, score>>

(* The worker dies; PostgreSQL rolls back what it had not committed.        *)
Crash(e) ==
    /\ ex[e].pc \notin {"ready", "done", "stranded"}
    /\ Fault(e)
    /\ Over(e, "stranded")
    /\ UNCHANGED <<cache, score>>

(* A day passes for the entry.                                              *)
Ages(h) ==
    /\ Fresh(h)
    /\ cache' = [cache EXCEPT ![h].fresh = FALSE]
    /\ UNCHANGED <<score, ex, faults, mishap>>

-----------------------------------------------------------------------------
Step(e) == \/ Lookup(e) \/ Reread(e) \/ Write(e)
           \/ Persist(e) \/ PersistFails(e) \/ Finalize(e)

Asked(e) == (\E s \in Scores \cup {None} : Answer(e, s)) \/ NoAnswer(e)

Mishaps(e) == LookupFails(e) \/ UpsertFails(e) \/ StatementFails(e) \/ Crash(e)

Next == \/ \E e \in Execs : \/ \E h \in Contents : Begin(e, h)
                            \/ Skip(e) \/ Step(e) \/ Asked(e) \/ Mishaps(e)
        \/ \E h \in Contents : Ages(h)

Spec == Init /\ [][Next]_vars

\* The event loop runs what is ready, and the call of the model has a time limit.
FairSpec == Spec /\ \A e \in Execs : WF_vars(Step(e)) /\ WF_vars(Asked(e))

-----------------------------------------------------------------------------
(* Properties *)

Execution == [
    pc : {"ready", "lookup", "asking", "reread", "write", "persist", "finalize",
          "done", "stranded"},
    content : Contents \cup {None}, seen : Scores \cup {None},
    answer : Scores \cup {None}, pend : Scores \cup {None}, broken : BOOLEAN]

CacheOK == /\ cache \in [Contents -> [score : Scores \cup {None}, fresh : BOOLEAN]]
           /\ \A h \in Contents : cache[h].score = None => cache[h] = NoEntry

ScoresOK == score \in [Execs -> Scores \cup {None}]

ExecsOK == /\ ex \in [Execs -> Execution]
           /\ \A e \in Execs : At(e, "ready") \/ Content(e) \in Contents

CountsOK == faults \in Nat /\ mishap \subseteq Execs

(* Types, and an entry without a score is not there.  About what            *)
(* evaluate(), upsert() and _persist_evaluation write.                      *)
TypeOK == CacheOK /\ ScoresOK /\ ExecsOK /\ CountsOK

(* What the cache serves was recorded as the evaluation of some execution   *)
(* with that content: the entry of an execution whose evaluation was        *)
(* refused, lost or rolled back is never seen by another.  About the one    *)
(* commit in _execute_run for upsert() and _persist_evaluation.             *)
CacheIsBacked ==
    \A h \in Contents : cache[h] # NoEntry =>
        \E e \in Execs : Content(e) = h /\ score[e] = cache[h].score

(* An evaluation strands its run (nothing is finalised) only if a statement *)
(* failed or the worker died, if the answer had no score, or if another     *)
(* execution with the same content stood between its second look at the     *)
(* cache and its commit at the same time: the call of the model, half a     *)
(* minute long, may overlap with impunity.  About upsert() looking again.   *)
OnlyMishapsStrand == \A e \in Execs : At(e, "stranded") => e \in mishap

(* Every evaluation ends, whatever fails: nobody waits for ever for the     *)
(* content's lock.  About the lock held from the flush of upsert() to the   *)
(* commit in _execute_run or the failure that rolls it back.                *)
EveryEvaluationEnds ==
    \A e \in Execs : At(e, "lookup") ~> ex[e].pc \in {"done", "stranded"}
=============================================================================

# A TLA+ model of AI Intelligence OS

AI Intelligence OS is a FastAPI back end (`src/backend`), served by several gunicorn
workers over one PostgreSQL, one Redis and one Qdrant, with a Next.js front end
(`src/frontend`).  It runs LangGraph workflows on request or on a schedule, keeps articles and
knowledge items with their vectors, and lets a browser follow the runs.  These modules model
the parts whose correctness depends on what happens *between* two awaits, two processes or two
messages, and check them with TLC; the theorems are proved with TLAPS.

## 1. Inventory

Parts of the system, the state each keeps, what it does to it, and what is hard about it.

| Part | State | Operations | What is hard | What makes it correct |
|---|---|---|---|---|
| Agent runtime (`services/agent_runtime_service.py`) | rows of `agent_runs`, LangGraph checkpoints, `agent_evaluations`; per worker: background tasks, cancellation tokens | submit, execute, finalise, evaluate, cancel, resume, start-up recovery | a request's service instance dies with the request while its task goes on; status checks and writes are separated by awaits; workers crash and scan each other's runs | rows coherent; one execution unless a commit overtook its check; recovery takes orphans only; settled runs stay settled; every execution ends |
| Executor (`workflows/retry_executor.py`, `executor.py`, `error_classifier.py`) | loop counters, the process's thread pool | attempt, back off, retry, time out | threads cannot be stopped, `wait_for` can | attempts one at a time, counted exactly, bounded |
| Workflow graphs, agents, notifications (`workflows/graph/*`, `agents/*`, `services/notification/*`) | the channels of a graph, the checkpoints under a run's thread, what was sent | run a node, save a step, begin an attempt with the old channels, send the digest | channels outlive attempts, crashes and timed-out threads; nodes swallow their failures; a channel or a chat may refuse | a digest and a result hold what their own attempt found; "sent" means sent |
| Scheduler (`services/scheduler/service.py`) | `scheduled_jobs`; per worker: an APScheduler, one session for all submissions | create, update, delete, trigger, start | look-up and commit are separated by awaits, in several workers; registering a job always raises, behind the commit (section 7); a failed flush breaks the shared session | names are unique; overlapping updates keep apart; deleted jobs get no runs |
| Execution panel (`AgentExecutionPanel.tsx`, `useAgentStream.ts`, `useAgentRuns.ts`, `routers/agents.py`) | the query's list, live cards, polls, mutations under way | fetch, invalidate, poll, submit, cancel, open and close | the stream never works; each poll cancels and repeats the list request; answers overtake each other | the list never goes back; a live card follows its run; a submission is shown |
| RAG and LLM router (`services/rag/*`, `services/llm/*`, `routers/knowledge.py`) | per request: two branches on one session, two rankings, the context, the tokens sent | embed, search, full text, substring, fuse, chat, stream | the branches share a session; an aborted transaction; fall-backs of search and of stream | fused order and filters are what they say; one answer has one source |
| Chat (`RAGChat.tsx`, `useKnowledge.ts`) | messages, the ref of the current one, controllers, pending updates | send, stop, token, done, error, unmount | update functions read the ref when React runs them | a message shows its own question's answer; "done" is whole; the chat becomes usable again |
| Refresh tokens (`routers/auth.py`, `services/refresh_token_store.py`) | Redis keys, the browser's cookie | login, refresh with one-use rotation, logout, password change, deactivation | overlapping refreshes of one cookie; answers that overtake or get lost | the cookie stays usable |
| Token manager and interceptor (`lib/token-manager.ts`, `lib/api.ts`) | access token, the promise of the refresh under way, requests | send, 401, shared refresh, retry | many requests fail at once; a retry fails again; page reloads | one refresh per tab; nobody waits for nothing |
| Knowledge items and vectors (`services/knowledge_service.py`, `services/knowledge/service.py`, `services/vector/qdrant.py`, `scripts/backfill_embeddings.py`) | rows of `knowledge_items`, points in Qdrant | create, update, delete, backfill | two stores without a common transaction | the vector of a row was made of what the row holds |
| Evaluation and cache (`services/evaluation/*`) | `evaluation_cache`, `agent_evaluations`, the run's session | look up, score with the LLM, upsert, insert | concurrent misses on a unique key; a failed statement poisons the session | only mishaps strand a run |
| Not modelled: stage callbacks, ingestion, worker jobs, MCP, audit, plain CRUD, metrics, schema, other panels | see section 6 | | dead code, or no ordering between steps decides anything | |

The parts meet in few places.  The scheduler calls `submit` of the runtime with a session that
its worker's submissions share; the runtime calls the executor under `wait_for`; the executor runs the graph in
the default thread pool; a completed run is evaluated before it is finalised.  The graph's last node sends the digest.  The browser's
tabs share one cookie, and every tab has a token manager of its own.  The panel sees runs through one list request and
polls.  Everything that several workers share is in PostgreSQL, Redis or Qdrant.

## 2. Plan

The most important behaviour came first:

1. `AgentRuns` with the abstract `RunLifecycle`; `AgentRuns_proofs`.
2. `RetryExecutor` with the abstract `BoundedRetry` and proofs; `Scheduler` and proofs.
3. `TokenRotation`, `RefreshGate`, composed in `Session`; proofs of server and composition.
4. `KnowledgeSync` (rows, points, backfill), `Evaluation` (cache, session), with proofs of both.
5. `LLMRouter`, `Retrieval`, `AnswerServer`, `ChatPage`, composed in `RagAnswer`; proofs in `Pages_proofs`.
6. `RunPanel`, over the life cycle that `AgentRuns` implements; proofs in `Pages_proofs`.
7. `IntelligenceGraph` and `PipelineRun`, with proofs.

All of it is done, and every safety and action property of a passing run has its theorem (section 5).  What is left is to compose
`PipelineRun` with `RetryExecutor`, whose attempts it repeats in short.

Abstract specifications: `RunLifecycle` (what a client may rely on), `BoundedRetry` (what a
caller of the executor is promised), and `TokenRotation` as the specification that the server
part of `Session` implements whatever the tabs do.

## 3. Modules and how they correspond to the code

A step of a model is the code between two awaits that touch shared state.  A guard and the
write it protects are two steps wherever the code awaits between them.  Only committed rows
are state: a session that ends without commit is rolled back (`database/connection.py`).

**`AgentRuns`** — the runtime service.  `row[r]` is the committed row, `co[c]` a coroutine (a
request between check and write, or the background task of an execution) with the worker that
runs it, `worker[w]` and `todo[w]` the start-up recovery.  `Submit`, `CancelCheck`/`CancelCommit`, `ResumeCheck`/
`ResumeCommit` are the requests, `Dispatch` to `FinalizeFailed` the phases of `_execute_run`,
`BootScan`/`ScanRun`/`Serve`/`Crash` (together `Process`) a worker's lifespan: `_recover_stale_runs`, serving, its end;
`StoreBreaks` is any failing statement of an execution.  `BaseRepository.update` loads, changes and flushes with awaits
between, and the ORM writes only what differs from what was loaded: so `FinalizeLoad` and `FinalizeCompleted` are two steps, and a finaliser that
loaded a completed row (`stamping`) writes `finished_at` without the status.  `overtaken` remembers the runs of which a commit found a
row its own check would have refused; it is no state of the code but what several properties speak of.  Time is the single bit `old` of a row: started before the
recovery cutoff.  `GrowOld` needs the run to be quiet because an execution is cut after 300
seconds and the cutoff is 24 hours.  `FinalizeFailed` leaves the row alone: the code flushes
and never commits.

**`RunLifecycle`** — status and "held by something".  `AgentRuns` implements it twice, with the
narrow status graph of one worker and with the wide graph of several.  The mapping is at the end of `AgentRuns`:
`StatusOf` is the status a client is answered, `HeldRuns` the runs a coroutine or a scan has in hand.

**`RetryExecutor`, `BoundedRetry`** — `attempt`, `retries`, `delay` are the loop's variables,
`queued` and `running` the thread pool, `verdict` what the caller learns.  An error message is the
set of kinds of patterns it contains; `classify_error` is translated with its order (permanent
first, unknown is permanent).  A timed-out execution leaves its thread in the pool.

**`Scheduler`** — `job` is the table, `sched[w]` what start-up made of worker `w`'s service, `shared[w]` whether the
session behind its submissions still works, `runs[j]` how many runs were created for `j`, `co[c]` a request between
its look-up or load and its commit, with what it loaded (`cols`) and was asked for (`ask`).  `Registers` is `_register_with_scheduler`: it
raises for every job (section 7), so no job has a trigger, nothing fires, and a start-up with an enabled job leaves a service that
serves without its APScheduler.  An update writes the columns it was asked for and that differ from what it loaded (`Written`).
`DbFails` says whether statements may fail.  The completion notice of the runtime changes nothing (section 7) and is not an action.

**`TokenRotation`** — `stored` is what Redis holds, `slot[h]` a call under way with the token it
came with and the token it creates, `cookie` the browser's.  Every Redis command is a step.
`retired` remembers what logout and password changes withdrew, `spoiled` the tokens a fault made useless.  The scan of
`revoke_all_user_tokens` is one step.

**`RefreshGate`** — `gate[t]` is `_refreshPromise` of tab `t`, `access[t]` `_accessToken`, `req[q]` a call of `request()`.  JavaScript
runs to completion and the continuations of one promise follow each other, so a settled refresh
and what all its waiters do is one step.

**`Session`** — the composition: each refresh of a tab is a call of `TokenRotation`, `from[h]` the tab
that awaits it.  The answer of a refresh may be unreadable (`Resolve \/ Reject`): see section 7.

**`KnowledgeSync`** — `row[i]` is the committed title and text of an item, `point[i]` what the vector in Qdrant was made
of, `req[q]` an API request (create, update with or without a text, delete), `fill` the backfill script with the rows it read at its
start.  The API embeds the text alone (`Embedded`), the script title and text; a vector `Fits` a row if all it was made of is still the
row's.  A request flushes early and commits last, so it holds its row's lock while it embeds and upserts (`Locked`).  `Changes` is what an
update will write, the fields that differ from the row it loaded; one that has a text and changes nothing flushes nothing and goes without the
lock (`Reread`, `SyncUnlocked`), one without a text embeds nothing (`meta`).  Pipelines only store a row.  The
script's steps (`FillBegins` with the deletion of the collection, which may fail and is then passed over, `FillReads`, `FillCommits`,
`FillUpserts`) and the two ways it goes wrong are actions; `Onward` is the end of its loop.  `tainted` collects the items one of the
mishaps that `PointFollowsRow` lists happened to.

**`Evaluation`** — `ex[e]` is an execution between its graph's end and its finalisation, `cache[h]` the
committed entry for a content, `score[e]` the committed evaluation.  `Lookup`, `Answer`, `Reread`, `Write` are
`evaluate` and `upsert`; `Persist` is the flush of the evaluation with the commit, which commits the
entry too.  `broken` says that a statement of the session has failed: nobody rolls back, so everything
after it fails.  An entry's age is the bit `fresh`.  `AgentRuns` takes all of this as one step that
succeeds or breaks the execution (`StoreBreaks`).

**`LLMRouter`, `Retrieval`, `AnswerServer`** — one request of the knowledge endpoints.  `LLMRouter` has no state: the
routing rules, which provider a call goes to (`Resolve`), what a chat may fall back to, and what each provider makes of
the pieces of its stream.  `Retrieval` is the two branches under `gather`: `dense` and `keyword` say how far each is,
`conn` what has become of the one connection they share (a branch whose statement comes while the other connects is
refused; a failed statement aborts the transaction).  Fusion is exact: scores are integers over a common denominator, and
`Fusions` is the set of orders the sort may give.  `AnswerServer` adds the handler (`phase`), the context, the tokens told, and the
events on the `wire`.

**`ChatPage`, `RagAnswer`** — the page: `msgs`, `ref` (`assistantMsgIdRef`), `ctl` (`abortRef`), `pending` (React's queued updates, each with the
ref it has read, or `Later`).  `RagAnswer` joins page and server by the wire, for questions of this page and
requests of other clients.

**`RunPanel`** — `row` is the run on the server, `list` the query's data, `fetches` and `current` its requests,
`stream[r]` the hook of a live card (`off`, `sse`, `poll`), `polls[r]` polls under way, `submit` and `cancel` the mutations.  `writes` numbers
the versions of a row.  `StreamOpens` is whether the endpoint lets an EventSource in: it asks for a user, and no header of a
page's is sent, so `SseFails` is all a stream does.  `Invalidate` is `invalidateQueries`: a list request under way is cancelled and another begun,
unless the query has no data yet; then the first request is left to end, and `missed` collects the runs it has read too early to see.
`Life`, the changes a run makes by itself, is the status graph of `RunLifecycle`.  (Some of its names end in `Panel`, or are
`Nothing`, `mounted`, `heard`, because `Pages_proofs` has the panel and the chat in one scope.)

**`IntelligenceGraph`, `PipelineRun`** — a node and its channel are one, numbered along the edges; a channel holds a
kind: unset, `None`, an error, an empty text, a text.  `Results` says what a node makes of what it finds.  `g[e]` is the thread of execution
`e` with its attempt, next node, channels (`vals`) and those of them this attempt wrote (`own`); `saved` the checkpoint.
`Begin` loads the old channels and starts at the first node, `Save` comes behind the step, `Raise` is any exception with
the retry that may follow, `TimeLimit` leaves the thread at work, `Resume` starts again.  `SendEmail`, `PostChat`,
`Notified` are the last node's dispatch.

## 4. Runs

| Run | Instance | Shows |
|---|---|---|
| `runs_one_worker` | 1 run, 1 worker, 3 coroutines, fairness | with one process the recovery never overlaps a request: interrupted runs are idle, the row is coherent although finalisers and resumes overlap, the narrow lifecycle is implemented, everything ends |
| `runs_workers` | 2 runs, 2 workers, 2 coroutines | what survives a recovery scan that overlaps the other worker's requests: two executions of a run, or a reopened one, need a commit that overtook its check |
| `sched_workers` | 2 jobs, 2 names, 2 workers, 2 coroutines, a failing database | what overlapping creations, renames, updates, deletions and triggers may not do to the table |
| `exec_retries` | 2 executions, 1 thread, 3 attempts, fairness | retries, timeouts and late threads interleave and the promise is kept |
| `pipeline` | 2 executions of a run, 2 attempts of each, both pipelines, 2 chats | nothing of another attempt gets into a digest or a result; the delivery status is true |
| `panel` | 1 run, 2 list requests, 1 poll, 1 fault, fairness | the list never goes back; cards follow; a submission is shown, unless it meets the first list request |
| `rag` | 2 questions (this page's, or other clients' searches), 3 items, 2 providers, fairness | fusion, filter, stream, fall-back, stop, lost connections: one voice, whole answers, a chat that becomes usable again |
| `session` | 2 tabs, 2 requests, 2 calls, 3 tokens, 1 fault | gate and cookie; a fault loses the cookie at one place only |
| `knowledge` | 1 item, 2 titles, 2 texts, 2 requests, a pipeline, the backfill, 1 fault, fairness | row and point stay together but for the listed mishaps; a backfill that is alone repairs; nobody waits for a row for ever |
| `evaluation` | 3 executions of one content, 2 scores, 1 fault, fairness | the cache serves recorded evaluations only; what may strand a run; nobody waits for ever |
| `runs_failure_lost`, `sched_restart` | the smallest instances that show it | a sentence of the repository each that the code does not keep (section 7) |

*Bounds.*  Two workers are enough for one to scan while the other serves; three coroutines on one run hold
an execution, a cancellation and a resume at once, or an execution and two resumes.  `evals` counts to two ("several").  Two tabs with two
calls give every overlap of two rotations, and a reload leaves a call behind that nobody awaits; three tokens
allow a login and two successors.  `session` leaves the endpoint `password` out (it is the step of
logout with a larger set); the theorem about the cookie covers it.  `MaxRuns = 1` lets a job be triggered once: the
property is about the first run after a deletion.  Two jobs and two names give every conflict of names, two coroutines every overlap of two requests,
in one worker or in two.
In `knowledge` one item is enough, since lock, point and row are per item and only the backfill's error handling
couples items; the theorem holds for any number.  Its request bodies are a whole item, a text alone and a title alone: in turn they reach every content.  In `evaluation` one content is enough for the same reason, and
three executions give an entry, its renewal and a rival.  In `pipeline` only the analyst
may answer nothing (`Unsure`): it is the node others rest on, and a failure further down reaches nobody but itself; two chats give
one that accepts and one that refuses.  In `panel` one run suffices, as cards share nothing but the list; two list requests let one
be cancelled and answer late; three writes let a run end, be resumed and end.  In `rag` item `a` matches and has a stale payload, `b` has lost its row, `c` has no
point: each of the ways the two branches may disagree; two pieces of text tell a cut stream from a whole one.
All runs but `panel` and `rag` leave their type invariant to the theorem.
Symmetry is used only in runs without liveness.

*Fairness.*  The event loop runs every ready coroutine and every timer: weak fairness on those steps.  A
row's lock is granted in order of arrival, which is strong fairness of `Step` in `KnowledgeSync`, for the step that waits is the one at the lock; in `Evaluation`,
where an execution is evaluated once, weak fairness does.  In `rag` the server's steps and the page's
are weakly fair.  In `panel` timers fire, the server answers, and (`SF`) a list request is now and then answered before
the next poll, three seconds later (`useAgentStream.ts:30`), cancels it; that is the network's promise and not the code's, and without it the card would never
move.  No
fairness on the LLM (`ExecutorReturns`), on a graph's end (`ThreadEnds`), on requests, crashes or scans.  So the liveness
properties say that the time limit alone ends what hangs.

## 5. Proofs

TLAPS proves, for any sets of runs, workers, coroutines, tabs, calls, questions and items:

* `AgentRuns_proofs`: `TypeCorrect`, `RowsCoherent`, `CoroutinesServed`, `LiveRunsFresh`, `OrphansOnly`,
  `ExecutedOnce`, `SettledFinal`, and, for a single worker, `InterruptedIdle`.  That a live run is
  fresh is not inductive alone: it needs that every coroutine is held by a serving worker and that only a quiet run
  grows old.  The scan selects orphans because a stale row is old and a live one is not.
  `RowsCoherent` and `ExecutedOnce` follow from what holds of a run until a commit overtakes its check (`OrderlyRuns`): while a coroutine
  works on it, no other does and its row is running or cancelled, so that its finaliser never loads a completed row.  The
  single-worker theorems rest on `OneWorkerInv`: while the one worker scans there is no coroutine, and a
  run that is interrupted or failed is in no coroutine that could execute it.
  `ImplementsManyWorkers` and `ImplementsOneWorker` prove both refinements of `RunLifecycle`.  Each step of a coroutine or a scan
  writes at most one row (`StepStatus`, `ScanStatus`); it is a `Change` while the run is held, and a `Release` when the
  coroutine ends.  The wide graph needs that a run that is held exists (`HeldRunsExist`); the narrow one also that no request is about
  to cancel an interrupted run and that the scan finds the rows as it selected them (`OneWorkerHolds`), which is what a
  second worker breaks.
* `Session_proofs`: the server's inductive invariant `RotationInv` says that tokens are numbered in the order
  of their issue, that a token on its way to the browser is its browser's alone (`AnswersAreFresh`) and is
  already stored when the call is done, unless withdrawn or spoiled, and that the cookie is stored, withdrawn, spoiled or being replaced.  Without freshness
  an overlapping rotation could delete the token another answer is about to set.
  `ImplementsRotation` (`Spec => Rotation!Spec`) maps every step of the composition to a step or a stutter of the
  server, so `CookieLive` carries over.  `HonestGate` is proved for one tab at a time: only a call that finds
  the gate closed starts a fetch, a slot is given out when it holds no refresh, and the answer, the loss or the
  reload that ends the fetch opens the gate and frees its waiters in the same step.  `TypeCorrect` needs that a call
  that waits was sent once.  The server alone is proved in the same module: `RotationTypeCorrect`, `RotationCookieLive`, `AnswersFresh`.
* `RetryExecutor_proofs`: `TypeCorrect`, `CountExact`, `NoOverlap`, `PermanentLast` and, against `BoundedRetry`,
  `ImplementsPromise`.  One invariant (`Coherent`) ties the loop variable, the count, the pool and the number of graphs
  begun to the phase of the coroutine: while it waits the attempt is either queued or runs, and the error before it was
  not permanent; when it decides, nothing is left in the pool.  Only a timed-out execution leaves a thread behind.
* `KnowledgeSync_proofs`: `TypeCorrect`, `PointsFollowRows` and `RepairsItsScope`.  The first invariant says that at most one request
  holds an item's lock (`LocksAreExclusive`), that an update without a text commits the text there is (`MetaKeepsText`), and that
  between upsert and commit the point is ahead of the row by just what is to be committed (`PointsAreAhead`); without the lock two updates
  could leave the loser's vector.  For the backfill `FillAlone` says that while the script is alone the rows are those it read, the items behind
  it have their vectors and, if the collection was emptied, nothing else has one; `DoneIsAlone` keeps that once it has ended, until
  somebody else is active.
* `Evaluation_proofs`: `TypeCorrect`, `CacheBacked` and `OnlyMishaps`.  A pending entry is made from the answer
  it will be committed with (`PendIsAnswer`), and an execution has no evaluation before that commit.  For
  `OnlyMishaps` the invariant follows the mishap through the session: two writers in the window between
  second look and commit have marked each other (`RivalsAreMarked`), so an INSERT that meets an entry is
  marked before it fails (`InsertsAreMarked`).

* `Scheduler_proofs`: `TypeCorrect`, `NoRunsAfterDelete`, `NamesUnique`, `UpdatesApart`, for any bodies of updates.  Whatever a
  look-up said before, each commit writes a name only while it is free (`FreeNameWritten`).  That a column changes only
  to what some update asked for needs that nobody works on an id under creation (`IdsAreFresh`): a creation must not be a second
  way to write a present row.
* `PipelineRun_proofs`: `TypeCorrect`, `DigestsAreOwn`, `CompletedIsWholeAlways`, `SentMeansSent`, `ChannelsIndependent`, all from
  one predicate of a graph (`Sound`): what an attempt wrote are exactly the channels before its next node, a text rests on a text,
  nothing was sent before the last node, and each chat is still to do, has the digest, or an error is noted.  The channels
  of a checkpoint are never among those an attempt wrote, so the invariant needs to know nothing about `saved` but its type.
* `Pages_proofs`, the chat: `TypeCorrect`, `OneVoiceHolds`, `DoneWhole`, `FilterHolds`, all from
  `IInv == ServerOK /\ PageOK /\ PageFollows /\ AnswersFit`.  That a message is told in one voice says nothing about the tokens on
  the wire, in React's queue and in the browser's reader, so `AnswersFit` follows the answer through all three: what the message
  shows, then what is queued, then what is on the wire are the pieces of one voice, in their order and without a gap (`Live`), and
  "done" has been preceded by all of them (`MayFinish`).  The update functions read the ref when React runs them, so `PageFollows`
  says that at most the first of the updates that wait has a ref of its own and that ref, controller and reader are the last question's;
  `PageStays` and `RenderFits` are what it takes that a late token lands nowhere else.  For the filter, what a branch has found
  has passed the filter it was asked with (`ResultsPass`), except for the rows that a widened ILIKE returns.
  `AgreementHolds` is about the arithmetic of the fusion: with `Common` divisible by every 60 + rank (`CommonDivisible`, by a product
  over the ranks), an item found by both branches outscores one found by a single branch (`AgreedFirst`).  This is so up to
  rank 49.  The theorem says `Limit <= 49`, where `schemas/search.py:14` allows 50 and `schemas/rag.py:14` 20: at
  50 an item that is last in both rankings has 18/110, less than the 10/61 of the best hit.
* `Pages_proofs`, the panel: `PanelTypeCorrect`, `ListNeverBack`.  `ReadsInOrder` says that no answer is ahead of the rows
  and that the list is not ahead of the answer the query awaits: a request becomes the awaited one before the server reads
  for it, and a cancelled one never counts.  Types need that a cancellation under way is one of a run (`CancelHasRun`).

The proofs use no assumption but those on the constants (`RunsAssumption`, `SessionAssumption`,
`ExecutorAssumption`, `KnowledgeAssumption`, `EvaluationAssumption`, `SchedulerAssumption`, `PipelineAssumption`, `PanelAssumption`,
`RegisteredAssumption`, `RetrievalAssumption` with its finitely many points and rows, `ServerAssumption`, `RagAssumption`), `"refresh" \in Endpoints` in
`Session_proofs`, `SingleWorker` and `Limit <= 49` where the theorem says so.

Only the seven liveness properties are model-checked and not proved (`EveryCoroutineEnds`, `EveryExecutionEnds`,
`EveryEvaluationEnds`, `EveryAnswerEnds`, `EveryRequestEnds`, `CardsFollow`, `SubmittedShows`): fairness is a statement about ENABLED,
which is beyond the prover.

## 6. Not modelled

Code that cannot run, found while reading it:

* *Stage callbacks and run events*: no caller passes the handler to a graph; no stage row is written.
* *Ingestion, article pipeline, worker jobs*: the connector's synchronous `parse` is awaited, the insert omits the NOT NULL
  `source_id`, the pipeline invokes asynchronous nodes synchronously, the jobs import names that do not exist.
* *MCP*: agents built by the runtime get no registry, so no run reaches a tool.
* `ops_nodes.py`, `knowledge_pipeline.py`, `daily_intelligence.py`, the pronunciation agent; `executor.py:89-139`,
  `retriever.py:108-138`, `_finalize_cancelled`.
* *Scheduled execution*: no job ever gets a trigger (section 7), so `_run_scheduled_job` and `update_last_run` are never called.
* The generator behind the event stream: no page can open it (section 7).

Code in which no ordering decides anything: articles, reports and tasks (one statement per request), users, audit, metrics,
configuration, schema, and the panels that render one list.

Left out of modelled parts: `SCHEDULER_ENABLED=false`, which keeps APScheduler from being made and `_register_with_scheduler` from raising; the row lock between an UPDATE and its commit in `AgentRuns` (no coroutine there touches shared state in between);
the expiry of refresh tokens and cookies (both seven days); the copy of the access token that
`auth-context.tsx` keeps; kind and tags in a point's payload in `KnowledgeSync` (`Retrieval` takes a stale payload as given); a commit whose
answer is lost; the wording of prompts; the back-off in `PipelineRun`; scores in the panel's list and its limit of 20 rows.
`PROJECT.json` gives the reason part by part.

## 7. Where code and documents differ

Shown by a run (quoted in `findings`):

* The outcome of a failed run is never committed (`agent_runtime_service.py:480`, run `runs_failure_lost`).
* `add_job` is passed a keyword that `CronTrigger` does not take (`services/scheduler/service.py:353`, run `sched_restart`): every registration
  raises.  A start-up that finds an enabled job logs it and serves without its APScheduler; a creation, or an update that enables a job
  or changes its cron expression, commits and is then answered with an error, and a client that repeats the creation is told that the name is taken.

Read while modelling, without a run of their own:

* Two resumes of a run both pass its check (`agent_runtime_service.py:731`); a resumed run starts at the first node again, since
  reading its checkpoint raises (`:782`), against the docstring at 699-702.
* One failed submission of a job breaks the session of all later ones of its worker (`main.py:136`); in the model `shared`.
* An evaluation without a score leaves its run unfinished (`agent_runtime_service.py:430`); with the default (empty) evaluation model
  every evaluation fails at `services/evaluation/service.py:125` and is dropped.
* A graph's errors are changes of a node's own copy of the state, so `state.errors` stays empty, and a run is "completed" although every node failed;
  the delivery status is computed and dropped (`agents/notification/agent.py:71-84`); an empty answer still sends a digest; a retry may send it again,
  and so does a timed-out thread after its run is final.
* The event stream needs a header that an EventSource cannot send, and is asked of the wrong server; each card polls.
  `stream_events` would announce a connection as the completion of a run, and reads with `session.get` on one session, which answers
  from the identity map (`agent_runtime_service.py:673`, `repositories/base_repository.py:26`): it would not see a run end.
* The panel shows no error of its list; stage dots are never "done".
* A failure to read the hits' rows leaves the gather (`rag/retriever.py:89`), against "isolated error handling"; the ILIKE filters are OR-ed with
  the query (`:239-248`), where they should restrict it; a failed full-text query leaves the transaction aborted for its fall-back (`:178-185`).
* The fall-back chain is never used, since no caller passes `_task` (`llm/router.py:239`); an error inside a stream is skipped and the
  cut answer ends as done (`:179-181` says it propagates).
* `/search` ignores `hybrid` and its weights; a hybrid score never reaches a threshold that a similarity would (at most about 0.03).
* A stopped message stays "streaming" (`RAGChat.tsx:58`), against `docs/proposals/phase-9.6-roadmap.md:194`.
* With Qdrant down the application does not start (`main.py:75`), where `routers/knowledge.py:157` promises the keyword search.
* A run reported as cancelled may be completed later: the request's service has tokens of its own and
  stops nothing (`agent_runtime_service.py:642-661`, `:455`); `cancelling` is never committed.
* The recovery updates by primary key, where `docs/proposals/phase-10.1-plan.md:248` asks for a conditional update.
* A run of a scheduled job has no user, so nobody may cancel it and its job's history is empty
  (`routers/scheduler.py:163-168`).
* `_notify_scheduler_of_completion` (`:526`) uses `select` without importing it; the `NameError` is swallowed.
* `_finalize_completed` drops the retry count and the timeout path passes 0 (`:455`, `:350`).
* A resumed run is evaluated again and `get_by_run_id` then finds two rows (`services/evaluation/repository.py:33`).
* An update of a job that asks for the value it loaded writes nothing (`services/scheduler/service.py:166-178`): if another update changed the
  column meanwhile, it is answered with a value the table does not have.
* A finaliser that loaded a completed row leaves the status out of its UPDATE (`repositories/base_repository.py:58-67`): between two overlapping resumes
  it stamps `finished_at` on a run that runs again.
* A passing failure of a refresh clears the token (`api.ts:80`), against `token-manager.ts:52`.
* Rotation revokes before it stores, and the new token has still to arrive (`refresh_token_store.py:86-89`): a fault in between signs the
  user out.  `CookieIsLive` says that no other fault does, but for a login whose token was not stored (`routers/auth.py:88-93`).
* `/auth/refresh` and `/auth/logout` pass a JSON *string* to `JSONResponse` (`routers/auth.py:300-306`), so the body is a string literal
  and the client finds no `access_token`; `authToken` shadows the refreshed token (`api.ts:29`, against the
  comment at 78); the comment at `routers/auth.py:162` announces a new token that is not issued.
* `_sync_embedding` names an undefined `item_id` in its handler (`knowledge_service.py:134`): a failed embedding is
  not logged and passed over but rolls the request back, although the point may be written.
* The backfill commits its marker before the upsert (`backfill_embeddings.py:103`); one row deleted meanwhile
  breaks its session for all later items, and `--force` has emptied the collection by then; what it upserts are the texts it read at
  its start.  If the deletion of the collection fails, that is logged and the old points stay (`:59-63`).
* The backfill embeds title and text (`backfill_embeddings.py:95`), the API the text alone and only if an update has one
  (`knowledge_service.py:80-83`, `:116`): after a backfill an update of the title leaves a vector of the old one, and the vectors of one
  collection are not made of the same parts.
* A submission answered while the very first list request is under way, which has read too early, is not shown: `invalidateQueries`
  (`useAgentRuns.ts:42-44`) does not cancel a request while there is no data, and its answer counts as fresh.  The run appears with the next refresh.
* Two evaluations of one content in the window of the cache write strand a run as a missing score does
  (`evaluation/repository.py:62-80`); so do notes longer than the 1024 characters of migration 0012.
* `_is_cache_fresh` compares with a day whatever `evaluation_cache_ttl` says, and the update of an old entry leaves
  `evaluated_at` alone, so a content is never served from the cache again after its first day.
* croniter accepts six fields, `_parse_cron` raises on them (`services/scheduler/service.py:380`).
* `auth-context.tsx` uses `setAuthToken` and `unwrapSingle` without importing them; its logout calls no endpoint.

----------------------------- MODULE PipelineRun -----------------------------
(***************************************************************************)
(* One agent run and the graphs begun for it: _execute_run's executions     *)
(* (the submission and later resumes), the attempts RetryExecutor makes of  *)
(* each, the nodes of an attempt one after the other, the channels LangGraph *)
(* persists under the run's thread_id, and the digest the last node sends.  *)
(*                                                                         *)
(* Every attempt hands the graph the run's input again, so LangGraph starts *)
(* at START; but it also loads the thread's last checkpoint, so channels of *)
(* an earlier attempt, execution or process are there until a node writes   *)
(* them.  Two resumes may pass their guard together and then share the      *)
(* thread_id, and a graph that timed out cannot be stopped.                 *)
(*                                                                         *)
(* AgentRuns has the life of the row, RetryExecutor the thread pool; both   *)
(* are reduced here to what decides when a graph begins and is dropped.     *)
(***************************************************************************)
EXTENDS IntelligenceGraph, FiniteSets

CONSTANTS Execs,        \* executions of the run: the submission and resumes
          First,        \* the submission
          MaxAttempts,  \* max_attempts of RetryExecutor
          Chats,        \* telegram_chat_ids
          Unsure,       \* bound: nodes whose agent need not answer with a text
          Credentials,  \* bound: sets of channels whose credentials are configured
          None

ASSUME PipelineAssumption == /\ First \in Execs
                             /\ MaxAttempts \in Nat \ {0}
                             /\ Unsure \subseteq Nodes
                             /\ Credentials \subseteq SUBSET {"telegram", "email"}

VARIABLES pipeline, \* which graph the run's type names
          enabled,  \* requested channels whose credentials are configured
          row,      \* the run's committed status
          saved,    \* the channels of the thread's last checkpoint, or None
          awaited,  \* executions whose coroutine still waits for the result
          unsaved,  \* executions whose last step is not in the checkpoint yet
          g         \* g[e]: the execution's thread and its graph

vars == <<pipeline, enabled, row, saved, awaited, unsaved, g>>

-----------------------------------------------------------------------------
\* The channels before any node has run, and what a checkpoint gives back.
Fresh == [i \in Nodes |-> "unset"]

Loaded == IF saved = None THEN Fresh ELSE saved

\* The channels the last node asks for that exist; Slack exists but is not asked for.
Requested == {"telegram", "email"}

Live == {"begin", "node", "chats"}

(* A graph: where its thread stands, the attempt, the next node, the        *)
(* channels as the attempt sees them, those it has written itself, and      *)
(* send_notifications: the chats still to be posted to,                     *)
(* whether one refused, the map it returns, the chats the digest reached.   *)
Graph == [at : Live \cup {"idle", "resuming", "completed", "ended"},
          n : 1..MaxAttempts, pc : 1..7, vals : [Nodes -> Kinds], own : SUBSET Nodes,
          todo : SUBSET Chats, errors : BOOLEAN,
          status : [Requested -> {"none", "sent", "failed"}],
          reached : SUBSET Chats]

NoGraph(p) == [at |-> p, n |-> 1, pc |-> 1, vals |-> Fresh, own |-> {}, todo |-> {},
               errors |-> FALSE, status |-> [c \in Requested |-> "none"], reached |-> {}]

Init == /\ pipeline \in {"intelligence", "autonomous"}
        /\ enabled \in Credentials
        /\ row = "running"
        /\ saved = None
        /\ awaited = {First}
        /\ unsaved = {}
        /\ g = [e \in Execs |-> NoGraph(IF e = First THEN "begin" ELSE "idle")]

-----------------------------------------------------------------------------
(* The attempt's result, and RetryExecutor's answer to a failed one *)

AttemptsRemain(e) == g[e].n < MaxAttempts

(* The graph raised: in the factory, when the checkpoint is loaded, or when *)
(* a step is saved.  A transient error is retried (the back-off is skipped  *)
(* here), any other ends the execution; nobody hears of it after a timeout. *)
Raise(e) ==
    /\ unsaved' = unsaved \ {e}
    /\ \/ /\ e \in awaited
          /\ AttemptsRemain(e)
          /\ g' = [g EXCEPT ![e] = [NoGraph("begin") EXCEPT !.n = g[e].n + 1]]
          /\ UNCHANGED awaited
       \/ /\ g' = [g EXCEPT ![e] = NoGraph("ended")]
          /\ awaited' = awaited \ {e}

(* The factory compiles a new graph with new agents; LangGraph loads the    *)
(* thread's channels, applies the input and starts at START.                *)
BeginWhereSaved(e) ==
    /\ g[e].at = "begin"
    /\ \/ /\ g' = [g EXCEPT ![e].at = "node",
                            ![e].vals = Loaded,
                            ![e].pc = 1 + Cardinality({i \in 1..LastNode(pipeline) - 1 :
                                                         Loaded[i] # "unset"})]
          /\ UNCHANGED <<awaited, unsaved>>
       \/ Raise(e)
    /\ UNCHANGED <<pipeline, enabled, row, saved>>

Begin(e) ==
    /\ g[e].at = "begin"
    /\ \/ /\ g' = [g EXCEPT ![e].at = "node",
                            ![e].vals = Loaded]
          /\ UNCHANGED <<awaited, unsaved>>
       \/ Raise(e)
    /\ UNCHANGED <<pipeline, enabled, row, saved>>

-----------------------------------------------------------------------------
(* The steps of a graph *)

NothingOnError(graph, kind) ==
    IF kind = "error" THEN graph
    ELSE [graph EXCEPT !.vals[graph.pc] = kind, !.own = @ \cup {graph.pc}]

\* A node's update always holds its channel: the agent's output, None, or the error.
Update(graph, kind) == [graph EXCEPT !.vals[graph.pc] = kind, !.own = @ \cup {graph.pc}]

\* The step of node pc is over: its update is applied and streamed.
Stepped(graph, kind) == [Update(graph, kind) EXCEPT !.at = "node", !.pc = @ + 1]

(* A node runs: its agent answers or fails, or the node has nothing to work *)
(* on.  (add_error changes the node's own copy of the state only.)          *)
RunNode(e) ==
    /\ g[e].at = "node"
    /\ g[e].pc \in 1..LastNode(pipeline)
    /\ \E kind \in Results(g[e].pc, g[e].vals) :
          /\ g[e].pc = notification => kind # "text"
          /\ g[e].pc \in Unsure \/ kind \in {"text", "error"}
          /\ g' = [g EXCEPT ![e] = Stepped(g[e], kind)]
    /\ unsaved' = unsaved \cup {e}
    /\ UNCHANGED <<pipeline, enabled, row, saved, awaited>>

\* TelegramChannel.send begins, unless the channel is off; it needs a chat.
ToTelegram(graph) == [graph EXCEPT !.at = "chats",
                                   !.todo = IF "telegram" \in enabled THEN Chats ELSE {},
                                   !.errors = Chats = {}]

\* What EmailChannel.send may report.
Mailed(graph) == IF "email" \notin enabled THEN {graph}
                 ELSE {[graph EXCEPT !.status["email"] = s] : s \in {"sent", "failed"}}

SendEmailOnly(e) ==
    /\ g[e].at = "node"
    /\ g[e].pc = notification
    /\ LastNode(pipeline) = notification
    /\ \E graph \in Mailed(g[e]) :
          g' = [g EXCEPT ![e] = IF graph.status["email"] = "failed"
                                THEN Stepped(graph, "text") ELSE ToTelegram(graph)]
    /\ UNCHANGED <<pipeline, enabled, row, saved, awaited, unsaved>>

(* The notification agent has its markdown and dispatches it; the channels  *)
(* are tried in the order of the registry.                                  *)
SendEmail(e) ==
    /\ g[e].at = "node"
    /\ g[e].pc = notification
    /\ LastNode(pipeline) = notification
    /\ \E graph \in Mailed(g[e]) : g' = [g EXCEPT ![e] = ToTelegram(graph)]
    /\ UNCHANGED <<pipeline, enabled, row, saved, awaited, unsaved>>

\* One chat answers 200, or with an error that is noted.
LastChatDecides(e, c) ==
    \/ g' = [g EXCEPT ![e].todo = @ \ {c}, ![e].errors = FALSE, ![e].reached = @ \cup {c}]
    \/ g' = [g EXCEPT ![e].todo = @ \ {c}, ![e].errors = TRUE]

ChatAnswers(e, c) ==
    \/ g' = [g EXCEPT ![e].todo = @ \ {c}, ![e].reached = @ \cup {c}]
    \/ g' = [g EXCEPT ![e].todo = @ \ {c}, ![e].errors = TRUE]

(* The chats one after the other.  A transport error ends the loop; the     *)
(* chat may have the message all the same.                                  *)
PostChat(e) ==
    /\ g[e].at = "chats"
    /\ \E c \in g[e].todo :
          \/ ChatAnswers(e, c)
          \/ \E r \in SUBSET {c} :
                g' = [g EXCEPT ![e].todo = {}, ![e].errors = TRUE, ![e].reached = @ \cup r]
    /\ UNCHANGED <<pipeline, enabled, row, saved, awaited, unsaved>>

(* send_notifications returns its map; the agent answers without it.        *)
Notified(e) ==
    /\ g[e].at = "chats"
    /\ g[e].todo = {}
    /\ LET s == IF "telegram" \notin enabled THEN "none"
                ELSE IF g[e].errors THEN "failed" ELSE "sent"
       IN  g' = [g EXCEPT ![e] = Stepped([@ EXCEPT !.status["telegram"] = s], "text")]
    /\ unsaved' = unsaved \cup {e}
    /\ UNCHANGED <<pipeline, enabled, row, saved, awaited>>

(* LangGraph saves the thread after each step, behind the next one.         *)
Save(e) ==
    /\ e \in unsaved
    /\ saved' = g[e].vals
    /\ unsaved' = unsaved \ {e}
    /\ UNCHANGED <<pipeline, enabled, row, awaited, g>>

SaveFails(e) ==
    /\ e \in unsaved
    /\ g[e].at = "node"
    /\ Raise(e)
    /\ UNCHANGED <<pipeline, enabled, row, saved>>

(* END: the chunks become the output, and the run is finalised, unless the  *)
(* execution was given up.                                                  *)
Finish(e) ==
    /\ g[e].at = "node"
    /\ g[e].pc > LastNode(pipeline)
    /\ e \notin unsaved
    /\ \/ /\ e \in awaited
          /\ g' = [g EXCEPT ![e].at = "completed"]
          /\ row' = "completed"
       \/ /\ e \notin awaited
          /\ g' = [g EXCEPT ![e] = NoGraph("ended")]
          /\ UNCHANGED row
    /\ awaited' = awaited \ {e}
    /\ UNCHANGED <<pipeline, enabled, saved, unsaved>>

-----------------------------------------------------------------------------
(* Timeouts, crashes, resumes *)

(* wait_for gives up; the thread goes on.                                   *)
TimeLimit(e) ==
    /\ e \in awaited
    /\ awaited' = awaited \ {e}
    /\ g' = IF g[e].at = "begin" THEN [g EXCEPT ![e] = NoGraph("ended")] ELSE g
    /\ UNCHANGED <<pipeline, enabled, row, saved, unsaved>>

(* The process dies with all its threads.                                   *)
Crash ==
    /\ \E e \in Execs : g[e].at \in Live
    /\ g' = [e \in Execs |-> IF g[e].at \in Live THEN NoGraph("ended") ELSE g[e]]
    /\ awaited' = {}
    /\ unsaved' = {}
    /\ UNCHANGED <<pipeline, enabled, row, saved>>

(* A day later a worker starts and finds the run "running" with a           *)
(* checkpoint: a timeout and a failure are not committed.                   *)
Recover ==
    /\ row = "running"
    /\ awaited = {}
    /\ saved # None
    /\ row' = "interrupted"
    /\ UNCHANGED <<pipeline, enabled, saved, awaited, unsaved, g>>

(* resume(): its guard reads the row, its write comes later; then a new     *)
(* execution begins with the original input, since reading the checkpoint   *)
(* raises (aget returns a plain dictionary).                                *)
ResumeCheck(e) ==
    /\ g[e].at = "idle"
    /\ row = "interrupted"
    /\ g' = [g EXCEPT ![e].at = "resuming"]
    /\ UNCHANGED <<pipeline, enabled, row, saved, awaited, unsaved>>

Resume(e) ==
    /\ g[e].at = "resuming"
    /\ row' = "running"
    /\ g' = [g EXCEPT ![e].at = "begin"]
    /\ awaited' = awaited \cup {e}
    /\ UNCHANGED <<pipeline, enabled, saved, unsaved>>

-----------------------------------------------------------------------------
Step(e) == \/ Begin(e) \/ RunNode(e) \/ SendEmail(e) \/ PostChat(e) \/ Notified(e)
           \/ Save(e) \/ SaveFails(e) \/ Finish(e)
           \/ TimeLimit(e) \/ ResumeCheck(e) \/ Resume(e)

Next == Crash \/ Recover \/ \E e \in Execs : Step(e)

Spec == Init /\ [][Next]_vars
-----------------------------------------------------------------------------
(* Properties *)

\* The types; n stays within the attempts that _execute_run allows.
TypeOK == /\ pipeline \in {"intelligence", "autonomous"}
          /\ enabled \subseteq Requested
          /\ row \in {"running", "interrupted", "completed"}
          /\ saved \in [Nodes -> Kinds] \cup {None}
          /\ awaited \subseteq Execs
          /\ unsaved \subseteq Execs
          /\ g \in [Execs -> Graph]

(* A digest never mixes attempts: although the thread's channels survive    *)
(* failures, restarts and resumes, and two executions may share them, all   *)
(* that a digest lists was found by the attempt that sends it.              *)
DigestIsOwn == \A e \in Execs : g[e].at = "chats" =>
    \A i \in DigestSources : Listed(g[e].vals[i]) => i \in g[e].own

(* A completed execution has the result of every node of its graph, each    *)
(* written by the attempt that completed, and no node made something out of *)
(* nothing: a result rests on a text of the node before it.                 *)
CompletedIsWhole == \A e \in Execs : g[e].at = "completed" =>
    /\ g[e].own = 1..LastNode(pipeline)
    /\ \A i \in g[e].own : g[e].vals[i] = "text" => HasWork(i, g[e].vals)

(* "sent" means sent: when Telegram is reported as sent, each of its chats  *)
(* has the digest of that very attempt, whatever failed before.             *)
SentIsSent == \A e \in Execs : g[e].status["telegram"] = "sent" => Chats \subseteq g[e].reached

(* Channels do not depend on each other: when the digest is done, every     *)
(* requested channel that is enabled has been tried, whatever became of the *)
(* others.                                                                  *)
ChannelsAreIndependent == \A e \in Execs :
    notification \in g[e].own /\ g[e].vals[notification] = "text" =>
        \A c \in Requested : g[e].status[c] # "none" <=> c \in enabled
=============================================================================

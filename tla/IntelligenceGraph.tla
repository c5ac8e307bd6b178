-------------------------- MODULE IntelligenceGraph --------------------------
(***************************************************************************)
(* What the nodes of the two LangGraph pipelines compute (workflows/graph/  *)
(* nodes, autonomous_nodes; agents/).  Every node wraps one agent, reads    *)
(* results of earlier nodes and always writes the one channel named after   *)
(* it; nodes and channels are therefore one and are numbered in the order   *)
(* of the edges START -> 1 -> 2 -> ... -> END.                              *)
(*                                                                         *)
(* Agents built by the runtime have no MCP registry, so no node calls a     *)
(* tool; an agent is one LLM call, which AgentBase.execute protects: an     *)
(* exception becomes the output None.                                       *)
(***************************************************************************)
EXTENDS Naturals

research == 1
analyst == 2
translator == 3
knowledge == 4
project_manager == 5
notification == 6

IntelligenceNodes == research..translator

AutonomousNodes == research..notification

Nodes == IntelligenceNodes \cup AutonomousNodes

\* PIPELINE_REGISTRY: the graph of a pipeline ends with its last node.
LastNode(pipeline) == IF pipeline = "intelligence" THEN translator ELSE notification

\* A channel before its node has written it, an agent that raised, a node that had
\* nothing to work on, an answer without text, an answer.
Kinds == {"unset", "null", "error", "empty", "text"}

(* Which result a node works on. *)
Upstream(n) == IF n = analyst THEN research
               ELSE IF n = project_manager THEN knowledge ELSE analyst

\* No upstream text (None, an error, an empty answer) makes the node raise.
HasWork(n, kinds) == n \in {research, notification} \/ kinds[Upstream(n)] = "text"

(* The agents: a prompt made of the input, one LLM call, and what is made   *)
(* of its text.  Each returns at once from the step that would use a tool   *)
(* (browser.search, notion.create_page, asana.create_task): no registry.    *)
LLMTexts == {"empty", "text"}

ResearchReplies == LLMTexts

(* An empty answer of the analyst or the translator is nothing to work on,   *)
(* as None is, and is not told apart from it.                               *)
AnalystReplies == LLMTexts \ {"empty"}

TranslatorReplies == LLMTexts \ {"empty"}

\* The summary, and the page with it, is made up from the title when the text has none.
Entry(text) == "text"

KnowledgeReplies == {Entry(text) : text \in LLMTexts}

\* One task per line: an empty plan is a plan.
Plan(text) == "text"

PlanReplies == {Plan(text) : text \in LLMTexts}

\* A digest without a text is sent all the same.
DigestReplies == {"text"}

Replies == <<ResearchReplies, AnalystReplies, TranslatorReplies,
             KnowledgeReplies, PlanReplies, DigestReplies>>

\* AgentBase.execute: an exception is an output of None.
Executed(replies) == replies \cup {"null"}

Results(n, kinds) == IF HasWork(n, kinds) THEN Executed(Replies[n]) ELSE {"error"}

\* The results the digest lists: anything but None, an error included.
DigestSources == {research, knowledge, project_manager}

Listed(kind) == kind \notin {"unset", "null"}
=============================================================================

----------------------------- MODULE AnswerServer -----------------------------
(***************************************************************************)
(* The search and answer endpoints of routers/knowledge.py with the         *)
(* generator (services/rag/generator.py) and LLMRouter.stream: a request    *)
(* retrieves its context and answers with it, or has a provider answer from *)
(* it, at once or token by token.                                           *)
(***************************************************************************)
EXTENDS Retrieval

CONSTANTS Questions, \* requests, numbered as they come; one retrieval at a time
          MaxText \* pieces of text a provider may stream

ASSUME ServerAssumption == Questions \subseteq Nat /\ 1 \in Questions /\ MaxText \in Nat

VARIABLES latest,  \* the request the variables of Retrieval are about
          op,      \* op[q]: the endpoint called
          phase,   \* phase[q]: how far its handler is
          context, \* context[q]: what retrieve returned
          told,    \* told[q]: tokens the router yielded
          wire     \* wire[q]: events sent and not yet read

serverVars == <<retrievalVars, latest, op, phase, context, told, wire>>

Ops == {"search", "rag", "stream"}

-----------------------------------------------------------------------------
Token(i) == [type |-> "token", part |-> i]
Whole == Token(0) \* the text of a chat, as one token
Done == [type |-> "done", part |-> 0]
Error == [type |-> "error", part |-> 0]
Events == {Done, Error} \cup {Token(i) : i \in 0..MaxText}

\* The generator names a bare model and no task.
Primary == Resolve(NoTask, "bare")
PassedTask == NoTask

\* An answer that streams fails at once if its provider is not registered.
Start(o) == CASE o = "rag" -> "chatting"
              [] o = "stream" /\ Primary \in Registered -> "streaming"
              [] o = "stream" /\ Primary \notin Registered -> "failing"

InitServer ==
    /\ InitRetrieval
    /\ latest = 1
    /\ op = [q \in Questions |-> "stream"]
    /\ phase = [q \in Questions |-> "idle"]
    /\ context = [q \in Questions |-> <<>>]
    /\ told = [q \in Questions |-> 0]
    /\ wire = [q \in Questions |-> <<>>]

Goto(q, p) == phase' = [phase EXCEPT ![q] = p]
Sends(q, events) == wire' = [wire EXCEPT ![q] = @ \o events]

Ask(q, o, kind) ==
    /\ phase[q] = "idle" /\ \A r \in Questions : r < q => phase[r] # "idle"
    /\ Goto(q, "retrieving")
    /\ op' = [op EXCEPT ![q] = o]
    /\ latest' = q
    /\ Retrieve(kind)
    /\ UNCHANGED <<context, told, wire>>

Branch(q) ==
    /\ phase[q] = "retrieving" /\ q = latest
    /\ \E up \in SUBSET Registered : Branches(up)
    /\ UNCHANGED <<latest, op, phase, context, told, wire>>

(* Both branches have returned: a search is answered with the results, and  *)
(* so is a question without context, with a text or with a lone "done".     *)
Gathered(q) ==
    /\ phase[q] = "retrieving" /\ q = latest
    /\ Retrieved
    /\ \E r \in Results(IF op[q] = "search" THEN Threshold ELSE 0) :
          /\ context' = [context EXCEPT ![q] = r]
          /\ Goto(q, IF op[q] = "search" \/ r = <<>> THEN "answered" ELSE Start(op[q]))
          /\ Sends(q, IF op[q] = "stream" /\ r = <<>> THEN <<Done>> ELSE <<>>)
    /\ Returns
    /\ UNCHANGED <<latest, op, told>>

(* The exception of a branch is the answer of the request: a 500.           *)
GatherRaises(q) ==
    /\ phase[q] = "retrieving" /\ q = latest
    /\ Raised
    /\ Goto(q, "refused")
    /\ Returns
    /\ UNCHANGED <<latest, op, context, told, wire>>

\* generate: a chat without text is an answer, an empty one.
Generates(up) == RouterChat(NoTask, "bare", PassedTask, up)

\* rag_question_answering: a chat that fails is an answer with success = False.
Chat(q) ==
    /\ phase[q] = "chatting"
    /\ \E up \in SUBSET Registered : \E outcome \in Generates(up) :
          Goto(q, IF outcome = "raise" THEN "unanswered" ELSE "answered")
    /\ UNCHANGED <<retrievalVars, latest, op, context, told, wire>>

-----------------------------------------------------------------------------
(* LLMRouter.stream and generate_stream *)

Yields(q) ==
    /\ phase[q] = "streaming"
    /\ told[q] < MaxText
    /\ Streams(Primary, "text") = "token"
    /\ told' = [told EXCEPT ![q] = @ + 1]
    /\ Sends(q, <<Token(told[q] + 1)>>)
    /\ UNCHANGED <<retrievalVars, latest, op, phase, context>>

StreamEnds(q) ==
    /\ phase[q] = "streaming"
    /\ \E e \in StreamEvents : Streams(Primary, e) = "end"
    /\ Goto(q, "answered")
    /\ Sends(q, <<Done>>)
    /\ UNCHANGED <<retrievalVars, latest, op, context, told>>

MayAlways(q) == TRUE

\* A stream that raises is replaced by a chat only if it yielded nothing.
MayFallBack(q) == told[q] = 0

(* The connection of the stream fails, or its provider raises on an event.  *)
StreamRaises(q) ==
    /\ phase[q] = "streaming"
    /\ IF MayFallBack(q)
       THEN Goto(q, "falling") /\ Sends(q, <<>>)
       ELSE Goto(q, "unanswered") /\ Sends(q, <<Error, Done>>)
    /\ UNCHANGED <<retrievalVars, latest, op, context, told>>

\* A chat without text yields no token.
FallBack(q) ==
    /\ phase[q] = "falling"
    /\ \E up \in SUBSET Registered : \E outcome \in ChatOutcomes(PassedTask, Primary, up) :
          /\ Goto(q, IF outcome = "raise" THEN "unanswered" ELSE "answered")
          /\ Sends(q, CASE outcome = "text" -> <<Whole, Done>>
                        [] outcome = "empty" -> <<Done>>
                        [] outcome = "raise" -> <<Error, Done>>)
    /\ UNCHANGED <<retrievalVars, latest, op, context, told>>

\* The provider of the bare model is not registered.
Fails(q) ==
    /\ phase[q] = "failing"
    /\ Goto(q, "unanswered")
    /\ Sends(q, <<Error, Done>>)
    /\ UNCHANGED <<retrievalVars, latest, op, context, told>>

Serve(q) ==
    \/ Branch(q) \/ Gathered(q) \/ GatherRaises(q) \/ Chat(q)
    \/ Yields(q) \/ StreamEnds(q) \/ StreamRaises(q) \/ FallBack(q) \/ Fails(q)

(* The connection to the browser is lost: what was not read is gone.        *)
Loses(q) ==
    /\ phase[q] \notin {"idle", "lost"} /\ op[q] = "stream"
    /\ Goto(q, "lost")
    /\ wire' = [wire EXCEPT ![q] = <<>>]
    /\ UNCHANGED <<retrievalVars, latest, op, context, told>>

-----------------------------------------------------------------------------
Over(q) == phase[q] \in {"answered", "unanswered"}

TypeOKServer ==
    /\ TypeOKRetrieval
    /\ latest \in Questions /\ op \in [Questions -> Ops]
    /\ phase \in [Questions -> {"idle", "retrieving", "chatting", "streaming", "falling", "failing",
                                "answered", "unanswered", "refused", "lost"}]
    /\ told \in [Questions -> 0..MaxText]
    /\ \A q \in Questions : ToSet(context[q]) \subseteq Rows /\ ToSet(wire[q]) \subseteq Events
=============================================================================

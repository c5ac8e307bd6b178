------------------------------ MODULE LLMRouter ------------------------------
(***************************************************************************)
(* Which provider answers a call of the language model, and what each       *)
(* provider makes of the pieces its stream delivers: services/llm.  Names   *)
(* of models are left out: a route is the name of a provider.               *)
(***************************************************************************)
EXTENDS Naturals, Sequences, SequencesExt

CONSTANTS Registered, \* the providers whose key or address is configured
          NoTask, NoModel

Providers == {"openai", "anthropic", "ollama", "compatible", "litellm"}

ASSUME RegisteredAssumption == Registered \subseteq Providers

-----------------------------------------------------------------------------
(* Routes *)

\* The routing section of config/models.yaml.
Rules == [summary     |-> <<"openai", "anthropic">>,
          translation |-> <<"compatible", "openai">>,
          research    |-> <<"openai", "anthropic">>,
          analysis    |-> <<"anthropic", "openai">>,
          local       |-> <<"ollama", "compatible">>,
          embedding   |-> <<"ollama", "openai">>,
          evaluation  |-> <<"compatible", "openai", "openai">>]

Default == "openai"

(* An explicit model is its prefix before "/", or "bare" without one.  An   *)
(* unknown prefix and a bare name go to the default provider, registered or *)
(* not; a task goes to its first registered provider.                       *)
Resolve(task, model) ==
    LET listed == IF task \in DOMAIN Rules
                  THEN SelectSeq(Rules[task], LAMBDA p : p \in Registered)
                  ELSE <<>>
    IN  CASE model \in Registered -> model
          [] model = NoModel /\ listed # <<>> -> Head(listed)
          [] OTHER -> Default

(* The providers a chat may fall back to.  passed is the _task keyword of   *)
(* the call, which no caller of chat or stream supplies.                    *)
FallbackChain(passed, primary) ==
    IF passed \notin DOMAIN Rules THEN <<>>
    ELSE SelectSeq(Rules[passed], LAMBDA p : p # primary /\ p \in Registered)

-----------------------------------------------------------------------------
(* Providers *)

\* What the body of a streamed answer is made of: a piece of text, a role or
\* ping without text, an error the service reports inside the stream, an event
\* that is no JSON, a chunk with no choices, the closing [DONE], and its end.
StreamEvents == {"text", "blank", "error", "garbled", "empty", "stop", "eof"}

\* Raises before anything is sent: "async for" over what is no generator.
OllamaStream(e) == "raise"
CompatibleStream(e) == "raise"

OpenAIStream(e) ==
    CASE e = "text" -> "token"
      [] e \in {"blank", "error"} -> "skip"
      [] e \in {"garbled", "empty"} -> "raise"
      [] e \in {"stop", "eof"} -> "end"

AnthropicStream(e) ==
    CASE e = "text" -> "token"
      [] e \in {"blank", "error", "garbled", "empty", "stop"} -> "skip"
      [] e = "eof" -> "end"

LiteLLMStream(e) ==
    CASE e = "text" -> "token"
      [] e \in {"blank", "error", "garbled", "empty", "stop"} -> "skip"
      [] e = "eof" -> "end"

\* What provider p does with event e of its stream.
Streams(p, e) == CASE p = "openai" -> OpenAIStream(e)
                   [] p = "anthropic" -> AnthropicStream(e)
                   [] p = "litellm" -> LiteLLMStream(e)
                   [] p = "ollama" -> OllamaStream(e)
                   [] p = "compatible" -> CompatibleStream(e)

-----------------------------------------------------------------------------
(* Chats *)

\* What the body of a chat's reply holds: a text; an empty one; no choice or
\* block at all, which an error under status 200 comes to; a choice without a
\* message, a block without a type; or no JSON.
Replies == {"text", "blank", "nothing", "malformed", "garbled"}

\* The first choice is indexed and trusted to have a message.
OpenAIChat(r) == CASE r = "text" -> "text"
                   [] r \in {"blank", "nothing"} -> "empty"
                   [] r \in {"malformed", "garbled"} -> "raise"

\* Blocks are joined; one that is not known to be a text is left out.
AnthropicChat(r) == CASE r = "text" -> "text"
                      [] r \in {"blank", "nothing", "malformed"} -> "empty"
                      [] r = "garbled" -> "raise"

LiteLLMChat(r) == OpenAIChat(r)
CompatibleChat(r) == OpenAIChat(r)
OllamaChat(r) == OpenAIChat(r)

\* What provider p makes of reply r.
Chats(p, r) == CASE p = "openai" -> OpenAIChat(r)
                 [] p = "anthropic" -> AnthropicChat(r)
                 [] p = "litellm" -> LiteLLMChat(r)
                 [] p = "ollama" -> OllamaChat(r)
                 [] p = "compatible" -> CompatibleChat(r)

\* A provider that is down, or answers with an error status, raises.
Served(p, up) == IF p \in up THEN {Chats(p, r) : r \in Replies} ELSE {"raise"}

(* The primary provider and then the chain, until one does not raise: an    *)
(* empty answer is an answer.  If all raise, so does the chat.              *)
ChatOutcomes(passed, primary, up) ==
    LET tried == <<primary>> \o FallbackChain(passed, primary)
        MayReach(i) == \A j \in 1..(i - 1) : "raise" \in Served(tried[j], up)
    IN  UNION {Served(tried[i], up) \ (IF i < Len(tried) THEN {"raise"} ELSE {}) :
                   i \in {n \in DOMAIN tried : MayReach(n)}}

\* A route may name a provider that is not registered: that is an error.
RouterChat(task, model, passed, up) ==
    LET p == Resolve(task, model) IN
    IF p \in Registered THEN ChatOutcomes(passed, p, up) ELSE {"raise"}

-----------------------------------------------------------------------------
(* Embeddings *)

\* What the reply to an embedding holds: a vector; no entry; an entry without
\* its vector; or no JSON.
EmbedReplies == {"vector", "nothing", "malformed", "garbled"}

OpenAIEmbedding(r) == CASE r = "vector" -> "vector"
                        [] r = "nothing" -> "empty"
                        [] r \in {"malformed", "garbled"} -> "raise"

LiteLLMEmbedding(r) == OpenAIEmbedding(r)
CompatibleEmbedding(r) == OpenAIEmbedding(r)

\* The entries are the vectors, taken as they are.
OllamaEmbedding(r) == CASE r = "vector" -> "vector"
                        [] r \in {"nothing", "malformed"} -> "empty"
                        [] r = "garbled" -> "raise"

AnthropicEmbedding(r) == "raise"

Embeds(p, r) == CASE p = "openai" -> OpenAIEmbedding(r)
                  [] p = "anthropic" -> AnthropicEmbedding(r)
                  [] p = "litellm" -> LiteLLMEmbedding(r)
                  [] p = "ollama" -> OllamaEmbedding(r)
                  [] p = "compatible" -> CompatibleEmbedding(r)

\* LLMRouter.embedding: one provider, and no chain.
RouterEmbedding(up) ==
    LET p == Resolve("embedding", NoModel) IN
    IF p \in Registered /\ p \in up THEN {Embeds(p, r) : r \in EmbedReplies} ELSE {"raise"}

\* The first vector is taken, or the empty vector where there is none.
GatewayEmbed(up) == RouterEmbedding(up)

\* EmbeddingClient.embed counts the call and passes on what it gave or raised.
EmbedOutcomes(up) == GatewayEmbed(up)
=============================================================================

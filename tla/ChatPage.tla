------------------------------- MODULE ChatPage -------------------------------
(***************************************************************************)
(* The chat of the knowledge page: components/panels/RAGChat.tsx and        *)
(* useRAGStream in hooks/useKnowledge.ts.                                   *)
(*                                                                         *)
(* A callback changes messages through an update function that reads        *)
(* assistantMsgIdRef when it runs.  React runs it with the next rendering;  *)
(* only the first update of a component without pending ones may be         *)
(* computed at once.  An event handler of the page is rendered before the   *)
(* next one runs.                                                           *)
(***************************************************************************)
EXTENDS Naturals, Sequences

CONSTANTS Questions, None, Later

VARIABLES msgs,      \* msgs[q]: the assistant's message for question q
          ref,       \* assistantMsgIdRef
          ctl,       \* abortRef: the question of the controller it holds
          aborted,   \* questions whose controller was aborted
          reading,   \* questions whose fetch is under way
          shown,     \* isStreaming, as rendered
          pending    \* updates that wait for the next rendering

pageVars == <<msgs, ref, ctl, aborted, reading, shown, pending>>

-----------------------------------------------------------------------------
NoMessage == [status |-> "none", text |-> <<>>, sources |-> <<>>]

Fresh == [NoMessage EXCEPT !.status = "streaming"]

\* An update function: what it does, with what, and the ref it has read, if it ran.
Update(kind, arg, at) == [kind |-> kind, arg |-> arg, at |-> at]

Updated(m, u) ==
    CASE u.kind = "append" -> [m EXCEPT !.text = Append(@, u.arg)]
      [] u.kind = "finish" -> [m EXCEPT !.status = "done", !.sources = u.arg]
      [] u.kind = "fail"   -> [m EXCEPT !.status = "error"]
      [] u.kind = "settle" -> [m EXCEPT !.status = IF m.text # <<>> THEN "done" ELSE "error"]
      [] u.kind = "idle"   -> m

\* The messages after update u, run while the ref holds r.
Run(ms, u, r) ==
    LET target == IF u.at = Later THEN r ELSE u.at IN
    IF target = None THEN ms ELSE [ms EXCEPT ![target] = Updated(@, u)]

\* The messages after all the updates, in their order.
Rendered(updates, r) ==
    LET after[n \in 0..Len(updates)] ==
            IF n = 0 THEN msgs ELSE Run(after[n - 1], updates[n], r)
    IN  after[Len(updates)]

\* Whether isStreaming is true after the updates: only "idle" sets it here.
Streaming(updates) == shown /\ \A i \in DOMAIN updates : updates[i].kind # "idle"

InitPage ==
    /\ msgs = [q \in Questions |-> NoMessage]
    /\ ref = None /\ ctl = None /\ aborted = {} /\ reading = {}
    /\ shown = FALSE /\ pending = <<>>

-----------------------------------------------------------------------------
(* handleSend and start: the message is added, and its fetch begins.        *)
Send(q) ==
    /\ ~shown
    /\ msgs[q] = NoMessage
    /\ ref' = q
    /\ aborted' = aborted \cup ({ctl} \ {None})
    /\ ctl' = q
    /\ reading' = reading \cup {q}
    /\ msgs' = [Rendered(pending, q) EXCEPT ![q] = Fresh]
    /\ shown' = TRUE
    /\ pending' = <<>>

\* setMessages with a function that looks for the message of the ref.
SetMessages(kind, arg) ==
    \E at \in {Later} \cup (IF pending = <<>> THEN {ref} ELSE {}) :
        pending' = Append(pending, Update(kind, arg, at))

AppendAssistantContent(part) ==
    /\ IF ref = None THEN UNCHANGED pending ELSE SetMessages("append", part)
    /\ UNCHANGED ref

FinalizeAssistantMessage(sources) ==
    /\ IF ref = None THEN UNCHANGED pending ELSE SetMessages("finish", sources)
    /\ ref' = None

HandleErrorKeeps ==
    /\ IF ref = None THEN UNCHANGED pending ELSE SetMessages("fail", <<>>)
    /\ UNCHANGED ref

HandleError ==
    /\ IF ref = None THEN UNCHANGED pending ELSE SetMessages("fail", <<>>)
    /\ ref' = None

\* parseSSE looks at the signal before it reads and before every line.
Listens(q) == q \notin aborted

(* One event of the stream of q, which carries these sources if it is done. *)
Receive(q, event, sources) ==
    /\ q \in reading
    /\ Listens(q)
    /\ CASE event.type = "token" -> AppendAssistantContent(<<q, event.part>>)
         [] event.type = "done"  -> FinalizeAssistantMessage(sources)
         [] event.type = "error" -> HandleError
    /\ UNCHANGED <<msgs, ctl, aborted, reading, shown>>

\* The finally of start: a fetch that was aborted leaves the state to its successor.
Finally(q) ==
    /\ reading' = reading \ {q}
    /\ IF q \in aborted THEN UNCHANGED ctl ELSE ctl' = None

StreamOver(q) ==
    /\ q \in reading
    /\ Finally(q)
    /\ pending' = IF q \in aborted THEN pending ELSE Append(pending, Update("idle", <<>>, None))
    /\ UNCHANGED <<msgs, ref, aborted, shown>>

StreamBreaksBusy(q) ==
    /\ q \in reading
    /\ q \notin aborted
    /\ Finally(q)
    /\ HandleError
    /\ UNCHANGED <<msgs, aborted, shown>>

(* The fetch is refused or breaks: one callback, and the same end.          *)
StreamBreaks(q) ==
    /\ q \in reading
    /\ q \notin aborted
    /\ Finally(q)
    /\ ref' = None
    /\ \E at \in {Later} \cup (IF pending = <<>> THEN {ref} ELSE {}) :
          pending' = pending \o (IF ref = None THEN <<>> ELSE <<Update("fail", <<>>, at)>>)
                             \o <<Update("idle", <<>>, None)>>
    /\ UNCHANGED <<msgs, aborted, shown>>

Render ==
    /\ pending # <<>>
    /\ msgs' = Rendered(pending, ref)
    /\ shown' = Streaming(pending)
    /\ pending' = <<>>
    /\ UNCHANGED <<ref, ctl, aborted, reading>>

(* handleStop: isStreaming is set first, so that the update that is to      *)
(* settle the message runs with the rendering, when the ref is empty.       *)
Stop ==
    /\ shown
    /\ aborted' = aborted \cup ({ctl} \ {None})
    /\ ctl' = None
    /\ ref' = None
    /\ msgs' = Rendered(pending \o <<Update("settle", <<>>, Later)>>, None)
    /\ shown' = FALSE
    /\ pending' = <<>>
    /\ UNCHANGED reading

-----------------------------------------------------------------------------
TypeOKPage ==
    /\ \A q \in Questions : msgs[q].status \in {"none", "streaming", "done", "error"}
    /\ {ref, ctl} \subseteq Questions \cup {None}
    /\ aborted \subseteq Questions /\ reading \subseteq Questions
    /\ shown \in BOOLEAN
    /\ \A i \in DOMAIN pending : pending[i].kind \in {"append", "finish", "fail", "settle", "idle"}
=============================================================================

------------------------------ MODULE RagAnswer ------------------------------
(***************************************************************************)
(* Questions from the keyboard to the badge: the chat of the page asks the  *)
(* server, which retrieves and generates, and reads its answer as a stream; *)
(* other clients use the endpoints that answer at once.                     *)
(***************************************************************************)
EXTENDS AnswerServer

CONSTANTS None, Later

ASSUME RagAssumption == None \notin Questions /\ Later \notin Questions \cup {None}

VARIABLES msgs, ref, ctl, aborted, reading, shown, pending

Page == INSTANCE ChatPage

page == <<msgs, ref, ctl, aborted, reading, shown, pending>>
vars == <<serverVars, page>>

Init == InitServer /\ Page!InitPage

-----------------------------------------------------------------------------
\* The chat offers no kind but "All kinds".
Send(q) ==
    /\ \A r \in Questions : op[r] = "stream"
    /\ Page!Send(q)
    /\ Ask(q, "stream", NoKind)

(* Requests share nothing but the stores: a call of another client is       *)
(* followed on its own.                                                     *)
Call(q, o, kind) ==
    /\ \A r \in Questions : phase[r] = "idle"
    /\ Ask(q, o, kind)
    /\ UNCHANGED page

\* What is done for a question that was stopped reaches nobody.
ServerStep(q) == Page!Listens(q) /\ Serve(q) /\ UNCHANGED page

Loss(q) == Page!Listens(q) /\ Loses(q) /\ UNCHANGED page

Receive(q) ==
    /\ wire[q] # <<>>
    /\ Page!Receive(q, Head(wire[q]), context[q])
    /\ wire' = [wire EXCEPT ![q] = Tail(@)]
    /\ UNCHANGED <<retrievalVars, latest, op, phase, context, told>>

Closes(q) ==
    /\ Over(q) /\ wire[q] = <<>>
    /\ Page!StreamOver(q)
    /\ UNCHANGED serverVars

\* The fetch of a question that was stopped ends, and with it its connection.
Abandons(q) ==
    /\ ~Page!Listens(q)
    /\ Page!StreamOver(q)
    /\ Goto(q, "lost")
    /\ wire' = [wire EXCEPT ![q] = <<>>]
    /\ UNCHANGED <<retrievalVars, latest, op, context, told>>

Breaks(q) ==
    /\ phase[q] \in {"refused", "lost"}
    /\ Page!StreamBreaks(q)
    /\ UNCHANGED serverVars

Render == Page!Render /\ UNCHANGED serverVars

Stop == Page!Stop /\ UNCHANGED serverVars

Next ==
    \/ \E q \in Questions : \/ Send(q) \/ ServerStep(q) \/ Loss(q)
                            \/ Receive(q) \/ Closes(q) \/ Abandons(q) \/ Breaks(q)
    \/ \E q \in Questions, o \in Ops \ {"stream"}, k \in Kinds \cup {NoKind} : Call(q, o, k)
    \/ Render \/ Stop

(* Providers, the stores and the database answer or time out, the browser   *)
(* reads what arrives and renders what is pending.  Nobody has to ask, and  *)
(* no connection has to break.                                              *)
Fairness ==
    /\ WF_vars(Render)
    /\ \A q \in Questions : /\ WF_vars(ServerStep(q)) /\ WF_vars(Receive(q))
                            /\ WF_vars(Closes(q)) /\ WF_vars(Abandons(q)) /\ WF_vars(Breaks(q))

Spec == Init /\ [][Next]_vars /\ Fairness

-----------------------------------------------------------------------------
(* Properties *)

\* Every variable has its type.
TypeOK == TypeOKServer /\ Page!TypeOKPage

\* The tokens of an answer that streamed n pieces, or came from one chat.
Streamed(q, n) == [i \in 1..n |-> <<q, i>>]
OneChat(q) == <<<<q, 0>>>>

(* What a message shows came from its own question and from one attempt of  *)
(* one provider: the first pieces of its stream, or the text of its chat,   *)
(* never both and never the late tokens of a question that was stopped.     *)
OneVoice == \A q \in Questions :
    \/ \E n \in 0..told[q] : msgs[q].text = Streamed(q, n)
    \/ told[q] = 0 /\ msgs[q].text = OneChat(q)

(* A message that is shown as done, with sources, is whole: the server came *)
(* to the end of the answer, every token it yielded is in it, and the       *)
(* sources are those it was generated from.  An answer that failed after    *)
(* its first pieces is not shown as done by the "done" behind its error.    *)
DoneIsWhole == \A q \in Questions :
    msgs[q].status = "done" =>
        /\ phase[q] \in {"answered", "lost"}
        /\ msgs[q].sources = context[q]
        /\ told[q] > 0 => msgs[q].text = Streamed(q, told[q])

\* Items that both branches found.
Agreed == ToSet(hits) \cap ToSet(found)

(* The context that a search returns is what the weights of the fusion mean  *)
(* it to be: it holds rows only, none twice, as many as the limit allows    *)
(* unless a threshold cuts them, and those that both branches found first.  *)
AgreementFirst == [][
    LET new == context'[latest] IN
    new # context[latest] =>
        /\ ToSet(new) \subseteq Rows
        /\ \A m, n \in DOMAIN new : m < n => new[m] # new[n] /\ (new[n] \in Agreed => new[m] \in Agreed)
        /\ (Threshold = 0 \/ op[latest] # "search") =>
              Len(new) = Len(Cut(SetToSeq(ToSet(hits) \cup ToSet(found))))]_vars

(* A result outside of the kind that was asked for can only come from a     *)
(* point whose payload is stale or from the substring search, which joins   *)
(* its filter with OR: a filter narrows what the first choices find.        *)
FilterNarrows == [][
    context'[latest] # context[latest] =>
        \A i \in ToSet(context'[latest]) :
            ~PassesRow(i) => (i \in ToSet(hits) /\ PointKind[i] = filter) \/ keyword = "widened"]_vars

(* The chat becomes usable again after every question, whatever fails.      *)
EveryAnswerEnds == shown ~> ~shown
=============================================================================

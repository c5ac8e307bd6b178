-------------------------- MODULE PipelineRun_proofs --------------------------
(***************************************************************************)
(* Proofs about PipelineRun, for any number of executions, attempts and     *)
(* chats, whatever the agents answer and the channels do.                   *)
(*                                                                         *)
(* Everything an execution promises is a fact about its own graph, so the   *)
(* inductive invariant is one predicate of a graph, Sound, that holds of    *)
(* each: what an attempt has written are the channels before its next node; *)
(* before the notification node nothing was sent; while the chats are       *)
(* served, all of them are still to do or have the digest, unless one       *)
(* failed.  The channels that a checkpoint brings along are never among     *)
(* those the attempt has written, which is why they do not matter.          *)
(***************************************************************************)
EXTENDS PipelineRun, TLAPS

-----------------------------------------------------------------------------
(* The invariant.  last is the graph's last node and on the channels that    *)
(* have credentials; both are the same throughout a behaviour.              *)

\* The attempt has written the channels of the nodes before pc.
InOrder(gr, last) ==
    /\ gr.own = 1..(gr.pc - 1)
    /\ gr.pc <= last + 1
    /\ gr.at \notin {"node", "chats", "completed"} => gr.pc = 1
    /\ gr.at = "chats" => gr.pc = notification
    /\ gr.at = "completed" => gr.pc = last + 1

\* A text rests on a text.
Grounded(gr) == \A i \in gr.own : gr.vals[i] = "text" => HasWork(i, gr.vals)

\* What was tried, and what came of it.
Untried(gr) == gr.pc <= notification /\ gr.at # "chats" => \A c \in Requested : gr.status[c] = "none"

MailTried(gr, on) == gr.at = "chats" => /\ gr.status["telegram"] = "none"
                                        /\ gr.status["email"] # "none" <=> "email" \in on

AllTried(gr, on) == notification \in gr.own /\ gr.vals[notification] = "text" =>
                        \A c \in Requested : gr.status[c] # "none" <=> c \in on

ChatsServed(gr, on) ==
    /\ gr.at = "chats" /\ "telegram" \in on /\ ~gr.errors => Chats \subseteq gr.todo \cup gr.reached
    /\ gr.status["telegram"] = "sent" => Chats \subseteq gr.reached

Sound(gr, last, on) ==
    /\ gr \in Graph
    /\ InOrder(gr, last) /\ Grounded(gr)
    /\ Untried(gr) /\ MailTried(gr, on) /\ AllTried(gr, on) /\ ChatsServed(gr, on)

Rest == /\ pipeline \in {"intelligence", "autonomous"}
        /\ enabled \subseteq Requested
        /\ row \in {"running", "interrupted", "completed"}
        /\ saved \in [Nodes -> Kinds] \cup {None}
        /\ awaited \subseteq Execs
        /\ unsaved \subseteq Execs

AllSound == g \in [Execs -> Graph] /\ \A e \in Execs : Sound(g[e], LastNode(pipeline), enabled)

IInv == Rest /\ AllSound

-----------------------------------------------------------------------------
(* Graphs *)

LEMMA Constants == /\ Nodes = 1..6
                   /\ \A p : LastNode(p) \in {3, 6}
                   /\ research = 1 /\ notification = 6
BY DEF Nodes, IntelligenceNodes, AutonomousNodes, LastNode, translator, notification, research

LEMMA FreshOK == Fresh \in [Nodes -> Kinds]
BY DEF Fresh, Kinds

LEMMA ResultsOK ==
    ASSUME NEW n \in Nodes, NEW kinds, NEW kind \in Results(n, kinds)
    PROVE  kind \in Kinds /\ (kind = "text" => HasWork(n, kinds))
<1>1. Replies[n] \subseteq Kinds
  BY DEF Nodes, IntelligenceNodes, AutonomousNodes, research, translator, notification, Replies, Kinds,
         ResearchReplies, AnalystReplies, TranslatorReplies, KnowledgeReplies, PlanReplies,
         DigestReplies, LLMTexts, Entry, Plan
<1> QED
  BY <1>1 DEF Results, Executed, Kinds

\* A text rests on a channel that was written before.
LEMMA UpstreamBefore ==
    ASSUME NEW i \in Nodes, i \notin {research, notification} PROVE Upstream(i) \in 1..(i - 1)
BY DEF Upstream, Nodes, IntelligenceNodes, AutonomousNodes, research, analyst, translator, knowledge,
       project_manager, notification

\* No graph: at rest, or about to begin an attempt.
LEMMA NoGraphSound ==
    ASSUME NEW last \in {3, 6}, NEW on, NEW p \in {"begin", "idle", "ended"}, NEW n \in 1..MaxAttempts
    PROVE  Sound(NoGraph(p), last, on) /\ Sound([NoGraph(p) EXCEPT !.n = n], last, on)
<1> DEFINE r(k) == [at |-> p, n |-> k, pc |-> 1, vals |-> Fresh, own |-> {}, todo |-> {},
                    errors |-> FALSE, status |-> [c \in Requested |-> "none"], reached |-> {}]
<1>1. ASSUME NEW k \in 1..MaxAttempts PROVE Sound(r(k), last, on)
  <2>1. r(k) \in Graph
    BY FreshOK DEF Graph, Live
  <2>2. InOrder(r(k), last)
    BY Constants DEF InOrder
  <2>3. Grounded(r(k))
    BY DEF Grounded
  <2>4. r(k).at # "chats" /\ notification \notin r(k).own
    OBVIOUS
  <2>5. \A c \in Requested : r(k).status[c] = "none"
    OBVIOUS
  <2>6. "telegram" \in Requested
    BY DEF Requested
  <2>7. Untried(r(k)) /\ MailTried(r(k), on) /\ AllTried(r(k), on) /\ ChatsServed(r(k), on)
    <3> HIDE DEF r
    <3> QED
      BY <2>4, <2>5, <2>6 DEF Untried, MailTried, AllTried, ChatsServed
  <2> QED
    BY <2>1, <2>2, <2>3, <2>7 DEF Sound
<1>2. NoGraph(p) = r(1)
  BY DEF NoGraph
<1>4. ASSUME NEW gr, Sound(gr, last, on) PROVE Sound([gr EXCEPT !.n = n], last, on)
  <2> DEFINE x == [gr EXCEPT !.n = n]
  <2>1. x \in Graph
    BY <1>4 DEF Sound, Graph
  <2>2. /\ x.at = gr.at /\ x.pc = gr.pc /\ x.own = gr.own /\ x.vals = gr.vals /\ x.errors = gr.errors
        /\ x.status = gr.status /\ x.todo = gr.todo /\ x.reached = gr.reached
    BY <1>4 DEF Sound, Graph
  <2> HIDE DEF x
  <2>3. Sound(x, last, on)
    BY <1>4, <2>1, <2>2
       DEF Sound, InOrder, Grounded, Untried, MailTried, AllTried, ChatsServed
  <2> QED
    BY <2>3 DEF x
<1>3. 1 \in 1..MaxAttempts
  BY PipelineAssumption
<1> HIDE DEF r
<1> QED
  BY <1>1, <1>2, <1>3, <1>4

\* An execution is given a sound graph.
LEMMA Put ==
    ASSUME AllSound, NEW e \in Execs, NEW gr, Sound(gr, LastNode(pipeline), enabled),
           g' = [g EXCEPT ![e] = gr], UNCHANGED <<pipeline, enabled>>
    PROVE  AllSound'
<1>1. g' \in [Execs -> Graph]
  BY DEF AllSound, Sound
<1>2. ASSUME NEW d \in Execs PROVE Sound(g'[d], LastNode(pipeline), enabled)
  BY DEF AllSound
<1> QED
  BY <1>1, <1>2 DEF AllSound

-----------------------------------------------------------------------------
(* What a step makes of a sound graph *)

\* A graph at rest begins, or its graph ends: only its place changes.
LEMMA PlaceSound ==
    ASSUME NEW last \in {3, 6}, NEW on, NEW gr, Sound(gr, last, on), NEW p,
           \/ /\ gr.at \notin Live \cup {"completed"} /\ p \in {"resuming", "begin"}
           \/ gr.at = "node" /\ gr.pc > last /\ p = "completed"
    PROVE  Sound([gr EXCEPT !.at = p], last, on)
<1> DEFINE x == [gr EXCEPT !.at = p]
<1>1. x \in Graph
  BY DEF Sound, Graph, Live
<1>2. /\ x.at = p /\ x.pc = gr.pc /\ x.own = gr.own /\ x.vals = gr.vals /\ x.errors = gr.errors
      /\ x.status = gr.status /\ x.todo = gr.todo /\ x.reached = gr.reached
  BY DEF Sound, Graph
<1>3. gr.at # "chats" /\ p # "chats"
  BY DEF Live
<1>4. InOrder(x, last)
  BY <1>2, <1>3 DEF Sound, InOrder, Live, Graph
<1> HIDE DEF x
<1>5. Sound(x, last, on)
  BY <1>1, <1>2, <1>3, <1>4 DEF Sound, Grounded, Untried, MailTried, AllTried, ChatsServed
<1> QED
  BY <1>5 DEF x

\* An attempt begins with whatever channels the checkpoint had.
LEMMA BegunSound ==
    ASSUME NEW last \in {3, 6}, NEW on, NEW gr, Sound(gr, last, on), gr.at = "begin",
           NEW loaded \in [Nodes -> Kinds]
    PROVE  Sound([gr EXCEPT !.at = "node", !.vals = loaded], last, on)
<1> DEFINE x == [gr EXCEPT !.at = "node", !.vals = loaded]
<1>1. x \in Graph
  BY DEF Sound, Graph, Live
<1>2. /\ x.at = "node" /\ x.pc = gr.pc /\ x.own = gr.own /\ x.errors = gr.errors
      /\ x.status = gr.status /\ x.todo = gr.todo /\ x.reached = gr.reached
  BY DEF Sound, Graph
<1>3. gr.pc = 1 /\ gr.own = {}
  BY DEF Sound, InOrder
<1> HIDE DEF x
<1>4. InOrder(x, last)
  BY <1>2, <1>3 DEF InOrder
<1>5. Sound(x, last, on)
  BY <1>1, <1>2, <1>3, <1>4 DEF Sound, Grounded, Untried, MailTried, AllTried, ChatsServed
<1> QED
  BY <1>5 DEF x

\* A node's result is added: it rests on a text if it is one, and what the nodes
\* before it wrote is untouched.
LEMMA SteppedSound ==
    ASSUME NEW last \in {3, 6}, NEW on, NEW gr, gr \in Graph, InOrder(gr, last), Grounded(gr),
           gr.at \in {"node", "chats"}, gr.pc <= last,
           NEW kind \in Kinds, kind = "text" => HasWork(gr.pc, gr.vals),
           gr.status["telegram"] = "sent" => Chats \subseteq gr.reached,
           IF gr.pc = notification /\ kind = "text"
           THEN \A c \in Requested : gr.status[c] # "none" <=> c \in on
           ELSE \A c \in Requested : gr.status[c] = "none"
    PROVE  Sound(Stepped(gr, kind), last, on)
<1> DEFINE u == Update(gr, kind)
           x == Stepped(gr, kind)
<1>0. gr.pc \in Nodes /\ gr.pc \in 1..last /\ last <= 6 /\ gr.pc \in 1..6 /\ gr.pc + 1 \in 1..7
  BY Constants DEF Graph
<1>1. u \in Graph
  BY <1>0 DEF Update, Graph
<1>2. /\ u.pc = gr.pc /\ u.own = gr.own \cup {gr.pc} /\ u.vals = [gr.vals EXCEPT ![gr.pc] = kind]
      /\ u.status = gr.status /\ u.reached = gr.reached
  BY <1>0 DEF Update, Graph
<1>3. x = [u EXCEPT !.at = "node", !.pc = @ + 1]
  BY DEF Stepped
<1> HIDE DEF u, x
<1>4. x \in Graph
  BY <1>0, <1>1, <1>2, <1>3 DEF Graph, Live
<1>5. /\ x.at = "node" /\ x.pc = gr.pc + 1 /\ x.own = gr.own \cup {gr.pc}
      /\ x.vals = [gr.vals EXCEPT ![gr.pc] = kind] /\ x.status = gr.status /\ x.reached = gr.reached
  BY <1>1, <1>2, <1>3 DEF Graph
<1>6. InOrder(x, last)
  <2>1. gr.pc \in 1..6
    BY <1>0
  <2>2. 1..gr.pc = (1..(gr.pc - 1)) \cup {gr.pc}
    BY <2>1
  <2>3. x.pc - 1 = gr.pc /\ x.pc <= last + 1
    BY <2>1, <1>0, <1>5
  <2>4. x.own = 1..(x.pc - 1)
    BY <2>2, <2>3, <1>5 DEF InOrder
  <2> QED
    BY <2>3, <2>4, <1>5 DEF InOrder
<1>7. Grounded(x)
  <2> SUFFICES ASSUME NEW i \in x.own, x.vals[i] = "text" PROVE HasWork(i, x.vals)
    BY DEF Grounded
  <2>1. i \in 1..gr.pc /\ i \in Nodes /\ gr.own = 1..(gr.pc - 1)
    BY <1>0, <1>5, Constants DEF InOrder
  <2>2. gr.vals \in [Nodes -> Kinds]
    BY DEF Graph
  <2>3. HasWork(i, gr.vals)
    <3>1. CASE i = gr.pc
      BY <2>2, <3>1, <1>0, <1>5
    <3>2. CASE i # gr.pc
      <4>1. i \in gr.own /\ gr.vals[i] = "text"
        BY <2>1, <2>2, <3>2, <1>0, <1>5
      <4> QED
        BY <4>1 DEF Grounded
    <3> QED
      BY <3>1, <3>2
  <2>4. CASE i \in {research, notification}
    BY <2>4 DEF HasWork
  <2>5. CASE i \notin {research, notification}
    <3>1. Upstream(i) \in 1..(i - 1) /\ Upstream(i) \in Nodes
      BY <2>1, <2>5, UpstreamBefore, Constants
    <3>2. Upstream(i) # gr.pc
      BY <2>1, <3>1, <1>0
    <3>3. x.vals[Upstream(i)] = gr.vals[Upstream(i)]
      BY <2>2, <3>1, <3>2, <1>5
    <3> QED
      BY <2>3, <3>3 DEF HasWork
  <2> QED
    BY <2>4, <2>5
<1>8. Untried(x)
  BY <1>0, <1>5, Constants DEF Untried
<1>9. AllTried(x, on)
  <2> SUFFICES ASSUME notification \in x.own, x.vals[notification] = "text"
               PROVE  \A c \in Requested : x.status[c] # "none" <=> c \in on
    BY DEF AllTried
  <2>1. gr.pc = notification
    BY <1>0, <1>5, Constants DEF InOrder
  <2>2. kind = "text"
    BY <2>1, <1>0, <1>5 DEF Graph
  <2> QED
    BY <2>1, <2>2, <1>5
<1>10. MailTried(x, on) /\ ChatsServed(x, on)
  BY <1>5 DEF MailTried, ChatsServed
<1> QED
  BY <1>4, <1>6, <1>7, <1>8, <1>9, <1>10 DEF Sound, x

\* The e-mail is tried if it can be, and the chats are all still to do.
LEMMA DispatchedSound ==
    ASSUME NEW last \in {3, 6}, NEW gr, Sound(gr, last, enabled), gr.at = "node",
           gr.pc = notification, NEW y \in Mailed(gr)
    PROVE  Sound(ToTelegram(y), last, enabled)
<1> DEFINE x == ToTelegram(y)
           chats == IF "telegram" \in enabled THEN Chats ELSE {}
<1>0. "email" \in Requested /\ "telegram" \in Requested /\ gr \in Graph /\ InOrder(gr, last) /\ Grounded(gr)
      /\ \A c \in Requested : gr.status[c] = "none"
  BY Constants DEF Requested, Sound, Untried
<1>1. /\ y \in Graph
      /\ y.at = gr.at /\ y.pc = gr.pc /\ y.own = gr.own /\ y.vals = gr.vals /\ y.reached = gr.reached
      /\ y.status["telegram"] = "none" /\ (y.status["email"] # "none" <=> "email" \in enabled)
  <2>1. CASE "email" \notin enabled
    BY <1>0, <2>1 DEF Mailed
  <2>2. CASE "email" \in enabled
    <3>1. PICK s \in {"sent", "failed"} : y = [gr EXCEPT !.status["email"] = s]
      BY <2>2 DEF Mailed
    <3>2. y \in Graph
      BY <1>0, <3>1 DEF Graph
    <3>3. /\ y.at = gr.at /\ y.pc = gr.pc /\ y.own = gr.own /\ y.vals = gr.vals /\ y.reached = gr.reached
          /\ y.status = [gr.status EXCEPT !["email"] = s]
      BY <1>0, <3>1 DEF Graph
    <3>4. y.status["telegram"] = "none" /\ y.status["email"] = s
      BY <1>0, <3>3 DEF Graph
    <3> QED
      BY <2>2, <3>2, <3>3, <3>4
  <2> QED
    BY <2>1, <2>2
<1>2. x = [y EXCEPT !.at = "chats", !.todo = chats, !.errors = Chats = {}]
  BY DEF ToTelegram
<1>3. chats \in SUBSET Chats /\ ("telegram" \in enabled => chats = Chats)
  OBVIOUS
<1> HIDE DEF x, chats
<1>4. x \in Graph
  BY <1>1, <1>2, <1>3 DEF Graph, Live
<1>5. /\ x.at = "chats" /\ x.pc = gr.pc /\ x.own = gr.own /\ x.vals = gr.vals /\ x.reached = gr.reached
      /\ x.todo = chats /\ x.status = y.status
  BY <1>1, <1>2 DEF Graph
<1>6. InOrder(x, last)
  BY <1>0, <1>5 DEF InOrder
<1>7. Grounded(x) /\ Untried(x) /\ MailTried(x, enabled) /\ ChatsServed(x, enabled)
  BY <1>0, <1>1, <1>3, <1>5 DEF Grounded, Untried, MailTried, ChatsServed
<1>8. notification \notin x.own
  BY <1>0, <1>5, Constants DEF InOrder
<1> QED
  BY <1>4, <1>6, <1>7, <1>8 DEF Sound, AllTried, x

\* A chat has the digest, or an error is noted: none is forgotten.
LEMMA PostedSound ==
    ASSUME NEW last \in {3, 6}, NEW on, NEW gr, Sound(gr, last, on), gr.at = "chats", NEW c \in gr.todo,
           NEW x,
           \/ x = [gr EXCEPT !.todo = @ \ {c}, !.reached = @ \cup {c}]
           \/ x = [gr EXCEPT !.todo = @ \ {c}, !.errors = TRUE]
           \/ \E r \in SUBSET {c} : x = [gr EXCEPT !.todo = {}, !.errors = TRUE, !.reached = @ \cup r]
    PROVE  Sound(x, last, on)
<1>0. gr \in Graph /\ c \in Chats
  BY DEF Sound, Graph
<1>1. /\ x \in Graph
      /\ x.at = gr.at /\ x.pc = gr.pc /\ x.own = gr.own /\ x.vals = gr.vals /\ x.status = gr.status
      /\ gr.reached \subseteq x.reached
      /\ x.errors \/ (x.errors = gr.errors /\ gr.todo \cup gr.reached \subseteq x.todo \cup x.reached)
  <2>1. CASE x = [gr EXCEPT !.todo = @ \ {c}, !.reached = @ \cup {c}]
    BY <1>0, <2>1 DEF Graph
  <2>2. CASE x = [gr EXCEPT !.todo = @ \ {c}, !.errors = TRUE]
    BY <1>0, <2>2 DEF Graph
  <2>3. ASSUME NEW r \in SUBSET {c}, x = [gr EXCEPT !.todo = {}, !.errors = TRUE, !.reached = @ \cup r]
        PROVE  /\ x \in Graph
               /\ x.at = gr.at /\ x.pc = gr.pc /\ x.own = gr.own /\ x.vals = gr.vals
               /\ x.status = gr.status /\ gr.reached \subseteq x.reached /\ x.errors
    BY <1>0, <2>3 DEF Graph
  <2> QED
    BY <2>1, <2>2, <2>3
<1>2. InOrder(x, last)
  BY <1>1 DEF Sound, InOrder
<1>3. Grounded(x) /\ Untried(x) /\ MailTried(x, on) /\ AllTried(x, on)
  BY <1>1 DEF Sound, Grounded, Untried, MailTried, AllTried
<1>4. ChatsServed(x, on)
  BY <1>1 DEF Sound, ChatsServed
<1> QED
  BY <1>1, <1>2, <1>3, <1>4 DEF Sound

-----------------------------------------------------------------------------
(* The steps *)

LEMMA LoadedOK == Rest => Loaded \in [Nodes -> Kinds]
BY FreshOK DEF Rest, Loaded

LEMMA RaiseKeeps ==
    ASSUME IInv, NEW e \in Execs, Raise(e), UNCHANGED <<pipeline, enabled>>
    PROVE  AllSound' /\ awaited' \subseteq Execs /\ unsaved' \subseteq Execs
<1>1. LastNode(pipeline) \in {3, 6} /\ g[e].n \in 1..MaxAttempts
  BY Constants DEF IInv, AllSound, Graph
<1>2. CASE g' = [g EXCEPT ![e] = NoGraph("ended")]
  <2>1. Sound(NoGraph("ended"), LastNode(pipeline), enabled)
    BY <1>1, NoGraphSound
  <2> QED
    BY <1>2, <2>1, Put DEF IInv, Rest, Raise
<1>3. CASE AttemptsRemain(e) /\ g' = [g EXCEPT ![e] = [NoGraph("begin") EXCEPT !.n = g[e].n + 1]]
  <2>1. g[e].n + 1 \in 1..MaxAttempts
    BY <1>1, <1>3, PipelineAssumption DEF AttemptsRemain
  <2> DEFINE gr == [NoGraph("begin") EXCEPT !.n = g[e].n + 1]
  <2>2. Sound(gr, LastNode(pipeline), enabled)
    BY <1>1, <2>1, NoGraphSound
  <2>3. g' = [g EXCEPT ![e] = gr]
    BY <1>3
  <2> HIDE DEF gr
  <2> QED
    BY <2>2, <2>3, Put DEF IInv, Rest, Raise
<1> QED
  BY <1>2, <1>3 DEF Raise

LEMMA StepKeeps ==
    ASSUME IInv, NEW e \in Execs, Step(e)
    PROVE  IInv'
<1> DEFINE last == LastNode(pipeline)
           gr == g[e]
<1>0. last \in {3, 6} /\ Sound(gr, last, enabled) /\ gr \in Graph /\ AllSound /\ Rest
  BY Constants DEF IInv, AllSound
<1>1. ASSUME NEW new, Sound(new, last, enabled), g' = [g EXCEPT ![e] = new], UNCHANGED <<pipeline, enabled>>
      PROVE  AllSound'
  BY <1>0, <1>1, Put
<1>2. CASE Begin(e)
  <2>1. CASE Raise(e)
    BY <1>2, <2>1, RaiseKeeps DEF Begin, IInv, Rest
  <2>2. CASE g' = [g EXCEPT ![e].at = "node", ![e].vals = Loaded] /\ UNCHANGED <<awaited, unsaved>>
    <3> DEFINE new == [gr EXCEPT !.at = "node", !.vals = Loaded]
    <3>1. Sound(new, last, enabled)
      BY <1>0, <1>2, LoadedOK, BegunSound DEF Begin
    <3>2. g' = [g EXCEPT ![e] = new]
      BY <1>0, <2>2 DEF AllSound, Graph
    <3> HIDE DEF new
    <3> QED
      BY <3>1, <3>2, <1>1, <1>2, <2>2 DEF Begin, IInv, Rest
  <2> QED
    BY <1>2, <2>1, <2>2 DEF Begin
<1>3. CASE RunNode(e)
  <2>1. PICK kind \in Results(gr.pc, gr.vals) :
           (gr.pc = notification => kind # "text") /\ g' = [g EXCEPT ![e] = Stepped(gr, kind)]
    BY <1>3 DEF RunNode
  <2>2. gr.at = "node" /\ gr.pc \in 1..last /\ gr.pc \in Nodes
    BY <1>0, <1>3, Constants DEF RunNode
  <2>3. \A c \in Requested : gr.status[c] = "none"
    BY <1>0, <2>2, Constants DEF Sound, Untried
  <2>4. "telegram" \in Requested
    BY DEF Requested
  <2>5. Sound(Stepped(gr, kind), last, enabled)
    BY <1>0, <2>1, <2>2, <2>3, <2>4, ResultsOK, SteppedSound DEF Sound
  <2> QED
    BY <1>0, <1>1, <1>3, <2>1, <2>5 DEF RunNode, IInv, Rest
<1>4. CASE SendEmail(e)
  <2>1. PICK y \in Mailed(gr) : g' = [g EXCEPT ![e] = ToTelegram(y)]
    BY <1>4 DEF SendEmail
  <2>2. Sound(ToTelegram(y), last, enabled)
    BY <1>0, <1>4, DispatchedSound DEF SendEmail
  <2> QED
    BY <1>0, <1>1, <1>4, <2>1, <2>2 DEF SendEmail, IInv, Rest
<1>5. CASE PostChat(e)
  <2>1. PICK c \in gr.todo :
           \/ ChatAnswers(e, c)
           \/ \E r \in SUBSET {c} :
                g' = [g EXCEPT ![e].todo = {}, ![e].errors = TRUE, ![e].reached = @ \cup r]
    BY <1>5 DEF PostChat
  <2>2. PICK new : /\ g' = [g EXCEPT ![e] = new]
                   /\ \/ new = [gr EXCEPT !.todo = @ \ {c}, !.reached = @ \cup {c}]
                      \/ new = [gr EXCEPT !.todo = @ \ {c}, !.errors = TRUE]
                      \/ \E r \in SUBSET {c} :
                            new = [gr EXCEPT !.todo = {}, !.errors = TRUE, !.reached = @ \cup r]
    <3>1. CASE g' = [g EXCEPT ![e].todo = @ \ {c}, ![e].reached = @ \cup {c}]
      BY <1>0, <3>1 DEF AllSound, Graph
    <3>2. CASE g' = [g EXCEPT ![e].todo = @ \ {c}, ![e].errors = TRUE]
      BY <1>0, <3>2 DEF AllSound, Graph
    <3>3. ASSUME NEW r \in SUBSET {c},
                 g' = [g EXCEPT ![e].todo = {}, ![e].errors = TRUE, ![e].reached = @ \cup r]
          PROVE  g' = [g EXCEPT ![e] = [gr EXCEPT !.todo = {}, !.errors = TRUE, !.reached = @ \cup r]]
      BY <1>0, <3>3 DEF AllSound, Graph
    <3> QED
      BY <2>1, <3>1, <3>2, <3>3 DEF ChatAnswers
  <2>3. Sound(new, last, enabled)
    BY <1>0, <1>5, <2>2, PostedSound DEF PostChat
  <2> QED
    BY <1>0, <1>1, <1>5, <2>2, <2>3 DEF PostChat, IInv, Rest
<1>6. CASE Notified(e)
  <2> DEFINE s == IF "telegram" \notin enabled THEN "none" ELSE IF gr.errors THEN "failed" ELSE "sent"
             done == [gr EXCEPT !.status["telegram"] = s]
  <2>1. gr.at = "chats" /\ gr.todo = {} /\ g' = [g EXCEPT ![e] = Stepped(done, "text")]
    BY <1>6 DEF Notified
  <2>2. "telegram" \in Requested /\ Requested = {"telegram", "email"}
    BY DEF Requested
  <2>3. /\ s \in {"none", "sent", "failed"}
        /\ s # "none" <=> "telegram" \in enabled
        /\ s = "sent" => "telegram" \in enabled /\ ~gr.errors
    OBVIOUS
  <2> HIDE DEF s
  <2>4. done \in Graph
    BY <1>0, <2>2, <2>3 DEF Graph
  <2>5. /\ done.at = "chats" /\ done.pc = gr.pc /\ done.own = gr.own /\ done.vals = gr.vals
        /\ done.reached = gr.reached /\ done.status = [gr.status EXCEPT !["telegram"] = s]
    BY <1>0, <2>1 DEF Graph
  <2> HIDE DEF done
  <2>6. gr.pc = notification /\ gr.pc <= last
    BY <1>0, <2>1, Constants DEF Sound, InOrder, Graph
  <2>7. InOrder(done, last) /\ Grounded(done)
    BY <1>0, <2>1, <2>5 DEF Sound, InOrder, Grounded
  <2>8. done.status["telegram"] = s /\ done.status["email"] = gr.status["email"]
    BY <1>0, <2>2, <2>5 DEF Graph
  <2>9. \A c \in Requested : done.status[c] # "none" <=> c \in enabled
    BY <1>0, <2>1, <2>2, <2>3, <2>8 DEF Sound, MailTried
  <2>10. done.status["telegram"] = "sent" => Chats \subseteq done.reached
    BY <1>0, <2>1, <2>3, <2>5, <2>8 DEF Sound, ChatsServed
  <2>11. HasWork(done.pc, done.vals) /\ "text" \in Kinds
    BY <2>5, <2>6 DEF HasWork, Kinds
  <2>12. Sound(Stepped(done, "text"), last, enabled)
    BY <1>0, <2>4, <2>5, <2>6, <2>7, <2>9, <2>10, <2>11, SteppedSound
  <2> QED
    BY <1>0, <1>1, <1>6, <2>1, <2>12 DEF Notified, done, s, IInv, Rest
<1>7. CASE Save(e)
  BY <1>0, <1>7 DEF Save, IInv, Rest, AllSound, Graph
<1>8. CASE SaveFails(e)
  BY <1>8, RaiseKeeps DEF SaveFails, IInv, Rest
<1>9. CASE Finish(e)
  <2>1. CASE g' = [g EXCEPT ![e].at = "completed"]
    <3> DEFINE new == [gr EXCEPT !.at = "completed"]
    <3>1. Sound(new, last, enabled)
      BY <1>0, <1>9, PlaceSound DEF Finish
    <3>2. g' = [g EXCEPT ![e] = new]
      BY <2>1
    <3> HIDE DEF new
    <3> QED
      BY <1>0, <1>1, <1>9, <3>1, <3>2 DEF Finish, IInv, Rest
  <2>2. CASE g' = [g EXCEPT ![e] = NoGraph("ended")]
    <3>1. Sound(NoGraph("ended"), last, enabled)
      BY <1>0, NoGraphSound, PipelineAssumption DEF Graph
    <3> QED
      BY <1>0, <1>1, <1>9, <2>2, <3>1 DEF Finish, IInv, Rest
  <2> QED
    BY <1>9, <2>1, <2>2 DEF Finish
<1>10. CASE TimeLimit(e)
  <2>1. Sound(NoGraph("ended"), last, enabled)
    BY <1>0, NoGraphSound DEF Graph
  <2> QED
    BY <1>0, <1>1, <1>10, <2>1 DEF TimeLimit, IInv, Rest, AllSound
<1>11. CASE ResumeCheck(e)
  <2> DEFINE new == [gr EXCEPT !.at = "resuming"]
  <2>1. Sound(new, last, enabled)
    BY <1>0, <1>11, PlaceSound DEF ResumeCheck, Live
  <2>2. g' = [g EXCEPT ![e] = new]
    BY <1>11 DEF ResumeCheck
  <2> HIDE DEF new
  <2> QED
    BY <1>0, <1>1, <1>11, <2>1, <2>2 DEF ResumeCheck, IInv, Rest
<1>12. CASE Resume(e)
  <2> DEFINE new == [gr EXCEPT !.at = "begin"]
  <2>1. Sound(new, last, enabled)
    BY <1>0, <1>12, PlaceSound DEF Resume, Live
  <2>2. g' = [g EXCEPT ![e] = new]
    BY <1>12 DEF Resume
  <2> HIDE DEF new
  <2> QED
    BY <1>0, <1>1, <1>12, <2>1, <2>2 DEF Resume, IInv, Rest
<1> QED
  BY <1>2, <1>3, <1>4, <1>5, <1>6, <1>7, <1>8, <1>9, <1>10, <1>11, <1>12 DEF Step

LEMMA CrashKeeps == IInv /\ Crash => IInv'
<1> SUFFICES ASSUME IInv, Crash PROVE IInv'
  OBVIOUS
<1>1. LastNode(pipeline) \in {3, 6} /\ 1 \in 1..MaxAttempts
  BY Constants, PipelineAssumption
<1>2. Sound(NoGraph("ended"), LastNode(pipeline), enabled)
  BY <1>1, NoGraphSound
<1> DEFINE none == NoGraph("ended")
<1>3. none \in Graph
  BY <1>2 DEF Sound
<1>4. g' = [e \in Execs |-> IF g[e].at \in Live THEN none ELSE g[e]]
  BY DEF Crash
<1> HIDE DEF none
<1>5. g' \in [Execs -> Graph]
  BY <1>3, <1>4 DEF IInv, AllSound
<1>6. ASSUME NEW e \in Execs PROVE Sound(g'[e], LastNode(pipeline), enabled)
  BY <1>2, <1>4 DEF IInv, AllSound, none
<1> QED
  BY <1>5, <1>6 DEF Crash, IInv, Rest, AllSound

LEMMA NextKeeps == IInv /\ [Next]_vars => IInv'
<1> SUFFICES ASSUME IInv, [Next]_vars PROVE IInv'
  OBVIOUS
<1>1. CASE Recover
  BY <1>1 DEF Recover, IInv, Rest, AllSound
<1>2. CASE UNCHANGED vars
  BY <1>2 DEF vars, IInv, Rest, AllSound
<1> QED
  BY <1>1, <1>2, StepKeeps, CrashKeeps DEF Next

LEMMA InitSound == Init => IInv
<1> SUFFICES ASSUME Init PROVE IInv
  OBVIOUS
<1>1. Rest
  BY PipelineAssumption DEF Init, Rest, Requested
<1>2. ASSUME NEW e \in Execs PROVE Sound(g[e], LastNode(pipeline), enabled)
  <2>1. LastNode(pipeline) \in {3, 6} /\ 1 \in 1..MaxAttempts
    BY Constants, PipelineAssumption
  <2>2. g[e] = NoGraph("begin") \/ g[e] = NoGraph("idle")
    BY DEF Init
  <2> QED
    BY <2>1, <2>2, NoGraphSound
<1>3. g \in [Execs -> Graph]
  <2>1. DOMAIN g = Execs /\ g = [e \in Execs |-> g[e]]
    BY DEF Init
  <2> QED
    BY <1>2, <2>1 DEF Sound
<1> QED
  BY <1>1, <1>2, <1>3 DEF IInv, AllSound

LEMMA Inductive == Spec => []IInv
BY InitSound, NextKeeps, PTL DEF Spec

-----------------------------------------------------------------------------
(* The theorems *)

(* Every variable keeps its type, and no execution makes more attempts than *)
(* it may.                                                                  *)
THEOREM TypeCorrect == Spec => []TypeOK
<1>1. IInv => TypeOK
  BY DEF IInv, Rest, AllSound, TypeOK
<1> QED
  BY <1>1, Inductive, PTL

(* Whatever earlier attempts and other executions left in the checkpoint, a *)
(* digest lists results of the attempt that sends it only.                  *)
THEOREM DigestsAreOwn == Spec => []DigestIsOwn
<1>1. IInv => DigestIsOwn
  <2> SUFFICES ASSUME IInv, NEW e \in Execs, g[e].at = "chats", NEW i \in DigestSources PROVE i \in g[e].own
    BY DEF DigestIsOwn
  <2>1. g[e].own = 1..(g[e].pc - 1) /\ g[e].pc = notification
    BY DEF IInv, AllSound, Sound, InOrder
  <2> QED
    BY <2>1, Constants DEF DigestSources, research, knowledge, project_manager, notification
<1> QED
  BY <1>1, Inductive, PTL

(* A completed execution has written the channel of each node itself, and   *)
(* every text in them rests on a text.                                      *)
THEOREM CompletedIsWholeAlways == Spec => []CompletedIsWhole
<1>1. IInv => CompletedIsWhole
  <2> SUFFICES ASSUME IInv, NEW e \in Execs, g[e].at = "completed"
               PROVE  /\ g[e].own = 1..LastNode(pipeline)
                      /\ \A i \in g[e].own : g[e].vals[i] = "text" => HasWork(i, g[e].vals)
    BY DEF CompletedIsWhole
  <2>1. LastNode(pipeline) \in {3, 6}
    BY Constants
  <2>2. Sound(g[e], LastNode(pipeline), enabled)
    BY DEF IInv, AllSound
  <2>3. g[e].own = 1..(g[e].pc - 1) /\ g[e].pc = LastNode(pipeline) + 1
    BY <2>2 DEF Sound, InOrder
  <2> DEFINE last == LastNode(pipeline)
  <2>4. g[e].own = 1..last
    <3> HIDE DEF last
    <3>1. g[e].pc - 1 = last
      BY <2>1, <2>3 DEF last
    <3> QED
      BY <2>3, <3>1
  <2> QED
    BY <2>2, <2>4 DEF Sound, Grounded
<1> QED
  BY <1>1, Inductive, PTL

(* Telegram is reported as sent only when each chat has the digest.         *)
THEOREM SentMeansSent == Spec => []SentIsSent
<1>1. IInv => SentIsSent
  BY DEF IInv, AllSound, Sound, ChatsServed, SentIsSent
<1> QED
  BY <1>1, Inductive, PTL

(* When a digest is done, the channels that were tried are those that have  *)
(* credentials, whatever became of each.                                    *)
THEOREM ChannelsIndependent == Spec => []ChannelsAreIndependent
<1>1. IInv => ChannelsAreIndependent
  BY DEF IInv, AllSound, Sound, AllTried, ChannelsAreIndependent
<1> QED
  BY <1>1, Inductive, PTL
===============================================================================

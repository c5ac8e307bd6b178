---------------------------- MODULE KnowledgeSync ----------------------------
(***************************************************************************)
(* Knowledge items and their vectors: a row in PostgreSQL and a point in     *)
(* Qdrant for each item, written one after the other by the API             *)
(* (backend/services/knowledge_service.py), by the pipelines                *)
(* (backend/services/knowledge/service.py) and by the operator's script      *)
(* scripts/backfill_embeddings.py.                                          *)
(*                                                                         *)
(* A request flushes its statement early and commits when it ends           *)
(* (get_db), so it holds the lock of its row while it embeds and upserts;    *)
(* row is what is committed.  Of an item title and text matter, since they   *)
(* are what a vector is made of: the API embeds the text alone, the script   *)
(* embeds title and text.                                                   *)
(***************************************************************************)
EXTENDS Naturals

CONSTANTS Items,    \* ids; a uuid is never used twice
          Titles, Texts, \* of items
          Bodies,   \* of creations and updates, as clients send them
          Reqs,     \* API requests that may be in flight
          None,
          MaxFaults \* bound: failed or lost calls, crashes

VARIABLES row,     \* row[i]: the committed title and text, None if there is no row
          made,    \* ids that have been given out
          marked,  \* rows whose column embedding is set
          point,   \* point[i]: what the vector in Qdrant was made of, or None
          req,     \* req[q]: a request of the API
          fill,    \* the backfill script
          faults,  \* how many faults have happened
          tainted  \* items something listed at PointFollowsRow happened to

vars == <<row, made, marked, point, req, fill, faults, tainted>>

-----------------------------------------------------------------------------
Content == [title : Titles, text : Texts]

\* Part of a content: None is a field that an update does not mention, or that
\* did not go into a vector.
Part == [title : Titles \cup {None}, text : Texts \cup {None}]

ASSUME KnowledgeAssumption ==
    /\ None \notin Items /\ None \notin Titles /\ None \notin Texts
    /\ None \notin Part
    /\ Bodies \subseteq Part

\* What the API embeds of a row.
Embedded(content) == IF content = None THEN None ELSE [title |-> None, text |-> content.text]

\* A vector fits a row if all it was made of is still the row's, the text at least.
Fits(vector, content) ==
    \/ vector = None /\ content = None
    \/ /\ vector # None /\ content # None
       /\ vector.text = content.text
       /\ vector.title \in {None, content.title}

Idle == [op |-> "none", pc |-> "idle", item |-> None, new |-> None]

\* What the script has read (snap, had), has to do (todo of scope, cur), whether it
\* emptied the collection, and whether nobody else was active and no item failed
\* since it began.
Off == [pc |-> "off", force |-> FALSE, emptied |-> FALSE, alone |-> FALSE, snap |-> [i \in Items |-> None],
        had |-> {}, scope |-> {}, todo |-> {}, cur |-> None]

Present == {i \in Items : row[i] # None}

\* A flushed statement locks its row until the session ends.
Locked(i) == \E q \in Reqs : req[q].item = i /\ req[q].pc \in {"written", "synced"}

End(q) == req' = [req EXCEPT ![q] = Idle]

\* Somebody else is active: the backfill under way, if any, is not alone, and of
\* one that has ended nothing can be said any more.
Disturb == fill' = IF fill.pc = "done" THEN Off ELSE [fill EXCEPT !.alone = FALSE]

Fault == faults < MaxFaults /\ faults' = faults + 1

Taint(i, really) == tainted' = IF really THEN tainted \cup {i} ELSE tainted \ {i}

Init == /\ row = [i \in Items |-> None] /\ point = [i \in Items |-> None]
        /\ made = {} /\ marked = {} /\ tainted = {}
        /\ req = [q \in Reqs |-> Idle]
        /\ fill = Off
        /\ faults = 0

-----------------------------------------------------------------------------
(* Requests *)

(* create_knowledge_item inserts and flushes at once.                       *)
Create(q, i, content) ==
    /\ req[q] = Idle
    /\ i \notin made
    /\ made' = made \cup {i}
    /\ req' = [req EXCEPT ![q] = [op |-> "embed", pc |-> "written", item |-> i, new |-> content]]
    /\ Disturb
    /\ UNCHANGED <<row, marked, point, faults, tainted>>

Load(q, i, op, change) ==
    /\ req[q] = Idle
    /\ i \in Present
    /\ req' = [req EXCEPT ![q] = [op |-> op, pc |-> "loaded", item |-> i, new |-> change]]
    /\ Disturb
    /\ UNCHANGED <<row, made, marked, point, faults, tainted>>

\* What an update will write: what it asks for and the row, as it was loaded, is not.
Changes(ask, old) == [title |-> IF ask.title = old.title THEN None ELSE ask.title,
                      text |-> IF ask.text = old.text THEN None ELSE ask.text]

(* An update or deletion first reads the row.  An update with content embeds *)
(* it later, even if it resends what the row has; meta is one without.       *)
LoadUpdate(q, i, ask) ==
    Load(q, i, IF ask.text = None THEN "meta" ELSE "embed", Changes(ask, row[i]))

\* The row after the statement, as the refresh reads it.
Written(q) ==
    LET old == row[req[q].item]
        change == req[q].new
    IN  IF req[q].op = "delete" THEN None
        ELSE [title |-> IF change.title # None THEN change.title ELSE old.title,
              text |-> IF change.text # None THEN change.text ELSE old.text]

WriteAnyway(q) ==
    /\ req[q].pc = "loaded"
    /\ row[req[q].item] # None \/ req[q].op = "delete"
    /\ req' = [req EXCEPT ![q].pc = "written", ![q].new = Written(q)]
    /\ UNCHANGED <<row, made, marked, point, fill, faults, tainted>>

(* The UPDATE or DELETE; it waits for the lock.  A row that has gone makes  *)
(* an UPDATE raise, a DELETE only warn.                                     *)
Write(q) ==
    /\ req[q].pc = "loaded"
    /\ ~Locked(req[q].item)
    /\ row[req[q].item] # None \/ req[q].op = "delete"
    /\ req' = [req EXCEPT ![q].pc = "written", ![q].new = Written(q)]
    /\ UNCHANGED <<row, made, marked, point, fill, faults, tainted>>

(* If no other column changes either there is no UPDATE and no lock: the    *)
(* refresh reads the row as it is now, and that text is embedded.           *)
Reread(q) ==
    /\ req[q].pc = "loaded"
    /\ req[q].op = "embed" /\ req[q].new = [title |-> None, text |-> None]
    /\ row[req[q].item] # None
    /\ req' = [req EXCEPT ![q].pc = "unlocked", ![q].new = Written(q)]
    /\ UNCHANGED <<row, made, marked, point, fill, faults, tainted>>

MetaRowIsGone(q) ==
    /\ req[q].pc = "loaded"
    /\ req[q].op = "meta"
    /\ ~Locked(req[q].item)
    /\ row[req[q].item] = None
    /\ End(q)
    /\ UNCHANGED <<row, made, marked, point, fill, faults, tainted>>

RowIsGone(q) ==
    /\ req[q].pc = "loaded"
    /\ req[q].op # "delete"
    /\ ~Locked(req[q].item)
    /\ row[req[q].item] = None
    /\ End(q)
    /\ UNCHANGED <<row, made, marked, point, fill, faults, tainted>>

(* _sync_embedding and _delete_vector.                                      *)
Sync(q) ==
    /\ req[q].pc = "written" /\ req[q].op # "meta"
    /\ point' = [point EXCEPT ![req[q].item] = Embedded(req[q].new)]
    /\ req' = [req EXCEPT ![q].pc = "synced"]
    /\ Taint(req[q].item, FALSE)
    /\ UNCHANGED <<row, made, marked, fill, faults>>

SyncUnlocked(q) ==
    /\ req[q].pc = "unlocked"
    /\ point' = [point EXCEPT ![req[q].item] = Embedded(req[q].new)]
    /\ End(q)
    /\ Taint(req[q].item, TRUE)
    /\ UNCHANGED <<row, made, marked, fill, faults>>

\* The vector of the item was made of a title too, and of another one.
TitleIsStale(q) ==
    point[req[q].item] # None /\ point[req[q].item].title \notin {None, req[q].new.title}

(* An update without content embeds nothing, although the backfill may have *)
(* embedded the title it replaces.                                          *)
Commit(q) ==
    /\ req[q].pc = (IF req[q].op = "meta" THEN "written" ELSE "synced")
    /\ row' = [row EXCEPT ![req[q].item] = req[q].new]
    /\ marked' = IF req[q].new = None THEN marked \ {req[q].item} ELSE marked
    /\ tainted' = IF req[q].op = "meta" /\ TitleIsStale(q) THEN tainted \cup {req[q].item} ELSE tainted
    /\ End(q)
    /\ UNCHANGED <<made, point, fill, faults>>

(* The embedder or Qdrant fails.  The handler of the failure raises a        *)
(* NameError (item_id is no name there), so the request is rolled back; the  *)
(* call may have reached Qdrant all the same.                               *)
SyncFails(q) ==
    /\ Fault
    /\ req[q].pc \in {"written", "unlocked"} /\ req[q].op \notin {"meta", "delete"}
    /\ \/ UNCHANGED <<point, tainted>>
       \/ point' = [point EXCEPT ![req[q].item] = Embedded(req[q].new)] /\ Taint(req[q].item, TRUE)
    /\ End(q)
    /\ UNCHANGED <<row, made, marked, fill>>

(* The failure to delete a vector is logged, or not even noticed.           *)
DeleteFails(q) ==
    /\ Fault
    /\ req[q].pc = "written" /\ req[q].op = "delete"
    /\ req' = [req EXCEPT ![q].pc = "synced"]
    /\ Taint(req[q].item, TRUE)
    /\ UNCHANGED <<row, made, marked, point, fill>>

(* The worker dies or the commit fails.                                     *)
Crash(q) ==
    /\ Fault
    /\ req[q].pc # "idle"
    /\ tainted' = IF req[q].pc = "synced" THEN tainted \cup {req[q].item} ELSE tainted
    /\ End(q)
    /\ UNCHANGED <<row, made, marked, point, fill>>

(* A pipeline stores an item through KnowledgeService.create: no caller asks *)
(* for an embedding, so there is no point.                                  *)
PipelineCreates(i, content) ==
    /\ i \notin made
    /\ made' = made \cup {i}
    /\ row' = [row EXCEPT ![i] = content]
    /\ Taint(i, TRUE)
    /\ Disturb
    /\ UNCHANGED <<marked, point, req, faults>>

-----------------------------------------------------------------------------
(* backfill_embeddings *)

(* --force deletes the collection and makes a new one.  A failing DELETE is *)
(* logged, or not even noticed: the old points stay, and the script goes on. *)
FillBegins(force, emptied) ==
    /\ fill.pc \in {"off", "done"}
    /\ fill' = [Off EXCEPT !.pc = "begun", !.force = force, !.emptied = emptied,
                           !.alone = \A q \in Reqs : req[q] = Idle]
    /\ \/ emptied /\ force /\ point' = [i \in Items |-> None] /\ tainted' = made /\ UNCHANGED faults
       \/ ~emptied /\ force /\ Fault /\ UNCHANGED <<point, tainted>>
       \/ ~emptied /\ ~force /\ UNCHANGED <<point, tainted, faults>>
    /\ UNCHANGED <<row, made, marked, req>>

\* After the last item the script ends; what is left of it matters if it was alone.
Onward(f) ==
    IF f.todo # {} THEN [f EXCEPT !.pc = "running", !.cur = None]
    ELSE IF f.alone THEN [f EXCEPT !.pc = "done", !.cur = None]
    ELSE Off

\* Items that already have an embedding are skipped, unless all are asked for.
ScopeIgnoresForce == Present \ marked

Scope == IF fill.force THEN Present ELSE Present \ marked

(* All rows are read once, at the start.                                    *)
FillReads ==
    /\ fill.pc = "begun"
    /\ fill' = Onward([fill EXCEPT !.snap = row, !.had = marked, !.scope = Scope, !.todo = Scope])
    /\ UNCHANGED <<row, made, marked, point, req, faults, tainted>>

(* Title and text are embedded, the columns committed.  That is an UPDATE    *)
(* only if the column was not set; if the row has gone it raises and the     *)
(* session, which nobody rolls back, fails every later item as well.        *)
FillCommits(i) ==
    /\ fill.pc = "running" /\ i \in fill.todo
    /\ \/ /\ i \in fill.had \/ (~Locked(i) /\ row[i] # None)
          /\ fill' = [fill EXCEPT !.pc = "committed", !.cur = i]
          /\ marked' = marked \cup ({i} \ fill.had)
       \/ /\ i \notin fill.had /\ row[i] = None
          /\ fill' = Onward([fill EXCEPT !.todo = {}, !.alone = FALSE])
          /\ UNCHANGED marked
    /\ UNCHANGED <<row, made, point, req, faults, tainted>>

(* Then the vector of the title and text that were read goes to Qdrant.      *)
FillUpserts ==
    LET i == fill.cur IN
    /\ fill.pc = "committed"
    /\ point' = [point EXCEPT ![i] = fill.snap[i]]
    /\ Taint(i, fill.snap[i] # row[i] \/ Locked(i))
    /\ fill' = Onward([fill EXCEPT !.todo = @ \ {i}])
    /\ UNCHANGED <<row, made, marked, req, faults>>

(* The failure of one item is logged.                                       *)
FillItemFails(i) ==
    /\ Fault
    /\ \/ fill.pc = "running" /\ i \in fill.todo
       \/ fill.pc = "committed" /\ i = fill.cur
    /\ fill' = Onward([fill EXCEPT !.todo = @ \ {i}, !.alone = FALSE])
    /\ UNCHANGED <<row, made, marked, point, req, tainted>>

FillDies ==
    /\ Fault
    /\ fill.pc \in {"begun", "running", "committed"}
    /\ fill' = Off
    /\ UNCHANGED <<row, made, marked, point, req, tainted>>

-----------------------------------------------------------------------------
Step(q) == Write(q) \/ Reread(q) \/ RowIsGone(q) \/ Sync(q) \/ SyncUnlocked(q) \/ Commit(q)

Arrive(q, i) ==
    \/ \E content \in Bodies \cap Content : Create(q, i, content)
    \/ \E ask \in Bodies : LoadUpdate(q, i, ask)
    \/ Load(q, i, "delete", None)

Breaks(q) == SyncFails(q) \/ DeleteFails(q) \/ Crash(q)

Fill == \/ \E force, emptied \in BOOLEAN : FillBegins(force, emptied)
        \/ FillReads \/ FillUpserts \/ FillDies
        \/ \E i \in Items : FillCommits(i) \/ FillItemFails(i)

Next == \/ \E q \in Reqs : Step(q) \/ Breaks(q) \/ \E i \in Items : Arrive(q, i)
        \/ \E i \in Items, content \in Bodies \cap Content : PipelineCreates(i, content)
        \/ Fill

Spec == Init /\ [][Next]_vars

(* The event loop runs every ready coroutine and calls have timeouts; strong *)
(* fairness matters only while a request waits for a lock, which PostgreSQL *)
(* grants in the order of the requests for it.                              *)
Fairness == \A q \in Reqs : SF_vars(Step(q))

FairSpec == Spec /\ Fairness

-----------------------------------------------------------------------------
(* Properties *)

StoresOK ==
    /\ row \in [Items -> Content \cup {None}] /\ point \in [Items -> Part \cup {None}]
    /\ made \subseteq Items /\ marked \subseteq made /\ tainted \subseteq made
    /\ \A i \in Items : i \notin made => row[i] = None
    /\ faults \in Nat

Request == [op : {"none", "embed", "meta", "delete"},
            pc : {"idle", "loaded", "written", "unlocked", "synced"},
            item : Items \cup {None}, new : Part \cup {None}]

\* What a request carries fits its step.
SlotOK(s) ==
    /\ s.pc # "idle" => s.op # "none"
    /\ s.op \in {"embed", "meta"} => s.new \in Part
    /\ s.op = "delete" => s.new = None
    /\ s.op = "meta" => s.pc \in {"loaded", "written"}
    /\ s.pc \in {"written", "unlocked", "synced"} /\ s.op # "delete" => s.new \in Content

RequestsOK ==
    /\ req \in [Reqs -> Request]
    /\ \A q \in Reqs : req[q] = Idle \/ (req[q].pc # "idle" /\ req[q].item \in made)
    /\ \A q \in Reqs : SlotOK(req[q])

FillOK ==
    /\ fill \in [pc : {"off", "begun", "running", "committed", "done"}, force : BOOLEAN,
                 emptied : BOOLEAN, alone : BOOLEAN, snap : [Items -> Content \cup {None}], had : SUBSET Items,
                 scope : SUBSET Items, todo : SUBSET Items, cur : Items \cup {None}]
    /\ fill.todo \subseteq fill.scope /\ fill.scope \subseteq made
    /\ fill.cur \in fill.todo \cup {None}
    /\ fill.pc = "committed" <=> fill.cur # None

\* Every variable has its type; a slot at rest holds nothing, a busy one an item
\* that was made, and the script works on items of its scope.
TypeOK == StoresOK /\ RequestsOK /\ FillOK

AtRest(i) == \A q \in Reqs : req[q].item # i

(* What Qdrant holds for an item that no request is working on was made of  *)
(* its row, and of a deleted row there is nothing: two stores without a      *)
(* common transaction are kept together by the lock a row carries from flush *)
(* to commit.  The exceptions, in tainted until the next upsert under the    *)
(* lock or of a fresh text by the backfill: a call that failed half way, a   *)
(* crash after the upsert, a text that was embedded without the lock, a      *)
(* title that the backfill embedded and an update without content replaced,  *)
(* an item of a pipeline, and a point the backfill removed or wrote from a   *)
(* stale read.                                                              *)
PointFollowsRow == \A i \in Items : AtRest(i) /\ i \notin tainted => Fits(point[i], row[i])

(* A backfill that is alone and fails at no item repairs every item in its   *)
(* scope, whatever state the two stores were in, and even if the collection  *)
(* could not be deleted; with --force this is every row, and if the deletion *)
(* succeeded no point is left of a row that has gone.                       *)
BackfillRepairs == fill.pc = "done" =>
    /\ \A i \in fill.scope : point[i] = row[i]
    /\ fill.force => Present \subseteq fill.scope
    /\ fill.emptied => point = row

(* Whoever waits for a row gets it or learns that it has gone: no request    *)
(* keeps a lock for ever.                                                   *)
EveryRequestEnds == \A q \in Reqs : req[q] # Idle ~> req[q] = Idle
=============================================================================

------------------------- MODULE KnowledgeSync_proofs -------------------------
(***************************************************************************)
(* Proofs about KnowledgeSync, for any sets of items, titles, texts, bodies  *)
(* and requests and any number of faults.                                   *)
(***************************************************************************)
EXTENDS KnowledgeSync, TLAPS

-----------------------------------------------------------------------------
(* Types *)

LEMMA InitTypeOK == Init => TypeOK
BY DEF Init, TypeOK, StoresOK, RequestsOK, SlotOK, FillOK, Request, Content, Part, Idle, Off

\* None is no content, no title and no text.
LEMMA NoneIsNone ==
    /\ None \notin Content /\ None \notin Part /\ None \notin Titles /\ None \notin Texts /\ None \notin Items
    /\ Content \subseteq Part /\ Bodies \subseteq Part
BY KnowledgeAssumption DEF Content, Part

LEMMA Busy ==
    ASSUME TypeOK, NEW q \in Reqs
    PROVE  /\ req[q] \in Request /\ SlotOK(req[q])
           /\ req[q] # Idle => req[q].pc # "idle" /\ req[q].item \in made /\ req[q].item \in Items
           /\ req[q].item \in Items => row[req[q].item] \in Content \cup {None}
<1>1. /\ req[q] \in Request /\ SlotOK(req[q])
      /\ req[q] # Idle => req[q].pc # "idle" /\ req[q].item \in made /\ req[q].item \in Items
  BY DEF TypeOK, RequestsOK, StoresOK
<1> QED
  BY <1>1 DEF TypeOK, StoresOK, Request

\* What a statement leaves of a row that exists is a content.
LEMMA WrittenIsContent ==
    ASSUME TypeOK, NEW q \in Reqs, req[q].pc = "loaded",
           row[req[q].item] # None \/ req[q].op = "delete"
    PROVE  /\ req[q].op = "delete" => Written(q) = None
           /\ req[q].op # "delete" => Written(q) \in Content
<1>1. req[q].item \in Items /\ SlotOK(req[q]) /\ req[q] \in Request
  BY Busy DEF Idle
<1>2. ASSUME req[q].op # "delete" PROVE Written(q) \in Content
  <2>1. req[q].new \in Part
    BY <1>1, <1>2 DEF SlotOK, Request
  <2>2. row[req[q].item] \in Content
    BY <1>1, <1>2, Busy
  <2> QED
    BY <1>2, <2>1, <2>2, NoneIsNone DEF Written, Content, Part
<1> QED
  BY <1>2 DEF Written

\* An embedding of a content is made of a part of it, and fits it.
LEMMA EmbeddedFits ==
    ASSUME NEW content \in Content \cup {None}
    PROVE  Embedded(content) \in Part \cup {None} /\ Fits(Embedded(content), content)
<1>1. CASE content = None
  BY <1>1 DEF Embedded, Fits
<1>2. CASE content \in Content
  <2>1. content # None /\ content.text \in Texts
    BY <1>2, NoneIsNone DEF Content
  <2>2. Embedded(content) = [title |-> None, text |-> content.text]
    BY <2>1 DEF Embedded
  <2>3. Embedded(content) \in Part /\ Embedded(content).title = None /\ Embedded(content).text = content.text
    BY <2>1, <2>2 DEF Part
  <2>4. Embedded(content) # None
    BY <2>3, NoneIsNone
  <2> QED
    BY <2>1, <2>3, <2>4 DEF Fits
<1> QED
  BY <1>1, <1>2

\* A request that moves on leaves the others as they are.
LEMMA OneSlot ==
    ASSUME RequestsOK, NEW q \in Reqs, NEW s \in Request, SlotOK(s),
           s = Idle \/ (s.pc # "idle" /\ s.item \in made'), made \subseteq made',
           req' = [req EXCEPT ![q] = s]
    PROVE  RequestsOK'
<1>1. req' \in [Reqs -> Request]
  BY DEF RequestsOK
<1>2. ASSUME NEW p \in Reqs PROVE (req'[p] = Idle \/ (req'[p].pc # "idle" /\ req'[p].item \in made')) /\ SlotOK(req'[p])
  BY DEF RequestsOK
<1> QED
  BY <1>1, <1>2 DEF RequestsOK

LEMMA IdleSlot == Idle \in Request /\ SlotOK(Idle)
BY DEF Idle, Request, SlotOK

LEMMA ArriveTypeOK ==
    ASSUME TypeOK, NEW q \in Reqs, NEW i \in Items, Arrive(q, i) PROVE TypeOK'
<1>1. ASSUME NEW content \in Content, Create(q, i, content) PROVE TypeOK'
  <2>1. StoresOK' /\ made \subseteq made' /\ i \in made'
    BY <1>1 DEF TypeOK, StoresOK, Create
  <2>2. FillOK'
    BY <1>1, NoneIsNone DEF TypeOK, StoresOK, FillOK, Create, Disturb, Off
  <2>3. RequestsOK'
    <3> DEFINE s == [op |-> "embed", pc |-> "written", item |-> i, new |-> content]
    <3>1. s \in Request /\ SlotOK(s) /\ s.pc # "idle" /\ s.item \in made'
      BY <2>1, NoneIsNone DEF Request, SlotOK
    <3>2. req' = [req EXCEPT ![q] = s]
      BY <1>1 DEF Create
    <3> HIDE DEF s
    <3> QED
      BY <2>1, <3>1, <3>2, OneSlot DEF TypeOK
  <2> QED
    BY <2>1, <2>2, <2>3 DEF TypeOK
<1>2. ASSUME NEW op \in {"embed", "meta", "delete"}, NEW change \in Part \cup {None},
             op = "delete" <=> change = None, Load(q, i, op, change)
      PROVE  TypeOK'
  <2>1. StoresOK' /\ made \subseteq made' /\ i \in made'
    BY <1>2 DEF TypeOK, StoresOK, Load, Present
  <2>2. FillOK'
    BY <1>2, NoneIsNone DEF TypeOK, StoresOK, FillOK, Load, Disturb, Off
  <2>3. RequestsOK'
    <3> DEFINE s == [op |-> op, pc |-> "loaded", item |-> i, new |-> change]
    <3>1. s \in Request /\ SlotOK(s) /\ s.pc # "idle" /\ s.item \in made'
      BY <1>2, <2>1 DEF Request, SlotOK
    <3>2. req' = [req EXCEPT ![q] = s]
      BY <1>2 DEF Load
    <3> HIDE DEF s
    <3> QED
      BY <2>1, <3>1, <3>2, OneSlot DEF TypeOK
  <2> QED
    BY <2>1, <2>2, <2>3 DEF TypeOK
<1>3. ASSUME NEW ask \in Bodies, LoadUpdate(q, i, ask) PROVE TypeOK'
  <2>1. Changes(ask, row[i]) \in Part /\ Changes(ask, row[i]) # None
    BY NoneIsNone DEF Changes, Part
  <2> QED
    BY <1>2, <1>3, <2>1 DEF LoadUpdate
<1> QED
  BY <1>1, <1>2, <1>3 DEF Arrive

\* The steps that a request takes by itself leave the script as it is.
LEMMA StepTypeOK ==
    ASSUME TypeOK, NEW q \in Reqs, Step(q) \/ Breaks(q) PROVE TypeOK'
<1>1. req[q].item \in Items /\ req[q].item \in made /\ req[q] # Idle
  <2>1. ASSUME Step(q) PROVE req[q].pc # "idle"
    BY <2>1 DEF Step, Write, Reread, RowIsGone, Sync, SyncUnlocked, Commit
  <2>2. ASSUME Breaks(q) PROVE req[q].pc # "idle"
    BY <2>2 DEF Breaks, SyncFails, DeleteFails, Crash
  <2> QED
    BY <2>1, <2>2, Busy DEF Idle
<1>2. FillOK' /\ made' = made
  BY DEF TypeOK, FillOK, Step, Breaks, Write, Reread, RowIsGone, Sync, SyncUnlocked, Commit, SyncFails, DeleteFails, Crash
<1>3. ASSUME Written(q) \in Content \cup {None}, req[q].op = "delete" <=> Written(q) = None,
             NEW pc \in {"written", "unlocked"}, req[q].op = "meta" => pc = "written",
             req[q].pc = "loaded",
             req' = [req EXCEPT ![q].pc = pc, ![q].new = Written(q)]
      PROVE  RequestsOK'
  <2> DEFINE new == Written(q)
             s == [req[q] EXCEPT !.pc = pc, !.new = new]
  <2>1. new \in Content \cup {None} /\ (req[q].op = "delete" <=> new = None)
    BY <1>3
  <2>2. req' = [req EXCEPT ![q].pc = pc, ![q].new = new]
    BY <1>3
  <2> HIDE DEF new
  <2>3. req[q] \in Request /\ SlotOK(req[q])
    BY Busy
  <2>4. s \in Request
    BY <2>1, <2>3, NoneIsNone DEF Request
  <2>5. s.op = req[q].op /\ s.pc = pc /\ s.item = req[q].item /\ s.new = new
    BY <2>3 DEF Request
  <2>6. SlotOK(s)
    BY <1>3, <2>1, <2>3, <2>5, NoneIsNone DEF SlotOK
  <2>7. req' = [req EXCEPT ![q] = s]
    BY <2>2 DEF TypeOK, RequestsOK, Request
  <2> HIDE DEF s
  <2> QED
    BY <1>1, <1>2, <1>3, <2>4, <2>5, <2>6, <2>7, OneSlot DEF TypeOK
<1>4. ASSUME req' = [req EXCEPT ![q].pc = "synced"], req[q].pc = "written", req[q].op # "meta" PROVE RequestsOK'
  <2> DEFINE s == [req[q] EXCEPT !.pc = "synced"]
  <2>1. req[q] \in Request /\ SlotOK(req[q])
    BY Busy
  <2>2. s \in Request /\ s.op = req[q].op /\ s.pc = "synced" /\ s.item = req[q].item /\ s.new = req[q].new
    BY <2>1 DEF Request
  <2>3. SlotOK(s)
    BY <1>4, <2>1, <2>2 DEF SlotOK
  <2>4. req' = [req EXCEPT ![q] = s]
    BY <1>4 DEF TypeOK, RequestsOK, Request
  <2> HIDE DEF s
  <2> QED
    BY <1>1, <1>2, <2>2, <2>3, <2>4, OneSlot DEF TypeOK
<1>5. ASSUME End(q) PROVE RequestsOK'
  BY <1>2, <1>5, IdleSlot, OneSlot DEF End, TypeOK
<1>6. ASSUME req[q].pc \in {"written", "unlocked", "synced"}
      PROVE  /\ req[q].new \in Content \cup {None}
             /\ Embedded(req[q].new) \in Part \cup {None}
  BY <1>6, Busy, EmbeddedFits DEF SlotOK
<1>7. ASSUME Write(q) PROVE TypeOK'
  BY <1>2, <1>3, <1>7, WrittenIsContent, NoneIsNone DEF TypeOK, StoresOK, Write
<1>8. ASSUME Reread(q) PROVE TypeOK'
  BY <1>2, <1>3, <1>8, WrittenIsContent, NoneIsNone DEF TypeOK, StoresOK, Reread
<1>9. ASSUME RowIsGone(q) PROVE TypeOK'
  BY <1>2, <1>5, <1>9 DEF TypeOK, StoresOK, RowIsGone
<1>10. ASSUME Sync(q) PROVE TypeOK'
  BY <1>1, <1>2, <1>4, <1>6, <1>10 DEF TypeOK, StoresOK, Sync, Taint
<1>11. ASSUME SyncUnlocked(q) PROVE TypeOK'
  BY <1>1, <1>2, <1>5, <1>6, <1>11 DEF TypeOK, StoresOK, SyncUnlocked, Taint
<1>12. ASSUME Commit(q) PROVE TypeOK'
  BY <1>1, <1>2, <1>5, <1>6, <1>12 DEF TypeOK, StoresOK, Commit
<1>13. ASSUME SyncFails(q) PROVE TypeOK'
  BY <1>1, <1>2, <1>5, <1>6, <1>13 DEF TypeOK, StoresOK, SyncFails, Fault, Taint
<1>14. ASSUME DeleteFails(q) PROVE TypeOK'
  BY <1>1, <1>2, <1>4, <1>14 DEF TypeOK, StoresOK, DeleteFails, Fault, Taint
<1>15. ASSUME Crash(q) PROVE TypeOK'
  BY <1>1, <1>2, <1>5, <1>15 DEF TypeOK, StoresOK, Crash, Fault
<1> QED
  BY <1>7, <1>8, <1>9, <1>10, <1>11, <1>12, <1>13, <1>14, <1>15 DEF Step, Breaks

LEMMA PipelineTypeOK ==
    ASSUME TypeOK, NEW i \in Items, NEW content \in Content, PipelineCreates(i, content) PROVE TypeOK'
<1>1. StoresOK'
  BY DEF TypeOK, StoresOK, PipelineCreates, Taint
<1>2. RequestsOK'
  BY DEF TypeOK, RequestsOK, PipelineCreates
<1>3. FillOK'
  BY NoneIsNone DEF TypeOK, StoresOK, FillOK, PipelineCreates, Disturb, Off
<1> QED
  BY <1>1, <1>2, <1>3 DEF TypeOK

\* The type of the script's record, without what ties its fields together.
Script == [pc : {"off", "begun", "running", "committed", "done"}, force : BOOLEAN,
           emptied : BOOLEAN, alone : BOOLEAN, snap : [Items -> Content \cup {None}],
           had : SUBSET Items, scope : SUBSET Items, todo : SUBSET Items, cur : Items \cup {None}]

LEMMA OnwardTypeOK ==
    ASSUME NEW f \in Script, f.todo \subseteq f.scope, f.scope \subseteq made', fill' = Onward(f)
    PROVE  FillOK'
BY NoneIsNone DEF Script, FillOK, Onward, Off

LEMMA FillTypeOK == ASSUME TypeOK, Fill PROVE TypeOK'
<1>1. RequestsOK' /\ made' = made
  BY DEF TypeOK, RequestsOK, Fill, FillBegins, FillReads, FillCommits, FillUpserts, FillItemFails, FillDies
<1>2. fill \in Script /\ fill.todo \subseteq fill.scope /\ fill.scope \subseteq made
  BY DEF TypeOK, FillOK, Script
<1>3. Present \subseteq made /\ Present \subseteq Items
  BY DEF TypeOK, StoresOK, Present
<1>4. ASSUME NEW force \in BOOLEAN, NEW emptied \in BOOLEAN, FillBegins(force, emptied) PROVE TypeOK'
  <2>1. StoresOK'
    BY <1>4 DEF TypeOK, StoresOK, FillBegins, Fault
  <2>2. FillOK'
    BY <1>4, NoneIsNone DEF FillOK, FillBegins, Off
  <2> QED
    BY <1>1, <2>1, <2>2 DEF TypeOK
<1>5. ASSUME FillReads PROVE TypeOK'
  <2> DEFINE f == [fill EXCEPT !.snap = row, !.had = marked, !.scope = Scope, !.todo = Scope]
  <2>1. StoresOK'
    BY <1>5 DEF TypeOK, StoresOK, FillReads
  <2>2. f \in Script /\ f.todo \subseteq f.scope /\ f.scope \subseteq made'
    BY <1>1, <1>2, <1>3 DEF TypeOK, StoresOK, Script, Scope
  <2>3. fill' = Onward(f)
    BY <1>5 DEF FillReads
  <2> HIDE DEF f
  <2> QED
    BY <1>1, <2>1, <2>2, <2>3, OnwardTypeOK DEF TypeOK
<1>6. ASSUME NEW i \in Items, FillCommits(i) PROVE TypeOK'
  <2>1. StoresOK'
    BY <1>2, <1>6 DEF TypeOK, StoresOK, FillCommits
  <2>2. CASE fill' = [fill EXCEPT !.pc = "committed", !.cur = i]
    <3>1. FillOK'
      BY <1>1, <1>6, <2>2, NoneIsNone DEF TypeOK, FillOK, FillCommits
    <3> QED
      BY <1>1, <2>1, <3>1 DEF TypeOK
  <2>3. CASE fill' = Onward([fill EXCEPT !.todo = {}, !.alone = FALSE])
    <3> DEFINE f == [fill EXCEPT !.todo = {}, !.alone = FALSE]
    <3>1. f \in Script /\ f.todo \subseteq f.scope /\ f.scope \subseteq made'
      BY <1>1, <1>2 DEF Script
    <3> HIDE DEF f
    <3> QED
      BY <1>1, <2>1, <2>3, <3>1, OnwardTypeOK DEF f, TypeOK
  <2> QED
    BY <1>6, <2>2, <2>3 DEF FillCommits
<1>7. ASSUME FillUpserts PROVE TypeOK'
  <2>1. StoresOK'
    BY <1>2, <1>7, NoneIsNone DEF TypeOK, StoresOK, FillOK, Script, FillUpserts, Taint
  <2> DEFINE f == [fill EXCEPT !.todo = @ \ {fill.cur}]
  <2>2. f \in Script /\ f.todo \subseteq f.scope /\ f.scope \subseteq made'
    BY <1>1, <1>2 DEF Script
  <2>3. fill' = Onward(f)
    BY <1>7 DEF FillUpserts
  <2> HIDE DEF f
  <2> QED
    BY <1>1, <2>1, <2>2, <2>3, OnwardTypeOK DEF TypeOK
<1>8. ASSUME NEW i \in Items, FillItemFails(i) PROVE TypeOK'
  <2>1. StoresOK'
    BY <1>8 DEF TypeOK, StoresOK, FillItemFails, Fault
  <2> DEFINE f == [fill EXCEPT !.todo = @ \ {i}, !.alone = FALSE]
  <2>2. f \in Script /\ f.todo \subseteq f.scope /\ f.scope \subseteq made'
    BY <1>1, <1>2 DEF Script
  <2>3. fill' = Onward(f)
    BY <1>8 DEF FillItemFails
  <2> HIDE DEF f
  <2> QED
    BY <1>1, <2>1, <2>2, <2>3, OnwardTypeOK DEF TypeOK
<1>9. ASSUME FillDies PROVE TypeOK'
  <2>1. StoresOK'
    BY <1>9 DEF TypeOK, StoresOK, FillDies, Fault
  <2>2. FillOK'
    BY <1>9, NoneIsNone DEF FillOK, FillDies, Off
  <2> QED
    BY <1>1, <2>1, <2>2 DEF TypeOK
<1> QED
  BY <1>4, <1>5, <1>6, <1>7, <1>8, <1>9 DEF Fill

LEMMA NextTypeOK == TypeOK /\ [Next]_vars => TypeOK'
<1> SUFFICES ASSUME TypeOK, [Next]_vars PROVE TypeOK'
  OBVIOUS
<1>1. UNCHANGED vars => TypeOK'
  BY DEF vars, TypeOK, StoresOK, RequestsOK, FillOK
<1> QED
  BY <1>1, ArriveTypeOK, StepTypeOK, PipelineTypeOK, FillTypeOK DEF Next

(* Every variable keeps its type, and nobody works on an item that was not  *)
(* made.                                                                    *)
THEOREM TypeCorrect == Spec => []TypeOK
BY InitTypeOK, NextTypeOK, PTL DEF Spec

-----------------------------------------------------------------------------
(* Why points follow rows *)

Holds(q, i) == req[q].item = i /\ req[q].pc \in {"written", "synced"}

SyncedOn(q, i) == req[q].item = i /\ req[q].pc = "synced"

(* The lock of a row is held by one request at a time.                      *)
LocksAreExclusive == \A p, q \in Reqs, i \in Items : Holds(p, i) /\ Holds(q, i) => p = q

(* An update without content commits the text that the row has.             *)
MetaKeepsText == \A q \in Reqs : req[q].op = "meta" =>
    /\ req[q].pc = "loaded" => req[q].new.text = None
    /\ req[q].pc = "written" => row[req[q].item] # None /\ req[q].new.text = row[req[q].item].text

(* Between its upsert and its commit the holder of the lock is ahead of the *)
(* row by what it will commit; otherwise the point fits the row.            *)
PointsAreAhead == \A i \in Items \ tainted :
    /\ (\A q \in Reqs : ~SyncedOn(q, i)) => Fits(point[i], row[i])
    /\ \A q \in Reqs : SyncedOn(q, i) => Fits(point[i], req[q].new)

Kept == LocksAreExclusive /\ MetaKeepsText /\ PointsAreAhead

IInv == TypeOK /\ Kept

LEMMA InitIInv == Init => IInv
<1> SUFFICES ASSUME Init PROVE IInv
  OBVIOUS
<1>1. Kept
  BY DEF Init, Kept, LocksAreExclusive, MetaKeepsText, PointsAreAhead, Holds, SyncedOn, Idle, Fits
<1> QED
  BY <1>1, InitTypeOK DEF IInv

\* What is said of rows and points survives a step in which one request moves on
\* without holding a lock afterwards, no row changes and no point that counts.
LEMMA SlotLetsGo ==
    ASSUME IInv, NEW q \in Reqs, NEW s, s.pc \notin {"written", "synced"},
           s.op = "meta" /\ s.pc = "loaded" => s.new.text = None,
           req[q].pc # "synced" \/ tainted' = tainted \cup {req[q].item},
           req' = [req EXCEPT ![q] = s], row' = row, tainted \subseteq tainted',
           \A j \in Items \ tainted' : point'[j] = point[j]
    PROVE  Kept'
<1> USE DEF IInv, TypeOK, StoresOK, RequestsOK, Kept
<1>1. \A p \in Reqs : req'[p] = IF p = q THEN s ELSE req[p]
  OBVIOUS
<1>2. LocksAreExclusive'
  BY <1>1 DEF LocksAreExclusive, Holds
<1>3. MetaKeepsText'
  BY <1>1 DEF MetaKeepsText
<1>4. PointsAreAhead'
  <2> SUFFICES ASSUME NEW i \in Items \ tainted'
               PROVE  /\ (\A p \in Reqs : ~SyncedOn(p, i)') => Fits(point'[i], row'[i])
                      /\ \A p \in Reqs : SyncedOn(p, i)' => Fits(point'[i], req'[p].new)
    BY DEF PointsAreAhead, Fits
  <2>1. \A p \in Reqs : SyncedOn(p, i)' <=> SyncedOn(p, i)
    BY <1>1 DEF SyncedOn
  <2>2. \A p \in Reqs : SyncedOn(p, i) => req'[p] = req[p]
    BY <1>1, <2>1 DEF SyncedOn
  <2> QED
    BY <2>1, <2>2 DEF PointsAreAhead
<1> QED
  BY <1>2, <1>3, <1>4

LEMMA ArriveKeeps ==
    ASSUME IInv, NEW q \in Reqs, NEW i \in Items, Arrive(q, i) PROVE Kept'
<1>1. ASSUME NEW content \in Content, Create(q, i, content) PROVE Kept'
  <2> USE <1>1 DEF IInv, TypeOK, StoresOK, RequestsOK, Kept
  <2> DEFINE s == [op |-> "embed", pc |-> "written", item |-> i, new |-> content]
  <2>1. \A p \in Reqs : req'[p] = IF p = q THEN s ELSE req[p]
    BY DEF Create
  <2>2. \A p \in Reqs : p # q => req[p].item # i
    BY NoneIsNone DEF Create, Idle
  <2>3. row' = row /\ point' = point /\ tainted' = tainted /\ req[q] = Idle
    BY DEF Create
  <2>4. LocksAreExclusive'
    BY <2>1, <2>2 DEF LocksAreExclusive, Holds
  <2>5. MetaKeepsText'
    BY <2>1, <2>3 DEF MetaKeepsText
  <2>6. PointsAreAhead'
    <3>1. \A j \in Items, p \in Reqs : SyncedOn(p, j)' <=> SyncedOn(p, j)
      BY <2>1, <2>3 DEF SyncedOn, Idle
    <3>2. \A j \in Items, p \in Reqs : SyncedOn(p, j) => req'[p] = req[p]
      BY <2>1, <2>3 DEF SyncedOn, Idle
    <3> QED
      BY <2>3, <3>1, <3>2 DEF PointsAreAhead
  <2> QED
    BY <2>4, <2>5, <2>6
<1>2. ASSUME NEW op \in {"embed", "meta", "delete"}, NEW change,
             op = "meta" => change.text = None, Load(q, i, op, change)
      PROVE  Kept'
  <2> DEFINE s == [op |-> op, pc |-> "loaded", item |-> i, new |-> change]
  <2>1. s.pc = "loaded" /\ s.op = op /\ s.new = change
    OBVIOUS
  <2>2. /\ req' = [req EXCEPT ![q] = s] /\ req[q].pc # "synced"
        /\ row' = row /\ point' = point /\ tainted' = tainted
    BY <1>2 DEF Load, Idle
  <2> HIDE DEF s
  <2> QED
    BY <1>2, <2>1, <2>2, SlotLetsGo
<1>3. ASSUME NEW ask \in Bodies, LoadUpdate(q, i, ask) PROVE Kept'
  BY <1>2, <1>3 DEF LoadUpdate, Changes
<1> QED
  BY <1>1, <1>2, <1>3, NoneIsNone DEF Arrive

\* The request that holds the lock of a row ends; row and point change to something
\* that fits, or the item is tainted.
LEMMA HolderEnds ==
    ASSUME IInv, NEW q \in Reqs, NEW i \in Items, Holds(q, i), End(q),
           \A j \in Items \ {i} : row'[j] = row[j] /\ point'[j] = point[j],
           tainted \ {i} \subseteq tainted',
           i \in tainted' \/ Fits(point'[i], row'[i])
    PROVE  Kept'
<1> USE DEF IInv, TypeOK, StoresOK, RequestsOK, Kept
<1>1. \A p \in Reqs : req'[p] = IF p = q THEN Idle ELSE req[p]
  BY DEF End
<1>2. \A p \in Reqs : Holds(p, i) => p = q
  BY DEF LocksAreExclusive
<1>3. LocksAreExclusive'
  BY <1>1 DEF LocksAreExclusive, Holds, Idle
<1>4. MetaKeepsText'
  <2> SUFFICES ASSUME NEW p \in Reqs, req'[p].op = "meta", req'[p].pc \in {"loaded", "written"}
               PROVE  /\ req'[p].pc = "loaded" => req'[p].new.text = None
                      /\ req'[p].pc = "written" => row'[req'[p].item] # None /\ req'[p].new.text = row'[req'[p].item].text
    BY DEF MetaKeepsText
  <2>1. p # q /\ req'[p] = req[p]
    BY <1>1 DEF Idle
  <2>2. req[p].pc = "written" => req[p].item \in Items \ {i}
    BY <1>2, <2>1, Busy DEF Holds, Idle
  <2> QED
    BY <2>1, <2>2 DEF MetaKeepsText
<1>5. PointsAreAhead'
  <2> SUFFICES ASSUME NEW j \in Items \ tainted'
               PROVE  /\ (\A p \in Reqs : ~SyncedOn(p, j)') => Fits(point'[j], row'[j])
                      /\ \A p \in Reqs : SyncedOn(p, j)' => Fits(point'[j], req'[p].new)
    BY DEF PointsAreAhead, Fits
  <2>1. CASE j = i
    <3>1. \A p \in Reqs : ~SyncedOn(p, i)'
      BY <1>1, <1>2, NoneIsNone DEF SyncedOn, Holds, Idle
    <3> QED
      BY <2>1, <3>1
  <2>2. CASE j # i
    <3>1. \A p \in Reqs : SyncedOn(p, j)' <=> SyncedOn(p, j)
      BY <1>1, <2>2, NoneIsNone DEF SyncedOn, Holds, Idle
    <3>2. \A p \in Reqs : SyncedOn(p, j) => req'[p] = req[p]
      BY <1>1, <2>2 DEF SyncedOn, Holds
    <3>3. point'[j] = point[j] /\ row'[j] = row[j] /\ j \notin tainted
      BY <2>2
    <3> QED
      BY <3>1, <3>2, <3>3 DEF PointsAreAhead
  <2> QED
    BY <2>1, <2>2
<1> QED
  BY <1>3, <1>4, <1>5

\* The request that has written a row goes on to "synced"; the point fits what it will
\* commit, or the item is tainted.
LEMMA HolderSyncs ==
    ASSUME IInv, NEW q \in Reqs, NEW i \in Items, Holds(q, i), req[q].op # "meta",
           req' = [req EXCEPT ![q].pc = "synced"], row' = row,
           \A j \in Items \ {i} : point'[j] = point[j],
           tainted \ {i} \subseteq tainted',
           i \in tainted' \/ Fits(point'[i], req[q].new)
    PROVE  Kept'
<1> USE DEF IInv, TypeOK, StoresOK, RequestsOK, Request, Kept
<1>1. /\ \A p \in Reqs : p # q => req'[p] = req[p]
      /\ req'[q].pc = "synced" /\ req'[q].op = req[q].op /\ req'[q].item = i /\ req'[q].new = req[q].new
  BY DEF Holds
<1>2. \A p \in Reqs : Holds(p, i) => p = q
  BY DEF LocksAreExclusive
<1>3. LocksAreExclusive'
  BY <1>1 DEF LocksAreExclusive, Holds
<1>4. MetaKeepsText'
  BY <1>1 DEF MetaKeepsText
<1>5. PointsAreAhead'
  <2> SUFFICES ASSUME NEW j \in Items \ tainted'
               PROVE  /\ (\A p \in Reqs : ~SyncedOn(p, j)') => Fits(point'[j], row'[j])
                      /\ \A p \in Reqs : SyncedOn(p, j)' => Fits(point'[j], req'[p].new)
    BY DEF PointsAreAhead, Fits
  <2>1. CASE j = i
    <3>1. \A p \in Reqs : SyncedOn(p, i)' => p = q
      BY <1>1, <1>2 DEF SyncedOn, Holds
    <3>2. SyncedOn(q, i)'
      BY <1>1 DEF SyncedOn
    <3> QED
      BY <1>1, <2>1, <3>1, <3>2
  <2>2. CASE j # i
    <3>1. \A p \in Reqs : SyncedOn(p, j)' <=> SyncedOn(p, j)
      BY <1>1, <2>2 DEF SyncedOn, Holds
    <3>2. \A p \in Reqs : SyncedOn(p, j) => req'[p] = req[p]
      BY <1>1, <2>2 DEF SyncedOn, Holds
    <3>3. point'[j] = point[j] /\ j \notin tainted
      BY <2>2
    <3> QED
      BY <3>1, <3>2, <3>3 DEF PointsAreAhead
  <2> QED
    BY <2>1, <2>2
<1> QED
  BY <1>3, <1>4, <1>5

LEMMA StepKeeps ==
    ASSUME IInv, NEW q \in Reqs, Step(q) \/ Breaks(q) PROVE Kept'
<1> DEFINE i == req[q].item
<1>1. i \in Items /\ req[q] \in Request /\ SlotOK(req[q]) /\ i \in made
  <2>1. ASSUME Step(q) PROVE req[q].pc # "idle"
    BY <2>1 DEF Step, Write, Reread, RowIsGone, Sync, SyncUnlocked, Commit
  <2>2. ASSUME Breaks(q) PROVE req[q].pc # "idle"
    BY <2>2 DEF Breaks, SyncFails, DeleteFails, Crash
  <2> QED
    BY <2>1, <2>2, Busy DEF Idle, IInv
<1>2. req[q].pc \in {"written", "synced"} => Holds(q, i)
  BY DEF Holds
<1>3. /\ req \in [Reqs -> Request]
      /\ point \in [Items -> Part \cup {None}] /\ row \in [Items -> Content \cup {None}]
  BY DEF IInv, TypeOK, StoresOK, RequestsOK
<1>4. req[q].pc \in {"written", "synced", "unlocked"} => req[q].new \in Content \cup {None}
  BY <1>1 DEF SlotOK
<1>5. ASSUME Write(q) PROVE Kept'
  <2> DEFINE new == Written(q)
             s == [req[q] EXCEPT !.pc = "written", !.new = new]
  <2>1. req[q].pc = "loaded" /\ ~Locked(i)
    BY <1>5 DEF Write
  <2>2. req[q].op = "meta" => row[i] # None /\ new.text = row[i].text
    BY <1>1, <1>5, <2>1 DEF Write, Written, IInv, Kept, MetaKeepsText
  <2>3. req' = [req EXCEPT ![q].pc = "written", ![q].new = new]
    BY <1>5 DEF Write
  <2> HIDE DEF new
  <2>4. \A p \in Reqs : req'[p] = IF p = q THEN s ELSE req[p]
    BY <1>3, <2>3 DEF Request
  <2>5. s.pc = "written" /\ s.op = req[q].op /\ s.item = i /\ s.new = new
    BY <1>1 DEF Request
  <2> HIDE DEF s
  <2>6. row' = row /\ point' = point /\ tainted' = tainted
    BY <1>5 DEF Write
  <2>7. LocksAreExclusive'
    BY <2>1, <2>4, <2>5 DEF IInv, Kept, LocksAreExclusive, Holds, Locked
  <2>8. MetaKeepsText'
    BY <2>2, <2>4, <2>5, <2>6 DEF IInv, Kept, MetaKeepsText
  <2>9. PointsAreAhead'
    <3>1. \A j \in Items, p \in Reqs : SyncedOn(p, j)' <=> SyncedOn(p, j)
      BY <2>1, <2>4, <2>5 DEF SyncedOn
    <3>2. \A j \in Items, p \in Reqs : SyncedOn(p, j) => req'[p] = req[p]
      BY <2>1, <2>4 DEF SyncedOn
    <3> QED
      BY <2>6, <3>1, <3>2 DEF IInv, Kept, PointsAreAhead
  <2> QED
    BY <2>7, <2>8, <2>9 DEF Kept
<1>6. ASSUME Reread(q) PROVE Kept'
  <2> DEFINE new == Written(q)
             s == [req[q] EXCEPT !.pc = "unlocked", !.new = new]
  <2>1. req[q].pc = "loaded" /\ req[q].op = "embed"
    BY <1>6 DEF Reread
  <2>2. req' = [req EXCEPT ![q].pc = "unlocked", ![q].new = new]
    BY <1>6 DEF Reread
  <2> HIDE DEF new
  <2>3. req' = [req EXCEPT ![q] = s]
    BY <1>3, <2>2 DEF Request
  <2>4. s.pc = "unlocked"
    BY <1>1 DEF Request
  <2> HIDE DEF s
  <2>5. row' = row /\ point' = point /\ tainted' = tainted
    BY <1>6 DEF Reread
  <2> QED
    BY <2>1, <2>3, <2>4, <2>5, SlotLetsGo
<1>7. ASSUME End(q), req[q].pc # "synced", row' = row, tainted \subseteq tainted',
             \A j \in Items \ tainted' : point'[j] = point[j]
      PROVE  Kept'
  BY <1>7, SlotLetsGo DEF End, Idle
<1>8. ASSUME RowIsGone(q) PROVE Kept'
  BY <1>7, <1>8 DEF RowIsGone
<1>9. ASSUME Sync(q) PROVE Kept'
  <2>1. req[q].pc = "written" /\ req[q].op # "meta" /\ Holds(q, i) /\ row' = row
    BY <1>2, <1>9 DEF Sync
  <2>2. point' = [point EXCEPT ![i] = Embedded(req[q].new)] /\ tainted' = tainted \ {i}
    BY <1>9 DEF Sync, Taint
  <2>3. Fits(point'[i], req[q].new)
    BY <1>1, <1>3, <1>4, <2>1, <2>2, EmbeddedFits
  <2>4. req' = [req EXCEPT ![q].pc = "synced"]
    BY <1>9 DEF Sync
  <2> QED
    BY <1>1, <1>3, <2>1, <2>2, <2>3, <2>4, HolderSyncs
<1>10. ASSUME SyncUnlocked(q) PROVE Kept'
  <2>1. /\ point' = [point EXCEPT ![i] = Embedded(req[q].new)] /\ tainted' = tainted \cup {i}
        /\ End(q) /\ row' = row /\ req[q].pc # "synced"
    BY <1>10 DEF SyncUnlocked, Taint
  <2> QED
    BY <1>3, <1>7, <2>1
<1>11. ASSUME Commit(q) PROVE Kept'
  <2>1. End(q) /\ Holds(q, i) /\ row' = [row EXCEPT ![i] = req[q].new] /\ point' = point
    BY <1>2, <1>11 DEF Commit
  <2>2. CASE req[q].op # "meta"
    <3>1. req[q].pc = "synced" /\ tainted' = tainted /\ SyncedOn(q, i)
      BY <1>11, <2>2 DEF Commit, SyncedOn
    <3>2. i \in tainted' \/ Fits(point'[i], row'[i])
      BY <1>1, <1>3, <2>1, <3>1 DEF IInv, Kept, PointsAreAhead
    <3> QED
      BY <1>1, <1>3, <2>1, <3>1, <3>2, HolderEnds
  <2>3. CASE req[q].op = "meta"
    <3>1. req[q].pc = "written" /\ tainted' = IF TitleIsStale(q) THEN tainted \cup {i} ELSE tainted
      BY <1>11, <2>3 DEF Commit
    <3>2. \A p \in Reqs : ~SyncedOn(p, i)
      BY <1>1, <2>1, <3>1 DEF SyncedOn, Holds, IInv, Kept, LocksAreExclusive
    <3>3. row[i] # None /\ req[q].new.text = row[i].text /\ req[q].new # None
      BY <1>1, <2>3, <3>1, NoneIsNone DEF IInv, Kept, MetaKeepsText, SlotOK
    <3>4. i \in tainted \/ Fits(point[i], row[i])
      BY <1>1, <3>2 DEF IInv, Kept, PointsAreAhead
    <3>5. i \in tainted' \/ Fits(point[i], req[q].new)
      BY <3>1, <3>3, <3>4 DEF Fits, TitleIsStale
    <3>6. row'[i] = req[q].new
      BY <1>1, <1>3, <2>1
    <3> QED
      BY <1>1, <1>3, <2>1, <3>1, <3>5, <3>6, HolderEnds
  <2> QED
    BY <2>2, <2>3
<1>12. ASSUME SyncFails(q) PROVE Kept'
  <2>1. /\ req[q].pc # "synced" /\ End(q) /\ row' = row
        /\ \/ point' = point /\ tainted' = tainted
           \/ point' = [point EXCEPT ![i] = Embedded(req[q].new)] /\ tainted' = tainted \cup {i}
    BY <1>12 DEF SyncFails, Taint
  <2> QED
    BY <1>3, <1>7, <2>1
<1>13. ASSUME DeleteFails(q) PROVE Kept'
  <2>1. /\ req[q].op # "meta" /\ Holds(q, i) /\ req' = [req EXCEPT ![q].pc = "synced"]
        /\ row' = row /\ point' = point /\ tainted' = tainted \cup {i}
    BY <1>2, <1>13 DEF DeleteFails, Taint
  <2> QED
    BY <1>1, <2>1, HolderSyncs
<1>14. ASSUME Crash(q) PROVE Kept'
  <2>1. /\ End(q) /\ row' = row /\ point' = point
        /\ tainted' = IF req[q].pc = "synced" THEN tainted \cup {i} ELSE tainted
    BY <1>14 DEF Crash
  <2> QED
    BY <1>7, <1>14, <2>1, SlotLetsGo DEF End, Idle
<1> QED
  BY <1>5, <1>6, <1>8, <1>9, <1>10, <1>11, <1>12, <1>13, <1>14 DEF Step, Breaks

LEMMA PipelineKeeps ==
    ASSUME IInv, NEW i \in Items, NEW content \in Content, PipelineCreates(i, content) PROVE Kept'
<1> USE DEF IInv, TypeOK, StoresOK, RequestsOK, Kept
<1>1. req' = req /\ point' = point /\ tainted' = tainted \cup {i} /\ i \notin made
      /\ \A j \in Items \ {i} : row'[j] = row[j]
  BY DEF PipelineCreates, Taint
<1>2. LocksAreExclusive'
  BY <1>1 DEF LocksAreExclusive, Holds
<1>3. MetaKeepsText'
  <2>1. \A q \in Reqs : req[q].pc = "written" => req[q].item \in Items \ {i}
    BY <1>1, Busy DEF Idle
  <2> QED
    BY <1>1, <2>1 DEF MetaKeepsText
<1>4. PointsAreAhead'
  BY <1>1 DEF PointsAreAhead, SyncedOn
<1> QED
  BY <1>2, <1>3, <1>4

\* A step of the script that changes neither requests nor rows.
LEMMA OthersKeep ==
    ASSUME IInv, req' = req, row' = row,
           \A i \in Items \ tainted' :
               \/ i \notin tainted /\ point'[i] = point[i]
               \/ (\A q \in Reqs : ~SyncedOn(q, i)) /\ Fits(point'[i], row[i])
    PROVE  Kept'
<1>1. LocksAreExclusive' /\ MetaKeepsText'
  BY DEF IInv, Kept, LocksAreExclusive, MetaKeepsText, Holds
<1>2. PointsAreAhead'
  BY DEF IInv, Kept, PointsAreAhead, SyncedOn
<1> QED
  BY <1>1, <1>2 DEF Kept

LEMMA FillKeeps == ASSUME IInv, Fill PROVE Kept'
<1> USE DEF IInv, TypeOK, StoresOK, RequestsOK
<1>1. ASSUME NEW force \in BOOLEAN, NEW emptied \in BOOLEAN, FillBegins(force, emptied) PROVE Kept'
  <2>1. req' = req /\ row' = row
    BY <1>1 DEF FillBegins
  <2>2. CASE point' = point /\ tainted' = tainted
    BY <2>1, <2>2, OthersKeep
  <2>3. CASE point' = [i \in Items |-> None] /\ tainted' = made
    <3>1. \A i \in Items \ made : (\A q \in Reqs : ~SyncedOn(q, i)) /\ row[i] = None
      <4>1. ASSUME NEW i \in Items \ made, NEW q \in Reqs PROVE ~SyncedOn(q, i)
        BY Busy DEF SyncedOn, Idle
      <4>2. \A i \in Items \ made : row[i] = None
        OBVIOUS
      <4> QED
        BY <4>1, <4>2
    <3> QED
      BY <2>1, <2>3, <3>1, OthersKeep DEF Fits
  <2> QED
    BY <1>1, <2>2, <2>3 DEF FillBegins
<1>2. ASSUME FillReads PROVE Kept'
  BY <1>2, OthersKeep DEF FillReads
<1>3. ASSUME NEW i \in Items, FillCommits(i) PROVE Kept'
  BY <1>3, OthersKeep DEF FillCommits
<1>4. ASSUME FillUpserts PROVE Kept'
  <2> DEFINE i == fill.cur
             stale == fill.snap[i] # row[i] \/ Locked(i)
  <2>1. /\ req' = req /\ row' = row /\ point' = [point EXCEPT ![i] = fill.snap[i]]
        /\ tainted' = IF stale THEN tainted \cup {i} ELSE tainted \ {i}
    BY <1>4 DEF FillUpserts, Taint
  <2>2. i \in Items /\ row[i] \in Content \cup {None}
    BY <1>4, NoneIsNone DEF FillUpserts, FillOK
  <2>3. ~stale => \A q \in Reqs : ~SyncedOn(q, i)
    BY DEF Locked, SyncedOn
  <2>4. Fits(row[i], row[i])
    BY <2>2, NoneIsNone DEF Fits, Content
  <2>5. ASSUME NEW j \in Items \ tainted', j = i
        PROVE  (\A q \in Reqs : ~SyncedOn(q, j)) /\ Fits(point'[j], row[j])
    BY <2>1, <2>2, <2>3, <2>4, <2>5
  <2>6. ASSUME NEW j \in Items \ tainted', j # i PROVE j \notin tainted /\ point'[j] = point[j]
    BY <2>1, <2>6
  <2> QED
    BY <2>1, <2>5, <2>6, OthersKeep
<1>5. ASSUME NEW i \in Items, FillItemFails(i) PROVE Kept'
  BY <1>5, OthersKeep DEF FillItemFails
<1>6. ASSUME FillDies PROVE Kept'
  BY <1>6, OthersKeep DEF FillDies
<1> QED
  BY <1>1, <1>2, <1>3, <1>4, <1>5, <1>6 DEF Fill

LEMMA NextIInv == IInv /\ [Next]_vars => IInv'
<1> SUFFICES ASSUME IInv, [Next]_vars PROVE IInv'
  OBVIOUS
<1>1. UNCHANGED vars => Kept'
  BY OthersKeep DEF vars
<1>2. Kept'
  BY <1>1, ArriveKeeps, StepKeeps, PipelineKeeps, FillKeeps DEF Next
<1> QED
  BY <1>2, NextTypeOK DEF IInv

(* Whatever requests, pipelines and backfills overlap, the vector of an item *)
(* that none of the listed mishaps happened to was made of its row once no   *)
(* request works on it.                                                     *)
THEOREM PointsFollowRows == Spec => []PointFollowsRow
<1>1. IInv => PointFollowsRow
  BY DEF IInv, Kept, PointFollowsRow, PointsAreAhead, SyncedOn, AtRest
<1> QED
  BY <1>1, InitIInv, NextIInv, PTL DEF Spec

-----------------------------------------------------------------------------
(* Why a backfill repairs what it finds *)

\* No request is under way.
Quiet == \A q \in Reqs : req[q] = Idle

\* The items the script is done with have their vectors; a forced one works on every
\* row.
ScopeIsServed ==
    /\ fill.scope \subseteq Present
    /\ \A i \in fill.scope \ fill.todo : point[i] = row[i]
    /\ fill.force => fill.scope = Present

\* In a collection that was emptied there are no points but those it made.
RestIsEmpty ==
    IF fill.pc = "begun" THEN \A i \in Items : point[i] = None
    ELSE fill.force /\ \A i \in Items \ Present : point[i] = None

FillAlone ==
    fill.alone =>
        /\ Quiet
        /\ fill.pc # "off"
        /\ fill.emptied => fill.force /\ RestIsEmpty
        /\ fill.pc # "begun" => ScopeIsServed
        /\ fill.pc \in {"running", "committed"} => fill.snap = row
        /\ fill.pc = "done" => fill.todo = {}

\* Only of a script that was alone an end is kept.
DoneIsAlone == fill.pc = "done" => fill.alone

FillInv == FillAlone /\ DoneIsAlone

LEMMA RequestsKeepFillInv ==
    ASSUME TypeOK, FillInv, NEW q \in Reqs,
           Step(q) \/ Breaks(q) \/ \E i \in Items : Arrive(q, i)
    PROVE  FillInv'
<1>1. ASSUME Step(q) \/ Breaks(q) PROVE req[q].pc # "idle" /\ fill' = fill
  <2>1. ASSUME Step(q) PROVE req[q].pc # "idle" /\ fill' = fill
    BY <2>1 DEF Step, Write, Reread, RowIsGone, Sync, SyncUnlocked, Commit
  <2>2. ASSUME Breaks(q) PROVE req[q].pc # "idle" /\ fill' = fill
    BY <2>2 DEF Breaks, SyncFails, DeleteFails, Crash
  <2> QED
    BY <1>1, <2>1, <2>2
<1>2. ASSUME NEW i \in Items, Arrive(q, i) PROVE ~fill'.alone /\ fill'.pc # "done"
  BY <1>2 DEF Arrive, Create, LoadUpdate, Load, Disturb, Off, TypeOK, FillOK
<1>3. ASSUME Step(q) \/ Breaks(q) PROVE ~fill.alone /\ fill' = fill
  BY <1>1, <1>3 DEF FillInv, FillAlone, Quiet, Idle
<1> QED
  BY <1>2, <1>3 DEF FillInv, FillAlone, DoneIsAlone

LEMMA PipelineKeepsFillInv ==
    ASSUME TypeOK, NEW i \in Items, NEW content \in Content, PipelineCreates(i, content) PROVE FillInv'
BY DEF PipelineCreates, Disturb, Off, TypeOK, FillOK, FillInv, FillAlone, DoneIsAlone

LEMMA FillKeepsFillInv == ASSUME TypeOK, FillInv, Fill PROVE FillInv'
<1> USE DEF TypeOK, StoresOK, FillOK, FillInv, FillAlone, DoneIsAlone, Quiet, ScopeIsServed, RestIsEmpty, Present
<1>1. ASSUME NEW force \in BOOLEAN, NEW emptied \in BOOLEAN, FillBegins(force, emptied) PROVE FillInv'
  BY <1>1 DEF FillBegins, Off
<1>2. ASSUME FillReads PROVE FillInv'
  BY <1>2 DEF FillReads, Scope, Onward, Off
<1>3. ASSUME NEW i \in Items, FillCommits(i) PROVE FillInv'
  <2>1. /\ req' = req /\ row' = row /\ point' = point /\ fill.pc = "running"
    BY <1>3 DEF FillCommits
  <2>2. CASE fill' = [fill EXCEPT !.pc = "committed", !.cur = i]
    BY <2>1, <2>2
  <2>3. CASE fill' = Onward([fill EXCEPT !.todo = {}, !.alone = FALSE])
    BY <2>3 DEF Onward, Off
  <2> QED
    BY <1>3, <2>2, <2>3 DEF FillCommits
<1>4. ASSUME FillUpserts PROVE FillInv'
  BY <1>4, NoneIsNone DEF FillUpserts, Onward, Off
<1>5. ASSUME NEW i \in Items, FillItemFails(i) PROVE FillInv'
  BY <1>5 DEF FillItemFails, Onward, Off
<1>6. ASSUME FillDies PROVE FillInv'
  BY <1>6 DEF FillDies, Off
<1> QED
  BY <1>1, <1>2, <1>3, <1>4, <1>5, <1>6 DEF Fill

LEMMA NextFillInv == TypeOK /\ FillInv /\ [Next]_vars => FillInv'
<1>1. UNCHANGED vars /\ FillInv => FillInv'
  BY DEF vars, FillInv, FillAlone, DoneIsAlone, Quiet, ScopeIsServed, RestIsEmpty, Present
<1> QED
  BY <1>1, RequestsKeepFillInv, PipelineKeepsFillInv, FillKeepsFillInv DEF Next

(* A backfill that nobody interferes with leaves every item of its scope    *)
(* with the vector of its row; the scope of a forced one is every row, and  *)
(* if it could empty the collection no other point is left.                 *)
THEOREM RepairsItsScope == Spec => []BackfillRepairs
<1>1. Init => FillInv
  BY DEF Init, Off, FillInv, FillAlone, DoneIsAlone
<1>2. TypeOK /\ FillInv => BackfillRepairs
  <2> SUFFICES ASSUME TypeOK, FillInv, fill.pc = "done"
               PROVE  /\ \A i \in fill.scope : point[i] = row[i]
                      /\ fill.force => Present \subseteq fill.scope
                      /\ fill.emptied => point = row
    BY DEF BackfillRepairs
  <2>1. /\ \A i \in fill.scope : point[i] = row[i]
        /\ fill.force => fill.scope = Present
        /\ fill.emptied => fill.force /\ \A i \in Items \ Present : point[i] = None
    BY DEF FillInv, FillAlone, DoneIsAlone, ScopeIsServed, RestIsEmpty
  <2>2. ASSUME fill.emptied PROVE point = row
    <3>1. \A i \in Items : point[i] = row[i]
      BY <2>1, <2>2 DEF Present
    <3> QED
      BY <3>1 DEF TypeOK, StoresOK
  <2> QED
    BY <2>1, <2>2
<1> QED
  BY <1>1, <1>2, NextFillInv, TypeCorrect, PTL DEF Spec
=============================================================================

------------------------------- MODULE Session -------------------------------
(***************************************************************************)
(* The browser and the server together: the tabs of RefreshGate make the    *)
(* calls that TokenRotation serves.  The access token itself is not         *)
(* modelled: whether a request draws a 401 is up to the server.             *)
(***************************************************************************)
EXTENDS Naturals

CONSTANTS Tabs, Reqs, None, Slots, Endpoints, MaxTokens, MaxFaults

ASSUME SessionAssumption == None \notin Tabs

VARIABLES access, gate, req,
          stored, issued, cookie, slot, retired, spoiled, faults,
          from  \* from[h]: the tab that awaits the answer of slot h, or None

Gate == INSTANCE RefreshGate
Rotation == INSTANCE TokenRotation

browser == <<access, gate, req>>
server == <<stored, issued, cookie, slot, retired, spoiled, faults>>
vars == <<browser, server, from>>

Init == Gate!Init /\ Rotation!Init /\ from = [h \in Slots |-> None]

-----------------------------------------------------------------------------
Fetches(h, t, op) == Rotation!Arrive(h, op) /\ from' = [from EXCEPT ![h] = t]

\* A fetch of tab t is under way for the promise of its gate.
Refreshing(h, t) == from[h] = t /\ slot[h].op = "refresh"

Send(q, t) == Gate!Send(q, t) /\ UNCHANGED <<server, from>>

Answered(q) == (Gate!Answered(q) \/ Gate!SignedOut(q)) /\ UNCHANGED <<server, from>>

AuthRefused(t) == Gate!AuthRefused(t) /\ UNCHANGED <<server, from>>

StartRefresh(q, h) ==
    /\ Gate!AwaitRefresh(q)
    /\ Gate!OpensGate(q)
    /\ Fetches(h, req[q].tab, "refresh")

JoinRefresh(q) ==
    /\ Gate!AwaitRefresh(q)
    /\ ~Gate!OpensGate(q)
    /\ UNCHANGED <<server, from>>

(* Login is called from a page, which keeps the token it answers with; what *)
(* logout and password change answer changes nothing in a page.             *)
Visit(h, t, op) ==
    /\ \/ op = "login" /\ t \in Tabs
       \/ op \in {"logout", "password"} /\ t = None
    /\ Fetches(h, t, op)
    /\ UNCHANGED browser

Serve(h) == Rotation!Handle(h) /\ UNCHANGED <<browser, from>>

(* What the tab that awaits h makes of its answer, or of its loss.          *)
Settles(h, answered) ==
    LET t == from[h] IN
    /\ from' = [from EXCEPT ![h] = None]
    /\ CASE t = None -> UNCHANGED browser
         [] t # None /\ slot[h].op = "refresh" /\ answered /\ slot[h].pc = "done" ->
                Gate!Resolve(t) \/ Gate!Reject(t)
         [] t # None /\ slot[h].op = "refresh" /\ ~(answered /\ slot[h].pc = "done") ->
                Gate!Reject(t)
         [] t # None /\ slot[h].op = "login" /\ answered -> Gate!Login(t)
         [] OTHER -> UNCHANGED browser

Answer(h) == Rotation!Answer(h) /\ Settles(h, TRUE)

Lose(h) == Rotation!Lose(h) /\ Settles(h, FALSE)

Reload(t) ==
    /\ Gate!Reload(t)
    /\ from' = [h \in Slots |-> IF from[h] = t THEN None ELSE from[h]]
    /\ UNCHANGED server

Next ==
    \/ \E q \in Reqs, t \in Tabs : Send(q, t)
    \/ \E q \in Reqs : Answered(q) \/ JoinRefresh(q) \/ \E h \in Slots : StartRefresh(q, h)
    \/ \E h \in Slots, t \in Tabs \cup {None}, op \in Endpoints : Visit(h, t, op)
    \/ \E h \in Slots : Serve(h) \/ Answer(h) \/ Lose(h)
    \/ \E t \in Tabs : Reload(t) \/ AuthRefused(t)

Spec == Init /\ [][Next]_vars

-----------------------------------------------------------------------------
(* Properties *)

\* Every variable has its type.
TypeOK == Gate!TypeOK /\ Rotation!TypeOK /\ from \in [Slots -> Tabs \cup {None}]

(* "Only one /auth/refresh request in flight at a time. Concurrent callers  *)
(* share the same Promise": a tab's promise stands for exactly one fetch,   *)
(* no fetch of a refresh is awaited without it, and nobody waits without it.*)
GateIsHonest == \A t \in Tabs :
    /\ gate[t] <=> \E h \in Slots : Refreshing(h, t)
    /\ \A g, h \in Slots : Refreshing(g, t) /\ Refreshing(h, t) => g = h
    /\ gate[t] <=> \E q \in Reqs : req[q].tab = t /\ req[q].pc = "waiting"

(* The server keeps the cookie of this browser alive, whatever its tabs do: *)
(* see TokenRotation.                                                       *)
CookieIsLive == Rotation!CookieIsLive
=============================================================================

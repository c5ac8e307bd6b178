----------------------------- MODULE RefreshGate -----------------------------
(***************************************************************************)
(* The browser's side of an expired access token: frontend/lib/api.ts and   *)
(* frontend/lib/token-manager.ts, loaded once in every tab.                 *)
(*                                                                         *)
(* JavaScript runs to completion, and the continuations of one promise run  *)
(* one after the other before any other event, so the end of a refresh and  *)
(* what all its waiters do is one step.  The server is the environment: the *)
(* actions say what the code does with each kind of answer.                 *)
(***************************************************************************)
EXTENDS Naturals

CONSTANTS Tabs, \* tabs of the browser
          Reqs, \* calls of request() that may be under way
          None

VARIABLES access, \* access[t]: whether _accessToken is set in tab t
          gate,   \* gate[t]: whether _refreshPromise is set in tab t
          req     \* req[q]: a call of request()

gateVars == <<access, gate, req>>

-----------------------------------------------------------------------------
\* A call of request() for a path that is no auth endpoint.  sends counts its
\* fetches; the second one carries __retried.
Free == [tab |-> None, pc |-> "free", sends |-> 0]

Retried(q) == req[q].sends > 1

AlwaysOpens(q) == TRUE

\* refreshAccessToken starts a fetch only if no promise is there to share.
OpensGate(q) == ~gate[req[q].tab]

Waiting(t) == {q \in Reqs : req[q].tab = t /\ req[q].pc = "waiting"}

Init == /\ access = [t \in Tabs |-> FALSE]
        /\ gate = [t \in Tabs |-> FALSE]
        /\ req = [q \in Reqs |-> Free]

-----------------------------------------------------------------------------
Send(q, t) ==
    /\ req[q] = Free
    /\ req' = [req EXCEPT ![q] = [tab |-> t, pc |-> "sent", sends |-> 1]]
    /\ UNCHANGED <<access, gate>>

(* Any answer but a 401, a 401 with details, or no answer at all.           *)
Answered(q) ==
    /\ req[q].pc = "sent"
    /\ req' = [req EXCEPT ![q] = Free]
    /\ UNCHANGED <<access, gate>>

(* A 401 to the second fetch: the token is dropped.                         *)
SignedOut(q) ==
    /\ req[q].pc = "sent"
    /\ Retried(q)
    /\ access' = [access EXCEPT ![req[q].tab] = FALSE]
    /\ req' = [req EXCEPT ![q] = Free]
    /\ UNCHANGED gate

(* A 401 that starts a refresh or joins the one under way.                  *)
AwaitRefresh(q) ==
    /\ req[q].pc = "sent"
    /\ ~Retried(q)
    /\ req' = [req EXCEPT ![q].pc = "waiting"]
    /\ gate' = [gate EXCEPT ![req[q].tab] = TRUE]
    /\ UNCHANGED access

(* The answer to a refresh holds a token: the waiters keep it and retry.    *)
Resolve(t) ==
    /\ gate[t]
    /\ gate' = [gate EXCEPT ![t] = FALSE]
    /\ access' = [access EXCEPT ![t] = TRUE]
    /\ req' = [q \in Reqs |-> IF q \in Waiting(t)
                              THEN [req[q] EXCEPT !.pc = "sent", !.sends = @ + 1]
                              ELSE req[q]]

(* A refresh that was refused, failed, never answered, or whose answer has  *)
(* no readable token: every waiter drops the token and throws.              *)
Reject(t) ==
    /\ gate[t]
    /\ gate' = [gate EXCEPT ![t] = FALSE]
    /\ access' = [access EXCEPT ![t] = FALSE]
    /\ req' = [q \in Reqs |-> IF q \in Waiting(t) THEN Free ELSE req[q]]

(* A 401 from an auth endpoint drops the token and refreshes nothing.       *)
AuthRefused(t) ==
    /\ access' = [access EXCEPT ![t] = FALSE]
    /\ UNCHANGED <<gate, req>>

(* The login page hands its token to auth-context, which sets it.           *)
Login(t) ==
    /\ access' = [access EXCEPT ![t] = TRUE]
    /\ UNCHANGED <<gate, req>>

(* The page is loaded anew: the modules and their promises are gone.        *)
Reload(t) ==
    /\ access' = [access EXCEPT ![t] = FALSE]
    /\ gate' = [gate EXCEPT ![t] = FALSE]
    /\ req' = [q \in Reqs |-> IF req[q].tab = t THEN Free ELSE req[q]]

-----------------------------------------------------------------------------
(* Properties *)

\* Every variable has its type.
TypeOK ==
    /\ access \in [Tabs -> BOOLEAN]
    /\ gate \in [Tabs -> BOOLEAN]
    /\ req \in [Reqs -> [tab : Tabs \cup {None}, pc : {"free", "sent", "waiting"},
                         sends : 0..2]]
=============================================================================

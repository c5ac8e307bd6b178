---------------------------- MODULE TokenRotation ----------------------------
(***************************************************************************)
(* Refresh tokens of one user: the endpoints of backend/routers/auth.py     *)
(* over the Redis store of backend/services/refresh_token_store.py, and the *)
(* one cookie aio_refresh_token of a browser that calls them.               *)
(*                                                                         *)
(* Every Redis command is a step of its own: a handler awaits between the   *)
(* look-up of a token, its deletion and the storing of its successor, and   *)
(* several calls of the browser (two tabs, a reload) may be under way.  A   *)
(* token is the number of its issue, 0 is no token.  Expiry is left out: a   *)
(* token and the cookie that holds it have the same seven days.             *)
(***************************************************************************)
EXTENDS Naturals

CONSTANTS Slots,     \* calls of the browser that may be under way at once
          Endpoints, \* those that are called, of login, refresh, logout and password
          MaxTokens, \* bound: tokens issued
          MaxFaults  \* bound: failed Redis commands, lost answers, crashes

VARIABLES stored,  \* the tokens Redis holds for the user
          issued,  \* how many tokens were created
          cookie,  \* the browser's aio_refresh_token
          slot,    \* slot[h]: the call in slot h
          retired, \* tokens withdrawn by logout, password change, deactivation
          spoiled, \* tokens a fault made useless: see UsedUp and FailureSwallowed
          faults   \* how many faults have happened

vars == <<stored, issued, cookie, slot, retired, spoiled, faults>>

-----------------------------------------------------------------------------
\* A call before it is made: its endpoint, the token it came with and the token
\* it creates.
Idle == [op |-> "none", pc |-> "idle", old |-> 0, new |-> 0]

Call(h, op) == [op |-> op, pc |-> "arrived", old |-> cookie, new |-> 0]

Goto(h, pc) == slot' = [slot EXCEPT ![h].pc = pc]

At(h, op, pc) == slot[h].op = op /\ slot[h].pc = pc

\* The cookie an answer sets or deletes; an error answer leaves it alone.
CookieAfter(h) ==
    CASE slot[h].pc = "done" /\ slot[h].op \in {"login", "refresh"} -> slot[h].new
      [] slot[h].pc = "done" /\ slot[h].op = "logout" -> 0
      [] OTHER -> cookie

Init == /\ stored = {} /\ issued = 0 /\ cookie = 0
        /\ slot = [h \in Slots |-> Idle]
        /\ retired = {} /\ spoiled = {} /\ faults = 0

-----------------------------------------------------------------------------
(* The browser calls an endpoint; the cookie goes with the request.         *)
Arrive(h, op) ==
    /\ slot[h] = Idle
    /\ slot' = [slot EXCEPT ![h] = Call(h, op)]
    /\ UNCHANGED <<stored, issued, cookie, retired, spoiled, faults>>

(* login: a new token, the old one stays where it is.                       *)
LoginCreates(h) ==
    /\ At(h, "login", "arrived")
    /\ issued < MaxTokens
    /\ issued' = issued + 1
    /\ slot' = [slot EXCEPT ![h].new = issued + 1, ![h].pc = "revoked"]
    /\ UNCHANGED <<stored, cookie, retired, spoiled, faults>>

(* refresh: validate, and create the successor.                             *)
Validate(h) ==
    /\ At(h, "refresh", "arrived")
    /\ slot[h].old \in stored
    /\ issued < MaxTokens
    /\ issued' = issued + 1
    /\ slot' = [slot EXCEPT ![h].new = issued + 1, ![h].pc = "valid"]
    /\ UNCHANGED <<stored, cookie, retired, spoiled, faults>>

Refuse(h) ==
    /\ At(h, "refresh", "arrived")
    /\ slot[h].old \notin stored
    /\ Goto(h, "refused")
    /\ UNCHANGED <<stored, issued, cookie, retired, spoiled, faults>>

(* rotate, first half: revoke the old token; whether it still was there is  *)
(* not looked at.                                                           *)
RevokeCookie(h) ==
    /\ At(h, "refresh", "valid")
    /\ stored' = stored \ {cookie}
    /\ Goto(h, "revoked")
    /\ UNCHANGED <<issued, cookie, retired, spoiled, faults>>

Revoke(h) ==
    /\ At(h, "refresh", "valid")
    /\ stored' = stored \ {slot[h].old}
    /\ Goto(h, "revoked")
    /\ UNCHANGED <<issued, cookie, retired, spoiled, faults>>

(* rotate, second half, and the store of a login.                           *)
Store(h) ==
    /\ slot[h].pc = "revoked"
    /\ stored' = stored \cup {slot[h].new}
    /\ Goto(h, "done")
    /\ UNCHANGED <<issued, cookie, retired, spoiled, faults>>

(* logout revokes the token of the request's own cookie, change_password    *)
(* and deactivate_user every token they find in the store (the scan is one  *)
(* step here) and then the request's own.                                   *)
RevokedBy(h) == IF slot[h].op = "logout" THEN {slot[h].old} ELSE stored \cup {slot[h].old}

Withdraw(h) ==
    /\ slot[h].op \in {"logout", "password"} /\ slot[h].pc = "arrived"
    /\ stored' = stored \ RevokedBy(h)
    /\ retired' = retired \cup RevokedBy(h)
    /\ Goto(h, "done")
    /\ UNCHANGED <<issued, cookie, spoiled, faults>>

(* The answer reaches the browser, which takes its Set-Cookie.              *)
Answer(h) ==
    /\ slot[h].pc \in {"done", "refused", "broken"}
    /\ cookie' = CookieAfter(h)
    /\ slot' = [slot EXCEPT ![h] = Idle]
    /\ UNCHANGED <<stored, issued, retired, spoiled, faults>>

-----------------------------------------------------------------------------
(* Faults *)

Fault == faults < MaxFaults /\ faults' = faults + 1

\* The token a refresh has used up and will answer with another.
Replacing(h) == slot[h].op = "refresh" /\ slot[h].pc \in {"revoked", "done"}

UsedUp(h) == IF Replacing(h) THEN {slot[h].old} ELSE {}

(* A Redis command of refresh raises: the answer is a 500 (or 503).  The     *)
(* command may have been carried out all the same.                          *)
RefreshFails(h) ==
    /\ Fault
    /\ slot[h].op = "refresh"
    /\ \/ slot[h].pc \in {"arrived", "valid"} /\ UNCHANGED <<stored, spoiled>>
       \/ /\ slot[h].pc = "valid"
          /\ stored' = stored \ {slot[h].old}
          /\ spoiled' = spoiled \cup {slot[h].old}
       \/ /\ slot[h].pc = "revoked"
          /\ stored' \in {stored, stored \cup {slot[h].new}}
          /\ spoiled' = spoiled \cup UsedUp(h)
    /\ Goto(h, "broken")
    /\ UNCHANGED <<issued, cookie, retired>>

(* The others log the failure and answer as if it had worked: a login with   *)
(* a token that was not stored, a logout or change of password with one that *)
(* still is.                                                                *)
FailureSwallowed(h) ==
    /\ Fault
    /\ \/ At(h, "login", "revoked") /\ spoiled' = spoiled \cup {slot[h].new}
       \/ slot[h].op \in {"logout", "password"} /\ slot[h].pc = "arrived" /\ UNCHANGED spoiled
    /\ Goto(h, "done")
    /\ UNCHANGED <<stored, issued, cookie, retired>>

(* The worker dies, the connection breaks, or the page is closed before the *)
(* answer arrives.                                                          *)
Lose(h) ==
    /\ Fault
    /\ slot[h].pc # "idle"
    /\ slot' = [slot EXCEPT ![h] = Idle]
    /\ spoiled' = spoiled \cup UsedUp(h)
    /\ UNCHANGED <<stored, issued, cookie, retired>>

Handle(h) ==
    \/ LoginCreates(h) \/ Validate(h) \/ Refuse(h) \/ Revoke(h) \/ Store(h)
    \/ Withdraw(h) \/ RefreshFails(h) \/ FailureSwallowed(h)

Next == \E h \in Slots : \/ \E op \in Endpoints : Arrive(h, op)
                         \/ Handle(h) \/ Answer(h) \/ Lose(h)

Spec == Init /\ [][Next]_vars

-----------------------------------------------------------------------------
(* Properties *)

\* Every variable has its type.
TypeOK ==
    /\ stored \subseteq Nat
    /\ issued \in Nat
    /\ cookie \in Nat
    /\ slot \in [Slots -> [op : Endpoints \cup {"none"}, old : Nat, new : Nat,
                           pc : {"idle", "arrived", "valid", "revoked", "done",
                                 "refused", "broken"}]]
    /\ retired \subseteq Nat /\ spoiled \subseteq Nat
    /\ faults \in Nat

(* Whatever calls overlap (tabs that refresh with the same cookie, a login, *)
(* a logout in between), and whatever fails or is lost meanwhile, a cookie   *)
(* the browser holds is stored, or was withdrawn on purpose, or a call under *)
(* way is about to replace it, or it is a token that a fault hit at the one   *)
(* place that hurts: the old one of a refresh that fails or is lost from its *)
(* revocation to the arrival of its answer, the new one of a login that was  *)
(* not stored.  A fault signs the user out in no other way.                  *)
CookieIsLive ==
    cookie # 0 =>
        \/ cookie \in stored \cup retired \cup spoiled
        \/ \E h \in Slots : Replacing(h) /\ slot[h].old = cookie

(* A token on its way to the browser is the browser's alone: nobody has     *)
(* called with it, and no two answers carry the same.                       *)
AnswersAreFresh == \A h \in Slots : slot[h].new # 0 =>
    /\ slot[h].new # cookie
    /\ \A g \in Slots : /\ slot[g].old # slot[h].new
                        /\ g # h => slot[g].new # slot[h].new
=============================================================================

---------------------------- MODULE Session_proofs ----------------------------
(***************************************************************************)
(* Proofs about Session, for any numbers of tabs, requests and slots: first *)
(* about the server on its own, a TokenRotation under any calls at all and  *)
(* with no assumption on the bounds, then about the tabs that call it.      *)
(***************************************************************************)
EXTENDS Session, TLAPS

-----------------------------------------------------------------------------
(* The server on its own: types *)

LEMMA RotationInitTypes == Rotation!Init => Rotation!TypeOK
BY DEF Rotation!Init, Rotation!TypeOK, Rotation!Idle

LEMMA RotationTypes == Rotation!TypeOK /\ [Rotation!Next]_(Rotation!vars) => Rotation!TypeOK'
<1> SUFFICES ASSUME Rotation!TypeOK, [Rotation!Next]_(Rotation!vars) PROVE Rotation!TypeOK'
  OBVIOUS
<1>1. \A h \in Slots, op \in Endpoints : Rotation!Arrive(h, op) => Rotation!TypeOK'
  BY DEF Rotation!TypeOK, Rotation!Arrive, Rotation!Call
<1>2. \A h \in Slots : Rotation!LoginCreates(h) => Rotation!TypeOK'
  BY DEF Rotation!TypeOK, Rotation!LoginCreates, Rotation!At
<1>3. \A h \in Slots : Rotation!Validate(h) => Rotation!TypeOK'
  BY DEF Rotation!TypeOK, Rotation!Validate, Rotation!At
<1>4. \A h \in Slots : Rotation!Refuse(h) => Rotation!TypeOK'
  BY DEF Rotation!TypeOK, Rotation!Refuse, Rotation!At, Rotation!Goto
<1>5. \A h \in Slots : Rotation!Revoke(h) => Rotation!TypeOK'
  BY DEF Rotation!TypeOK, Rotation!Revoke, Rotation!At, Rotation!Goto
<1>6. \A h \in Slots : Rotation!Store(h) => Rotation!TypeOK'
  BY DEF Rotation!TypeOK, Rotation!Store, Rotation!Goto
<1>7. \A h \in Slots : Rotation!Withdraw(h) => Rotation!TypeOK'
  BY DEF Rotation!TypeOK, Rotation!Withdraw, Rotation!RevokedBy, Rotation!Goto
<1>8. \A h \in Slots : Rotation!Answer(h) => Rotation!TypeOK'
  <2>1. \A h \in Slots : Rotation!CookieAfter(h) \in Nat
    BY DEF Rotation!TypeOK, Rotation!CookieAfter
  <2> QED
    BY <2>1 DEF Rotation!TypeOK, Rotation!Answer, Rotation!Idle
<1>9. \A h \in Slots : Rotation!RefreshFails(h) => Rotation!TypeOK'
  <2> SUFFICES ASSUME NEW h \in Slots, Rotation!RefreshFails(h) PROVE Rotation!TypeOK'
    OBVIOUS
  <2>1. slot[h].old \in Nat /\ slot[h].new \in Nat /\ Rotation!UsedUp(h) \subseteq Nat
    BY DEF Rotation!TypeOK, Rotation!UsedUp
  <2>2. stored' \subseteq Nat /\ spoiled' \subseteq Nat
    BY <2>1 DEF Rotation!TypeOK, Rotation!RefreshFails
  <2> QED
    BY <2>2 DEF Rotation!TypeOK, Rotation!RefreshFails, Rotation!Fault, Rotation!Goto
<1>10. \A h \in Slots : Rotation!FailureSwallowed(h) => Rotation!TypeOK'
  BY DEF Rotation!TypeOK, Rotation!FailureSwallowed, Rotation!Fault, Rotation!Goto, Rotation!At
<1>11. \A h \in Slots : Rotation!Lose(h) => Rotation!TypeOK'
  <2> SUFFICES ASSUME NEW h \in Slots, Rotation!Lose(h) PROVE Rotation!TypeOK'
    OBVIOUS
  <2>1. Rotation!UsedUp(h) \subseteq Nat
    BY DEF Rotation!TypeOK, Rotation!UsedUp
  <2>2. spoiled' \subseteq Nat
    BY <2>1 DEF Rotation!TypeOK, Rotation!Lose
  <2> QED
    BY <2>2 DEF Rotation!TypeOK, Rotation!Lose, Rotation!Fault, Rotation!Idle
<1>12. UNCHANGED Rotation!vars => Rotation!TypeOK'
  BY DEF Rotation!TypeOK, Rotation!vars
<1> QED
  BY <1>1, <1>2, <1>3, <1>4, <1>5, <1>6, <1>7, <1>8, <1>9, <1>10, <1>11, <1>12
     DEF Rotation!Next, Rotation!Handle

(* Every variable of the rotation keeps its type.                           *)
THEOREM RotationTypeCorrect == Rotation!Spec => []Rotation!TypeOK
BY RotationInitTypes, RotationTypes, PTL DEF Rotation!Spec

-----------------------------------------------------------------------------
(* Why a cookie stays alive *)

(* No token, call or cookie is numbered beyond the tokens issued, and only  *)
(* a login or a refresh under way holds a new one.                          *)
NumbersAreIssued ==
    /\ cookie <= issued
    /\ \A t \in stored : t <= issued
    /\ \A h \in Slots : slot[h].old <= issued /\ slot[h].new <= issued

(* What a call in a given place has done to its tokens: the login and the   *)
(* refresh that may store or answer hold a new one, and a successor that an *)
(* answer will deliver is stored unless it was withdrawn or spoiled.         *)
AnswersAreStored == \A h \in Slots :
    /\ slot[h].pc = "revoked" => slot[h].op \in {"login", "refresh"}
    /\ slot[h].pc \in {"valid", "revoked"} => slot[h].new # 0
    /\ slot[h].op \in {"login", "refresh"} /\ slot[h].pc = "done" =>
          /\ slot[h].new # 0
          /\ slot[h].new \in stored \cup retired \cup spoiled

RotationInv ==
    /\ Rotation!TypeOK /\ NumbersAreIssued /\ Rotation!AnswersAreFresh
    /\ AnswersAreStored /\ Rotation!CookieIsLive

LEMMA RotationInitInv == Rotation!Init => RotationInv
BY RotationInitTypes
   DEF Rotation!Init, RotationInv, NumbersAreIssued, Rotation!AnswersAreFresh, AnswersAreStored,
       Rotation!CookieIsLive, Rotation!Idle

LEMMA RotationNumbers == RotationInv /\ [Rotation!Next]_(Rotation!vars) => NumbersAreIssued'
<1> SUFFICES ASSUME RotationInv, [Rotation!Next]_(Rotation!vars) PROVE NumbersAreIssued'
  OBVIOUS
<1> USE DEF RotationInv, NumbersAreIssued, Rotation!TypeOK
<1>1. \A h \in Slots, op \in Endpoints : Rotation!Arrive(h, op) => NumbersAreIssued'
  BY DEF Rotation!Arrive, Rotation!Call
<1>2. \A h \in Slots : Rotation!LoginCreates(h) => NumbersAreIssued'
  BY DEF Rotation!LoginCreates
<1>3. \A h \in Slots : Rotation!Validate(h) => NumbersAreIssued'
  BY DEF Rotation!Validate
<1>4. \A h \in Slots : Rotation!Refuse(h) \/ Rotation!RefreshFails(h) \/ Rotation!FailureSwallowed(h) =>
          NumbersAreIssued'
  BY DEF Rotation!Refuse, Rotation!RefreshFails, Rotation!FailureSwallowed, Rotation!Goto
<1>5. \A h \in Slots : Rotation!Revoke(h) \/ Rotation!Withdraw(h) => NumbersAreIssued'
  BY DEF Rotation!Revoke, Rotation!Withdraw, Rotation!RevokedBy, Rotation!Goto
<1>6. \A h \in Slots : Rotation!Store(h) => NumbersAreIssued'
  BY DEF Rotation!Store, Rotation!Goto
<1>7. \A h \in Slots : Rotation!Answer(h) => NumbersAreIssued'
  BY DEF Rotation!Answer, Rotation!CookieAfter, Rotation!Idle
<1>8. \A h \in Slots : Rotation!Lose(h) => NumbersAreIssued'
  BY DEF Rotation!Lose, Rotation!Idle
<1>9. UNCHANGED Rotation!vars => NumbersAreIssued'
  BY DEF Rotation!vars
<1> QED
  BY <1>1, <1>2, <1>3, <1>4, <1>5, <1>6, <1>7, <1>8, <1>9 DEF Rotation!Next, Rotation!Handle

LEMMA RotationFresh == RotationInv /\ [Rotation!Next]_(Rotation!vars) => Rotation!AnswersAreFresh'
<1> SUFFICES ASSUME RotationInv, [Rotation!Next]_(Rotation!vars) PROVE Rotation!AnswersAreFresh'
  OBVIOUS
<1> USE DEF RotationInv, Rotation!AnswersAreFresh, Rotation!TypeOK
<1>1. \A h \in Slots, op \in Endpoints : Rotation!Arrive(h, op) => Rotation!AnswersAreFresh'
  BY DEF Rotation!Arrive, Rotation!Call
<1>2. \A h \in Slots : Rotation!LoginCreates(h) => Rotation!AnswersAreFresh'
  BY DEF Rotation!LoginCreates, NumbersAreIssued
<1>3. \A h \in Slots : Rotation!Validate(h) => Rotation!AnswersAreFresh'
  BY DEF Rotation!Validate, NumbersAreIssued
<1>4. \A h \in Slots : Rotation!Refuse(h) \/ Rotation!RefreshFails(h) \/ Rotation!FailureSwallowed(h) =>
          Rotation!AnswersAreFresh'
  BY DEF Rotation!Refuse, Rotation!RefreshFails, Rotation!FailureSwallowed, Rotation!Goto
<1>5. \A h \in Slots : Rotation!Revoke(h) \/ Rotation!Withdraw(h) \/ Rotation!Store(h) =>
          Rotation!AnswersAreFresh'
  BY DEF Rotation!Revoke, Rotation!Withdraw, Rotation!RevokedBy, Rotation!Store, Rotation!Goto
<1>6. \A h \in Slots : Rotation!Answer(h) => Rotation!AnswersAreFresh'
  BY DEF Rotation!Answer, Rotation!CookieAfter, Rotation!Idle
<1>7. \A h \in Slots : Rotation!Lose(h) => Rotation!AnswersAreFresh'
  BY DEF Rotation!Lose, Rotation!Idle
<1>8. UNCHANGED Rotation!vars => Rotation!AnswersAreFresh'
  BY DEF Rotation!vars
<1> QED
  BY <1>1, <1>2, <1>3, <1>4, <1>5, <1>6, <1>7, <1>8 DEF Rotation!Next, Rotation!Handle

LEMMA RotationStored == RotationInv /\ [Rotation!Next]_(Rotation!vars) => AnswersAreStored'
<1> SUFFICES ASSUME RotationInv, [Rotation!Next]_(Rotation!vars) PROVE AnswersAreStored'
  OBVIOUS
<1> USE DEF RotationInv, AnswersAreStored, Rotation!TypeOK
<1>1. \A h \in Slots, op \in Endpoints : Rotation!Arrive(h, op) => AnswersAreStored'
  BY DEF Rotation!Arrive, Rotation!Call
<1>2. \A h \in Slots : Rotation!LoginCreates(h) => AnswersAreStored'
  BY DEF Rotation!LoginCreates, Rotation!At
<1>3. \A h \in Slots : Rotation!Validate(h) => AnswersAreStored'
  BY DEF Rotation!Validate, Rotation!At
<1>4. \A h \in Slots : Rotation!Refuse(h) => AnswersAreStored'
  BY DEF Rotation!Refuse, Rotation!Goto, Rotation!At
<1>5. \A h \in Slots : Rotation!Revoke(h) => AnswersAreStored'
  BY DEF Rotation!Revoke, Rotation!Goto, Rotation!At, Rotation!AnswersAreFresh
<1>6. \A h \in Slots : Rotation!Store(h) => AnswersAreStored'
  BY DEF Rotation!Store, Rotation!Goto
<1>7. \A h \in Slots : Rotation!Withdraw(h) => AnswersAreStored'
  BY DEF Rotation!Withdraw, Rotation!RevokedBy, Rotation!Goto, Rotation!At
<1>8. \A h \in Slots : Rotation!Answer(h) => AnswersAreStored'
  BY DEF Rotation!Answer, Rotation!Idle
<1>9. \A h \in Slots : Rotation!RefreshFails(h) => AnswersAreStored'
  BY DEF Rotation!RefreshFails, Rotation!Fault, Rotation!Goto
<1>10. \A h \in Slots : Rotation!FailureSwallowed(h) => AnswersAreStored'
  BY DEF Rotation!FailureSwallowed, Rotation!Fault, Rotation!Goto, Rotation!At
<1>11. \A h \in Slots : Rotation!Lose(h) => AnswersAreStored'
  BY DEF Rotation!Lose, Rotation!Fault, Rotation!Idle
<1>12. UNCHANGED Rotation!vars => AnswersAreStored'
  BY DEF Rotation!vars
<1> QED
  BY <1>1, <1>2, <1>3, <1>4, <1>5, <1>6, <1>7, <1>8, <1>9, <1>10, <1>11, <1>12
     DEF Rotation!Next, Rotation!Handle

LEMMA RotationLive == RotationInv /\ [Rotation!Next]_(Rotation!vars) => Rotation!CookieIsLive'
<1> SUFFICES ASSUME RotationInv, [Rotation!Next]_(Rotation!vars) PROVE Rotation!CookieIsLive'
  OBVIOUS
<1> USE DEF RotationInv, Rotation!CookieIsLive, Rotation!Replacing, Rotation!TypeOK
<1>1. \A h \in Slots, op \in Endpoints : Rotation!Arrive(h, op) => Rotation!CookieIsLive'
  BY DEF Rotation!Arrive, Rotation!Call, Rotation!Idle
<1>2. \A h \in Slots : Rotation!LoginCreates(h) => Rotation!CookieIsLive'
  BY DEF Rotation!LoginCreates, Rotation!At
<1>3. \A h \in Slots : Rotation!Validate(h) => Rotation!CookieIsLive'
  BY DEF Rotation!Validate, Rotation!At
<1>4. \A h \in Slots : Rotation!Refuse(h) => Rotation!CookieIsLive'
  BY DEF Rotation!Refuse, Rotation!Goto, Rotation!At
<1>5. \A h \in Slots : Rotation!Revoke(h) => Rotation!CookieIsLive'
  BY DEF Rotation!Revoke, Rotation!Goto, Rotation!At
<1>6. \A h \in Slots : Rotation!Store(h) => Rotation!CookieIsLive'
  BY DEF Rotation!Store, Rotation!Goto
<1>7. \A h \in Slots : Rotation!Withdraw(h) => Rotation!CookieIsLive'
  BY DEF Rotation!Withdraw, Rotation!RevokedBy, Rotation!Goto, Rotation!At
<1>8. \A h \in Slots : Rotation!Answer(h) => Rotation!CookieIsLive'
  <2> SUFFICES ASSUME NEW h \in Slots, Rotation!Answer(h) PROVE Rotation!CookieIsLive'
    OBVIOUS
  <2>1. CASE slot[h].pc = "done" /\ slot[h].op \in {"login", "refresh"}
    BY <2>1 DEF Rotation!Answer, Rotation!CookieAfter, AnswersAreStored
  <2>2. CASE slot[h].pc = "done" /\ slot[h].op = "logout"
    BY <2>2 DEF Rotation!Answer, Rotation!CookieAfter
  <2>3. CASE ~(slot[h].pc = "done" /\ slot[h].op \in {"login", "refresh", "logout"})
    BY <2>3 DEF Rotation!Answer, Rotation!CookieAfter, Rotation!Idle
  <2> QED
    BY <2>1, <2>2, <2>3
<1>9. \A h \in Slots : Rotation!RefreshFails(h) => Rotation!CookieIsLive'
  <2> SUFFICES ASSUME NEW h \in Slots, Rotation!RefreshFails(h) PROVE Rotation!CookieIsLive'
    OBVIOUS
  <2>1. \A g \in Slots \ {h} : slot'[g] = slot[g]
    BY DEF Rotation!RefreshFails, Rotation!Goto
  <2>2. Rotation!Replacing(h) => slot[h].old \in spoiled'
    BY DEF Rotation!RefreshFails, Rotation!UsedUp
  <2>3. spoiled \subseteq spoiled' /\ cookie' = cookie /\ retired' = retired
    BY DEF Rotation!RefreshFails
  <2>4. stored \ spoiled' \subseteq stored'
    BY DEF Rotation!RefreshFails
  <2> QED
    BY <2>1, <2>2, <2>3, <2>4
<1>10. \A h \in Slots : Rotation!FailureSwallowed(h) => Rotation!CookieIsLive'
  BY DEF Rotation!FailureSwallowed, Rotation!Fault, Rotation!Goto, Rotation!At
<1>11. \A h \in Slots : Rotation!Lose(h) => Rotation!CookieIsLive'
  <2> SUFFICES ASSUME NEW h \in Slots, Rotation!Lose(h) PROVE Rotation!CookieIsLive'
    OBVIOUS
  <2>1. \A g \in Slots \ {h} : slot'[g] = slot[g]
    BY DEF Rotation!Lose
  <2>2. Rotation!Replacing(h) => slot[h].old \in spoiled'
    BY DEF Rotation!Lose, Rotation!UsedUp
  <2>3. spoiled \subseteq spoiled' /\ UNCHANGED <<cookie, retired, stored>>
    BY DEF Rotation!Lose
  <2> QED
    BY <2>1, <2>2, <2>3
<1>12. UNCHANGED Rotation!vars => Rotation!CookieIsLive'
  BY DEF Rotation!vars
<1> QED
  BY <1>1, <1>2, <1>3, <1>4, <1>5, <1>6, <1>7, <1>8, <1>9, <1>10, <1>11, <1>12
     DEF Rotation!Next, Rotation!Handle

LEMMA RotationStep == RotationInv /\ [Rotation!Next]_(Rotation!vars) => RotationInv'
BY RotationTypes, RotationNumbers, RotationFresh, RotationStored, RotationLive DEF RotationInv

LEMMA RotationInductive == Rotation!Spec => []RotationInv
BY RotationInitInv, RotationStep, PTL DEF Rotation!Spec

(* A cookie the browser holds is stored, withdrawn on purpose, about to be   *)
(* replaced by a call under way, or the token a fault hit between revocation *)
(* and answer, however many calls overlap and fail.                         *)
THEOREM RotationCookieLive == Rotation!Spec => []Rotation!CookieIsLive
<1>1. RotationInv => Rotation!CookieIsLive
  BY DEF RotationInv
<1> QED
  BY <1>1, RotationInductive, PTL

(* No answer under way carries the browser's cookie, a token some call came *)
(* with, or the token of another answer.                                    *)
THEOREM AnswersFresh == Rotation!Spec => []Rotation!AnswersAreFresh
<1>1. RotationInv => Rotation!AnswersAreFresh
  BY DEF RotationInv
<1> QED
  BY <1>1, RotationInductive, PTL
-----------------------------------------------------------------------------
(* The server's part: whatever the tabs do, it is a TokenRotation *)

LEMMA NextServer == "refresh" \in Endpoints /\ [Next]_vars => [Rotation!Next]_(Rotation!vars)
<1> SUFFICES ASSUME "refresh" \in Endpoints, [Next]_vars PROVE [Rotation!Next]_(Rotation!vars)
  OBVIOUS
<1>1. \A q \in Reqs, t \in Tabs : Send(q, t) => UNCHANGED server
  BY DEF Send, server
<1>2. \A q \in Reqs : Answered(q) \/ JoinRefresh(q) => UNCHANGED server
  BY DEF Answered, JoinRefresh, server
<1>3. \A q \in Reqs, h \in Slots : StartRefresh(q, h) => Rotation!Next
  BY DEF StartRefresh, Fetches, Rotation!Next
<1>4. \A h \in Slots, t \in Tabs \cup {None}, op \in Endpoints : Visit(h, t, op) => Rotation!Next
  BY DEF Visit, Fetches, Rotation!Next
<1>5. \A h \in Slots : Serve(h) => Rotation!Next
  BY DEF Serve, Rotation!Next
<1>6. \A h \in Slots : Answer(h) \/ Lose(h) => Rotation!Next
  BY DEF Answer, Lose, Rotation!Next
<1>7. \A t \in Tabs : Reload(t) \/ AuthRefused(t) => UNCHANGED server
  BY DEF Reload, AuthRefused, server
<1>8. UNCHANGED vars => UNCHANGED server
  BY DEF vars, server
<1>9. Rotation!Next \/ UNCHANGED server
  BY <1>1, <1>2, <1>3, <1>4, <1>5, <1>6, <1>7, <1>8 DEF Next
<1> QED
  BY <1>9 DEF server, Rotation!vars

(* The composition implements the rotation: no tab, no reload and no shared *)
(* promise makes the server take a step that TokenRotation does not have.   *)
THEOREM ImplementsRotation == ASSUME "refresh" \in Endpoints PROVE Spec => Rotation!Spec
<1>1. Init => Rotation!Init
  BY DEF Init
<1>2. [Next]_vars => [Rotation!Next]_(Rotation!vars)
  BY NextServer
<1> QED
  BY <1>1, <1>2, PTL DEF Spec, Rotation!Spec

(* The browser's cookie stays alive whatever its tabs do.                   *)
THEOREM CookieLive == ASSUME "refresh" \in Endpoints PROVE Spec => []CookieIsLive
<1>1. Rotation!CookieIsLive => CookieIsLive
  BY DEF CookieIsLive
<1> QED
  BY <1>1, ImplementsRotation, RotationCookieLive, PTL
-----------------------------------------------------------------------------
(* The browser's part *)

\* A call under way belongs to a tab, and one that waits was sent once.
RequestsOK == \A q \in Reqs :
    /\ req[q].pc # "free" => req[q].tab \in Tabs /\ req[q].sends \in 1..2
    /\ req[q].pc = "waiting" => req[q].sends = 1

BrowserOK == Gate!TypeOK /\ RequestsOK /\ from \in [Slots -> Tabs \cup {None}]

Request == [tab : Tabs \cup {None}, pc : {"free", "sent", "waiting"}, sends : 0..2]

LEMMA TabsActTypes ==
    ASSUME BrowserOK, NEW t \in Tabs,
           Gate!Resolve(t) \/ Gate!Reject(t) \/ Gate!Login(t) \/ Gate!AuthRefused(t) \/ Gate!Reload(t)
    PROVE  Gate!TypeOK' /\ RequestsOK'
<1> USE DEF BrowserOK, Gate!TypeOK, RequestsOK
<1>1. ASSUME Gate!Resolve(t) PROVE Gate!TypeOK' /\ RequestsOK'
  <2>1. \A q \in Gate!Waiting(t) :
            req'[q] \in Request /\ req'[q].tab = t /\ req'[q].pc = "sent" /\ req'[q].sends = 2
    <3> SUFFICES ASSUME NEW q \in Gate!Waiting(t)
                 PROVE  req'[q] \in Request /\ req'[q].tab = t /\ req'[q].pc = "sent" /\ req'[q].sends = 2
      OBVIOUS
    <3>1. q \in Reqs /\ req[q] \in Request /\ req[q].tab = t /\ req[q].sends = 1
      BY DEF Gate!Waiting, Request
    <3>2. req'[q] = [req[q] EXCEPT !.pc = "sent", !.sends = req[q].sends + 1]
      BY <1>1, <3>1 DEF Gate!Resolve
    <3> DEFINE n == req[q].sends + 1
    <3>3. n = req[q].sends + 1 /\ req'[q] = [req[q] EXCEPT !.pc = "sent", !.sends = n]
      BY <3>2
    <3> HIDE DEF n
    <3>4. n = 2 /\ n \in 0..2
      BY <3>1, <3>3
    <3>5. LET sent == [req[q] EXCEPT !.pc = "sent", !.sends = n]
          IN  sent \in Request /\ sent.tab = t /\ sent.pc = "sent" /\ sent.sends = 2
      BY <3>1, <3>4 DEF Request
    <3> QED
      BY <3>3, <3>5
  <2>2. \A q \in Reqs \ Gate!Waiting(t) : req'[q] = req[q]
    BY <1>1 DEF Gate!Resolve
  <2>3. req' \in [Reqs -> Request]
    <3>1. \A q \in Reqs : req'[q] \in Request
      BY <2>1, <2>2 DEF Request
    <3> QED
      BY <1>1, <3>1 DEF Gate!Resolve
  <2>4. RequestsOK'
    BY <2>1, <2>2
  <2>5. access' \in [Tabs -> BOOLEAN] /\ gate' \in [Tabs -> BOOLEAN]
    BY <1>1 DEF Gate!Resolve
  <2> QED
    BY <2>3, <2>4, <2>5 DEF Request
<1>2. ASSUME Gate!Reject(t) PROVE Gate!TypeOK' /\ RequestsOK'
  BY <1>2 DEF Gate!Reject, Gate!Waiting, Gate!Free
<1>3. ASSUME Gate!Login(t) \/ Gate!AuthRefused(t) PROVE Gate!TypeOK' /\ RequestsOK'
  BY <1>3 DEF Gate!Login, Gate!AuthRefused
<1>4. ASSUME Gate!Reload(t) PROVE Gate!TypeOK' /\ RequestsOK'
  BY <1>4 DEF Gate!Reload, Gate!Free
<1> QED
  BY <1>1, <1>2, <1>3, <1>4

LEMMA CallsActTypes ==
    ASSUME BrowserOK, NEW q \in Reqs,
           \/ \E t \in Tabs : Gate!Send(q, t)
           \/ Gate!Answered(q) \/ Gate!SignedOut(q) \/ Gate!AwaitRefresh(q)
    PROVE  Gate!TypeOK' /\ RequestsOK'
<1> USE DEF BrowserOK, Gate!TypeOK, RequestsOK
<1>1. ASSUME NEW t \in Tabs, Gate!Send(q, t) PROVE Gate!TypeOK' /\ RequestsOK'
  BY <1>1 DEF Gate!Send
<1>2. ASSUME Gate!Answered(q) \/ Gate!SignedOut(q) PROVE Gate!TypeOK' /\ RequestsOK'
  <2>1. \E tokens \in [Tabs -> BOOLEAN] : access' = tokens /\ gate' = gate
    BY <1>2 DEF Gate!Answered, Gate!SignedOut
  <2>2. req' = [req EXCEPT ![q] = Gate!Free]
    BY <1>2 DEF Gate!Answered, Gate!SignedOut
  <2> QED
    BY <2>1, <2>2 DEF Gate!Free
<1>3. ASSUME Gate!AwaitRefresh(q) PROVE Gate!TypeOK' /\ RequestsOK'
  BY <1>3 DEF Gate!AwaitRefresh, Gate!Retried
<1> QED
  BY <1>1, <1>2, <1>3

LEMMA SettlesTypes ==
    ASSUME BrowserOK, NEW h \in Slots, NEW answered \in BOOLEAN, Settles(h, answered)
    PROVE  BrowserOK'
<1>1. from[h] \in Tabs \cup {None}
  BY DEF BrowserOK
<1>2. from' \in [Slots -> Tabs \cup {None}]
  BY DEF Settles, BrowserOK
<1>3. \/ UNCHANGED browser
      \/ from[h] \in Tabs /\ (Gate!Resolve(from[h]) \/ Gate!Reject(from[h]) \/ Gate!Login(from[h]))
  BY <1>1 DEF Settles
<1>4. UNCHANGED browser => Gate!TypeOK' /\ RequestsOK'
  BY DEF BrowserOK, browser, Gate!TypeOK, RequestsOK
<1> QED
  BY <1>2, <1>3, <1>4, TabsActTypes DEF BrowserOK

LEMMA NextBrowserOK == BrowserOK /\ [Next]_vars => BrowserOK'
<1> SUFFICES ASSUME BrowserOK, [Next]_vars PROVE BrowserOK'
  OBVIOUS
<1>1. ASSUME NEW q \in Reqs, NEW t \in Tabs, Send(q, t) PROVE BrowserOK'
  BY <1>1, CallsActTypes DEF Send, BrowserOK
<1>2. ASSUME NEW q \in Reqs, Answered(q) \/ JoinRefresh(q) PROVE BrowserOK'
  BY <1>2, CallsActTypes DEF Answered, JoinRefresh, BrowserOK
<1>3. ASSUME NEW q \in Reqs, NEW h \in Slots, StartRefresh(q, h) PROVE BrowserOK'
  <2>1. req[q].tab \in Tabs
    BY <1>3 DEF StartRefresh, Gate!AwaitRefresh, BrowserOK, RequestsOK
  <2>2. from' \in [Slots -> Tabs \cup {None}]
    BY <1>3, <2>1 DEF StartRefresh, Fetches, BrowserOK
  <2> QED
    BY <1>3, <2>2, CallsActTypes DEF StartRefresh, BrowserOK
<1>4. ASSUME NEW h \in Slots, NEW t \in Tabs \cup {None}, NEW op \in Endpoints, Visit(h, t, op)
      PROVE BrowserOK'
  BY <1>4 DEF Visit, Fetches, browser, BrowserOK, Gate!TypeOK, RequestsOK
<1>5. ASSUME NEW h \in Slots, Serve(h) PROVE BrowserOK'
  BY <1>5 DEF Serve, browser, BrowserOK, Gate!TypeOK, RequestsOK
<1>6. ASSUME NEW h \in Slots, Answer(h) \/ Lose(h) PROVE BrowserOK'
  BY <1>6, SettlesTypes DEF Answer, Lose
<1>7. ASSUME NEW t \in Tabs, Reload(t) PROVE BrowserOK'
  <2>1. from' \in [Slots -> Tabs \cup {None}]
    BY <1>7 DEF Reload, BrowserOK
  <2> QED
    BY <1>7, <2>1, TabsActTypes DEF Reload, BrowserOK
<1>8. ASSUME NEW t \in Tabs, AuthRefused(t) PROVE BrowserOK'
  BY <1>8, TabsActTypes DEF AuthRefused, BrowserOK
<1>9. ASSUME UNCHANGED vars PROVE BrowserOK'
  BY <1>9 DEF vars, browser, BrowserOK, Gate!TypeOK, RequestsOK
<1> QED
  BY <1>1, <1>2, <1>3, <1>4, <1>5, <1>6, <1>7, <1>8, <1>9 DEF Next

LEMMA BrowserIsOK == Spec => []BrowserOK
<1>1. Init => BrowserOK
  BY DEF Init, BrowserOK, RequestsOK, Gate!Init, Gate!TypeOK, Gate!Free
<1> QED
  BY <1>1, NextBrowserOK, PTL DEF Spec

(* Every variable of browser and server keeps its type; in particular no    *)
(* request is ever sent a third time.                                       *)
THEOREM TypeCorrect == ASSUME "refresh" \in Endpoints PROVE Spec => []TypeOK
<1>1. Rotation!TypeOK /\ BrowserOK => TypeOK
  BY DEF TypeOK, BrowserOK
<1> QED
  BY <1>1, BrowserIsOK, ImplementsRotation, RotationTypeCorrect, PTL
-----------------------------------------------------------------------------
(* Why the gate is honest *)

\* The three parts of GateIsHonest: the promise of a tab stands for its fetch, which
\* is the only one, and somebody waits for it.
Stands(t) == gate[t] <=> \E h \in Slots : Refreshing(h, t)
Only(t) == \A g, h \in Slots : Refreshing(g, t) /\ Refreshing(h, t) => g = h
Awaited(t) == gate[t] <=> \E q \in Reqs : req[q].tab = t /\ req[q].pc = "waiting"

Honest(t) == Stands(t) /\ Only(t) /\ Awaited(t)

SlotOK == slot \in [Slots -> [op : Endpoints \cup {"none"}, old : Nat, new : Nat,
                              pc : {"idle", "arrived", "valid", "revoked", "done",
                                    "refused", "broken"}]]

LEMMA SameFetches ==
    ASSUME NEW t \in Tabs, Honest(t), gate'[t] = gate[t],
           \A h \in Slots : Refreshing(h, t)' <=> Refreshing(h, t),
           \A q \in Reqs : req'[q] = req[q] \/ (req'[q].pc # "waiting" /\ req[q].pc # "waiting")
    PROVE  Honest(t)'
BY DEF Honest, Stands, Only, Awaited

LEMMA ServeHonest ==
    ASSUME SlotOK, NEW h \in Slots, Serve(h), NEW t \in Tabs, Honest(t) PROVE Honest(t)'
<1>1. \A g \in Slots : slot'[g].op = slot[g].op
  BY DEF Serve, SlotOK, Rotation!Handle, Rotation!LoginCreates, Rotation!Validate,
         Rotation!Refuse, Rotation!Revoke, Rotation!Store, Rotation!Withdraw,
         Rotation!RefreshFails, Rotation!FailureSwallowed, Rotation!Goto
<1> QED
  BY <1>1, SameFetches DEF Serve, browser, Refreshing

LEMMA CallsHonest ==
    ASSUME BrowserOK, NEW q \in Reqs,
           Answered(q) \/ JoinRefresh(q) \/ \E u \in Tabs : Send(q, u),
           NEW t \in Tabs, Honest(t)
    PROVE  Honest(t)'
<1> USE DEF BrowserOK, Gate!TypeOK
<1>1. \A h \in Slots : Refreshing(h, t)' <=> Refreshing(h, t)
  BY DEF Answered, JoinRefresh, Send, server, Refreshing
<1>2. ASSUME NEW u \in Tabs, Send(q, u) PROVE Honest(t)'
  BY <1>1, <1>2, SameFetches DEF Send, Gate!Send, Gate!Free
<1>3. ASSUME Answered(q) PROVE Honest(t)'
  BY <1>1, <1>3, SameFetches DEF Answered, Gate!Answered, Gate!SignedOut, Gate!Free
<1>4. ASSUME JoinRefresh(q) PROVE Honest(t)'
  <2>1. gate' = gate /\ gate[req[q].tab]
    BY <1>4 DEF JoinRefresh, Gate!AwaitRefresh, Gate!OpensGate, RequestsOK
  <2>2. \A p \in Reqs : req'[p].tab = req[p].tab
    BY <1>4 DEF JoinRefresh, Gate!AwaitRefresh
  <2>3. req'[q].pc = "waiting" /\ \A p \in Reqs \ {q} : req'[p] = req[p]
    BY <1>4 DEF JoinRefresh, Gate!AwaitRefresh
  <2>4. req[q].pc = "sent"
    BY <1>4 DEF JoinRefresh, Gate!AwaitRefresh
  <2>5. Awaited(t)'
    BY <2>1, <2>2, <2>3, <2>4 DEF Honest, Awaited
  <2> QED
    BY <1>1, <2>1, <2>5 DEF Honest, Stands, Only
<1> QED
  BY <1>2, <1>3, <1>4

LEMMA StartHonest ==
    ASSUME BrowserOK, SlotOK, NEW q \in Reqs, NEW h \in Slots, StartRefresh(q, h),
           NEW t \in Tabs, Honest(t)
    PROVE  Honest(t)'
<1> USE DEF BrowserOK, Gate!TypeOK, StartRefresh, Fetches
<1>1. req[q].tab \in Tabs /\ ~gate[req[q].tab] /\ req[q].pc = "sent"
  BY DEF Gate!AwaitRefresh, Gate!OpensGate, RequestsOK
<1>2. gate' = [gate EXCEPT ![req[q].tab] = TRUE]
  BY DEF Gate!AwaitRefresh
<1>3. req'[q].pc = "waiting" /\ req'[q].tab = req[q].tab /\ \A p \in Reqs \ {q} : req'[p] = req[p]
  BY DEF Gate!AwaitRefresh
<1>4. slot[h].op # "refresh" /\ slot'[h].op = "refresh" /\ from'[h] = req[q].tab
  BY DEF SlotOK, Rotation!Arrive, Rotation!Call, Rotation!Idle
<1>5. \A g \in Slots \ {h} : slot'[g] = slot[g] /\ from'[g] = from[g]
  BY DEF SlotOK, Rotation!Arrive
<1>6. \A g \in Slots : Refreshing(g, t)' <=> (Refreshing(g, t) \/ (g = h /\ t = req[q].tab))
  BY <1>4, <1>5 DEF Refreshing
<1>7. CASE t = req[q].tab
  BY <1>1, <1>2, <1>3, <1>6, <1>7 DEF Honest, Stands, Only, Awaited
<1>8. CASE t # req[q].tab
  BY <1>1, <1>2, <1>3, <1>6, <1>8 DEF Honest, Stands, Only, Awaited
<1> QED
  BY <1>7, <1>8

LEMMA VisitHonest ==
    ASSUME BrowserOK, SlotOK, NEW h \in Slots, NEW u \in Tabs \cup {None}, NEW op \in Endpoints,
           Visit(h, u, op), NEW t \in Tabs, Honest(t)
    PROVE  Honest(t)'
<1>1. slot[h].op # "refresh" /\ slot'[h].op # "refresh"
  BY DEF SlotOK, Visit, Fetches, Rotation!Arrive, Rotation!Call, Rotation!Idle
<1>2. \A g \in Slots \ {h} : slot'[g] = slot[g] /\ from'[g] = from[g]
  BY DEF BrowserOK, SlotOK, Visit, Fetches, Rotation!Arrive
<1>3. \A g \in Slots : Refreshing(g, t)' <=> Refreshing(g, t)
  BY <1>1, <1>2 DEF Refreshing
<1> QED
  BY <1>3, SameFetches DEF Visit, browser

LEMMA SettlesHonest ==
    ASSUME BrowserOK, SlotOK, NEW h \in Slots, Answer(h) \/ Lose(h), NEW t \in Tabs, Honest(t)
    PROVE  Honest(t)'
<1>1. slot' = [slot EXCEPT ![h] = Rotation!Idle] /\ from' = [from EXCEPT ![h] = None]
  BY DEF Answer, Lose, Settles, Rotation!Answer, Rotation!Lose
<1>2. \A g \in Slots : Refreshing(g, t)' <=> Refreshing(g, t) /\ g # h
  BY <1>1, SessionAssumption DEF BrowserOK, SlotOK, Refreshing, Rotation!Idle
<1>3. \/ UNCHANGED <<gate, req>> /\ (from[h] = None \/ slot[h].op # "refresh")
      \/ /\ from[h] \in Tabs /\ slot[h].op = "refresh"
         /\ Gate!Resolve(from[h]) \/ Gate!Reject(from[h])
  BY DEF Answer, Lose, Settles, browser, BrowserOK, Gate!Login
<1>4. CASE UNCHANGED <<gate, req>> /\ (from[h] = None \/ slot[h].op # "refresh")
  BY <1>2, <1>4, SameFetches, SessionAssumption DEF Refreshing
<1>5. CASE /\ from[h] \in Tabs /\ slot[h].op = "refresh"
           /\ Gate!Resolve(from[h]) \/ Gate!Reject(from[h])
  <2>1. gate' = [gate EXCEPT ![from[h]] = FALSE]
    BY <1>5 DEF Gate!Resolve, Gate!Reject
  <2>2. \A q \in Reqs : IF req[q].tab = from[h] /\ req[q].pc = "waiting"
                        THEN req'[q].pc # "waiting" ELSE req'[q] = req[q]
    <3> SUFFICES ASSUME NEW q \in Reqs
                 PROVE  IF q \in Gate!Waiting(from[h]) THEN req'[q].pc # "waiting" ELSE req'[q] = req[q]
      BY DEF Gate!Waiting
    <3>1. req[q] \in Request
      BY DEF BrowserOK, Gate!TypeOK, Request
    <3>2. CASE q \in Gate!Waiting(from[h])
      <4> DEFINE n == req[q].sends + 1
      <4>1. req'[q] = Gate!Free \/ req'[q] = [req[q] EXCEPT !.pc = "sent", !.sends = n]
        BY <1>5, <3>2 DEF Gate!Resolve, Gate!Reject
      <4> HIDE DEF n
      <4>2. Gate!Free.pc = "free"
        BY DEF Gate!Free
      <4>3. [req[q] EXCEPT !.pc = "sent", !.sends = n].pc = "sent"
        BY <3>1 DEF Request
      <4> QED
        BY <3>2, <4>1, <4>2, <4>3
    <3>3. CASE q \notin Gate!Waiting(from[h])
      BY <1>5, <3>3 DEF Gate!Resolve, Gate!Reject
    <3> QED
      BY <3>2, <3>3
  <2>3. CASE t = from[h]
    <3>1. ~gate'[t]
      BY <2>1, <2>3 DEF BrowserOK, Gate!TypeOK
    <3>2. \A g \in Slots : ~Refreshing(g, t)'
      BY <1>2, <1>5, <2>3 DEF Honest, Only, Refreshing
    <3>3. \A q \in Reqs : ~(req'[q].tab = t /\ req'[q].pc = "waiting")
      BY <2>2, <2>3
    <3> QED
      BY <3>1, <3>2, <3>3 DEF Honest, Stands, Only, Awaited
  <2>4. CASE t # from[h]
    <3>1. gate'[t] = gate[t]
      BY <2>1, <2>4 DEF BrowserOK, Gate!TypeOK
    <3>2. \A g \in Slots : Refreshing(g, t)' <=> Refreshing(g, t)
      BY <1>2, <2>4 DEF Refreshing
    <3>3. Awaited(t)'
      <4>1. \A q \in Reqs : req[q].tab = t => req'[q] = req[q]
        BY <2>2, <2>4
      <4>2. \A q \in Reqs : req'[q].tab = t /\ req'[q].pc = "waiting" => req'[q] = req[q]
        BY <2>2
      <4> QED
        BY <3>1, <4>1, <4>2 DEF Honest, Awaited
    <3> QED
      BY <3>1, <3>2, <3>3 DEF Honest, Stands, Only
  <2> QED
    BY <2>3, <2>4
<1> QED
  BY <1>3, <1>4, <1>5

LEMMA ReloadHonest ==
    ASSUME BrowserOK, SlotOK, NEW u \in Tabs, Reload(u), NEW t \in Tabs, Honest(t)
    PROVE  Honest(t)'
<1> USE DEF BrowserOK, Gate!TypeOK, Reload, Gate!Reload
<1>1. gate' = [gate EXCEPT ![u] = FALSE]
  OBVIOUS
<1>2. \A g \in Slots : Refreshing(g, t)' <=> Refreshing(g, t) /\ t # u
  BY SessionAssumption DEF Refreshing, server
<1>3. \A q \in Reqs : IF req[q].tab = u THEN req'[q].pc # "waiting" ELSE req'[q] = req[q]
  BY DEF Gate!Free
<1>4. CASE t = u
  BY <1>1, <1>2, <1>3, <1>4 DEF Honest, Stands, Only, Awaited
<1>5. CASE t # u
  BY <1>1, <1>2, <1>3, <1>5 DEF Honest, Stands, Only, Awaited
<1> QED
  BY <1>4, <1>5

LEMMA NextHonest ==
    ASSUME BrowserOK, SlotOK, [Next]_vars, NEW t \in Tabs, Honest(t) PROVE Honest(t)'
<1>1. ASSUME NEW u \in Tabs, AuthRefused(u) PROVE Honest(t)'
  BY <1>1, SameFetches DEF AuthRefused, Gate!AuthRefused, Refreshing, server
<1>2. ASSUME UNCHANGED vars PROVE Honest(t)'
  BY <1>2, SameFetches DEF vars, browser, server, Refreshing
<1> QED
  BY <1>1, <1>2, ServeHonest, CallsHonest, StartHonest, VisitHonest, SettlesHonest,
     ReloadHonest DEF Next

(* However answers are delayed, lost or overtaken by reloads and logins, a  *)
(* tab's promise stands for exactly one fetch and never outlives it, so no  *)
(* call waits for a refresh that is not under way.                          *)
THEOREM HonestGate == ASSUME "refresh" \in Endpoints PROVE Spec => []GateIsHonest
<1>1. GateIsHonest <=> \A t \in Tabs : Honest(t)
  BY DEF GateIsHonest, Honest, Stands, Only, Awaited
<1>2. Init => GateIsHonest
  <2> SUFFICES ASSUME Init PROVE GateIsHonest
    OBVIOUS
  <2>1. (\A t \in Tabs : ~gate[t]) /\ \A q \in Reqs : req[q].pc = "free"
    BY DEF Init, Gate!Init, Gate!Free
  <2>2. \A h \in Slots : slot[h].op = "none"
    BY DEF Init, Rotation!Init, Rotation!Idle
  <2> QED
    BY <2>1, <2>2 DEF GateIsHonest, Refreshing
<1>3. BrowserOK /\ Rotation!TypeOK /\ GateIsHonest /\ [Next]_vars => GateIsHonest'
  <2> SUFFICES ASSUME BrowserOK, SlotOK, GateIsHonest, [Next]_vars PROVE GateIsHonest'
    BY DEF Rotation!TypeOK, SlotOK
  <2>1. \A t \in Tabs : Honest(t)'
    BY <1>1, NextHonest
  <2> QED
    BY <2>1 DEF GateIsHonest, Honest, Stands, Only, Awaited
<1> QED
  BY <1>2, <1>3, BrowserIsOK, ImplementsRotation, RotationTypeCorrect, PTL DEF Spec
=============================================================================

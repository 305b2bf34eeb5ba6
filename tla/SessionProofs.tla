---------------------------- MODULE SessionProofs ----------------------------
(***************************************************************************)
(* Theorems of Session, for any number of tabs and sessions.  That a live  *)
(* session survives the failures of its own requests rests on what a 401   *)
(* that is on its way says: the token it answers was never issued or has   *)
(* expired, and expired tokens stay expired.                               *)
(***************************************************************************)
EXTENDS Session, TLAPS

\* A tab that creates an account has sent the registration form; a form that
\* succeeds brings a token; a 401 answers a login, or a request without a token
\* or with an expired one.
AnswersMean ==
  \A t \in Tabs :
    /\ tab[t].pc = "create" => tab[t].kind = "register"
    /\ tab[t].pc = "ok" => tab[t].kind = "list" \/ tab[t].given # 0
    /\ tab[t].pc = "unauthorized" =>
         \/ tab[t].kind = "login"
         \/ tab[t].token \notin (1..issued) \ expired

Inv == TypeOK /\ AnswersMean

LEMMA FreshType ==
  ASSUME TypeOK, NEW p \in Pages
  PROVE  Fresh(p) \in TabState /\ Fresh(p).pc = "idle"
BY SessionAssumption DEF TypeOK, Fresh, TabState, Pages

LEMMA RequestType ==
  ASSUME TypeOK, NEW p \in Pages, NEW k \in {"login", "register", "list"}
  PROVE  Request(p, k) \in TabState /\ Request(p, k).pc = "sent"
BY SessionAssumption DEF TypeOK, Request, TabState, Pages

LEMMA InitInv == Init => Inv
<1>. SUFFICES ASSUME Init PROVE Inv
  OBVIOUS
<1>1. issued = 0 /\ "login" \in Pages
  BY DEF Init, Pages
<1>2. Fresh("login") \in TabState /\ Fresh("login").pc = "idle"
  BY <1>1 DEF Fresh, TabState, Pages
<1>3. tab \in [Tabs -> TabState]
  BY <1>2 DEF Init
<1>. QED
  BY <1>2, <1>3, SessionAssumption DEF Init, Inv, TypeOK, AnswersMean

\* A tab gets a new state with an answer that means what AnswersMean says of it.
LEMMA TabInv ==
  ASSUME Inv, NEW t \in Tabs, NEW r \in TabState,
         tab' = [tab EXCEPT ![t] = r],
         r.pc = "create" => r.kind = "register",
         r.pc = "ok" => r.kind = "list" \/ r.given # 0,
         r.pc = "unauthorized" =>
           r.kind = "login" \/ r.token \notin (1..issued) \ expired,
         UNCHANGED <<issued, expired>>
  PROVE  /\ tab' \in [Tabs -> TabState]'
         /\ AnswersMean'
<1>1. tab' \in [Tabs -> TabState]
  BY DEF Inv, TypeOK
<1>2. TabState' = TabState
  BY DEF TabState
<1>3. ASSUME NEW u \in Tabs
      PROVE  tab'[u] = IF u = t THEN r ELSE tab[u]
  BY DEF Inv, TypeOK
<1>. QED
  BY <1>1, <1>2, <1>3 DEF Inv, AnswersMean

-----------------------------------------------------------------------------
\* The frontend
LEMMA VisitInv ==
  ASSUME Inv, NEW t \in Tabs, NEW p \in Pages, Visit(t, p)
  PROVE  Inv'
<1>. DEFINE seen == IF p = "dashboard" /\ store = 0 THEN "login" ELSE p
            r == IF p = "dashboard" /\ tab[t].pc = "idle"
                 THEN Request(seen, "list")
                 ELSE [tab[t] EXCEPT !.page = seen]
<1>1. seen \in Pages
  BY DEF Pages
<1>2. tab[t] \in TabState
  BY DEF Inv, TypeOK
<1>3. Request(seen, "list") \in TabState /\ Request(seen, "list").pc = "sent"
  BY <1>1, RequestType DEF Inv
<1>4. [tab[t] EXCEPT !.page = seen] \in TabState
  BY <1>1, <1>2 DEF TabState
<1>5. /\ r \in TabState
      /\ r.pc \in {"create", "ok", "unauthorized"} => r = [tab[t] EXCEPT !.page = seen]
  BY <1>3, <1>4
<1>6. /\ r.pc = "create" => r.kind = "register"
      /\ r.pc = "ok" => r.kind = "list" \/ r.given # 0
      /\ r.pc = "unauthorized" => r.kind = "login" \/ r.token \notin (1..issued) \ expired
  BY <1>2, <1>5 DEF Inv, AnswersMean, TabState
<1>7. tab' = [tab EXCEPT ![t] = r]
  BY DEF Visit
<1>. HIDE DEF r, seen
<1>8. tab' \in [Tabs -> TabState]' /\ AnswersMean'
  BY <1>5, <1>6, <1>7, TabInv DEF Visit
<1>. QED
  BY <1>8 DEF Inv, TypeOK, Visit

LEMMA SendInv ==
  ASSUME Inv, NEW t \in Tabs, Send(t)
  PROVE  Inv'
<1>. DEFINE kind == IF tab[t].page = "dashboard" THEN "list" ELSE tab[t].page
            r == Request(tab[t].page, kind)
<1>1. tab[t] \in TabState
  BY DEF Inv, TypeOK
<1>2. tab[t].page \in Pages /\ kind \in {"login", "register", "list"}
  BY <1>1 DEF TabState, Pages
<1>3. r \in TabState /\ r.pc = "sent"
  BY <1>2, RequestType DEF Inv
<1>4. tab' = [tab EXCEPT ![t] = r]
  BY DEF Send
<1>. HIDE DEF r
<1>5. tab' \in [Tabs -> TabState]' /\ AnswersMean'
  BY <1>3, <1>4, TabInv DEF Send
<1>. QED
  BY <1>5 DEF Inv, TypeOK, Send

LEMMA LogoutInv ==
  ASSUME Inv, NEW t \in Tabs, Logout(t)
  PROVE  Inv'
<1>. DEFINE r == [tab[t] EXCEPT !.page = "login"]
<1>1. tab[t] \in TabState
  BY DEF Inv, TypeOK
<1>2. /\ r \in TabState
      /\ r.pc = "create" => r.kind = "register"
      /\ r.pc = "ok" => r.kind = "list" \/ r.given # 0
      /\ r.pc = "unauthorized" => r.kind = "login" \/ r.token \notin (1..issued) \ expired
  BY <1>1 DEF Inv, AnswersMean, TabState, Pages
<1>3. tab' = [tab EXCEPT ![t] = r]
  BY DEF Logout
<1>. HIDE DEF r
<1>4. tab' \in [Tabs -> TabState]' /\ AnswersMean'
  BY <1>2, <1>3, TabInv DEF Logout
<1>. QED
  BY <1>4, SessionAssumption DEF Inv, TypeOK, Logout

LEMMA AnswerInv ==
  ASSUME Inv, NEW t \in Tabs, Answer(t)
  PROVE  Inv'
<1>1. tab[t] \in TabState
  BY DEF Inv, TypeOK
<1>2. Landing(t) \subseteq Pages
  BY <1>1 DEF Landing, TabState, Pages
<1>3. PICK p \in Landing(t) : tab' = [tab EXCEPT ![t] = Fresh(p)]
  BY DEF Answer
<1>4. Fresh(p) \in TabState /\ Fresh(p).pc = "idle"
  BY <1>2, <1>3, FreshType DEF Inv
<1>5. tab' \in [Tabs -> TabState]' /\ AnswersMean'
  BY <1>3, <1>4, TabInv DEF Answer
<1>6. store' \in 0..issued
  BY <1>1, SessionAssumption DEF Answer, Inv, TypeOK, TabState
<1>. QED
  BY <1>5, <1>6 DEF Inv, TypeOK, Answer

-----------------------------------------------------------------------------
\* The API

\* The answer is all of a tab that the API changes.
LEMMA PcInv ==
  ASSUME Inv, NEW t \in Tabs,
         NEW pc \in {"idle", "sent", "create", "ok", "unauthorized", "error"},
         tab' = [tab EXCEPT ![t].pc = pc],
         pc = "create" => tab[t].kind = "register",
         pc = "ok" => tab[t].kind = "list",
         pc = "unauthorized" =>
           tab[t].kind = "login" \/ tab[t].token \notin (1..issued) \ expired,
         UNCHANGED <<issued, expired>>
  PROVE  /\ tab' \in [Tabs -> TabState]'
         /\ AnswersMean'
<1>. DEFINE r == [tab[t] EXCEPT !.pc = pc]
<1>1. tab[t] \in TabState
  BY DEF Inv, TypeOK
<1>2. r \in TabState /\ r.pc = pc /\ r.kind = tab[t].kind /\ r.token = tab[t].token
  BY <1>1 DEF TabState
<1>3. tab' = [tab EXCEPT ![t] = r]
  OBVIOUS
<1>. HIDE DEF r
<1>. QED
  BY <1>2, <1>3, TabInv

\* A new token: the numbers of the old ones stay what they are.
LEMMA IssueInv ==
  ASSUME Inv, NEW t \in Tabs, Issue(t), UNCHANGED <<expired, store, faults>>, accounts' \in {0, 1}
  PROVE  Inv'
<1>1. issued \in Nat /\ issued' = issued + 1 /\ issued' \in 0..MaxTokens
  BY SessionAssumption DEF Inv, TypeOK, Issue
<1>2. 0..issued \subseteq 0..issued' /\ issued + 1 \in 0..issued'
  BY <1>1
<1>3. TabState \subseteq TabState'
  BY <1>2 DEF TabState
<1>4. tab \in [Tabs -> TabState]
  BY DEF Inv, TypeOK
<1>. DEFINE r == [tab[t] EXCEPT !.pc = "ok", !.given = issued + 1]
<1>5. tab[t] \in TabState'
  BY <1>3, <1>4
<1>6. r \in TabState' /\ r.pc = "ok"
  BY <1>2, <1>5 DEF TabState
<1>7. tab' = [tab EXCEPT ![t] = r]
  BY DEF Issue
<1>8. tab' \in [Tabs -> TabState']
  BY <1>3, <1>4, <1>6, <1>7
<1>9. ASSUME NEW u \in Tabs
      PROVE  /\ tab'[u].pc = "create" => tab'[u].kind = "register"
             /\ tab'[u].pc = "ok" => tab'[u].kind = "list" \/ tab'[u].given # 0
             /\ tab'[u].pc = "unauthorized" =>
                  \/ tab'[u].kind = "login"
                  \/ tab'[u].token \notin (1..issued') \ expired'
  <2>1. CASE u = t
    <3>1. r.given = issued + 1 /\ issued + 1 # 0
      BY <1>1, <1>4 DEF TabState
    <3>. QED
      BY <3>1, <1>4, <1>6, <1>7, <2>1
  <2>2. CASE u # t
    <3>1. tab'[u] = tab[u] /\ tab[u].token \in 0..issued
      BY <1>4, <1>7, <2>2 DEF TabState
    <3>. QED
      BY <3>1, <1>1 DEF Inv, AnswersMean
  <2>. QED
    BY <2>1, <2>2
<1>10. AnswersMean'
  BY <1>9 DEF AnswersMean
<1>11. expired' \subseteq 1..issued' /\ store' \in 0..issued'
  BY <1>1, <1>2 DEF Inv, TypeOK
<1>. QED
  BY <1>1, <1>8, <1>10, <1>11 DEF Inv, TypeOK

LEMMA ServeInv ==
  ASSUME Inv, NEW t \in Tabs, Serve(t)
  PROVE  Inv'
<1>1. ASSUME Login(t) PROVE Inv'
  <2>1. CASE accounts > 0 /\ Issue(t)
    BY <1>1, <2>1, IssueInv DEF Login, Inv, TypeOK
  <2>2. ASSUME NEW pc \in {"unauthorized", "error"}, tab' = [tab EXCEPT ![t].pc = pc],
               UNCHANGED issued
        PROVE  Inv'
    <3>1. tab' \in [Tabs -> TabState]' /\ AnswersMean'
      BY <1>1, <2>2, PcInv DEF Login
    <3>. QED
      BY <1>1, <2>2, <3>1 DEF Login, Inv, TypeOK
  <2>. QED
    BY <1>1, <2>1, <2>2 DEF Login
<1>2. ASSUME RegisterFind(t) PROVE Inv'
  <2>1. PICK pc \in {"error", "create"} : tab' = [tab EXCEPT ![t].pc = pc]
    BY <1>2 DEF RegisterFind
  <2>2. tab' \in [Tabs -> TabState]' /\ AnswersMean'
    BY <1>2, <2>1, PcInv DEF RegisterFind
  <2>. QED
    BY <1>2, <2>2 DEF RegisterFind, Inv, TypeOK
<1>3. ASSUME RegisterCreate(t) PROVE Inv'
  <2>1. CASE accounts = 0
    BY <1>3, <2>1, IssueInv DEF RegisterCreate
  <2>2. CASE accounts # 0
    <3>1. tab' \in [Tabs -> TabState]' /\ AnswersMean'
      BY <1>3, <2>2, PcInv DEF RegisterCreate
    <3>. QED
      BY <1>3, <2>2, <3>1 DEF RegisterCreate, Inv, TypeOK
  <2>. QED
    BY <2>1, <2>2
<1>4. ASSUME Authorize(t) PROVE Inv'
  <2>. DEFINE pc == IF tab[t].token \in (1..issued) \ expired THEN "ok" ELSE "unauthorized"
  <2>1. tab' = [tab EXCEPT ![t].pc = pc]
    BY <1>4 DEF Authorize
  <2>2. tab' \in [Tabs -> TabState]' /\ AnswersMean'
    BY <1>4, <2>1, PcInv DEF Authorize
  <2>. QED
    BY <1>4, <2>2 DEF Authorize, Inv, TypeOK
<1>. QED
  BY <1>1, <1>2, <1>3, <1>4 DEF Serve

LEMMA FailInv ==
  ASSUME Inv, NEW t \in Tabs, Fail(t)
  PROVE  Inv'
<1>1. tab' \in [Tabs -> TabState]' /\ AnswersMean'
  BY PcInv DEF Fail
<1>. QED
  BY <1>1, SessionAssumption DEF Fail, Inv, TypeOK

LEMMA ExpireInv ==
  ASSUME Inv, Expire
  PROVE  Inv'
<1>1. PICK k \in (1..issued) \ expired : expired' = expired \cup {k}
  BY DEF Expire
<1>2. TabState' = TabState
  BY DEF TabState, Expire
<1>. QED
  BY <1>1, <1>2 DEF Expire, Inv, TypeOK, AnswersMean

LEMMA NextInv == Inv /\ [Next]_vars => Inv'
<1>. SUFFICES ASSUME Inv, [Next]_vars PROVE Inv'
  OBVIOUS
<1>1. CASE Next
  BY <1>1, VisitInv, SendInv, LogoutInv, ServeInv, FailInv, AnswerInv, ExpireInv DEF Next
<1>2. CASE UNCHANGED vars
  <2>1. TabState' = TabState
    BY <1>2 DEF TabState, vars
  <2>. QED
    BY <1>2, <2>1 DEF vars, Inv, TypeOK, AnswersMean
<1>. QED
  BY <1>1, <1>2

-----------------------------------------------------------------------------
\* Theorems

(***************************************************************************)
(* The variables keep their types; in particular the unique constraint     *)
(* leaves an e-mail address with one account, whatever registrations       *)
(* overlap.                                                                *)
(***************************************************************************)
THEOREM SessionTyped == Spec => []TypeOK
<1>1. Inv => TypeOK
  BY DEF Inv
<1>. QED
  BY InitInv, NextInv, <1>1, PTL DEF Spec

\* A step that takes a live session away is a logout or such an answer.
LEMMA SessionsEnd ==
  ASSUME Inv, Next, store # 0, store \notin expired, store' = 0
  PROVE  \E t \in Tabs :
           \/ Logout(t)
           \/ /\ tab[t].pc = "unauthorized"
              /\ tab[t].kind = "login" \/ tab[t].token # store
<1>1. ASSUME NEW t \in Tabs, Answer(t)
      PROVE  /\ tab[t].pc = "unauthorized"
             /\ tab[t].kind = "login" \/ tab[t].token # store
  <2>1. tab[t].pc = "unauthorized"
    BY <1>1 DEF Answer, Inv, AnswersMean
  <2>2. store \in (1..issued) \ expired
    BY SessionAssumption DEF Inv, TypeOK
  <2>. QED
    BY <2>1, <2>2 DEF Inv, AnswersMean
<1>2. \E t \in Tabs : Logout(t) \/ Answer(t)
  BY DEF Next, Visit, Send, Serve, Login, RegisterFind, RegisterCreate, Authorize, Fail, Expire
<1>. QED
  BY <1>1, <1>2

(***************************************************************************)
(* For any number of tabs and sessions, a session that has not expired is  *)
(* ended by a logout, by a failed login, or by the 401 to a request that   *)
(* did not carry it.                                                       *)
(***************************************************************************)
THEOREM LiveSessionsStay == Spec => OnlyStaleAnswersLogOut
<1>1. Inv /\ [Next]_vars =>
        [store # 0 /\ store \notin expired /\ store' = 0 =>
           \E t \in Tabs :
             \/ Logout(t)
             \/ /\ tab[t].pc = "unauthorized"
                /\ tab[t].kind = "login" \/ tab[t].token # store]_vars
  BY SessionsEnd DEF vars
<1>. QED
  BY InitInv, NextInv, <1>1, PTL DEF Spec, OnlyStaleAnswersLogOut
=============================================================================

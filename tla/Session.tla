------------------------------- MODULE Session -------------------------------
(***************************************************************************)
(* A user's session: the auth endpoints of the API, the access tokens they *)
(* issue, and the frontend in the tabs of one browser, which share the     *)
(* session in localStorage.  A request carries the token that is stored    *)
(* when it is sent; its answer meets whatever is stored when it arrives.   *)
(*                                                                         *)
(* Tokens are numbered as they are issued, 0 stands for none.  The tabs    *)
(* act for one e-mail address.  The frontend never calls /auth/refresh.    *)
(***************************************************************************)
EXTENDS Integers

CONSTANTS
  Tabs,
  MaxTokens,  \* bound: sessions that are ever issued
  MaxFaults   \* bound: requests that fail for another reason than a 401

ASSUME SessionAssumption == MaxTokens \in Nat /\ MaxFaults \in Nat

VARIABLES
  accounts,  \* User rows with the e-mail address
  issued,    \* tokens issued so far
  expired,   \* those older than JWT_EXPIRY
  store,     \* the token in localStorage
  tab,       \* each tab: its page and its request
  faults

vars == <<accounts, issued, expired, store, tab, faults>>

Pages == {"login", "register", "dashboard"}

\* token: what the request carries; given: the token its answer brings.
Fresh(page) == [page |-> page, pc |-> "idle", kind |-> "list", token |-> 0, given |-> 0]

Init ==
  /\ accounts = 0
  /\ issued = 0 /\ expired = {}
  /\ store = 0
  /\ tab = [t \in Tabs |-> Fresh("login")]
  /\ faults = 0

-----------------------------------------------------------------------------
\* The frontend

\* A request leaves with the token that is stored now.
Request(page, kind) ==
  [page |-> page, pc |-> "sent", kind |-> kind, token |-> store, given |-> 0]

\* The dashboard asks for its data when it is opened, and then sends a visitor
\* without a token to the login page.
Visit(t, p) ==
  LET seen == IF p = "dashboard" /\ store = 0 THEN "login" ELSE p
  IN /\ tab' = [tab EXCEPT ![t] = IF p = "dashboard" /\ @.pc = "idle"
                                  THEN Request(seen, "list")
                                  ELSE [@ EXCEPT !.page = seen]]
     /\ UNCHANGED <<accounts, issued, expired, store, faults>>

\* The form of the page is sent, or the dashboard asks again.  (One request of a
\* tab at a time: a bound.)
Send(t) ==
  /\ tab[t].pc = "idle"
  /\ tab' = [tab EXCEPT ![t] = Request(@.page, IF @.page = "dashboard"
                                               THEN "list" ELSE @.page)]
  /\ UNCHANGED <<accounts, issued, expired, store, faults>>

\* The bar of any page that shows a user offers it.
Logout(t) ==
  /\ store' = 0
  /\ tab' = [tab EXCEPT ![t].page = "login"]
  /\ UNCHANGED <<accounts, issued, expired, faults>>

\* Where an answer leaves its tab: a login or registration opens the dashboard,
\* which looks for a token again when the number of websites has changed.
Landing(t) ==
  LET a == tab[t]
  IN CASE a.pc = "ok" /\ a.kind # "list" -> {"dashboard"}
       [] a.pc = "ok" /\ a.page = "dashboard" /\ store = 0 -> {"dashboard", "login"}
       [] OTHER -> {a.page}

\* Mutant: any failed request ends the session.
AnswerAnyError(t) ==
  /\ tab[t].pc \in {"ok", "unauthorized", "error"}
  /\ store' = CASE tab[t].pc # "ok" -> 0
                [] tab[t].pc = "ok" /\ tab[t].kind # "list" -> tab[t].given
                [] OTHER -> store
  /\ \E p \in Landing(t) : tab' = [tab EXCEPT ![t] = Fresh(p)]
  /\ UNCHANGED <<accounts, issued, expired, faults>>

\* Mutant: the interceptor hands the 401 on and keeps the session.
AnswerKeep(t) ==
  /\ tab[t].pc \in {"ok", "unauthorized", "error"}
  /\ store' = IF tab[t].pc = "ok" /\ tab[t].kind # "list" THEN tab[t].given ELSE store
  /\ \E p \in Landing(t) : tab' = [tab EXCEPT ![t] = Fresh(p)]
  /\ UNCHANGED <<accounts, issued, expired, faults>>

\* A login or registration that succeeds stores its session; a 401 to any
\* request clears whatever is stored, and leaves the page as it is.
Answer(t) ==
  /\ tab[t].pc \in {"ok", "unauthorized", "error"}
  /\ store' = CASE tab[t].pc = "ok" /\ tab[t].kind # "list" -> tab[t].given
                [] tab[t].pc = "unauthorized" -> 0
                [] OTHER -> store
  /\ \E p \in Landing(t) : tab' = [tab EXCEPT ![t] = Fresh(p)]
  /\ UNCHANGED <<accounts, issued, expired, faults>>

-----------------------------------------------------------------------------
\* The API

Issue(t) ==
  /\ issued < MaxTokens
  /\ issued' = issued + 1
  /\ tab' = [tab EXCEPT ![t].pc = "ok", ![t].given = issued + 1]

\* POST /auth/login, with the right password, a wrong one (401), or a body
\* without one (400)
Login(t) ==
  /\ tab[t].pc = "sent" /\ tab[t].kind = "login"
  /\ \/ accounts > 0 /\ Issue(t)
     \/ /\ \E pc \in {"unauthorized", "error"} : tab' = [tab EXCEPT ![t].pc = pc]
        /\ UNCHANGED issued
  /\ UNCHANGED <<accounts, expired, store, faults>>

\* POST /auth/register: the body is checked (400), the address looked up (409) ...
RegisterFind(t) ==
  /\ tab[t].pc = "sent" /\ tab[t].kind = "register"
  /\ \E pc \in {"error"} \cup (IF accounts = 0 THEN {"create"} ELSE {}) :
       tab' = [tab EXCEPT ![t].pc = pc]
  /\ UNCHANGED <<accounts, issued, expired, store, faults>>

\* Mutant: no unique constraint behind the look-up.
RegisterUnconstrained(t) ==
  /\ tab[t].pc = "create"
  /\ Issue(t)
  /\ accounts' = accounts + 1
  /\ UNCHANGED <<expired, store, faults>>

\* ... and the insert, which the unique address may make fail (400).
RegisterCreate(t) ==
  /\ tab[t].pc = "create"
  /\ IF accounts = 0
     THEN Issue(t) /\ accounts' = 1
     ELSE /\ tab' = [tab EXCEPT ![t].pc = "error"]
          /\ UNCHANGED <<accounts, issued>>
  /\ UNCHANGED <<expired, store, faults>>

\* authMiddleware for what the dashboard asks, "list" for short
Authorize(t) ==
  /\ tab[t].pc = "sent" /\ tab[t].kind = "list"
  /\ tab' = [tab EXCEPT ![t].pc = IF tab[t].token \in (1..issued) \ expired
                                  THEN "ok" ELSE "unauthorized"]
  /\ UNCHANGED <<accounts, issued, expired, store, faults>>

\* A request or its answer is lost, takes longer than 15 s or fails (5xx).
Fail(t) ==
  /\ tab[t].pc \in {"sent", "create", "ok", "unauthorized"} /\ faults < MaxFaults
  /\ tab' = [tab EXCEPT ![t].pc = "error"]
  /\ faults' = faults + 1
  /\ UNCHANGED <<accounts, issued, expired, store>>

Expire ==
  /\ \E k \in (1..issued) \ expired : expired' = expired \cup {k}
  /\ UNCHANGED <<accounts, issued, store, tab, faults>>

-----------------------------------------------------------------------------
Serve(t) == Login(t) \/ RegisterFind(t) \/ RegisterCreate(t) \/ Authorize(t)

Next ==
  \/ \E t \in Tabs :
       \/ \E p \in Pages : Visit(t, p)
       \/ Send(t) \/ Logout(t) \/ Serve(t) \/ Fail(t) \/ Answer(t)
  \/ Expire

Spec == Init /\ [][Next]_vars

(***************************************************************************)
(* A dashboard that is open asks for the websites every 20 s, and requests *)
(* are answered.  Strong fairness of the asking, because a tab has one     *)
(* request at a time.  Nothing is assumed of the user.                     *)
(***************************************************************************)
FairSpec ==
  /\ Spec
  /\ \A t \in Tabs :
       /\ SF_vars(Send(t) /\ tab[t].page = "dashboard")
       /\ WF_vars(Serve(t)) /\ WF_vars(Answer(t))

-----------------------------------------------------------------------------
\* Properties

TabState ==
  [page : Pages, kind : {"login", "register", "list"},
   pc : {"idle", "sent", "create", "ok", "unauthorized", "error"},
   token : 0..issued, given : 0..issued]

\* Every variable has its type; an e-mail address has one account at most,
\* though registrations of it pass their look-ups side by side.
TypeOK ==
  /\ accounts \in {0, 1}
  /\ issued \in 0..MaxTokens
  /\ expired \subseteq 1..issued
  /\ store \in 0..issued
  /\ tab \in [Tabs -> TabState]
  /\ faults \in 0..MaxFaults

(***************************************************************************)
(* A session that has not expired ends by a logout, by a failed login, or  *)
(* by a 401 to a request that was sent without it or before it, in some    *)
(* tab.  No failure of a request that carried it ends it.                  *)
(***************************************************************************)
OnlyStaleAnswersLogOut ==
  [][store # 0 /\ store \notin expired /\ store' = 0 =>
       \E t \in Tabs :
         \/ Logout(t)
         \/ /\ tab[t].pc = "unauthorized"
            /\ tab[t].kind = "login" \/ tab[t].token # store]_vars

(***************************************************************************)
(* An expired session does not stay: while a dashboard is open, it is      *)
(* cleared or replaced, though the page itself never looks again.          *)
(***************************************************************************)
ExpiredSessionLeaves ==
  \A t \in Tabs : <>[](tab[t].page = "dashboard") => []<>(store \notin expired)
=============================================================================

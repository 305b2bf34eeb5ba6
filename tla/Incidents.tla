------------------------------ MODULE Incidents ------------------------------
(***************************************************************************)
(* The alert configurations of one website and the incidents its regions   *)
(* raise: the last part of evaluateConsensus, run for the jobs of several  *)
(* regions at once, and the alert endpoints that create, change and delete *)
(* configurations meanwhile.  What the votes of a job decide is what the   *)
(* website is in that region (JobService says why).                        *)
(*                                                                         *)
(* One action per call to the database, as in JobService.  The statements  *)
(* of a transaction see what is committed when they start; its writes      *)
(* appear at the commit.                                                   *)
(***************************************************************************)
EXTENDS Integers

CONSTANTS
  Alerts,     \* the configurations that are ever created
  Regions,
  Txs,        \* transactions that may be in progress together
  Editors,    \* PUT and DELETE handlers that may be in progress together
  MaxFaults   \* bound: transactions that fail or time out, and late evaluations

ASSUME IncidentsAssumption == Regions # {} /\ Alerts # {} /\ MaxFaults \in Nat

VARIABLES
  alert,    \* of each configuration: not created yet, on, off or deleted
  open,     \* the <<configuration, region>> that have an unresolved incident
  down,     \* the regions in which the website is down
  tx,       \* each transaction: where it is, what it has read and written
  edit,     \* each handler: what it is about to write
  faults

vars == <<alert, open, down, tx, edit, faults>>

\* on: isEnabled, and of type DOWNTIME; the two only matter together.
AlertState == {"new", "on", "off", "gone"}

Row == {"on", "off"}

NoTx == [pc |-> "idle", region |-> CHOOSE r \in Regions : TRUE, todo |-> {}, made |-> {},
         seen |-> {}]

NoEdit == [pc |-> "idle", alert |-> CHOOSE a \in Alerts : TRUE, to |-> "off", asked |-> "absent"]

Init ==
  /\ alert = [a \in Alerts |-> "new"]
  /\ open = {}
  /\ down = {}
  /\ tx = [t \in Txs |-> NoTx]
  /\ edit = [e \in Editors |-> NoEdit]
  /\ faults = 0

\* The website goes down in a region, or comes back.
Change(r) ==
  /\ down' = IF r \in down THEN down \ {r} ELSE down \cup {r}
  /\ UNCHANGED <<alert, open, tx, edit, faults>>

-----------------------------------------------------------------------------
\* The transaction of evaluateConsensus, once the job is COMPLETED

\* A job of the region is decided: DOWN, or anything else.
Evaluate(t, r) ==
  /\ tx[t].pc = "idle"
  /\ tx' = [tx EXCEPT ![t] = [NoTx EXCEPT !.pc = IF r \in down THEN "read" ELSE "resolve",
                                          !.region = r]]
  /\ UNCHANGED <<alert, open, down, edit, faults>>

\* A late report of a job decided before the region changed evaluates it again.
EvaluateLate(t, r) ==
  /\ tx[t].pc = "idle" /\ faults < MaxFaults
  /\ tx' = [tx EXCEPT ![t] = [NoTx EXCEPT !.pc = IF r \in down THEN "resolve" ELSE "read",
                                          !.region = r]]
  /\ faults' = faults + 1
  /\ UNCHANGED <<alert, open, down, edit>>

\* Mutant: a configuration has one unresolved incident, of whichever region.
TxReadQuiet(t) ==
  /\ tx[t].pc = "read"
  /\ tx' = [tx EXCEPT ![t].pc = "create",
                      ![t].todo = {a \in Alerts : /\ alert[a] = "on"
                                                  /\ \A r \in Regions : <<a, r>> \notin open}]
  /\ UNCHANGED <<alert, open, down, edit, faults>>

\* alertConfig.findMany
TxRead(t) ==
  /\ tx[t].pc = "read"
  /\ tx' = [tx EXCEPT ![t].pc = "create", ![t].todo = {a \in Alerts : alert[a] = "on"}]
  /\ UNCHANGED <<alert, open, down, edit, faults>>

\* incident.create for the next of them.  Its row must still be there, and is
\* locked against deletion from now on; if it is not, the transaction fails.
TxCreate(t) ==
  /\ tx[t].pc = "create"
  /\ \E a \in tx[t].todo :
       tx' = [tx EXCEPT ![t] =
                IF alert[a] \in Row
                THEN [tx[t] EXCEPT !.todo = tx[t].todo \ {a},
                                   !.made = tx[t].made \cup {a}]
                ELSE NoTx]
  /\ UNCHANGED <<alert, open, down, edit, faults>>

\* The commit.  An incident committed now is none of those that a transaction
\* about to resolve has seen.
TxOpen(t) ==
  LET made == tx[t].made \X {tx[t].region}
  IN /\ tx[t].pc = "create" /\ tx[t].todo = {}
     /\ open' = open \cup made
     /\ tx' = [u \in Txs |-> IF u = t THEN NoTx ELSE [tx[u] EXCEPT !.seen = @ \ made]]
     /\ UNCHANGED <<alert, down, edit, faults>>

\* Mutant: only the incidents of configurations that are on are resolved.
TxResolveOn(t) ==
  /\ tx[t].pc = "resolve"
  /\ tx' = [tx EXCEPT ![t].pc = "commit", ![t].seen = {i \in open : alert[i[1]] = "on"}]
  /\ UNCHANGED <<alert, open, down, edit, faults>>

\* incident.updateMany: every unresolved incident of the website there is now.
TxResolve(t) ==
  /\ tx[t].pc = "resolve"
  /\ tx' = [tx EXCEPT ![t].pc = "commit", ![t].seen = open]
  /\ UNCHANGED <<alert, open, down, edit, faults>>

TxClose(t) ==
  /\ tx[t].pc = "commit"
  /\ open' = open \ tx[t].seen
  /\ tx' = [tx EXCEPT ![t] = NoTx]
  /\ UNCHANGED <<alert, down, edit, faults>>

TxFault(t) ==
  /\ tx[t].pc # "idle" /\ faults < MaxFaults
  /\ tx' = [tx EXCEPT ![t] = NoTx]
  /\ faults' = faults + 1
  /\ UNCHANGED <<alert, open, down, edit>>

-----------------------------------------------------------------------------
\* The alert endpoints

\* POST /alerts
CreateAlert(a, s) ==
  /\ alert[a] = "new"
  /\ alert' = [alert EXCEPT ![a] = s]
  /\ UNCHANGED <<open, down, tx, edit, faults>>

\* Mutant: a field the body does not mention gets the default of a new row.
PutDefault(e, a, ask) ==
  /\ edit[e].pc = "idle" /\ alert[a] \in Row
  /\ edit' = [edit EXCEPT ![e] = [pc |-> "write", alert |-> a, asked |-> ask,
                                  to |-> IF ask = "absent" THEN "on" ELSE ask]]
  /\ UNCHANGED <<alert, open, down, tx, faults>>

\* Mutant: no answer 404 for a configuration that has been deleted.
PutUnchecked(e, a, ask) ==
  /\ edit[e].pc = "idle"
  /\ edit' = [edit EXCEPT ![e] = [pc |-> "write", alert |-> a, asked |-> ask,
                                  to |-> IF ask = "absent" THEN alert[a] ELSE ask]]
  /\ UNCHANGED <<alert, open, down, tx, faults>>

\* PUT /alerts/:id will write what the body asks for and, where the body is
\* silent, what it has read.
Put(e, a, ask) ==
  /\ edit[e].pc = "idle" /\ alert[a] \in Row
  /\ edit' = [edit EXCEPT ![e] = [pc |-> "write", alert |-> a, asked |-> ask,
                                  to |-> IF ask = "absent" THEN alert[a] ELSE ask]]
  /\ UNCHANGED <<alert, open, down, tx, faults>>

Delete(e, a) ==
  /\ edit[e].pc = "idle" /\ alert[a] \in Row
  /\ edit' = [edit EXCEPT ![e] = [NoEdit EXCEPT !.pc = "delete", !.alert = a]]
  /\ UNCHANGED <<alert, open, down, tx, faults>>

PutWrite(e) ==
  LET a == edit[e].alert
  IN /\ edit[e].pc = "write" /\ alert[a] \in Row
     /\ alert' = [alert EXCEPT ![a] = edit[e].to]
     /\ edit' = [edit EXCEPT ![e] = NoEdit]
     /\ UNCHANGED <<open, down, tx, faults>>

\* Mutant: the incidents of a deleted configuration stay.
DeleteKeeping(e) ==
  LET a == edit[e].alert
  IN /\ edit[e].pc = "delete" /\ alert[a] \in Row
     /\ \A t \in Txs : a \notin tx[t].made
     /\ alert' = [alert EXCEPT ![a] = "gone"]
     /\ edit' = [edit EXCEPT ![e] = NoEdit]
     /\ UNCHANGED <<open, down, tx, faults>>

\* The row goes, once no transaction holds it, and its incidents with it.
DeleteWrite(e) ==
  LET a == edit[e].alert
  IN /\ edit[e].pc = "delete" /\ alert[a] \in Row
     /\ \A t \in Txs : a \notin tx[t].made
     /\ alert' = [alert EXCEPT ![a] = "gone"]
     /\ open' = {i \in open : i[1] # a}
     /\ edit' = [edit EXCEPT ![e] = NoEdit]
     /\ UNCHANGED <<down, tx, faults>>

\* The row has been deleted since it was read: the call is rejected, which the
\* handler does not catch.  The replica may stop, and its transactions with it.
EditRejected(e) ==
  /\ edit[e].pc # "idle" /\ alert[edit[e].alert] = "gone"
  /\ edit' = [edit EXCEPT ![e] = NoEdit]
  /\ \E T \in SUBSET Txs : tx' = [t \in Txs |-> IF t \in T THEN NoTx ELSE tx[t]]
  /\ UNCHANGED <<alert, open, down, faults>>

-----------------------------------------------------------------------------
Tx(t) ==
  TxRead(t) \/ TxCreate(t) \/ TxOpen(t) \/ TxResolve(t) \/ TxClose(t)

Edit(e) ==
  \/ \E a \in Alerts : Delete(e, a) \/ \E ask \in Row \cup {"absent"} : Put(e, a, ask)
  \/ PutWrite(e) \/ DeleteWrite(e) \/ EditRejected(e)

Next ==
  \/ \E r \in Regions : Change(r) \/ \E t \in Txs : Evaluate(t, r) \/ EvaluateLate(t, r)
  \/ \E t \in Txs : Tx(t) \/ TxFault(t)
  \/ \E a \in Alerts, s \in Row : CreateAlert(a, s)
  \/ \E e \in Editors : Edit(e)

Spec == Init /\ [][Next]_vars

(***************************************************************************)
(* The hub goes on creating jobs for every region, and with validators at  *)
(* work some are decided again and again; transactions run to their end.   *)
(* Strong fairness of Evaluate, because Txs bounds those in progress.      *)
(***************************************************************************)
FairSpec ==
  /\ Spec
  /\ \A r \in Regions : SF_vars(\E t \in Txs : Evaluate(t, r))
  /\ \A t \in Txs : WF_vars(Tx(t))

-----------------------------------------------------------------------------
\* Properties

TxState == [pc : {"idle", "read", "create", "resolve", "commit"}, region : Regions,
            todo : SUBSET Alerts, made : SUBSET Alerts, seen : SUBSET (Alerts \X Regions)]

EditState == [pc : {"idle", "write", "delete"}, alert : Alerts, to : Row,
              asked : Row \cup {"absent"}]

\* Every variable has its type.
TypeOK ==
  /\ alert \in [Alerts -> AlertState]
  /\ open \subseteq Alerts \X Regions
  /\ down \subseteq Regions
  /\ tx \in [Txs -> TxState]
  /\ edit \in [Editors -> EditState]
  /\ faults \in 0..MaxFaults

(***************************************************************************)
(* An unresolved incident belongs to a configuration that is there, also   *)
(* when that is deleted while a transaction is opening incidents for it.   *)
(***************************************************************************)
NoOrphans == \A i \in open : alert[i[1]] \in Row

\* Who may still bring an incident of configuration a about.
Arming(a) ==
  \/ alert[a] = "on"
  \/ \E e \in Editors : edit[e].pc = "write" /\ edit[e].alert = a /\ edit[e].to = "on"

Raising(a) == \E t \in Txs : a \in tx[t].todo \cup tx[t].made

(***************************************************************************)
(* A configuration that is off is quiet: once no transaction and no PUT    *)
(* that has read it as on is in progress, no region opens an incident for  *)
(* it or begins to, until it is created or a request turns it on.          *)
(***************************************************************************)
OffIsQuiet ==
  [][\A a \in Alerts :
       /\ ~Arming(a) /\ ~Raising(a)
       /\ ~\E r \in Regions : <<a, r>> \in open
       => /\ \A r \in Regions : <<a, r>> \notin open'
          /\ ~Raising(a)'
          /\ Arming(a)' => \/ alert[a] = "new"
                           \/ \E e \in Editors : edit'[e].asked = "on" /\ edit'[e].alert = a]_vars

(***************************************************************************)
(* A region that stays down is reported for every configuration that stays *)
(* on, again and again: when another region comes back, its evaluation     *)
(* resolves the incidents of this one too, and they are opened anew.       *)
(***************************************************************************)
DownIsReported ==
  \A r \in Regions : \A a \in Alerts :
    <>[](r \in down /\ alert[a] = "on") => []<>(<<a, r>> \in open)

(***************************************************************************)
(* When the website has come back everywhere, no incident stays open, also *)
(* of a configuration turned off since, whatever overlapped or was late.   *)
(***************************************************************************)
RecoveryCloses == <>[](down = {}) => <>[](open = {})
=============================================================================

--------------------------- MODULE IncidentsProofs ---------------------------
(***************************************************************************)
(* Theorems of Incidents, for any number of configurations, regions,       *)
(* transactions and edits.  An incident is committed later than its        *)
(* configuration is looked at, so that none is an orphan rests on the lock *)
(* the transaction holds in between: what it has made is still a row.      *)
(***************************************************************************)
EXTENDS Incidents, TLAPS

\* The configurations of incidents that are not committed yet are rows.
Locked == \A t \in Txs : \A a \in tx[t].made : alert[a] \in Row

Inv == TypeOK /\ NoOrphans /\ Locked

LEMMA NoTxType == NoTx \in TxState /\ NoTx.made = {} /\ NoTx.todo = {}
BY IncidentsAssumption DEF NoTx, TxState

LEMMA NoEditType == NoEdit \in EditState
BY IncidentsAssumption DEF NoEdit, EditState, Row

LEMMA InitInv == Init => Inv
<1>. SUFFICES ASSUME Init PROVE Inv
  OBVIOUS
<1>1. tx \in [Txs -> TxState] /\ edit \in [Editors -> EditState]
  BY NoTxType, NoEditType DEF Init
<1>2. TypeOK
  BY <1>1, IncidentsAssumption DEF Init, TypeOK, AlertState
<1>. QED
  BY <1>2, NoTxType DEF Init, Inv, NoOrphans, Locked

-----------------------------------------------------------------------------
\* A step that only gives one transaction a new state, whose new incidents are
\* of rows, and commits or closes some.
LEMMA TxInv ==
  ASSUME Inv, NEW t \in Txs, NEW r \in TxState,
         tx' = [tx EXCEPT ![t] = r],
         \A a \in r.made : alert[a] \in Row,
         faults' \in 0..MaxFaults,
         UNCHANGED <<alert, open, down, edit>>
  PROVE  Inv'
<1>1. tx' \in [Txs -> TxState]
  BY DEF Inv, TypeOK
<1>2. TypeOK'
  BY <1>1 DEF Inv, TypeOK
<1>3. Locked'
  BY DEF Inv, TypeOK, Locked
<1>. QED
  BY <1>2, <1>3 DEF Inv, NoOrphans

LEMMA EvaluateInv ==
  ASSUME Inv, NEW t \in Txs, NEW r \in Regions, Evaluate(t, r) \/ EvaluateLate(t, r)
  PROVE  Inv'
<1>1. PICK pc \in {"read", "resolve"} :
        tx' = [tx EXCEPT ![t] = [NoTx EXCEPT !.pc = pc, !.region = r]]
  BY DEF Evaluate, EvaluateLate
<1>. DEFINE n == [NoTx EXCEPT !.pc = pc, !.region = r]
<1>2. n \in TxState /\ n.made = {}
  BY NoTxType DEF TxState
<1>3. faults' \in 0..MaxFaults
  BY IncidentsAssumption DEF Evaluate, EvaluateLate, Inv, TypeOK
<1>4. tx' = [tx EXCEPT ![t] = n] /\ UNCHANGED <<alert, open, down, edit>>
  BY <1>1 DEF Evaluate, EvaluateLate
<1>. HIDE DEF n
<1>. QED
  BY <1>2, <1>3, <1>4, TxInv

LEMMA TxStepInv ==
  ASSUME Inv, NEW t \in Txs, TxRead(t) \/ TxCreate(t) \/ TxResolve(t) \/ TxFault(t)
  PROVE  Inv'
<1>1. tx[t] \in TxState /\ faults \in 0..MaxFaults
  BY DEF Inv, TypeOK
<1>2. CASE TxRead(t)
  <2>. DEFINE n == [tx[t] EXCEPT !.pc = "create", !.todo = {a \in Alerts : alert[a] = "on"}]
  <2>1. n \in TxState /\ n.made = tx[t].made
    BY <1>1 DEF TxState
  <2>2. tx' = [tx EXCEPT ![t] = n] /\ UNCHANGED <<alert, open, down, edit, faults>>
    BY <1>2 DEF TxRead
  <2>. HIDE DEF n
  <2>. QED
    BY <1>1, <2>1, <2>2, TxInv DEF Inv, Locked
<1>3. CASE TxCreate(t)
  <2>1. PICK a \in tx[t].todo :
          tx' = [tx EXCEPT ![t] =
                   IF alert[a] \in Row
                   THEN [tx[t] EXCEPT !.todo = tx[t].todo \ {a},
                                      !.made = tx[t].made \cup {a}]
                   ELSE NoTx]
    BY <1>3 DEF TxCreate
  <2>. DEFINE n == IF alert[a] \in Row
                   THEN [tx[t] EXCEPT !.todo = tx[t].todo \ {a},
                                      !.made = tx[t].made \cup {a}]
                   ELSE NoTx
  <2>2. CASE alert[a] \in Row
    <3>1. n \in TxState /\ n.made = tx[t].made \cup {a}
      BY <1>1, <2>2 DEF TxState
    <3>2. tx' = [tx EXCEPT ![t] = n] /\ UNCHANGED <<alert, open, down, edit, faults>>
      BY <1>3, <2>1 DEF TxCreate
    <3>. HIDE DEF n
    <3>. QED
      BY <1>1, <2>2, <3>1, <3>2, TxInv DEF Inv, Locked
  <2>3. CASE alert[a] \notin Row
    <3>1. tx' = [tx EXCEPT ![t] = NoTx] /\ UNCHANGED <<alert, open, down, edit, faults>>
      BY <1>3, <2>1, <2>3 DEF TxCreate
    <3>. QED
      BY <1>1, <3>1, NoTxType, TxInv
  <2>. QED
    BY <2>2, <2>3
<1>4. CASE TxResolve(t)
  <2>. DEFINE n == [tx[t] EXCEPT !.pc = "commit", !.seen = open]
  <2>1. n \in TxState /\ n.made = tx[t].made
    BY <1>1 DEF TxState, Inv, TypeOK
  <2>2. tx' = [tx EXCEPT ![t] = n] /\ UNCHANGED <<alert, open, down, edit, faults>>
    BY <1>4 DEF TxResolve
  <2>. HIDE DEF n
  <2>. QED
    BY <1>1, <2>1, <2>2, TxInv DEF Inv, Locked
<1>5. CASE TxFault(t)
  <2>1. tx' = [tx EXCEPT ![t] = NoTx] /\ UNCHANGED <<alert, open, down, edit>>
        /\ faults' \in 0..MaxFaults
    BY <1>1, <1>5, IncidentsAssumption DEF TxFault
  <2>. QED
    BY <2>1, NoTxType, TxInv
<1>. QED
  BY <1>2, <1>3, <1>4, <1>5

\* The commit: what it opens was locked until now.
LEMMA TxOpenInv ==
  ASSUME Inv, NEW t \in Txs, TxOpen(t)
  PROVE  Inv'
<1>. DEFINE made == tx[t].made \X {tx[t].region}
            n == [u \in Txs |-> IF u = t THEN NoTx ELSE [tx[u] EXCEPT !.seen = @ \ made]]
<1>1. tx' = n /\ open' = open \cup made /\ UNCHANGED <<alert, down, edit, faults>>
  BY DEF TxOpen
<1>2. ASSUME NEW u \in Txs
      PROVE  n[u] \in TxState /\ n[u].made \subseteq tx[u].made
  <2>1. tx[u] \in TxState
    BY DEF Inv, TypeOK
  <2>2. [tx[u] EXCEPT !.seen = @ \ made] \in TxState
    BY <2>1 DEF TxState
  <2>. QED
    BY <2>1, <2>2, NoTxType DEF TxState
<1>3. tx[t] \in TxState
  BY DEF Inv, TypeOK
<1>4. made \subseteq Alerts \X Regions /\ \A i \in made : alert[i[1]] \in Row
  BY <1>3 DEF TxState, Inv, Locked
<1>5. tx' \in [Txs -> TxState]
  BY <1>1, <1>2
<1>6. TypeOK'
  BY <1>1, <1>4, <1>5 DEF Inv, TypeOK
<1>7. NoOrphans'
  BY <1>1, <1>4 DEF Inv, NoOrphans
<1>8. Locked'
  BY <1>1, <1>2 DEF Inv, Locked
<1>. QED
  BY <1>6, <1>7, <1>8 DEF Inv

LEMMA TxCloseInv ==
  ASSUME Inv, NEW t \in Txs, TxClose(t)
  PROVE  Inv'
<1>1. /\ tx' = [tx EXCEPT ![t] = NoTx] /\ open' \subseteq open
      /\ UNCHANGED <<alert, down, edit, faults>>
  BY DEF TxClose
<1>2. tx' \in [Txs -> TxState]
  BY <1>1, NoTxType DEF Inv, TypeOK
<1>3. TypeOK'
  BY <1>1, <1>2 DEF Inv, TypeOK
<1>4. Locked'
  BY <1>1, NoTxType DEF Inv, TypeOK, Locked
<1>. QED
  BY <1>1, <1>3, <1>4 DEF Inv, NoOrphans

-----------------------------------------------------------------------------
\* The website and the alert endpoints
LEMMA ChangeInv ==
  ASSUME Inv, NEW r \in Regions, Change(r)
  PROVE  Inv'
BY DEF Change, Inv, TypeOK, NoOrphans, Locked

\* A row that is written stays a row.
LEMMA RowInv ==
  ASSUME Inv, NEW a \in Alerts, NEW s \in Row, alert' = [alert EXCEPT ![a] = s],
         edit' \in [Editors -> EditState], UNCHANGED <<open, down, tx, faults>>
  PROVE  Inv'
<1>1. TypeOK'
  BY DEF Inv, TypeOK, AlertState, Row
<1>2. \A b \in Alerts : alert[b] \in Row => alert'[b] \in Row
  BY DEF Inv, TypeOK
<1>3. NoOrphans'
  BY <1>2 DEF Inv, NoOrphans, TypeOK
<1>4. Locked'
  BY <1>2 DEF Inv, Locked, TypeOK, TxState
<1>. QED
  BY <1>1, <1>3, <1>4 DEF Inv

LEMMA CreateAlertInv ==
  ASSUME Inv, NEW a \in Alerts, NEW s \in Row, CreateAlert(a, s)
  PROVE  Inv'
<1>1. edit' \in [Editors -> EditState]
  BY DEF CreateAlert, Inv, TypeOK
<1>. QED
  BY <1>1, RowInv DEF CreateAlert

LEMMA ReadInv ==
  ASSUME Inv, NEW e \in Editors, NEW a \in Alerts, NEW ask \in Row \cup {"absent"},
         Put(e, a, ask) \/ Delete(e, a)
  PROVE  Inv'
<1>1. PICK r \in EditState : edit' = [edit EXCEPT ![e] = r]
  <2>1. CASE Put(e, a, ask)
    <3>. DEFINE to == IF ask = "absent" THEN alert[a] ELSE ask
                r == [pc |-> "write", alert |-> a, asked |-> ask, to |-> to]
    <3>1. to \in Row
      BY <2>1 DEF Put
    <3>2. edit' = [edit EXCEPT ![e] = r]
      BY <2>1 DEF Put
    <3>. HIDE DEF to
    <3>3. r \in EditState
      BY <3>1 DEF EditState
    <3>. QED
      BY <3>2, <3>3
  <2>2. CASE Delete(e, a)
    BY <2>2, NoEditType DEF Delete, EditState
  <2>. QED
    BY <2>1, <2>2
<1>2. UNCHANGED <<alert, open, down, tx, faults>>
  BY DEF Put, Delete
<1>. QED
  BY <1>1, <1>2 DEF Inv, TypeOK, NoOrphans, Locked

LEMMA WriteInv ==
  ASSUME Inv, NEW e \in Editors, PutWrite(e) \/ DeleteWrite(e) \/ EditRejected(e)
  PROVE  Inv'
<1>1. edit[e] \in EditState
  BY DEF Inv, TypeOK
<1>2. edit' = [edit EXCEPT ![e] = NoEdit]
  BY DEF PutWrite, DeleteWrite, EditRejected
<1>3. edit' \in [Editors -> EditState]
  BY <1>2, NoEditType DEF Inv, TypeOK
<1>4. CASE PutWrite(e)
  BY <1>1, <1>3, <1>4, RowInv DEF PutWrite, EditState
<1>5. CASE DeleteWrite(e)
  <2>. DEFINE a == edit[e].alert
  <2>1. /\ a \in Alerts
        /\ alert' = [alert EXCEPT ![a] = "gone"]
        /\ open' = {i \in open : i[1] # a}
        /\ \A t \in Txs : a \notin tx[t].made
        /\ UNCHANGED <<down, tx, faults>>
    BY <1>1, <1>5 DEF DeleteWrite, EditState
  <2>. HIDE DEF a
  <2>2. TypeOK'
    BY <1>3, <2>1 DEF Inv, TypeOK, AlertState
  <2>3. NoOrphans'
    BY <2>1 DEF Inv, TypeOK, NoOrphans
  <2>4. Locked'
    BY <2>1 DEF Inv, TypeOK, Locked, TxState
  <2>. QED
    BY <2>2, <2>3, <2>4 DEF Inv
<1>6. CASE EditRejected(e)
  <2>1. PICK T \in SUBSET Txs : tx' = [t \in Txs |-> IF t \in T THEN NoTx ELSE tx[t]]
    BY <1>6 DEF EditRejected
  <2>2. tx' \in [Txs -> TxState]
    BY <2>1, NoTxType DEF Inv, TypeOK
  <2>3. TypeOK'
    BY <1>3, <1>6, <2>2 DEF EditRejected, Inv, TypeOK
  <2>4. Locked'
    BY <1>6, <2>1, NoTxType DEF EditRejected, Inv, Locked
  <2>. QED
    BY <1>6, <2>3, <2>4 DEF EditRejected, Inv, NoOrphans
<1>. QED
  BY <1>4, <1>5, <1>6

LEMMA NextInv == Inv /\ [Next]_vars => Inv'
<1>. SUFFICES ASSUME Inv, [Next]_vars PROVE Inv'
  OBVIOUS
<1>1. ASSUME NEW t \in Txs, Tx(t) PROVE Inv'
  BY <1>1, TxStepInv, TxOpenInv, TxCloseInv DEF Tx
<1>2. ASSUME NEW e \in Editors, Edit(e) PROVE Inv'
  BY <1>2, ReadInv, WriteInv DEF Edit
<1>3. CASE Next
  BY <1>1, <1>2, <1>3, ChangeInv, EvaluateInv, TxStepInv, CreateAlertInv DEF Next
<1>4. CASE UNCHANGED vars
  BY <1>4 DEF vars, Inv, TypeOK, NoOrphans, Locked
<1>. QED
  BY <1>3, <1>4

-----------------------------------------------------------------------------
\* Theorems

\* The variables keep their types.
THEOREM IncidentsTyped == Spec => []TypeOK
<1>1. Inv => TypeOK
  BY DEF Inv
<1>. QED
  BY InitInv, NextInv, <1>1, PTL DEF Spec

(***************************************************************************)
(* No unresolved incident is left without its configuration, for any       *)
(* number of transactions and deletions that overlap.                      *)
(***************************************************************************)
THEOREM IncidentsHaveAlerts == Spec => []NoOrphans
<1>1. Inv => NoOrphans
  BY DEF Inv
<1>. QED
  BY InitInv, NextInv, <1>1, PTL DEF Spec

-----------------------------------------------------------------------------
\* A configuration no one may bring an incident about for, and that has none.
Quiet(a) ==
  /\ ~Arming(a) /\ ~Raising(a)
  /\ \A r \in Regions : <<a, r>> \notin open

\* A transaction does not take up a configuration that is off when it looks.
LEMMA QuietTx ==
  ASSUME Inv, NEW a \in Alerts, Quiet(a), NEW t \in Txs, Tx(t) \/ TxFault(t)
  PROVE  Quiet(a)'
<1>. /\ tx \in [Txs -> TxState] /\ tx[t] \in TxState /\ open \subseteq Alerts \X Regions
  BY DEF Inv, TypeOK
<1>1. \A u \in Txs : a \notin tx[u].todo /\ a \notin tx[u].made
  BY DEF Quiet, Raising
<1>2. UNCHANGED <<alert, edit>>
  BY DEF Tx, TxRead, TxCreate, TxOpen, TxResolve, TxClose, TxFault
<1>3. ~Arming(a)'
  BY <1>2 DEF Quiet, Arming
<1>4. CASE TxOpen(t)
  <2>. DEFINE made == tx[t].made \X {tx[t].region}
  <2>1. /\ open' = open \cup made
        /\ tx' = [u \in Txs |-> IF u = t THEN NoTx ELSE [tx[u] EXCEPT !.seen = @ \ made]]
    BY <1>4 DEF TxOpen
  <2>2. \A r \in Regions : <<a, r>> \notin open'
    BY <1>1, <2>1 DEF Quiet
  <2>3. ASSUME NEW u \in Txs
        PROVE  a \notin tx'[u].todo /\ a \notin tx'[u].made
    <3>. HIDE DEF made
    <3>1. tx[u] \in TxState
      OBVIOUS
    <3>2. CASE u = t
      BY <2>1, <3>2, NoTxType
    <3>3. CASE u # t
      <4>1. tx'[u] = [tx[u] EXCEPT !.seen = @ \ made]
        BY <2>1, <3>3
      <4>2. tx'[u].todo = tx[u].todo /\ tx'[u].made = tx[u].made
        BY <3>1, <4>1 DEF TxState
      <4>. QED
        BY <1>1, <4>2
    <3>. QED
      BY <3>2, <3>3
  <2>. QED
    BY <1>3, <2>2, <2>3 DEF Quiet, Raising
<1>5. CASE ~TxOpen(t)
  <2>1. open' \subseteq open
    BY <1>5 DEF Tx, TxRead, TxCreate, TxResolve, TxClose, TxFault
  <2>2. PICK n : tx' = [tx EXCEPT ![t] = n] /\ a \notin n.todo /\ a \notin n.made
    <3>1. CASE TxRead(t)
      <4>. DEFINE n == [tx[t] EXCEPT !.pc = "create", !.todo = {b \in Alerts : alert[b] = "on"}]
      <4>1. n.todo = {b \in Alerts : alert[b] = "on"} /\ n.made = tx[t].made
        BY DEF TxState
      <4>2. alert[a] # "on"
        BY DEF Quiet, Arming
      <4>3. tx' = [tx EXCEPT ![t] = n]
        BY <3>1 DEF TxRead
      <4>. HIDE DEF n
      <4>. QED
        BY <1>1, <4>1, <4>2, <4>3
    <3>2. CASE TxCreate(t)
      <4>1. PICK b \in tx[t].todo :
              tx' = [tx EXCEPT ![t] =
                       IF alert[b] \in Row
                       THEN [tx[t] EXCEPT !.todo = tx[t].todo \ {b},
                                          !.made = tx[t].made \cup {b}]
                       ELSE NoTx]
        BY <3>2 DEF TxCreate
      <4>2. CASE alert[b] \in Row
        <5>. DEFINE n == [tx[t] EXCEPT !.todo = tx[t].todo \ {b},
                                       !.made = tx[t].made \cup {b}]
        <5>1. n.todo = tx[t].todo \ {b} /\ n.made = tx[t].made \cup {b}
          BY DEF TxState
        <5>2. tx' = [tx EXCEPT ![t] = n]
          BY <4>1, <4>2
        <5>. HIDE DEF n
        <5>. QED
          BY <1>1, <4>1, <5>1, <5>2
      <4>3. CASE alert[b] \notin Row
        <5>1. tx' = [tx EXCEPT ![t] = NoTx]
          BY <4>1, <4>3
        <5>. QED
          BY <5>1, NoTxType
      <4>. QED
        BY <4>2, <4>3
    <3>3. CASE TxResolve(t)
      <4>. DEFINE n == [tx[t] EXCEPT !.pc = "commit", !.seen = open]
      <4>1. n.todo = tx[t].todo /\ n.made = tx[t].made
        BY DEF TxState
      <4>2. tx' = [tx EXCEPT ![t] = n]
        BY <3>3 DEF TxResolve
      <4>. HIDE DEF n
      <4>. QED
        BY <1>1, <4>1, <4>2
    <3>4. CASE TxClose(t) \/ TxFault(t)
      <4>1. tx' = [tx EXCEPT ![t] = NoTx]
        BY <3>4 DEF TxClose, TxFault
      <4>. QED
        BY <4>1, NoTxType
    <3>. QED
      BY <1>5, <3>1, <3>2, <3>3, <3>4 DEF Tx
  <2>3. \A u \in Txs : a \notin tx'[u].todo /\ a \notin tx'[u].made
    BY <1>1, <2>2
  <2>. QED
    BY <1>3, <2>1, <2>3 DEF Quiet, Raising
<1>. QED
  BY <1>4, <1>5

\* A job that is decided, or a website that changes, takes up none either.
LEMMA QuietEvaluate ==
  ASSUME Inv, NEW a \in Alerts, Quiet(a), NEW r \in Regions,
         Change(r) \/ \E t \in Txs : Evaluate(t, r) \/ EvaluateLate(t, r)
  PROVE  Quiet(a)'
<1>1. CASE Change(r)
  BY <1>1 DEF Change, Quiet, Arming, Raising
<1>2. ASSUME NEW t \in Txs, Evaluate(t, r) \/ EvaluateLate(t, r)
      PROVE  Quiet(a)'
  <2>1. PICK pc \in {"read", "resolve"} :
          tx' = [tx EXCEPT ![t] = [NoTx EXCEPT !.pc = pc, !.region = r]]
    BY <1>2 DEF Evaluate, EvaluateLate
  <2>. DEFINE n == [NoTx EXCEPT !.pc = pc, !.region = r]
  <2>2. n.todo = {} /\ n.made = {}
    BY NoTxType DEF TxState
  <2>3. UNCHANGED <<alert, open, edit>>
    BY <1>2 DEF Evaluate, EvaluateLate
  <2>4. tx' = [tx EXCEPT ![t] = n]
    BY <2>1
  <2>. HIDE DEF n
  <2>5. ~Raising(a)'
    BY <2>2, <2>4 DEF Quiet, Raising, Inv, TypeOK
  <2>. QED
    BY <2>3, <2>5 DEF Quiet, Arming
<1>. QED
  BY <1>1, <1>2

\* A request that reads the configuration as off writes it on only if asked to.
LEMMA QuietRead ==
  ASSUME Inv, NEW a \in Alerts, Quiet(a), NEW e \in Editors, NEW b \in Alerts,
         NEW ask \in Row \cup {"absent"}, Put(e, b, ask) \/ Delete(e, b)
  PROVE  /\ \A r \in Regions : <<a, r>> \notin open'
         /\ ~Raising(a)'
         /\ Arming(a)' => edit'[e].asked = "on" /\ edit'[e].alert = a
<1>1. UNCHANGED <<alert, open, tx>>
  BY DEF Put, Delete
<1>2. (\A r \in Regions : <<a, r>> \notin open') /\ ~Raising(a)'
  BY <1>1 DEF Quiet, Raising
<1>3. ASSUME Arming(a)' PROVE edit'[e].asked = "on" /\ edit'[e].alert = a
  <2>1. edit \in [Editors -> EditState] /\ \A f \in Editors \ {e} : edit'[f] = edit[f]
    BY DEF Inv, TypeOK, Put, Delete
  <2>2. edit'[e].pc = "write" /\ edit'[e].alert = a /\ edit'[e].to = "on"
    BY <1>1, <1>3, <2>1 DEF Quiet, Arming
  <2>3. CASE Put(e, b, ask)
    <3>1. /\ edit'[e].alert = b /\ edit'[e].asked = ask
          /\ edit'[e].to = IF ask = "absent" THEN alert[b] ELSE ask
      BY <2>1, <2>3 DEF Put
    <3>2. alert[a] # "on"
      BY DEF Quiet, Arming
    <3>. QED
      BY <2>2, <3>1, <3>2
  <2>4. CASE Delete(e, b)
    <3>1. edit'[e].pc = "delete"
      BY <2>1, <2>4, NoEditType DEF Delete, EditState
    <3>. QED
      BY <2>2, <3>1
  <2>. QED
    BY <2>3, <2>4
<1>. QED
  BY <1>2, <1>3

\* What a request writes, or fails to, turns on nothing that was not to be.
LEMMA QuietWrite ==
  ASSUME Inv, NEW a \in Alerts, Quiet(a), NEW e \in Editors,
         PutWrite(e) \/ DeleteWrite(e) \/ EditRejected(e)
  PROVE  Quiet(a)'
<1>. /\ alert \in [Alerts -> AlertState] /\ edit \in [Editors -> EditState]
     /\ edit[e] \in EditState /\ edit[e].alert \in Alerts
  BY DEF Inv, TypeOK, EditState
<1>1. open' \subseteq open
  BY DEF PutWrite, DeleteWrite, EditRejected
<1>2. ~Raising(a)'
  <2>1. CASE EditRejected(e)
    <3>1. PICK T \in SUBSET Txs : tx' = [t \in Txs |-> IF t \in T THEN NoTx ELSE tx[t]]
      BY <2>1 DEF EditRejected
    <3>. QED
      BY <3>1, NoTxType DEF Quiet, Raising
  <2>2. CASE ~EditRejected(e)
    <3>1. UNCHANGED tx
      BY <2>2 DEF PutWrite, DeleteWrite
    <3>. QED
      BY <3>1 DEF Quiet, Raising
  <2>. QED
    BY <2>1, <2>2
<1>3. \A f \in Editors : edit'[f] = edit[f] \/ edit'[f].pc = "idle"
  BY DEF PutWrite, DeleteWrite, EditRejected, NoEdit
<1>4. alert'[a] # "on"
  <2>1. alert[a] # "on"
    BY DEF Quiet, Arming
  <2>2. CASE PutWrite(e)
    <3>1. alert' = [alert EXCEPT ![edit[e].alert] = edit[e].to] /\ edit[e].pc = "write"
      BY <2>2 DEF PutWrite
    <3>2. edit[e].alert = a => edit[e].to # "on"
      BY <3>1 DEF Quiet, Arming
    <3>. QED
      BY <2>1, <3>1, <3>2
  <2>3. CASE DeleteWrite(e) \/ EditRejected(e)
    BY <2>1, <2>3 DEF DeleteWrite, EditRejected
  <2>. QED
    BY <2>2, <2>3
<1>5. ~Arming(a)'
  BY <1>3, <1>4 DEF Quiet, Arming
<1>. QED
  BY <1>1, <1>2, <1>5 DEF Quiet

(***************************************************************************)
(* A configuration that is off and has no incident stays without one until *)
(* it is created or a request asks to turn it on: neither a transaction    *)
(* nor a request that works from what it has read brings one about.        *)
(***************************************************************************)
THEOREM OffStaysQuiet == Spec => OffIsQuiet
<1>. DEFINE Step == \A a \in Alerts :
              /\ ~Arming(a) /\ ~Raising(a)
              /\ ~\E r \in Regions : <<a, r>> \in open
              => /\ \A r \in Regions : <<a, r>> \notin open'
                 /\ ~Raising(a)'
                 /\ Arming(a)' => \/ alert[a] = "new"
                                  \/ \E e \in Editors : edit'[e].asked = "on" /\ edit'[e].alert = a
<1>1. Inv /\ [Next]_vars => [Step]_vars
  <2>. SUFFICES ASSUME Inv, Next PROVE Step
    BY DEF vars
  <2>. SUFFICES ASSUME NEW a \in Alerts, Quiet(a)
                PROVE  /\ \A r \in Regions : <<a, r>> \notin open'
                       /\ ~Raising(a)'
                       /\ Arming(a)' => \/ alert[a] = "new"
                                        \/ \E e \in Editors :
                                             edit'[e].asked = "on" /\ edit'[e].alert = a
    BY DEF Quiet
  <2>1. ASSUME NEW t \in Txs, Tx(t) \/ TxFault(t) PROVE Quiet(a)'
    BY <2>1, QuietTx
  <2>2. ASSUME NEW b \in Alerts, NEW s \in Row, CreateAlert(b, s)
        PROVE  /\ \A r \in Regions : <<a, r>> \notin open'
               /\ ~Raising(a)'
               /\ Arming(a)' => alert[a] = "new"
    <3>1. UNCHANGED <<open, tx, edit>>
      BY <2>2 DEF CreateAlert
    <3>2. b # a => alert'[a] = alert[a]
      BY <2>2 DEF CreateAlert, Inv, TypeOK
    <3>3. b = a => alert[a] = "new"
      BY <2>2 DEF CreateAlert
    <3>. QED
      BY <3>1, <3>2, <3>3 DEF Quiet, Raising, Arming
  <2>3. ASSUME NEW e \in Editors, Edit(e)
        PROVE  /\ \A r \in Regions : <<a, r>> \notin open'
               /\ ~Raising(a)'
               /\ Arming(a)' => edit'[e].asked = "on" /\ edit'[e].alert = a
    <3>1. CASE PutWrite(e) \/ DeleteWrite(e) \/ EditRejected(e)
      BY <3>1, QuietWrite DEF Quiet
    <3>2. CASE \E b \in Alerts : Delete(e, b) \/ \E ask \in Row \cup {"absent"} : Put(e, b, ask)
      BY <3>2, QuietRead
    <3>. QED
      BY <2>3, <3>1, <3>2 DEF Edit
  <2>4. CASE \E r \in Regions : Change(r) \/ \E t \in Txs : Evaluate(t, r) \/ EvaluateLate(t, r)
    BY <2>4, QuietEvaluate DEF Quiet
  <2>. QED
    BY <2>1, <2>2, <2>3, <2>4 DEF Next, Quiet
<1>. QED
  BY <1>1, InitInv, NextInv, PTL DEF Spec, OffIsQuiet
=============================================================================

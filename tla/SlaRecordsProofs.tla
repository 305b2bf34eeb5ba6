-------------------------- MODULE SlaRecordsProofs --------------------------
(***************************************************************************)
(* Theorems of SlaRecords, for any number of rows, days and results.  That *)
(* records only grow is not inductive: a tick writes what it has read      *)
(* before.  What makes it so is that its reading stays between the record  *)
(* and the results (Carried), and it does because nobody else writes       *)
(* records meanwhile: the flag admits one tick at a time (Alone).          *)
(***************************************************************************)
EXTENDS SlaRecords, TLAPS

\* The results since a later day are among those since the first.
Cumulative == \A k \in Rows, d \in Days : since[k][d].total <= since[k][0].total

Busy(t) == tick[t].pc # "idle"

Alone ==
  /\ \A t \in Ticks : Busy(t) => aggregating
  /\ \A t, u \in Ticks : Busy(t) /\ Busy(u) => t = u

CarriedBy(t) ==
  tick[t].pc = "write" =>
    \A k \in tick[t].now :
      /\ Within(record[k][tick[t].day], tick[t].read)
      /\ Within(tick[t].read, since[k][tick[t].day])

Carried == \A t \in Ticks : CarriedBy(t)

Inv == TypeOK /\ Cumulative /\ Alone /\ Carried /\ NothingInvented

\* Within is a preorder.
LEMMA WithinOrder ==
  ASSUME NEW a \in Checks, NEW b \in Checks, NEW c \in Checks
  PROVE  /\ Within(a, a)
         /\ Within(a, b) /\ Within(b, c) => Within(a, c)
BY DEF Within, Passed, Checks

\* One more check makes no count smaller.
LEMMA WithMore ==
  ASSUME NEW c \in Checks, NEW failure \in BOOLEAN, c.total < MaxResults
  PROVE  /\ With(c, failure) \in Checks
         /\ With(c, failure).total = c.total + 1
         /\ Within(c, With(c, failure))
BY SlaAssumption DEF With, Within, Passed, Checks

LEMMA NoChecksType == NoChecks \in Checks
BY SlaAssumption DEF NoChecks, Checks

LEMMA RestingType == Resting \in TickState
BY NoChecksType, SlaAssumption DEF Resting, TickState, Days

LEMMA FirstDay == 0 \in Days
BY SlaAssumption DEF Days

LEMMA InitInv == Init => Inv
<1>. SUFFICES ASSUME Init PROVE Inv
  OBVIOUS
<1>1. TypeOK
  <2>1. since \in [Rows -> [Days -> Checks]] /\ record \in [Rows -> [Days -> Checks]]
    BY NoChecksType DEF Init
  <2>2. tick \in [Ticks -> TickState]
    BY RestingType DEF Init
  <2>3. day \in Days /\ faults \in 0..MaxFaults
    BY FirstDay, SlaAssumption DEF Init
  <2>. QED
    BY <2>1, <2>2, <2>3 DEF Init, TypeOK
<1>2. Cumulative
  BY FirstDay DEF Init, Cumulative, NoChecks
<1>3. Alone /\ Carried
  BY DEF Init, Alone, Busy, Carried, CarriedBy, Resting
<1>4. NothingInvented
  BY NoChecksType, WithinOrder DEF Init, NothingInvented
<1>. QED
  BY <1>1, <1>2, <1>3, <1>4 DEF Inv

\* A new result only adds to what there is since its day and earlier ones.
LEMMA StoreInv ==
  ASSUME Inv, NEW k \in Rows, NEW d \in Days, NEW failure \in BOOLEAN, Store(k, d, failure)
  PROVE  Inv' /\ record' = record
<1>. USE DEF Inv
<1>. DEFINE new(r, e) == IF r = k /\ e <= d THEN With(since[r][e], failure) ELSE since[r][e]
<1>1. \A r \in Rows, e \in Days : since'[r][e] = new(r, e)
  BY DEF Store, TypeOK
<1>2. ASSUME NEW r \in Rows, NEW e \in Days
      PROVE  new(r, e) \in Checks /\ Within(since[r][e], new(r, e))
  <2>1. since[r][e] \in Checks /\ since[r][0] \in Checks
    BY FirstDay DEF TypeOK
  <2>2. r = k => since[r][e].total < MaxResults
    BY <2>1, FirstDay, SlaAssumption DEF Store, Cumulative, Checks
  <2>. QED
    BY <2>1, <2>2, WithMore, WithinOrder
<1>3. since' \in [Rows -> [Days -> Checks]]
  <2>1. since'[k] = [e \in Days |-> new(k, e)]
    BY DEF Store, TypeOK
  <2>2. since'[k] \in [Days -> Checks]
    BY <1>2, <2>1
  <2>. QED
    BY <2>2 DEF Store, TypeOK
<1>4. TypeOK'
  BY <1>3 DEF Store, TypeOK
<1>5. Cumulative'
  <2>. SUFFICES ASSUME NEW r \in Rows, NEW e \in Days
                PROVE  since'[r][e].total <= since'[r][0].total
    BY DEF Cumulative
  <2>1. since[r][e] \in Checks /\ since[r][0] \in Checks
    BY FirstDay DEF TypeOK
  <2>2. since[r][e].total <= since[r][0].total
    BY DEF Cumulative
  <2>3. 0 <= d
    BY DEF Days
  <2>4. since'[r][0] = IF r = k THEN With(since[r][0], failure) ELSE since[r][0]
    BY <1>1, <2>3, FirstDay
  <2>5. since'[r][e].total \in {since[r][e].total, since[r][e].total + (IF r = k THEN 1 ELSE 0)}
    <3>1. CASE r = k /\ e <= d
      <4>1. since'[r][e] = With(since[r][e], failure)
        BY <1>1, <3>1
      <4>2. With(since[r][e], failure).total = since[r][e].total + 1
        BY DEF With
      <4>. QED
        BY <3>1, <4>1, <4>2
    <3>2. CASE ~(r = k /\ e <= d)
      BY <1>1, <3>2
    <3>. QED
      BY <3>1, <3>2
  <2>6. since'[r][0].total = since[r][0].total + (IF r = k THEN 1 ELSE 0)
    BY <2>1, <2>4 DEF With, Checks
  <2>7. since[r][e].total \in Nat /\ since[r][0].total \in Nat
    BY <2>1 DEF Checks
  <2>. QED
    BY <2>2, <2>5, <2>6, <2>7
<1>6. Alone'
  BY DEF Store, Alone, Busy
<1>7. Carried'
  <2>. SUFFICES ASSUME NEW t \in Ticks, tick[t].pc = "write", NEW r \in tick[t].now
                PROVE  /\ Within(record[r][tick[t].day], tick[t].read)
                       /\ Within(tick[t].read, since'[r][tick[t].day])
    BY DEF Store, Carried, CarriedBy
  <2>1. r \in Rows /\ tick[t].day \in Days /\ tick[t].read \in Checks
    BY DEF TypeOK, TickState
  <2>2. since[r][tick[t].day] \in Checks /\ since'[r][tick[t].day] \in Checks
    BY <1>3, <2>1 DEF TypeOK
  <2>3. Within(since[r][tick[t].day], since'[r][tick[t].day])
    BY <1>1, <1>2, <2>1
  <2>. QED
    BY <2>1, <2>2, <2>3, WithinOrder DEF Carried, CarriedBy
<1>8. NothingInvented'
  <2>. SUFFICES ASSUME NEW r \in Rows, NEW e \in Days
                PROVE  Within(record[r][e], since'[r][e])
    BY DEF Store, NothingInvented
  <2>1. record[r][e] \in Checks /\ since[r][e] \in Checks /\ since'[r][e] \in Checks
    BY <1>3 DEF TypeOK
  <2>2. Within(record[r][e], since[r][e]) /\ Within(since[r][e], since'[r][e])
    BY <1>1, <1>2 DEF NothingInvented
  <2>. QED
    BY <2>1, <2>2, WithinOrder
<1>. QED
  BY <1>4, <1>5, <1>6, <1>7, <1>8 DEF Store

\* Steps of a tick that write no record.
LEMMA ReadingInv ==
  ASSUME Inv, NEW t \in Ticks,
         TickStart(t) \/ TickDay(t) \/ TickRead(t) \/ TickFault(t)
  PROVE  Inv' /\ record' = record
<1>. USE DEF Inv
<1>1. CASE TickStart(t)
  <2>. DEFINE new == [tick[t] EXCEPT !.pc = "day", !.todo = {k \in Rows : active[k]}]
  <2>1. new \in TickState /\ tick' = [tick EXCEPT ![t] = new]
    BY <1>1 DEF TickStart, TypeOK, TickState
  <2>2. TypeOK'
    BY <1>1, <2>1 DEF TickStart, TypeOK
  <2>3. Alone'
    BY <1>1, <2>1 DEF TickStart, Alone, Busy, TypeOK
  <2>4. Carried'
    <3>1. tick'[t].pc = "day"
      BY <2>1 DEF TypeOK, TickState
    <3>2. \A u \in Ticks : u # t => tick'[u] = tick[u]
      BY <2>1 DEF TypeOK
    <3>. QED
      BY <1>1, <3>1, <3>2 DEF TickStart, Carried, CarriedBy
  <2>5. Cumulative' /\ NothingInvented'
    BY <1>1 DEF TickStart, Cumulative, NothingInvented
  <2>. QED
    BY <1>1, <2>2, <2>3, <2>4, <2>5 DEF TickStart
<1>2. CASE TickDay(t)
  <2>. DEFINE new == [tick[t] EXCEPT !.pc = "read", !.day = day]
  <2>1. new \in TickState /\ tick' = [tick EXCEPT ![t] = new]
    BY <1>2 DEF TickDay, TypeOK, TickState
  <2>2. TypeOK'
    BY <1>2, <2>1 DEF TickDay, TypeOK
  <2>3. Alone'
    BY <1>2, <2>1 DEF TickDay, Alone, Busy, TypeOK
  <2>4. Carried'
    BY <1>2, <2>1 DEF TickDay, Carried, CarriedBy, TypeOK
  <2>5. Cumulative' /\ NothingInvented'
    BY <1>2 DEF TickDay, Cumulative, NothingInvented
  <2>. QED
    BY <1>2, <2>2, <2>3, <2>4, <2>5 DEF TickDay
<1>3. CASE TickRead(t)
  <2>1. PICK k \in tick[t].todo :
          tick' = [tick EXCEPT ![t].pc = "write", ![t].now = {k},
                               ![t].read = since[k][tick[t].day]]
    BY <1>3 DEF TickRead
  <2>. DEFINE new == [tick[t] EXCEPT !.pc = "write", !.now = {k}, !.read = since[k][tick[t].day]]
  <2>2. k \in Rows /\ tick[t].day \in Days /\ tick[t] \in TickState
    BY DEF TypeOK, TickState
  <2>3. since[k][tick[t].day] \in Checks
    BY <2>2 DEF TypeOK
  <2>4. new \in TickState /\ tick' = [tick EXCEPT ![t] = new]
    BY <2>1, <2>2, <2>3 DEF TypeOK, TickState
  <2>5. TypeOK'
    BY <1>3, <2>4 DEF TickRead, TypeOK
  <2>6. Alone'
    BY <1>3, <2>4 DEF TickRead, Alone, Busy, TypeOK
  <2>7. CarriedBy(t)'
    <3>1. tick'[t].now = {k} /\ tick'[t].day = tick[t].day /\ tick'[t].read = since[k][tick[t].day]
      BY <2>2, <2>4 DEF TypeOK, TickState
    <3>2. record' = record /\ since' = since
      BY <1>3 DEF TickRead
    <3>3. Within(record[k][tick[t].day], since[k][tick[t].day])
      BY <2>2 DEF NothingInvented
    <3>4. Within(since[k][tick[t].day], since[k][tick[t].day])
      BY <2>3, WithinOrder
    <3>. QED
      BY <3>1, <3>2, <3>3, <3>4 DEF CarriedBy
  <2>8. Carried'
    BY <1>3, <2>4, <2>7 DEF TickRead, Carried, CarriedBy, TypeOK
  <2>9. Cumulative' /\ NothingInvented'
    BY <1>3 DEF TickRead, Cumulative, NothingInvented
  <2>. QED
    BY <1>3, <2>5, <2>6, <2>8, <2>9 DEF TickRead
<1>4. CASE TickFault(t)
  <2>1. TypeOK'
    <3>1. tick' \in [Ticks -> TickState]
      BY <1>4, RestingType DEF TickFault, TypeOK
    <3>2. faults' \in 0..MaxFaults
      BY <1>4, SlaAssumption DEF TickFault, TypeOK
    <3>. QED
      BY <1>4, <3>1, <3>2 DEF TickFault, TypeOK
  <2>2. Alone' /\ Carried'
    BY <1>4 DEF TickFault, Alone, Busy, Carried, CarriedBy, Resting, TypeOK
  <2>3. Cumulative' /\ NothingInvented'
    BY <1>4 DEF TickFault, Cumulative, NothingInvented
  <2>. QED
    BY <1>4, <2>1, <2>2, <2>3 DEF TickFault
<1>. QED
  BY <1>1, <1>2, <1>3, <1>4

\* The record of the row in hand becomes what has been read of it.
LEMMA WriteInv ==
  ASSUME Inv, NEW t \in Ticks, TickWrite(t)
  PROVE  /\ Inv'
         /\ \A k \in Rows, d \in Days : Within(record[k][d], record'[k][d])
<1>. USE DEF Inv
<1>1. PICK k \in tick[t].now :
        /\ record' = [record EXCEPT ![k][tick[t].day] = tick[t].read]
        /\ tick' = [tick EXCEPT ![t] = After(t, k)]
        /\ aggregating' = (tick[t].todo # {k})
  BY DEF TickWrite
<1>. DEFINE d == tick[t].day
            c == tick[t].read
<1>2. k \in Rows /\ d \in Days /\ c \in Checks /\ tick[t] \in TickState
  BY DEF TypeOK, TickState
<1>3. \A r \in Rows, e \in Days : record'[r][e] = IF r = k /\ e = d THEN c ELSE record[r][e]
  BY <1>1, <1>2 DEF TypeOK
<1>4. Within(record[k][d], c) /\ Within(c, since[k][d])
  BY <1>1 DEF TickWrite, Carried, CarriedBy
<1>5. After(t, k) \in TickState /\ After(t, k).pc \in {"idle", "read"}
      /\ (tick[t].todo = {k} => After(t, k).pc = "idle")
  BY <1>2, RestingType, NoChecksType DEF After, Resting, TickState
<1>6. TypeOK'
  <2>1. record' \in [Rows -> [Days -> Checks]]
    BY <1>1, <1>2 DEF TypeOK
  <2>. QED
    BY <1>1, <1>5, <2>1 DEF TickWrite, TypeOK
<1>7. \A u \in Ticks : u # t => tick'[u] = tick[u] /\ tick[u].pc = "idle"
  BY <1>1 DEF TickWrite, TypeOK, Alone, Busy
<1>8. tick'[t] = After(t, k)
  BY <1>1 DEF TypeOK
<1>9. Alone' /\ Carried'
  BY <1>1, <1>5, <1>7, <1>8 DEF Alone, Busy, Carried, CarriedBy
<1>10. Cumulative' /\ NothingInvented'
  BY <1>3, <1>4 DEF TickWrite, Cumulative, NothingInvented
<1>11. ASSUME NEW r \in Rows, NEW e \in Days
       PROVE  Within(record[r][e], record'[r][e])
  BY <1>3, <1>4, WithinOrder DEF TypeOK
<1>. QED
  BY <1>6, <1>9, <1>10, <1>11

LEMMA NextInv ==
  ASSUME Inv, [Next]_vars
  PROVE  /\ Inv'
         /\ \A k \in Rows, d \in Days : Within(record[k][d], record'[k][d])
<1>0. ASSUME record' = record
      PROVE  \A k \in Rows, d \in Days : Within(record[k][d], record'[k][d])
  BY <1>0, WithinOrder DEF Inv, TypeOK
<1>1. CASE \E k \in Rows, d \in Days, failure \in BOOLEAN : Store(k, d, failure)
  BY <1>0, <1>1, StoreInv
<1>2. CASE \E k \in Rows : Toggle(k)
  BY <1>0, <1>2 DEF Toggle, Inv, TypeOK, Cumulative, Alone, Busy, Carried, CarriedBy, NothingInvented
<1>3. CASE Midnight
  BY <1>0, <1>3, SlaAssumption
     DEF Midnight, Inv, TypeOK, Days, Cumulative, Alone, Busy, Carried, CarriedBy, NothingInvented
<1>4. CASE \E t \in Ticks : TickStart(t) \/ TickDay(t) \/ TickRead(t) \/ TickFault(t)
  BY <1>0, <1>4, ReadingInv
<1>5. CASE \E t \in Ticks : TickWrite(t)
  BY <1>5, WriteInv
<1>6. CASE UNCHANGED vars
  BY <1>0, <1>6 DEF vars, Inv, TypeOK, Cumulative, Alone, Busy, Carried, CarriedBy, NothingInvented
<1>. QED
  BY <1>1, <1>2, <1>3, <1>4, <1>5, <1>6 DEF Next, TickStep

THEOREM Invariance == Spec => []Inv
<1>1. Inv /\ [Next]_vars => Inv'
  BY NextInv
<1>. QED
  BY InitInv, <1>1, PTL DEF Spec

(***************************************************************************)
(* Every variable keeps its type, for any rows, days and ticks.            *)
(***************************************************************************)
THEOREM SlaTyped == Spec => []TypeOK
<1>1. Inv => TypeOK
  BY DEF Inv
<1>. QED
  BY Invariance, <1>1, PTL

(***************************************************************************)
(* No record counts a check that was not made since its day began, however *)
(* many rows, days and results there are and wherever ticks fail: the      *)
(* upsert at the end of aggregateDailySLARecords writes counts of one      *)
(* reading.                                                                *)
(***************************************************************************)
THEOREM RecordsInventNothing == Spec => []NothingInvented
<1>1. Inv => NothingInvented
  BY DEF Inv
<1>. QED
  BY Invariance, <1>1, PTL

(***************************************************************************)
(* No tick replaces the counts of a record by older ones, however slow it  *)
(* is: aggregatingSLA admits one tick at a time.                           *)
(***************************************************************************)
THEOREM RecordsKeepTheirCounts == Spec => RecordsOnlyGrow
<1>1. Inv /\ [Next]_vars
      => [\A k \in Rows, d \in Days : Within(record[k][d], record'[k][d])]_vars
  BY NextInv
<1>. QED
  BY Invariance, <1>1, PTL DEF Spec, RecordsOnlyGrow
=============================================================================

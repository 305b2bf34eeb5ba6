----------------------------- MODULE SlaRecords -----------------------------
(***************************************************************************)
(* The daily SLA records: the hub's aggregateDailySLARecords, which a      *)
(* timer starts every five minutes, which reads the active websites, takes *)
(* the current UTC day, and then reads the results and writes the record   *)
(* of one website and region after the other, while results come in,       *)
(* websites are turned on and off, and midnight passes.                    *)
(*                                                                         *)
(* A row stands for a website with one enabled region.  Of a record, and   *)
(* of the results it is computed from, the number of checks and of failed  *)
(* checks are kept; the response times are left out.                       *)
(***************************************************************************)
EXTENDS Integers, FiniteSets

CONSTANTS
  Rows,       \* the websites, each with its region
  Ticks,      \* the timer's calls that may be in progress together
  MaxDay,     \* bound: the last day
  MaxResults, \* bound: results of a row
  MaxFaults   \* bound: ticks that fail or are cut off

ASSUME SlaAssumption ==
  /\ MaxDay \in Nat
  /\ MaxResults \in Nat
  /\ MaxFaults \in Nat

VARIABLES
  day,         \* the current day (UTC)
  active,      \* isActive of the row's website
  since,       \* the results whose timestamp is not before the day's start
  record,      \* the SlaRecord rows; none is an empty one
  aggregating, \* aggregatingSLA
  tick,        \* each tick: where it is and what it has read
  faults

vars == <<day, active, since, record, aggregating, tick, faults>>

Days == 0..MaxDay

NoChecks == [total |-> 0, failed |-> 0]

Resting == [pc |-> "idle", day |-> 0, todo |-> {}, now |-> {}, read |-> NoChecks]

Init ==
  /\ day = 0
  /\ active = [k \in Rows |-> TRUE]
  /\ since = [k \in Rows |-> [d \in Days |-> NoChecks]]
  /\ record = [k \in Rows |-> [d \in Days |-> NoChecks]]
  /\ aggregating = FALSE
  /\ tick = [t \in Ticks |-> Resting]
  /\ faults = 0

-----------------------------------------------------------------------------
\* What goes on around the aggregation

With(checks, failure) ==
  [total |-> checks.total + 1, failed |-> checks.failed + (IF failure THEN 1 ELSE 0)]

\* A result with a timestamp of the validator, of today or, when it was long
\* on its way, of yesterday.
Store(k, d, failure) ==
  /\ d \in {day - 1, day}
  /\ since[k][0].total < MaxResults
  /\ since' = [since EXCEPT ![k] = [e \in Days |-> IF e <= d THEN With(@[e], failure) ELSE @[e]]]
  /\ UNCHANGED <<day, active, record, aggregating, tick, faults>>

\* A website is deactivated or activated.
Toggle(k) ==
  /\ active' = [active EXCEPT ![k] = ~@]
  /\ UNCHANGED <<day, since, record, aggregating, tick, faults>>

Midnight ==
  /\ day < MaxDay
  /\ day' = day + 1
  /\ UNCHANGED <<active, since, record, aggregating, tick, faults>>

-----------------------------------------------------------------------------
\* A tick

\* Mutant: the flag is not looked at.
TickStartAnyhow(t) ==
  /\ tick[t].pc = "idle"
  /\ \E k \in Rows : active[k]
  /\ aggregating' = TRUE
  /\ tick' = [tick EXCEPT ![t].pc = "day", ![t].todo = {k \in Rows : active[k]}]
  /\ UNCHANGED <<day, active, since, record, faults>>

\* The flag keeps a tick from starting beside another; the active websites
\* are read.  (Without one the tick ends at once.)
TickStart(t) ==
  /\ tick[t].pc = "idle"
  /\ ~aggregating
  /\ \E k \in Rows : active[k]
  /\ aggregating' = TRUE
  /\ tick' = [tick EXCEPT ![t].pc = "day", ![t].todo = {k \in Rows : active[k]}]
  /\ UNCHANGED <<day, active, since, record, faults>>

\* dayStart is taken once the websites are there.
TickDay(t) ==
  /\ tick[t].pc = "day"
  /\ tick' = [tick EXCEPT ![t].pc = "read", ![t].day = day]
  /\ UNCHANGED <<day, active, since, record, aggregating, faults>>

\* The results of the next row since dayStart are read: all of them, also
\* those of the day after when midnight has passed in between.
TickRead(t) ==
  /\ tick[t].pc = "read"
  /\ \E k \in tick[t].todo :
       tick' = [tick EXCEPT ![t].pc = "write", ![t].now = {k},
                            ![t].read = since[k][tick[t].day]]
  /\ UNCHANGED <<day, active, since, record, aggregating, faults>>

\* On to the next row, after k.
After(t, k) ==
  IF tick[t].todo = {k}
  THEN Resting
  ELSE [tick[t] EXCEPT !.pc = "read", !.todo = @ \ {k}, !.now = {}, !.read = NoChecks]

\* Mutant: the counts are added to those of the record.
TickWriteAdd(t) ==
  /\ tick[t].pc = "write"
  /\ \E k \in tick[t].now :
       /\ record' = [record EXCEPT ![k][tick[t].day] =
                       [total  |-> @.total + tick[t].read.total,
                        failed |-> @.failed + tick[t].read.failed]]
       /\ tick' = [tick EXCEPT ![t] = After(t, k)]
       /\ aggregating' = (tick[t].todo # {k})
  /\ UNCHANGED <<day, active, since, faults>>

\* The record of the row is written; the tick ends with the last one.
TickWrite(t) ==
  /\ tick[t].pc = "write"
  /\ \E k \in tick[t].now :
       /\ record' = [record EXCEPT ![k][tick[t].day] = tick[t].read]
       /\ tick' = [tick EXCEPT ![t] = After(t, k)]
       /\ aggregating' = (tick[t].todo # {k})
  /\ UNCHANGED <<day, active, since, faults>>

\* Mutant: the flag is left up.
TickFaultStuck(t) ==
  /\ tick[t].pc # "idle"
  /\ faults < MaxFaults
  /\ faults' = faults + 1
  /\ tick' = [tick EXCEPT ![t] = Resting]
  /\ UNCHANGED <<day, active, since, record, aggregating>>

\* A call fails, and with it the rest of the tick, or the hub restarts.
TickFault(t) ==
  /\ tick[t].pc # "idle"
  /\ faults < MaxFaults
  /\ faults' = faults + 1
  /\ tick' = [tick EXCEPT ![t] = Resting]
  /\ aggregating' = FALSE
  /\ UNCHANGED <<day, active, since, record>>

TickStep == \E t \in Ticks : TickStart(t) \/ TickDay(t) \/ TickRead(t) \/ TickWrite(t)

Next ==
  \/ \E k \in Rows, d \in Days, failure \in BOOLEAN : Store(k, d, failure)
  \/ \E k \in Rows : Toggle(k)
  \/ Midnight
  \/ TickStep
  \/ \E t \in Ticks : TickFault(t)

Spec == Init /\ [][Next]_vars

\* The timer keeps starting ticks that run on to their end.
FairSpec == Spec /\ WF_vars(TickStep)

-----------------------------------------------------------------------------
\* Properties

Checks == {c \in [total : 0..MaxResults, failed : 0..MaxResults] : c.failed <= c.total}

TickState == [pc : {"idle", "day", "read", "write"}, day : Days, todo : SUBSET Rows,
              now : SUBSET Rows, read : Checks]

\* Every variable has its type.
TypeOK ==
  /\ day \in Days
  /\ active \in [Rows -> BOOLEAN]
  /\ since \in [Rows -> [Days -> Checks]]
  /\ record \in [Rows -> [Days -> Checks]]
  /\ aggregating \in BOOLEAN
  /\ tick \in [Ticks -> TickState]
  /\ faults \in 0..MaxFaults

Passed(c) == c.total - c.failed

\* No more checks than b has, nor failed ones, nor ones that did not fail.
Within(a, b) == a.failed <= b.failed /\ Passed(a) <= Passed(b)

(***************************************************************************)
(* A record counts no check that was not made since its day began, neither *)
(* a failed one nor another, however often and from however old a reading  *)
(* it is written.                                                          *)
(***************************************************************************)
NothingInvented ==
  \A k \in Rows, d \in Days : Within(record[k][d], since[k][d])

(***************************************************************************)
(* What a record has counted stays counted: no tick replaces the counts of *)
(* another by older ones, also when it is slow or the one before failed.   *)
(***************************************************************************)
RecordsOnlyGrow ==
  [][\A k \in Rows, d \in Days : Within(record[k][d], record'[k][d])]_vars

(***************************************************************************)
(* The record of a website that stays active catches up with the results,  *)
(* unless the day ends before.                                             *)
(***************************************************************************)
TodayIsCaughtUp ==
  \A k \in Rows, d \in Days, n \in 1..MaxResults :
    (day = d /\ since[k][d].total = n)
      ~> (record[k][d].total >= n \/ day # d \/ ~active[k])

-----------------------------------------------------------------------------
\* What the documentation says and the code does not do

\* The results of one day, so far.
OfDay(k, d) == since[k][d].total - (IF d = MaxDay THEN 0 ELSE since[k][d + 1].total)

(***************************************************************************)
(* "writes daily sla_records" (README.md): the record of a day comes to    *)
(* count the checks that were stored on that day.  Each tick looks at the  *)
(* day it runs on, so those after the last tick of a day are in no record. *)
(***************************************************************************)
EveryResultCounted ==
  \A k \in Rows, d \in Days, n \in 1..MaxResults :
    (day = d /\ OfDay(k, d) = n) ~> (record[k][d].total >= n \/ ~active[k])
=============================================================================

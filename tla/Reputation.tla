------------------------------ MODULE Reputation ------------------------------
(***************************************************************************)
(* The reputation row of one node: POST /nodes/register creates it, and    *)
(* every result of the node that POST /results has stored updates it, by a *)
(* read and a write between which other results of the node are processed  *)
(* (iterations of a validator overlap, and the API has two replicas).      *)
(* Scores are in tenths of a point; the rounding of the database's double  *)
(* is left out.                                                            *)
(***************************************************************************)
EXTENDS Integers, FiniteSets

CONSTANTS
  Handlers,    \* results of the node being processed at the same time
  Best,        \* the greatest score (100 points)
  MaxResults,  \* bound: results of the node
  MaxFaults    \* bound: handlers that fail before their write

Penalty == 20      \* penalty = 2
Reward == 1        \* reward = 0.1
FirstPenalty == 50 \* score: 95 when the row begins with a failure

ASSUME HandlersAssumption == IsFiniteSet(Handlers)
ASSUME BestAssumption == Best \in Nat /\ Best >= FirstPenalty
ASSUME BoundsAssumption == MaxResults \in Nat /\ MaxFaults \in Nat

VARIABLES
  row,       \* the NodeReputation row
  handler,   \* each handler: where it is, its result, the score it has read
  results,   \* results stored
  faults     \* failures so far

vars == <<row, handler, results, faults>>

NoRow == [exists |-> FALSE, score |-> Best, total |-> 0, success |-> 0, false |-> 0]

Idle == [pc |-> "idle", ok |-> TRUE, score |-> Best]

Init ==
  /\ row = NoRow
  /\ handler = [h \in Handlers |-> Idle]
  /\ results = 0
  /\ faults = 0

\* if (condition) 1 else 0: the increments of a success and of a failure.
One(condition) == IF condition THEN 1 ELSE 0

\* Mutant: no upper bound.
ClampBelow(score) == IF score < 0 THEN 0 ELSE score

\* Math.max(0, Math.min(100, score))
Clamp(score) == IF score < 0 THEN 0 ELSE IF score > Best THEN Best ELSE score

-----------------------------------------------------------------------------
\* nodeReputation.upsert with an empty update: an existing row is left alone.
Register ==
  /\ ~row.exists
  /\ row' = [row EXCEPT !.exists = TRUE]
  /\ UNCHANGED <<handler, results, faults>>

\* A result of the node has been stored; isSuccess is status === "UP".
Store(h, ok) ==
  /\ handler[h].pc = "idle"
  /\ results < MaxResults
  /\ results' = results + 1
  /\ handler' = [handler EXCEPT ![h] = [Idle EXCEPT !.pc = "read", !.ok = ok]]
  /\ UNCHANGED <<row, faults>>

Read(h) ==
  /\ handler[h].pc = "read"
  /\ handler' = [handler EXCEPT ![h].pc = IF row.exists THEN "update" ELSE "create",
                                ![h].score = row.score]
  /\ UNCHANGED <<row, results, faults>>

\* Mutant: an upsert, whose update writes the first values again.
CreateUpsert(h) ==
  LET ok == handler[h].ok
  IN /\ handler[h].pc = "create"
     /\ row' = [exists |-> TRUE, score |-> IF ok THEN Best ELSE Best - FirstPenalty,
                total |-> 1, success |-> One(ok), false |-> One(~ok)]
     /\ handler' = [handler EXCEPT ![h] = Idle]
     /\ UNCHANGED <<results, faults>>

\* nodeReputation.create fails when the row has come to be since it was read;
\* POST /results then answers 400 although the result is stored.
Create(h) ==
  LET ok == handler[h].ok
  IN /\ handler[h].pc = "create"
     /\ IF row.exists
        THEN UNCHANGED row
        ELSE row' = [exists |-> TRUE, score |-> IF ok THEN Best ELSE Best - FirstPenalty,
                     total |-> 1, success |-> One(ok), false |-> One(~ok)]
     /\ handler' = [handler EXCEPT ![h] = Idle]
     /\ UNCHANGED <<results, faults>>

\* Mutant: the score and the counters are written by two statements, and the
\* second may fail.
UpdateSplit(h) ==
  LET score == Clamp(handler[h].score + IF handler[h].ok THEN Reward ELSE -Penalty)
  IN /\ handler[h].pc = "update"
     /\ \/ row' = [row EXCEPT !.total = @ + 1, !.success = @ + One(handler[h].ok),
                              !.false = @ + One(~handler[h].ok), !.score = score]
        \/ row' = [row EXCEPT !.score = score]
     /\ handler' = [handler EXCEPT ![h] = Idle]
     /\ UNCHANGED <<results, faults>>

\* The counters are incremented in the database, the score is written from
\* the one read.
Update(h) ==
  LET ok == handler[h].ok
  IN /\ handler[h].pc = "update"
     /\ row' = [row EXCEPT !.total = @ + 1,
                           !.success = @ + One(ok),
                           !.false = @ + One(~ok),
                           !.score = Clamp(handler[h].score
                                           + IF ok THEN Reward ELSE -Penalty)]
     /\ handler' = [handler EXCEPT ![h] = Idle]
     /\ UNCHANGED <<results, faults>>

Fault(h) ==
  /\ handler[h].pc # "idle"
  /\ faults < MaxFaults
  /\ faults' = faults + 1
  /\ handler' = [handler EXCEPT ![h] = Idle]
  /\ UNCHANGED <<row, results>>

Next ==
  \/ Register
  \/ \E h \in Handlers :
       \/ \E ok \in BOOLEAN : Store(h, ok)
       \/ Read(h) \/ Create(h) \/ Update(h) \/ Fault(h)

Spec == Init /\ [][Next]_vars

-----------------------------------------------------------------------------
RowState == [exists : BOOLEAN, score : 0..Best, total : Nat, success : Nat, false : Nat]

HandlerState == [pc : {"idle", "read", "create", "update"}, ok : BOOLEAN, score : 0..Best]

\* Every variable has its type: no interleaving takes the score out of 0..100.
TypeOK ==
  /\ row \in RowState
  /\ handler \in [Handlers -> HandlerState]
  /\ results \in 0..MaxResults
  /\ faults \in 0..MaxFaults

(***************************************************************************)
(* A node is never punished for more than its own failures: whatever stale *)
(* score an overlapping result writes back, the score is at least what the *)
(* failures counted so far take away (and 3 points more, for a row that    *)
(* begins at 95).                                                          *)
(***************************************************************************)
NoUndeservedPenalty ==
  row.score >= Best - (FirstPenalty - Penalty) - Penalty * row.false

\* A node without a failure keeps the full score, rewards notwithstanding.
PerfectRecord == row.false = 0 => row.score = Best

(***************************************************************************)
(* Every stored result is counted once, as a success or as a failure: the  *)
(* counters lose no update.  What stays uncounted is in progress, failed,  *)
(* or lost the race to create the row, and that race is run once, so it    *)
(* costs at most one result of each handler that can take part.            *)
(***************************************************************************)
InFlight == {h \in Handlers : handler[h].pc # "idle"}

CountedOnce ==
  LET accounted == row.total + Cardinality(InFlight) + faults
  IN /\ row.total = row.success + row.false
     /\ accounted <= results
     /\ results <= accounted + Cardinality(Handlers)
=============================================================================

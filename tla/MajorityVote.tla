----------------------------- MODULE MajorityVote -----------------------------
(***************************************************************************)
(* The reports of one job as they come in, and the vote of Consensus after *)
(* each: the loops of evaluateConsensus against the declarative definition *)
(* the other modules use.  A behaviour grows one list of reports, in the   *)
(* order in which evaluateConsensus reads it, by createdAt.  A new report  *)
(* need not be the last of that order: its row was stamped before it was   *)
(* committed, by one of two replicas, and others may have been stamped     *)
(* later and seen earlier.                                                 *)
(***************************************************************************)
EXTENDS Consensus, SequencesExt

CONSTANT MaxReports   \* bound on the reports of one job that are explored

ASSUME MaxReportsAssumption == MaxReports \in Nat \ {0}

VARIABLE reports      \* the results of the job, by createdAt

ballotVars == <<reports>>

BallotInit == reports = <<>>

\* A report becomes visible, at some place of the order.
Arrive(s) ==
  /\ Len(reports) < MaxReports
  /\ \E i \in 1..(Len(reports) + 1) : reports' = InsertAt(reports, i, [status |-> s])

BallotNext == \E s \in SiteStatus : Arrive(s)

BallotSpec == BallotInit /\ [][BallotNext]_ballotVars

-----------------------------------------------------------------------------
\* The two loops of evaluateConsensus compute exactly the status and the count
\* of the declarative definition the other modules use, ties included.
LoopsAgree ==
  LET loop == LoopMajority(reports)
  IN loop.status = Majority(reports) /\ loop.count = Count(reports, Majority(reports))

(***************************************************************************)
(* While the nodes of a panel report at most once each, a verdict is never *)
(* outvoted: once the reports decide the job, no later report of the panel *)
(* gives another status more votes, whatever its place in the order; and   *)
(* on a panel of odd size the verdict does not move at all.  (On a panel   *)
(* of two a later report can draw level and, stamped earlier, take the     *)
(* lead.  The API evaluates the job anew on every report, decided or not.) *)
(***************************************************************************)
VerdictIsNotOutvoted ==
  [][\A expected \in 1..MaxReports :
       /\ Len(reports') <= expected
       /\ reports # <<>>
       /\ Decided(reports, expected)
       => /\ Majority(reports) \in Leading(reports')
          /\ expected % 2 = 1 => Majority(reports') = Majority(reports)]_ballotVars

(***************************************************************************)
(* Once decided, always decided: a later report never takes a job back     *)
(* below both thresholds, whatever the size of its panel.                  *)
(***************************************************************************)
DecisionIsMonotone ==
  [][\A expected \in 1..MaxReports :
       Decided(reports, expected) => Decided(reports', expected)]_ballotVars
=============================================================================

------------------------------ MODULE Consensus ------------------------------
(***************************************************************************)
(* The vote of apps/api/index.ts: how the reports of one job are counted,  *)
(* which status leads, and when the reports are enough to close the job.   *)
(* A list of reports is a sequence of records with a field "status".       *)
(* Majority reads it in the order of Result.createdAt, as the code does;   *)
(* Leading and Decided do not depend on the order.                         *)
(***************************************************************************)
EXTENDS Integers, Sequences, FiniteSets

\* The values POST /results accepts (the SiteStatus enum).
SiteStatus == {"UP", "DOWN", "DEGRADED", "UNKNOWN"}

\* The values a vote is counted under: DEGRADED is folded into DOWN.
VerdictStatus == {"UP", "DOWN", "UNKNOWN"}

Normalize(s) == IF s = "DEGRADED" THEN "DOWN" ELSE s

Votes(rs, s) == {i \in DOMAIN rs : Normalize(rs[i].status) = s}

Count(rs, s) == Cardinality(Votes(rs, s))

(***************************************************************************)
(* The loop over counts keeps the first entry with the greatest count (the *)
(* comparison is strict), and the Map lists its entries in the order in    *)
(* which their first vote arrived: between two statuses with equal counts  *)
(* the one that was reported first leads.                                  *)
(***************************************************************************)
Leads(rs, s) ==
  \A t \in VerdictStatus \ {s} :
    \/ Count(rs, s) > Count(rs, t)
    \/ /\ Count(rs, s) = Count(rs, t)
       /\ \E i \in Votes(rs, s) : \A k \in Votes(rs, t) : i < k

\* majorityStatus; it starts as UNKNOWN and stays so when nobody reported.
Majority(rs) ==
  IF \E s \in VerdictStatus : Leads(rs, s)
  THEN CHOOSE s \in VerdictStatus : Leads(rs, s)
  ELSE "UNKNOWN"

(***************************************************************************)
(* What a vote can come to when only the rows are known and not their      *)
(* order.  createdAt has milliseconds and is stamped before the row can be *)
(* seen, by either replica: a row may become visible after rows that were  *)
(* stamped later, and rows of one millisecond have no order at all.  Which *)
(* of the statuses with the most votes comes first is then open.           *)
(***************************************************************************)
Leading(rs) ==
  {s \in VerdictStatus : \A t \in VerdictStatus : Count(rs, t) <= Count(rs, s)}

\* Mutant: the polling node is left out of the panel's size.
ExpectedOthers(assigned) ==
  IF Cardinality(assigned) <= 1 THEN 1 ELSE Cardinality(assigned) - 1

\* expectedNodes: the size of assignedNodeIds, at least 1.
Expected(assigned) == IF assigned = {} THEN 1 ELSE Cardinality(assigned)

\* Mutant: rounded down.
QuorumFloor(expected) == expected \div 2

\* Math.ceil(expectedNodes / 2)
Quorum(expected) == (expected + 1) \div 2

\* Mutant: exactly as many reports as the panel has nodes.
DecidedExactly(rs, expected) ==
  \/ Count(rs, Majority(rs)) >= Quorum(expected)
  \/ Len(rs) = expected

\* reachedMajority || enoughReports
Decided(rs, expected) ==
  \/ Count(rs, Majority(rs)) >= Quorum(expected)
  \/ Len(rs) >= expected

-----------------------------------------------------------------------------
(***************************************************************************)
(* The same count as evaluateConsensus makes it, loop by loop.  What a     *)
(* loop has made of the first k elements is a function of k.               *)
(***************************************************************************)
\* counts.set(status, (counts.get(status) ?? 0) + 1): the Map as a sequence
\* of its entries, in insertion order.
Bump(entries, r) ==
  LET s  == Normalize(r.status)
      at == {k \in DOMAIN entries : entries[k].status = s}
  IN IF at = {}
     THEN Append(entries, [status |-> s, count |-> 1])
     ELSE [k \in DOMAIN entries |->
             IF k \in at THEN [entries[k] EXCEPT !.count = @ + 1] ELSE entries[k]]

\* for (const result of results)
CountLoop(rs) ==
  LET counts[k \in 0..Len(rs)] ==
        IF k = 0 THEN <<>> ELSE Bump(counts[k - 1], rs[k])
  IN counts

\* Mutant: an equal count takes the lead.
BetterOrEqual(best, entry) == IF entry.count >= best.count THEN entry ELSE best

\* if (count > majorityCount) { majorityStatus = status; ... }
Better(best, entry) == IF entry.count > best.count THEN entry ELSE best

\* for (const [status, count] of counts.entries())
BestLoop(entries) ==
  LET best[k \in 0..Len(entries)] ==
        IF k = 0 THEN [status |-> "UNKNOWN", count |-> 0] ELSE Better(best[k - 1], entries[k])
  IN best

\* majorityStatus and majorityCount, after both loops.
LoopMajority(rs) ==
  LET entries == CountLoop(rs)[Len(rs)]
  IN BestLoop(entries)[Len(entries)]
=============================================================================

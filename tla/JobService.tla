------------------------------ MODULE JobService ------------------------------
(***************************************************************************)
(* The life of the jobs of one website in one region, as the API replicas  *)
(* (apps/api), the hub (apps/hub) and the region's validators              *)
(* (apps/validator, apps/validator-go) drive it together through the       *)
(* database.                                                               *)
(*                                                                         *)
(* A handler runs between two awaits without interruption, and every await *)
(* of a database call is a point where any other handler, of any replica,  *)
(* may run: one action per call to the database, a handler's local copies  *)
(* of what it read kept in its own record.  The statements of the          *)
(* transaction of evaluateConsensus run under PostgreSQL's default READ    *)
(* COMMITTED: each sees the rows committed when it starts, waits for the   *)
(* row locks of another transaction, and its writes appear at the commit.  *)
(*                                                                         *)
(* A "loop" is one iteration of a validator's poll-check-submit loop with  *)
(* the API handlers it calls.  Loops are not tied to nodes: the timer of   *)
(* the TypeScript validator starts an iteration every few seconds whether  *)
(* or not the last one is over, so one node may own several.               *)
(***************************************************************************)
EXTENDS Consensus

CONSTANTS
  Nodes,       \* the region's active nodes
  NoNode,      \* no node (an idle loop has none)
  Loops,       \* the iterations that may be in progress at the same time
  MaxJobs,     \* bound: the jobs the hub creates before the website is paused
  MaxAssign,   \* take: 3 of the poll handler's panel
  Window,      \* take: 20 of the poll handler's candidates
  StaleBatch,  \* take: 500 of the hub's stale scan
  Interval,    \* website.intervalSeconds, in ticks
  StaleAfter,  \* STALE_JOB_TIMEOUT_MS, in ticks
  Reports,     \* the statuses the checks of this run can come to
  Alerts,      \* the website's enabled DOWNTIME alert configurations
  MaxFaults    \* bound: crashes, database errors and lost replies

ASSUME NodesAssumption == IsFiniteSet(Nodes) /\ NoNode \notin Nodes
ASSUME ReportsAssumption == Reports \subseteq SiteStatus
ASSUME NumbersAssumption ==
  /\ MaxJobs \in Nat \ {0}
  /\ MaxAssign \in Nat \ {0}
  /\ Window \in Nat \ {0}
  /\ StaleBatch \in Nat \ {0}
  /\ Interval \in Nat \ {0}
  /\ StaleAfter \in Nat
  /\ Alerts \in Nat
  /\ MaxFaults \in Nat

VARIABLES
  status,      \* Job.status, "NONE" until the hub creates the row
  assigned,    \* Job.assignedNodeIds
  age,         \* ticks since Job.scheduledAt, counted up to MaxAge
  results,     \* the Result rows of the job, in the order they became visible
  marked,      \* the rows (positions in results) whose isConsensus is true
  incidents,   \* open Incident rows raised by the evaluation of the job
  loop,        \* each iteration: where it is and what it has read
  hub,         \* the hub's tick: where it is and the stale jobs it has read
  faults       \* failures so far

vars == <<status, assigned, age, results, marked, incidents, loop, hub, faults>>
jobVars == <<status, assigned, age>>
voteVars == <<results, marked, incidents>>

Jobs == 1..MaxJobs      \* in the order of scheduledAt
Active == {"PENDING", "ASSIGNED", "IN_PROGRESS"}
Terminal == {"COMPLETED", "TIMED_OUT"}
JobStatus == {"NONE"} \cup Active \cup Terminal

Created == {j \in Jobs : status[j] # "NONE"}

\* An age above both thresholds need not be told apart from a greater one.
MaxAge == IF Interval > StaleAfter THEN Interval ELSE StaleAfter + 1

Row == [node : Nodes, status : SiteStatus]

Idle == [pc |-> "idle", node |-> NoNode, job |-> 1, read |-> "NONE",
         assigned |-> {}, report |-> "UNKNOWN", verdict |-> "UNKNOWN",
         rows |-> 0, seen |-> 0]

Reported(j, n) == \E i \in DOMAIN results[j] : results[j][i].node = n

Init ==
  /\ status = [j \in Jobs |-> "NONE"]
  /\ assigned = [j \in Jobs |-> {}]
  /\ age = [j \in Jobs |-> 0]
  /\ results = [j \in Jobs |-> <<>>]
  /\ marked = [j \in Jobs |-> {}]
  /\ incidents = [j \in Jobs |-> 0]
  /\ loop = [l \in Loops |-> Idle]
  /\ hub = [pc |-> "ready", stale |-> {}]
  /\ faults = 0

-----------------------------------------------------------------------------
\* GET /jobs/poll

\* The oldest Window active jobs of the region; which of them the node may
\* have is decided afterwards, so reported jobs take up room in the window.
Candidate(j) ==
  /\ status[j] \in Active
  /\ Cardinality({k \in Jobs : k < j /\ status[k] \in Active}) < Window

Eligible(j, n) ==
  /\ Candidate(j)
  /\ ~Reported(j, n)
  /\ status[j] = "PENDING" \/ n \in assigned[j]

\* A read PENDING is assigned next, an ASSIGNED is started next, and one
\* already IN_PROGRESS is handed out at once.
AfterSelect(s) ==
  CASE s = "PENDING" -> "assign" [] s = "ASSIGNED" -> "start" [] OTHER -> "check"

\* A poll that finds nothing answers { job: null } and changes nothing.
PollSelect(l, n) ==
  /\ loop[l].pc = "idle"
  /\ \E j \in Jobs :
       /\ Eligible(j, n)
       /\ \A k \in Jobs : k < j => ~Eligible(k, n)
       /\ loop' = [loop EXCEPT ![l] =
                     [Idle EXCEPT !.pc = AfterSelect(status[j]), !.node = n,
                                  !.job = j, !.assigned = assigned[j]]]
  /\ UNCHANGED <<jobVars, voteVars, hub, faults>>

\* How many nodes the query finds: all of them, up to MaxAssign.
PanelSize == IF Cardinality(Nodes) <= MaxAssign THEN Cardinality(Nodes) ELSE MaxAssign

\* Mutant: the query takes one node less, to leave a place for the poller.
PanelShort(T) == T \subseteq Nodes /\ Cardinality(T) + 1 = PanelSize

\* The nodes seen last come first; here any nodes may be those.
Panel(T) == T \subseteq Nodes /\ Cardinality(T) = PanelSize

\* Mutant: the panel is the polling node alone.
PollAssignAlone(l) ==
  /\ loop[l].pc = "assign"
  /\ assigned' = [assigned EXCEPT ![loop[l].job] = {loop[l].node}]
  /\ status' = [status EXCEPT ![loop[l].job] = "ASSIGNED"]
  /\ loop' = [loop EXCEPT ![l].pc = "start", ![l].assigned = {}]
  /\ UNCHANGED <<age, voteVars, hub, faults>>

\* job.update by id: whatever the row has become since it was read.
PollAssign(l) ==
  /\ loop[l].pc = "assign"
  /\ \E T \in SUBSET Nodes :
       /\ Panel(T)
       /\ assigned' = [assigned EXCEPT ![loop[l].job] = T \cup {loop[l].node}]
  /\ status' = [status EXCEPT ![loop[l].job] = "ASSIGNED"]
  /\ loop' = [loop EXCEPT ![l].pc = "start", ![l].assigned = {}]
  /\ UNCHANGED <<age, voteVars, hub, faults>>

\* The update returns the row; a panel without the node means { job: null }.
PollStart(l) ==
  LET j == loop[l].job
  IN /\ loop[l].pc = "start"
     /\ status' = [status EXCEPT ![j] = "IN_PROGRESS"]
     /\ IF loop[l].node \in assigned[j]
        THEN loop' = [loop EXCEPT ![l].pc = "check", ![l].assigned = assigned[j]]
        ELSE loop' = [loop EXCEPT ![l] = Idle]
     /\ UNCHANGED <<assigned, age, voteVars, hub, faults>>

-----------------------------------------------------------------------------
\* The check of the validator, then POST /results

\* The status s the check came to is submitted, and the handler looks for an
\* earlier result of the node; the job's own status is not looked at.
Report(l, s) ==
  /\ loop[l].pc = "check"
  /\ IF Reported(loop[l].job, loop[l].node)
     THEN loop' = [loop EXCEPT ![l] = Idle]            \* 409
     ELSE loop' = [loop EXCEPT ![l].pc = "create", ![l].report = s,
                               ![l].assigned = {}]
  /\ UNCHANGED <<jobVars, voteVars, hub, faults>>

\* Mutant: no unique constraint behind the look-up.
CreateUnconstrained(l) ==
  LET j == loop[l].job
  IN /\ loop[l].pc = "create"
     /\ results' = [results EXCEPT ![j] =
                      Append(@, [node |-> loop[l].node, status |-> loop[l].report])]
     /\ loop' = [loop EXCEPT ![l] = [Idle EXCEPT !.pc = "eval", !.job = j]]
     /\ UNCHANGED <<jobVars, marked, incidents, hub, faults>>

\* result.create, under the unique constraint on (jobId, nodeId).
Create(l) ==
  LET j == loop[l].job
      n == loop[l].node
  IN /\ loop[l].pc = "create"
     /\ IF Reported(j, n)
        THEN /\ loop' = [loop EXCEPT ![l] = Idle]      \* 400
             /\ UNCHANGED results
        ELSE /\ results' = [results EXCEPT ![j] =
                              Append(@, [node |-> n, status |-> loop[l].report])]
             /\ loop' = [loop EXCEPT ![l] = [Idle EXCEPT !.pc = "eval", !.job = j]]
     /\ UNCHANGED <<jobVars, marked, incidents, hub, faults>>

-----------------------------------------------------------------------------
\* evaluateConsensus

EvalJob(l) ==
  /\ loop[l].pc = "eval"
  /\ loop' = [loop EXCEPT ![l].pc = "tally",
                          ![l].read = status[loop[l].job],
                          ![l].assigned = assigned[loop[l].job]]
  /\ UNCHANGED <<jobVars, voteVars, hub, faults>>

\* What the tally of the results can come to, with the panel and the status of
\* the job read before: a transaction, a note of progress, or nothing.  The rows
\* are read by createdAt, which need not be the order they became visible in:
\* any of the statuses with the most votes may come first (see Leading).
TallyOutcomes(l, rs) ==
  IF Decided(rs, Expected(loop[l].assigned))
  THEN {[Idle EXCEPT !.pc = "begin", !.job = loop[l].job, !.verdict = v] : v \in Leading(rs)}
  ELSE IF loop[l].read \in {"ASSIGNED", "PENDING"}
       THEN {[Idle EXCEPT !.pc = "progress", !.job = loop[l].job, !.read = loop[l].read]}
       ELSE {Idle}

\* Mutant: a job that is COMPLETED already is not evaluated again.
EvalTallyOnce(l) ==
  /\ loop[l].pc = "tally"
  /\ \E r \in IF loop[l].read = "COMPLETED"
               THEN {Idle} ELSE TallyOutcomes(l, results[loop[l].job]) :
       loop' = [loop EXCEPT ![l] = r]
  /\ UNCHANGED <<jobVars, voteVars, hub, faults>>

\* Mutant: progress is recorded whatever the job's status was.
EvalTallyAnyStatus(l) ==
  LET rs == results[loop[l].job]
  IN /\ loop[l].pc = "tally"
     /\ \E r \in IF Decided(rs, Expected(loop[l].assigned))
                  THEN TallyOutcomes(l, rs)
                  ELSE {[Idle EXCEPT !.pc = "progress", !.job = loop[l].job,
                                     !.read = loop[l].read]} :
          loop' = [loop EXCEPT ![l] = r]
     /\ UNCHANGED <<jobVars, voteVars, hub, faults>>

EvalTally(l) ==
  /\ loop[l].pc = "tally"
  /\ \E r \in TallyOutcomes(l, results[loop[l].job]) : loop' = [loop EXCEPT ![l] = r]
  /\ UNCHANGED <<jobVars, voteVars, hub, faults>>

EvalProgress(l) ==
  /\ loop[l].pc = "progress"
  /\ status' = [status EXCEPT ![loop[l].job] = "IN_PROGRESS"]
  /\ loop' = [loop EXCEPT ![l] = Idle]
  /\ UNCHANGED <<assigned, age, voteVars, hub, faults>>

\* The first statement starts: it will reset the rows there are now.
TxBegin(l) ==
  /\ loop[l].pc = "begin"
  /\ loop' = [loop EXCEPT ![l].pc = "reset", ![l].rows = Len(results[loop[l].job])]
  /\ UNCHANGED <<jobVars, voteVars, hub, faults>>

HoldsRows(m, j) == loop[m].pc \in {"mark", "commit"} /\ loop[m].job = j

\* ... once no other transaction holds their locks.
TxReset(l) ==
  /\ loop[l].pc = "reset"
  /\ \A m \in Loops : ~HoldsRows(m, loop[l].job)
  /\ loop' = [loop EXCEPT ![l].pc = "mark"]
  /\ UNCHANGED <<jobVars, voteVars, hub, faults>>

\* The second statement marks, among the rows there are when it runs, those
\* whose stored status (DEGRADED stays DEGRADED) is the verdict.
TxMark(l) ==
  /\ loop[l].pc = "mark"
  /\ loop' = [loop EXCEPT ![l].pc = "commit", ![l].seen = Len(results[loop[l].job])]
  /\ UNCHANGED <<jobVars, voteVars, hub, faults>>

Stored(j, s) == {i \in DOMAIN results[j] : results[j][i].status = s}

\* Mutant: another verdict resolves one incident per configuration.
IncidentsAfterPaired(j, v) ==
  CASE Stored(j, v) = {} -> incidents
    [] Stored(j, v) # {} /\ v = "DOWN" -> [incidents EXCEPT ![j] = @ + Alerts]
    [] Stored(j, v) # {} /\ v # "DOWN" -> [incidents EXCEPT ![j] = @ - Alerts]

\* Mutant: an incident per result with the verdict.
IncidentsAfterPerResult(j, v) ==
  CASE v = "DOWN" -> [incidents EXCEPT ![j] = @ + Alerts * Cardinality(Stored(j, v))]
    [] v # "DOWN" -> [k \in Jobs |-> 0]

\* The incidents after job j was found to be v: a DOWN opens one per alert
\* configuration, any other verdict resolves all of the website's, whichever
\* job opened them, and a verdict no stored result carries does neither.
IncidentsAfter(j, v) ==
  CASE Stored(j, v) = {} -> incidents
    [] Stored(j, v) # {} /\ v = "DOWN" -> [incidents EXCEPT ![j] = @ + Alerts]
    [] Stored(j, v) # {} /\ v # "DOWN" -> [k \in Jobs |-> 0]

\* The job's update, the look-up of a result with the verdict, what it says of
\* incidents, and the commit, which makes the resets and the marks visible.
TxCommit(l) ==
  LET j == loop[l].job
      v == loop[l].verdict
  IN /\ loop[l].pc = "commit"
     /\ marked' = [marked EXCEPT ![j] = (@ \ 1..loop[l].rows)
                                          \cup (Stored(j, v) \cap 1..loop[l].seen)]
     /\ status' = [status EXCEPT ![j] = "COMPLETED"]
     /\ incidents' = IncidentsAfter(j, v)
     /\ loop' = [loop EXCEPT ![l] = Idle]
     /\ UNCHANGED <<assigned, age, results, hub, faults>>

-----------------------------------------------------------------------------
\* An API replica or a validator stops, a database call fails, a transaction
\* exceeds its time or a reply is lost: the iteration goes no further, what it
\* has committed stays, its open transaction is rolled back.
Fault(l) ==
  /\ loop[l].pc # "idle"
  /\ faults < MaxFaults
  /\ loop' = [loop EXCEPT ![l] = Idle]
  /\ faults' = faults + 1
  /\ UNCHANGED <<jobVars, voteVars, hub>>

-----------------------------------------------------------------------------
\* scheduleDueJobs, every SCHEDULER_INTERVAL_MS unless the last is running

Latest(j) == j \in Created /\ \A k \in Created : k <= j

Due == \A j \in Jobs : Latest(j) => age[j] >= Interval

HubSchedule ==
  /\ hub.pc = "ready"
  /\ hub' = [hub EXCEPT !.pc = "scan"]
  /\ IF Due /\ Created # Jobs
     THEN \E j \in Jobs \ Created :
            /\ \A k \in Jobs \ Created : j <= k
            /\ status' = [status EXCEPT ![j] = "PENDING"]
     ELSE UNCHANGED status
  /\ UNCHANGED <<assigned, age, voteVars, loop, faults>>

\* Mutant: a job in progress is left alone.
StaleJobsUnstarted ==
  {j \in Jobs : status[j] \in {"PENDING", "ASSIGNED"} /\ age[j] > StaleAfter}

StaleJobs == {j \in Jobs : status[j] \in Active /\ age[j] > StaleAfter}

\* findMany with take: any StaleBatch of the stale jobs.
HubReadStale ==
  /\ hub.pc = "scan"
  /\ \E S \in SUBSET StaleJobs :
       /\ IF Cardinality(StaleJobs) <= StaleBatch
          THEN S = StaleJobs
          ELSE Cardinality(S) = StaleBatch
       /\ hub' = [pc |-> IF S = {} THEN "ready" ELSE "expire", stale |-> S]
  /\ UNCHANGED <<jobVars, voteVars, loop, faults>>

\* updateMany by id alone: whatever the rows have become since the scan.
HubTimeOut ==
  /\ hub.pc = "expire"
  /\ status' = [j \in Jobs |-> IF j \in hub.stale THEN "TIMED_OUT" ELSE status[j]]
  /\ hub' = [pc |-> "ready", stale |-> {}]
  /\ UNCHANGED <<assigned, age, voteVars, loop, faults>>

\* The tick fails or the hub restarts.
HubFault ==
  /\ hub.pc # "ready"
  /\ faults < MaxFaults
  /\ hub' = [pc |-> "ready", stale |-> {}]
  /\ faults' = faults + 1
  /\ UNCHANGED <<jobVars, voteVars, loop>>

Tick ==
  /\ \E j \in Created : age[j] < MaxAge
  /\ age' = [j \in Jobs |-> IF j \in Created /\ age[j] < MaxAge THEN age[j] + 1 ELSE age[j]]
  /\ UNCHANGED <<status, assigned, voteVars, loop, hub, faults>>

-----------------------------------------------------------------------------
Poll(l) == (\E n \in Nodes : PollSelect(l, n)) \/ PollAssign(l) \/ PollStart(l)
Submit(l) == (\E s \in Reports : Report(l, s)) \/ Create(l)
Evaluate(l) == EvalJob(l) \/ EvalTally(l) \/ EvalProgress(l)
Transact(l) == TxBegin(l) \/ TxReset(l) \/ TxMark(l) \/ TxCommit(l)
Hub == HubSchedule \/ HubReadStale \/ HubTimeOut \/ HubFault

Next ==
  \/ \E l \in Loops : Poll(l) \/ Submit(l) \/ Evaluate(l) \/ Transact(l) \/ Fault(l)
  \/ Hub
  \/ Tick

Spec == Init /\ [][Next]_vars

(***************************************************************************)
(* Only what the code keeps going by itself is fair: time passes, and the  *)
(* hub's timer ticks again and again and runs each tick to its end.        *)
(* Nothing is assumed of the validators, which may never poll, nor of the  *)
(* API's handlers, which may hang for ever.                                *)
(***************************************************************************)
HubSpec ==
  /\ Spec
  /\ WF_vars(Tick)
  /\ WF_vars(HubSchedule) /\ WF_vars(HubReadStale) /\ WF_vars(HubTimeOut)

-----------------------------------------------------------------------------
\* Properties

\* Every variable has its type.
LoopState ==
  [pc : {"idle", "assign", "start", "check", "create", "eval", "tally",
         "progress", "begin", "reset", "mark", "commit"},
   node : Nodes \cup {NoNode}, job : Jobs, read : JobStatus,
   assigned : SUBSET Nodes, report : SiteStatus, verdict : VerdictStatus,
   rows : Nat, seen : Nat]

TypeOK ==
  /\ status \in [Jobs -> JobStatus]
  /\ assigned \in [Jobs -> SUBSET Nodes]
  /\ age \in [Jobs -> 0..MaxAge]
  /\ results \in [Jobs -> Seq(Row)]
  /\ marked \in [Jobs -> SUBSET (Nat \ {0})]
  /\ incidents \in [Jobs -> Nat]
  /\ loop \in [Loops -> LoopState]
  /\ hub \in [pc : {"ready", "scan", "expire"}, stale : SUBSET Jobs]
  /\ faults \in 0..MaxFaults

(***************************************************************************)
(* A node's vote counts once: however many iterations of it overlap, and   *)
(* whatever they retry, a job never holds two results of the same node.    *)
(* (The read of an earlier result and the insert are two calls.)           *)
(***************************************************************************)
OneResultPerNode ==
  \A j \in Jobs : \A i, k \in DOMAIN results[j] :
    results[j][i].node = results[j][k].node => i = k

(***************************************************************************)
(* A job is handed out only to a node on the panel that goes with it, also *)
(* when another poll replaced the panel between this poll's two updates.   *)
(***************************************************************************)
LeaseNamesNode ==
  \A l \in Loops : loop[l].pc = "check" => loop[l].node \in loop[l].assigned

(***************************************************************************)
(* A COMPLETED job has votes, and those that completion asks of a panel    *)
(* without its poller, whichever polls, evaluations and time-outs raced    *)
(* with the one that completed it.  (A poll may replace the panel at any   *)
(* time, by other nodes and with one more: of the panel there is now the   *)
(* same need not be true.)                                                 *)
(***************************************************************************)
CompletedIsDecided ==
  \A j \in Jobs : status[j] = "COMPLETED" =>
    results[j] # <<>> /\ Decided(results[j], PanelSize)

\* A region whose active nodes all fit on the panel of a job.
SmallRegion == Nodes # {} /\ Cardinality(Nodes) <= MaxAssign

(***************************************************************************)
(* In such a region the verdict in the hands of a transaction is never     *)
(* outvoted, however many reports came in since its tally: no other status *)
(* has more votes than it has now.  (Another may have as many, and an      *)
(* evaluation that reads them in another order may find that one instead.) *)
(***************************************************************************)
VerdictStillHolds ==
  SmallRegion =>
    \A l \in Loops : loop[l].pc \in {"begin", "reset", "mark", "commit"} =>
      loop[l].verdict \in Leading(results[loop[l].job])

(***************************************************************************)
(* A row marked isConsensus has a status that nothing outvotes, between    *)
(* any two steps of concurrent evaluations: a mark that a later report     *)
(* would belie is never left behind.                                       *)
(***************************************************************************)
MarksAgree ==
  SmallRegion =>
    \A j \in Jobs : \A i \in marked[j] :
      \E v \in Leading(results[j]) : i \in Stored(j, v)

(***************************************************************************)
(* When no evaluation of a decided job is in progress and none has failed, *)
(* every row of a leading status is marked: no update is lost between      *)
(* transactions that overlap.  (If two lead, the rows of one of them are.) *)
(***************************************************************************)
Evaluating(l, j) ==
  /\ loop[l].job = j
  /\ loop[l].pc \in {"eval", "tally", "begin", "reset", "mark", "commit"}

MarksComplete ==
  SmallRegion /\ faults = 0 =>
    \A j \in Jobs :
      /\ Decided(results[j], Cardinality(Nodes))
      /\ results[j] # <<>>
      /\ \A l \in Loops : ~Evaluating(l, j)
      => \E v \in Leading(results[j]) : Stored(j, v) \subseteq marked[j]

(***************************************************************************)
(* An incident a job has opened is backed by the votes the job has now: no *)
(* later report of that job outvotes DOWN.                                 *)
(***************************************************************************)
NoFalseAlarm ==
  SmallRegion =>
    \A j \in Jobs : incidents[j] > 0 => "DOWN" \in Leading(results[j])

(***************************************************************************)
(* Every report after the deciding one evaluates the job again, and each   *)
(* evaluation opens its own incidents: a job never has more than one per   *)
(* report and alert configuration, whatever is retried.                    *)
(***************************************************************************)
IncidentBound == \A j \in Jobs : incidents[j] <= Alerts * Len(results[j])

(***************************************************************************)
(* A job that has ended is made active again only by an iteration that     *)
(* read it while it was active: a poll between its updates, or an          *)
(* evaluation that found it ASSIGNED or PENDING before too few votes.      *)
(***************************************************************************)
ReadItActive(l, j) ==
  /\ loop[l].job = j
  /\ \/ loop[l].pc \in {"assign", "start"}
     \/ loop[l].pc = "progress" /\ loop[l].read \in Active

ReviveNeedsStaleReader ==
  [][\A j \in Jobs :
       status[j] \in Terminal /\ (\A l \in Loops : ~ReadItActive(l, j))
       => status'[j] \in Terminal]_vars

(***************************************************************************)
(* Every job comes to an end for good: though late writes revive jobs that *)
(* have ended, the hub times each out again, and the revivals run out.     *)
(***************************************************************************)
FinallySettled ==
  \A j \in Jobs : (status[j] # "NONE") ~> [](status[j] \in Terminal)

-----------------------------------------------------------------------------
\* The promise of JobContract

Phase(s) ==
  CASE s = "NONE" -> "none" [] s \in Active -> "open"
    [] s = "COMPLETED" -> "decided" [] s = "TIMED_OUT" -> "expired"

\* Who has taken job j up: who is to write to it having read it active.
TookUp(l, j) ==
  \/ ReadItActive(l, j)
  \/ loop[l].job = j /\ loop[l].pc = "tally" /\ loop[l].read \in Active

Contract ==
  INSTANCE JobContract WITH
    Workers <- Loops,
    Seats <- PanelSize,
    phase <- [j \in Jobs |-> Phase(status[j])],
    votes <- results,
    holders <- [j \in Jobs |-> {l \in Loops : TookUp(l, j)}]

(***************************************************************************)
(* The calls and transactions of polls, evaluations and the hub, however   *)
(* they overlap, do to a job only what JobContract lets them: every step   *)
(* is one of its steps or changes nothing it speaks of.                    *)
(***************************************************************************)
KeepsContract == Contract!Spec

-----------------------------------------------------------------------------
\* What the documentation says and the code does not do

(***************************************************************************)
(* "incident creation on downtime consensus" (README.md): the consensus of *)
(* one job opens at most one incident per alert configuration.  Each       *)
(* report after the deciding one runs the evaluation, and opens them anew. *)
(***************************************************************************)
OneAlarmPerJob == \A j \in Jobs : incidents[j] <= Alerts
=============================================================================

# A formal model of dpin_uptime

dpin_uptime is a distributed uptime monitor: users register websites, a hub
creates check jobs for them, validator nodes in several regions poll the API for
jobs, check the site and submit signed results, and the API takes a majority of
the results of a job, closes it and opens or resolves incidents. This directory
holds TLA+ modules of that program, configurations that check them on small
instances with TLC, and theorems about them whose proofs TLAPS checks.

All paths below are relative to the repository.

## The system

| component | where | state it keeps | operations |
| --- | --- | --- | --- |
| API (control plane, two replicas: `infra/helm/dpin-api/values.yaml`) | `apps/api/index.ts` | none of its own but metrics; all state is in PostgreSQL | auth, websites, nodes, `GET /jobs/poll`, `POST /results`, `evaluateConsensus`, `updateNodeReputation`, alerts, analytics |
| API middleware | `apps/api/middleware.ts` | none | user token and node key checks |
| Hub (scheduler, one instance) | `apps/hub/index.ts` | `running`, `aggregatingSLA` flags | `scheduleDueJobs` every 10 s, `aggregateDailySLARecords` every 5 min |
| TypeScript validator | `apps/validator/index.ts` | none | heartbeat and poll-check-submit iterations on timers, which may overlap |
| Go validator | `apps/validator-go` | none | the same iteration, one at a time |
| Shared contracts | `packages/common/index.ts` | none | result signing, shared types |
| Database | `packages/db/prisma/schema.prisma` | users, websites, regions, nodes, reputations, jobs, results, alerts, incidents, SLA records | constraints: one result per job and node, one reputation row per node, one region row per website and region |
| Frontend | `apps/frontend` | session in the browser's storage | pages over the API |

Everything meets in the database. A handler of the API or of the hub is
JavaScript: it runs alone between two `await`s, and at every awaited database
call any other handler of any process may run. Only `evaluateConsensus` uses a
transaction, at PostgreSQL's default READ COMMITTED. So the hard behaviour of
this system is in the gaps between the calls of one handler:

* a poll reads a job, then writes it by id in one or two updates; the hub reads
  stale jobs, then writes them by id; none of these writes looks at the status
  again;
* every accepted report evaluates the job again, and evaluations of one job
  overlap;
* iterations of one validator overlap (`setInterval` does not wait), clients
  give up after 20 s while the handler they called goes on, and processes crash
  between any two calls;
* a tick of the hub works on what it read at its start and stops at the first
  failing call;
* an edit of a website or of an alert, and the score of a node, are read, changed
  and written back;
* evaluations of several regions open and resolve incidents of one website;
* a node's credentials and region change while its requests are on their way;
* the tabs of a browser share one session, which answers of earlier requests may
  clear.

What makes each component correct:

* **vote**: ties, even panels, surplus reports and reports that become visible
  out of order are counted one way, a decided job stays decided, and no later
  report of its panel outvotes the verdict;
* **job life cycle**: a node votes once per job; a job is handed only to a node
  of its panel; a completed job has the votes completion asks for; the votes do
  not contradict marks and incidents, whatever overlapped; ended jobs come alive only
  through a reader that saw them alive, and every job ends for good;
* **reputation**: no node pays for more than its counted failures; no result is
  lost from the counters;
* **scheduler**: no region is checked too often, none is forgotten;
* **SLA records**: no tick writes older counts over newer ones, nothing is counted
  that was not stored, and the current day's record catches up;
* **incidents**: no incident without its configuration, none opened for one that
  is off, a region that stays down has one, a recovered website has none;
* **credentials**: a replaced key or secret lets nothing in, a report is
  never refused for what the check found, validators that died drop from the panels;
* **session**: a session that has not expired is not ended by a failure of its
  own requests, and one that has does not stay.

## The modules

```
Consensus            the vote: operators only, declared and as the code's loops
  MajorityVote       the reports of one job coming in, and the vote after each
    ConsensusProofs  lemmas and theorems about the vote and MajorityVote
  JobContract        what a job promises to its readers: the abstract specification
  JobService         jobs, results, evaluations, incidents, the hub's time-outs;
                     implements JobContract
    MCJobService     symmetry for TLC
    JobServiceProofs theorems, with the refinement; uses ConsensusProofs
Reputation           the reputation row of one node
  ReputationProofs   theorems
Scheduler            websites and the hub's creation of jobs
  SchedulerProofs    theorems
SlaRecords           the hub's daily records
  SlaRecordsProofs   theorems
Gateway              registration, credentials, signatures, heartbeats, panels
  GatewayProofs      theorems
Incidents            alert configurations and the incidents of several regions
  IncidentsProofs    theorems
Session              logins, tokens and the session in a browser's tabs
  SessionProofs      theorems
```

**Consensus** holds `normalizeStatus` and the counting of `evaluateConsensus` in
declarative form: `Majority` is the status with most votes and, among equals, the
one voted for first, because the loop's comparison is strict and a JavaScript
`Map` lists its entries in insertion order. The loops are there too, as recursive
functions of the round (`CountLoop`, `BestLoop`, `LoopMajority`); that they
compute `Majority` is checked in `MajorityVote` and proved in `ConsensusProofs`.

The order of the rows is `Result.createdAt`, in milliseconds, stamped when the
insert starts and by either of two replicas: a row may become visible after rows
that were stamped later. So a new report of `MajorityVote` is put at any place of
the list. Counts and the decision do not depend on the order, only which of two
statuses with equal counts comes first does. `Leading` is the set of statuses with
the most votes, all that can be said without knowing the order.

**JobService** is one website in one region. `status`, `assigned`, `age` are the
columns of `Job` (`age` counts from `scheduledAt`); `results` the rows of
`Result`, in the order in which they became visible; `marked` the rows with `isConsensus`; `incidents` the
number of open incidents a job's evaluations have raised. A `loop` is one
iteration of a validator with the API handlers it calls, and its record holds
what the handler has read: the status and panel of the job, the verdict, and
inside the transaction the number of rows the reset (`rows`) and the marking
(`seen`) have covered. An evaluation reads the rows by `createdAt`, an order that
the module does not keep: its verdict is any of the statuses in `Leading`
(`TallyOutcomes`). That this is all the order can do, whatever permutation of the
rows it is, is the theorem `OrderIsImmaterial`.

| actions | code |
| --- | --- |
| `PollSelect`, `PollAssign`, `PollStart` | `GET /jobs/poll`: the candidates and `find`, the update to ASSIGNED with its panel, the update to IN_PROGRESS with the final `includes` check |
| `Report`, `Create` | the validator's check and `POST /results` to its look-up of an earlier result (409), then the insert under the unique constraint (400) |
| `EvalJob`, `EvalTally`, `EvalProgress` | `evaluateConsensus`: the job is read, then the results; too few votes on a job read as PENDING or ASSIGNED write IN_PROGRESS |
| `TxBegin`, `TxReset`, `TxMark`, `TxCommit` | the transaction: the first `updateMany` starts, gets the row locks, the second runs, then the job, the incidents and the commit |
| `Fault` | a process stops, a call fails, a transaction times out and is rolled back, or a reply is lost, between any two calls |
| `HubSchedule`, `HubReadStale`, `HubTimeOut`, `HubFault` | `scheduleDueJobs` for this website, and its failure |
| `Tick` | time |

**JobContract** is the same jobs without calls, panels and transactions: a job is
opened, votes of different nodes are added, it is decided when its votes are
enough for the panel's seats, it may expire at any time, and after its end it is reopened only by a worker
that took it up while it was open. The refinement mapping at the end of
JobService takes `results` for the votes and `PanelSize`, the number of nodes the panel
query finds, for the contract's `Seats`; it forgets the difference between PENDING,
ASSIGNED and IN_PROGRESS (`Phase`), and computes the holders from the iterations
(`TookUp`): those that have read the job as active and are still to write to it.
The contract allows the revival of ended jobs and the time-out of decided ones,
because the code does both (see "Seen while modelling").

The status FAILED of the schema is written by no code and is left out. The
update of the node's heartbeat between the insert and the evaluation has no
effect on this module (its panel takes any `MaxAssign` nodes); that of the
reputation is module Reputation. Nodes are registered and active, and their
signatures are right.

**Reputation** is the row of one node under overlapping results: `Store` is the
insert of a result, `Read`, `Create`, `Update` the calls of
`updateNodeReputation`, `Register` the upsert at the end of registration. Scores
are in tenths; the rounding of binary fractions is left out, and so is
`lastPenalizedAt`, which no code reads to decide anything.

**Scheduler** is the creation of jobs over all websites and regions
(`TickStart`, `HubSite`, `HubCreate`, `HubFault`) while websites are created,
changed and deactivated (`CreateSite`, `Put`, `Delete`, `Write`). A job is only
its age; ages beyond `Old` are not told apart, and no job at all is one of those,
since both are due. That `hub.todo` and `hub.interval` are read once, at
`TickStart`, is what the code does with `findMany` before its loop.

**SlaRecords** is `aggregateDailySLARecords`: `TickStart` is the flag and the
read of the active websites, `TickDay` the day, `TickRead` and `TickWrite` the
two calls per website and region, `TickFault` the `catch` and `finally`;
`Store`, `Toggle` and `Midnight` go on around it. The query asks for results from
the day's start on, with no end, so `since` counts exactly that; a result's
timestamp is the validator's and may be of yesterday when it arrives. That two
ticks never run together is the work of `aggregatingSLA` and no assumption of
the model: `Ticks` has two. Response times are left out.

**Gateway** is the entrance of JobService, for all nodes and regions. `row` holds
the Node rows, `recent` their order by `lastHeartbeat`, `conf` the environment
each validator was started with, `req` its request. Keys and secrets are numbered
in the order a node got them, so that a replaced one is a smaller number; a
guessed one does not occur.

| actions | code |
| --- | --- |
| `Register` | the upsert of `POST /nodes/register` (its reputation row is in Reputation) |
| `Start`, `Stop`, `Send`, `Submit`, `CheckThrows`, `Refusal` | the validators: main, the timers, the submission of a checked job, the `new URL` of `checkTcp` that throws and ends the iteration without a report, the logged 401 |
| `Errors`, `Payload`, `SignedText`, `Body` | what the two checkers put into an error message, the record the validator signs, the text it signs, the body it sends |
| `Normalized`, `Reproduced` | what the API makes of the body, and the text it signs of that |
| `NodeAuth`, `Verify` | `nodeAuthMiddleware`, the first half of `POST /results` |
| `Beat` | `POST /nodes/heartbeat`, and the same update in `POST /results` |
| `PollRead`, `PollWrite`, `PollOther` | `GET /jobs/poll`: the `activeNodes` query (`Foremost`), then the update of the job with its panel; a poll with another outcome |
| `Unwanted`, `Lose` | the 404, 400 and 409 of `POST /results`; a lost request or answer |

The panel of a job depends on the region the middleware has read, as in the code,
also when the node has been moved since.

The text that is signed is built twice. The validator signs what it has in memory
(`Payload`): its NODE_ID as the environment has it, and an error message or none. A
missing message is signed as null on both sides (`Stable`, `GoStable`), but the body
leaves it out in TypeScript and has null in Go (`Body`); the API makes both undefined,
trims the id (`Normalized`), and signs that again. Go's encoder escapes `&`, `<` and
`>`, which the parser of the body undoes and `JSON.stringify` does not do. Of an error message only
matters whether it is there and whether it holds the website's URL; of an id,
whether it has blanks around it (`Padded`). A secret with blanks does not occur:
the registration trims what it is given, and the environment is taken to hold
what the registration has stored.

**Incidents** is one website: `alert` and `open` are the rows, `down` the regions
in which it is down at present, `tx` the transactions of `evaluateConsensus`,
`edit` the PUT and DELETE handlers between their read and their write. An
evaluation is of the newest job of a region (`Evaluate`), or late, of a job from
before the region changed (`EvaluateLate`). Statements see what is committed when
they start, a new incident holds the row of its configuration against deletion
(the lock of the foreign key) and a deletion takes the incidents with it
(`onDelete: Cascade`). PUT and DELETE have no `catch`: a configuration deleted in
between rejects the handler's promise, which may stop the replica
(`EditRejected`).

**Session** is one browser with its tabs and one e-mail address: `store` is the
token in `localStorage`, `tab` each tab's page and request. `Request` is the
request interceptor, `Answer` the response interceptor together with the page
that asked, `Visit` the navigation with the dashboard's check, `Login`,
`RegisterFind`, `RegisterCreate` and `Authorize` the API (a login that fails the
checks of its body gets a 400, which clears no session).

Operators commented `Mutant:` are altered forms of the definition after them,
as a mistake in the code would alter it; nothing uses them. They show which
mistake each property would catch (`PROJECT.json`, "mutants").

## The runs

| run | instance | question and answer |
| --- | --- | --- |
| `vote` | lists of up to 6 reports of 4 statuses, each new one at any place | The loops compute `Majority` and its count. A verdict once decided is not outvoted by the later reports of its panel, and on a panel of odd size it does not move; a decision is never undone. (On a panel of two or four it can move to a status with as many votes: DOWN alone decides a panel of two, and UP may come second and stand first. The API's panels have three nodes unless the region has fewer, or the poller is not among the three most recent: then four, the poller added.) |
| `panel` | 3 nodes, 3 iterations, 1 job, reports UP, DOWN or UNKNOWN, no failure | The votes do not contradict verdict, marks and incidents, through all overlaps of polls, evaluations and transactions and with the rows read in any order; ended jobs are revived only by readers that saw them active, incidents stay below one per report and configuration, and every step is a step of JobContract or a stutter. Three is the panel size of the code; three concurrent evaluations is the most that three reports start; three different statuses are a tie that lets the order decide. DEGRADED, which the vote folds into DOWN, is in the run `vote` and in the theorems; failures and retries are in the run `lifecycle` and in the theorems. (With `Nodes` four and `Loops` two, the smallest region in which panels differ, `CompletedIsDecided` and `KeepsContract` hold as well; the theorems have regions of any size.) |
| `lifecycle` | 2 jobs, 2 nodes, 2 iterations, window 1, stale batch 1, 1 failure | Every job ends for good, and no node is counted twice (two iterations of one node may overlap, and retry). |
| `reputation` | 3 handlers, 6 results, 1 failure, score 0..6 points | Bounds of the score under stale writes, and of the counters. Six penalties reach the lower clamp. |
| `scheduler` | 2 websites, 2 regions, an interval of 2, ticks of up to 1, 2 editors, 1 failure | Jobs keep their distance, regions stay in step, a website that is off stays off through edits that overlap, and every region of a website that stays active is checked again and again. (Intervals that are edited during a tick are left to the theorem `JobsAreSpaced`: with two intervals the state space has five million states.) |
| `sla` | 2 websites, 1 result each, 2 days, 2 timer calls, 1 failure | A record counts nothing that was not stored since its day began, no tick writes older counts over newer ones, and the current day's record catches up. Larger numbers of results are left to the theorems. |
| `gateway` | 2 nodes, one with each validator, TCP checks, 2 regions, a panel of 1, 1 registration, 1 stop or loss | No request passes with a credential replaced before it was sent, none is refused for what the check found but for a URL that Go has escaped, and panels come to name running nodes only. Both nodes are seeded, so one registration replaces credentials or moves a node; a panel of one with two nodes is the smallest in which a dead node is in the way. TCP is the check with all outcomes: no error, an error without the URL, one with it (Go), and no report at all (TypeScript). The other checks, padded ids and any number of registrations are in the theorems. |
| `incidents` | 1 configuration, 2 regions, 2 transactions, 2 edits, 1 failure or late report | No orphans; a configuration that is off is quiet; a region that stays down is reported again and again though the other's recovery resolves its incident; a recovered website ends with none open. Configurations do not interact but in a transaction's failure, which is one of the failures. |
| `session` | 2 tabs, 3 sessions, 1 failed request | Which answers may end a live session, and that an expired one does not stay. Three sessions: one replaced, one stored, one on its way. |

Three runs check a sentence of the documentation and find a behaviour of the code
that contradicts it:

* `repeated_alarms`: the reports after the deciding one open the same incident
  again;
* `sla_missing`: a result stored on its day, but after the day's last aggregation
  has read the results, is in no record, for good, once midnight has passed: every
  tick writes only the day it runs on (and one that midnight overtakes counts
  results of the new day into the old one's record). The property asks for the
  results stored by the end of the day only, and not for those that arrive later;
* `go_refused`: the Go validator signs errors with `&`, `<` or `>` escaped, the API
  does not, so the report that a request to a website with an `&` in its URL has
  failed is refused. (Reports without the URL in their error, such as a bad status,
  pass.)

### Seen while modelling

Behaviours the modules have and no run is spent on:

* DEGRADED counts as DOWN in the vote, but rows are marked, and the result that
  decides about incidents is found, by the stored status: two DEGRADED reports
  close a job with no mark and no incident (the API accepts DEGRADED; the
  validators of this repository do not send it yet). `MarksAgree` and
  `MarksComplete` speak of the stored status for this reason.
* In a region of two nodes, or with a panel of four, a tie lets the order by
  `createdAt` decide, and a row that becomes visible late may be the first: the next
  evaluation then finds another verdict, marks its rows, and opens or resolves the
  incidents accordingly. Two evaluations that overlap may read two different orders
  of one tie, and rows of both statuses may stay marked. The properties allow for
  that: what they exclude is that a verdict, a mark or an incident is outvoted.
* A `NODE_ID` with blanks around it is accepted by `nodeAuthMiddleware`, which trims
  it, and signed with its blanks by the validator: every result of such a node is
  refused (`RefusedForCause`, `Padded`).
* A website checked by TCP whose URL has no scheme is never reported by a TypeScript
  validator: `new URL` throws and the iteration ends (`CheckThrows`); without other
  reports its jobs end by the hub's time-out.
* The hub marks a job TIMED_OUT that was completed after it looked; JobContract
  lets a decided job expire.
* A PUT without `isActive` that has read a website before a DELETE undoes it;
  `OffStaysOff` excepts such a PUT, and `OffIsQuiet` its like for alerts, and the
  incidents of transactions that have read the configuration while it was on.
* A panel of two is closed by its first report, since `Math.ceil(2 / 2)` is 1, and
  when that report is DOWN it opens an incident. A region with three registered
  nodes of which one runs needs two reports and gets one: until other nodes are
  registered or started its jobs all time out.
* A verdict other than DOWN in one region resolves the incidents of all regions;
  they are opened anew by the next evaluation of a region that is down.
* No code sets a node's `isActive` to false.
* The TypeScript validator takes a website for up when `response.ok`, the Go
  validator when the status is below 500; `expectedStatus` and `expectedBody` are
  read by neither.
* A wrong password entered in one tab ends the session of all tabs: the 401 of
  `POST /auth/login` passes the same interceptor.

Where an iteration or a handler never stops the system, TLC's deadlock check is
on; `MajorityVote` and `Reputation` stop at their bound of reports.

### Bounds

`MaxJobs`, `MaxResults`, `MaxReports`, `MaxSites`, `MaxDay` bound what is ever created,
`MaxRegs` the registrations, `MaxTokens` the sessions, `MaxFaults` the failures, `MaxLag` the time a tick takes, and ages saturate where
no guard can tell them apart. The small `Window` and `StaleBatch` stand for the
code's 20 and 500, so that the limits are reached. After `MaxJobs` jobs the
website of JobService is taken to be paused; the jobs there are go on.

### Fairness

`HubSpec` and `FairSpec` assume weak fairness of time and of the hub's steps:
`setInterval` starts ticks for ever, each runs to its end or fails (the `finally`
resets `running`), and a failed process is restarted. Nothing is assumed of
validators and API handlers, so `FinallySettled` holds with no validator at all
and with handlers that hang for ever, and failures of the hub are bounded in
number. In SlaRecords only the ticks are fair: midnight need not come.
`EveryRegionChecked` assumes no fairness of the edits.

In Gateway a running validator goes on sending, and the API finishes what it has
begun. The sending, and the poll that finds a PENDING job, are strongly fair: the
timers send whatever else is under way, while the model has one request of a node
at a time, and the hub goes on creating jobs. In Incidents every region is evaluated
again and again (strongly fair, because the number of transactions is bounded) and
transactions run to their end or fail; edits are not fair. In Session an open
dashboard asks again every 20 s and requests are answered; of the user nothing is
assumed.

## What is proved

All proofs are by inductive invariants, of properties that TLC has checked on the
instances above, for every value of the constants that satisfies the named assumptions
(`NodesAssumption`, `ReportsAssumption`, `MaxReportsAssumption`, `NumbersAssumption`, `BestAssumption`,
`BoundsAssumption`, `HandlersAssumption`, `SchedulerAssumption`, `SlaAssumption`,
`GatewayAssumption`, `IncidentsAssumption`, `SessionAssumption`). One hypothesis is
part of some properties, those of the verdict, the marks and the incidents of a job:
`SmallRegion`, the active nodes of the region all fit on a panel. In a larger region a
second poll of a job replaces its panel by another one, and the poller may join it as an
additional node, so more nodes may vote than the decision counted on, and outvote it.
That the job was completed with enough votes does not depend on it. The size of a
panel is arbitrary.

What is proved:

* `ConsensusProofs` is about lists of reports of any length. One status leads and has the
  most votes; a report adds one vote to its own status and none to the others
  wherever it is inserted (`MajorityType`, `Joins`, `InsertedJoins`). From these:
  `DecidedStays`, once decided always decided; `LeadersStay`, a later report outvotes none
  of the statuses that lead a decided panel; `MajorityStays`, the verdict does not move at
  all if the panel's size is odd; and `OrderIsImmaterial`, a permutation of the rows changes
  neither `Leading` nor the decision, and its majority is in `Leading`.
  `LoopsComputeMajority`: for every list the two loops of `evaluateConsensus` end with
  the leader and its count. It takes two inductions over the rounds, each with an
  invariant of its own. After `k` rounds of the first loop (`Counted`) each status
  reported has one entry with its votes among the first `k` reports, and the entries are in the
  order of those first votes; after `k` rounds of the second (`IsBest`) the entry kept
  has the greatest count of the first `k`, and is the first that has it. The prover
  cannot instantiate the library's induction theorems, which take an operator, so each
  induction is made by hand: the rounds at which the invariant fails have no least
  element. (`Rounds` and `IsRun` only wrap the set of functions a recursive definition
  chooses from, so that a run is shown to exist.)
  The last part is about the behaviours of `MajorityVote`: `LoopsAlwaysAgree`,
  `DecisionsStay` and `VerdictsAreNotOutvoted` are the properties of the run `vote`, for any
  bound on the reports.
* `JobServiceProofs` goes in layers, each an invariant on top of those before it.
  * `Inv == TypeOK /\ LoopsSound /\ OneResultPerNode`. The type invariant is not
    inductive: `PollAssign` puts the iteration's node on a panel and `Create` into a row,
    so one has to know that an iteration has a node at those points. `Sound` states what
    an iteration knows at each point. From it: `TypeCorrect`, `NoNodeVotesTwice` (the
    constraint makes the second insert fail, however many look-ups came to nothing),
    `LeasesNameTheirNode`, and the action property `RevivalsHaveStaleReaders`.
  * `PanelInv`: what an iteration has read of the panel and the votes is still worth
    something when it uses it. In a region larger than a panel the nodes it has read
    need not be the job's any more, but a panel that was written is full
    (`Full`: it holds at least the `PanelSize` nodes of the query) and is replaced by full
    ones only, lists only grow (`Grows`, with `DecidedStays`), and votes that are
    enough for a panel with the poller as an additional member are enough for one without
    (`DecidedForFewer`). From it: `CompletionIsEarned`, for regions of any size.
  * `VerdictInv`: the verdict a transaction carries, the status of a marked row and DOWN
    for a job that has opened incidents are all among those that lead the votes of now. A node
    votes once, so as long as a report may still come the list has fewer than the panel has
    nodes (`RoomLeft`), and those who led a decided list go on leading (`LeadersStay`).
    From it: `VerdictsHold`, `MarksHold`, `AlarmsAreBacked`.
  * `MarksInv`: as long as nothing failed, a row that ought to be marked and is not has an
    evaluation in progress that will mark it (`WillMark`), since the report that
    stored it evaluates after it, and a commit marks anew every row it has reset. From
    it: `NoMarkIsLost`.
  * `BoundInv`: an evaluation belongs to a report of its own, so those that have
    committed and those in progress are no more than the reports. From it:
    `IncidentsAreBounded`, for regions and panels of any size.
  * `ContractKept`: the initial states and each action map to the initial states and
    a step, or a stutter, of JobContract, action by action, for regions of any size. `PanelInv` is what makes the
    commit of a transaction the contract's decision, and `ReviveNeedsStaleReader`'s argument
    what makes a revival one by a holder.
* `ReputationProofs`. A handler writes back a score it read earlier, so a bound
  on the row alone is not inductive. The invariant states the same bound for the
  row and for every score in a handler's hands, against the failures counted by
  now; these only grow after the read. From it: `PenaltiesAreDeserved`,
  `PerfectRecordKept`, `ReputationTyped`. `ResultsCountedOnce` counts handlers: before
  there is a row nothing is lost, and afterwards those that may still lose their
  result are the ones about to create a row that is there already (`Counted`), which
  become fewer only by ending.
* `SchedulerProofs`. That a website is due is decided before its jobs are
  created, and time passes in between. `LeftWaited` carries the decision: each
  region still to be served has waited for the interval, counted to the
  beginning of the tick. From it: `JobsAreSpaced` and `SchedulerTyped`.
  `RegionsStayInStep` needs to know how far the tick is (`Halfway`): the regions it
  has served are as old as the tick, those it has left are still level with each
  other, and a website that is not there yet has no jobs (`Unborn`).
  `OffIsRespected` goes by the actions of an edit: what its write turns on was
  asked for, or was on when the edit read it and so on before.
* `SlaRecordsProofs`. A tick writes what it has read before, so that records only
  grow is not inductive. `Carried` says that the reading in a tick's hands lies
  between the record and the results, and `Alone` that the flag admits one tick,
  so nobody moves the record meanwhile. From it: `RecordsInventNothing`,
  `RecordsKeepTheirCounts`, `SlaTyped`.
* `GatewayProofs`. A credential is checked against the row of now, the property
  compares it with the row of when the request was sent. `NothingNewer` says that
  no environment and no request holds a number above the row's, for the kind of
  request it is; a registration only raises these. From it: `ReplacedStayOut`.
  `ResultsAreTaken` is `RefusedForCause` for any TypeScript and Go nodes: `TextsAgree` goes
  through the conversions of both sides, and finds the signed text again unless the id has
  blanks or Go has escaped the error; `CauseStep` carries that to the refusal. `GatewayTyped` adds that credentials are numbered by
  the registrations so far (`Numbered`) and that the order of heartbeats has each
  registered node once (`Ranked`): a heartbeat permutes it, and only a new row adds to it.
  `PanelsAreSmall` and its lemma `ForemostSize` are what JobService takes from here in its
  `Panel`: at most `MaxAssign` nodes and the poller, and all nodes of a region that
  has no more. The places the query takes are told apart by the number of the region's
  nodes before them, which are below `MaxAssign`. Since the query and the update are two calls, the
  invariant keeps what the query has found (`PollReadInv`).
* `IncidentsProofs`. A transaction commits incidents some time after it has looked
  at their configurations. `Locked` says that those it has made so far are still
  rows, since a deletion waits for the lock. From it: `IncidentsHaveAlerts`,
  `IncidentsTyped`. `OffStaysQuiet` follows a quiet configuration (`Quiet`) through every action:
  no transaction takes it up, and a request that has read it as off writes it on only
  if asked to.
* `SessionProofs`. `AnswersMean` says what an answer on its way tells: a 401 answers
  a login or a request whose token was never issued or has expired, and expired
  tokens stay expired. From it: `LiveSessionsStay`, `SessionTyped`.

Every invariant and every action property that a passing run checks is also a theorem.
Only model-checked are the liveness properties `FinallySettled`, `EveryRegionChecked`,
`TodayIsCaughtUp`, `DeadNodesDropOut`, `DownIsReported`, `RecoveryCloses` and
`ExpiredSessionLeaves`, since fairness and ENABLED are beyond the prover.

## Not modelled

* The read endpoints (lists, overview, statistics) change nothing. The response
  times of SLA records are computed within one call of a tick and left out.
* `POST /auth/refresh` is called by no client of the repository; roles, password
  hashing and the guessing of credentials are left out, and so is ownership of
  websites and alerts.
* Rendering of the pages, and the sample data of the seed.
* Deployment and observability: configuration. The number of replicas it sets
  decides which handlers overlap in the modules.
* What a check finds is an arbitrary status.
* Gateway, JobService and Incidents are not composed in one instance; the product of
  their states is out of reach. JobService has a fixed set of active nodes in its
  region and takes for its panel any `MaxAssign` of them and the poller, as
  `PanelsAreSmall` has it; nodes that register, move or are registered anew while
  a job is open are in Gateway only. Incidents takes the verdicts of jobs in any order.

## Plan

What is left is `Analytics`: the percentile's index and the limits of the
overview, against reference definitions.

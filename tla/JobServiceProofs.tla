--------------------------- MODULE JobServiceProofs ---------------------------
(***************************************************************************)
(* Theorems of JobService, for any number of nodes, iterations, jobs and   *)
(* alert configurations, and any value of the limits.                      *)
(*                                                                         *)
(* TypeOK is not inductive: PollAssign adds the node of the iteration to a *)
(* panel and Create stores it in a row, so one must know that an iteration *)
(* at those points has a node.  Sound says what an iteration knows at each *)
(* point; together with TypeOK and OneResultPerNode it is inductive.       *)
(*                                                                         *)
(* On this invariant rest the others, in this order: PanelInv (what an     *)
(* iteration has read is still worth something), VerdictInv (its verdict   *)
(* is not outvoted), MarksInv (a leading status has all its rows marked,   *)
(* or an evaluation in progress), BoundInv (evaluations against reports),  *)
(* and the refinement.                                                     *)
(* (ConsensusProofs brings the ballot of MajorityVote with it; it plays no *)
(* part here.)                                                             *)
(***************************************************************************)
EXTENDS JobService, ConsensusProofs, SequenceTheorems, TLAPS

Sound(r) ==
  /\ r.pc \in {"assign", "start", "check", "create"} => r.node \in Nodes
  /\ r.pc = "check" => r.node \in r.assigned
  /\ r.pc = "progress" => r.read \in Active

LoopsSound == \A l \in Loops : Sound(loop[l])

Inv == TypeOK /\ LoopsSound /\ OneResultPerNode

\* An idle iteration is in a sound state.
LEMMA IdleSound == Idle \in LoopState /\ Sound(Idle)
BY NumbersAssumption
   DEF Idle, LoopState, Sound, Jobs, JobStatus, SiteStatus, VerdictStatus

\* What a tally comes to: a transaction with a verdict that leads, a note of
\* progress, or nothing.
LEMMA TallyPicks ==
  ASSUME NEW l \in Loops, NEW rs, NEW r \in TallyOutcomes(l, rs)
  PROVE  \/ /\ Decided(rs, Expected(loop[l].assigned))
            /\ \E v \in Leading(rs) :
                 r = [Idle EXCEPT !.pc = "begin", !.job = loop[l].job, !.verdict = v]
            /\ r.pc = "begin" /\ r.job = loop[l].job /\ r.verdict \in Leading(rs)
         \/ /\ ~Decided(rs, Expected(loop[l].assigned))
            /\ loop[l].read \in {"ASSIGNED", "PENDING"}
            /\ r = [Idle EXCEPT !.pc = "progress", !.job = loop[l].job, !.read = loop[l].read]
            /\ r.pc = "progress" /\ r.job = loop[l].job /\ r.read = loop[l].read
         \/ ~Decided(rs, Expected(loop[l].assigned)) /\ r = Idle /\ r.pc = "idle"
<1>1. CASE Decided(rs, Expected(loop[l].assigned))
  <2>1. PICK v \in Leading(rs) :
          r = [Idle EXCEPT !.pc = "begin", !.job = loop[l].job, !.verdict = v]
    BY <1>1 DEF TallyOutcomes
  <2>2. r.pc = "begin" /\ r.job = loop[l].job /\ r.verdict = v
    BY <2>1 DEF Idle
  <2>. QED
    BY <1>1, <2>1, <2>2
<1>2. CASE /\ ~Decided(rs, Expected(loop[l].assigned))
           /\ loop[l].read \in {"ASSIGNED", "PENDING"}
  <2>1. r = [Idle EXCEPT !.pc = "progress", !.job = loop[l].job, !.read = loop[l].read]
    BY <1>2 DEF TallyOutcomes
  <2>2. r.pc = "progress" /\ r.job = loop[l].job /\ r.read = loop[l].read
    BY <2>1 DEF Idle
  <2>. QED
    BY <1>2, <2>1, <2>2
<1>3. CASE /\ ~Decided(rs, Expected(loop[l].assigned))
           /\ loop[l].read \notin {"ASSIGNED", "PENDING"}
  <2>1. r = Idle
    BY <1>3 DEF TallyOutcomes
  <2>. QED
    BY <1>3, <2>1 DEF Idle
<1>. QED
  BY <1>1, <1>2, <1>3

\* What an evaluation does after its tally is a sound state.
LEMMA TallyOutcomesSound ==
  ASSUME TypeOK, NEW l \in Loops, NEW rs, NEW r \in TallyOutcomes(l, rs)
  PROVE  r \in LoopState /\ Sound(r)
<1>1. loop[l] \in LoopState
  BY DEF TypeOK
<1>2. Idle \in LoopState /\ Sound(Idle)
  BY IdleSound
<1>3. ASSUME NEW v \in Leading(rs),
             r = [Idle EXCEPT !.pc = "begin", !.job = loop[l].job, !.verdict = v]
      PROVE  r \in LoopState /\ Sound(r)
  BY <1>1, <1>2, <1>3 DEF Leading, LoopState, Idle, Sound
<1>4. CASE /\ loop[l].read \in {"ASSIGNED", "PENDING"}
           /\ r = [Idle EXCEPT !.pc = "progress", !.job = loop[l].job, !.read = loop[l].read]
  BY <1>1, <1>2, <1>4 DEF LoopState, Idle, Sound, Active
<1>. QED
  BY <1>2, <1>3, <1>4, TallyPicks

\* A step that gives one iteration a sound state keeps all of them sound.
LEMMA LoopUpdate ==
  ASSUME TypeOK, LoopsSound, NEW l \in Loops,
         NEW r \in LoopState, Sound(r), loop' = [loop EXCEPT ![l] = r]
  PROVE  loop' \in [Loops -> LoopState] /\ LoopsSound'
<1>1. loop \in [Loops -> LoopState]
  BY DEF TypeOK
<1>2. \A m \in Loops : loop'[m] = IF m = l THEN r ELSE loop[m]
  BY <1>1
<1>3. \A m \in Loops : Sound(loop'[m])
  BY <1>2 DEF LoopsSound
<1>. QED
  BY <1>1, <1>3 DEF LoopsSound, Sound

-----------------------------------------------------------------------------
\* The steps of GET /jobs/poll keep Inv.
LEMMA PollInv ==
  ASSUME Inv, NEW l \in Loops, Poll(l)
  PROVE  Inv'
<1>. USE DEF Inv
<1>. loop[l] \in LoopState /\ Sound(loop[l])
  BY DEF TypeOK, LoopsSound
<1>. Idle \in LoopState /\ Sound(Idle)
  BY IdleSound
<1>1. ASSUME NEW n \in Nodes, PollSelect(l, n)
      PROVE  Inv'
  <2>1. PICK j \in Jobs :
          /\ Eligible(j, n)
          /\ loop' = [loop EXCEPT ![l] =
                 [Idle EXCEPT !.pc = AfterSelect(status[j]), !.node = n,
                              !.job = j, !.assigned = assigned[j]]]
    BY <1>1 DEF PollSelect
  <2>. DEFINE r == [Idle EXCEPT !.pc = AfterSelect(status[j]), !.node = n,
                                !.job = j, !.assigned = assigned[j]]
  <2>2. AfterSelect(status[j]) \in {"assign", "start", "check"}
    BY DEF AfterSelect
  <2>3. assigned[j] \in SUBSET Nodes
    BY DEF TypeOK
  <2>4. r \in LoopState
    BY <2>2, <2>3 DEF LoopState
  <2>5. AfterSelect(status[j]) = "check" => n \in assigned[j]
    BY <2>1 DEF AfterSelect, Eligible
  <2>6. Sound(r)
    BY <2>2, <2>4, <2>5 DEF Sound, LoopState, Idle
  <2>7. loop' \in [Loops -> LoopState] /\ LoopsSound'
    BY <2>1, <2>4, <2>6, LoopUpdate
  <2>. QED
    BY <1>1, <2>7 DEF PollSelect, TypeOK, OneResultPerNode, jobVars, voteVars
<1>2. CASE PollAssign(l)
  <2>. DEFINE r == [loop[l] EXCEPT !.pc = "start", !.assigned = {}]
  <2>1. r \in LoopState /\ Sound(r)
    BY <1>2 DEF PollAssign, LoopState, Sound
  <2>2. loop' = [loop EXCEPT ![l] = r]
    BY <1>2 DEF PollAssign
  <2>3. loop' \in [Loops -> LoopState] /\ LoopsSound'
    BY <2>1, <2>2, LoopUpdate
  <2>4. loop[l].node \in Nodes /\ loop[l].job \in Jobs
    BY <1>2 DEF PollAssign, Sound, LoopState
  <2>5. assigned' \in [Jobs -> SUBSET Nodes] /\ status' \in [Jobs -> JobStatus]
    BY <1>2, <2>4 DEF PollAssign, TypeOK, JobStatus, Active
  <2>. QED
    BY <1>2, <2>3, <2>5 DEF PollAssign, TypeOK, OneResultPerNode, voteVars
<1>3. CASE PollStart(l)
  <2>. DEFINE r == IF loop[l].node \in assigned[loop[l].job]
                   THEN [loop[l] EXCEPT !.pc = "check", !.assigned = assigned[loop[l].job]]
                   ELSE Idle
  <2>1. loop[l].node \in Nodes /\ loop[l].job \in Jobs
    BY <1>3 DEF PollStart, Sound, LoopState
  <2>2. assigned[loop[l].job] \in SUBSET Nodes
    BY <2>1 DEF TypeOK
  <2>3. r \in LoopState /\ Sound(r)
    BY <2>1, <2>2 DEF LoopState, Sound
  <2>4. loop' = [loop EXCEPT ![l] = r]
    BY <1>3 DEF PollStart
  <2>5. loop' \in [Loops -> LoopState] /\ LoopsSound'
    BY <2>3, <2>4, LoopUpdate
  <2>6. status' \in [Jobs -> JobStatus]
    BY <1>3, <2>1 DEF PollStart, TypeOK, JobStatus, Active
  <2>. QED
    BY <1>3, <2>5, <2>6 DEF PollStart, TypeOK, OneResultPerNode, voteVars
<1>. QED
  BY <1>1, <1>2, <1>3 DEF Poll

-----------------------------------------------------------------------------
\* The steps of POST /results up to the insert keep Inv.
LEMMA SubmitInv ==
  ASSUME Inv, NEW l \in Loops, Submit(l)
  PROVE  Inv'
<1>. USE DEF Inv
<1>. loop[l] \in LoopState /\ Sound(loop[l])
  BY DEF TypeOK, LoopsSound
<1>. Idle \in LoopState /\ Sound(Idle)
  BY IdleSound
<1>1. ASSUME NEW s \in Reports, Report(l, s)
      PROVE  Inv'
  <2>. DEFINE r == IF Reported(loop[l].job, loop[l].node)
                   THEN Idle
                   ELSE [loop[l] EXCEPT !.pc = "create", !.report = s, !.assigned = {}]
  <2>1. r \in LoopState /\ Sound(r)
    BY <1>1, ReportsAssumption DEF Report, LoopState, Sound
  <2>2. loop' = [loop EXCEPT ![l] = r]
    BY <1>1 DEF Report
  <2>3. loop' \in [Loops -> LoopState] /\ LoopsSound'
    BY <2>1, <2>2, LoopUpdate
  <2>. QED
    BY <1>1, <2>3 DEF Report, TypeOK, OneResultPerNode, jobVars, voteVars
<1>2. CASE Create(l)
  <2>. DEFINE j == loop[l].job
              n == loop[l].node
              r == IF Reported(j, n) THEN Idle ELSE [Idle EXCEPT !.pc = "eval", !.job = j]
              row == [node |-> n, status |-> loop[l].report]
  <2>1. n \in Nodes /\ j \in Jobs /\ row \in Row
    BY <1>2 DEF Create, Sound, LoopState, Row
  <2>2. r \in LoopState /\ Sound(r)
    BY <2>1 DEF LoopState, Sound
  <2>3. loop' = [loop EXCEPT ![l] = r]
    BY <1>2 DEF Create
  <2>4. loop' \in [Loops -> LoopState] /\ LoopsSound'
    BY <2>2, <2>3, LoopUpdate
  <2>5. results[j] \in Seq(Row)
    BY <2>1 DEF TypeOK
  <2>6. results' \in [Jobs -> Seq(Row)] /\ OneResultPerNode'
    <3>1. CASE Reported(j, n)
      BY <1>2, <3>1 DEF Create, TypeOK, OneResultPerNode
    <3>2. CASE ~Reported(j, n)
      <4>1. results' = [results EXCEPT ![j] = Append(@, row)]
        BY <1>2, <3>2 DEF Create
      <4>2. results' \in [Jobs -> Seq(Row)]
        BY <2>1, <2>5, <4>1 DEF TypeOK
      <4>3. results'[j] = Append(results[j], row)
        BY <2>1, <4>1 DEF TypeOK
      <4>4. /\ DOMAIN results[j] = 1..Len(results[j])
            /\ DOMAIN results'[j] = 1..(Len(results[j]) + 1)
            /\ \A i \in 1..Len(results[j]) : results'[j][i] = results[j][i]
            /\ results'[j][Len(results[j]) + 1] = row
        BY <2>1, <2>5, <4>3
      <4>5. \A i \in DOMAIN results[j] : results[j][i].node # n
        BY <3>2 DEF Reported
      <4>6. Len(results[j]) \in Nat
        BY <2>5
      <4>7. \A i, k \in DOMAIN results[j] :
              results[j][i].node = results[j][k].node => i = k
        BY <2>1 DEF OneResultPerNode
      <4>8. ASSUME NEW i \in DOMAIN results'[j], NEW k \in DOMAIN results'[j],
                   results'[j][i].node = results'[j][k].node
            PROVE  i = k
        <5>. DEFINE last == Len(results[j]) + 1
        <5>1. i \in 1..last /\ k \in 1..last
          BY <4>4
        <5>2. \A h \in 1..last :
                h # last => h \in DOMAIN results[j] /\ results'[j][h] = results[j][h]
          BY <4>4, <4>6
        <5>3. results'[j][last].node = n
          BY <4>4
        <5>4. CASE i # last /\ k # last
          BY <4>7, <4>8, <5>1, <5>2, <5>4
        <5>5. CASE (i = last) # (k = last)
          BY <4>5, <4>8, <5>1, <5>2, <5>3, <5>5
        <5>. QED
          BY <5>4, <5>5
      <4>9. \A h \in Jobs \ {j} : results'[h] = results[h]
        BY <2>1, <4>1 DEF TypeOK
      <4>. QED
        BY <4>2, <4>8, <4>9 DEF OneResultPerNode
    <3>. QED
      BY <3>1, <3>2
  <2>. QED
    BY <1>2, <2>4, <2>6 DEF Create, TypeOK, jobVars
<1>. QED
  BY <1>1, <1>2 DEF Submit

\* The steps of evaluateConsensus before its transaction keep Inv.
LEMMA EvaluateInv ==
  ASSUME Inv, NEW l \in Loops, Evaluate(l)
  PROVE  Inv'
<1>. USE DEF Inv
<1>. loop[l] \in LoopState /\ Sound(loop[l])
  BY DEF TypeOK, LoopsSound
<1>. Idle \in LoopState /\ Sound(Idle)
  BY IdleSound
<1>. loop[l].job \in Jobs
  BY DEF LoopState
<1>1. CASE EvalJob(l)
  <2>. DEFINE r == [loop[l] EXCEPT !.pc = "tally", !.read = status[loop[l].job],
                                   !.assigned = assigned[loop[l].job]]
  <2>1. status[loop[l].job] \in JobStatus /\ assigned[loop[l].job] \in SUBSET Nodes
    BY DEF TypeOK
  <2>2. r \in LoopState /\ Sound(r)
    BY <2>1 DEF LoopState, Sound
  <2>3. loop' = [loop EXCEPT ![l] = r]
    BY <1>1 DEF EvalJob
  <2>4. loop' \in [Loops -> LoopState] /\ LoopsSound'
    BY <2>2, <2>3, LoopUpdate
  <2>. QED
    BY <1>1, <2>4 DEF EvalJob, TypeOK, OneResultPerNode, jobVars, voteVars
<1>2. CASE EvalTally(l)
  <2>1. PICK r \in TallyOutcomes(l, results[loop[l].job]) : loop' = [loop EXCEPT ![l] = r]
    BY <1>2 DEF EvalTally
  <2>2. r \in LoopState /\ Sound(r)
    BY TallyOutcomesSound
  <2>3. loop' \in [Loops -> LoopState] /\ LoopsSound'
    BY <2>1, <2>2, LoopUpdate
  <2>. QED
    BY <1>2, <2>3 DEF EvalTally, TypeOK, OneResultPerNode, jobVars, voteVars
<1>3. CASE EvalProgress(l)
  <2>1. loop' = [loop EXCEPT ![l] = Idle]
    BY <1>3 DEF EvalProgress
  <2>2. loop' \in [Loops -> LoopState] /\ LoopsSound'
    BY <2>1, LoopUpdate
  <2>3. status' \in [Jobs -> JobStatus]
    BY <1>3 DEF EvalProgress, TypeOK, JobStatus, Active
  <2>. QED
    BY <1>3, <2>2, <2>3 DEF EvalProgress, TypeOK, OneResultPerNode, voteVars
<1>. QED
  BY <1>1, <1>2, <1>3 DEF Evaluate

\* The statements of its transaction keep Inv.
LEMMA TransactInv ==
  ASSUME Inv, NEW l \in Loops, Transact(l)
  PROVE  Inv'
<1>. USE DEF Inv
<1>. loop[l] \in LoopState /\ Sound(loop[l])
  BY DEF TypeOK, LoopsSound
<1>. Idle \in LoopState /\ Sound(Idle)
  BY IdleSound
<1>. loop[l].job \in Jobs
  BY DEF LoopState
<1>. results[loop[l].job] \in Seq(Row) /\ Len(results[loop[l].job]) \in Nat
  BY DEF TypeOK
<1>1. CASE TxBegin(l)
  <2>. DEFINE r == [loop[l] EXCEPT !.pc = "reset", !.rows = Len(results[loop[l].job])]
  <2>1. r \in LoopState /\ Sound(r)
    BY DEF LoopState, Sound
  <2>2. loop' = [loop EXCEPT ![l] = r]
    BY <1>1 DEF TxBegin
  <2>3. loop' \in [Loops -> LoopState] /\ LoopsSound'
    BY <2>1, <2>2, LoopUpdate
  <2>. QED
    BY <1>1, <2>3 DEF TxBegin, TypeOK, OneResultPerNode, jobVars, voteVars
<1>2. CASE TxReset(l)
  <2>. DEFINE r == [loop[l] EXCEPT !.pc = "mark"]
  <2>1. r \in LoopState /\ Sound(r)
    BY DEF LoopState, Sound
  <2>2. loop' = [loop EXCEPT ![l] = r]
    BY <1>2 DEF TxReset
  <2>3. loop' \in [Loops -> LoopState] /\ LoopsSound'
    BY <2>1, <2>2, LoopUpdate
  <2>. QED
    BY <1>2, <2>3 DEF TxReset, TypeOK, OneResultPerNode, jobVars, voteVars
<1>3. CASE TxMark(l)
  <2>. DEFINE r == [loop[l] EXCEPT !.pc = "commit", !.seen = Len(results[loop[l].job])]
  <2>1. r \in LoopState /\ Sound(r)
    BY DEF LoopState, Sound
  <2>2. loop' = [loop EXCEPT ![l] = r]
    BY <1>3 DEF TxMark
  <2>3. loop' \in [Loops -> LoopState] /\ LoopsSound'
    BY <2>1, <2>2, LoopUpdate
  <2>. QED
    BY <1>3, <2>3 DEF TxMark, TypeOK, OneResultPerNode, jobVars, voteVars
<1>4. CASE TxCommit(l)
  <2>. DEFINE j == loop[l].job
              v == loop[l].verdict
  <2>1. loop' = [loop EXCEPT ![l] = Idle]
    BY <1>4 DEF TxCommit
  <2>2. loop' \in [Loops -> LoopState] /\ LoopsSound'
    BY <2>1, LoopUpdate
  <2>3. status' \in [Jobs -> JobStatus]
    BY <1>4 DEF TxCommit, TypeOK, JobStatus, Terminal
  <2>4. Stored(j, v) \subseteq Nat \ {0}
    BY DEF Stored
  <2>5. marked' \in [Jobs -> SUBSET (Nat \ {0})]
    BY <1>4, <2>4 DEF TxCommit, TypeOK
  <2>6. IncidentsAfter(j, v) \in [Jobs -> Nat]
    <3>1. CASE Stored(j, v) = {}
      BY <3>1 DEF IncidentsAfter, TypeOK
    <3>2. CASE Stored(j, v) # {} /\ v = "DOWN"
      <4>1. IncidentsAfter(j, v) = [incidents EXCEPT ![j] = @ + Alerts]
        BY <3>2 DEF IncidentsAfter
      <4>. QED
        BY <4>1, NumbersAssumption DEF TypeOK
    <3>3. CASE Stored(j, v) # {} /\ v # "DOWN"
      BY <3>3 DEF IncidentsAfter
    <3>. QED
      BY <3>1, <3>2, <3>3
  <2>7. incidents' \in [Jobs -> Nat]
    BY <1>4, <2>6 DEF TxCommit
  <2>. QED
    BY <1>4, <2>2, <2>3, <2>5, <2>7 DEF TxCommit, TypeOK, OneResultPerNode
<1>. QED
  BY <1>1, <1>2, <1>3, <1>4 DEF Transact

-----------------------------------------------------------------------------
\* A failure, a step of the hub and the passing of time keep Inv.
LEMMA EnvironmentInv ==
  ASSUME Inv, (\E l \in Loops : Fault(l)) \/ Hub \/ Tick
  PROVE  Inv'
<1>. USE DEF Inv
<1>1. ASSUME NEW l \in Loops, Fault(l)
      PROVE  Inv'
  <2>1. Idle \in LoopState /\ Sound(Idle)
    BY IdleSound
  <2>2. loop' = [loop EXCEPT ![l] = Idle]
    BY <1>1 DEF Fault
  <2>3. loop' \in [Loops -> LoopState] /\ LoopsSound'
    BY <2>1, <2>2, LoopUpdate
  <2>4. faults' \in 0..MaxFaults
    BY <1>1, NumbersAssumption DEF Fault, TypeOK
  <2>. QED
    BY <1>1, <2>3, <2>4 DEF Fault, TypeOK, OneResultPerNode, jobVars, voteVars
<1>2. CASE HubSchedule
  <2>1. status' \in [Jobs -> JobStatus]
    BY <1>2 DEF HubSchedule, TypeOK, JobStatus, Active
  <2>2. hub' \in [pc : {"ready", "scan", "expire"}, stale : SUBSET Jobs]
    BY <1>2 DEF HubSchedule, TypeOK
  <2>. QED
    BY <1>2, <2>1, <2>2 DEF HubSchedule, TypeOK, LoopsSound, Sound, OneResultPerNode, voteVars
<1>3. CASE HubReadStale
  <2>1. hub' \in [pc : {"ready", "scan", "expire"}, stale : SUBSET Jobs]
    BY <1>3 DEF HubReadStale, StaleJobs
  <2>. QED
    BY <1>3, <2>1 DEF HubReadStale, TypeOK, LoopsSound, Sound, OneResultPerNode,
                      jobVars, voteVars
<1>4. CASE HubTimeOut
  <2>1. status' \in [Jobs -> JobStatus]
    BY <1>4 DEF HubTimeOut, TypeOK, JobStatus, Terminal
  <2>2. hub' \in [pc : {"ready", "scan", "expire"}, stale : SUBSET Jobs]
    BY <1>4 DEF HubTimeOut
  <2>. QED
    BY <1>4, <2>1, <2>2 DEF HubTimeOut, TypeOK, LoopsSound, Sound, OneResultPerNode, voteVars
<1>5. CASE HubFault
  <2>1. hub' \in [pc : {"ready", "scan", "expire"}, stale : SUBSET Jobs]
    BY <1>5 DEF HubFault
  <2>2. faults' \in 0..MaxFaults
    BY <1>5, NumbersAssumption DEF HubFault, TypeOK
  <2>. QED
    BY <1>5, <2>1, <2>2 DEF HubFault, TypeOK, LoopsSound, Sound, OneResultPerNode,
                            jobVars, voteVars
<1>6. CASE Tick
  <2>1. MaxAge \in Nat
    BY NumbersAssumption DEF MaxAge
  <2>2. age' \in [Jobs -> 0..MaxAge]
    BY <1>6, <2>1 DEF Tick, TypeOK
  <2>. QED
    BY <1>6, <2>2 DEF Tick, TypeOK, LoopsSound, Sound, OneResultPerNode, voteVars
<1>. QED
  BY <1>1, <1>2, <1>3, <1>4, <1>5, <1>6 DEF Hub

LEMMA InitInv == Init => Inv
<1>. SUFFICES ASSUME Init PROVE Inv
  OBVIOUS
<1>1. MaxAge \in Nat
  BY NumbersAssumption DEF MaxAge
<1>2. TypeOK
  BY <1>1, IdleSound, NumbersAssumption DEF Init, TypeOK, JobStatus
<1>3. LoopsSound
  BY IdleSound DEF Init, LoopsSound
<1>4. OneResultPerNode
  BY DEF Init, OneResultPerNode
<1>. QED
  BY <1>2, <1>3, <1>4 DEF Inv

LEMMA NextInv == Inv /\ [Next]_vars => Inv'
<1>. SUFFICES ASSUME Inv, [Next]_vars PROVE Inv'
  OBVIOUS
<1>1. CASE Next
  BY <1>1, PollInv, SubmitInv, EvaluateInv, TransactInv, EnvironmentInv DEF Next
<1>2. CASE UNCHANGED vars
  BY <1>2 DEF vars, jobVars, voteVars, Inv, TypeOK, LoopsSound, Sound, OneResultPerNode
<1>. QED
  BY <1>1, <1>2

LEMMA SpecInv == Spec => []Inv
<1>. QED
  BY InitInv, NextInv, PTL DEF Spec

-----------------------------------------------------------------------------
\* Every variable keeps its type: in particular every row names a real node,
\* a transaction's verdict is one of the three a vote can come to, and no
\* number of incidents is resolved below zero.
THEOREM TypeCorrect == Spec => []TypeOK
<1>1. Inv => TypeOK
  BY DEF Inv
<1>. QED
  BY <1>1, SpecInv, PTL

\* However many iterations of a node overlap, fail and retry, a job holds at
\* most one result of it.
THEOREM NoNodeVotesTwice == Spec => []OneResultPerNode
<1>1. Inv => OneResultPerNode
  BY DEF Inv
<1>. QED
  BY <1>1, SpecInv, PTL

\* A node is handed a job only with a panel that names it, although other
\* polls may replace the panel between the handler's two updates.
THEOREM LeasesNameTheirNode == Spec => []LeaseNamesNode
<1>1. Inv => LeaseNamesNode
  BY DEF Inv, LoopsSound, Sound, LeaseNamesNode
<1>. QED
  BY <1>1, SpecInv, PTL

\* Only an iteration that read a job as active can make it active again after
\* it has ended; the hub and the committing evaluations never do.
THEOREM RevivalsHaveStaleReaders == Spec => ReviveNeedsStaleReader
<1>. DEFINE Step == \A j \in Jobs :
              status[j] \in Terminal /\ (\A l \in Loops : ~ReadItActive(l, j))
              => status'[j] \in Terminal
<1>1. Inv /\ [Next]_vars => [Step]_vars
  <2>. SUFFICES ASSUME Inv, Next, NEW j \in Jobs, status[j] \in Terminal,
                       \A l \in Loops : ~ReadItActive(l, j)
                PROVE  status'[j] \in Terminal
    BY DEF vars
  <2>. status \in [Jobs -> JobStatus] /\ loop \in [Loops -> LoopState]
    BY DEF Inv, TypeOK
  <2>1. ASSUME NEW l \in Loops, Poll(l)
        PROVE  status'[j] \in Terminal
    <3>1. CASE PollAssign(l) \/ PollStart(l)
      <4>1. loop[l].job # j
        BY <3>1 DEF PollAssign, PollStart, ReadItActive
      <4>. QED
        BY <3>1, <4>1 DEF PollAssign, PollStart
    <3>2. CASE \E n \in Nodes : PollSelect(l, n)
      BY <3>2 DEF PollSelect, jobVars
    <3>. QED
      BY <2>1, <3>1, <3>2 DEF Poll
  <2>2. ASSUME NEW l \in Loops, Submit(l)
        PROVE  status'[j] \in Terminal
    BY <2>2 DEF Submit, Report, Create, jobVars
  <2>3. ASSUME NEW l \in Loops, Evaluate(l)
        PROVE  status'[j] \in Terminal
    <3>1. CASE EvalProgress(l)
      <4>1. loop[l].job # j
        BY <3>1 DEF EvalProgress, ReadItActive, Inv, LoopsSound, Sound
      <4>. QED
        BY <3>1, <4>1 DEF EvalProgress
    <3>2. CASE EvalJob(l) \/ EvalTally(l)
      BY <3>2 DEF EvalJob, EvalTally, jobVars
    <3>. QED
      BY <2>3, <3>1, <3>2 DEF Evaluate
  <2>4. ASSUME NEW l \in Loops, Transact(l)
        PROVE  status'[j] \in Terminal
    BY <2>4 DEF Transact, TxBegin, TxReset, TxMark, TxCommit, jobVars, Terminal
  <2>5. CASE (\E l \in Loops : Fault(l)) \/ HubReadStale \/ HubFault \/ Tick
    BY <2>5 DEF Fault, HubReadStale, HubFault, Tick, jobVars
  <2>6. CASE HubSchedule
    BY <2>6 DEF HubSchedule, Created, Terminal
  <2>7. CASE HubTimeOut
    BY <2>7 DEF HubTimeOut, Terminal
  <2>. QED
    BY <2>1, <2>2, <2>3, <2>4, <2>5, <2>6, <2>7 DEF Next, Hub
<1>2. Spec => []Inv
  BY SpecInv
<1>. QED
  BY <1>1, <1>2, PTL DEF Spec, ReviveNeedsStaleReader
-----------------------------------------------------------------------------
(***************************************************************************)
(* Panels, in a region of any size.                                        *)
(*                                                                         *)
(* CompletedIsDecided is not inductive: a commit completes the job on the  *)
(* strength of a tally made several steps before, with a panel read before *)
(* that, which another poll may have replaced since.  PanelInv says what   *)
(* each iteration knows of its job from then on, and Grows that no step of *)
(* anyone takes it away: a panel that is set may be replaced, but only by  *)
(* one that is Full again, a job that exists stays, and results are only   *)
(* added, one per node; so, by DecidedStays, a decided job stays decided.  *)
(* What decides a panel decides the smaller ones (DecidedForFewer), so all *)
(* of this can be said for the smallest there are.                         *)
(***************************************************************************)
N == PanelSize

\* A panel that a poll has written: PanelSize nodes, the poller among them or
\* added to them.
Full(T) == T # {} /\ Cardinality(T) >= N

\* An iteration on its way to a commit; one that has decided to.
Evaluates == {"eval", "tally", "begin", "reset", "mark", "commit"}
InTransaction == {"begin", "reset", "mark", "commit"}

\* What an iteration r may rely on.
LoopKnows(r) ==
  /\ r.pc # "idle" => status[r.job] # "NONE"
  /\ r.pc \notin {"idle", "assign"} => Full(assigned[r.job])
  /\ r.pc = "tally" => Full(r.assigned)
  /\ r.pc \in Evaluates => results[r.job] # <<>>
  /\ r.pc \in InTransaction => Decided(results[r.job], N)

\* What holds of every job.
JobKeeps(j) ==
  /\ status[j] \in {"ASSIGNED", "IN_PROGRESS", "COMPLETED"} => Full(assigned[j])
  /\ status[j] = "COMPLETED" => results[j] # <<>> /\ Decided(results[j], N)

PanelInv ==
  /\ \A l \in Loops : LoopKnows(loop[l])
  /\ \A j \in Jobs : JobKeeps(j)
  /\ hub.stale \subseteq Created

\* What every step keeps of a job: a full panel, that it exists, its results.
Grows ==
  /\ \A j \in Jobs : assigned'[j] = assigned[j] \/ Full(assigned'[j])
  /\ \A j \in Jobs : status[j] # "NONE" => status'[j] # "NONE"
  /\ \A j \in Jobs :
       \/ results'[j] = results[j]
       \/ \E row \in Row : ~Reported(j, row.node) /\ results'[j] = Append(results[j], row)

\* The reports of a job have a status, and the panel has a size.
LEMMA RowsVote == HaveStatus(Row) /\ N \in Nat
<1>1. Cardinality(Nodes) \in Nat
  BY NodesAssumption, FS_CardinalityType
<1>2. N \in Nat
  BY <1>1, NumbersAssumption DEF N, PanelSize
<1>3. HaveStatus(Row)
  BY DEF HaveStatus, Row
<1>. QED
  BY <1>2, <1>3

\* The nodes a poll finds, with the poller, are a full panel.
LEMMA PanelFull ==
  ASSUME NEW T, Panel(T), NEW n \in Nodes
  PROVE  Full(T \cup {n})
<1>1. T \subseteq Nodes /\ Cardinality(T) = N
  BY DEF Panel, N
<1>2. IsFiniteSet(T) /\ IsFiniteSet(T \cup {n})
  BY <1>1, NodesAssumption, FS_Subset
<1>3. Cardinality(T \cup {n}) = Cardinality(T) \/ Cardinality(T \cup {n}) = Cardinality(T) + 1
  BY <1>2, FS_AddElement
<1>. QED
  BY <1>1, <1>3, RowsVote DEF Full

\* In a small region there is but one full panel: all nodes.
LEMMA WholePanel ==
  ASSUME SmallRegion
  PROVE  /\ N = Cardinality(Nodes) /\ N # 0
         /\ \A T \in SUBSET Nodes : Full(T) => T = Nodes
<1>1. N = Cardinality(Nodes)
  BY DEF SmallRegion, PanelSize, N
<1>2. N # 0
  BY <1>1, NodesAssumption, FS_EmptySet DEF SmallRegion
<1>3. ASSUME NEW T \in SUBSET Nodes, Full(T)
      PROVE  T = Nodes
  <2>1. Cardinality(T) <= N /\ Cardinality(T) \in Nat
    BY <1>1, NodesAssumption, FS_Subset, FS_CardinalityType
  <2>2. Cardinality(T) = Cardinality(Nodes)
    BY <1>1, <1>3, <2>1, RowsVote DEF Full
  <2>. QED
    BY <2>2, NodesAssumption, FS_Subset
<1>. QED
  BY <1>1, <1>2, <1>3

\* A full panel, as evaluateConsensus sizes it, is not smaller than the smallest.
LEMMA FullExpects ==
  ASSUME NEW T \in SUBSET Nodes, Full(T)
  PROVE  Expected(T) \in Nat /\ Expected(T) >= N
<1>1. Cardinality(T) \in Nat
  BY NodesAssumption, FS_Subset, FS_CardinalityType
<1>. QED
  BY <1>1 DEF Expected, Full

\* Votes that decide a panel decide any smaller one.
LEMMA DecidedForFewer ==
  ASSUME NEW rs \in Seq(Row), NEW m \in Nat, NEW n \in Nat, m <= n, Decided(rs, n)
  PROVE  Decided(rs, m)
<1>1. Count(rs, Majority(rs)) \in Nat /\ Len(rs) \in Nat
  BY VotesFinite
<1>2. Quorum(m) <= Quorum(n) /\ Quorum(m) \in Nat /\ Quorum(n) \in Nat
  BY DEF Quorum
<1>3. CASE Count(rs, Majority(rs)) >= Quorum(n)
  BY <1>1, <1>2, <1>3 DEF Decided
<1>4. CASE Len(rs) >= n
  BY <1>1, <1>4 DEF Decided
<1>. QED
  BY <1>3, <1>4 DEF Decided

\* No step of any process takes from a job what it has.
LEMMA StepGrows ==
  ASSUME Inv, [Next]_vars
  PROVE  Grows
<1>. status \in [Jobs -> JobStatus] /\ assigned \in [Jobs -> SUBSET Nodes]
     /\ results \in [Jobs -> Seq(Row)] /\ hub.stale \subseteq Jobs
  BY DEF Inv, TypeOK
<1>. \A l \in Loops : loop[l] \in LoopState /\ Sound(loop[l])
  BY DEF Inv, TypeOK, LoopsSound
<1>1. ASSUME NEW l \in Loops, PollAssign(l)
      PROVE  Grows
  <2>1. PICK T \in SUBSET Nodes :
          Panel(T) /\ assigned' = [assigned EXCEPT ![loop[l].job] = T \cup {loop[l].node}]
    BY <1>1 DEF PollAssign
  <2>2. loop[l].node \in Nodes
    BY <1>1 DEF PollAssign, Sound
  <2>3. Full(T \cup {loop[l].node})
    BY <2>1, <2>2, PanelFull
  <2>. QED
    BY <1>1, <2>1, <2>3 DEF PollAssign, Grows, voteVars
<1>2. ASSUME NEW l \in Loops, Create(l)
      PROVE  Grows
  <2>. DEFINE row == [node |-> loop[l].node, status |-> loop[l].report]
  <2>1. row \in Row
    BY <1>2 DEF Create, Sound, LoopState, Row
  <2>. QED
    BY <1>2, <2>1 DEF Create, Grows, jobVars
<1>3. ASSUME NEW l \in Loops, PollStart(l) \/ EvalProgress(l) \/ TxCommit(l)
      PROVE  Grows
  BY <1>3 DEF PollStart, EvalProgress, TxCommit, Grows, voteVars
<1>4. ASSUME NEW l \in Loops,
             \/ \E n \in Nodes : PollSelect(l, n)
             \/ \E s \in Reports : Report(l, s)
             \/ EvalJob(l) \/ EvalTally(l) \/ TxBegin(l) \/ TxReset(l) \/ TxMark(l) \/ Fault(l)
      PROVE  Grows
  BY <1>4 DEF PollSelect, Report, EvalJob, EvalTally, TxBegin, TxReset, TxMark, Fault,
              Grows, jobVars, voteVars
<1>5. CASE HubSchedule
  BY <1>5 DEF HubSchedule, Grows, Created, voteVars
<1>6. CASE HubTimeOut
  BY <1>6 DEF HubTimeOut, Grows, voteVars
<1>7. CASE HubReadStale \/ HubFault \/ Tick \/ UNCHANGED vars
  BY <1>7 DEF HubReadStale, HubFault, Tick, vars, Grows, jobVars, voteVars
<1>. QED
  BY <1>1, <1>2, <1>3, <1>4, <1>5, <1>6, <1>7
     DEF Next, Poll, Submit, Evaluate, Transact, Hub

\* So a decided job stays decided.
LEMMA GrowsDecided ==
  ASSUME Inv, Grows, NEW j \in Jobs
  PROVE  /\ Decided(results[j], N) => Decided(results'[j], N)
         /\ results[j] # <<>> => results'[j] # <<>>
<1>1. results[j] \in Seq(Row)
  BY DEF Inv, TypeOK
<1>2. CASE results'[j] = results[j]
  BY <1>2
<1>3. ASSUME NEW row \in Row, results'[j] = Append(results[j], row)
      PROVE  /\ Decided(results[j], N) => Decided(results'[j], N)
             /\ results'[j] # <<>>
  <2>1. Decided(results[j], N) => Decided(Append(results[j], row), N)
    BY <1>1, RowsVote, AppendedJoins, DecidedStays
  <2>. QED
    BY <1>1, <1>3, <2>1
<1>. QED
  BY <1>2, <1>3 DEF Grows

\* What an iteration knows of its job remains true while it waits.
LEMMA KnowledgeStays ==
  ASSUME Inv, Grows, NEW l \in Loops, loop'[l] = loop[l], LoopKnows(loop[l])
  PROVE  LoopKnows(loop[l])'
<1>. DEFINE j == loop[l].job
<1>1. j \in Jobs
  BY DEF Inv, TypeOK, LoopState
<1>2. /\ Decided(results[j], N) => Decided(results'[j], N)
      /\ results[j] # <<>> => results'[j] # <<>>
  BY <1>1, GrowsDecided
<1>3. status[j] # "NONE" => status'[j] # "NONE"
  BY <1>1 DEF Grows
<1>4. Full(assigned[j]) => Full(assigned'[j])
  BY <1>1 DEF Grows
<1>. QED
  BY <1>2, <1>3, <1>4 DEF LoopKnows, Full, N

\* A job whose status does not change keeps what it has.
LEMMA JobStays ==
  ASSUME Inv, Grows, NEW j \in Jobs, status'[j] = status[j], JobKeeps(j)
  PROVE  JobKeeps(j)'
<1>1. /\ Decided(results[j], N) => Decided(results'[j], N)
      /\ results[j] # <<>> => results'[j] # <<>>
  BY GrowsDecided
<1>2. Full(assigned[j]) => Full(assigned'[j])
  BY DEF Grows
<1>. QED
  BY <1>1, <1>2 DEF JobKeeps, Full, N

\* A job with a new row has a row.
LEMMA NewRowThere ==
  ASSUME Inv, NEW j \in Jobs, NEW row \in Row, results'[j] = Append(results[j], row)
  PROVE  results'[j] # <<>>
<1>1. results[j] \in Seq(Row)
  BY DEF Inv, TypeOK
<1>. QED
  BY <1>1

\* The insert of a result fails, or adds a row of a node that had none.
LEMMA CreateStep ==
  ASSUME Inv, NEW l \in Loops, Create(l)
  PROVE  LET j == loop[l].job IN
         \/ loop'[l] = Idle /\ results' = results
         \/ /\ loop'[l].pc = "eval" /\ loop'[l].job = j
            /\ \E row \in Row : /\ ~Reported(j, row.node)
                               /\ results' = [results EXCEPT ![j] = Append(@, row)]
<1>. DEFINE j == loop[l].job
            row == [node |-> loop[l].node, status |-> loop[l].report]
<1>1. loop \in [Loops -> LoopState] /\ loop[l] \in LoopState /\ Sound(loop[l])
  BY DEF Inv, TypeOK, LoopsSound
<1>2. CASE Reported(j, loop[l].node)
  BY <1>1, <1>2 DEF Create
<1>3. CASE ~Reported(j, loop[l].node)
  <2>1. loop' = [loop EXCEPT ![l] = [Idle EXCEPT !.pc = "eval", !.job = j]]
    BY <1>3 DEF Create
  <2>2. loop'[l].pc = "eval" /\ loop'[l].job = j
    BY <1>1, <2>1 DEF Idle
  <2>3. row \in Row /\ ~Reported(j, row.node)
    BY <1>1, <1>3 DEF Create, Sound, LoopState, Row
  <2>4. results' = [results EXCEPT ![j] = Append(@, row)]
    BY <1>3 DEF Create
  <2>. QED
    BY <2>2, <2>3, <2>4
<1>. QED
  BY <1>2, <1>3

\* Where an iteration goes no further, it knows nothing.
LEMMA IdleKnows ==
  ASSUME NEW l \in Loops, loop'[l] = Idle
  PROVE  LoopKnows(loop[l])'
BY DEF LoopKnows, Idle, Evaluates, InTransaction

\* A step of one iteration leaves the others with what they know.
LEMMA OthersKnow ==
  ASSUME Inv, PanelInv, Grows, NEW l \in Loops,
         \A m \in Loops \ {l} : loop'[m] = loop[m], LoopKnows(loop[l])'
  PROVE  (\A m \in Loops : LoopKnows(loop[m]))'
<1>1. \A m \in Loops \ {l} : LoopKnows(loop[m])'
  BY KnowledgeStays DEF PanelInv
<1>. QED
  BY <1>1

\* The steps of GET /jobs/poll keep PanelInv.
LEMMA PollPanel ==
  ASSUME Inv, PanelInv, NEW l \in Loops, Poll(l), Grows
  PROVE  PanelInv'
<1>. loop \in [Loops -> LoopState] /\ status \in [Jobs -> JobStatus]
     /\ assigned \in [Jobs -> SUBSET Nodes] /\ hub.stale \subseteq Jobs
     /\ Sound(loop[l]) /\ LoopKnows(loop[l])
  BY DEF Inv, TypeOK, LoopsSound, PanelInv
<1>. loop[l].job \in Jobs
  BY DEF LoopState
<1>0. hub' = hub /\ hub.stale \subseteq Created'
  BY DEF Poll, PollSelect, PollAssign, PollStart, PanelInv, Created, Grows
<1>1. ASSUME NEW n \in Nodes, PollSelect(l, n)
      PROVE  PanelInv'
  <2>1. PICK j \in Jobs :
          /\ Eligible(j, n)
          /\ loop' = [loop EXCEPT ![l] =
                 [Idle EXCEPT !.pc = AfterSelect(status[j]), !.node = n,
                              !.job = j, !.assigned = assigned[j]]]
    BY <1>1 DEF PollSelect
  <2>2. /\ loop'[l].pc = AfterSelect(status[j])
        /\ loop'[l].job = j
        /\ \A m \in Loops \ {l} : loop'[m] = loop[m]
    BY <2>1 DEF Idle
  <2>3. status[j] \in Active /\ JobKeeps(j)
    BY <2>1 DEF Eligible, Candidate, PanelInv
  <2>4. LoopKnows(loop[l])'
    <3>1. status'[j] # "NONE" /\ (status[j] # "PENDING" => Full(assigned'[j]))
      BY <2>3, <1>1 DEF PollSelect, jobVars, Active, JobKeeps
    <3>2. \/ AfterSelect(status[j]) = "assign"
          \/ AfterSelect(status[j]) \in {"start", "check"} /\ status[j] # "PENDING"
      BY DEF AfterSelect
    <3>. QED
      BY <2>2, <3>1, <3>2 DEF LoopKnows, Evaluates, InTransaction
  <2>5. \A k \in Jobs : JobKeeps(k)'
    BY <1>1, JobStays DEF PollSelect, jobVars, PanelInv
  <2>. QED
    BY <1>0, <2>2, <2>4, <2>5, OthersKnow DEF PanelInv
<1>2. CASE PollAssign(l)
  <2>1. PICK T \in SUBSET Nodes :
          Panel(T) /\ assigned' = [assigned EXCEPT ![loop[l].job] = T \cup {loop[l].node}]
    BY <1>2 DEF PollAssign
  <2>2. loop[l].node \in Nodes
    BY <1>2 DEF PollAssign, Sound
  <2>3. Full(assigned'[loop[l].job])
    BY <2>1, <2>2, PanelFull
  <2>4. /\ loop'[l].pc = "start" /\ loop'[l].job = loop[l].job
        /\ \A m \in Loops \ {l} : loop'[m] = loop[m]
    BY <1>2 DEF PollAssign, LoopState
  <2>5. LoopKnows(loop[l])'
    BY <1>2, <2>3, <2>4 DEF PollAssign, LoopKnows, Evaluates, InTransaction
  <2>6. ASSUME NEW k \in Jobs
        PROVE  JobKeeps(k)'
    <3>1. CASE k = loop[l].job
      BY <1>2, <2>3, <3>1 DEF PollAssign, JobKeeps
    <3>2. CASE k # loop[l].job
      BY <1>2, <3>2, JobStays DEF PollAssign, PanelInv
    <3>. QED
      BY <3>1, <3>2
  <2>. QED
    BY <1>0, <2>4, <2>5, <2>6, OthersKnow DEF PanelInv
<1>3. CASE PollStart(l)
  <2>1. Full(assigned'[loop[l].job])
    BY <1>3 DEF PollStart, LoopKnows
  <2>2. /\ loop'[l] = Idle \/ (loop'[l].pc = "check" /\ loop'[l].job = loop[l].job)
        /\ \A m \in Loops \ {l} : loop'[m] = loop[m]
    BY <1>3 DEF PollStart, LoopState
  <2>3. LoopKnows(loop[l])'
    <3>1. CASE loop'[l] = Idle
      BY <3>1, IdleKnows
    <3>2. CASE loop'[l].pc = "check" /\ loop'[l].job = loop[l].job
      BY <1>3, <2>1, <3>2 DEF PollStart, LoopKnows, Evaluates, InTransaction
    <3>. QED
      BY <2>2, <3>1, <3>2
  <2>4. ASSUME NEW k \in Jobs
        PROVE  JobKeeps(k)'
    <3>1. CASE k = loop[l].job
      BY <1>3, <2>1, <3>1 DEF PollStart, JobKeeps
    <3>2. CASE k # loop[l].job
      BY <1>3, <3>2, JobStays DEF PollStart, PanelInv
    <3>. QED
      BY <3>1, <3>2
  <2>. QED
    BY <1>0, <2>2, <2>3, <2>4, OthersKnow DEF PanelInv
<1>. QED
  BY <1>1, <1>2, <1>3 DEF Poll

\* The steps of POST /results, with the evaluation, keep PanelInv.
LEMMA SubmitPanel ==
  ASSUME Inv, PanelInv, NEW l \in Loops,
         Submit(l) \/ Evaluate(l) \/ Fault(l), Grows
  PROVE  PanelInv'
<1>. loop \in [Loops -> LoopState] /\ status \in [Jobs -> JobStatus]
     /\ assigned \in [Jobs -> SUBSET Nodes] /\ hub.stale \subseteq Jobs
     /\ results \in [Jobs -> Seq(Row)]
     /\ Sound(loop[l]) /\ LoopKnows(loop[l])
  BY DEF Inv, TypeOK, LoopsSound, PanelInv
<1>. loop[l].job \in Jobs
  BY DEF LoopState
<1>. DEFINE j == loop[l].job
<1>0. hub' = hub /\ hub.stale \subseteq Created'
  BY DEF Submit, Report, Create, Evaluate, EvalJob, EvalTally, EvalProgress, Fault,
         PanelInv, Created, Grows
<1>1. ASSUME ~EvalProgress(l)
      PROVE  /\ \A k \in Jobs : JobKeeps(k)'
             /\ status' = status /\ assigned' = assigned
  <2>1. status' = status /\ assigned' = assigned
    BY <1>1 DEF Submit, Report, Create, Evaluate, EvalJob, EvalTally, Fault, jobVars
  <2>. QED
    BY <2>1, JobStays DEF PanelInv
<1>2. \A m \in Loops \ {l} : loop'[m] = loop[m]
  BY DEF Submit, Report, Create, Evaluate, EvalJob, EvalTally, EvalProgress, Fault
<1>3. CASE loop'[l] = Idle /\ ~EvalProgress(l)
  BY <1>0, <1>1, <1>2, <1>3, IdleKnows, OthersKnow DEF PanelInv
<1>4. ASSUME NEW s \in Reports, Report(l, s), loop'[l] # Idle
      PROVE  PanelInv'
  <2>1. loop'[l].pc = "create" /\ loop'[l].job = j /\ loop[l].pc = "check"
    BY <1>4 DEF Report, LoopState
  <2>2. ~EvalProgress(l)
    BY <2>1 DEF EvalProgress
  <2>3. LoopKnows(loop[l])'
    BY <1>1, <2>1, <2>2 DEF LoopKnows, Evaluates, InTransaction
  <2>. QED
    BY <1>0, <1>1, <1>2, <2>2, <2>3, OthersKnow DEF PanelInv
<1>5. CASE Create(l) /\ loop'[l] # Idle
  <2>1. PICK row \in Row : results' = [results EXCEPT ![j] = Append(@, row)]
    BY <1>5, CreateStep
  <2>2. /\ loop'[l].pc = "eval" /\ loop'[l].job = j
        /\ loop[l].pc = "create" /\ ~EvalProgress(l)
    BY <1>5, CreateStep DEF Create, EvalProgress
  <2>3. results'[j] # <<>>
    BY <2>1, NewRowThere
  <2>4. LoopKnows(loop[l])'
    BY <1>1, <2>1, <2>2, <2>3 DEF LoopKnows, Evaluates, InTransaction
  <2>. QED
    BY <1>0, <1>1, <1>2, <2>2, <2>4, OthersKnow DEF PanelInv
<1>6. CASE EvalJob(l)
  <2>1. /\ loop'[l].pc = "tally" /\ loop'[l].job = j /\ loop'[l].assigned = assigned[j]
        /\ loop[l].pc = "eval" /\ results' = results
    BY <1>6 DEF EvalJob, LoopState, voteVars
  <2>2. ~EvalProgress(l)
    BY <2>1 DEF EvalProgress
  <2>3. LoopKnows(loop[l])'
    BY <1>1, <2>1, <2>2 DEF LoopKnows, Evaluates, InTransaction
  <2>. QED
    BY <1>0, <1>1, <1>2, <2>2, <2>3, OthersKnow DEF PanelInv
<1>7. CASE EvalTally(l) /\ loop'[l] # Idle
  <2>1. loop'[l] \in TallyOutcomes(l, results[j]) /\ loop[l].pc = "tally" /\ results' = results
    BY <1>7 DEF EvalTally, voteVars
  <2>2. ~EvalProgress(l)
    BY <2>1 DEF EvalProgress
  <2>3. Decided(results[j], Expected(loop[l].assigned)) => Decided(results[j], N)
    <3>1. Expected(loop[l].assigned) \in Nat /\ Expected(loop[l].assigned) >= N
      BY <2>1, FullExpects DEF LoopKnows, Inv, TypeOK, LoopState
    <3>. QED
      BY <3>1, RowsVote, DecidedForFewer
  <2>4. /\ loop'[l].job = j
        /\ \/ loop'[l].pc = "begin" /\ Decided(results[j], N)
           \/ loop'[l].pc = "progress"
    BY <1>7, <2>1, <2>3, TallyPicks
  <2>5. LoopKnows(loop[l])'
    BY <1>1, <2>1, <2>2, <2>4 DEF LoopKnows, Evaluates, InTransaction, N
  <2>. QED
    BY <1>0, <1>1, <1>2, <2>2, <2>5, OthersKnow DEF PanelInv
<1>8. CASE EvalProgress(l)
  <2>1. loop'[l] = Idle /\ assigned' = assigned /\ Full(assigned[j])
    BY <1>8 DEF EvalProgress, LoopKnows
  <2>2. ASSUME NEW k \in Jobs
        PROVE  JobKeeps(k)'
    <3>1. CASE k = j
      BY <1>8, <2>1, <3>1 DEF EvalProgress, JobKeeps
    <3>2. CASE k # j
      BY <1>8, <3>2, JobStays DEF EvalProgress, PanelInv
    <3>. QED
      BY <3>1, <3>2
  <2>. QED
    BY <1>0, <1>2, <2>1, <2>2, IdleKnows, OthersKnow DEF PanelInv
<1>9. CASE Fault(l)
  <2>1. loop'[l] = Idle
    BY <1>9 DEF Fault
  <2>2. CASE ~EvalProgress(l)
    BY <1>3, <2>1, <2>2
  <2>. QED
    BY <1>8, <2>2
<1>. QED
  BY <1>3, <1>4, <1>5, <1>6, <1>7, <1>8, <1>9 DEF Submit, Evaluate

\* The statements of the transaction keep PanelInv.
LEMMA TransactPanel ==
  ASSUME Inv, PanelInv, NEW l \in Loops, Transact(l), Grows
  PROVE  PanelInv'
<1>. loop \in [Loops -> LoopState] /\ status \in [Jobs -> JobStatus]
     /\ assigned \in [Jobs -> SUBSET Nodes] /\ hub.stale \subseteq Jobs
     /\ LoopKnows(loop[l])
  BY DEF Inv, TypeOK, PanelInv
<1>. DEFINE j == loop[l].job
<1>. j \in Jobs
  BY DEF LoopState
<1>1. /\ hub' = hub /\ hub.stale \subseteq Created'
      /\ assigned' = assigned /\ results' = results
      /\ \A m \in Loops \ {l} : loop'[m] = loop[m]
  BY DEF Transact, TxBegin, TxReset, TxMark, TxCommit, PanelInv, Created, Grows,
         jobVars, voteVars
<1>2. CASE TxBegin(l) \/ TxReset(l) \/ TxMark(l)
  <2>1. /\ status' = status
        /\ loop'[l].pc \in {"reset", "mark", "commit"} /\ loop'[l].job = j
        /\ loop[l].pc \in InTransaction
    BY <1>2 DEF TxBegin, TxReset, TxMark, LoopState, InTransaction, jobVars
  <2>2. LoopKnows(loop[l])'
    BY <1>1, <2>1 DEF LoopKnows, Evaluates, InTransaction, N
  <2>3. \A k \in Jobs : JobKeeps(k)'
    BY <2>1, JobStays DEF PanelInv
  <2>. QED
    BY <1>1, <2>2, <2>3, OthersKnow DEF PanelInv
<1>3. CASE TxCommit(l)
  <2>1. loop'[l] = Idle /\ results[j] # <<>> /\ Decided(results[j], N) /\ Full(assigned[j])
    BY <1>3 DEF TxCommit, LoopKnows, Evaluates, InTransaction
  <2>2. ASSUME NEW k \in Jobs
        PROVE  JobKeeps(k)'
    <3>1. CASE k = j
      BY <1>1, <2>1, <3>1 DEF JobKeeps, N
    <3>2. CASE k # j
      BY <1>3, <3>2, JobStays DEF TxCommit, PanelInv
    <3>. QED
      BY <3>1, <3>2
  <2>. QED
    BY <1>1, <2>1, <2>2, IdleKnows, OthersKnow DEF PanelInv
<1>. QED
  BY <1>2, <1>3 DEF Transact

\* The hub and the passing of time keep PanelInv.
LEMMA HubPanel ==
  ASSUME Inv, PanelInv, Hub \/ Tick \/ UNCHANGED vars, Grows
  PROVE  PanelInv'
<1>. status \in [Jobs -> JobStatus] /\ hub.stale \subseteq Jobs
  BY DEF Inv, TypeOK
<1>1. /\ loop' = loop /\ assigned' = assigned /\ results' = results
      /\ hub.stale \subseteq Created' /\ hub'.stale \subseteq Created'
  <2>1. /\ loop' = loop /\ assigned' = assigned /\ results' = results
        /\ hub'.stale \in {{}, hub.stale} \/ hub'.stale \subseteq Created
    <3>1. CASE HubSchedule \/ HubFault \/ Tick \/ HubTimeOut \/ UNCHANGED vars
      BY <3>1 DEF HubSchedule, HubFault, Tick, HubTimeOut, vars, jobVars, voteVars, Inv, TypeOK
    <3>2. CASE HubReadStale
      BY <3>2 DEF HubReadStale, StaleJobs, Created, Active, jobVars, voteVars
    <3>. QED
      BY <3>1, <3>2 DEF Hub
  <2>2. Created \subseteq Created' /\ hub.stale \subseteq Created
    BY DEF Grows, Created, PanelInv
  <2>. QED
    BY <2>1, <2>2
<1>2. \A m \in Loops : LoopKnows(loop[m])'
  BY <1>1, KnowledgeStays DEF PanelInv
<1>3. ASSUME NEW k \in Jobs
      PROVE  JobKeeps(k)'
  <2>1. status'[k] = status[k] \/ status'[k] \in {"PENDING", "TIMED_OUT"}
    BY DEF Hub, HubSchedule, HubReadStale, HubTimeOut, HubFault, Tick, vars, jobVars
  <2>2. CASE status'[k] = status[k]
    BY <2>2, JobStays DEF PanelInv
  <2>3. CASE status'[k] \in {"PENDING", "TIMED_OUT"}
    BY <1>1, <2>3 DEF JobKeeps, PanelInv
  <2>. QED
    BY <2>1, <2>2, <2>3
<1>. QED
  BY <1>1, <1>2, <1>3 DEF PanelInv

\* PanelInv holds at the start, and always.
LEMMA InitPanel == Init => PanelInv
<1>. SUFFICES ASSUME Init PROVE PanelInv
  OBVIOUS
<1>1. \A l \in Loops : LoopKnows(loop[l])
  BY DEF Init, LoopKnows, Idle, Evaluates, InTransaction
<1>2. \A j \in Jobs : JobKeeps(j)
  BY DEF Init, JobKeeps
<1>. QED
  BY <1>1, <1>2 DEF Init, PanelInv

LEMMA NextPanel ==
  ASSUME Inv, PanelInv, [Next]_vars
  PROVE  PanelInv'
BY StepGrows, PollPanel, SubmitPanel, TransactPanel, HubPanel DEF Next

LEMMA SpecPanel == Spec => []PanelInv
<1>1. Init => PanelInv
  BY InitPanel
<1>2. Inv /\ PanelInv /\ [Next]_vars => PanelInv'
  BY NextPanel
<1>. QED
  BY <1>1, <1>2, SpecInv, PTL DEF Spec

\* A COMPLETED job has the votes its completion asks for, whatever other
\* polls, evaluations and time-outs raced with the commit, in a region with
\* any number of nodes.
THEOREM CompletionIsEarned == Spec => []CompletedIsDecided
<1>1. PanelInv => CompletedIsDecided
  BY DEF PanelInv, JobKeeps, CompletedIsDecided, N
<1>. QED
  BY <1>1, SpecPanel, PTL
-----------------------------------------------------------------------------
(***************************************************************************)
(* The verdict.  What a transaction writes was computed before it began,   *)
(* and other results may have come in since.  VerdictInv says that they    *)
(* do not outvote it: the list of votes was decided, it is not complete    *)
(* while a node may still report (RoomLeft), so those who led it still     *)
(* lead (LeadersStay), whatever the size of the panel and the order in     *)
(* which the rows are read.                                                *)
(***************************************************************************)
\* What a transaction r carries from its earlier statements.
VerdictLoop(r) ==
  /\ r.pc \in InTransaction => r.verdict \in Leading(results[r.job])
  /\ r.pc \in {"reset", "mark", "commit"} => r.rows <= Len(results[r.job])
  /\ r.pc = "commit" => r.rows <= r.seen /\ r.seen <= Len(results[r.job])

\* What committed transactions have left.
VerdictJob(j) ==
  /\ \A i \in marked[j] : \E v \in Leading(results[j]) : i \in Stored(j, v)
  /\ marked[j] # {} \/ incidents[j] > 0 => Decided(results[j], N)
  /\ incidents[j] > 0 => "DOWN" \in Leading(results[j])

VerdictInv ==
  /\ \A l \in Loops : VerdictLoop(loop[l])
  /\ \A j \in Jobs : VerdictJob(j)

\* As long as a node has not reported, the results are fewer than the nodes.
LEMMA RoomLeft ==
  ASSUME Inv, SmallRegion, NEW j \in Jobs, NEW n \in Nodes, ~Reported(j, n)
  PROVE  Len(results[j]) < N
<1>. DEFINE f == [i \in 1..Len(results[j]) |-> results[j][i].node]
<1>1. results[j] \in Seq(Row) /\ Len(results[j]) \in Nat
  BY DEF Inv, TypeOK
<1>2. \A i \in 1..Len(results[j]) : results[j][i].node \in Nodes \ {n}
  <2>1. \A i \in 1..Len(results[j]) : results[j][i] \in Row
    BY <1>1
  <2>. QED
    BY <1>1, <2>1 DEF Reported, Row
<1>3. f \in [1..Len(results[j]) -> Nodes \ {n}]
  BY <1>2
<1>4. \A i, k \in 1..Len(results[j]) : i # k => f[i] # f[k]
  BY <1>1 DEF Inv, OneResultPerNode
<1>5. /\ IsFiniteSet(1..Len(results[j]))
      /\ Cardinality(1..Len(results[j])) = Len(results[j])
  BY <1>1, Positions
<1>6. /\ IsFiniteSet(Nodes \ {n}) /\ Cardinality(Nodes \ {n}) = N - 1 /\ N \in Nat
  BY NodesAssumption, RowsVote, WholePanel, FS_RemoveElement
<1>7. ~(Cardinality(Nodes \ {n}) < Cardinality(1..Len(results[j])))
  <2>. HIDE DEF f
  <2>. QED
    BY <1>3, <1>4, <1>5, <1>6, FS_PigeonHole
<1>. QED
  BY <1>1, <1>5, <1>6, <1>7

\* What a step does to the votes of a job: once decided, who leads still leads.
LEMMA GrowsVerdict ==
  ASSUME Inv, Grows, SmallRegion, NEW j \in Jobs
  PROVE  /\ Decided(results[j], N) => Leading(results[j]) \subseteq Leading(results'[j])
         /\ \A s : Stored(j, s) \subseteq Stored(j, s)'
         /\ Len(results[j]) \in Nat /\ Len(results'[j]) \in Nat
         /\ Len(results[j]) <= Len(results'[j])
<1>1. results[j] \in Seq(Row) /\ Len(results[j]) \in Nat
  BY DEF Inv, TypeOK
<1>2. CASE results'[j] = results[j]
  BY <1>1, <1>2 DEF Stored
<1>3. ASSUME NEW row \in Row, ~Reported(j, row.node), results'[j] = Append(results[j], row)
      PROVE  /\ Decided(results[j], N) => Leading(results[j]) \subseteq Leading(results'[j])
             /\ \A s : Stored(j, s) \subseteq Stored(j, s)'
             /\ Len(results'[j]) = Len(results[j]) + 1
  <2>1. Len(results[j]) < N
    BY <1>3, RoomLeft DEF Row
  <2>2. Decided(results[j], N) => Leading(results[j]) \subseteq Leading(Append(results[j], row))
    BY <1>1, <2>1, RowsVote, AppendedJoins, LeadersStay
  <2>3. /\ DOMAIN results[j] \subseteq DOMAIN results'[j]
        /\ \A i \in DOMAIN results[j] : results'[j][i] = results[j][i]
        /\ Len(results'[j]) = Len(results[j]) + 1
    BY <1>1, <1>3
  <2>. QED
    BY <1>3, <2>2, <2>3 DEF Stored
<1>. QED
  BY <1>1, <1>2, <1>3 DEF Grows

\* A verdict remains one that leads while its transaction waits.
LEMMA VerdictStays ==
  ASSUME Inv, PanelInv, Grows, SmallRegion, NEW l \in Loops, loop'[l] = loop[l],
         VerdictLoop(loop[l])
  PROVE  VerdictLoop(loop[l])'
<1>. DEFINE j == loop[l].job
<1>1. loop[l] \in LoopState
  BY DEF Inv, TypeOK
<1>2. j \in Jobs /\ loop[l].rows \in Nat /\ loop[l].seen \in Nat
  BY <1>1 DEF LoopState
<1>3. /\ Decided(results[j], N) => Leading(results[j]) \subseteq Leading(results'[j])
      /\ Len(results[j]) \in Nat /\ Len(results'[j]) \in Nat
      /\ Len(results[j]) <= Len(results'[j])
  BY <1>2, GrowsVerdict
<1>4. loop[l].pc \in InTransaction => Decided(results[j], N)
  BY DEF PanelInv, LoopKnows
<1>. QED
  BY <1>2, <1>3, <1>4 DEF VerdictLoop, InTransaction

\* Marks and incidents remain those of statuses that lead.
LEMMA VerdictJobStays ==
  ASSUME Inv, Grows, SmallRegion, NEW j \in Jobs, VerdictJob(j),
         marked'[j] = marked[j], incidents'[j] \in {incidents[j], 0}
  PROVE  VerdictJob(j)'
<1>1. /\ Decided(results[j], N) => Leading(results[j]) \subseteq Leading(results'[j])
      /\ \A s : Stored(j, s) \subseteq Stored(j, s)'
  BY GrowsVerdict
<1>2. Decided(results[j], N) => Decided(results'[j], N)
  BY GrowsDecided
<1>3. CASE Decided(results[j], N)
  <2>1. \A i \in marked'[j] : \E v \in Leading(results'[j]) : i \in Stored(j, v)'
    BY <1>1, <1>3 DEF VerdictJob
  <2>. QED
    BY <1>1, <1>2, <1>3, <2>1 DEF VerdictJob, N
<1>4. CASE ~Decided(results[j], N)
  BY <1>4 DEF VerdictJob, Inv, TypeOK
<1>. QED
  BY <1>3, <1>4

\* A step of one iteration that only moves it, to a sound verdict.
LEMMA OthersVerdict ==
  ASSUME Inv, PanelInv, VerdictInv, Grows, SmallRegion, NEW l \in Loops,
         \A m \in Loops \ {l} : loop'[m] = loop[m], VerdictLoop(loop[l])',
         marked' = marked, incidents' = incidents
  PROVE  VerdictInv'
<1>1. \A m \in Loops \ {l} : VerdictLoop(loop[m])'
  BY VerdictStays DEF VerdictInv
<1>2. \A j \in Jobs : VerdictJob(j)'
  BY VerdictJobStays DEF VerdictInv
<1>. QED
  BY <1>1, <1>2 DEF VerdictInv

\* The commit marks the rows of its verdict, and raises or resolves incidents.
LEMMA CommitVerdict ==
  ASSUME Inv, PanelInv, VerdictInv, Grows, SmallRegion, NEW l \in Loops, TxCommit(l)
  PROVE  VerdictInv'
<1>. DEFINE j == loop[l].job
            v == loop[l].verdict
<1>1. /\ loop[l].pc = "commit" /\ loop[l] \in LoopState
      /\ loop' = [loop EXCEPT ![l] = Idle] /\ results' = results
      /\ incidents' = IncidentsAfter(j, v)
      /\ marked' = [marked EXCEPT ![j] = (marked[j] \ 1..loop[l].rows)
                                            \cup (Stored(j, v) \cap 1..loop[l].seen)]
  BY DEF TxCommit, Inv, TypeOK
<1>2. j \in Jobs /\ loop \in [Loops -> LoopState] /\ incidents \in [Jobs -> Nat]
      /\ marked \in [Jobs -> SUBSET (Nat \ {0})]
  BY <1>1 DEF LoopState, Inv, TypeOK
<1>3. v \in Leading(results[j]) /\ Decided(results[j], N)
  BY <1>1 DEF VerdictInv, VerdictLoop, PanelInv, LoopKnows, InTransaction
<1>4. \A m \in Loops : VerdictLoop(loop[m])'
  <2>1. \A m \in Loops \ {l} : VerdictLoop(loop[m])'
    BY <1>1, <1>2, VerdictStays DEF VerdictInv
  <2>2. VerdictLoop(loop[l])'
    BY <1>1, <1>2 DEF VerdictLoop, Idle, InTransaction
  <2>. QED
    BY <2>1, <2>2
<1>5. \A k \in Jobs : \/ incidents'[k] \in {incidents[k], 0}
                      \/ k = j /\ v = "DOWN"
  BY <1>1, <1>2 DEF IncidentsAfter
<1>6. ASSUME NEW k \in Jobs
      PROVE  VerdictJob(k)'
  <2>1. CASE k # j
    BY <1>1, <1>2, <1>5, <2>1, VerdictJobStays DEF VerdictInv
  <2>2. CASE k = j
    <3>1. \A i \in marked'[j] : \E w \in Leading(results[j]) : i \in Stored(j, w)
      <4>1. \A i \in marked[j] : \E w \in Leading(results[j]) : i \in Stored(j, w)
        BY <1>2 DEF VerdictInv, VerdictJob
      <4>2. \A i \in marked'[j] : i \in marked[j] \/ i \in Stored(j, v)
        BY <1>1, <1>2
      <4>. QED
        BY <1>3, <4>1, <4>2
    <3>2. incidents'[j] > 0 => "DOWN" \in Leading(results[j])
      <4>1. incidents'[j] = incidents[j] /\ incidents[j] > 0 => "DOWN" \in Leading(results[j])
        BY <1>2 DEF VerdictInv, VerdictJob
      <4>. QED
        BY <1>2, <1>3, <1>5, <4>1
    <3>. QED
      BY <1>1, <1>3, <2>2, <3>1, <3>2 DEF VerdictJob, Stored, N
  <2>. QED
    BY <2>1, <2>2
<1>. QED
  BY <1>4, <1>6 DEF VerdictInv

\* Every other step keeps VerdictInv.
LEMMA LoopVerdict ==
  ASSUME Inv, PanelInv, VerdictInv, Grows, SmallRegion, NEW l \in Loops,
         Poll(l) \/ Submit(l) \/ Evaluate(l) \/ Transact(l) \/ Fault(l)
  PROVE  VerdictInv'
<1>. loop \in [Loops -> LoopState] /\ loop[l] \in LoopState
  BY DEF Inv, TypeOK
<1>. DEFINE j == loop[l].job
<1>. j \in Jobs
  BY DEF LoopState
<1>1. ASSUME Poll(l) \/ Submit(l) \/ Evaluate(l) \/ Fault(l)
             \/ TxBegin(l) \/ TxReset(l) \/ TxMark(l)
      PROVE  /\ marked' = marked /\ incidents' = incidents
             /\ \A m \in Loops \ {l} : loop'[m] = loop[m]
  BY <1>1 DEF Poll, PollSelect, PollAssign, PollStart, Submit, Report, Create,
              Evaluate, EvalJob, EvalTally, EvalProgress, TxBegin, TxReset, TxMark,
              Fault, voteVars
<1>2. CASE Poll(l) \/ Submit(l) \/ EvalJob(l) \/ EvalProgress(l) \/ Fault(l)
  <2>1. loop'[l].pc \notin InTransaction
    <3>1. CASE \E n \in Nodes : PollSelect(l, n)
      BY <3>1 DEF PollSelect, AfterSelect, Idle, InTransaction
    <3>2. CASE PollAssign(l) \/ PollStart(l)
      BY <3>2 DEF PollAssign, PollStart, Idle, InTransaction, LoopState
    <3>3. CASE \E s \in Reports : Report(l, s)
      BY <3>3 DEF Report, Idle, InTransaction, LoopState
    <3>4. CASE Create(l)
      <4>1. loop'[l].pc = "eval" \/ loop'[l] = Idle
        BY <3>4, CreateStep
      <4>. QED
        BY <4>1 DEF Idle, InTransaction
    <3>5. CASE EvalJob(l) \/ EvalProgress(l) \/ Fault(l)
      BY <3>5 DEF EvalJob, EvalProgress, Fault, Idle, InTransaction, LoopState
    <3>. QED
      BY <1>2, <3>1, <3>2, <3>3, <3>4, <3>5 DEF Poll, Submit
  <2>2. VerdictLoop(loop[l])'
    BY <2>1 DEF VerdictLoop, InTransaction
  <2>. QED
    BY <1>1, <1>2, <2>2, OthersVerdict DEF Evaluate
<1>3. CASE EvalTally(l)
  <2>1. /\ loop'[l] \in TallyOutcomes(l, results[j]) /\ results' = results
    BY <1>3 DEF EvalTally, voteVars
  <2>2. loop'[l].pc \in InTransaction =>
          /\ loop'[l].pc = "begin" /\ loop'[l].job = j
          /\ loop'[l].verdict \in Leading(results[j])
    BY <2>1, TallyPicks DEF InTransaction
  <2>3. VerdictLoop(loop[l])'
    BY <2>1, <2>2 DEF VerdictLoop, InTransaction
  <2>. QED
    BY <1>1, <1>3, <2>3, OthersVerdict DEF Evaluate
<1>4. CASE TxBegin(l) \/ TxReset(l) \/ TxMark(l)
  <2>1. /\ loop[l].pc \in {"begin", "reset", "mark"} /\ results' = results
        /\ loop'[l].job = j /\ loop'[l].verdict = loop[l].verdict
    BY <1>4 DEF TxBegin, TxReset, TxMark, LoopState, voteVars
  <2>2. Len(results[j]) \in Nat /\ loop[l].rows \in Nat
    BY DEF Inv, TypeOK, LoopState
  <2>3. loop[l].verdict \in Leading(results[j])
    BY <2>1 DEF VerdictInv, VerdictLoop, InTransaction
  <2>4. loop'[l].rows <= Len(results[j])
    <3>1. CASE TxBegin(l)
      BY <2>2, <3>1 DEF TxBegin, LoopState
    <3>2. CASE TxReset(l) \/ TxMark(l)
      BY <3>2 DEF TxReset, TxMark, LoopState, VerdictInv, VerdictLoop
    <3>. QED
      BY <1>4, <3>1, <3>2
  <2>5. loop'[l].pc = "commit" => loop'[l].seen = Len(results[j])
    BY <1>4 DEF TxBegin, TxReset, TxMark, LoopState
  <2>6. VerdictLoop(loop[l])'
    BY <2>1, <2>2, <2>3, <2>4, <2>5 DEF VerdictLoop
  <2>. QED
    BY <1>1, <1>4, <2>6, OthersVerdict
<1>5. CASE TxCommit(l)
  BY <1>5, CommitVerdict
<1>. QED
  BY <1>2, <1>3, <1>4, <1>5 DEF Evaluate, Transact

\* So do the hub and the passing of time.
LEMMA HubVerdict ==
  ASSUME Inv, PanelInv, VerdictInv, Grows, SmallRegion, Hub \/ Tick \/ UNCHANGED vars
  PROVE  VerdictInv'
<1>1. loop' = loop /\ marked' = marked /\ incidents' = incidents
  BY DEF Hub, HubSchedule, HubReadStale, HubTimeOut, HubFault, Tick, vars, voteVars
<1>2. \A m \in Loops : VerdictLoop(loop[m])'
  BY <1>1, VerdictStays DEF VerdictInv
<1>3. \A j \in Jobs : VerdictJob(j)'
  BY <1>1, VerdictJobStays DEF VerdictInv
<1>. QED
  BY <1>2, <1>3 DEF VerdictInv

\* VerdictInv is kept by every step, and holds always.
LEMMA NextVerdict ==
  ASSUME Inv, PanelInv, VerdictInv, SmallRegion, [Next]_vars
  PROVE  VerdictInv'
BY StepGrows, LoopVerdict, HubVerdict DEF Next

LEMMA SpecVerdict ==
  ASSUME SmallRegion
  PROVE  Spec => [](PanelInv /\ VerdictInv)
<1>2. Init => VerdictInv
  <2>1. Init => \A l \in Loops : VerdictLoop(loop[l])
    BY DEF Init, VerdictLoop, InTransaction, Idle
  <2>2. Init => \A j \in Jobs : VerdictJob(j)
    BY DEF Init, VerdictJob
  <2>. QED
    BY <2>1, <2>2 DEF VerdictInv
<1>3. Inv /\ PanelInv /\ VerdictInv /\ [Next]_vars => VerdictInv'
  BY NextVerdict
<1>. QED
  BY <1>2, <1>3, SpecInv, SpecPanel, PTL DEF Spec

\* An evaluation in its transaction holds a verdict that nothing has outvoted,
\* whatever the order in which concurrent evaluations read the rows and commit.
THEOREM VerdictsHold == Spec => []VerdictStillHolds
<1>1. CASE SmallRegion
  <2>1. VerdictInv => VerdictStillHolds
    BY DEF VerdictInv, VerdictLoop, VerdictStillHolds, InTransaction
  <2>. QED
    BY <1>1, <2>1, SpecVerdict, PTL
<1>2. CASE ~SmallRegion
  <2>1. VerdictStillHolds
    BY <1>2 DEF VerdictStillHolds
  <2>. QED
    BY <2>1, PTL
<1>. QED
  BY <1>1, <1>2

\* Every row marked isConsensus carries a status of its job that nothing outvotes.
THEOREM MarksHold == Spec => []MarksAgree
<1>1. CASE SmallRegion
  <2>1. VerdictInv => MarksAgree
    BY DEF VerdictInv, VerdictJob, MarksAgree
  <2>. QED
    BY <1>1, <2>1, SpecVerdict, PTL
<1>2. CASE ~SmallRegion
  <2>1. MarksAgree
    BY <1>2 DEF MarksAgree
  <2>. QED
    BY <2>1, PTL
<1>. QED
  BY <1>1, <1>2

\* A job that has raised incidents has DOWN votes that nothing outvotes, and keeps
\* them.
THEOREM AlarmsAreBacked == Spec => []NoFalseAlarm
<1>1. CASE SmallRegion
  <2>1. VerdictInv => NoFalseAlarm
    BY DEF VerdictInv, VerdictJob, NoFalseAlarm
  <2>. QED
    BY <1>1, <2>1, SpecVerdict, PTL
<1>2. CASE ~SmallRegion
  <2>1. NoFalseAlarm
    BY <1>2 DEF NoFalseAlarm
  <2>. QED
    BY <2>1, PTL
<1>. QED
  BY <1>1, <1>2
-----------------------------------------------------------------------------
(***************************************************************************)
(* No mark is lost.  MarksInv says that a decided job without evaluations  *)
(* in progress has all rows of a leading status marked, and that a commit  *)
(* about to happen has seen all rows, or is not the last: the row it has   *)
(* not seen started an evaluation of its own, which waits for the locks.   *)
(***************************************************************************)
AllMarked(j) == \E v \in Leading(results[j]) : Stored(j, v) \subseteq marked[j]

\* An iteration that has yet to come to the mark statement of its evaluation.
BeforeMark(r, j) == r.job = j /\ r.pc \in {"eval", "tally", "begin", "reset"}

MarksJob(j) ==
  Decided(results[j], N) /\ results[j] # <<>> /\ (\A l \in Loops : ~Evaluating(l, j))
    => AllMarked(j)

MarksLoop(l) ==
  loop[l].pc = "commit" =>
    \/ loop[l].seen = Len(results[loop[l].job])
    \/ \E m \in Loops : BeforeMark(loop[m], loop[l].job)

\* The row locks: two transactions of a job are not past the reset at once.
LocksHeld ==
  \A l, m \in Loops :
    loop[l].pc \in {"mark", "commit"} /\ loop[m].pc \in {"mark", "commit"}
      /\ loop[l].job = loop[m].job => l = m

MarksInv ==
  /\ LocksHeld
  /\ faults = 0 => /\ \A j \in Jobs : MarksJob(j)
                   /\ \A l \in Loops : MarksLoop(l)

\* Every step is one of an iteration, which leaves the others alone, or moves none.
LEMMA OneMoves ==
  ASSUME Inv, [Next]_vars
  PROVE  \/ \E l \in Loops :
              /\ Poll(l) \/ Submit(l) \/ Evaluate(l) \/ Transact(l) \/ Fault(l)
              /\ \A m \in Loops \ {l} : loop'[m] = loop[m]
         \/ loop' = loop /\ UNCHANGED voteVars
<1>1. ASSUME NEW l \in Loops,
             Poll(l) \/ Submit(l) \/ Evaluate(l) \/ Transact(l) \/ Fault(l)
      PROVE  \A m \in Loops \ {l} : loop'[m] = loop[m]
  <2>1. loop \in [Loops -> LoopState]
    BY DEF Inv, TypeOK
  <2>. QED
    BY <1>1, <2>1 DEF Poll, PollSelect, PollAssign, PollStart, Submit, Report, Create,
      Evaluate, EvalJob, EvalTally, EvalProgress, Transact, TxBegin, TxReset, TxMark,
      TxCommit, Fault
<1>2. CASE Hub \/ Tick \/ UNCHANGED vars
  BY <1>2 DEF Hub, HubSchedule, HubReadStale, HubTimeOut, HubFault, Tick, vars, voteVars
<1>. QED
  BY <1>1, <1>2 DEF Next

\* An evaluation of a decided job goes on until it commits.
LEMMA GoesOn ==
  ASSUME Inv, PanelInv, SmallRegion, [Next]_vars, faults' = 0,
         NEW j \in Jobs, Decided(results[j], N),
         NEW m \in Loops, Evaluating(m, j), ~TxCommit(m)
  PROVE  /\ Evaluating(m, j)'
         /\ BeforeMark(loop[m], j) => BeforeMark(loop'[m], j) \/ TxReset(m)
<1>1. loop \in [Loops -> LoopState] /\ loop[m] \in LoopState /\ faults \in Nat
  BY NumbersAssumption DEF Inv, TypeOK
<1>2. loop[m].job = j /\ loop[m].pc \in Evaluates
  BY DEF Evaluating, Evaluates
<1>3. CASE loop'[m] = loop[m]
  BY <1>3 DEF Evaluating
<1>4. CASE Poll(m) \/ Submit(m) \/ EvalProgress(m) \/ Fault(m)
  <2>1. ~Fault(m)
    BY <1>1 DEF Fault
  <2>. QED
    BY <1>2, <1>4, <2>1 DEF Poll, PollSelect, PollAssign, PollStart, Submit, Report, Create,
      EvalProgress, Evaluates
<1>5. CASE EvalTally(m)
  <2>0. loop[m].pc = "tally" /\ loop[m].assigned \in SUBSET Nodes /\ Full(loop[m].assigned)
    BY <1>5 DEF EvalTally, PanelInv, LoopKnows, Inv, TypeOK, LoopState
  <2>1. Expected(loop[m].assigned) = N
    BY <2>0, WholePanel DEF Expected, SmallRegion
  <2>2. loop'[m] \in TallyOutcomes(m, results[j])
    BY <1>1, <1>2, <1>5 DEF EvalTally
  <2>3. loop'[m].pc = "begin" /\ loop'[m].job = j
    BY <1>2, <2>1, <2>2, TallyPicks
  <2>. QED
    BY <2>3 DEF BeforeMark, Evaluating
<1>6. CASE EvalJob(m) \/ TxBegin(m)
  <2>1. loop'[m].pc \in {"tally", "reset"} /\ loop'[m].job = j
    BY <1>1, <1>2, <1>6 DEF EvalJob, TxBegin, LoopState
  <2>. QED
    BY <2>1 DEF BeforeMark, Evaluating
<1>7. CASE TxReset(m) \/ TxMark(m)
  <2>1. loop'[m].pc \in {"mark", "commit"} /\ loop'[m].job = j
    BY <1>1, <1>2, <1>7 DEF TxReset, TxMark, LoopState
  <2>2. TxMark(m) => ~BeforeMark(loop[m], j)
    BY DEF TxMark, BeforeMark
  <2>. QED
    BY <1>7, <2>1, <2>2 DEF Evaluating
<1>. QED
  BY <1>3, <1>4, <1>5, <1>6, <1>7, OneMoves DEF Evaluate, Transact

\* A new row is one of Create, and begins an evaluation.
LEMMA RowStarts ==
  ASSUME Inv, [Next]_vars, NEW j \in Jobs, results'[j] # results[j]
  PROVE  \E l \in Loops : BeforeMark(loop'[l], j) /\ Evaluating(l, j)'
<1>1. results \in [Jobs -> Seq(Row)]
  BY DEF Inv, TypeOK
<1>2. PICK l \in Loops : Create(l)
  BY DEF Next, Poll, PollSelect, PollAssign, PollStart, Submit, Report,
      Evaluate, EvalJob, EvalTally, EvalProgress, Transact, TxBegin, TxReset, TxMark,
      TxCommit, Fault, Hub, HubSchedule, HubReadStale, HubTimeOut, HubFault, Tick,
      vars, voteVars
<1>3. /\ loop'[l].pc = "eval" /\ loop'[l].job = loop[l].job
      /\ \E row \in Row : results' = [results EXCEPT ![loop[l].job] = Append(@, row)]
  BY <1>2, CreateStep
<1>4. loop[l].job = j
  BY <1>1, <1>3
<1>. QED
  BY <1>3, <1>4 DEF BeforeMark, Evaluating

\* A commit comes after a reset, and at the reset nobody else holds the rows.
LEMMA LocksStay ==
  ASSUME Inv, LocksHeld, [Next]_vars
  PROVE  LocksHeld'
<1>1. loop \in [Loops -> LoopState] /\ \A l \in Loops : loop[l] \in LoopState
  BY DEF Inv, TypeOK
<1>2. ASSUME NEW m \in Loops, loop'[m].pc \in {"mark", "commit"}
      PROVE  /\ loop'[m].job = loop[m].job
             /\ loop[m].pc \in {"mark", "commit"} \/ TxReset(m)
  <2>1. CASE loop'[m] = loop[m]
    BY <1>2, <2>1
  <2>2. CASE Poll(m)
    <3>1. loop'[m].pc \in {"assign", "start", "check", "idle"}
      <4>1. CASE \E n \in Nodes : PollSelect(m, n)
        BY <1>1, <4>1 DEF PollSelect, AfterSelect, Idle
      <4>2. CASE PollAssign(m) \/ PollStart(m)
        BY <1>1, <4>2 DEF PollAssign, PollStart, Idle, LoopState
      <4>. QED
        BY <2>2, <4>1, <4>2 DEF Poll
    <3>. QED
      BY <1>2, <3>1
  <2>3. CASE Submit(m)
    <3>1. loop'[m].pc \in {"create", "eval", "idle"}
      <4>1. CASE \E s \in Reports : Report(m, s)
        BY <1>1, <4>1 DEF Report, Idle, LoopState
      <4>2. CASE Create(m)
        BY <4>2, CreateStep DEF Idle
      <4>. QED
        BY <2>3, <4>1, <4>2 DEF Submit
    <3>. QED
      BY <1>2, <3>1
  <2>4. CASE Evaluate(m) \/ Fault(m)
    <3>1. loop'[m].pc \in {"tally", "begin", "progress", "idle"}
      <4>1. CASE EvalTally(m)
        <5>1. loop'[m] \in TallyOutcomes(m, results[loop[m].job])
          BY <1>1, <4>1 DEF EvalTally
        <5>. QED
          BY <5>1, TallyPicks
      <4>2. CASE EvalJob(m) \/ EvalProgress(m) \/ Fault(m)
        BY <1>1, <4>2 DEF EvalJob, EvalProgress, Fault, Idle, LoopState
      <4>. QED
        BY <2>4, <4>1, <4>2 DEF Evaluate
    <3>. QED
      BY <1>2, <3>1
  <2>5. CASE Transact(m)
    BY <1>1, <1>2, <2>5 DEF Transact, TxBegin, TxReset, TxMark, TxCommit, Idle, LoopState
  <2>. QED
    BY <2>1, <2>2, <2>3, <2>4, <2>5, OneMoves
<1>3. ASSUME NEW l \in Loops, NEW m \in Loops, TxReset(l), l # m,
             loop'[m].pc \in {"mark", "commit"}
      PROVE  loop'[l].job # loop'[m].job
  BY <1>1, <1>3 DEF TxReset, HoldsRows, LoopState
<1>4. ASSUME NEW l \in Loops, NEW m \in Loops, l # m, loop'[l].job = loop'[m].job,
             loop'[l].pc \in {"mark", "commit"}, loop'[m].pc \in {"mark", "commit"}
      PROVE  FALSE
  <2>1. ~TxReset(l) /\ ~TxReset(m)
    BY <1>3, <1>4
  <2>. QED
    BY <1>2, <1>4, <2>1 DEF LocksHeld
<1>. QED
  BY <1>4 DEF LocksHeld

\* Failures are not taken back.
LEMMA FaultsGrow ==
  ASSUME Inv, [Next]_vars, faults' = 0
  PROVE  faults = 0
<1>1. faults \in Nat
  BY NumbersAssumption DEF Inv, TypeOK
<1>2. ASSUME NEW l \in Loops,
             Poll(l) \/ Submit(l) \/ Evaluate(l) \/ Transact(l) \/ Fault(l)
      PROVE  faults' \in {faults, faults + 1}
  <2>1. CASE Poll(l)
    BY <2>1 DEF Poll, PollSelect, PollAssign, PollStart
  <2>2. CASE Submit(l) \/ Evaluate(l)
    BY <2>2 DEF Submit, Report, Create, Evaluate, EvalJob, EvalTally, EvalProgress
  <2>3. CASE Transact(l) \/ Fault(l)
    BY <2>3 DEF Transact, TxBegin, TxReset, TxMark, TxCommit, Fault
  <2>. QED
    BY <1>2, <2>1, <2>2, <2>3
<1>3. ASSUME Hub \/ Tick \/ UNCHANGED vars
      PROVE  faults' \in {faults, faults + 1}
  <2>1. CASE HubSchedule \/ HubTimeOut \/ HubFault \/ Tick \/ UNCHANGED vars
    BY <2>1 DEF HubSchedule, HubTimeOut, HubFault, Tick, vars
  <2>2. CASE HubReadStale
    BY <2>2 DEF HubReadStale
  <2>. QED
    BY <1>3, <2>1, <2>2 DEF Hub
<1>4. faults' \in {faults, faults + 1}
  BY <1>2, <1>3 DEF Next
<1>. QED
  BY <1>1, <1>4

\* A commit about to happen has seen all rows, or another evaluation follows.
LEMMA NextMarksLoop ==
  ASSUME Inv, PanelInv, LocksHeld, SmallRegion, [Next]_vars, faults' = 0,
         NEW l \in Loops, MarksLoop(l)
  PROVE  MarksLoop(l)'
<1>. DEFINE j == loop[l].job
<1>1. /\ loop \in [Loops -> LoopState] /\ loop[l] \in LoopState /\ j \in Jobs
      /\ faults \in Nat
  BY NumbersAssumption DEF Inv, TypeOK, LoopState
<1>. SUFFICES ASSUME loop'[l].pc = "commit"
              PROVE  \/ loop'[l].seen = Len(results'[loop'[l].job])
                     \/ \E m \in Loops : BeforeMark(loop'[m], loop'[l].job)
  BY DEF MarksLoop
<1>2. CASE loop'[l] = loop[l]
  <2>1. loop[l].pc = "commit" /\ Decided(results[j], N)
    BY <1>2 DEF PanelInv, LoopKnows, InTransaction
  <2>2. CASE results'[j] # results[j]
    BY <1>1, <1>2, <2>2, RowStarts
  <2>3. CASE results'[j] = results[j] /\ loop[l].seen = Len(results[j])
    BY <1>2, <2>3
  <2>4. ASSUME NEW m \in Loops, BeforeMark(loop[m], j)
        PROVE  BeforeMark(loop'[m], j)
    <3>1. Evaluating(m, j) /\ ~TxCommit(m)
      BY <2>4 DEF BeforeMark, Evaluating, TxCommit
    <3>2. ~TxReset(m)
      BY <2>1, <2>4 DEF TxReset, HoldsRows, BeforeMark
    <3>. QED
      BY <1>1, <2>1, <2>4, <3>1, <3>2, GoesOn
  <2>. QED
    BY <1>2, <2>1, <2>2, <2>3, <2>4 DEF MarksLoop
<1>3. CASE TxMark(l)
  <2>1. /\ loop'[l].seen = Len(results[j]) /\ loop'[l].job = j /\ results' = results
    BY <1>1, <1>3 DEF TxMark, LoopState, voteVars
  <2>. QED
    BY <2>1
<1>4. CASE loop'[l] # loop[l] /\ ~TxMark(l)
  <2>1. CASE \E n \in Nodes : PollSelect(l, n)
    BY <1>1, <2>1 DEF PollSelect, AfterSelect, Idle
  <2>2. CASE PollAssign(l) \/ PollStart(l)
    BY <1>1, <2>2 DEF PollAssign, PollStart, Idle, LoopState
  <2>3. CASE \E s \in Reports : Report(l, s)
    BY <1>1, <2>3 DEF Report, Idle, LoopState
  <2>4. CASE Create(l)
    BY <2>4, CreateStep DEF Idle
  <2>5. CASE EvalTally(l)
    <3>1. loop'[l] \in TallyOutcomes(l, results[j])
      BY <1>1, <2>5 DEF EvalTally
    <3>. QED
      BY <3>1, TallyPicks
  <2>6. CASE EvalJob(l) \/ EvalProgress(l) \/ Fault(l) \/ TxBegin(l) \/ TxReset(l) \/ TxCommit(l)
    BY <1>1, <2>6 DEF EvalJob, EvalProgress, Fault, TxBegin, TxReset, TxCommit, Idle, LoopState
  <2>. QED
    BY <1>4, <2>1, <2>2, <2>3, <2>4, <2>5, <2>6, OneMoves
       DEF Poll, Submit, Evaluate, Transact
<1>. QED
  BY <1>2, <1>3, <1>4

\* The last commit of a job has seen all its rows, and marks those of its verdict.
LEMMA LastCommitMarks ==
  ASSUME Inv, PanelInv, VerdictInv, NEW l \in Loops, TxCommit(l), MarksLoop(l),
         NEW j \in Jobs, loop[l].job = j, \A m \in Loops : ~Evaluating(m, j)'
  PROVE  AllMarked(j)'
<1>. DEFINE v == loop[l].verdict
<1>1. /\ loop[l].pc = "commit" /\ loop[l] \in LoopState /\ results' = results
      /\ \A m \in Loops \ {l} : loop'[m] = loop[m]
      /\ marked' = [marked EXCEPT ![loop[l].job] = (marked[loop[l].job] \ 1..loop[l].rows)
                                 \cup (Stored(loop[l].job, v) \cap 1..loop[l].seen)]
  BY DEF TxCommit, Inv, TypeOK
<1>2. marked \in [Jobs -> SUBSET (Nat \ {0})] /\ results[j] \in Seq(Row)
  BY DEF Inv, TypeOK
<1>3. v \in Leading(results[j])
  BY <1>1 DEF VerdictInv, VerdictLoop, InTransaction
<1>4. loop[l].seen = Len(results[j])
  <2>1. ASSUME NEW m \in Loops, BeforeMark(loop[m], j)
        PROVE  FALSE
    <3>1. m # l
      BY <1>1, <2>1 DEF BeforeMark
    <3>2. loop'[m] = loop[m]
      BY <1>1, <3>1
    <3>. QED
      BY <2>1, <3>2 DEF BeforeMark, Evaluating
  <2>. QED
    BY <1>1, <2>1 DEF MarksLoop
<1>5. marked'[j] = (marked[j] \ 1..loop[l].rows) \cup (Stored(j, v) \cap 1..Len(results[j]))
  BY <1>1, <1>2, <1>4
<1>6. Stored(j, v) \subseteq 1..Len(results[j])
  BY <1>2 DEF Stored
<1>. HIDE DEF v
<1>7. Stored(j, v) \subseteq marked'[j]
  BY <1>5, <1>6
<1>8. \E w \in Leading(results[j]) : Stored(j, w) \subseteq marked'[j]
  BY <1>3, <1>7
<1>. QED
  BY <1>1, <1>8 DEF AllMarked, Stored

\* A decided job without evaluations has the rows of a leading status marked.
LEMMA NextMarksJob ==
  ASSUME Inv, PanelInv, VerdictInv, MarksInv, SmallRegion, [Next]_vars, faults' = 0,
         NEW j \in Jobs
  PROVE  MarksJob(j)'
<1>. SUFFICES ASSUME Decided(results'[j], N), results'[j] # <<>>,
                     \A l \in Loops : ~Evaluating(l, j)'
              PROVE  AllMarked(j)'
  BY DEF MarksJob, N
<1>1. results'[j] = results[j]
  BY RowStarts
<1>2. faults = 0 /\ MarksJob(j) /\ \A l \in Loops : MarksLoop(l)
  BY FaultsGrow DEF MarksInv
<1>3. CASE \E l \in Loops : TxCommit(l) /\ loop[l].job = j
  BY <1>2, <1>3, LastCommitMarks
<1>4. CASE ~\E l \in Loops : TxCommit(l) /\ loop[l].job = j
  <2>1. ASSUME NEW m \in Loops, Evaluating(m, j)
        PROVE  FALSE
    <3>1. ~TxCommit(m)
      BY <1>4, <2>1 DEF Evaluating
    <3>. QED
      BY <1>1, <2>1, <3>1, GoesOn
  <2>2. AllMarked(j)
    BY <1>1, <1>2, <2>1 DEF MarksJob
  <2>3. marked'[j] = marked[j]
    <3>1. marked \in [Jobs -> SUBSET (Nat \ {0})]
      BY DEF Inv, TypeOK
    <3>2. CASE \E l \in Loops : TxCommit(l)
      BY <1>4, <3>1, <3>2 DEF TxCommit
    <3>3. CASE ~\E l \in Loops : TxCommit(l)
      BY <3>3 DEF Next, Poll, PollSelect, PollAssign, PollStart, Submit, Report, Create,
        Evaluate, EvalJob, EvalTally, EvalProgress, Transact, TxBegin, TxReset, TxMark,
        Fault, Hub, HubSchedule, HubReadStale, HubTimeOut, HubFault, Tick, vars, voteVars
    <3>. QED
      BY <3>2, <3>3
  <2>. QED
    BY <1>1, <2>2, <2>3 DEF AllMarked, Stored
<1>. QED
  BY <1>3, <1>4

\* MarksInv is kept by every step.
LEMMA NextMarks ==
  ASSUME Inv, PanelInv, VerdictInv, MarksInv, SmallRegion, [Next]_vars
  PROVE  MarksInv'
<1>1. LocksHeld'
  BY LocksStay DEF MarksInv
<1>2. ASSUME faults' = 0
      PROVE  /\ \A j \in Jobs : MarksJob(j)'
             /\ \A l \in Loops : MarksLoop(l)'
  BY <1>2, FaultsGrow, NextMarksJob, NextMarksLoop DEF MarksInv
<1>. QED
  BY <1>1, <1>2 DEF MarksInv

\* When no evaluation of a decided job is left and none failed, all rows of a
\* leading status are marked: overlapping transactions lose no update.
THEOREM NoMarkIsLost == Spec => []MarksComplete
<1>1. CASE SmallRegion
  <2>2. Init => MarksInv
    <3>1. Init => \A l \in Loops : loop[l].pc = "idle"
      BY DEF Init, Idle
    <3>2. Init => \A j \in Jobs : results[j] = <<>>
      BY DEF Init
    <3>. QED
      BY <3>1, <3>2 DEF MarksInv, LocksHeld, MarksJob, MarksLoop
  <2>3. Inv /\ PanelInv /\ VerdictInv /\ MarksInv /\ [Next]_vars => MarksInv'
    BY <1>1, NextMarks
  <2>4. MarksInv => MarksComplete
    BY <1>1, WholePanel DEF MarksInv, MarksJob, AllMarked, MarksComplete
  <2>. QED
    BY <1>1, <2>2, <2>3, <2>4, SpecInv, SpecVerdict, PTL DEF Spec
<1>2. CASE ~SmallRegion
  <2>1. MarksComplete
    BY <1>2 DEF MarksComplete
  <2>. QED
    BY <2>1, PTL
<1>. QED
  BY <1>1, <1>2
-----------------------------------------------------------------------------
(***************************************************************************)
(* The incidents of a job.  In any region: each evaluation comes from a    *)
(* result of its own, so those that have committed and those in progress   *)
(* are together no more than the results.                                  *)
(***************************************************************************)
Evaluators(j) == {l \in Loops : Evaluating(l, j)}

\* k evaluations of job j have committed; those in progress may still.
BoundOf(j) ==
  /\ IsFiniteSet(Evaluators(j))
  /\ \E k \in Nat : /\ k + Cardinality(Evaluators(j)) <= Len(results[j])
                    /\ incidents[j] <= Alerts * k

BoundInv == \A j \in Jobs : BoundOf(j)

\* Only the insert of a result starts an evaluation.
LEMMA EvaluationsStart ==
  ASSUME Inv, [Next]_vars, NEW j \in Jobs, NEW l \in Loops,
         Evaluating(l, j)', ~Evaluating(l, j)
  PROVE  Create(l) /\ loop[l].job = j /\ loop'[l] # Idle
<1>1. loop \in [Loops -> LoopState] /\ loop[l] \in LoopState
  BY DEF Inv, TypeOK
<1>2. loop'[l].job = j /\ loop'[l].pc \in Evaluates /\ loop'[l] # loop[l] /\ loop'[l] # Idle
  BY DEF Evaluating, Evaluates, Idle
<1>3. ~(loop[l].pc \in Evaluates /\ loop[l].job = j)
  BY DEF Evaluating, Evaluates
<1>4. Poll(l) \/ Submit(l) \/ Evaluate(l) \/ Transact(l) \/ Fault(l)
  BY <1>2, OneMoves
<1>5. ~Poll(l)
  <2>1. CASE \E n \in Nodes : PollSelect(l, n)
    BY <1>1, <1>2, <2>1 DEF PollSelect, AfterSelect, Idle, Evaluates
  <2>2. CASE PollAssign(l) \/ PollStart(l)
    BY <1>1, <1>2, <2>2 DEF PollAssign, PollStart, LoopState, Evaluates
  <2>. QED
    BY <2>1, <2>2 DEF Poll
<1>6. ~Fault(l)
  BY <1>1, <1>2 DEF Fault
<1>7. ~Evaluate(l)
  <2>1. CASE EvalTally(l)
    <3>1. loop'[l] \in TallyOutcomes(l, results[loop[l].job]) /\ loop[l].pc = "tally"
      BY <1>1, <2>1 DEF EvalTally
    <3>2. loop'[l].job = loop[l].job
      BY <1>2, <3>1, TallyPicks
    <3>. QED
      BY <1>2, <1>3, <3>1, <3>2 DEF Evaluates
  <2>2. CASE EvalJob(l) \/ EvalProgress(l)
    BY <1>1, <1>2, <1>3, <2>2 DEF EvalJob, EvalProgress, LoopState, Evaluates
  <2>. QED
    BY <2>1, <2>2 DEF Evaluate
<1>8. ~Transact(l)
  BY <1>1, <1>2, <1>3 DEF Transact, TxBegin, TxReset, TxMark, TxCommit, LoopState, Evaluates
<1>9. ASSUME Submit(l)
      PROVE  Create(l) /\ loop[l].job = j
  <2>1. ~\E s \in Reports : Report(l, s)
    <3>1. ASSUME NEW s \in Reports, Report(l, s)
          PROVE  loop'[l] = Idle \/ loop'[l].pc = "create"
      BY <1>1, <3>1 DEF Report, LoopState
    <3>. QED
      BY <1>2, <3>1 DEF Evaluates
  <2>2. Create(l)
    BY <1>9, <2>1 DEF Submit
  <2>. QED
    BY <1>2, <2>2, CreateStep
<1>. QED
  BY <1>2, <1>4, <1>5, <1>6, <1>7, <1>8, <1>9

\* An evaluation that ends otherwise than by raising incidents keeps the bound.
LEMMA BoundShrinks ==
  ASSUME NEW j \in Jobs, BoundOf(j), Inv, Inv', incidents'[j] <= incidents[j],
         Evaluators(j)' \subseteq Evaluators(j), Len(results[j]) <= Len(results'[j])
  PROVE  BoundOf(j)'
<1>. DEFINE E == Evaluators(j)
            F == Evaluators(j)'
<1>1. PICK k \in Nat : k + Cardinality(E) <= Len(results[j]) /\ incidents[j] <= Alerts * k
  BY DEF BoundOf
<1>2. IsFiniteSet(E)
  BY DEF BoundOf
<1>3. F \subseteq E
  OBVIOUS
<1>. HIDE DEF E, F
<1>4. /\ IsFiniteSet(F) /\ Cardinality(F) <= Cardinality(E)
      /\ Cardinality(F) \in Nat /\ Cardinality(E) \in Nat
  BY <1>2, <1>3, FS_Subset, FS_CardinalityType
<1>5. /\ Len(results[j]) \in Nat /\ Len(results'[j]) \in Nat /\ Alerts * k \in Int
      /\ incidents[j] \in Nat /\ incidents'[j] \in Nat
  BY <1>1, NumbersAssumption DEF Inv, TypeOK
<1>6. k + Cardinality(F) <= Len(results'[j]) /\ incidents'[j] <= Alerts * k
  BY <1>1, <1>4, <1>5
<1>. QED
  BY <1>1, <1>4, <1>6 DEF BoundOf, F

\* Every step keeps the bound.
LEMMA BoundNext ==
  ASSUME Inv, Inv', BoundInv, [Next]_vars, NEW j \in Jobs
  PROVE  BoundOf(j)'
<1>. DEFINE E == Evaluators(j)
            F == Evaluators(j)'
<1>1. loop \in [Loops -> LoopState] /\ results \in [Jobs -> Seq(Row)]
      /\ incidents \in [Jobs -> Nat] /\ Len(results[j]) \in Nat
      /\ \A l \in Loops : loop[l] \in LoopState
  BY DEF Inv, TypeOK
<1>2. BoundOf(j)
  BY DEF BoundInv
<1>3. \A l \in F \ E : Create(l) /\ loop[l].job = j /\ loop'[l] # Idle
  BY EvaluationsStart DEF Evaluators
<1>4. PICK k \in Nat : k + Cardinality(E) <= Len(results[j]) /\ incidents[j] <= Alerts * k
  BY <1>2 DEF BoundOf
<1>5. IsFiniteSet(E) /\ Cardinality(E) \in Nat
  BY <1>2, FS_CardinalityType DEF BoundOf
<1>6. CASE \E l \in Loops : Create(l)
  <2>1. PICK l \in Loops : Create(l)
    BY <1>6
  <2>2. incidents' = incidents /\ \A m \in Loops \ {l} : loop'[m] = loop[m]
    BY <1>1, <2>1 DEF Create
  <2>3. F \subseteq E \cup {l}
    BY <2>2 DEF Evaluators, Evaluating
  <2>4. CASE F \subseteq E
    <3>1. Len(results[j]) <= Len(results'[j])
      <4>1. CASE results' = results
        BY <1>1, <4>1
      <4>2. ASSUME NEW row \in Row,
                   results' = [results EXCEPT ![loop[l].job] = Append(@, row)]
            PROVE  Len(results[j]) <= Len(results'[j])
        BY <1>1, <4>2
      <4>. QED
        BY <2>1, <4>1, <4>2, CreateStep
    <3>. QED
      BY <1>1, <1>2, <2>2, <2>4, <3>1, BoundShrinks
  <2>5. CASE ~(F \subseteq E)
    <3>1. l \in F \ E /\ loop[l].job = j /\ loop'[l] # Idle
      BY <1>3, <2>3, <2>5
    <3>2. F \subseteq E \cup {l}
      BY <2>3
    <3>3. PICK row \in Row : results' = [results EXCEPT ![loop[l].job] = Append(@, row)]
      BY <2>1, <3>1, CreateStep
    <3>4. Len(results'[j]) = Len(results[j]) + 1
      BY <1>1, <3>1, <3>3
    <3>. HIDE DEF E, F
    <3>5. IsFiniteSet(F) /\ Cardinality(F) <= Cardinality(E) + 1 /\ Cardinality(F) \in Nat
      <4>1. IsFiniteSet(E \cup {l}) /\ Cardinality(E \cup {l}) = Cardinality(E) + 1
        BY <1>5, <3>1, FS_AddElement
      <4>. QED
        BY <3>2, <4>1, FS_Subset, FS_CardinalityType
    <3>6. k + Cardinality(F) <= Len(results'[j]) /\ incidents'[j] <= Alerts * k
      BY <1>1, <1>4, <1>5, <2>2, <3>4, <3>5
    <3>. QED
      BY <1>4, <3>5, <3>6 DEF BoundOf, F
  <2>. QED
    BY <2>4, <2>5
<1>7. CASE ~\E l \in Loops : Create(l)
  <2>1. F \subseteq E
    BY <1>3, <1>7 DEF Evaluators
  <2>2. results' = results
    BY <1>7 DEF Next, Poll, PollSelect, PollAssign, PollStart, Submit, Report,
      Evaluate, EvalJob, EvalTally, EvalProgress, Transact, TxBegin, TxReset, TxMark,
      TxCommit, Fault, Hub, HubSchedule, HubReadStale, HubTimeOut, HubFault, Tick,
      vars, voteVars
  <2>3. CASE incidents'[j] <= incidents[j]
    BY <1>1, <1>2, <2>1, <2>2, <2>3, BoundShrinks
  <2>4. CASE ~(incidents'[j] <= incidents[j])
    <3>1. PICK l \in Loops : TxCommit(l)
      <4>1. incidents' # incidents
        BY <1>1, <2>4
      <4>. QED
        BY <1>7, <4>1 DEF Next, Poll, PollSelect, PollAssign, PollStart, Submit, Report,
          Evaluate, EvalJob, EvalTally, EvalProgress, Transact, TxBegin, TxReset, TxMark,
          Fault, Hub, HubSchedule, HubReadStale, HubTimeOut, HubFault, Tick,
          vars, voteVars
    <3>2. incidents' = IncidentsAfter(loop[l].job, loop[l].verdict) /\ loop[l].pc = "commit"
          /\ loop'[l] = Idle
      BY <1>1, <3>1 DEF TxCommit
    <3>3. loop[l].job = j /\ incidents'[j] = incidents[j] + Alerts
      BY <1>1, <2>4, <3>2 DEF IncidentsAfter
    <3>4. l \in E /\ l \notin F
      BY <3>2, <3>3 DEF Evaluators, Evaluating, Idle
    <3>. HIDE DEF E, F
    <3>5. IsFiniteSet(F) /\ Cardinality(F) <= Cardinality(E) - 1 /\ Cardinality(F) \in Nat
      <4>1. IsFiniteSet(E \ {l}) /\ Cardinality(E \ {l}) = Cardinality(E) - 1
        BY <1>5, <3>4, FS_RemoveElement
      <4>2. F \subseteq E \ {l}
        BY <2>1, <3>4
      <4>. QED
        BY <4>1, <4>2, FS_Subset, FS_CardinalityType
    <3>6. Alerts * (k + 1) = Alerts * k + Alerts /\ Alerts * k \in Int /\ Alerts \in Nat
      BY NumbersAssumption
    <3>7. (k + 1) + Cardinality(F) <= Len(results'[j]) /\ incidents'[j] <= Alerts * (k + 1)
      BY <1>1, <1>4, <1>5, <2>2, <3>3, <3>5, <3>6
    <3>. QED
      BY <1>4, <3>5, <3>7 DEF BoundOf, F
  <2>. QED
    BY <2>3, <2>4
<1>. QED
  BY <1>6, <1>7

\* A job never opens more incidents than one per result and alert configuration,
\* whatever is retried, in a region of any size.
THEOREM IncidentsAreBounded == Spec => []IncidentBound
<1>1. Init => BoundInv
  <2>. SUFFICES ASSUME Init, NEW j \in Jobs PROVE BoundOf(j)
    BY DEF BoundInv
  <2>1. Evaluators(j) = {}
    BY DEF Init, Evaluators, Evaluating, Idle
  <2>2. IsFiniteSet(Evaluators(j)) /\ Cardinality(Evaluators(j)) = 0
    BY <2>1, FS_EmptySet
  <2>3. Len(results[j]) = 0 /\ incidents[j] = 0 /\ Alerts * 0 = 0
    BY NumbersAssumption DEF Init
  <2>4. 0 \in Nat /\ 0 + Cardinality(Evaluators(j)) <= Len(results[j]) /\ incidents[j] <= Alerts * 0
    BY <2>2, <2>3
  <2>. QED
    BY <2>2, <2>4 DEF BoundOf
<1>2. Inv /\ Inv' /\ BoundInv /\ [Next]_vars => BoundInv'
  BY BoundNext DEF BoundInv
<1>3. Inv /\ BoundInv => IncidentBound
  <2>. SUFFICES ASSUME Inv, BoundInv, NEW j \in Jobs
                PROVE  incidents[j] <= Alerts * Len(results[j])
    BY DEF IncidentBound
  <2>1. PICK k \in Nat : /\ k + Cardinality(Evaluators(j)) <= Len(results[j])
                         /\ incidents[j] <= Alerts * k
    BY DEF BoundInv, BoundOf
  <2>2. Cardinality(Evaluators(j)) \in Nat /\ Len(results[j]) \in Nat /\ incidents[j] \in Nat
    BY FS_CardinalityType DEF BoundInv, BoundOf, Inv, TypeOK
  <2>3. k <= Len(results[j])
    BY <2>1, <2>2
  <2>4. \A a, b, c \in Nat : b <= c => a * b <= a * c
    OBVIOUS
  <2>5. Alerts * k <= Alerts * Len(results[j]) /\ Alerts * k \in Int
        /\ Alerts * Len(results[j]) \in Int
    BY <2>2, <2>3, <2>4, NumbersAssumption
  <2>. QED
    BY <2>1, <2>2, <2>5
<1>. QED
  BY <1>1, <1>2, <1>3, SpecInv, PTL DEF Spec
-----------------------------------------------------------------------------
(***************************************************************************)
(* The contract.  Each step of JobService is, under the mapping of the     *)
(* module, a step of JobContract or none: polls and progress notes are     *)
(* Take, Work and Leave, the insert is Vote, the commit is Decide (by      *)
(* PanelInv the votes decide the job then), the hub's updates are Open and *)
(* Expire.                                                                 *)
(***************************************************************************)
\* The variables of JobContract as this module's state gives them.
phaseOf == [j \in Jobs |-> Phase(status[j])]
holdersOf == [j \in Jobs |-> {l \in Loops : TookUp(l, j)}]

ContractStep ==
  Contract!Next \/ UNCHANGED <<phaseOf, results, holdersOf>>

\* Iteration l alone moves, and what it has taken up changes for job j at most.
Moves(l, j) ==
  /\ \A m \in Loops \ {l} : loop'[m] = loop[m]
  /\ \A k \in Jobs \ {j} : TookUp(l, k)' <=> TookUp(l, k)

\* Then so do the holders of j alone.
LEMMA HoldersMove ==
  ASSUME NEW l \in Loops, NEW j \in Jobs, Moves(l, j)
  PROVE  /\ TookUp(l, j)' => holdersOf' = [holdersOf EXCEPT ![j] = @ \cup {l}]
         /\ ~TookUp(l, j)' => holdersOf' = [holdersOf EXCEPT ![j] = @ \ {l}]
         /\ (TookUp(l, j)' <=> TookUp(l, j)) => holdersOf' = holdersOf
<1>1. \A m \in Loops \ {l}, k \in Jobs : TookUp(m, k)' <=> TookUp(m, k)
  BY DEF Moves, TookUp, ReadItActive
<1>2. \A k \in Jobs \ {j} : TookUp(l, k)' <=> TookUp(l, k)
  BY DEF Moves
<1>3. \A k \in Jobs \ {j} : {m \in Loops : TookUp(m, k)'} = {m \in Loops : TookUp(m, k)}
  BY <1>1, <1>2
<1>4. ASSUME TookUp(l, j)'
      PROVE  {m \in Loops : TookUp(m, j)'} = {m \in Loops : TookUp(m, j)} \cup {l}
  BY <1>1, <1>4
<1>5. ASSUME ~TookUp(l, j)'
      PROVE  {m \in Loops : TookUp(m, j)'} = {m \in Loops : TookUp(m, j)} \ {l}
  BY <1>1, <1>5
<1>6. ASSUME TookUp(l, j)' <=> TookUp(l, j)
      PROVE  {m \in Loops : TookUp(m, j)'} = {m \in Loops : TookUp(m, j)}
  BY <1>1, <1>6
<1>. QED
  BY <1>3, <1>4, <1>5, <1>6 DEF holdersOf

\* The phases of the statuses.
LEMMA Phases ==
  /\ Phase("NONE") = "none"
  /\ \A s \in Active : Phase(s) = "open"
  /\ Phase("COMPLETED") = "decided" /\ Phase("TIMED_OUT") = "expired"
  /\ \A s \in JobStatus : Phase(s) = "none" => s = "NONE"
BY DEF Phase, Active, JobStatus, Terminal

\* A new status of a job is its new phase.
LEMMA PhaseMoves ==
  ASSUME Inv, NEW j \in Jobs, NEW s, status' = [status EXCEPT ![j] = s]
  PROVE  phaseOf' = [phaseOf EXCEPT ![j] = Phase(s)]
<1>1. status \in [Jobs -> JobStatus]
  BY DEF Inv, TypeOK
<1>2. \A k \in Jobs : status'[k] = IF k = j THEN s ELSE status[k]
  BY <1>1
<1>3. status'[j] = s /\ \A k \in Jobs \ {j} : status'[k] = status[k]
  BY <1>2
<1>4. Phase(status'[j]) = Phase(s) /\ \A k \in Jobs \ {j} : Phase(status'[k]) = Phase(status[k])
  BY <1>3
<1>. QED
  BY <1>4 DEF phaseOf

\* A worker finds an open job and takes it up.
LEMMA TakeStep ==
  ASSUME Inv, NEW l \in Loops, NEW j \in Jobs, Moves(l, j), TookUp(l, j)',
         status[j] \in Active, status' = status, results' = results
  PROVE  ContractStep
<1>1. phaseOf[j] = "open" /\ phaseOf' = phaseOf
  BY Phases DEF phaseOf
<1>2. holdersOf' = [holdersOf EXCEPT ![j] = @ \cup {l}]
  BY HoldersMove
<1>3. Contract!Take(l, j)
  BY <1>1, <1>2 DEF Contract!Take, phaseOf, holdersOf
<1>. QED
  BY <1>3 DEF ContractStep, Contract!Next

\* It lets the job go, or had not taken it up.
LEMMA LeaveStep ==
  ASSUME Inv, NEW l \in Loops, NEW j \in Jobs, Moves(l, j), ~TookUp(l, j)',
         status' = status, results' = results
  PROVE  ContractStep
<1>1. phaseOf' = phaseOf
  BY DEF phaseOf
<1>2. CASE TookUp(l, j)
  <2>1. holdersOf' = [holdersOf EXCEPT ![j] = @ \ {l}] /\ l \in holdersOf[j]
    BY <1>2, HoldersMove DEF holdersOf
  <2>2. Contract!Leave(l, j)
    BY <1>1, <2>1 DEF Contract!Leave, phaseOf, holdersOf
  <2>. QED
    BY <2>2 DEF ContractStep, Contract!Next
<1>3. CASE ~TookUp(l, j)
  BY <1>1, <1>3, HoldersMove DEF ContractStep
<1>. QED
  BY <1>2, <1>3

\* It writes that the job is in progress.
LEMMA WorkStep ==
  ASSUME Inv, NEW l \in Loops, NEW j \in Jobs, NEW s \in Active, Moves(l, j), TookUp(l, j),
         status' = [status EXCEPT ![j] = s], results' = results
  PROVE  ContractStep
<1>1. phaseOf' = [phaseOf EXCEPT ![j] = "open"]
  BY Phases, PhaseMoves
<1>2. holdersOf' \in {holdersOf, [holdersOf EXCEPT ![j] = @ \ {l}]} /\ l \in holdersOf[j]
  BY HoldersMove DEF holdersOf
<1>3. Contract!Work(l, j)
  BY <1>1, <1>2 DEF Contract!Work, phaseOf, holdersOf
<1>. QED
  BY <1>3 DEF ContractStep, Contract!Next

\* What moves when l goes from one state to another, both about job j or idle.
LEMMA MovesOf ==
  ASSUME Inv, NEW l \in Loops, NEW j \in Jobs,
         \A m \in Loops \ {l} : loop'[m] = loop[m],
         loop[l].job = j \/ loop[l].pc = "idle",
         loop'[l].job = j \/ loop'[l].pc = "idle"
  PROVE  Moves(l, j)
BY DEF Moves, TookUp, ReadItActive

\* An iteration that waits where nothing it read tells the job is open.
LEMMA NotTaken ==
  ASSUME NEW l \in Loops, NEW j,
         loop'[l].pc \in {"idle", "check", "create", "eval", "begin", "reset", "mark", "commit"}
  PROVE  ~TookUp(l, j)'
BY DEF TookUp, ReadItActive

\* The contract decides by the vote of Consensus.
LEMMA SameVote ==
  ASSUME NEW rs, NEW n
  PROVE  /\ Contract!Decided(rs, n) <=> Decided(rs, n)
         /\ Contract!Cardinality(Nodes) = Cardinality(Nodes)
         /\ Contract!SiteStatus = SiteStatus
<1>1. Contract!Cardinality(Nodes) = Cardinality(Nodes)
  BY DEF Contract!Cardinality, Cardinality
<1>2. Contract!SiteStatus = SiteStatus
  BY DEF Contract!SiteStatus, SiteStatus
<1>3. Contract!Decided(rs, n) <=> Decided(rs, n)
  BY DEF Contract!Decided, Contract!Count, Contract!Votes, Contract!Majority, Contract!Leads,
    Contract!Quorum, Contract!Normalize, Contract!VerdictStatus, Contract!Cardinality,
    Decided, Count, Votes, Majority, Leads, Quorum, Normalize, VerdictStatus, Cardinality
<1>. QED
  BY <1>1, <1>2, <1>3

\* The steps of GET /jobs/poll are steps of the contract.
LEMMA PollKeeps ==
  ASSUME Inv, PanelInv, NEW l \in Loops, Poll(l)
  PROVE  ContractStep
<1>1. loop \in [Loops -> LoopState] /\ loop[l] \in LoopState /\ loop[l].job \in Jobs
  BY DEF Inv, TypeOK, LoopState
<1>2. ASSUME NEW n \in Nodes, PollSelect(l, n)
      PROVE  ContractStep
  <2>1. PICK j \in Jobs :
          /\ Eligible(j, n)
          /\ loop' = [loop EXCEPT ![l] =
                 [Idle EXCEPT !.pc = AfterSelect(status[j]), !.node = n,
                              !.job = j, !.assigned = assigned[j]]]
    BY <1>2 DEF PollSelect
  <2>2. /\ loop'[l].pc = AfterSelect(status[j]) /\ loop'[l].job = j
        /\ \A m \in Loops \ {l} : loop'[m] = loop[m]
    BY <1>1, <2>1 DEF Idle
  <2>3. status[j] \in Active /\ status' = status /\ results' = results /\ loop[l].pc = "idle"
    BY <1>2, <2>1 DEF PollSelect, Eligible, Candidate, jobVars, voteVars
  <2>4. Moves(l, j)
    BY <2>2, <2>3, MovesOf
  <2>5. CASE AfterSelect(status[j]) \in {"assign", "start"}
    <3>1. TookUp(l, j)'
      BY <2>2, <2>5 DEF TookUp, ReadItActive
    <3>. QED
      BY <2>3, <2>4, <3>1, TakeStep
  <2>6. CASE AfterSelect(status[j]) = "check"
    <3>1. ~TookUp(l, j)'
      BY <2>2, <2>6, NotTaken
    <3>. QED
      BY <2>3, <2>4, <3>1, LeaveStep
  <2>7. AfterSelect(status[j]) \in {"assign", "start", "check"}
    BY DEF AfterSelect
  <2>. QED
    BY <2>5, <2>6, <2>7
<1>3. CASE PollAssign(l) \/ PollStart(l)
  <2>0. PICK j \in Jobs : loop[l].job = j
    BY <1>1
  <2>1. /\ TookUp(l, j) /\ results' = results
        /\ \A m \in Loops \ {l} : loop'[m] = loop[m]
        /\ \/ status' = [status EXCEPT ![j] = "ASSIGNED"]
           \/ status' = [status EXCEPT ![j] = "IN_PROGRESS"]
    <3>1. CASE PollAssign(l)
      BY <1>1, <2>0, <3>1 DEF PollAssign, TookUp, ReadItActive, voteVars
    <3>2. CASE PollStart(l)
      BY <1>1, <2>0, <3>2 DEF PollStart, TookUp, ReadItActive, voteVars
    <3>. QED
      BY <1>3, <3>1, <3>2
  <2>2. loop'[l].job = j \/ loop'[l] = Idle
    BY <1>1, <1>3, <2>0 DEF PollAssign, PollStart, LoopState
  <2>3. Moves(l, j)
    BY <2>0, <2>1, <2>2, MovesOf DEF Idle
  <2>4. "ASSIGNED" \in Active /\ "IN_PROGRESS" \in Active
    BY DEF Active
  <2>. QED
    BY <1>1, <2>1, <2>3, <2>4, WorkStep
<1>. QED
  BY <1>2, <1>3 DEF Poll

\* The steps of POST /results up to the insert are steps of the contract.
LEMMA SubmitKeeps ==
  ASSUME Inv, PanelInv, NEW l \in Loops, Submit(l)
  PROVE  ContractStep
<1>0. PICK j \in Jobs : loop[l].job = j
  BY DEF Inv, TypeOK, LoopState
<1>1. loop \in [Loops -> LoopState] /\ loop[l] \in LoopState /\ loop[l].job = j
      /\ results \in [Jobs -> Seq(Row)]
  BY <1>0 DEF Inv, TypeOK
<1>. USE <1>1
<1>2. status' = status /\ \A m \in Loops \ {l} : loop'[m] = loop[m]
  BY DEF Submit, Report, Create, jobVars
<1>3. /\ loop'[l].pc \in {"idle", "create", "eval"}
      /\ loop'[l].job = j \/ loop'[l].pc = "idle"
  <2>1. ASSUME NEW s \in Reports, Report(l, s)
        PROVE  loop'[l] = Idle \/ (loop'[l].pc = "create" /\ loop'[l].job = j)
    BY <1>1, <2>1 DEF Report, LoopState
  <2>2. ASSUME Create(l)
        PROVE  loop'[l] = Idle \/ (loop'[l].pc = "eval" /\ loop'[l].job = j)
    BY <2>2, CreateStep
  <2>3. Idle.pc = "idle"
    BY DEF Idle
  <2>. QED
    BY <2>1, <2>2, <2>3 DEF Submit
<1>4. Moves(l, j) /\ ~TookUp(l, j)' /\ ~TookUp(l, j)
  <2>1. Moves(l, j)
    BY <1>1, <1>2, <1>3, MovesOf
  <2>2. ~TookUp(l, j)'
    BY <1>3, NotTaken
  <2>3. ~TookUp(l, j)
    BY DEF Submit, Report, Create, TookUp, ReadItActive
  <2>. QED
    BY <2>1, <2>2, <2>3
<1>5. CASE results' = results
  BY <1>1, <1>2, <1>4, <1>5, LeaveStep
<1>6. CASE results' # results
  <2>1. Create(l) /\ loop[l].pc # "idle"
    BY <1>6 DEF Submit, Report, Create, voteVars
  <2>2. PICK row \in Row : ~Reported(j, row.node) /\ results' = [results EXCEPT ![j] = Append(@, row)]
    BY <1>6, <2>1, CreateStep
  <2>3. row.node \in Nodes /\ row.status \in SiteStatus
        /\ row = [node |-> row.node, status |-> row.status]
    BY DEF Row
  <2>4. phaseOf[j] # "none" /\ phaseOf' = phaseOf
    <3>1. status[j] # "NONE" /\ status[j] \in JobStatus
      BY <1>1, <2>1 DEF PanelInv, LoopKnows, Inv, TypeOK
    <3>2. Phase(status[j]) # "none"
      BY <3>1, Phases
    <3>. QED
      BY <1>1, <1>2, <3>2 DEF phaseOf
  <2>5. holdersOf' = holdersOf
    BY <1>1, <1>4, HoldersMove
  <2>6. \A i \in DOMAIN results[j] : results[j][i].node # row.node
    BY <2>2 DEF Reported
  <2>7. results' = [results EXCEPT ![j] = Append(@, [node |-> row.node, status |-> row.status])]
    BY <2>2, <2>3
  <2>8. Contract!Vote(row.node, row.status, j)
    BY <2>4, <2>5, <2>6, <2>7 DEF Contract!Vote, phaseOf, holdersOf
  <2>. QED
    BY <1>1, <2>3, <2>8, SameVote DEF ContractStep, Contract!Next
<1>. QED
  BY <1>5, <1>6

\* The steps of evaluateConsensus, and a failure, are steps of the contract.
LEMMA EvaluateKeeps ==
  ASSUME Inv, PanelInv, NEW l \in Loops,
         Evaluate(l) \/ Transact(l) \/ Fault(l)
  PROVE  ContractStep
<1>0. PICK j \in Jobs : loop[l].job = j
  BY DEF Inv, TypeOK, LoopState
<1>1. loop \in [Loops -> LoopState] /\ loop[l] \in LoopState /\ loop[l].job = j
      /\ results \in [Jobs -> Seq(Row)]
  BY <1>0 DEF Inv, TypeOK
<1>. USE <1>1
<1>2. Idle.pc = "idle"
  BY DEF Idle
<1>3. results' = results /\ \A m \in Loops \ {l} : loop'[m] = loop[m]
  <2>1. CASE Evaluate(l) \/ Fault(l)
    BY <2>1 DEF Evaluate, EvalJob, EvalTally, EvalProgress, Fault, voteVars
  <2>2. CASE Transact(l)
    BY <2>2 DEF Transact, TxBegin, TxReset, TxMark, TxCommit, voteVars
  <2>. QED
    BY <2>1, <2>2
<1>4. CASE EvalJob(l)
  <2>1. /\ loop'[l].pc = "tally" /\ loop'[l].job = j /\ loop'[l].read = status[j]
        /\ status' = status
    BY <1>1, <1>4 DEF EvalJob, LoopState, jobVars
  <2>2. Moves(l, j)
    BY <1>1, <1>3, <2>1, MovesOf
  <2>3. TookUp(l, j)' <=> status[j] \in Active
    BY <2>1 DEF TookUp, ReadItActive, Active
  <2>. QED
    BY <1>1, <1>3, <2>1, <2>2, <2>3, TakeStep, LeaveStep
<1>5. CASE EvalTally(l)
  <2>1. /\ loop'[l] \in TallyOutcomes(l, results[j]) /\ loop[l].pc = "tally"
        /\ status' = status
    BY <1>1, <1>5 DEF EvalTally, jobVars
  <2>2. \/ loop'[l].pc \in {"begin", "idle"} /\ (loop'[l].job = j \/ loop'[l].pc = "idle")
        \/ /\ loop'[l].pc = "progress" /\ loop'[l].job = j
           /\ loop'[l].read = loop[l].read /\ loop[l].read \in {"ASSIGNED", "PENDING"}
    BY <2>1, TallyPicks
  <2>3. Moves(l, j)
    BY <1>1, <1>3, <2>2, MovesOf
  <2>4. CASE loop'[l].pc \in {"begin", "idle"}
    <3>1. ~TookUp(l, j)'
      BY <2>4, NotTaken
    <3>. QED
      BY <1>1, <1>3, <2>1, <2>3, <3>1, LeaveStep
  <2>5. CASE loop'[l].pc = "progress"
    <3>1. TookUp(l, j)' /\ TookUp(l, j)
      BY <2>1, <2>2, <2>5 DEF TookUp, ReadItActive, Active
    <3>2. holdersOf' = holdersOf
      BY <1>1, <2>3, <3>1, HoldersMove
    <3>3. phaseOf' = phaseOf
      BY <2>1 DEF phaseOf
    <3>. QED
      BY <1>3, <3>2, <3>3 DEF ContractStep
  <2>. QED
    BY <2>2, <2>4, <2>5
<1>6. CASE EvalProgress(l)
  <2>1. /\ TookUp(l, j) /\ loop'[l] = Idle
        /\ status' = [status EXCEPT ![j] = "IN_PROGRESS"]
    BY <1>1, <1>6 DEF EvalProgress, TookUp, ReadItActive, Inv, LoopsSound, Sound
  <2>2. Moves(l, j) /\ "IN_PROGRESS" \in Active
    BY <1>1, <1>2, <1>3, <2>1, MovesOf DEF Active
  <2>. QED
    BY <1>1, <1>3, <2>1, <2>2, WorkStep
<1>7. CASE TxBegin(l) \/ TxReset(l) \/ TxMark(l) \/ Fault(l)
  <2>1. /\ loop'[l].pc \in {"reset", "mark", "commit", "idle"}
        /\ loop'[l].job = j \/ loop'[l].pc = "idle"
        /\ status' = status
    BY <1>1, <1>7 DEF TxBegin, TxReset, TxMark, Fault, Idle, LoopState, jobVars
  <2>2. Moves(l, j) /\ ~TookUp(l, j)'
    BY <1>1, <1>3, <2>1, MovesOf, NotTaken
  <2>. QED
    BY <1>1, <1>3, <2>1, <2>2, LeaveStep
<1>8. CASE TxCommit(l)
  <2>1. /\ loop[l].pc = "commit" /\ loop'[l] = Idle
        /\ status' = [status EXCEPT ![j] = "COMPLETED"]
    BY <1>1, <1>8 DEF TxCommit
  <2>2. phaseOf' = [phaseOf EXCEPT ![j] = "decided"]
    <3>1. phaseOf' = [phaseOf EXCEPT ![j] = Phase("COMPLETED")]
      BY <2>1, PhaseMoves
    <3>. QED
      BY <3>1, Phases
  <2>3. Moves(l, j) /\ ~TookUp(l, j)'
    BY <1>1, <1>2, <1>3, <2>1, MovesOf, NotTaken
  <2>4. ~TookUp(l, j)
    BY <2>1 DEF TookUp, ReadItActive
  <2>5. holdersOf' = holdersOf
    BY <1>1, <2>3, <2>4, HoldersMove
  <2>6. results[j] # <<>> /\ Decided(results[j], PanelSize)
    BY <2>1 DEF PanelInv, LoopKnows, Evaluates, InTransaction, N
  <2>7. Contract!Decide(j)
    BY <1>3, <2>2, <2>5, <2>6, SameVote DEF Contract!Decide, phaseOf, holdersOf
  <2>. QED
    BY <1>1, <2>7 DEF ContractStep, Contract!Next
<1>. QED
  BY <1>4, <1>5, <1>6, <1>7, <1>8 DEF Evaluate, Transact

\* The hub's steps and the passing of time are steps of the contract.
LEMMA HubKeeps ==
  ASSUME Inv, PanelInv, Hub \/ Tick \/ UNCHANGED vars
  PROVE  ContractStep
<1>1. status \in [Jobs -> JobStatus] /\ hub.stale \subseteq Created
  BY DEF Inv, TypeOK, PanelInv
<1>2. results' = results /\ loop' = loop
  BY DEF Hub, HubSchedule, HubReadStale, HubTimeOut, HubFault, Tick, vars, voteVars
<1>3. holdersOf' = holdersOf
  BY <1>2 DEF holdersOf, TookUp, ReadItActive
<1>4. CASE status' = status
  BY <1>2, <1>3, <1>4 DEF ContractStep, phaseOf
<1>5. CASE HubSchedule /\ status' # status
  <2>1. PICK j \in Jobs \ Created : status' = [status EXCEPT ![j] = "PENDING"]
    BY <1>5 DEF HubSchedule
  <2>2. phaseOf[j] = "none"
    BY <2>1, Phases DEF Created, phaseOf
  <2>3. phaseOf' = [phaseOf EXCEPT ![j] = Phase("PENDING")]
    BY <2>1, PhaseMoves
  <2>4. Phase("PENDING") = "open"
    BY Phases DEF Active
  <2>5. Contract!Open(j)
    BY <1>2, <1>3, <2>2, <2>3, <2>4 DEF Contract!Open, phaseOf, holdersOf
  <2>. QED
    BY <2>5 DEF ContractStep, Contract!Next
<1>6. CASE HubTimeOut
  <2>. DEFINE J == hub.stale
  <2>1. J \in SUBSET Jobs
    BY <1>1 DEF Created
  <2>2. \A j \in J : phaseOf[j] # "none"
    <3>1. \A j \in J : j \in Jobs /\ status[j] \in JobStatus /\ status[j] # "NONE"
      BY <1>1 DEF Created
    <3>2. \A j \in J : Phase(status[j]) # "none"
      BY <3>1, Phases
    <3>. QED
      BY <3>1, <3>2 DEF phaseOf
  <2>3. phaseOf' = [j \in Jobs |-> IF j \in J THEN "expired" ELSE phaseOf[j]]
    <3>1. \A j \in Jobs : status'[j] = IF j \in J THEN "TIMED_OUT" ELSE status[j]
      BY <1>6 DEF HubTimeOut
    <3>2. /\ \A j \in J : Phase(status'[j]) = "expired"
          /\ \A j \in Jobs \ J : Phase(status'[j]) = Phase(status[j])
      BY <2>1, <3>1, Phases
    <3>. QED
      BY <3>2 DEF phaseOf
  <2>. HIDE DEF J
  <2>4. Contract!Expire(J)
    BY <1>2, <1>3, <2>2, <2>3 DEF Contract!Expire, phaseOf, holdersOf
  <2>. QED
    BY <2>1, <2>4 DEF ContractStep, Contract!Next
<1>7. status' = status \/ HubSchedule \/ HubTimeOut
  BY DEF Hub, HubReadStale, HubFault, Tick, vars, jobVars
<1>. QED
  BY <1>4, <1>5, <1>6, <1>7

\* The concurrent handlers, the validators and the hub implement the contract
\* of JobContract, in a region with any number of nodes.
THEOREM ContractKept == Spec => KeepsContract
<1>1. Init => Contract!Init
  <2>. SUFFICES ASSUME Init PROVE Contract!Init
    OBVIOUS
  <2>1. \A j \in Jobs : Phase(status[j]) = "none"
    BY Phases DEF Init
  <2>2. \A l \in Loops, j \in Jobs : ~TookUp(l, j)
    BY DEF Init, TookUp, ReadItActive, Idle
  <2>3. results = [j \in Jobs |-> <<>>]
    BY DEF Init
  <2>. QED
    BY <2>1, <2>2, <2>3 DEF Contract!Init
<1>2. Inv /\ PanelInv /\ [Next]_vars => [Contract!Next]_(Contract!contractVars)
  <2>. SUFFICES ASSUME Inv, PanelInv, [Next]_vars PROVE ContractStep
    BY DEF ContractStep, Contract!contractVars, phaseOf, holdersOf
  <2>. QED
    BY PollKeeps, SubmitKeeps, EvaluateKeeps, HubKeeps DEF Next
<1>. QED
  BY <1>1, <1>2, SpecInv, SpecPanel, PTL DEF Spec, KeepsContract, Contract!Spec
=============================================================================

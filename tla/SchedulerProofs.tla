--------------------------- MODULE SchedulerProofs ---------------------------
(***************************************************************************)
(* Theorems of Scheduler, for any number of websites, regions, editors and *)
(* failures.  Spacing is about a job's creation, which comes after the     *)
(* decision that its website is due: time passes and other regions' jobs   *)
(* are created in between.  The invariant carries the decision to the      *)
(* creation: each region still to be served has waited for the interval,   *)
(* counted to the beginning of the tick.                                   *)
(***************************************************************************)
EXTENDS Scheduler, TLAPS

Waited(w, r) == since[w][r] - hub.lag >= hub.interval[w]

LeftWaited ==
  hub.pc = "create" => \A w \in Sites, r \in hub.left : Turn(w) => Waited(w, r)

Inv == TypeOK /\ LeftWaited

LEMMA OldType == Old \in Nat /\ Old >= MaxLag /\ \A i \in Intervals : i \in Nat /\ Old - MaxLag >= i
BY SchedulerAssumption DEF Old

LEMMA WaitingType == Waiting \in HubState
BY SchedulerAssumption DEF Waiting, HubState

LEMMA NoEditType == NoEdit \in EditState
BY SchedulerAssumption DEF NoEdit, EditState, Sites

\* Moving on to another website leaves a tick's state that needs no promise.
LEMMA AfterType ==
  ASSUME hub \in HubState, NEW w
  PROVE  After(w) \in HubState /\ After(w).pc # "create"
<1>1. CASE hub.todo = {w}
  BY <1>1, WaitingType DEF After, Waiting
<1>2. CASE hub.todo # {w}
  BY <1>2 DEF After, HubState
<1>. QED
  BY <1>1, <1>2

LEMMA InitInv == Init => Inv
<1>. SUFFICES ASSUME Init PROVE Inv
  OBVIOUS
<1>1. site \in [Sites -> SiteState]
  BY SchedulerAssumption DEF Init, SiteState
<1>2. since \in [Sites -> [Regions -> 0..Old]]
  BY OldType DEF Init
<1>3. hub \in HubState /\ hub.pc # "create"
  BY WaitingType DEF Init, Waiting
<1>4. edit \in [Editors -> EditState] /\ faults \in 0..MaxFaults
  BY NoEditType, SchedulerAssumption DEF Init
<1>. QED
  BY <1>1, <1>2, <1>3, <1>4 DEF Inv, TypeOK, LeftWaited

-----------------------------------------------------------------------------
\* The website endpoints do not touch the jobs nor the tick in progress.
LEMMA EndpointInv ==
  ASSUME Inv, \/ \E R \in SUBSET Regions, i \in Intervals : CreateSite(R, i)
              \/ \E e \in Editors : Edit(e)
  PROVE  Inv' /\ UNCHANGED <<since, hub>>
<1>. USE DEF Inv
<1>1. ASSUME NEW R \in SUBSET Regions, NEW i \in Intervals, CreateSite(R, i)
      PROVE  Inv' /\ UNCHANGED <<since, hub>>
  <2>1. site' \in [Sites -> SiteState]
    BY <1>1 DEF CreateSite, TypeOK, SiteState
  <2>. QED
    BY <1>1, <2>1 DEF CreateSite, TypeOK, LeftWaited, Turn, Waited
<1>2. ASSUME NEW e \in Editors, NEW w \in Sites, Delete(e, w)
      PROVE  Inv' /\ UNCHANGED <<since, hub>>
  <2>1. [NoEdit EXCEPT !.pc = "delete", !.site = w] \in EditState
    BY NoEditType DEF EditState
  <2>2. edit' \in [Editors -> EditState]
    BY <1>2, <2>1 DEF Delete, TypeOK
  <2>. QED
    BY <1>2, <2>2 DEF Delete, TypeOK, LeftWaited, Turn, Waited
<1>3. ASSUME NEW e \in Editors, NEW w \in Sites, NEW ask \in {"absent", "on", "off"},
             NEW i \in Intervals, Put(e, w, ask, i)
      PROVE  Inv' /\ UNCHANGED <<since, hub>>
  <2>. DEFINE value == IF ask = "absent" THEN site[w].active ELSE ask = "on"
              r == [pc |-> "write", site |-> w, asked |-> (ask = "on"), interval |-> i,
                    active |-> value]
  <2>1. site[w].active \in BOOLEAN
    BY DEF TypeOK, SiteState
  <2>2. value \in BOOLEAN
    BY <2>1
  <2>3. r \in EditState
    <3>. HIDE DEF value
    <3>. QED
      BY <2>2 DEF EditState
  <2>4. edit' = [edit EXCEPT ![e] = r]
    BY <1>3 DEF Put
  <2>5. edit' \in [Editors -> EditState]
    <3>. HIDE DEF r
    <3>. QED
      BY <2>3, <2>4 DEF TypeOK
  <2>. QED
    BY <1>3, <2>5 DEF Put, TypeOK, LeftWaited, Turn, Waited
<1>4. ASSUME NEW e \in Editors, Write(e)
      PROVE  Inv' /\ UNCHANGED <<since, hub>>
  <2>1. edit[e] \in EditState
    BY DEF TypeOK
  <2>2. /\ edit[e].site \in Sites /\ edit[e].active \in BOOLEAN
        /\ edit[e].interval \in Intervals
    BY <2>1 DEF EditState
  <2>3. edit' \in [Editors -> EditState]
    BY <1>4, NoEditType DEF Write, TypeOK
  <2>4. site' \in [Sites -> SiteState]
    <3>1. CASE edit[e].pc = "delete"
      BY <1>4, <2>2, <3>1 DEF Write, TypeOK, SiteState
    <3>2. CASE edit[e].pc # "delete"
      <4>1. [site[edit[e].site] EXCEPT !.active = edit[e].active,
                                       !.interval = edit[e].interval] \in SiteState
        BY <2>2 DEF TypeOK, SiteState
      <4>2. site' = [site EXCEPT ![edit[e].site] =
               [site[edit[e].site] EXCEPT !.active = edit[e].active,
                                          !.interval = edit[e].interval]]
        BY <1>4, <2>2, <3>2 DEF Write, TypeOK
      <4>. QED
        BY <2>2, <4>1, <4>2 DEF TypeOK
    <3>. QED
      BY <3>1, <3>2
  <2>. QED
    BY <1>4, <2>3, <2>4 DEF Write, TypeOK, LeftWaited, Turn, Waited
<1>. QED
  BY <1>1, <1>2, <1>3, <1>4 DEF Edit

\* A tick's start, a look at a website, a failure and the passing of time.
LEMMA TickInv ==
  ASSUME Inv, TickStart \/ HubSite \/ HubFault \/ Time
  PROVE  Inv'
<1>. USE DEF Inv
<1>. hub \in HubState
  BY DEF TypeOK
<1>1. CASE TickStart
  <2>1. [w \in Sites |-> site[w].interval] \in [Sites -> Intervals]
    BY DEF TypeOK, SiteState
  <2>2. ActiveSites \in SUBSET Sites
    BY DEF ActiveSites
  <2>3. hub' \in HubState /\ hub'.pc # "create"
    BY <1>1, <2>1, <2>2, WaitingType DEF TickStart, HubState, Waiting
  <2>. QED
    BY <1>1, <2>3 DEF TickStart, TypeOK, LeftWaited
<1>2. CASE HubSite
  <2>1. PICK w \in Sites :
          /\ Turn(w)
          /\ hub' = IF DueAt(w) /\ site[w].regions # {}
                    THEN [hub EXCEPT !.pc = "create", !.left = site[w].regions]
                    ELSE After(w)
    BY <1>2 DEF HubSite
  <2>2. CASE DueAt(w) /\ site[w].regions # {}
    <3>1. site[w].regions \in SUBSET Regions
      BY DEF TypeOK, SiteState
    <3>2. hub' = [hub EXCEPT !.pc = "create", !.left = site[w].regions]
      BY <2>1, <2>2
    <3>3. hub' \in HubState
      BY <3>1, <3>2 DEF HubState
    <3>4. /\ hub'.todo = hub.todo /\ hub'.lag = hub.lag
          /\ hub'.interval = hub.interval /\ hub'.left = site[w].regions
      BY <3>2 DEF HubState
    <3>5. ASSUME NEW v \in Sites, NEW r \in hub'.left, Turn(v)'
          PROVE  Waited(v, r)'
      <4>1. v = w
        BY <2>1, <3>4, <3>5 DEF Turn, Sites
      <4>2. Waited(w, r)
        BY <2>2, <3>1, <3>4 DEF DueAt, Waited
      <4>. QED
        BY <1>2, <3>4, <4>1, <4>2 DEF HubSite, Waited
    <3>. QED
      BY <1>2, <3>3, <3>5 DEF HubSite, TypeOK, LeftWaited
  <2>3. CASE ~(DueAt(w) /\ site[w].regions # {})
    <3>1. hub' \in HubState /\ hub'.pc # "create"
      BY <2>1, <2>3, AfterType
    <3>. QED
      BY <1>2, <3>1 DEF HubSite, TypeOK, LeftWaited
  <2>. QED
    BY <2>2, <2>3
<1>3. CASE HubFault
  <2>1. hub' \in HubState /\ hub'.pc # "create"
    BY <1>3, WaitingType DEF HubFault, Waiting
  <2>2. faults' \in 0..MaxFaults
    BY <1>3, SchedulerAssumption DEF HubFault, TypeOK
  <2>. QED
    BY <1>3, <2>1, <2>2 DEF HubFault, TypeOK, LeftWaited
<1>4. CASE Time
  <2>1. hub.lag \in 0..MaxLag
    BY DEF HubState
  <2>2. hub' \in HubState
    BY <1>4, <2>1, SchedulerAssumption DEF Time, HubState
  <2>3. since' = [w \in Sites |-> [r \in Regions |-> Older(since[w][r])]]
    BY <1>4 DEF Time
  <2>4. \A w \in Sites, r \in Regions : since[w][r] \in 0..Old
    BY DEF TypeOK
  <2>5. \A w \in Sites, r \in Regions : Older(since[w][r]) \in 0..Old
    BY <2>4, OldType DEF Older
  <2>6. since' \in [Sites -> [Regions -> 0..Old]]
    BY <2>3, <2>5
  <2>7. ASSUME hub'.pc = "create", NEW w \in Sites, NEW r \in hub'.left, Turn(w)'
        PROVE  Waited(w, r)'
    <3>1. /\ hub.pc = "create" /\ hub'.left = hub.left /\ hub'.todo = hub.todo
          /\ hub'.interval = hub.interval /\ hub'.lag = hub.lag + 1
          /\ hub.lag < MaxLag
      BY <1>4, <2>7 DEF Time, HubState
    <3>2. r \in Regions
      BY <2>7, <3>1 DEF HubState
    <3>3. since[w][r] - hub.lag >= hub.interval[w]
      BY <2>7, <3>1 DEF LeftWaited, Waited, Turn
    <3>4. since'[w][r] = Older(since[w][r])
      BY <2>3, <3>2
    <3>5. hub.interval[w] \in Intervals
      BY DEF HubState
    <3>6. since[w][r] \in 0..Old
      BY <2>4, <3>2
    <3>7. Older(since[w][r]) - (hub.lag + 1) >= hub.interval[w]
      <4>1. CASE since[w][r] < Old
        BY <2>1, <3>3, <3>5, <3>6, <4>1, OldType DEF Older
      <4>2. CASE ~(since[w][r] < Old)
        <5>1. Older(since[w][r]) = Old
          BY <4>2 DEF Older
        <5>2. MaxLag \in Nat /\ hub.lag + 1 <= MaxLag
          BY <2>1, <3>1, SchedulerAssumption
        <5>3. /\ Old \in Nat /\ hub.interval[w] \in Nat
              /\ Old - MaxLag >= hub.interval[w]
          BY <3>5, OldType
        <5>. QED
          BY <2>1, <5>1, <5>2, <5>3
      <4>. QED
        BY <4>1, <4>2
    <3>. QED
      BY <3>1, <3>4, <3>7 DEF Waited
  <2>. QED
    BY <1>4, <2>2, <2>6, <2>7 DEF Time, TypeOK, LeftWaited
<1>. QED
  BY <1>1, <1>2, <1>3, <1>4

\* The creation of a job: the region it is created for has waited, and what the
\* others have waited is not changed.
LEMMA CreateInv ==
  ASSUME Inv, HubCreate
  PROVE  /\ Inv'
         /\ \A w \in Sites, r \in Regions :
              since'[w][r] # since[w][r] =>
                since[w][r] - since'[w][r] >= hub.interval[w]
<1>. USE DEF Inv
<1>. hub \in HubState
  BY DEF TypeOK
<1>1. PICK w \in Sites, r \in hub.left :
        /\ Turn(w)
        /\ since' = [since EXCEPT ![w][r] = hub.lag]
        /\ hub' = IF hub.left = {r} THEN After(w) ELSE [hub EXCEPT !.left = @ \ {r}]
  BY DEF HubCreate
<1>2. r \in Regions /\ hub.lag \in 0..MaxLag
  BY DEF HubState
<1>3. Waited(w, r)
  BY <1>1 DEF HubCreate, LeftWaited
<1>4. \A v \in Sites, q \in Regions :
        since'[v][q] = IF v = w /\ q = r THEN hub.lag ELSE since[v][q]
  BY <1>1, <1>2 DEF TypeOK
<1>5. since' \in [Sites -> [Regions -> 0..Old]]
  <2>1. hub.lag \in 0..Old
    BY <1>2, OldType, SchedulerAssumption
  <2>2. [since[w] EXCEPT ![r] = hub.lag] \in [Regions -> 0..Old]
    BY <2>1 DEF TypeOK
  <2>. QED
    BY <1>1, <2>2 DEF TypeOK
<1>6. ASSUME NEW v \in Sites, NEW q \in Regions, since'[v][q] # since[v][q]
      PROVE  since[v][q] - since'[v][q] >= hub.interval[v]
  BY <1>3, <1>4, <1>6 DEF Waited
<1>7. Inv'
  <2>1. CASE hub.left = {r}
    <3>1. hub' \in HubState /\ hub'.pc # "create"
      BY <1>1, <2>1, AfterType
    <3>. QED
      BY <1>5, <3>1 DEF HubCreate, TypeOK, LeftWaited
  <2>2. CASE hub.left # {r}
    <3>1. hub' = [hub EXCEPT !.left = @ \ {r}]
      BY <1>1, <2>2
    <3>2. hub' \in HubState
      BY <3>1 DEF HubState
    <3>3. /\ hub'.left = hub.left \ {r} /\ hub'.todo = hub.todo
          /\ hub'.interval = hub.interval /\ hub'.lag = hub.lag
      BY <3>1 DEF HubState
    <3>4. ASSUME NEW v \in Sites, NEW q \in hub'.left, Turn(v)'
          PROVE  Waited(v, q)'
      <4>1. q # r /\ q \in hub.left /\ q \in Regions
        BY <3>3, <3>4 DEF HubState
      <4>2. Waited(v, q)
        BY <3>3, <3>4, <4>1 DEF HubCreate, LeftWaited, Turn
      <4>3. since'[v][q] = since[v][q]
        BY <1>4, <4>1
      <4>. QED
        BY <3>3, <4>2, <4>3 DEF Waited
    <3>. QED
      BY <1>5, <3>2, <3>4 DEF HubCreate, TypeOK, LeftWaited
  <2>. QED
    BY <2>1, <2>2
<1>. QED
  BY <1>6, <1>7

LEMMA NextInv == Inv /\ [Next]_vars => Inv'
<1>. SUFFICES ASSUME Inv, [Next]_vars PROVE Inv'
  OBVIOUS
<1>1. CASE UNCHANGED vars
  BY <1>1 DEF vars, Inv, TypeOK, LeftWaited, Turn, Waited
<1>. QED
  BY <1>1, EndpointInv, TickInv, CreateInv DEF Next, HubStep

LEMMA SpecInv == Spec => []Inv
BY InitInv, NextInv, PTL DEF Spec

-----------------------------------------------------------------------------
\* Every variable keeps its type.
THEOREM SchedulerTyped == Spec => []TypeOK
<1>1. Inv => TypeOK
  BY DEF Inv
<1>. QED
  BY <1>1, SpecInv, PTL

\* A new job of a region comes at least the interval after the one before,
\* whatever ticks failed or took their time, and whatever was edited.
THEOREM JobsAreSpaced == Spec => Spacing
<1>. DEFINE Step == \A w \in Sites, r \in Regions :
              since'[w][r] < since[w][r] =>
                since[w][r] - since'[w][r] >= hub.interval[w]
<1>1. Inv /\ [Next]_vars => [Step]_vars
  <2>. SUFFICES ASSUME Inv, Next PROVE Step
    BY DEF vars
  <2>1. CASE HubCreate
    <3>. SUFFICES ASSUME NEW w \in Sites, NEW r \in Regions, since'[w][r] < since[w][r]
                  PROVE  since[w][r] - since'[w][r] >= hub.interval[w]
      OBVIOUS
    <3>1. since[w][r] \in Nat
      BY DEF Inv, TypeOK
    <3>2. CASE since'[w][r] = since[w][r]
      BY <3>1, <3>2
    <3>. QED
      BY <2>1, <3>2, CreateInv
  <2>2. CASE Time
    <3>1. ASSUME NEW w \in Sites, NEW r \in Regions
          PROVE  ~(since'[w][r] < since[w][r])
      <4>1. since[w][r] \in 0..Old
        BY DEF Inv, TypeOK
      <4>2. since'[w][r] = Older(since[w][r])
        BY <2>2 DEF Time
      <4>. QED
        BY <4>1, <4>2, OldType DEF Older
    <3>. QED
      BY <3>1
  <2>3. CASE ~HubCreate /\ ~Time
    <3>1. UNCHANGED since
      BY <2>3, EndpointInv DEF Next, HubStep, TickStart, HubSite, HubFault
    <3>2. \A w \in Sites, r \in Regions : since[w][r] \in Nat
      BY DEF Inv, TypeOK
    <3>. QED
      BY <3>1, <3>2
  <2>. QED
    BY <2>1, <2>2, <2>3
<1>. QED
  BY <1>1, SpecInv, PTL DEF Spec, Spacing

-----------------------------------------------------------------------------
\* An edit turns a website on only by asking for it: what it writes else is what
\* the website was when it was read, and a new website did not exist.
LEMMA EndpointOn ==
  ASSUME Inv, NEW w \in Sites, site[w].exists, ~On(w), On(w)',
         \/ \E R \in SUBSET Regions, i \in Intervals : CreateSite(R, i)
         \/ \E e \in Editors : Edit(e)
  PROVE  \E e \in Editors : edit'[e].asked /\ edit'[e].site = w
<1>. /\ site \in [Sites -> SiteState] /\ edit \in [Editors -> EditState]
     /\ site[w] \in SiteState
  BY DEF Inv, TypeOK
<1>1. ASSUME NEW R \in SUBSET Regions, NEW i \in Intervals, CreateSite(R, i)
      PROVE  FALSE
  <2>1. PICK v \in Sites :
          /\ ~site[v].exists
          /\ site' = [site EXCEPT ![v] = [exists |-> TRUE, active |-> TRUE,
                                          regions |-> R, interval |-> i]]
    BY <1>1 DEF CreateSite
  <2>2. v # w
    BY <2>1
  <2>3. site'[w] = site[w] /\ edit' = edit
    BY <1>1, <2>1, <2>2 DEF CreateSite
  <2>. QED
    BY <2>3 DEF On
<1>2. ASSUME NEW e \in Editors, NEW v \in Sites, Delete(e, v)
      PROVE  FALSE
  <2>1. /\ site' = site /\ edit'[e].pc = "delete"
        /\ \A f \in Editors \ {e} : edit'[f] = edit[f]
    BY <1>2, NoEditType DEF Delete, EditState
  <2>. QED
    BY <2>1 DEF On
<1>3. ASSUME NEW e \in Editors, NEW v \in Sites, NEW ask \in {"absent", "on", "off"},
             NEW i \in Intervals, Put(e, v, ask, i)
      PROVE  edit'[e].asked /\ edit'[e].site = w
  <2>1. /\ site' = site /\ edit'[e].site = v /\ edit'[e].asked = (ask = "on")
        /\ edit'[e].active = IF ask = "absent" THEN site[v].active ELSE ask = "on"
        /\ \A f \in Editors \ {e} : edit'[f] = edit[f]
    BY <1>3 DEF Put
  <2>2. v = w /\ edit'[e].active
    BY <2>1 DEF On
  <2>3. ~site[w].active
    BY DEF On
  <2>. QED
    BY <2>1, <2>2, <2>3
<1>4. ASSUME NEW e \in Editors, Write(e)
      PROVE  FALSE
  <2>1. edit'[e].pc = "idle" /\ \A f \in Editors \ {e} : edit'[f] = edit[f]
    BY <1>4 DEF Write, NoEdit
  <2>2. site'[w].active
    BY <2>1 DEF On
  <2>3. edit[e].pc # "idle" /\ edit[e].pc \in {"idle", "write", "delete"}
    BY <1>4 DEF Write, EditState
  <2>4. CASE edit[e].pc = "delete"
    <3>1. site' = [site EXCEPT ![edit[e].site].active = FALSE]
      BY <1>4, <2>4 DEF Write
    <3>2. site'[w].active = site[w].active \/ site'[w].active = FALSE
      BY <3>1 DEF SiteState
    <3>. QED
      BY <2>2, <3>2 DEF On
  <2>5. CASE edit[e].pc = "write"
    <3>1. site' = [site EXCEPT ![edit[e].site].active = edit[e].active,
                               ![edit[e].site].interval = edit[e].interval]
      BY <1>4, <2>5 DEF Write
    <3>2. CASE edit[e].site = w
      BY <2>2, <2>5, <3>1, <3>2 DEF On, SiteState
    <3>3. CASE edit[e].site # w
      BY <2>2, <3>1, <3>3 DEF On
    <3>. QED
      BY <3>2, <3>3
  <2>. QED
    BY <2>3, <2>4, <2>5
<1>. QED
  BY <1>1, <1>2, <1>3, <1>4 DEF Edit

\* A website that is off stays off until a request asks to turn it on.
THEOREM OffIsRespected == Spec => OffStaysOff
<1>. DEFINE Step == \A w \in Sites :
              site[w].exists /\ ~On(w) /\ On(w)' =>
                \E e \in Editors : edit'[e].asked /\ edit'[e].site = w
<1>1. Inv /\ [Next]_vars => [Step]_vars
  <2>. SUFFICES ASSUME Inv, Next PROVE Step
    BY DEF vars
  <2>. SUFFICES ASSUME NEW w \in Sites, site[w].exists, ~On(w), On(w)'
                PROVE  \E e \in Editors : edit'[e].asked /\ edit'[e].site = w
    OBVIOUS
  <2>1. CASE HubStep \/ HubFault \/ Time
    <3>1. UNCHANGED <<site, edit>>
      BY <2>1 DEF Time, HubStep, TickStart, HubSite, HubCreate, HubFault
    <3>. QED
      BY <3>1 DEF On
  <2>. QED
    BY <2>1, EndpointOn DEF Next
<1>. QED
  BY <1>1, SpecInv, PTL DEF Spec, OffStaysOff

-----------------------------------------------------------------------------
\* A website that is not there has no jobs, and a tick works on rows.
Unborn ==
  /\ \A w \in Sites : ~site[w].exists => \A r \in Regions : since[w][r] = Old
  /\ \A w \in hub.todo : site[w].exists

\* The newest jobs of the website's regions are of one tick.
Level(w) == \A r, q \in site[w].regions : since[w][r] = since[w][q]

\* The website a tick is at: the regions it has served are as old as the tick,
\* the ones it has left are still of one tick before.
Halfway(w) ==
  /\ hub.left \subseteq site[w].regions
  /\ \A r \in site[w].regions \ hub.left : since[w][r] = hub.lag
  /\ \A r, q \in hub.left : since[w][r] = since[w][q]

Stepping ==
  faults = 0 =>
    \A w \in Sites : IF hub.pc = "create" /\ Turn(w) THEN Halfway(w) ELSE Level(w)

StepInv == Inv /\ Unborn /\ Stepping

LEMMA InitStep == Init => StepInv
<1>. SUFFICES ASSUME Init PROVE StepInv
  OBVIOUS
<1>1. Inv
  BY InitInv
<1>2. hub.pc = "idle" /\ hub.todo = {}
  BY DEF Init, Waiting
<1>3. Unborn /\ Stepping
  BY <1>2, SchedulerAssumption DEF Init, Unborn, Stepping, Level
<1>. QED
  BY <1>1, <1>3 DEF StepInv

\* An edit keeps a website and its regions; a new website has no jobs.
LEMMA EndpointStep ==
  ASSUME StepInv, \/ \E R \in SUBSET Regions, i \in Intervals : CreateSite(R, i)
                  \/ \E e \in Editors : Edit(e)
  PROVE  StepInv'
<1>1. Inv' /\ UNCHANGED <<since, hub, faults>>
  <2>1. UNCHANGED faults
    BY DEF CreateSite, Edit, Put, Delete, Write
  <2>. QED
    BY <2>1, EndpointInv DEF StepInv
<1>. site \in [Sites -> SiteState] /\ site' \in [Sites -> SiteState]
  BY <1>1 DEF StepInv, Inv, TypeOK
<1>2. ASSUME NEW w \in Sites, site[w].exists
      PROVE  site'[w].exists /\ site'[w].regions = site[w].regions
  <2>1. CASE \E R \in SUBSET Regions, i \in Intervals : CreateSite(R, i)
    <3>1. site'[w] = site[w]
      BY <1>2, <2>1 DEF CreateSite
    <3>. QED
      BY <1>2, <3>1
  <2>2. ASSUME NEW e \in Editors, Edit(e)
        PROVE  site'[w].exists /\ site'[w].regions = site[w].regions
    <3>1. CASE Write(e)
      <4>1. CASE edit[e].pc = "delete"
        <5>1. site' = [site EXCEPT ![edit[e].site].active = FALSE]
          BY <3>1, <4>1 DEF Write
        <5>. QED
          BY <1>2, <5>1 DEF SiteState
      <4>2. CASE edit[e].pc # "delete"
        <5>1. site' = [site EXCEPT ![edit[e].site].active = edit[e].active,
                                   ![edit[e].site].interval = edit[e].interval]
          BY <3>1, <4>2 DEF Write
        <5>. QED
          BY <1>2, <5>1 DEF SiteState
      <4>. QED
        BY <4>1, <4>2
    <3>2. CASE ~Write(e)
      <4>1. site' = site
        BY <2>2, <3>2 DEF Edit, Put, Delete
      <4>. QED
        BY <1>2, <4>1
    <3>. QED
      BY <3>1, <3>2
  <2>. QED
    BY <2>1, <2>2
<1>3. \A w \in Sites : site[w].regions \subseteq Regions /\ site'[w].regions \subseteq Regions
  BY DEF SiteState
<1>4. hub.todo \subseteq Sites
  BY DEF StepInv, Inv, TypeOK, HubState
<1>5. Unborn'
  BY <1>1, <1>2, <1>4 DEF StepInv, Unborn
<1>6. Stepping'
  <2>. SUFFICES ASSUME faults = 0, NEW w \in Sites
                PROVE  (IF hub.pc = "create" /\ Turn(w) THEN Halfway(w) ELSE Level(w))'
    BY <1>1 DEF Stepping
  <2>1. IF hub.pc = "create" /\ Turn(w) THEN Halfway(w) ELSE Level(w)
    BY DEF StepInv, Stepping
  <2>2. CASE site[w].exists
    BY <1>1, <1>2, <2>1, <2>2 DEF Turn, Halfway, Level
  <2>3. CASE ~site[w].exists
    <3>1. \A r \in Regions : since'[w][r] = Old
      BY <1>1, <2>3 DEF StepInv, Unborn
    <3>2. Level(w)'
      BY <1>3, <3>1 DEF Level
    <3>3. ~Turn(w)'
      BY <1>1, <2>3 DEF StepInv, Unborn, Turn
    <3>. QED
      BY <3>2, <3>3
  <2>. QED
    BY <2>2, <2>3
<1>. QED
  BY <1>1, <1>5, <1>6 DEF StepInv

\* A tick's start, a look at a website and a failure.
LEMMA TickStep ==
  ASSUME StepInv, TickStart \/ HubSite \/ HubFault
  PROVE  StepInv'
<1>. /\ hub \in HubState /\ faults \in Nat /\ site \in [Sites -> SiteState]
  BY SchedulerAssumption DEF StepInv, Inv, TypeOK
<1>1. Inv' /\ UNCHANGED <<site, since>>
  BY TickInv DEF StepInv, TickStart, HubSite, HubFault
<1>2. CASE TickStart
  <2>1. hub'.pc = "site" /\ hub'.todo = ActiveSites /\ hub.pc = "idle" /\ faults' = faults
    BY <1>2 DEF TickStart, Waiting
  <2>2. Unborn'
    BY <1>1, <2>1 DEF StepInv, Unborn, ActiveSites
  <2>3. Stepping'
    BY <1>1, <2>1 DEF StepInv, Stepping, Level
  <2>. QED
    BY <1>1, <2>2, <2>3 DEF StepInv
<1>3. CASE HubSite
  <2>1. hub.pc = "site" /\ faults' = faults
    BY <1>3 DEF HubSite
  <2>2. PICK w \in Sites :
          /\ Turn(w)
          /\ hub' = IF DueAt(w) /\ site[w].regions # {}
                    THEN [hub EXCEPT !.pc = "create", !.left = site[w].regions]
                    ELSE After(w)
    BY <1>3 DEF HubSite
  <2>3. CASE DueAt(w) /\ site[w].regions # {}
    <3>1. hub'.pc = "create" /\ hub'.todo = hub.todo /\ hub'.left = site[w].regions
      BY <2>2, <2>3 DEF HubState
    <3>2. \A v \in Sites : Turn(v)' => v = w
      BY <2>2, <3>1 DEF Turn, Sites
    <3>3. Unborn'
      BY <1>1, <3>1 DEF StepInv, Unborn
    <3>4. faults = 0 => \A v \in Sites : Level(v)
      BY <2>1 DEF StepInv, Stepping
    <3>5. faults = 0 => (\A v \in Sites : Level(v))' /\ Halfway(w)'
      BY <1>1, <3>1, <3>4 DEF Level, Halfway
    <3>6. Stepping'
      BY <2>1, <3>2, <3>5 DEF Stepping
    <3>. QED
      BY <1>1, <3>3, <3>6 DEF StepInv
  <2>4. CASE ~(DueAt(w) /\ site[w].regions # {})
    <3>1. hub' = After(w)
      BY <2>2, <2>4
    <3>2. hub'.todo \subseteq hub.todo /\ hub'.pc # "create"
      BY <3>1 DEF After, Waiting, HubState
    <3>3. Unborn'
      BY <1>1, <3>2 DEF StepInv, Unborn
    <3>4. Stepping'
      BY <1>1, <2>1, <3>2 DEF StepInv, Stepping, Level
    <3>. QED
      BY <1>1, <3>3, <3>4 DEF StepInv
  <2>. QED
    BY <2>3, <2>4
<1>4. CASE HubFault
  <2>1. faults' # 0 /\ hub'.todo = {}
    BY <1>4 DEF HubFault, Waiting
  <2>2. Unborn' /\ Stepping'
    BY <1>1, <2>1 DEF StepInv, Unborn, Stepping
  <2>. QED
    BY <1>1, <2>2 DEF StepInv
<1>. QED
  BY <1>2, <1>3, <1>4

\* Jobs of one age grow old together, and as fast as the tick that made them.
LEMMA TimeStep ==
  ASSUME StepInv, Time
  PROVE  StepInv'
<1>1. Inv' /\ UNCHANGED <<site, faults>>
  BY TickInv DEF StepInv, Time
<1>. /\ hub \in HubState /\ site \in [Sites -> SiteState]
     /\ \A w \in Sites : site[w].regions \subseteq Regions
  BY DEF StepInv, Inv, TypeOK, SiteState
<1>2. /\ hub'.pc = hub.pc /\ hub'.todo = hub.todo /\ hub'.left = hub.left
      /\ hub.pc # "idle" => hub'.lag = hub.lag + 1 /\ hub.lag < MaxLag
  BY DEF Time, HubState
<1>3. \A w \in Sites, r \in Regions : since'[w][r] = Older(since[w][r])
  BY DEF Time
<1>4. Unborn'
  <2>1. Older(Old) = Old
    BY OldType DEF Older
  <2>2. hub.todo \subseteq Sites
    BY DEF HubState
  <2>. QED
    BY <1>1, <1>2, <1>3, <2>1, <2>2 DEF StepInv, Unborn
<1>5. Stepping'
  <2>. SUFFICES ASSUME faults = 0, NEW w \in Sites
                PROVE  (IF hub.pc = "create" /\ Turn(w) THEN Halfway(w) ELSE Level(w))'
    BY <1>1 DEF Stepping
  <2>1. CASE hub.pc = "create" /\ Turn(w)
    <3>1. Halfway(w)
      BY <2>1 DEF StepInv, Stepping
    <3>2. Older(hub.lag) = hub'.lag
      <4>1. hub.lag \in Nat /\ MaxLag \in Nat /\ hub.lag < MaxLag /\ hub'.lag = hub.lag + 1
        BY <1>2, <2>1, SchedulerAssumption DEF HubState
      <4>. QED
        BY <4>1, OldType DEF Older
    <3>3. Halfway(w)'
      BY <1>1, <1>2, <1>3, <3>1, <3>2 DEF Halfway
    <3>. QED
      BY <1>2, <2>1, <3>3 DEF Turn
  <2>2. CASE ~(hub.pc = "create" /\ Turn(w))
    <3>1. Level(w)
      BY <2>2 DEF StepInv, Stepping
    <3>2. Level(w)'
      BY <1>1, <1>3, <3>1 DEF Level
    <3>. QED
      BY <1>2, <2>2, <3>2 DEF Turn
  <2>. QED
    BY <2>1, <2>2
<1>. QED
  BY <1>1, <1>4, <1>5 DEF StepInv

\* A region is served; with the last of them the website is level again.
LEMMA CreateStep ==
  ASSUME StepInv, HubCreate
  PROVE  StepInv'
<1>1. Inv' /\ UNCHANGED <<site, faults>>
  BY CreateInv DEF StepInv, HubCreate
<1>. /\ hub \in HubState /\ site \in [Sites -> SiteState]
     /\ since \in [Sites -> [Regions -> 0..Old]]
     /\ \A w \in Sites : site[w].regions \subseteq Regions
  BY DEF StepInv, Inv, TypeOK, SiteState
<1>2. PICK w \in Sites, r \in hub.left :
        /\ Turn(w)
        /\ since' = [since EXCEPT ![w][r] = hub.lag]
        /\ hub' = IF hub.left = {r} THEN After(w) ELSE [hub EXCEPT !.left = @ \ {r}]
  BY DEF HubCreate
<1>3. hub.pc = "create" /\ site[w].exists /\ r \in Regions
  BY <1>2 DEF HubCreate, StepInv, Unborn, Turn, HubState
<1>4. \A v \in Sites, q \in Regions :
        since'[v][q] = IF v = w /\ q = r THEN hub.lag ELSE since[v][q]
  BY <1>2, <1>3
<1>5. \A v \in Sites : Turn(v) => v = w
  BY <1>2 DEF Turn, Sites
<1>6. ASSUME faults = 0, NEW v \in Sites, v # w PROVE Level(v)'
  <2>1. Level(v)
    BY <1>5, <1>6 DEF StepInv, Stepping
  <2>. QED
    BY <1>1, <1>4, <1>6, <2>1 DEF Level
<1>7. faults = 0 => Halfway(w)
  BY <1>2, <1>3 DEF StepInv, Stepping
<1>8. CASE hub.left = {r}
  <2>1. hub' = After(w)
    BY <1>2, <1>8
  <2>2. hub'.todo \subseteq hub.todo /\ hub'.pc # "create"
    BY <2>1 DEF After, Waiting, HubState
  <2>3. Unborn'
    BY <1>1, <1>3, <1>4, <2>2 DEF StepInv, Unborn
  <2>4. faults = 0 => Level(w)'
    BY <1>1, <1>4, <1>7, <1>8 DEF Level, Halfway
  <2>5. Stepping'
    BY <1>1, <1>6, <2>2, <2>4 DEF Stepping
  <2>. QED
    BY <1>1, <2>3, <2>5 DEF StepInv
<1>9. CASE hub.left # {r}
  <2>1. hub' = [hub EXCEPT !.left = @ \ {r}]
    BY <1>2, <1>9
  <2>2. /\ hub'.todo = hub.todo /\ hub'.pc = "create" /\ hub'.lag = hub.lag
        /\ hub'.left = hub.left \ {r}
    BY <1>3, <2>1 DEF HubState
  <2>3. Unborn'
    BY <1>1, <1>3, <1>4, <2>2 DEF StepInv, Unborn
  <2>4. faults = 0 => Halfway(w)'
    BY <1>1, <1>4, <1>7, <2>2 DEF Halfway
  <2>5. Turn(w)'
    BY <1>2, <2>2 DEF Turn
  <2>6. \A v \in Sites : Turn(v)' => v = w
    BY <1>5, <2>2 DEF Turn
  <2>7. Stepping'
    BY <1>1, <1>6, <2>2, <2>4, <2>5, <2>6 DEF Stepping
  <2>. QED
    BY <1>1, <2>3, <2>7 DEF StepInv
<1>. QED
  BY <1>8, <1>9

LEMMA NextStep == StepInv /\ [Next]_vars => StepInv'
<1>. SUFFICES ASSUME StepInv, [Next]_vars PROVE StepInv'
  OBVIOUS
<1>1. CASE UNCHANGED vars
  <2>1. Inv'
    BY <1>1, NextInv DEF StepInv
  <2>2. Unborn' /\ Stepping'
    BY <1>1 DEF vars, StepInv, Unborn, Stepping, Level, Halfway, Turn
  <2>. QED
    BY <2>1, <2>2 DEF StepInv
<1>. QED
  BY <1>1, EndpointStep, TickStep, TimeStep, CreateStep DEF Next, HubStep

(***************************************************************************)
(* As long as no tick fails, the newest jobs of a website's regions are of *)
(* one tick, except while a tick is at that website: whatever is created,  *)
(* edited or turned off meanwhile, however long a tick takes.              *)
(***************************************************************************)
THEOREM RegionsStayInStep == Spec => []RegionsInStep
<1>1. StepInv => RegionsInStep
  BY DEF StepInv, Stepping, RegionsInStep, Level
<1>. QED
  BY <1>1, InitStep, NextStep, PTL DEF Spec
=============================================================================

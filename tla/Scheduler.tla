------------------------------ MODULE Scheduler ------------------------------
(***************************************************************************)
(* Which jobs come to exist: the website endpoints of the API, which       *)
(* create, change and deactivate websites, and the first half of the hub's *)
(* scheduleDueJobs, which reads the active websites once per tick and then *)
(* works through them, one call to the database after the other, creating  *)
(* a job per region for each website that is due.  (What happens to a job  *)
(* afterwards is module JobService.)                                       *)
(*                                                                         *)
(* There is one hub, and its running flag keeps a tick that the timer      *)
(* starts early from doing anything, so ticks follow each other.  A job is *)
(* represented by its age; only the newest job of a region matters.        *)
(***************************************************************************)
EXTENDS Integers, FiniteSets

CONSTANTS
  MaxSites,   \* bound: websites that are ever created
  Regions,    \* the regions a website may ask for
  MaxInterval,\* the greatest intervalSeconds the API lets through
  Intervals,  \* the values of intervalSeconds in use, in units of time
  MaxLag,     \* bound: the time a tick takes
  Editors,    \* PUT and DELETE handlers that may be in progress together
  MaxFaults   \* bound: ticks that fail or are cut off

ASSUME SchedulerAssumption ==
  /\ MaxSites \in Nat \ {0}
  /\ IsFiniteSet(Regions)
  /\ MaxInterval \in Intervals
  /\ MaxInterval \in Nat
  /\ Intervals \subseteq 1..MaxInterval
  /\ MaxLag \in Nat
  /\ MaxFaults \in Nat

VARIABLES
  site,    \* the Website rows with their regions
  since,   \* time since scheduledAt of the region's newest job, up to Old
  hub,     \* the tick: where it is, the websites left, the regions left
  edit,    \* each handler: what it is about to write; asked: to turn it on
  faults

vars == <<site, since, hub, edit, faults>>

Sites == 1..MaxSites     \* in the order of createdAt

\* No job at all, or one so old that it makes no difference any more.
Old == MaxInterval + MaxLag

Waiting == [pc |-> "idle", todo |-> {}, left |-> {}, lag |-> 0,
            interval |-> [w \in Sites |-> MaxInterval]]

NoEdit == [pc |-> "idle", site |-> 1, active |-> FALSE, interval |-> MaxInterval,
           asked |-> FALSE]

Init ==
  /\ site = [w \in Sites |-> [exists |-> FALSE, active |-> FALSE, regions |-> {},
                              interval |-> MaxInterval]]
  /\ since = [w \in Sites |-> [r \in Regions |-> Old]]
  /\ hub = Waiting
  /\ edit = [e \in Editors |-> NoEdit]
  /\ faults = 0

-----------------------------------------------------------------------------
\* The website endpoints

\* POST /websites: any regions, also none.
CreateSite(R, i) ==
  /\ \E w \in Sites :
       /\ ~site[w].exists
       /\ \A v \in Sites : v < w => site[v].exists
       /\ site' = [site EXCEPT ![w] = [exists |-> TRUE, active |-> TRUE,
                                       regions |-> R, interval |-> i]]
  /\ UNCHANGED <<since, hub, edit, faults>>

\* Mutant: a field the body does not mention gets the default of a new row.
PutDefault(e, w, ask, i) ==
  /\ edit[e].pc = "idle"
  /\ site[w].exists
  /\ edit' = [edit EXCEPT ![e] =
                [pc |-> "write", site |-> w, asked |-> (ask = "on"), interval |-> i,
                 active |-> ask # "off"]]
  /\ UNCHANGED <<site, since, hub, faults>>

\* What PUT /websites/:id will write: what the body asks for and, where the
\* body is silent, what the row holds now.
Put(e, w, ask, i) ==
  /\ edit[e].pc = "idle"
  /\ site[w].exists
  /\ edit' = [edit EXCEPT ![e] =
                [pc |-> "write", site |-> w, asked |-> (ask = "on"), interval |-> i,
                 active |-> IF ask = "absent" THEN site[w].active ELSE ask = "on"]]
  /\ UNCHANGED <<site, since, hub, faults>>

\* DELETE /websites/:id only turns the website off.
Delete(e, w) ==
  /\ edit[e].pc = "idle"
  /\ site[w].exists
  /\ edit' = [edit EXCEPT ![e] = [NoEdit EXCEPT !.pc = "delete", !.site = w]]
  /\ UNCHANGED <<site, since, hub, faults>>

Write(e) ==
  /\ edit[e].pc # "idle"
  /\ site' = IF edit[e].pc = "delete"
             THEN [site EXCEPT ![edit[e].site].active = FALSE]
             ELSE [site EXCEPT ![edit[e].site].active = edit[e].active,
                               ![edit[e].site].interval = edit[e].interval]
  /\ edit' = [edit EXCEPT ![e] = NoEdit]
  /\ UNCHANGED <<since, hub, faults>>

-----------------------------------------------------------------------------
\* A tick of the hub

ActiveSites == {w \in Sites : site[w].exists /\ site[w].active}

\* websites is read once: who is active, and the intervals they have now.
TickStart ==
  /\ hub.pc = "idle"
  /\ ActiveSites # {}
  /\ hub' = [Waiting EXCEPT !.pc = "site", !.todo = ActiveSites,
                            !.interval = [w \in Sites |-> site[w].interval]]
  /\ UNCHANGED <<site, since, edit, faults>>

\* On to the next website, after w; the tick ends with the last one.
After(w) ==
  IF hub.todo = {w}
  THEN Waiting
  ELSE [hub EXCEPT !.pc = "site", !.todo = @ \ {w}, !.left = {}]

Turn(w) == w \in hub.todo /\ \A v \in hub.todo : w <= v

\* Mutant: the oldest job of a region counts instead of the newest.
DueAtOldest(w) ==
  \E r \in site[w].regions : since[w][r] - hub.lag >= hub.interval[w]

\* Mutant: a website without a job is not due.
DueWithJob(w) ==
  /\ \A r \in Regions : since[w][r] - hub.lag >= hub.interval[w]
  /\ \E r \in Regions : since[w][r] < Old

\* The newest job of the website in any region was scheduled at least its
\* interval before this tick began; there may be none.
DueAt(w) == \A r \in Regions : since[w][r] - hub.lag >= hub.interval[w]

\* The next website's newest job is looked up; a website that is not due, or
\* has no region, is passed over.
HubSite ==
  /\ hub.pc = "site"
  /\ \E w \in Sites :
       /\ Turn(w)
       /\ hub' = IF DueAt(w) /\ site[w].regions # {}
                 THEN [hub EXCEPT !.pc = "create", !.left = site[w].regions]
                 ELSE After(w)
  /\ UNCHANGED <<site, since, edit, faults>>

\* Mutant: a website is done with after the first of its regions.
HubCreateFirst ==
  /\ hub.pc = "create"
  /\ \E w \in Sites, r \in hub.left :
       /\ Turn(w)
       /\ since' = [since EXCEPT ![w][r] = hub.lag]
       /\ hub' = After(w)
  /\ UNCHANGED <<site, edit, faults>>

\* Mutant: scheduledAt is the next unit of time.
HubCreateAhead ==
  /\ hub.pc = "create"
  /\ \E w \in Sites, r \in hub.left :
       /\ Turn(w)
       /\ since' = [since EXCEPT ![w][r] = hub.lag - 1]
       /\ hub' = IF hub.left = {r} THEN After(w) ELSE [hub EXCEPT !.left = @ \ {r}]
  /\ UNCHANGED <<site, edit, faults>>

\* job.create for one region; scheduledAt is the time the tick began.
HubCreate ==
  /\ hub.pc = "create"
  /\ \E w \in Sites, r \in hub.left :
       /\ Turn(w)
       /\ since' = [since EXCEPT ![w][r] = hub.lag]
       /\ hub' = IF hub.left = {r} THEN After(w) ELSE [hub EXCEPT !.left = @ \ {r}]
  /\ UNCHANGED <<site, edit, faults>>

\* A call fails, and with it the rest of the tick, or the hub restarts.
HubFault ==
  /\ hub.pc # "idle"
  /\ faults < MaxFaults
  /\ faults' = faults + 1
  /\ hub' = Waiting
  /\ UNCHANGED <<site, since, edit>>

Older(age) == IF age < Old THEN age + 1 ELSE Old

Time ==
  /\ hub.pc # "idle" => hub.lag < MaxLag
  /\ since' = [w \in Sites |-> [r \in Regions |-> Older(since[w][r])]]
  /\ hub' = IF hub.pc = "idle" THEN hub ELSE [hub EXCEPT !.lag = @ + 1]
  /\ UNCHANGED <<site, edit, faults>>

HubStep == TickStart \/ HubSite \/ HubCreate

Edit(e) ==
  \/ \E w \in Sites : Delete(e, w)
  \/ \E w \in Sites, ask \in {"absent", "on", "off"}, i \in Intervals : Put(e, w, ask, i)
  \/ Write(e)

Next ==
  \/ \E R \in SUBSET Regions, i \in Intervals : CreateSite(R, i)
  \/ \E e \in Editors : Edit(e)
  \/ HubStep \/ HubFault
  \/ Time

Spec == Init /\ [][Next]_vars

\* Time passes, and the timer keeps starting ticks that run on to their end.
FairSpec == Spec /\ WF_vars(HubStep) /\ WF_vars(Time)

-----------------------------------------------------------------------------
\* Properties

SiteState == [exists : BOOLEAN, active : BOOLEAN, regions : SUBSET Regions, interval : Intervals]

HubState == [pc : {"idle", "site", "create"}, todo : SUBSET Sites, left : SUBSET Regions,
             lag : 0..MaxLag, interval : [Sites -> Intervals]]

EditState == [pc : {"idle", "write", "delete"}, site : Sites, active : BOOLEAN,
              interval : Intervals, asked : BOOLEAN]

\* Every variable has its type.
TypeOK ==
  /\ site \in [Sites -> SiteState]
  /\ since \in [Sites -> [Regions -> 0..Old]]
  /\ hub \in HubState
  /\ edit \in [Editors -> EditState]
  /\ faults \in 0..MaxFaults

(***************************************************************************)
(* No region is checked too often: a new job of a region is scheduled at   *)
(* least the website's interval after the one before, also when the tick   *)
(* between was cut off half way through the regions, or took long.  (The   *)
(* interval is the one the tick has read.)                                 *)
(***************************************************************************)
Spacing ==
  [][\A w \in Sites, r \in Regions :
       since'[w][r] < since[w][r] =>
         since[w][r] - since'[w][r] >= hub.interval[w]]_vars

(***************************************************************************)
(* The regions of a website are checked together: unless a tick has failed *)
(* or is at that website, the newest jobs of its regions are of one tick.  *)
(***************************************************************************)
RegionsInStep ==
  faults = 0 =>
    \A w \in Sites :
      (hub.pc = "create" => ~Turn(w)) =>
        \A r, q \in site[w].regions : since[w][r] = since[w][q]

(***************************************************************************)
(* Every region of a website that stays active is checked again and again, *)
(* though ticks fail, other websites come first, and edits overlap.        *)
(***************************************************************************)
EveryRegionChecked ==
  \A w \in Sites : \A r \in Regions :
    <>[](w \in ActiveSites /\ r \in site[w].regions) => []<>(since[w][r] < Old)

\* Who has a website on, or is about to turn it on.
On(w) ==
  \/ site[w].active
  \/ \E e \in Editors : edit[e].pc = "write" /\ edit[e].site = w /\ edit[e].active

(***************************************************************************)
(* A website that is off stays off, whatever edits of it overlap, until a  *)
(* request asks to turn this very one on: once no PUT that has read it as  *)
(* active is in progress.  (Such a PUT undoes a DELETE between its read    *)
(* and its write.)                                                         *)
(***************************************************************************)
OffStaysOff ==
  [][\A w \in Sites :
       site[w].exists /\ ~On(w) /\ On(w)' =>
         \E e \in Editors : edit'[e].asked /\ edit'[e].site = w]_vars
=============================================================================

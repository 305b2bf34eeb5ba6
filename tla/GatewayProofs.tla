---------------------------- MODULE GatewayProofs ----------------------------
(***************************************************************************)
(* Theorems of Gateway, for any number of nodes, regions, registrations    *)
(* and failures.  Both properties compare a request that was sent some     *)
(* time ago with a row that may have been written since; what carries them *)
(* is that a registration only ever raises the numbers of the row, so that *)
(* no credential and no "since" in a request is newer than the row.        *)
(***************************************************************************)
EXTENDS Gateway, FiniteSetTheorems, SequenceTheorems, TLAPS

\* The part of TypeOK the theorems need: without the panels and the list of
\* heartbeats.
RowType == [exists : BOOLEAN, region : Regions, key : Nat, secret : Nat]
ConfType == [up : BOOLEAN, key : Nat, secret : Nat]
ReqType == [pc : {"idle", "sent", "passed", "panel", "refused", "job"},
            kind : {"beat", "poll", "result"}, cred : Nat, since : Nat,
            error : {"none", "plain", "url"}, region : Regions, named : SUBSET Nodes]

Typed ==
  /\ row \in [Nodes -> RowType]
  /\ conf \in [Nodes -> ConfType]
  /\ req \in [Nodes -> ReqType]

\* What the row holds for the kind of request that is on its way.
Current(n) == IF req[n].kind = "result" THEN row[n].secret ELSE row[n].key

\* Nothing is newer than the row; a refused request is a result.
NothingNewer(n) ==
  /\ conf[n].key <= row[n].key /\ conf[n].secret <= row[n].secret
  /\ conf[n].up \/ req[n].pc # "idle" => row[n].exists
  /\ req[n].pc \in {"sent", "passed", "refused"} =>
       req[n].since <= Current(n) /\ req[n].cred <= Current(n)
  /\ req[n].pc = "refused" => req[n].kind = "result"

Inv == Typed /\ ReplacedCredentialsAreDead /\ \A n \in Nodes : NothingNewer(n)

LEMMA NoRequestType == NoRequest \in ReqType /\ NoRequest.pc = "idle"
BY GatewayAssumption DEF NoRequest, ReqType

LEMMA InitInv == Init => Inv
<1>. SUFFICES ASSUME Init PROVE Inv
  OBVIOUS
<1>1. row \in [Nodes -> RowType]
  BY GatewayAssumption DEF Init, RowType
<1>2. conf \in [Nodes -> ConfType] /\ \A n \in Nodes : conf[n] = [up |-> FALSE, key |-> 0, secret |-> 0]
  BY DEF Init, ConfType
<1>3. req \in [Nodes -> ReqType] /\ \A n \in Nodes : req[n].pc = "idle"
  BY NoRequestType DEF Init
<1>. QED
  BY <1>1, <1>2, <1>3 DEF Inv, Typed, ReplacedCredentialsAreDead, NothingNewer, RowType

-----------------------------------------------------------------------------
\* What a step must do to the request of one node when the rows and the
\* validators stay as they are.
LEMMA RequestInv ==
  ASSUME Inv, NEW n \in Nodes, NEW r \in ReqType,
         req' = [req EXCEPT ![n] = r], UNCHANGED <<row, conf>>,
         r.pc # "idle" => row[n].exists,
         r.pc = "passed" => r.cred >= r.since,
         r.pc = "refused" => r.kind = "result",
         r.pc \in {"sent", "passed", "refused"} =>
           LET now == IF r.kind = "result" THEN row[n].secret ELSE row[n].key
           IN r.since <= now /\ r.cred <= now
  PROVE  Inv'
<1>1. req' \in [Nodes -> ReqType] /\ req'[n] = r /\ \A m \in Nodes \ {n} : req'[m] = req[m]
  BY DEF Inv, Typed
<1>2. Typed'
  BY <1>1 DEF Inv, Typed
<1>3. ASSUME NEW m \in Nodes
      PROVE  /\ req'[m].pc = "passed" => req'[m].cred >= req'[m].since
             /\ NothingNewer(m)'
  <2>1. CASE m = n
    BY <1>1, <2>1 DEF Inv, NothingNewer, Current
  <2>2. CASE m # n
    BY <1>1, <2>2 DEF Inv, NothingNewer, Current, ReplacedCredentialsAreDead
  <2>. QED
    BY <2>1, <2>2
<1>. QED
  BY <1>2, <1>3 DEF Inv, ReplacedCredentialsAreDead

\* A request that is done with is forgotten.
LEMMA ForgetInv ==
  ASSUME Inv, NEW n \in Nodes, req' = [req EXCEPT ![n] = NoRequest], UNCHANGED <<row, conf>>
  PROVE  Inv'
BY NoRequestType, RequestInv

\* A registration only raises what the row holds.
LEMMA RegisterInv ==
  ASSUME Inv, NEW n \in Nodes, NEW g \in Regions, NEW k \in {0, 1}, NEW s \in {0, 1},
         Register(n, g, k, s)
  PROVE  Inv'
<1>. DEFINE new == [exists |-> TRUE, region |-> g, key |-> row[n].key + k,
                    secret |-> row[n].secret + s]
<1>1. row' = [row EXCEPT ![n] = new] /\ conf' = conf /\ req' = req
  BY DEF Register
<1>2. row[n] \in RowType
  BY DEF Inv, Typed
<1>3. /\ new \in RowType /\ new.exists
      /\ new.key >= row[n].key /\ new.secret >= row[n].secret
  BY <1>2 DEF RowType
<1>. HIDE DEF new
<1>4. row' \in [Nodes -> RowType] /\ row'[n] = new /\ \A m \in Nodes \ {n} : row'[m] = row[m]
  BY <1>1, <1>3 DEF Inv, Typed
<1>5. ASSUME NEW m \in Nodes
      PROVE  NothingNewer(m)'
  <2>1. NothingNewer(m)
    BY DEF Inv
  <2>2. CASE m = n
    <3>1. /\ row[n].key \in Nat /\ row[n].secret \in Nat
          /\ new.key \in Nat /\ new.secret \in Nat
          /\ conf[n].key \in Nat /\ conf[n].secret \in Nat
          /\ req[n].cred \in Nat /\ req[n].since \in Nat
      BY <1>2, <1>3 DEF Inv, Typed, RowType, ConfType, ReqType
    <3>. QED
      BY <1>1, <1>3, <1>4, <2>1, <2>2, <3>1 DEF NothingNewer, Current
  <2>3. CASE m # n
    BY <1>1, <1>4, <2>1, <2>3 DEF NothingNewer, Current
  <2>. QED
    BY <2>2, <2>3
<1>. QED
  BY <1>1, <1>4, <1>5 DEF Inv, Typed, ReplacedCredentialsAreDead

\* A validator starts with what the row holds or with what it had, and stops.
LEMMA StartStopInv ==
  ASSUME Inv, NEW n \in Nodes, Start(n) \/ Stop(n)
  PROVE  Inv'
<1>. conf[n] \in ConfType /\ row[n] \in RowType /\ NothingNewer(n)
  BY DEF Inv, Typed
<1>1. PICK c \in ConfType :
        /\ conf' = [conf EXCEPT ![n] = c]
        /\ c.key <= row[n].key /\ c.secret <= row[n].secret
        /\ c.up => row[n].exists
  <2>1. CASE Start(n) /\ conf' = [conf EXCEPT ![n] = [up |-> TRUE, key |-> row[n].key,
                                                      secret |-> row[n].secret]]
    <3>1. [up |-> TRUE, key |-> row[n].key, secret |-> row[n].secret] \in ConfType
      BY DEF ConfType, RowType
    <3>2. row[n].exists /\ row[n].key <= row[n].key /\ row[n].secret <= row[n].secret
      BY <2>1 DEF Start, RowType
    <3>. QED
      BY <2>1, <3>1, <3>2
  <2>2. CASE Start(n) /\ conf' = [conf EXCEPT ![n].up = TRUE]
    <3>1. [conf[n] EXCEPT !.up = TRUE] \in ConfType
      BY DEF ConfType
    <3>2. conf' = [conf EXCEPT ![n] = [conf[n] EXCEPT !.up = TRUE]]
      BY <2>2
    <3>. QED
      BY <2>2, <3>1, <3>2 DEF Start, NothingNewer, ConfType
  <2>3. CASE Stop(n)
    <3>1. [conf[n] EXCEPT !.up = FALSE] \in ConfType
      BY DEF ConfType
    <3>2. conf' = [conf EXCEPT ![n] = [conf[n] EXCEPT !.up = FALSE]]
      BY <2>3 DEF Stop
    <3>. QED
      BY <3>1, <3>2 DEF NothingNewer, ConfType
  <2>. QED
    BY <2>1, <2>2, <2>3 DEF Start
<1>2. /\ conf' \in [Nodes -> ConfType] /\ conf'[n] = c
      /\ \A m \in Nodes \ {n} : conf'[m] = conf[m]
  BY <1>1 DEF Inv, Typed
<1>3. row' = row /\ (req' = req \/ req' = [req EXCEPT ![n] = NoRequest])
  BY DEF Start, Stop, Inv, Typed
<1>4. /\ req' \in [Nodes -> ReqType]
      /\ \A m \in Nodes : req'[m] = req[m] \/ (m = n /\ req'[m] = NoRequest)
  BY <1>3, NoRequestType DEF Inv, Typed
<1>5. ASSUME NEW m \in Nodes
      PROVE  /\ req'[m].pc = "passed" => req'[m].cred >= req'[m].since
             /\ NothingNewer(m)'
  <2>1. NothingNewer(m)
    BY DEF Inv
  <2>2. /\ conf'[m].key <= row[m].key /\ conf'[m].secret <= row[m].secret
        /\ conf'[m].up => row[m].exists
    BY <1>1, <1>2, <2>1 DEF NothingNewer
  <2>. QED
    BY <1>3, <1>4, <2>1, <2>2, NoRequestType
       DEF NothingNewer, Current, Inv, ReplacedCredentialsAreDead
<1>. QED
  BY <1>2, <1>3, <1>4, <1>5 DEF Inv, Typed, ReplacedCredentialsAreDead

\* What a validator sends carries what it runs with.
LEMMA SendInv ==
  ASSUME Inv, NEW n \in Nodes,
         Submit(n) \/ \E kind \in {"beat", "poll"} : Send(n, kind)
  PROVE  Inv'
<1>. conf[n] \in ConfType /\ row[n] \in RowType /\ NothingNewer(n)
  BY DEF Inv, Typed
<1>1. ASSUME NEW kind \in {"beat", "poll"}, Send(n, kind)
      PROVE  Inv'
  <2>. DEFINE r == [NoRequest EXCEPT !.pc = "sent", !.kind = kind, !.cred = conf[n].key,
                                     !.since = row[n].key]
  <2>1. /\ r \in ReqType /\ r.pc = "sent" /\ r.kind # "result"
        /\ r.cred = conf[n].key /\ r.since = row[n].key
    BY NoRequestType DEF NoRequest, ReqType, ConfType, RowType
  <2>2. req' = [req EXCEPT ![n] = r] /\ UNCHANGED <<row, conf>> /\ row[n].exists
    BY <1>1 DEF Send, NothingNewer
  <2>3. /\ row[n].key \in Nat /\ r.since <= row[n].key
        /\ r.cred <= row[n].key
    BY <2>1 DEF NothingNewer, RowType
  <2>. HIDE DEF r
  <2>. QED
    BY <2>1, <2>2, <2>3, RequestInv
<1>2. ASSUME Submit(n)
      PROVE  Inv'
  <2>1. PICK t \in CheckTypes : \E e \in Errors(n, t) :
          req' = [req EXCEPT ![n] = [NoRequest EXCEPT !.pc = "sent", !.kind = "result",
                    !.error = e, !.cred = conf[n].secret, !.since = row[n].secret]]
    BY <1>2 DEF Submit
  <2>2. PICK e \in Errors(n, t) :
          req' = [req EXCEPT ![n] = [NoRequest EXCEPT !.pc = "sent", !.kind = "result",
                    !.error = e, !.cred = conf[n].secret, !.since = row[n].secret]]
    BY <2>1
  <2>3. e \in {"none", "plain", "url"}
    BY GatewayAssumption DEF Errors, TsErrors, GoErrors
  <2>. DEFINE r == [NoRequest EXCEPT !.pc = "sent", !.kind = "result", !.error = e,
                                     !.cred = conf[n].secret, !.since = row[n].secret]
  <2>4. /\ r \in ReqType /\ r.pc = "sent" /\ r.kind = "result"
        /\ r.cred = conf[n].secret /\ r.since = row[n].secret
    BY <2>3, NoRequestType DEF NoRequest, ReqType, ConfType, RowType
  <2>5. req' = [req EXCEPT ![n] = r] /\ UNCHANGED <<row, conf>> /\ row[n].exists
    BY <1>2, <2>2 DEF Submit, NothingNewer
  <2>6. /\ row[n].secret \in Nat /\ r.since <= row[n].secret
        /\ r.cred <= row[n].secret
    BY <2>4 DEF NothingNewer, RowType
  <2>. HIDE DEF r
  <2>. QED
    BY <2>4, <2>5, <2>6, RequestInv
<1>. QED
  BY <1>1, <1>2

\* A credential lets a request in when it is the one the row holds.
LEMMA CheckInv ==
  ASSUME Inv, NEW n \in Nodes, NodeAuth(n) \/ Verify(n)
  PROVE  Inv'
<1>. req[n] \in ReqType /\ row[n] \in RowType /\ NothingNewer(n)
  BY DEF Inv, Typed
<1>1. CASE NodeAuth(n)
  <2>1. CASE row[n].exists /\ req[n].cred = row[n].key
    <3>. DEFINE r == [req[n] EXCEPT !.pc = "passed", !.region = row[n].region]
    <3>1. /\ r \in ReqType /\ r.pc = "passed" /\ r.kind = req[n].kind
          /\ r.cred = req[n].cred /\ r.since = req[n].since
      BY DEF ReqType, RowType
    <3>2. req' = [req EXCEPT ![n] = r] /\ UNCHANGED <<row, conf>>
      BY <1>1, <2>1 DEF NodeAuth
    <3>3. /\ r.kind # "result" /\ r.since <= row[n].key /\ r.cred = row[n].key
          /\ r.since \in Nat /\ row[n].key \in Nat
      BY <1>1, <2>1, <3>1 DEF NodeAuth, NothingNewer, Current, ReqType, RowType
    <3>4. r.cred >= r.since /\ r.cred <= row[n].key
      BY <3>3
    <3>. HIDE DEF r
    <3>. QED
      BY <2>1, <3>1, <3>2, <3>3, <3>4, RequestInv
  <2>2. CASE ~(row[n].exists /\ req[n].cred = row[n].key)
    BY <1>1, <2>2, ForgetInv DEF NodeAuth
  <2>. QED
    BY <2>1, <2>2
<1>2. CASE Verify(n)
  <2>. DEFINE ok == /\ row[n].exists /\ req[n].cred = row[n].secret
                    /\ Reproduced(n, req[n].error)
              r == [req[n] EXCEPT !.pc = IF ok THEN "passed" ELSE "refused"]
  <2>1. /\ r \in ReqType /\ r.kind = "result"
        /\ r.cred = req[n].cred /\ r.since = req[n].since
        /\ r.pc \in {"passed", "refused"}
        /\ r.pc = "passed" => req[n].cred = row[n].secret
    <3>. HIDE DEF ok
    <3>1. ok => req[n].cred = row[n].secret
      BY DEF ok
    <3>. QED
      BY <1>2, <3>1 DEF Verify, ReqType
  <2>2. req' = [req EXCEPT ![n] = r] /\ UNCHANGED <<row, conf>>
    BY <1>2 DEF Verify
  <2>3. /\ row[n].exists /\ r.since <= row[n].secret /\ r.cred <= row[n].secret
        /\ r.since \in Nat /\ r.cred \in Nat /\ row[n].secret \in Nat
    BY <1>2, <2>1 DEF Verify, NothingNewer, Current, ReqType, RowType
  <2>. HIDE DEF r
  <2>. QED
    BY <2>1, <2>2, <2>3, RequestInv
<1>. QED
  BY <1>1, <1>2

\* The rest of the handlers end the request or hand a job to the validator.
LEMMA EndInv ==
  ASSUME Inv, NEW n \in Nodes,
         \/ PollWrite(n) \/ PollOther(n) \/ CheckThrows(n)
         \/ Refusal(n) \/ Unwanted(n) \/ Beat(n) \/ Lose(n)
  PROVE  Inv'
<1>. DEFINE job == [NoRequest EXCEPT !.pc = "job"]
<1>1. job \in ReqType /\ job.pc = "job"
  BY NoRequestType DEF ReqType
<1>2. UNCHANGED <<row, conf>> /\ \/ req' = [req EXCEPT ![n] = NoRequest]
                                 \/ conf[n].up /\ req' = [req EXCEPT ![n] = job]
  BY DEF PollWrite, PollOther, CheckThrows, Refusal, Unwanted, Beat, Lose
<1>3. conf[n].up => row[n].exists
  BY DEF Inv, NothingNewer
<1>. HIDE DEF job
<1>. QED
  BY <1>1, <1>2, <1>3, ForgetInv, RequestInv

\* The nodes a panel may name are nodes.
LEMMA ForemostNodes ==
  ASSUME recent \in Seq(Nodes), NEW g
  PROVE  Foremost(g) \subseteq Nodes
<1>1. \A i \in DOMAIN recent : recent[i] \in Nodes
  OBVIOUS
<1>. QED
  BY <1>1 DEF Foremost, Of

\* The handler of a poll keeps what it has read.
LEMMA PollReadInv ==
  ASSUME Inv, recent \in Seq(Nodes), NEW n \in Nodes, PollRead(n)
  PROVE  Inv'
<1>. DEFINE r == [NoRequest EXCEPT !.pc = "panel", !.region = req[n].region,
                                   !.named = Foremost(req[n].region) \cup {n}]
<1>1. req[n] \in ReqType /\ NothingNewer(n)
  BY DEF Inv, Typed
<1>2. Foremost(req[n].region) \cup {n} \in SUBSET Nodes
  BY ForemostNodes
<1>3. r \in ReqType /\ r.pc = "panel"
  BY <1>1, <1>2, NoRequestType DEF ReqType
<1>4. req' = [req EXCEPT ![n] = r] /\ UNCHANGED <<row, conf>> /\ row[n].exists
  BY <1>1 DEF PollRead, NothingNewer
<1>. HIDE DEF r
<1>. QED
  BY <1>3, <1>4, RequestInv

LEMMA NextInv == recent \in Seq(Nodes) /\ Inv /\ [Next]_vars => Inv'
<1>. SUFFICES ASSUME recent \in Seq(Nodes), Inv, [Next]_vars PROVE Inv'
  OBVIOUS
<1>1. CASE UNCHANGED vars
  BY <1>1 DEF vars, Inv, Typed, ReplacedCredentialsAreDead, NothingNewer, Current
<1>2. CASE Next
  <2>1. PICK n \in Nodes :
          \/ \E g \in Regions, k, s \in {0, 1} : Register(n, g, k, s)
          \/ Start(n) \/ Stop(n) \/ Lose(n)
          \/ \E kind \in {"beat", "poll"} : Send(n, kind)
          \/ Submit(n) \/ CheckThrows(n)
          \/ Handle(n)
    BY <1>2 DEF Next
  <2>. QED
    BY <2>1, RegisterInv, StartStopInv, SendInv, CheckInv, PollReadInv, EndInv DEF Handle
<1>. QED
  BY <1>1, <1>2

\* The list of heartbeats names nodes, wherever a heartbeat finds its own.
LEMMA HeardOfNodes ==
  ASSUME recent \in Seq(Nodes), NEW n \in Nodes
  PROVE  HeardOf(n) \in Seq(Nodes)
<1>. DEFINE at == CHOOSE i \in DOMAIN recent : recent[i] = n
            len == Len(recent)
            heard == [i \in 1..len |-> IF i = 1 THEN n ELSE IF i <= at THEN recent[i - 1]
                                                          ELSE recent[i]]
<1>1. len \in Nat /\ DOMAIN recent = 1..len /\ \A i \in 1..len : recent[i] \in Nodes
  OBVIOUS
<1>2. HeardOf(n) = heard
  BY <1>1 DEF HeardOf
<1>. HIDE DEF at, len
<1>3. \A i \in 1..len : i # 1 => i - 1 \in 1..len
  BY <1>1
<1>4. heard \in [1..len -> Nodes]
  BY <1>1, <1>3
<1>. QED
  BY <1>1, <1>2, <1>4, SeqDef

LEMMA RecentInv == Spec => [](recent \in Seq(Nodes))
<1>1. Init => recent \in Seq(Nodes)
  <2>. SUFFICES ASSUME Init PROVE recent \in Seq(Nodes)
    OBVIOUS
  <2>1. Cardinality(Seeded) \in Nat
    BY FS_Subset, FS_CardinalityType, GatewayAssumption
  <2>2. recent \in [1..Cardinality(Seeded) -> Nodes]
    BY GatewayAssumption DEF Init
  <2>. QED
    BY <2>1, <2>2, SeqDef
<1>2. recent \in Seq(Nodes) /\ [Next]_vars => (recent \in Seq(Nodes))'
  <2>. SUFFICES ASSUME recent \in Seq(Nodes), [Next]_vars PROVE recent' \in Seq(Nodes)
    OBVIOUS
  <2>1. ASSUME NEW n \in Nodes, NEW g, NEW k, NEW s, Register(n, g, k, s)
        PROVE  recent' \in Seq(Nodes)
    <3>1. recent' = recent \/ recent' = <<n>> \o recent
      BY <2>1 DEF Register
    <3>2. <<n>> \in Seq(Nodes)
      OBVIOUS
    <3>3. <<n>> \o recent \in Seq(Nodes)
      BY <3>2, ConcatProperties
    <3>. QED
      BY <3>1, <3>3
  <2>2. ASSUME NEW n \in Nodes, Beat(n)
        PROVE  recent' \in Seq(Nodes)
    BY <2>2, HeardOfNodes DEF Beat
  <2>. QED
    BY <2>1, <2>2 DEF Next, vars, Start, Stop, Lose, Send, Submit, CheckThrows, Handle,
       NodeAuth, PollRead, PollWrite, PollOther, Verify, Refusal, Unwanted
<1>. QED
  BY <1>1, <1>2, PTL DEF Spec

LEMMA SpecInv == Spec => []Inv
BY InitInv, NextInv, RecentInv, PTL DEF Spec

-----------------------------------------------------------------------------
\* A credential that was replaced before a request was sent never lets it in.
THEOREM ReplacedStayOut == Spec => []ReplacedCredentialsAreDead
<1>1. Inv => ReplacedCredentialsAreDead
  BY DEF Inv
<1>. QED
  BY <1>1, SpecInv, PTL

\* Whatever the check has found, the API reproduces what a node has signed, but
\* for an id with blanks and an error that Go escapes.
LEMMA TextsAgree ==
  ASSUME NEW n \in Nodes \ Padded, NEW e \in {"none", "plain", "url"},
         n \in GoNodes => e # "url"
  PROVE  Reproduced(n, e)
<1>. DEFINE p == [nodeId |-> "trimmed", errorMessage |-> e]
            null == [nodeId |-> "trimmed", errorMessage |-> "null"]
<1>1. Payload(n, e) = p
  BY DEF Payload
<1>2. CASE e = "none"
  <2>1. Stable(p) = null /\ GoStable(p) = null
    BY <1>2 DEF Stable, GoStable
  <2>2. Body(n, p) \in {p, null}
    BY <1>2 DEF Body
  <2>3. Normalized(p) = p /\ Normalized(null) = p
    BY <1>2 DEF Normalized
  <2>. QED
    BY <1>1, <2>1, <2>2, <2>3 DEF Reproduced, SignedText
<1>3. CASE e # "none"
  <2>1. Stable(p) = p /\ (e # "url" => GoStable(p) = p)
    BY <1>3 DEF Stable, GoStable
  <2>2. Body(n, p) = p
    BY <1>3 DEF Body
  <2>3. Normalized(p) = p
    BY <1>3 DEF Normalized
  <2>. QED
    BY <1>1, <2>1, <2>2, <2>3 DEF Reproduced, SignedText
<1>. QED
  BY <1>2, <1>3

\* Why a result may be refused.
Cause(n) == \/ req[n].cred # row[n].secret
            \/ n \in Padded
            \/ n \in GoNodes /\ req[n].error = "url"

LEMMA CauseStep ==
  ASSUME Inv, RefusedForCause, Next, NEW m \in Nodes, req'[m].pc = "refused"
  PROVE  Cause(m)'
<1>. /\ req \in [Nodes -> ReqType] /\ req[m] \in ReqType
     /\ row \in [Nodes -> RowType] /\ row[m] \in RowType /\ NothingNewer(m)
     /\ req[m].pc = "refused" => Cause(m)
  BY DEF Inv, Typed, RefusedForCause, Cause
<1>1. PICK n \in Nodes :
        \/ \E g \in Regions, k, s \in {0, 1} : Register(n, g, k, s)
        \/ Start(n) \/ Stop(n) \/ Lose(n)
        \/ \E kind \in {"beat", "poll"} : Send(n, kind)
        \/ Submit(n) \/ CheckThrows(n)
        \/ Handle(n)
  BY DEF Next
<1>2. ASSUME NEW g \in Regions, NEW k \in {0, 1}, NEW s \in {0, 1}, Register(n, g, k, s)
      PROVE  Cause(m)'
  <2>1. req' = req /\ req[m].kind = "result" /\ req[m].cred <= row[m].secret /\ Cause(m)
    BY <1>2 DEF Register, NothingNewer, Current
  <2>2. req[m].cred \in Nat /\ row[m].secret \in Nat
    BY DEF ReqType, RowType
  <2>3. row'[m].secret \in {row[m].secret, row[m].secret + s}
    BY <1>2 DEF Register
  <2>4. req[m].cred # row[m].secret => req'[m].cred # row'[m].secret
    BY <2>1, <2>2, <2>3
  <2>. QED
    BY <2>1, <2>4 DEF Cause
<1>3. CASE Verify(n)
  <2>1. row' = row /\ \A l \in Nodes \ {n} : req'[l] = req[l]
    BY <1>3 DEF Verify
  <2>2. CASE m = n
    <3>1. row[m].exists
      BY <1>3, <2>2 DEF Verify, NothingNewer
    <3>2. req'[m].cred = req[m].cred /\ req'[m].error = req[m].error
      BY <1>3, <2>2 DEF Verify, ReqType
    <3>3. ~(req[m].cred = row[m].secret /\ Reproduced(m, req[m].error))
      <4>. SUFFICES ASSUME req[m].cred = row[m].secret, Reproduced(m, req[m].error)
                    PROVE  req'[m].pc = "passed"
        OBVIOUS
      <4>1. req' = [req EXCEPT ![m] = [req[m] EXCEPT !.pc = "passed"]]
        BY <1>3, <2>2, <3>1 DEF Verify
      <4>. QED
        BY <4>1 DEF ReqType
    <3>4. Cause(m)
      BY <3>3, TextsAgree DEF Cause, ReqType
    <3>. QED
      BY <2>1, <3>2, <3>4 DEF Cause
  <2>3. CASE m # n
    BY <2>1, <2>3 DEF Cause
  <2>. QED
    BY <2>2, <2>3
<1>4. ASSUME \/ Start(n) \/ Stop(n) \/ Lose(n)
             \/ \E kind \in {"beat", "poll"} : Send(n, kind)
             \/ Submit(n) \/ CheckThrows(n)
             \/ NodeAuth(n) \/ PollRead(n) \/ PollWrite(n) \/ PollOther(n)
             \/ Refusal(n) \/ Unwanted(n) \/ Beat(n)
      PROVE  Cause(m)'
  <2>1. row' = row
    BY <1>4 DEF Start, Stop, Lose, Send, Submit, CheckThrows, NodeAuth, PollRead, PollWrite,
                PollOther, Refusal, Unwanted, Beat
  <2>2. ASSUME \E kind \in {"beat", "poll"} : Send(n, kind)
        PROVE  req'[m] = req[m]
    BY <2>2 DEF Send, NoRequest
  <2>3. ASSUME Submit(n)
        PROVE  req'[m] = req[m]
    BY <2>3 DEF Submit, NoRequest
  <2>4. ASSUME NodeAuth(n)
        PROVE  req'[m] = req[m]
    BY <2>4, NoRequestType DEF NodeAuth, ReqType
  <2>5. ASSUME PollRead(n) \/ PollWrite(n) \/ PollOther(n)
        PROVE  req'[m] = req[m]
    <3>1. CASE PollRead(n)
      <4>. DEFINE r == [NoRequest EXCEPT !.pc = "panel", !.region = req[n].region,
                                         !.named = Foremost(req[n].region) \cup {n}]
      <4>1. r.pc = "panel" /\ req' = [req EXCEPT ![n] = r]
        BY <3>1 DEF PollRead, NoRequest
      <4>. HIDE DEF r
      <4>. QED
        BY <4>1
    <3>2. CASE PollWrite(n) \/ PollOther(n)
      BY <3>2 DEF PollWrite, PollOther, NoRequest
    <3>. QED
      BY <2>5, <3>1, <3>2
  <2>6. ASSUME \/ Start(n) \/ Stop(n) \/ Lose(n) \/ CheckThrows(n)
               \/ Refusal(n) \/ Unwanted(n) \/ Beat(n)
        PROVE  req'[m] = req[m]
    BY <2>6, NoRequestType DEF Start, Stop, Lose, CheckThrows, Refusal, Unwanted, Beat
  <2>7. req'[m] = req[m]
    BY <1>4, <2>2, <2>3, <2>4, <2>5, <2>6
  <2>. QED
    BY <2>1, <2>7 DEF Cause
<1>. QED
  BY <1>1, <1>2, <1>3, <1>4 DEF Handle

(***************************************************************************)
(* Whatever TypeScript and Go validators run, and whatever their checks    *)
(* find, a result is refused only for a replaced secret, blanks around a   *)
(* NODE_ID, or a website's URL in the error that Go has signed.            *)
(***************************************************************************)
THEOREM ResultsAreTaken == Spec => []RefusedForCause
<1>1. Init => RefusedForCause
  BY NoRequestType DEF Init, RefusedForCause
<1>2. Inv /\ RefusedForCause /\ [Next]_vars => RefusedForCause'
  <2>1. CASE UNCHANGED vars
    BY <2>1 DEF vars, RefusedForCause
  <2>2. CASE Next
    BY <2>2, CauseStep DEF RefusedForCause, Cause
  <2>. QED
    BY <2>1, <2>2
<1>. QED
  BY <1>1, <1>2, SpecInv, PTL DEF Spec

-----------------------------------------------------------------------------
\* Every node that is registered has one place in the order of heartbeats, and
\* only those have one.
Ranked ==
  /\ recent \in Seq(Nodes)
  /\ \A n \in Nodes : row[n].exists <=> \E i \in 1..Len(recent) : recent[i] = n
  /\ \A i, j \in 1..Len(recent) : recent[i] = recent[j] => i = j

\* A credential has the number of a registration, or of the seed.
Numbered ==
  \A n \in Nodes :
    /\ row[n].key <= regs + 1 /\ row[n].secret <= regs + 1
    /\ conf[n].key <= regs + 1 /\ conf[n].secret <= regs + 1
    /\ req[n].cred <= regs + 1 /\ req[n].since <= regs + 1

Counters ==
  /\ panel \in [Regions -> SUBSET Nodes]
  /\ regs \in 0..MaxRegs /\ faults \in 0..MaxFaults

FullInv == Inv /\ Ranked /\ Numbered /\ Counters

LEMMA InitFull == Init => FullInv
<1>. SUFFICES ASSUME Init PROVE FullInv
  OBVIOUS
<1>1. Inv
  BY InitInv
<1>2. Numbered
  BY DEF Init, Numbered, NoRequest
<1>3. Counters
  BY GatewayAssumption DEF Init, Counters
<1>4. Ranked
  <2>. DEFINE k == Cardinality(Seeded)
  <2>1. IsFiniteSet(Seeded)
    BY FS_Subset, GatewayAssumption
  <2>2. k \in Nat /\ IsFiniteSet(1..k) /\ Cardinality(1..k) = k
    <3>1. k \in Nat
      BY <2>1, FS_CardinalityType
    <3>. QED
      BY <3>1, FS_Interval
  <2>3. recent \in [1..k -> Seeded] /\ \A n \in Seeded : \E i \in 1..k : recent[i] = n
    BY DEF Init
  <2>. HIDE DEF k
  <2>4. recent \in Surjection(1..k, Seeded)
    BY <2>3 DEF Surjection
  <2>5. recent \in Injection(1..k, Seeded)
    BY <2>2, <2>4, FS_SurjSameCardinalityImpliesInj DEF k
  <2>6. recent \in Seq(Nodes) /\ Len(recent) = k
    <3>1. recent \in [1..k -> Nodes]
      BY <2>3, GatewayAssumption
    <3>2. recent \in Seq(Nodes)
      BY <2>2, <3>1, SeqDef
    <3>. QED
      BY <2>2, <3>1, <3>2, LenProperties
  <2>7. \A i, j \in 1..k : recent[i] = recent[j] => i = j
    BY <2>5 DEF Injection, IsInjective
  <2>8. \A n \in Nodes : row[n].exists <=> n \in Seeded
    BY DEF Init
  <2>. QED
    BY <2>3, <2>6, <2>7, <2>8 DEF Ranked
<1>. QED
  BY <1>1, <1>2, <1>3, <1>4 DEF FullInv

\* A registration gives out at most one number more.
LEMMA OneMore ==
  ASSUME NEW a \in Nat, NEW k \in {0, 1}, NEW r \in Nat, a <= r + 1
  PROVE  a <= r + 2 /\ a + k <= r + 2
<1>1. k \in Nat /\ k <= 1
  OBVIOUS
<1>. QED
  BY <1>1

\* A new row gets the first place; the others move back.
LEMMA RegisterFull ==
  ASSUME FullInv, NEW n \in Nodes, NEW g \in Regions, NEW k \in {0, 1}, NEW s \in {0, 1},
         Register(n, g, k, s)
  PROVE  FullInv'
<1>. row \in [Nodes -> RowType] /\ recent \in Seq(Nodes) /\ regs \in 0..MaxRegs
  BY DEF FullInv, Inv, Typed, Ranked, Counters
<1>1. Inv'
  BY RegisterInv DEF FullInv
<1>2. /\ row' = [row EXCEPT ![n] = [exists |-> TRUE, region |-> g, key |-> row[n].key + k,
                                    secret |-> row[n].secret + s]]
      /\ regs' = regs + 1 /\ UNCHANGED <<conf, req, panel, faults>> /\ regs < MaxRegs
  BY DEF Register
<1>3. Counters'
  BY <1>2, GatewayAssumption DEF FullInv, Counters
<1>4. Numbered'
  <2>. SUFFICES ASSUME NEW m \in Nodes
                PROVE  /\ row'[m].key <= regs + 2 /\ row'[m].secret <= regs + 2
                       /\ conf[m].key <= regs + 2 /\ conf[m].secret <= regs + 2
                       /\ req[m].cred <= regs + 2 /\ req[m].since <= regs + 2
    BY <1>2 DEF Numbered
  <2>1. /\ row[m].key \in Nat /\ row[m].secret \in Nat
        /\ conf[m].key \in Nat /\ conf[m].secret \in Nat
        /\ req[m].cred \in Nat /\ req[m].since \in Nat /\ regs \in Nat
    BY DEF FullInv, Inv, Typed, RowType, ConfType, ReqType
  <2>2. /\ row[m].key <= regs + 1 /\ row[m].secret <= regs + 1
        /\ conf[m].key <= regs + 1 /\ conf[m].secret <= regs + 1
        /\ req[m].cred <= regs + 1 /\ req[m].since <= regs + 1
    BY DEF FullInv, Numbered
  <2>3. /\ row[m].key <= regs + 2 /\ row[m].key + k <= regs + 2
        /\ row[m].secret <= regs + 2 /\ row[m].secret + s <= regs + 2
    BY <2>1, <2>2, OneMore
  <2>4. /\ conf[m].key <= regs + 2 /\ conf[m].secret <= regs + 2
        /\ req[m].cred <= regs + 2 /\ req[m].since <= regs + 2
    BY <2>1, <2>2, OneMore
  <2>5. \/ row'[m].key = row[m].key + k /\ row'[m].secret = row[m].secret + s
        \/ row'[m] = row[m]
    BY <1>2
  <2>. QED
    BY <2>3, <2>4, <2>5
<1>5. Ranked'
  <2>1. \A m \in Nodes : row'[m].exists <=> row[m].exists \/ m = n
    BY <1>2 DEF RowType
  <2>2. CASE row[n].exists
    <3>1. recent' = recent
      BY <2>2 DEF Register
    <3>. QED
      BY <2>1, <2>2, <3>1 DEF FullInv, Ranked
  <2>3. CASE ~row[n].exists
    <3>1. recent' = <<n>> \o recent
      BY <2>3 DEF Register
    <3>2. /\ recent' \in Seq(Nodes) /\ Len(recent') = Len(recent) + 1
          /\ \A i \in 1..Len(recent) + 1 : recent'[i] = IF i = 1 THEN n ELSE recent[i - 1]
      BY <3>1
    <3>3. Len(recent) \in Nat
      OBVIOUS
    <3>4. \A i \in 1..Len(recent) : recent[i] # n
      BY <2>3 DEF FullInv, Ranked
    <3>5. \A i, j \in 1..Len(recent) : recent[i] = recent[j] => i = j
      BY DEF FullInv, Ranked
    <3>6. ASSUME NEW i \in 1..Len(recent'), NEW j \in 1..Len(recent'), recent'[i] = recent'[j]
          PROVE  i = j
      <4>1. CASE i = 1 \/ j = 1
        BY <3>2, <3>3, <3>4, <3>6, <4>1
      <4>2. CASE i # 1 /\ j # 1
        <5>1. i - 1 \in 1..Len(recent) /\ j - 1 \in 1..Len(recent)
          BY <3>2, <3>3, <4>2
        <5>2. recent[i - 1] = recent[j - 1]
          BY <3>2, <3>6, <4>2
        <5>3. i - 1 = j - 1
          BY <3>5, <5>1, <5>2
        <5>. QED
          BY <5>3
      <4>. QED
        BY <4>1, <4>2
    <3>7. ASSUME NEW m \in Nodes
          PROVE  row'[m].exists <=> \E i \in 1..Len(recent') : recent'[i] = m
      <4>1. row[m].exists <=> \E i \in 1..Len(recent) : recent[i] = m
        BY DEF FullInv, Ranked
      <4>2. ASSUME NEW i \in 1..Len(recent), recent[i] = m
            PROVE  \E j \in 1..Len(recent') : recent'[j] = m
        <5>1. i + 1 \in 1..Len(recent') /\ recent'[i + 1] = m
          BY <3>2, <3>3, <4>2
        <5>. QED
          BY <5>1
      <4>3. ASSUME NEW j \in 1..Len(recent'), recent'[j] = m, j # 1
            PROVE  \E i \in 1..Len(recent) : recent[i] = m
        <5>1. j - 1 \in 1..Len(recent) /\ recent[j - 1] = m
          BY <3>2, <3>3, <4>3
        <5>. QED
          BY <5>1
      <4>4. 1 \in 1..Len(recent') /\ recent'[1] = n
        BY <3>2, <3>3
      <4>. QED
        BY <2>1, <4>1, <4>2, <4>3, <4>4
    <3>. QED
      BY <3>2, <3>6, <3>7 DEF Ranked
  <2>. QED
    BY <2>2, <2>3
<1>. QED
  BY <1>1, <1>3, <1>4, <1>5 DEF FullInv

\* A node that is heard of changes places with nobody but those before it.
LEMMA HeardOfRanked ==
  ASSUME Ranked, NEW n \in Nodes, row[n].exists, recent' = HeardOf(n),
         \A m \in Nodes : row'[m].exists = row[m].exists
  PROVE  Ranked'
<1>. DEFINE len == Len(recent)
            at == CHOOSE i \in DOMAIN recent : recent[i] = n
<1>1. /\ recent \in Seq(Nodes) /\ len \in Nat /\ DOMAIN recent = 1..len
      /\ \A i \in 1..len : recent[i] \in Nodes
  BY DEF Ranked
<1>2. at \in 1..len /\ recent[at] = n
  BY <1>1 DEF Ranked
<1>3. recent' = [i \in 1..len |-> IF i = 1 THEN n ELSE IF i <= at THEN recent[i - 1]
                                                        ELSE recent[i]]
  BY <1>1 DEF HeardOf
<1>4. \A i, j \in 1..len : recent[i] = recent[j] => i = j
  BY DEF Ranked
<1>. HIDE DEF len, at
<1>5. \A i \in 1..len : i # 1 => i - 1 \in 1..len
  BY <1>1
<1>6. recent' \in [1..len -> Nodes]
  BY <1>1, <1>3, <1>5
<1>7. recent' \in Seq(Nodes) /\ Len(recent') = len
  <2>1. recent' \in Seq(Nodes)
    BY <1>1, <1>6, SeqDef
  <2>. QED
    BY <1>1, <1>6, <2>1, LenProperties
<1>8. ASSUME NEW i \in 1..len, NEW j \in 1..len, recent'[i] = recent'[j]
      PROVE  i = j
  <2>. DEFINE from(q) == IF q = 1 THEN at ELSE IF q <= at THEN q - 1 ELSE q
  <2>1. /\ from(i) \in 1..len /\ from(j) \in 1..len
        /\ recent'[i] = recent[from(i)] /\ recent'[j] = recent[from(j)]
    BY <1>2, <1>3, <1>5
  <2>2. from(i) = from(j)
    BY <1>4, <1>8, <2>1
  <2>. QED
    BY <1>1, <1>2, <2>2
<1>9. ASSUME NEW m \in Nodes
      PROVE  (\E i \in 1..len : recent[i] = m) <=> (\E i \in 1..len : recent'[i] = m)
  <2>1. ASSUME NEW i \in 1..len, recent[i] = m
        PROVE  \E j \in 1..len : recent'[j] = m
    <3>1. CASE i < at
      <4>1. i + 1 \in 1..len /\ recent'[i + 1] = recent[i]
        BY <1>1, <1>2, <1>3, <3>1
      <4>. QED
        BY <2>1, <4>1
    <3>2. CASE i = at
      <4>1. 1 \in 1..len /\ recent'[1] = n
        BY <1>1, <1>2, <1>3
      <4>. QED
        BY <1>2, <2>1, <3>2, <4>1
    <3>3. CASE i > at
      <4>1. recent'[i] = recent[i]
        BY <1>1, <1>2, <1>3, <3>3
      <4>. QED
        BY <2>1, <4>1
    <3>. QED
      BY <1>1, <1>2, <3>1, <3>2, <3>3
  <2>2. ASSUME NEW i \in 1..len, recent'[i] = m
        PROVE  \E j \in 1..len : recent[j] = m
    BY <1>2, <1>3, <1>5, <2>2
  <2>. QED
    BY <2>1, <2>2
<1>10. \A m \in Nodes : row'[m].exists <=> \E i \in 1..len : recent'[i] = m
  BY <1>9 DEF Ranked, len
<1>. QED
  BY <1>7, <1>8, <1>10 DEF Ranked

\* The other steps take their numbers from what is there.
LEMMA StepFull ==
  ASSUME FullInv, NEW n \in Nodes,
         \/ Start(n) \/ Stop(n) \/ Lose(n) \/ Submit(n) \/ CheckThrows(n) \/ Handle(n)
         \/ \E kind \in {"beat", "poll"} : Send(n, kind)
  PROVE  FullInv'
<1>. /\ row \in [Nodes -> RowType] /\ conf \in [Nodes -> ConfType] /\ req \in [Nodes -> ReqType]
     /\ row[n] \in RowType /\ conf[n] \in ConfType /\ req[n] \in ReqType
     /\ recent \in Seq(Nodes) /\ panel \in [Regions -> SUBSET Nodes] /\ faults \in 0..MaxFaults
     /\ NothingNewer(n)
  BY DEF FullInv, Inv, Typed, Ranked, Counters
<1>1. Inv'
  BY StartStopInv, SendInv, CheckInv, PollReadInv, EndInv DEF FullInv, Handle
<1>2. UNCHANGED <<row, regs>>
  BY DEF Start, Stop, Lose, Submit, CheckThrows, Send, Handle, NodeAuth, PollRead, PollWrite,
         PollOther, Verify, Refusal, Unwanted, Beat
<1>3. Counters'
  <2>1. UNCHANGED panel \/ PollWrite(n)
    BY DEF Start, Stop, Lose, Submit, CheckThrows, Send, Handle, NodeAuth, PollRead, PollOther,
           Verify, Refusal, Unwanted, Beat
  <2>2. ASSUME PollWrite(n)
        PROVE  panel' \in [Regions -> SUBSET Nodes]
    <3>1. req[n].named \in SUBSET Nodes
      BY DEF ReqType
    <3>2. panel' = [panel EXCEPT ![req[n].region] = req[n].named]
      BY <2>2 DEF PollWrite
    <3>. QED
      BY <3>1, <3>2
  <2>3. UNCHANGED faults \/ (faults < MaxFaults /\ faults' = faults + 1)
    BY DEF Start, Stop, Lose, Submit, CheckThrows, Send, Handle, NodeAuth, PollRead, PollWrite,
           PollOther, Verify, Refusal, Unwanted, Beat
  <2>4. faults' \in 0..MaxFaults
    BY <2>3, GatewayAssumption
  <2>. QED
    BY <1>2, <2>1, <2>2, <2>4 DEF FullInv, Counters
<1>4. Ranked'
  <2>1. CASE Beat(n)
    <3>1. row[n].exists
      BY <2>1 DEF Beat, NothingNewer
    <3>2. recent' = HeardOf(n)
      BY <2>1 DEF Beat
    <3>. QED
      BY <1>2, <3>1, <3>2, HeardOfRanked DEF FullInv
  <2>2. CASE ~Beat(n)
    <3>1. UNCHANGED recent
      BY <2>2 DEF Start, Stop, Lose, Submit, CheckThrows, Send, Handle, NodeAuth, PollRead,
                  PollWrite, PollOther, Verify, Refusal, Unwanted
    <3>. QED
      BY <1>2, <3>1 DEF FullInv, Ranked
  <2>. QED
    BY <2>1, <2>2
<1>5. \A m \in Nodes : conf'[m].key <= regs + 1 /\ conf'[m].secret <= regs + 1
  <2>1. CASE Start(n)
    <3>1. CASE conf' = [conf EXCEPT ![n] = [up |-> TRUE, key |-> row[n].key,
                                            secret |-> row[n].secret]]
      <4>1. conf'[n].key = row[n].key /\ conf'[n].secret = row[n].secret
        BY <3>1
      <4>2. \A m \in Nodes \ {n} : conf'[m] = conf[m]
        BY <3>1
      <4>. QED
        BY <4>1, <4>2 DEF FullInv, Numbered
    <3>2. CASE conf' = [conf EXCEPT ![n].up = TRUE]
      BY <3>2 DEF FullInv, Numbered, ConfType
    <3>. QED
      BY <2>1, <3>1, <3>2 DEF Start
  <2>2. CASE Stop(n)
    <3>1. conf' = [conf EXCEPT ![n].up = FALSE]
      BY <2>2 DEF Stop
    <3>. QED
      BY <3>1 DEF FullInv, Numbered, ConfType
  <2>3. CASE ~Start(n) /\ ~Stop(n)
    <3>1. UNCHANGED conf
      BY <2>3 DEF Lose, Submit, CheckThrows, Send, Handle, NodeAuth, PollRead, PollWrite,
                  PollOther, Verify, Refusal, Unwanted, Beat
    <3>. QED
      BY <3>1 DEF FullInv, Numbered
  <2>. QED
    BY <2>1, <2>2, <2>3
<1>6. PICK r : /\ req' = [req EXCEPT ![n] = r]
               /\ r.cred <= regs + 1 /\ r.since <= regs + 1
  <2>1. /\ row[n].key <= regs + 1 /\ row[n].secret <= regs + 1
        /\ conf[n].key <= regs + 1 /\ conf[n].secret <= regs + 1
        /\ req[n].cred <= regs + 1 /\ req[n].since <= regs + 1 /\ 0 <= regs + 1
    BY DEF FullInv, Numbered, Counters
  <2>2. NoRequest.cred = 0 /\ NoRequest.since = 0
    BY DEF NoRequest
  <2>3. CASE Start(n)
    <3>1. req' = [req EXCEPT ![n] = req[n]]
      BY <2>3 DEF Start
    <3>. QED
      BY <2>1, <3>1
  <2>4. CASE Stop(n)
    <3>1. \/ req' = [req EXCEPT ![n] = NoRequest]
          \/ req' = [req EXCEPT ![n] = req[n]]
      BY <2>4 DEF Stop
    <3>. QED
      BY <2>1, <2>2, <3>1
  <2>5. ASSUME NEW kind \in {"beat", "poll"}, Send(n, kind)
        PROVE  \E r : /\ req' = [req EXCEPT ![n] = r]
                      /\ r.cred <= regs + 1 /\ r.since <= regs + 1
    <3>. DEFINE r == [NoRequest EXCEPT !.pc = "sent", !.kind = kind, !.cred = conf[n].key,
                                       !.since = row[n].key]
    <3>1. r.cred = conf[n].key /\ r.since = row[n].key
      BY DEF NoRequest
    <3>2. req' = [req EXCEPT ![n] = r]
      BY <2>5 DEF Send
    <3>. HIDE DEF r
    <3>. QED
      BY <2>1, <3>1, <3>2
  <2>6. CASE Submit(n)
    <3>1. PICK t \in CheckTypes : \E e \in Errors(n, t) :
            req' = [req EXCEPT ![n] = [NoRequest EXCEPT !.pc = "sent", !.kind = "result",
                      !.error = e, !.cred = conf[n].secret, !.since = row[n].secret]]
      BY <2>6 DEF Submit
    <3>2. PICK e :
            req' = [req EXCEPT ![n] = [NoRequest EXCEPT !.pc = "sent", !.kind = "result",
                      !.error = e, !.cred = conf[n].secret, !.since = row[n].secret]]
      BY <3>1
    <3>. DEFINE r == [NoRequest EXCEPT !.pc = "sent", !.kind = "result", !.error = e,
                                       !.cred = conf[n].secret, !.since = row[n].secret]
    <3>3. r.cred = conf[n].secret /\ r.since = row[n].secret
      BY DEF NoRequest
    <3>4. req' = [req EXCEPT ![n] = r]
      BY <3>2
    <3>. HIDE DEF r
    <3>. QED
      BY <2>1, <3>3, <3>4
  <2>7. CASE NodeAuth(n) \/ Verify(n)
    <3>1. PICK p, g : \/ req' = [req EXCEPT ![n] = [req[n] EXCEPT !.pc = p, !.region = g]]
                      \/ req' = [req EXCEPT ![n] = [req[n] EXCEPT !.pc = p]]
                      \/ req' = [req EXCEPT ![n] = NoRequest]
      BY <2>7 DEF NodeAuth, Verify
    <3>2. /\ [req[n] EXCEPT !.pc = p, !.region = g].cred = req[n].cred
          /\ [req[n] EXCEPT !.pc = p, !.region = g].since = req[n].since
          /\ [req[n] EXCEPT !.pc = p].cred = req[n].cred
          /\ [req[n] EXCEPT !.pc = p].since = req[n].since
      BY DEF ReqType
    <3>. QED
      BY <2>1, <2>2, <3>1, <3>2
  <2>8. CASE \/ PollWrite(n) \/ PollOther(n) \/ CheckThrows(n) \/ Refusal(n) \/ Unwanted(n)
             \/ Beat(n) \/ Lose(n)
    <3>. DEFINE job == [NoRequest EXCEPT !.pc = "job"]
    <3>1. job.cred = 0 /\ job.since = 0
      BY DEF NoRequest
    <3>2. req' = [req EXCEPT ![n] = NoRequest] \/ req' = [req EXCEPT ![n] = job]
      BY <2>8 DEF PollWrite, PollOther, CheckThrows, Refusal, Unwanted, Beat, Lose
    <3>. HIDE DEF job
    <3>. QED
      BY <2>1, <2>2, <3>1, <3>2
  <2>9. CASE PollRead(n)
    <3>. DEFINE r == [NoRequest EXCEPT !.pc = "panel", !.region = req[n].region,
                                       !.named = Foremost(req[n].region) \cup {n}]
    <3>1. r.cred = 0 /\ r.since = 0
      BY DEF NoRequest
    <3>2. req' = [req EXCEPT ![n] = r]
      BY <2>9 DEF PollRead
    <3>. HIDE DEF r
    <3>. QED
      BY <2>1, <3>1, <3>2
  <2>. QED
    BY <2>3, <2>4, <2>5, <2>6, <2>7, <2>8, <2>9 DEF Handle
<1>7. Numbered'
  <2>1. \A m \in Nodes : req'[m].cred <= regs + 1 /\ req'[m].since <= regs + 1
    BY <1>6 DEF FullInv, Numbered
  <2>. QED
    BY <1>2, <1>5, <2>1 DEF FullInv, Numbered
<1>. QED
  BY <1>1, <1>3, <1>4, <1>7 DEF FullInv

LEMMA NextFull == FullInv /\ [Next]_vars => FullInv'
<1>. SUFFICES ASSUME FullInv, [Next]_vars PROVE FullInv'
  OBVIOUS
<1>1. CASE UNCHANGED vars
  <2>1. Inv'
    BY <1>1, NextInv DEF FullInv, Ranked
  <2>. QED
    BY <1>1, <2>1 DEF vars, FullInv, Ranked, Numbered, Counters
<1>2. CASE Next
  BY <1>2, RegisterFull, StepFull DEF Next
<1>. QED
  BY <1>1, <1>2

(***************************************************************************)
(* Every variable has its type: in particular no credential has a number   *)
(* that was not given out, and each registered node has one place in the   *)
(* order of heartbeats, through registrations and heartbeats.              *)
(***************************************************************************)
THEOREM GatewayTyped == Spec => []TypeOK
<1>1. FullInv => TypeOK
  <2>. SUFFICES ASSUME FullInv PROVE TypeOK
    OBVIOUS
  <2>. DEFINE there == {n \in Nodes : row[n].exists}
              len == Len(recent)
  <2>1. /\ row \in [Nodes -> RowType] /\ conf \in [Nodes -> ConfType]
        /\ req \in [Nodes -> ReqType] /\ recent \in Seq(Nodes) /\ regs \in 0..MaxRegs
        /\ MaxRegs \in Nat
    BY GatewayAssumption DEF FullInv, Inv, Typed, Ranked, Counters
  <2>2. \A k \in Nat : k <= regs + 1 => k \in Numbers
    BY <2>1 DEF Numbers
  <2>3. \A n \in Nodes :
          /\ row[n].key \in Numbers /\ row[n].secret \in Numbers
          /\ conf[n].key \in Numbers /\ conf[n].secret \in Numbers
          /\ req[n].cred \in Numbers /\ req[n].since \in Numbers
    BY <2>1, <2>2 DEF FullInv, Numbered, RowType, ConfType, ReqType
  <2>4. row \in [Nodes -> [exists : BOOLEAN, region : Regions, key : Numbers,
                           secret : Numbers]]
    BY <2>1, <2>3 DEF RowType
  <2>5. conf \in [Nodes -> [up : BOOLEAN, key : Numbers, secret : Numbers]]
    BY <2>1, <2>3 DEF ConfType
  <2>6. req \in [Nodes -> Request]
    BY <2>1, <2>3 DEF ReqType, Request
  <2>7. Len(recent) = Cardinality(there)
    <3>1. len \in Nat /\ recent \in [1..len -> Nodes]
      BY <2>1
    <3>2. recent \in [1..len -> there]
      BY <3>1 DEF FullInv, Ranked
    <3>3. \A n \in there : \E i \in 1..len : recent[i] = n
      BY DEF FullInv, Ranked
    <3>4. \A i, j \in 1..len : recent[i] = recent[j] => i = j
      BY DEF FullInv, Ranked
    <3>. HIDE DEF len, there
    <3>5. ExistsBijection(1..len, there)
      BY <3>2, <3>3, <3>4 DEF ExistsBijection, Bijection, Injection, Surjection, IsInjective
    <3>6. IsFiniteSet(1..len) /\ Cardinality(1..len) = len
      BY <3>1, FS_Interval
    <3>7. Cardinality(there) = len
      BY <3>5, <3>6, FS_Bijection
    <3>. QED
      BY <3>7 DEF len
  <2>. QED
    BY <2>1, <2>4, <2>5, <2>6, <2>7 DEF FullInv, Counters, TypeOK
<1>. QED
  BY <1>1, InitFull, NextFull, PTL DEF Spec
-----------------------------------------------------------------------------
(***************************************************************************)
(* What JobService takes from here: the query of a panel names at most     *)
(* MaxAssign nodes, and all of the region's when those are no more.  The   *)
(* places it takes are told apart by how many of the region's are before   *)
(* them, and these numbers are below MaxAssign.                            *)
(***************************************************************************)
Before(g, i) == {j \in Of(g) : j < i}

LEMMA PlacesBefore ==
  ASSUME Ranked, NEW g \in Regions
  PROVE  /\ IsFiniteSet(Of(g)) /\ Of(g) \subseteq 1..Len(recent) /\ Cardinality(Of(g)) \in Nat
         /\ \A i \in Of(g) : /\ Cardinality(Before(g, i)) \in Nat
                             /\ Cardinality(Before(g, i)) < Cardinality(Of(g))
         /\ \A i, k \in Of(g) : i < k => Cardinality(Before(g, i)) < Cardinality(Before(g, k))
<1>1. /\ recent \in Seq(Nodes) /\ Len(recent) \in Nat /\ DOMAIN recent = 1..Len(recent)
  BY DEF Ranked
<1>2. Of(g) \subseteq 1..Len(recent)
  BY <1>1 DEF Of
<1>3. IsFiniteSet(Of(g)) /\ Cardinality(Of(g)) \in Nat
  <2>1. IsFiniteSet(1..Len(recent))
    BY <1>1, FS_Interval
  <2>. QED
    BY <1>2, <2>1, FS_Subset, FS_CardinalityType
<1>4. ASSUME NEW i \in Of(g), NEW T \in SUBSET Of(g), Before(g, i) \subseteq T, i \in T
      PROVE  /\ Cardinality(Before(g, i)) \in Nat
             /\ Cardinality(Before(g, i)) < Cardinality(T)
  <2>1. IsFiniteSet(T) /\ Cardinality(T) \in Nat
    BY <1>3, FS_Subset, FS_CardinalityType
  <2>2. Before(g, i) \in SUBSET T /\ i \notin Before(g, i)
    BY <1>1, <1>2, <1>4 DEF Before
  <2>3. IsFiniteSet(Before(g, i)) /\ Cardinality(Before(g, i)) <= Cardinality(T)
    BY <2>1, <2>2, FS_Subset
  <2>4. Cardinality(Before(g, i)) # Cardinality(T)
    BY <1>4, <2>1, <2>2, FS_Subset
  <2>5. Cardinality(Before(g, i)) \in Nat
    BY <2>3, FS_CardinalityType
  <2>. QED
    BY <2>1, <2>3, <2>4, <2>5
<1>5. ASSUME NEW i \in Of(g), NEW k \in Of(g), i < k
      PROVE  Cardinality(Before(g, i)) < Cardinality(Before(g, k))
  <2>1. Before(g, k) \in SUBSET Of(g) /\ Before(g, i) \subseteq Before(g, k) /\ i \in Before(g, k)
    BY <1>1, <1>2, <1>5 DEF Before
  <2>. QED
    BY <1>4, <2>1
<1>6. \A i \in Of(g) : Before(g, i) \subseteq Of(g)
  BY DEF Before
<1>. QED
  BY <1>2, <1>3, <1>4, <1>5, <1>6

LEMMA ForemostSize ==
  ASSUME Ranked, NEW g \in Regions
  PROVE  /\ IsFiniteSet(Foremost(g)) /\ Cardinality(Foremost(g)) <= MaxAssign
         /\ Cardinality(Of(g)) <= MaxAssign =>
              Foremost(g) = {n \in Nodes : row[n].exists /\ row[n].region = g}
<1>. DEFINE P == {i \in Of(g) : Cardinality(Before(g, i)) < MaxAssign}
            rank == [i \in P |-> Cardinality(Before(g, i))]
            name == [i \in P |-> recent[i]]
<1>1. Foremost(g) = {recent[i] : i \in P}
  BY DEF Foremost, Before
<1>2. MaxAssign \in Nat /\ IsFiniteSet(0..MaxAssign - 1) /\ Cardinality(0..MaxAssign - 1) = MaxAssign
  <2>1. MaxAssign \in Nat /\ MaxAssign # 0
    BY GatewayAssumption
  <2>2. 0 \in Int /\ MaxAssign - 1 \in Int
    BY <2>1
  <2>3. /\ IsFiniteSet(0..MaxAssign - 1)
        /\ Cardinality(0..MaxAssign - 1) = IF 0 > MaxAssign - 1 THEN 0
                                           ELSE (MaxAssign - 1) - 0 + 1
    BY <2>2, FS_Interval
  <2>. QED
    BY <2>1, <2>3
<1>3. rank \in Injection(P, 0..MaxAssign - 1)
  <2>1. \A i \in P : rank[i] \in 0..MaxAssign - 1
    BY <1>2, PlacesBefore
  <2>2. ASSUME NEW i \in P, NEW k \in P, rank[i] = rank[k]
        PROVE  i = k
    <3>1. i \in Nat /\ k \in Nat
      BY PlacesBefore
    <3>2. /\ i < k => Cardinality(Before(g, i)) < Cardinality(Before(g, k))
          /\ k < i => Cardinality(Before(g, k)) < Cardinality(Before(g, i))
      BY PlacesBefore
    <3>3. Cardinality(Before(g, i)) \in Nat /\ Cardinality(Before(g, k)) \in Nat
      BY PlacesBefore
    <3>. QED
      BY <2>2, <3>1, <3>2, <3>3
  <2>. QED
    BY <2>1, <2>2 DEF Injection, IsInjective
<1>4. IsFiniteSet(P) /\ Cardinality(P) <= MaxAssign /\ Cardinality(P) \in Nat
  <2>. HIDE DEF P, rank
  <2>1. IsFiniteSet(P) /\ Cardinality(P) <= MaxAssign
    BY <1>2, <1>3, FS_Injection
  <2>. QED
    BY <2>1, FS_CardinalityType
<1>5. name \in Surjection(P, Foremost(g))
  <2>. HIDE DEF P
  <2>1. name \in [P -> Foremost(g)] /\ \A n \in Foremost(g) : \E i \in P : name[i] = n
    BY <1>1
  <2>. QED
    BY <2>1 DEF Surjection
<1>6. /\ IsFiniteSet(Foremost(g)) /\ Cardinality(Foremost(g)) <= Cardinality(P)
      /\ Cardinality(Foremost(g)) \in Nat
  <2>. HIDE DEF P, name
  <2>1. IsFiniteSet(Foremost(g)) /\ Cardinality(Foremost(g)) <= Cardinality(P)
    BY <1>4, <1>5, FS_Surjection
  <2>. QED
    BY <2>1, FS_CardinalityType
<1>7. ASSUME Cardinality(Of(g)) <= MaxAssign
      PROVE  Foremost(g) = {n \in Nodes : row[n].exists /\ row[n].region = g}
  <2>1. \A i \in Of(g) : Cardinality(Before(g, i)) < MaxAssign
    <3>. SUFFICES ASSUME NEW i \in Of(g)
                  PROVE  Cardinality(Before(g, i)) < MaxAssign
      OBVIOUS
    <3>1. /\ Cardinality(Before(g, i)) \in Nat /\ Cardinality(Of(g)) \in Nat
          /\ Cardinality(Before(g, i)) < Cardinality(Of(g))
      BY PlacesBefore
    <3>. QED
      BY <1>2, <1>7, <3>1
  <2>2. Foremost(g) = {recent[i] : i \in Of(g)}
    BY <1>1, <2>1
  <2>3. Of(g) = {i \in 1..Len(recent) : row[recent[i]].region = g}
    BY DEF Of, Ranked
  <2>4. /\ \A i \in 1..Len(recent) : recent[i] \in Nodes /\ row[recent[i]].exists
        /\ \A n \in Nodes : row[n].exists => \E i \in 1..Len(recent) : recent[i] = n
    BY DEF Ranked
  <2>. QED
    BY <2>2, <2>3, <2>4
<1>. QED
  BY <1>2, <1>4, <1>6, <1>7

(***************************************************************************)
(* No panel has more than the nodes of its query and the one that polled:  *)
(* four, with the code's three, however often the region's nodes change.   *)
(***************************************************************************)
THEOREM PanelsAreSmall ==
  Spec => [](\A g \in Regions : IsFiniteSet(panel[g]) /\ Cardinality(panel[g]) <= MaxAssign + 1)
<1>. DEFINE Few(S) == IsFiniteSet(S) /\ Cardinality(S) <= MaxAssign + 1
            Small == (\A g \in Regions : Few(panel[g])) /\ \A n \in Nodes : Few(req[n].named)
<1>0. MaxAssign \in Nat /\ Few({}) /\ NoRequest.named = {}
  <2>1. MaxAssign \in Nat
    BY GatewayAssumption
  <2>. QED
    BY <2>1, FS_EmptySet DEF NoRequest
<1>1. Init => Small
  <2>1. Init => \A g \in Regions : panel[g] = {}
    BY DEF Init
  <2>2. Init => \A n \in Nodes : req[n].named = {}
    BY <1>0 DEF Init
  <2>. HIDE DEF Few
  <2>. QED
    BY <1>0, <2>1, <2>2
<1>2. ASSUME FullInv, Small, Next
      PROVE  Small'
  <2>. req \in [Nodes -> ReqType] /\ panel \in [Regions -> SUBSET Nodes]
    BY <1>2 DEF FullInv, Inv, Typed, Counters
  <2>1. PICK n \in Nodes :
          \/ \E g \in Regions, k, s \in {0, 1} : Register(n, g, k, s)
          \/ Start(n) \/ Stop(n) \/ Lose(n)
          \/ \E kind \in {"beat", "poll"} : Send(n, kind)
          \/ Submit(n) \/ CheckThrows(n)
          \/ Handle(n)
    BY <1>2 DEF Next
  <2>2. req[n] \in ReqType /\ Few(req[n].named)
    BY <1>2
  <2>. HIDE DEF Few
  <2>3. \A g \in Regions : Few(panel'[g])
    <3>1. CASE PollWrite(n)
      <4>1. panel' = [panel EXCEPT ![req[n].region] = req[n].named]
        BY <3>1 DEF PollWrite
      <4>. QED
        BY <1>2, <2>2, <4>1
    <3>2. CASE ~PollWrite(n)
      <4>1. UNCHANGED panel
        BY <2>1, <3>2 DEF Register, Start, Stop, Lose, Send, Submit, CheckThrows, Handle,
           NodeAuth, PollRead, PollOther, Verify, Refusal, Unwanted, Beat
      <4>. QED
        BY <1>2, <4>1
    <3>. QED
      BY <3>1, <3>2
  <2>4. PICK r : req' = [req EXCEPT ![n] = r] /\ Few(r.named)
    <3>1. CASE PollRead(n)
      <4>. DEFINE r == [NoRequest EXCEPT !.pc = "panel", !.region = req[n].region,
                                         !.named = Foremost(req[n].region) \cup {n}]
      <4>1. req' = [req EXCEPT ![n] = r]
        BY <3>1 DEF PollRead
      <4>2. r.named = Foremost(req[n].region) \cup {n}
        BY DEF NoRequest
      <4>3. /\ IsFiniteSet(Foremost(req[n].region))
            /\ Cardinality(Foremost(req[n].region)) <= MaxAssign
        <5>1. req[n].region \in Regions /\ Ranked
          BY <1>2, <2>2 DEF FullInv, ReqType
        <5>. QED
          BY <5>1, ForemostSize
      <4>4. /\ IsFiniteSet(Foremost(req[n].region) \cup {n})
            /\ Cardinality(Foremost(req[n].region) \cup {n}) \in
                 {Cardinality(Foremost(req[n].region)), Cardinality(Foremost(req[n].region)) + 1}
        BY <4>3, FS_AddElement
      <4>5. Cardinality(Foremost(req[n].region)) \in Nat
        BY <4>3, FS_CardinalityType
      <4>6. Few(Foremost(req[n].region) \cup {n})
        BY <1>0, <4>3, <4>4, <4>5 DEF Few
      <4>. HIDE DEF r
      <4>. QED
        BY <4>1, <4>2, <4>6
    <3>2. CASE NodeAuth(n) \/ Verify(n)
      <4>1. PICK p, g : \/ req' = [req EXCEPT ![n] = [req[n] EXCEPT !.pc = p, !.region = g]]
                        \/ req' = [req EXCEPT ![n] = [req[n] EXCEPT !.pc = p]]
                        \/ req' = [req EXCEPT ![n] = NoRequest]
        BY <3>2 DEF NodeAuth, Verify
      <4>2. /\ [req[n] EXCEPT !.pc = p, !.region = g].named = req[n].named
            /\ [req[n] EXCEPT !.pc = p].named = req[n].named
        BY <2>2 DEF ReqType
      <4>. QED
        BY <1>0, <2>2, <4>1, <4>2
    <3>3. ASSUME NEW kind \in {"beat", "poll"}, Send(n, kind)
          PROVE  \E r : req' = [req EXCEPT ![n] = r] /\ Few(r.named)
      <4>. DEFINE r == [NoRequest EXCEPT !.pc = "sent", !.kind = kind, !.cred = conf[n].key,
                                         !.since = row[n].key]
      <4>1. r.named = {} /\ req' = [req EXCEPT ![n] = r]
        BY <3>3 DEF Send, NoRequest
      <4>. HIDE DEF r
      <4>. QED
        BY <1>0, <4>1
    <3>4. CASE Submit(n)
      <4>1. PICK t \in CheckTypes : \E e \in Errors(n, t) :
              req' = [req EXCEPT ![n] = [NoRequest EXCEPT !.pc = "sent", !.kind = "result",
                        !.error = e, !.cred = conf[n].secret, !.since = row[n].secret]]
        BY <3>4 DEF Submit
      <4>2. PICK e :
              req' = [req EXCEPT ![n] = [NoRequest EXCEPT !.pc = "sent", !.kind = "result",
                        !.error = e, !.cred = conf[n].secret, !.since = row[n].secret]]
        BY <4>1
      <4>. DEFINE r == [NoRequest EXCEPT !.pc = "sent", !.kind = "result", !.error = e,
                                         !.cred = conf[n].secret, !.since = row[n].secret]
      <4>3. r.named = {} /\ req' = [req EXCEPT ![n] = r]
        BY <4>2 DEF NoRequest
      <4>. HIDE DEF r
      <4>. QED
        BY <1>0, <4>3
    <3>5. CASE \/ PollWrite(n) \/ PollOther(n) \/ CheckThrows(n) \/ Refusal(n) \/ Unwanted(n)
               \/ Beat(n) \/ Lose(n) \/ Stop(n)
      <4>. DEFINE job == [NoRequest EXCEPT !.pc = "job"]
      <4>1. job.named = {}
        BY DEF NoRequest
      <4>2. \/ req' = [req EXCEPT ![n] = NoRequest] \/ req' = [req EXCEPT ![n] = job]
            \/ req' = [req EXCEPT ![n] = req[n]]
        BY <3>5 DEF PollWrite, PollOther, CheckThrows, Refusal, Unwanted, Beat, Lose, Stop
      <4>. HIDE DEF job
      <4>. QED
        BY <1>0, <2>2, <4>1, <4>2
    <3>6. CASE Start(n) \/ \E g \in Regions, k, s \in {0, 1} : Register(n, g, k, s)
      <4>1. req' = [req EXCEPT ![n] = req[n]]
        BY <3>6 DEF Start, Register
      <4>. QED
        BY <2>2, <4>1
    <3>. QED
      BY <2>1, <3>1, <3>2, <3>3, <3>4, <3>5, <3>6 DEF Handle
  <2>5. \A m \in Nodes : Few(req'[m].named)
    BY <1>2, <2>4
  <2>6. (\A g \in Regions : Few(panel[g]))' /\ (\A m \in Nodes : Few(req[m].named))'
    BY <2>3, <2>5 DEF Few
  <2>. QED
    BY <2>6
<1>3. Small /\ UNCHANGED vars => Small'
  BY DEF vars
<1>4. FullInv /\ Small /\ [Next]_vars => Small'
  BY <1>2, <1>3
<1>5. Small => \A g \in Regions : IsFiniteSet(panel[g]) /\ Cardinality(panel[g]) <= MaxAssign + 1
  OBVIOUS
<1>. QED
  BY <1>1, <1>4, <1>5, InitFull, NextFull, PTL DEF Spec
=============================================================================

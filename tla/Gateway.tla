------------------------------- MODULE Gateway -------------------------------
(***************************************************************************)
(* How validators get in: the registration of nodes, the credentials their *)
(* requests carry, the checks of nodeAuthMiddleware and of POST /results,  *)
(* and the heartbeats that decide which nodes the panel of a job names.    *)
(*                                                                         *)
(* Credentials are numbered in the order in which a node was given them;   *)
(* 0 stands for none.  A handler is one action per call to the database,   *)
(* as in JobService.  isActive is left out: no code sets it to false.      *)
(***************************************************************************)
EXTENDS Integers, Sequences, FiniteSets

CONSTANTS
  Nodes,      \* the node ids in use
  GoNodes,    \* those of them that run apps/validator-go
  Padded,     \* those with blanks around the NODE_ID of their environment
  Seeded,     \* the nodes the seed creates
  Regions, Home,   \* Home: the region of those
  CheckTypes, \* the kinds of checks the websites ask for
  MaxAssign,  \* take: 3 of the poll handler's panel
  MaxRegs,    \* bound: calls of POST /nodes/register
  MaxFaults   \* bound: validators that stop and requests that get lost

ASSUME GatewayAssumption ==
  /\ IsFiniteSet(Nodes)
  /\ GoNodes \subseteq Nodes /\ Padded \subseteq Nodes /\ Seeded \subseteq Nodes
  /\ Home \in Regions
  /\ CheckTypes \subseteq {"HTTP", "TCP", "ICMP"}
  /\ MaxAssign \in Nat \ {0}
  /\ MaxRegs \in Nat
  /\ MaxFaults \in Nat

VARIABLES
  row,      \* the Node rows: region, apiKey, and publicKey (the HMAC secret)
  recent,   \* the nodes by lastHeartbeat, the latest first
  conf,     \* each validator: whether it runs, and with which credentials
  req,      \* the request of each node that is on its way or being handled
  panel,    \* the panel written last for a job of each region
  regs, faults

vars == <<row, recent, conf, req, panel, regs, faults>>

\* since: the credential the row held when the request was sent; named: the
\* nodes that the handler of a poll has found for the panel.
NoRequest == [pc |-> "idle", kind |-> "beat", cred |-> 0, since |-> 0, error |-> "none",
              region |-> Home, named |-> {}]

Init ==
  /\ row = [n \in Nodes |-> LET given == IF n \in Seeded THEN 1 ELSE 0
                            IN [exists |-> n \in Seeded, region |-> Home,
                                key |-> given, secret |-> given]]
  /\ recent \in {s \in [1..Cardinality(Seeded) -> Seeded] :
                  \A n \in Seeded : \E i \in DOMAIN s : s[i] = n}
  /\ conf = [n \in Nodes |-> [up |-> FALSE, key |-> 0, secret |-> 0]]
  /\ req = [n \in Nodes |-> NoRequest]
  /\ panel = [g \in Regions |-> {}]
  /\ regs = 0
  /\ faults = 0

-----------------------------------------------------------------------------
\* POST /nodes/register

\* An upsert.  The secret comes with the request, the old one or a new one; a
\* request without an API key gets a new one.  Only a new row has a heartbeat.
Register(n, g, newKey, newSecret) ==
  /\ regs < MaxRegs
  /\ ~row[n].exists => newKey = 1 /\ newSecret = 1
  /\ row' = [row EXCEPT ![n] = [exists |-> TRUE, region |-> g, key |-> @.key + newKey,
                                secret |-> @.secret + newSecret]]
  /\ recent' = IF row[n].exists THEN recent ELSE <<n>> \o recent
  /\ regs' = regs + 1
  /\ UNCHANGED <<conf, req, panel, faults>>

-----------------------------------------------------------------------------
\* The validators

\* A validator is started with the credentials of its last registration, or
\* with those its environment still holds.
Start(n) ==
  /\ row[n].exists /\ ~conf[n].up
  /\ \/ conf' = [conf EXCEPT ![n] = [up |-> TRUE, key |-> row[n].key,
                                     secret |-> row[n].secret]]
     \/ conf[n].key # 0 /\ conf' = [conf EXCEPT ![n].up = TRUE]
  /\ UNCHANGED <<row, recent, req, panel, regs, faults>>

\* It stops: a job in its hands is lost, a request on the way is not.
Stop(n) ==
  /\ conf[n].up /\ faults < MaxFaults
  /\ conf' = [conf EXCEPT ![n].up = FALSE]
  /\ req' = [req EXCEPT ![n] = IF @.pc = "job" THEN NoRequest ELSE @]
  /\ faults' = faults + 1
  /\ UNCHANGED <<row, recent, panel, regs>>

\* Heartbeats and polls are sent by timers, and carry the API key.
Send(n, kind) ==
  /\ conf[n].up /\ req[n].pc = "idle"
  /\ req' = [req EXCEPT ![n] = [NoRequest EXCEPT !.pc = "sent", !.kind = kind,
                                  !.cred = conf[n].key, !.since = row[n].key]]
  /\ UNCHANGED <<row, recent, conf, panel, regs, faults>>

\* What errorMessage a check may come to: none, one that holds the website's
\* URL, or one that does not.
TsErrors(type) ==
  CASE type = "ICMP" -> {"url"}
    [] OTHER -> {"none", "plain"}

\* A failed request of net/http names the URL, and so does url.Parse.
GoErrors(type) ==
  CASE type = "ICMP" -> {"plain"}
    [] type = "TCP"  -> {"none", "plain", "url"}
    [] type = "HTTP" -> {"none", "url"}

Errors(n, type) == IF n \in GoNodes THEN GoErrors(type) ELSE TsErrors(type)

\* The job is checked, and the result signed with the secret and sent.
Submit(n) ==
  /\ req[n].pc = "job"
  /\ \E t \in CheckTypes : \E e \in Errors(n, t) :
       req' = [req EXCEPT ![n] = [NoRequest EXCEPT !.pc = "sent", !.kind = "result", !.error = e,
                                    !.cred = conf[n].secret, !.since = row[n].secret]]
  /\ UNCHANGED <<row, recent, conf, panel, regs, faults>>

\* checkTcp's new URL rejects a website's URL without a scheme, which POST
\* /websites takes: nobody catches it, and the iteration ends without a
\* report.  A runtime that ends the process with it takes the action Stop.
CheckThrows(n) ==
  /\ req[n].pc = "job" /\ n \notin GoNodes /\ "TCP" \in CheckTypes
  /\ req' = [req EXCEPT ![n] = NoRequest]
  /\ UNCHANGED <<row, recent, conf, panel, regs, faults>>

(***************************************************************************)
(* The text that is signed, by the two fields that a conversion may change *)
(* on the way: nodeId, "padded" or "trimmed", and errorMessage, "none"     *)
(* where the field is undefined or nil.                                    *)
(***************************************************************************)
Payload(n, e) == [nodeId |-> IF n \in Padded THEN "padded" ELSE "trimmed", errorMessage |-> e]

\* stableResultPayload: errorMessage ?? null
Stable(p) == [p EXCEPT !.errorMessage = IF @ = "none" THEN "null" ELSE @]

\* Sign: the website's URL holds an "&", which json.Marshal writes as \u0026 and
\* JSON.stringify leaves alone.
GoStable(p) ==
  [p EXCEPT !.errorMessage = CASE @ = "none" -> "null" [] @ = "url" -> "escaped" [] OTHER -> @]

SignedText(n, p) == IF n \in GoNodes THEN GoStable(p) ELSE Stable(p)

\* What express.json makes of the body: JSON.stringify leaves out what is
\* undefined, json.Marshal writes null; Go's escapes are undone.
Body(n, p) == IF n \in GoNodes /\ p.errorMessage = "none" THEN [p EXCEPT !.errorMessage = "null"]
              ELSE p

\* Mutant: the error is forgotten.
NormalizedBare(b) == [nodeId |-> "trimmed", errorMessage |-> "none"]

\* POST /results: requireString trims the id, and an errorMessage that is not a
\* string becomes undefined.
Normalized(b) == [nodeId |-> "trimmed",
                  errorMessage |-> IF b.errorMessage = "null" THEN "none" ELSE b.errorMessage]

\* The text that the API signs is the one that the node has signed.
Reproduced(n, e) ==
  LET p == Payload(n, e) IN Stable(Normalized(Body(n, p))) = SignedText(n, p)

-----------------------------------------------------------------------------
\* The API

\* nodeAuthMiddleware: heartbeats and polls carry the API key.
NodeAuth(n) ==
  /\ req[n].pc = "sent" /\ req[n].kind # "result"
  /\ req' = [req EXCEPT ![n] = IF row[n].exists /\ @.cred = row[n].key
                               THEN [@ EXCEPT !.pc = "passed", !.region = row[n].region]
                               ELSE NoRequest]
  /\ UNCHANGED <<row, recent, conf, panel, regs, faults>>

\* Mutant: a result is let in whatever secret it was signed with.
VerifyAnySecret(n) ==
  /\ req[n].pc = "sent" /\ req[n].kind = "result"
  /\ req' = [req EXCEPT ![n].pc = IF Reproduced(n, req[n].error) THEN "passed" ELSE "refused"]
  /\ UNCHANGED <<row, recent, conf, panel, regs, faults>>

\* POST /results: the text is put together again from the fields of the body and
\* signed with the secret in the row; another signature is refused.
Verify(n) ==
  LET r == req[n]
  IN /\ r.pc = "sent" /\ r.kind = "result"
     /\ req' = [req EXCEPT ![n].pc =
                  IF /\ row[n].exists
                     /\ r.cred = row[n].secret
                     /\ Reproduced(n, r.error)
                  THEN "passed" ELSE "refused"]
     /\ UNCHANGED <<row, recent, conf, panel, regs, faults>>

\* Mutant: the heartbeat leaves lastHeartbeat as it is.
BeatUnrecorded(n) ==
  /\ req[n].pc = "passed" /\ req[n].kind # "poll"
  /\ req' = [req EXCEPT ![n] = NoRequest]
  /\ UNCHANGED <<row, recent, conf, panel, regs, faults>>

\* Mutant: the place the node had stays.
HeardOfTwice(n) == <<n>> \o recent

\* The node comes first; those heard of later than it fall back by one.
HeardOf(n) ==
  LET at == CHOOSE i \in DOMAIN recent : recent[i] = n
  IN [i \in DOMAIN recent |->
        IF i = 1 THEN n ELSE IF i <= at THEN recent[i - 1] ELSE recent[i]]

\* POST /nodes/heartbeat sets lastHeartbeat, and so does POST /results after it
\* has stored the result.
Beat(n) ==
  /\ req[n].pc = "passed" /\ req[n].kind # "poll"
  /\ recent' = HeardOf(n)
  /\ req' = [req EXCEPT ![n] = NoRequest]
  /\ UNCHANGED <<row, conf, panel, regs, faults>>

\* The places of the region's nodes, and the nodes at the first MaxAssign of them.
Of(g) == {i \in DOMAIN recent : row[recent[i]].region = g}

Foremost(g) ==
  {recent[i] : i \in {k \in Of(g) : Cardinality({j \in Of(g) : j < k}) < MaxAssign}}

\* GET /jobs/poll for a PENDING job: the nodes of the region heard of last, and
\* the one that asks; the region is the one the middleware has read.
PollRead(n) ==
  /\ req[n].pc = "passed" /\ req[n].kind = "poll"
  /\ req' = [req EXCEPT ![n] = [NoRequest EXCEPT !.pc = "panel", !.region = req[n].region,
                                  !.named = Foremost(req[n].region) \cup {n}]]
  /\ UNCHANGED <<row, recent, conf, panel, regs, faults>>

\* They are written to the job, which is handed out.
PollWrite(n) ==
  /\ req[n].pc = "panel"
  /\ panel' = [panel EXCEPT ![req[n].region] = req[n].named]
  /\ req' = [req EXCEPT ![n] = IF conf[n].up THEN [NoRequest EXCEPT !.pc = "job"]
                               ELSE NoRequest]
  /\ UNCHANGED <<row, recent, conf, regs, faults>>

\* ... and otherwise: a job whose panel names the node already, or none.
PollOther(n) ==
  /\ req[n].pc = "passed" /\ req[n].kind = "poll"
  /\ \/ conf[n].up /\ req' = [req EXCEPT ![n] = [NoRequest EXCEPT !.pc = "job"]]
     \/ req' = [req EXCEPT ![n] = NoRequest]
  /\ UNCHANGED <<row, recent, conf, panel, regs, faults>>

\* The answer 401 arrives; the validator logs it and forgets the result.
Refusal(n) ==
  /\ req[n].pc = "refused"
  /\ req' = [req EXCEPT ![n] = NoRequest]
  /\ UNCHANGED <<row, recent, conf, panel, regs, faults>>

\* A result for a job that is unknown, or that the node has reported already,
\* ends with an answer of its own (404, 400, 409).
Unwanted(n) ==
  /\ req[n].pc = "passed" /\ req[n].kind = "result"
  /\ req' = [req EXCEPT ![n] = NoRequest]
  /\ UNCHANGED <<row, recent, conf, panel, regs, faults>>

\* The request, the handler with it, or the answer is lost.
Lose(n) ==
  /\ req[n].pc \in {"sent", "passed", "panel", "job"} /\ faults < MaxFaults
  /\ req' = [req EXCEPT ![n] = NoRequest]
  /\ faults' = faults + 1
  /\ UNCHANGED <<row, recent, conf, panel, regs>>

Handle(n) ==
  \/ NodeAuth(n) \/ PollRead(n) \/ PollWrite(n) \/ PollOther(n)
  \/ Verify(n) \/ Refusal(n) \/ Unwanted(n)
  \/ Beat(n)

Next ==
  \E n \in Nodes :
    \/ \E g \in Regions, k, s \in {0, 1} : Register(n, g, k, s)
    \/ Start(n) \/ Stop(n) \/ Lose(n)
    \/ \E kind \in {"beat", "poll"} : Send(n, kind)
    \/ Submit(n) \/ CheckThrows(n)
    \/ Handle(n)

Spec == Init /\ [][Next]_vars

(***************************************************************************)
(* A running validator keeps sending heartbeats and polls (setInterval,    *)
(* time.Ticker), and the API finishes what it has begun.  Strong fairness  *)
(* of the sending, because req holds one request of a node at a time; the  *)
(* hub keeps creating PENDING jobs, so a poll finds one again and again.   *)
(***************************************************************************)
FairSpec ==
  /\ Spec
  /\ \A n \in Nodes :
       /\ SF_vars(Send(n, "beat")) /\ SF_vars(Send(n, "poll")) /\ SF_vars(PollRead(n))
       /\ WF_vars(Submit(n) \/ CheckThrows(n) \/ Handle(n))

-----------------------------------------------------------------------------
\* Properties

Numbers == 0..MaxRegs + 1

Request == [pc : {"idle", "sent", "passed", "panel", "refused", "job"}, kind : {"beat", "poll", "result"},
            cred : Numbers, since : Numbers, error : {"none", "plain", "url"},
            region : Regions, named : SUBSET Nodes]

\* Every variable has its type.
TypeOK ==
  /\ row \in [Nodes -> [exists : BOOLEAN, region : Regions, key : Numbers,
                        secret : Numbers]]
  /\ recent \in Seq(Nodes)
  /\ Len(recent) = Cardinality({n \in Nodes : row[n].exists})
  /\ conf \in [Nodes -> [up : BOOLEAN, key : Numbers, secret : Numbers]]
  /\ req \in [Nodes -> Request]
  /\ panel \in [Regions -> SUBSET Nodes]
  /\ regs \in 0..MaxRegs
  /\ faults \in 0..MaxFaults

(***************************************************************************)
(* A credential that was replaced before a request was sent does not let   *)
(* it in: whatever is restarted, registered again or delayed, no heartbeat *)
(* or poll passes with such a key, and no result with such a secret.       *)
(***************************************************************************)
ReplacedCredentialsAreDead ==
  \A n \in Nodes : req[n].pc = "passed" => req[n].cred >= req[n].since

(***************************************************************************)
(* The API reproduces the signed text from the body it has parsed, trimmed *)
(* and normalized, whatever a check has found.  A result is refused for    *)
(* one of three reasons: the secret was replaced since the validator was   *)
(* started, its NODE_ID has blanks around it, or Go has escaped its error. *)
(***************************************************************************)
RefusedForCause ==
  \A n \in Nodes :
    req[n].pc = "refused" =>
      \/ req[n].cred # row[n].secret
      \/ n \in Padded
      \/ n \in GoNodes /\ req[n].error = "url"

(***************************************************************************)
(* A result is refused only because the node's secret was replaced since   *)
(* the validator was started: never for what its check has found.          *)
(***************************************************************************)
RefusedAreOutdated ==
  \A n \in Nodes : req[n].pc = "refused" => req[n].cred # row[n].secret

\* The nodes of a region that run with the key their row holds.
Live(g) == {n \in Nodes : /\ row[n].exists /\ row[n].region = g
                          /\ conf[n].up /\ conf[n].key = row[n].key}

(***************************************************************************)
(* Validators that stop, lose their key or move away drop out: once enough *)
(* nodes of a region go on running, its panels come to name only those,    *)
(* though no code takes the others from the table.                         *)
(***************************************************************************)
DeadNodesDropOut ==
  \A g \in Regions :
    <>[](Cardinality(Live(g)) >= MaxAssign) => <>[](panel[g] \subseteq Live(g))
=============================================================================

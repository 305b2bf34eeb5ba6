----------------------------- MODULE JobContract -----------------------------
(***************************************************************************)
(* What the jobs of a website promise to whoever reads them, without the   *)
(* calls, panels and transactions by which JobService keeps the promise:   *)
(* votes are only added, one per node; a job is decided when, and as often *)
(* as, its votes decide it; it may expire at any time; and one that has    *)
(* ended is reopened only by a worker that took it up while it was open.   *)
(***************************************************************************)
EXTENDS Consensus

CONSTANTS
  Jobs,     \* the jobs there may be
  Nodes,    \* who votes
  Seats,    \* the size of the panel whose votes are enough
  Workers   \* what may have taken a job up: polls and evaluations

VARIABLES
  phase,    \* of each job: "none", "open", "decided" or "expired"
  votes,    \* of each job: the votes in the order they came
  holders   \* of each job: the workers that found it open

contractVars == <<phase, votes, holders>>

Init ==
  /\ phase = [j \in Jobs |-> "none"]
  /\ votes = [j \in Jobs |-> <<>>]
  /\ holders = [j \in Jobs |-> {}]

Open(j) ==
  /\ phase[j] = "none"
  /\ phase' = [phase EXCEPT ![j] = "open"]
  /\ UNCHANGED <<votes, holders>>

Take(w, j) ==
  /\ phase[j] = "open"
  /\ holders' = [holders EXCEPT ![j] = @ \cup {w}]
  /\ UNCHANGED <<phase, votes>>

Leave(w, j) ==
  /\ w \in holders[j]
  /\ holders' = [holders EXCEPT ![j] = @ \ {w}]
  /\ UNCHANGED <<phase, votes>>

\* A worker writes that the job is in progress, and goes on with it or not.
Work(w, j) ==
  /\ w \in holders[j]
  /\ phase' = [phase EXCEPT ![j] = "open"]
  /\ holders' \in {holders, [holders EXCEPT ![j] = @ \ {w}]}
  /\ UNCHANGED votes

Vote(n, s, j) ==
  /\ phase[j] # "none"
  /\ \A i \in DOMAIN votes[j] : votes[j][i].node # n
  /\ votes' = [votes EXCEPT ![j] = Append(@, [node |-> n, status |-> s])]
  /\ UNCHANGED <<phase, holders>>

Decide(j) ==
  /\ phase' = [phase EXCEPT ![j] = "decided"]
  /\ UNCHANGED <<votes, holders>>
  /\ votes[j] # <<>>
  /\ Decided(votes[j], Seats)

Expire(J) ==
  /\ \A j \in J : phase[j] # "none"
  /\ phase' = [j \in Jobs |-> IF j \in J THEN "expired" ELSE phase[j]]
  /\ UNCHANGED <<votes, holders>>

Next ==
  \/ \E j \in Jobs :
       \/ Open(j) \/ Decide(j)
       \/ \E w \in Workers : Take(w, j) \/ Leave(w, j) \/ Work(w, j)
       \/ \E n \in Nodes, s \in SiteStatus : Vote(n, s, j)
  \/ \E J \in SUBSET Jobs : Expire(J)

Spec == Init /\ [][Next]_contractVars
=============================================================================

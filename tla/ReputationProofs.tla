--------------------------- MODULE ReputationProofs ---------------------------
(***************************************************************************)
(* Theorems of Reputation, for any number of handlers and results.  The    *)
(* bounds on the row alone are not inductive, since a handler writes back  *)
(* the score it has read: what makes them so is that the same bounds hold  *)
(* of every score in a handler's hands against the failures counted by     *)
(* now, which only grow after the read.                                    *)
(***************************************************************************)
EXTENDS Reputation, FiniteSetTheorems, TLAPS

Floor(score) == score >= Best - (FirstPenalty - Penalty) - Penalty * row.false

Fair(score) == Floor(score) /\ (row.false = 0 => score = Best)

RowFair == Fair(row.score) /\ (~row.exists => row.false = 0)

HandlersFair ==
  \A h \in Handlers : handler[h].pc = "update" => row.exists /\ Fair(handler[h].score)

Inv == TypeOK /\ RowFair /\ HandlersFair

\* The increments are 0 or 1, and one of them is 1.
LEMMA OneType ==
  ASSUME NEW ok \in BOOLEAN
  PROVE  /\ One(ok) \in Nat /\ One(~ok) \in Nat
         /\ ok => One(~ok) = 0
         /\ ~ok => One(~ok) = 1
BY DEF One

\* A clamped score is within the bounds, and is not below a score that is.
LEMMA ClampType ==
  ASSUME NEW score \in Int
  PROVE  /\ Clamp(score) \in 0..Best
         /\ score <= Best => Clamp(score) >= score
         /\ score >= Best => Clamp(score) = Best
BY BestAssumption DEF Clamp, FirstPenalty

LEMMA IdleType == Idle \in HandlerState
BY BestAssumption DEF Idle, HandlerState

LEMMA InitInv == Init => Inv
BY BestAssumption, BoundsAssumption
   DEF Init, Inv, TypeOK, RowState, HandlerState, RowFair, HandlersFair, Fair, Floor, NoRow, Idle, FirstPenalty, Penalty

LEMMA NextInv == Inv /\ [Next]_vars => Inv'
<1>. SUFFICES ASSUME Inv, [Next]_vars PROVE Inv'
  OBVIOUS
<1>. USE DEF Inv
<1>1. CASE Register
  BY <1>1 DEF Register, TypeOK, RowState, RowFair, HandlersFair, Fair, Floor
<1>2. ASSUME NEW h \in Handlers, NEW ok \in BOOLEAN, Store(h, ok)
      PROVE  Inv'
  <2>. DEFINE r == [Idle EXCEPT !.pc = "read", !.ok = ok]
  <2>0. r \in HandlerState
    BY IdleType DEF HandlerState
  <2>1. TypeOK'
    <3>1. handler' \in [Handlers -> HandlerState]
      BY <1>2, <2>0 DEF Store, TypeOK
    <3>2. results' \in 0..MaxResults
      BY <1>2, BoundsAssumption DEF Store, TypeOK
    <3>. QED
      BY <1>2, <3>1, <3>2 DEF Store, TypeOK
  <2>2. RowFair' /\ HandlersFair'
    BY <1>2 DEF Store, TypeOK, RowFair, HandlersFair, Fair, Floor, Idle
  <2>. QED
    BY <2>1, <2>2
<1>3. ASSUME NEW h \in Handlers, Read(h)
      PROVE  Inv'
  BY <1>3 DEF Read, TypeOK, RowState, HandlerState, RowFair, HandlersFair, Fair, Floor
<1>4. ASSUME NEW h \in Handlers, Create(h)
      PROVE  Inv'
  <2>1. Idle \in HandlerState
    BY IdleType
  <2>2. handler' \in [Handlers -> HandlerState]
    BY <1>4, <2>1 DEF Create, TypeOK
  <2>3. handler[h].ok \in BOOLEAN
    BY DEF TypeOK, HandlerState
  <2>4. CASE row.exists
    BY <1>4, <2>2, <2>4 DEF Create, TypeOK, RowFair, HandlersFair, Fair, Floor, Idle
  <2>5. CASE ~row.exists
    <3>. DEFINE ok == handler[h].ok
                new == [exists |-> TRUE, score |-> IF ok THEN Best ELSE Best - FirstPenalty,
                        total |-> 1, success |-> One(ok), false |-> One(~ok)]
    <3>1. row' = new
      BY <1>4, <2>5 DEF Create
    <3>2. new.score \in 0..Best
      BY BestAssumption DEF FirstPenalty
    <3>3. TypeOK'
      BY <1>4, <2>2, <2>3, <3>1, <3>2, OneType DEF Create, TypeOK, RowState
    <3>4. RowFair'
      BY <2>3, <3>1, OneType, BestAssumption DEF RowFair, Fair, Floor, FirstPenalty, Penalty
    <3>5. HandlersFair'
      BY <1>4, <2>5 DEF Create, TypeOK, HandlersFair, Idle
    <3>. QED
      BY <3>3, <3>4, <3>5
  <2>. QED
    BY <2>4, <2>5
<1>5. ASSUME NEW h \in Handlers, Update(h)
      PROVE  Inv'
  <2>. DEFINE ok == handler[h].ok
              old == handler[h].score
              new == old + IF ok THEN Reward ELSE -Penalty
  <2>1. ok \in BOOLEAN /\ old \in 0..Best /\ row.false \in Nat
    BY DEF TypeOK, RowState, HandlerState
  <2>2. Fair(old) /\ row.exists
    BY <1>5 DEF Update, HandlersFair
  <2>3. new \in Int
    BY <2>1, BestAssumption DEF Reward, Penalty
  <2>4. /\ row'.exists = row.exists
        /\ row'.false = row.false + One(~ok)
        /\ row'.score = Clamp(new)
    BY <1>5 DEF Update, TypeOK, RowState
  <2>5. TypeOK'
    <3>1. Idle \in HandlerState
      BY IdleType
    <3>2. handler' \in [Handlers -> HandlerState]
      BY <1>5, <3>1 DEF Update, TypeOK
    <3>3. Clamp(new) \in 0..Best /\ One(ok) \in Nat /\ One(~ok) \in Nat
      BY <2>1, <2>3, ClampType, OneType
    <3>4. row' = [row EXCEPT !.total = @ + 1, !.success = @ + One(ok),
                             !.false = @ + One(~ok), !.score = Clamp(new)]
      BY <1>5 DEF Update
    <3>5. row \in RowState
      BY DEF TypeOK
    <3>6. row' \in RowState
      <4>. HIDE DEF new, ok
      <4>1. row.total + 1 \in Nat /\ row.success + One(ok) \in Nat
                                  /\ row.false + One(~ok) \in Nat
        BY <3>3, <3>5 DEF RowState
      <4>. QED
        BY <3>3, <3>4, <3>5, <4>1 DEF RowState
    <3>. QED
      BY <1>5, <3>2, <3>6 DEF Update, TypeOK
  <2>6. RowFair'
    <3>1. CASE ok
      <4>1. row'.false = row.false /\ new = old + 1
        <5>1. One(~ok) = 0
          BY <2>1, <3>1, OneType
        <5>2. new = old + 1
          BY <3>1 DEF Reward
        <5>. HIDE DEF new, ok
        <5>. QED
          BY <2>1, <2>4, <5>1, <5>2
      <4>2. Clamp(new) >= old /\ (old = Best => Clamp(new) = Best)
        BY <2>1, <4>1, ClampType, BestAssumption
      <4>. QED
        BY <2>1, <2>2, <2>3, <2>4, <4>1, <4>2, ClampType, BestAssumption
           DEF RowFair, Fair, Floor, FirstPenalty, Penalty
    <3>2. CASE ~ok
      <4>1. row'.false = row.false + 1 /\ new = old - 20
        BY <2>1, <2>4, <3>2, OneType DEF Penalty
      <4>2. Clamp(new) >= new
        BY <2>1, <2>3, <4>1, ClampType, BestAssumption
      <4>3. Clamp(new) \in Int
        BY <2>3, ClampType
      <4>. QED
        BY <2>1, <2>2, <2>3, <2>4, <4>1, <4>2, <4>3, BestAssumption
           DEF RowFair, Fair, Floor, FirstPenalty, Penalty
    <3>. QED
      BY <2>1, <3>1, <3>2
  <2>7. HandlersFair'
    <3>. SUFFICES ASSUME NEW g \in Handlers, handler'[g].pc = "update"
                  PROVE  row'.exists /\ Fair(handler[g].score)'
      BY DEF HandlersFair, Fair, Floor
    <3>1. handler'[g] = handler[g]
      BY <1>5 DEF Update, TypeOK, Idle
    <3>2. Fair(handler[g].score)
      BY <3>1 DEF HandlersFair
    <3>3. row'.false = row.false \/ row'.false = row.false + 1
      BY <2>1, <2>4, OneType
    <3>4. handler[g].score \in 0..Best
      BY DEF TypeOK, HandlerState
    <3>. QED
      BY <2>1, <2>2, <2>4, <3>1, <3>2, <3>3, <3>4, BestAssumption
         DEF Fair, Floor, FirstPenalty, Penalty
  <2>. QED
    BY <2>5, <2>6, <2>7
<1>6. ASSUME NEW h \in Handlers, Fault(h)
      PROVE  Inv'
  <2>1. TypeOK'
    <3>1. handler' \in [Handlers -> HandlerState]
      BY <1>6, IdleType DEF Fault, TypeOK
    <3>2. faults' \in 0..MaxFaults
      BY <1>6, BoundsAssumption DEF Fault, TypeOK
    <3>. QED
      BY <1>6, <3>1, <3>2 DEF Fault, TypeOK
  <2>2. RowFair' /\ HandlersFair'
    BY <1>6 DEF Fault, TypeOK, RowFair, HandlersFair, Fair, Floor, Idle
  <2>. QED
    BY <2>1, <2>2
<1>7. CASE UNCHANGED vars
  BY <1>7 DEF vars, TypeOK, RowFair, HandlersFair, Fair, Floor
<1>. QED
  BY <1>1, <1>2, <1>3, <1>4, <1>5, <1>6, <1>7 DEF Next

LEMMA SpecInv == Spec => []Inv
BY InitInv, NextInv, PTL DEF Spec

-----------------------------------------------------------------------------
\* Whatever stale score an overlapping result writes back, the score of a node
\* is at least what its counted failures take away.
THEOREM PenaltiesAreDeserved == Spec => []NoUndeservedPenalty
<1>1. Inv => NoUndeservedPenalty
  BY DEF Inv, RowFair, Fair, Floor, NoUndeservedPenalty
<1>. QED
  BY <1>1, SpecInv, PTL

\* A node that has not failed has the full score.
THEOREM PerfectRecordKept == Spec => []PerfectRecord
<1>1. Inv => PerfectRecord
  BY DEF Inv, RowFair, Fair, PerfectRecord
<1>. QED
  BY <1>1, SpecInv, PTL

\* The score stays within its bounds and every counter a number.
THEOREM ReputationTyped == Spec => []TypeOK
<1>1. Inv => TypeOK
  BY DEF Inv
<1>. QED
  BY <1>1, SpecInv, PTL

-----------------------------------------------------------------------------
(***************************************************************************)
(* The count of the results.  While there is no row, every result stored   *)
(* is accounted for.  From then on the handlers that may still lose theirs *)
(* are those that found no row, and there are never more of them, since a  *)
(* read finds the row now.                                                 *)
(***************************************************************************)
Creating == {h \in Handlers : handler[h].pc = "create"}

Accounted == row.total + Cardinality(InFlight) + faults

Counted ==
  /\ row.total = row.success + row.false
  /\ Accounted <= results
  /\ row.exists => results + Cardinality(Creating) <= Accounted + Cardinality(Handlers)
  /\ ~row.exists => row.total = 0 /\ row.false = 0 /\ results = Accounted

\* The sets of handlers are finite, and so are the counts.
LEMMA Counts ==
  ASSUME NEW H \in SUBSET Handlers
  PROVE  IsFiniteSet(H) /\ Cardinality(H) \in Nat /\ Cardinality(H) <= Cardinality(Handlers)
         /\ Cardinality(Handlers) \in Nat
BY HandlersAssumption, FS_Subset, FS_CardinalityType

\* A handler that ends is one less in progress, and at most one less creating.
LEMMA HandlerEnds ==
  ASSUME Inv, NEW h \in Handlers, handler[h].pc # "idle",
         handler' = [handler EXCEPT ![h] = Idle]
  PROVE  /\ Cardinality(InFlight') = Cardinality(InFlight) - 1
         /\ Cardinality(Creating') =
              IF handler[h].pc = "create" THEN Cardinality(Creating) - 1
                                          ELSE Cardinality(Creating)
<1>1. handler \in [Handlers -> HandlerState]
  BY DEF Inv, TypeOK
<1>2. \A g \in Handlers : handler'[g].pc = IF g = h THEN "idle" ELSE handler[g].pc
  BY <1>1 DEF Idle
<1>3. InFlight' = InFlight \ {h} /\ h \in InFlight
  BY <1>2 DEF InFlight
<1>4. Creating' = Creating \ {h} /\ (h \in Creating <=> handler[h].pc = "create")
  BY <1>2 DEF Creating
<1>5. IsFiniteSet(InFlight) /\ IsFiniteSet(Creating)
  BY Counts DEF InFlight, Creating
<1>. QED
  BY <1>3, <1>4, <1>5, FS_RemoveElement

LEMMA NextCounted == Inv /\ Counted /\ [Next]_vars => Counted'
<1>. SUFFICES ASSUME Inv, Counted, [Next]_vars PROVE Counted'
  OBVIOUS
<1>1. /\ row \in RowState /\ handler \in [Handlers -> HandlerState]
      /\ results \in Nat /\ faults \in Nat
  BY BoundsAssumption DEF Inv, TypeOK
<1>2. /\ row.total \in Nat /\ row.success \in Nat /\ row.false \in Nat
      /\ row.exists \in BOOLEAN
  BY <1>1 DEF RowState
<1>3. /\ Cardinality(InFlight) \in Nat /\ Cardinality(Creating) \in Nat
      /\ Cardinality(Creating) <= Cardinality(Handlers) /\ Cardinality(Handlers) \in Nat
  BY Counts DEF InFlight, Creating
<1>4. CASE Register
  <2>1. /\ InFlight' = InFlight /\ Creating' = Creating
        /\ results' = results /\ faults' = faults
        /\ row'.total = row.total /\ row'.success = row.success /\ row'.false = row.false
        /\ row'.exists /\ ~row.exists
    BY <1>1, <1>4 DEF Register, InFlight, Creating, RowState
  <2>2. /\ Cardinality(InFlight') = Cardinality(InFlight)
        /\ Cardinality(Creating') = Cardinality(Creating)
    BY <2>1
  <2>. QED
    BY <1>1, <1>2, <1>3, <2>1, <2>2 DEF Counted, Accounted
<1>5. ASSUME NEW h \in Handlers, NEW ok \in BOOLEAN, Store(h, ok)
      PROVE  Counted'
  <2>1. row' = row /\ faults' = faults /\ results' = results + 1 /\ h \notin InFlight
    BY <1>5 DEF Store, InFlight
  <2>2. \A g \in Handlers : handler'[g].pc = IF g = h THEN "read" ELSE handler[g].pc
    BY <1>1, <1>5 DEF Store, Idle
  <2>3. InFlight' = InFlight \cup {h} /\ Creating' = Creating
    BY <1>5, <2>2 DEF Store, InFlight, Creating
  <2>4. Cardinality(InFlight') = Cardinality(InFlight) + 1
    BY <2>1, <2>3, Counts, FS_AddElement DEF InFlight
  <2>5. Cardinality(Creating') = Cardinality(Creating)
    BY <2>3
  <2>. QED
    BY <1>1, <1>2, <1>3, <2>1, <2>4, <2>5 DEF Counted, Accounted
<1>6. ASSUME NEW h \in Handlers, Read(h)
      PROVE  Counted'
  <2>1. row' = row /\ faults' = faults /\ results' = results
    BY <1>6 DEF Read
  <2>2. \A g \in Handlers : handler'[g].pc =
          IF g = h THEN (IF row.exists THEN "update" ELSE "create") ELSE handler[g].pc
    BY <1>1, <1>6 DEF Read, HandlerState
  <2>3. handler[h].pc = "read"
    BY <1>6 DEF Read
  <2>4. Cardinality(InFlight') = Cardinality(InFlight)
    <3>1. \A g \in Handlers : handler'[g].pc # "idle" <=> handler[g].pc # "idle"
      BY <2>2, <2>3
    <3>2. InFlight' = InFlight
      BY <3>1 DEF InFlight
    <3>. QED
      BY <3>2
  <2>5. row.exists => Cardinality(Creating') = Cardinality(Creating)
    <3>1. row.exists => \A g \in Handlers : handler'[g].pc = "create" <=> handler[g].pc = "create"
      BY <2>2, <2>3
    <3>2. row.exists => Creating' = Creating
      BY <3>1 DEF Creating
    <3>. QED
      BY <3>2
  <2>. QED
    BY <2>1, <2>4, <2>5 DEF Counted, Accounted
<1>7. ASSUME NEW h \in Handlers, Create(h)
      PROVE  Counted'
  <2>1. /\ results' = results /\ faults' = faults
        /\ handler[h].pc = "create" /\ handler' = [handler EXCEPT ![h] = Idle]
    BY <1>7 DEF Create
  <2>2. /\ Cardinality(InFlight') = Cardinality(InFlight) - 1
        /\ Cardinality(Creating') = Cardinality(Creating) - 1
    BY <2>1, HandlerEnds
  <2>3. CASE row.exists
    <3>1. row' = row
      BY <1>7, <2>3 DEF Create
    <3>. QED
      BY <1>1, <1>2, <1>3, <2>1, <2>2, <2>3, <3>1 DEF Counted, Accounted
  <2>4. CASE ~row.exists
    <3>1. /\ row'.exists /\ row'.total = 1
          /\ row'.success = One(handler[h].ok) /\ row'.false = One(~handler[h].ok)
      BY <1>7, <2>4 DEF Create
    <3>2. handler[h].ok \in BOOLEAN
      BY <1>1 DEF HandlerState
    <3>3. row'.total = row'.success + row'.false
      BY <3>1, <3>2 DEF One
    <3>. QED
      BY <1>1, <1>2, <1>3, <2>1, <2>2, <2>4, <3>1, <3>3 DEF Counted, Accounted
  <2>. QED
    BY <2>3, <2>4
<1>8. ASSUME NEW h \in Handlers, Update(h)
      PROVE  Counted'
  <2>1. /\ results' = results /\ faults' = faults
        /\ handler[h].pc = "update" /\ handler' = [handler EXCEPT ![h] = Idle]
    BY <1>8 DEF Update
  <2>2. /\ Cardinality(InFlight') = Cardinality(InFlight) - 1
        /\ Cardinality(Creating') = Cardinality(Creating)
    BY <2>1, HandlerEnds
  <2>3. row.exists
    BY <2>1 DEF Inv, HandlersFair
  <2>4. /\ row'.exists = row.exists /\ row'.total = row.total + 1
        /\ row'.success = row.success + One(handler[h].ok)
        /\ row'.false = row.false + One(~handler[h].ok)
    BY <1>1, <1>8 DEF Update, RowState
  <2>5. One(handler[h].ok) + One(~handler[h].ok) = 1
        /\ One(handler[h].ok) \in Nat /\ One(~handler[h].ok) \in Nat
    <3>1. handler[h].ok \in BOOLEAN
      BY <1>1 DEF HandlerState
    <3>. QED
      BY <3>1 DEF One
  <2>6. row'.total = row'.success + row'.false
    BY <1>2, <2>4, <2>5 DEF Counted
  <2>. QED
    BY <1>1, <1>2, <1>3, <2>1, <2>2, <2>3, <2>4, <2>6 DEF Counted, Accounted
<1>9. ASSUME NEW h \in Handlers, Fault(h)
      PROVE  Counted'
  <2>1. /\ results' = results /\ faults' = faults + 1 /\ row' = row
        /\ handler[h].pc # "idle" /\ handler' = [handler EXCEPT ![h] = Idle]
    BY <1>9 DEF Fault
  <2>2. /\ Cardinality(InFlight') = Cardinality(InFlight) - 1
        /\ Cardinality(Creating') \in {Cardinality(Creating), Cardinality(Creating) - 1}
    BY <2>1, HandlerEnds
  <2>. QED
    BY <1>1, <1>2, <1>3, <2>1, <2>2 DEF Counted, Accounted
<1>10. CASE UNCHANGED vars
  BY <1>10 DEF vars, Counted, Accounted, InFlight, Creating
<1>. QED
  BY <1>4, <1>5, <1>6, <1>7, <1>8, <1>9, <1>10 DEF Next

\* Every stored result is counted once: what is not counted is in progress, has
\* failed or lost the one race to create the row, at most once per handler.
THEOREM ResultsCountedOnce == Spec => []CountedOnce
<1>1. Init => Counted
  <2>. SUFFICES ASSUME Init PROVE Counted
    OBVIOUS
  <2>1. InFlight = {} /\ Cardinality(InFlight) = 0
    BY FS_EmptySet DEF Init, InFlight, Idle
  <2>. QED
    BY <2>1 DEF Init, Counted, Accounted, NoRow
<1>2. Inv /\ Counted => CountedOnce
  <2>. SUFFICES ASSUME Inv, Counted PROVE CountedOnce
    OBVIOUS
  <2>1. /\ row.total \in Nat /\ results \in Nat /\ faults \in Nat
    BY BoundsAssumption DEF Inv, TypeOK, RowState
  <2>2. /\ Cardinality(InFlight) \in Nat /\ Cardinality(Creating) \in Nat
        /\ Cardinality(Handlers) \in Nat
    BY Counts DEF InFlight, Creating
  <2>3. row.exists \/ ~row.exists
    OBVIOUS
  <2>. QED
    BY <2>1, <2>2, <2>3 DEF Counted, Accounted, CountedOnce
<1>. QED
  BY <1>1, <1>2, NextCounted, SpecInv, PTL DEF Spec
=============================================================================

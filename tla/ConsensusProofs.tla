---------------------------- MODULE ConsensusProofs ----------------------------
(***************************************************************************)
(* What the vote of Consensus keeps to as reports come in, at any place of *)
(* a list of any length: one status leads, it has the most votes, in any   *)
(* order it is one of those Leading names, a decision is never undone, and *)
(* the verdict of a decided list is never outvoted.  Then the loops by     *)
(* which the code counts, which find that leader, and the behaviours of    *)
(* MajorityVote.                                                           *)
(***************************************************************************)
EXTENDS MajorityVote, FiniteSetTheorems, FunctionTheorems, SequenceTheorems, TLAPS

\* What the reports of a list have to be.
HaveStatus(S) == \A x \in S : x.status \in SiteStatus

\* s is preferred to t: it has more votes, or as many and an earlier one.
Preferred(rs, s, t) ==
  \/ Count(rs, s) > Count(rs, t)
  \/ /\ Count(rs, s) = Count(rs, t)
     /\ \E i \in Votes(rs, s) : \A k \in Votes(rs, t) : i < k

-----------------------------------------------------------------------------
LEMMA Positions ==
  ASSUME NEW n \in Nat
  PROVE  IsFiniteSet(1..n) /\ Cardinality(1..n) = n
<1>1. IsFiniteSet(1..n) /\ Cardinality(1..n) = IF 1 > n THEN 0 ELSE n - 1 + 1
  BY FS_Interval
<1>. QED
  BY <1>1

\* The votes for a status are positions of the list.
LEMMA VotesFinite ==
  ASSUME NEW S, NEW rs \in Seq(S), NEW s
  PROVE  /\ Votes(rs, s) \subseteq 1..Len(rs)
         /\ IsFiniteSet(Votes(rs, s))
         /\ Count(rs, s) \in Nat
         /\ Count(rs, s) <= Len(rs)
         /\ Count(rs, s) = 0 <=> Votes(rs, s) = {}
<1>1. Votes(rs, s) \subseteq 1..Len(rs)
  BY DEF Votes
<1>2. IsFiniteSet(1..Len(rs)) /\ Cardinality(1..Len(rs)) = Len(rs)
  BY Positions
<1>3. IsFiniteSet(Votes(rs, s)) /\ Count(rs, s) <= Len(rs)
  BY <1>1, <1>2, FS_Subset DEF Count
<1>. QED
  BY <1>1, <1>3, FS_CardinalityType, FS_EmptySet DEF Count

\* No report is a vote for two statuses.
LEMMA VotesShared ==
  ASSUME NEW S, NEW rs \in Seq(S), NEW s, NEW t, s # t
  PROVE  /\ Votes(rs, s) \cap Votes(rs, t) = {}
         /\ Count(rs, s) + Count(rs, t) <= Len(rs)
<1>1. Votes(rs, s) \cap Votes(rs, t) = {}
  BY DEF Votes
<1>2. /\ IsFiniteSet(Votes(rs, s)) /\ IsFiniteSet(Votes(rs, t))
      /\ Votes(rs, s) \cup Votes(rs, t) \subseteq 1..Len(rs)
      /\ Count(rs, s) \in Nat /\ Count(rs, t) \in Nat
  BY VotesFinite
<1>3. Cardinality(Votes(rs, s) \cup Votes(rs, t)) = Count(rs, s) + Count(rs, t)
  <2>1. Cardinality(Votes(rs, s) \cap Votes(rs, t)) = 0
    BY <1>1, FS_EmptySet
  <2>2. Cardinality(Votes(rs, s) \cup Votes(rs, t)) =
          Cardinality(Votes(rs, s)) + Cardinality(Votes(rs, t))
            - Cardinality(Votes(rs, s) \cap Votes(rs, t))
    BY <1>2, FS_Union
  <2>. QED
    BY <1>2, <2>1, <2>2 DEF Count
<1>4. IsFiniteSet(1..Len(rs)) /\ Cardinality(1..Len(rs)) = Len(rs)
  BY Positions
<1>5. Cardinality(Votes(rs, s) \cup Votes(rs, t)) <= Cardinality(1..Len(rs))
  BY <1>2, <1>4, FS_Subset
<1>. QED
  BY <1>1, <1>3, <1>4, <1>5

\* next is rs with the report e added, wherever in the order.
Joins(S, rs, e, next) ==
  /\ next \in Seq(S) /\ Len(next) = Len(rs) + 1
  /\ \A s : Count(next, s) = IF Normalize(e.status) = s THEN Count(rs, s) + 1 ELSE Count(rs, s)

\* InsertAt puts e at place i and moves those from there on by one.
LEMMA InsertAtType ==
  ASSUME NEW S, NEW rs \in Seq(S), NEW e \in S, NEW i \in 1..(Len(rs) + 1)
  PROVE  /\ InsertAt(rs, i, e) \in Seq(S)
         /\ Len(InsertAt(rs, i, e)) = Len(rs) + 1
         /\ DOMAIN InsertAt(rs, i, e) = 1..(Len(rs) + 1)
         /\ InsertAt(rs, i, e)[i] = e
         /\ \A k \in 1..Len(rs) :
              InsertAt(rs, i, e)[IF k < i THEN k ELSE k + 1] = rs[k]
<1>. DEFINE front == SubSeq(rs, 1, i - 1)
            back == SubSeq(rs, i, Len(rs))
            one == <<e>>
<1>1. Len(rs) \in Nat /\ i \in Nat /\ i - 1 \in 0..Len(rs)
  OBVIOUS
<1>2. front \in Seq(S) /\ Len(front) = i - 1 /\ \A k \in 1..(i - 1) : front[k] = rs[k]
  BY <1>1
<1>3. /\ back \in Seq(S) /\ Len(back) = Len(rs) - i + 1
      /\ \A k \in 1..(Len(rs) - i + 1) : back[k] = rs[k + i - 1]
  BY <1>1
<1>4. one \in Seq(S) /\ Len(one) = 1 /\ one[1] = e
  OBVIOUS
<1>5. InsertAt(rs, i, e) = (front \o one) \o back
  BY DEF InsertAt
<1>. HIDE DEF front, back, one
<1>6. /\ front \o one \in Seq(S) /\ Len(front \o one) = i
      /\ (front \o one)[i] = e
      /\ \A k \in 1..(i - 1) : (front \o one)[k] = rs[k]
  <2>1. /\ front \o one \in Seq(S) /\ Len(front \o one) = i
        /\ \A k \in 1..i : (front \o one)[k] = IF k <= i - 1 THEN front[k] ELSE one[k - (i - 1)]
    <3>1. /\ front \o one \in Seq(S) /\ Len(front \o one) = Len(front) + Len(one)
          /\ \A k \in 1..(Len(front) + Len(one)) :
               (front \o one)[k] = IF k <= Len(front) THEN front[k] ELSE one[k - Len(front)]
      BY <1>2, <1>4, ConcatProperties
    <3>2. Len(front) + Len(one) = i
      BY <1>1, <1>2, <1>4
    <3>. QED
      BY <1>2, <3>1, <3>2
  <2>2. i \in 1..i /\ ~(i <= i - 1) /\ i - (i - 1) = 1
        /\ \A k \in 1..(i - 1) : k \in 1..i /\ k <= i - 1
    BY <1>1
  <2>. QED
    BY <1>2, <1>4, <2>1, <2>2
<1>. DEFINE head == front \o one
            all == head \o back
<1>. HIDE DEF head
<1>7. /\ all \in Seq(S) /\ Len(all) = Len(rs) + 1 /\ DOMAIN all = 1..(Len(rs) + 1)
      /\ \A k \in 1..i : all[k] = head[k]
      /\ \A k \in 1..(Len(rs) - i + 1) : all[i + k] = back[k]
  <2>1. head \in Seq(S) /\ Len(head) = i
    BY <1>6 DEF head
  <2>2. /\ all \in Seq(S) /\ Len(all) = Len(head) + Len(back)
        /\ \A k \in 1..(Len(head) + Len(back)) :
             all[k] = IF k <= Len(head) THEN head[k] ELSE back[k - Len(head)]
    BY <1>3, <2>1, ConcatProperties
  <2>3. Len(head) + Len(back) = Len(rs) + 1
    BY <1>1, <1>3, <2>1
  <2>4. /\ \A k \in 1..i : k \in 1..(Len(rs) + 1) /\ k <= i
        /\ \A k \in 1..(Len(rs) - i + 1) :
             i + k \in 1..(Len(rs) + 1) /\ ~(i + k <= i) /\ i + k - i = k
    BY <1>1
  <2>. HIDE DEF all
  <2>5. DOMAIN all = 1..(Len(rs) + 1)
    BY <2>2, <2>3
  <2>. QED
    BY <2>1, <2>2, <2>3, <2>4, <2>5
<1>. HIDE DEF all
<1>8. ASSUME NEW k \in 1..Len(rs)
      PROVE  all[IF k < i THEN k ELSE k + 1] = rs[k]
  <2>1. CASE k < i
    <3>1. k \in 1..(i - 1) /\ k \in 1..i
      BY <1>1, <2>1
    <3>. QED
      BY <1>6, <1>7, <2>1, <3>1 DEF head
  <2>2. CASE ~(k < i)
    <3>1. k - i + 1 \in 1..(Len(rs) - i + 1) /\ i + (k - i + 1) = k + 1
          /\ (k - i + 1) + i - 1 = k
      BY <1>1, <2>2
    <3>2. all[i + (k - i + 1)] = back[k - i + 1] /\ back[k - i + 1] = rs[(k - i + 1) + i - 1]
      BY <1>3, <1>7, <3>1
    <3>. QED
      BY <2>2, <3>1, <3>2
  <2>. QED
    BY <2>1, <2>2
<1>9. i \in 1..i
  BY <1>1
<1>. QED
  BY <1>5, <1>6, <1>7, <1>8, <1>9 DEF all, head

\* A further report is a vote for its status and for no other, wherever it
\* stands: the votes that were there before move one to one.
LEMMA InsertedJoins ==
  ASSUME NEW S, NEW rs \in Seq(S), NEW e \in S, NEW i \in 1..(Len(rs) + 1)
  PROVE  Joins(S, rs, e, InsertAt(rs, i, e))
<1>. DEFINE next == InsertAt(rs, i, e)
            at(k) == IF k < i THEN k ELSE k + 1
<1>1. /\ next \in Seq(S) /\ Len(next) = Len(rs) + 1 /\ DOMAIN next = 1..(Len(rs) + 1)
      /\ next[i] = e /\ \A k \in 1..Len(rs) : next[at(k)] = rs[k]
  BY InsertAtType
<1>2. Len(rs) \in Nat /\ i \in Nat /\ DOMAIN rs = 1..Len(rs) /\ i \in 1..(Len(rs) + 1)
  OBVIOUS
<1>. HIDE DEF next
<1>3. /\ \A k \in 1..Len(rs) : at(k) \in 1..(Len(rs) + 1) /\ at(k) # i
      /\ \A k, h \in 1..Len(rs) : at(k) = at(h) => k = h
      /\ \A h \in 1..(Len(rs) + 1) : h # i => \E k \in 1..Len(rs) : h = at(k)
  <2>1. \A k \in 1..Len(rs) : at(k) \in 1..(Len(rs) + 1) /\ at(k) # i
    BY <1>2
  <2>2. \A k, h \in 1..Len(rs) : at(k) = at(h) => k = h
    BY <1>2
  <2>3. ASSUME NEW h \in 1..(Len(rs) + 1), h # i
        PROVE  \E k \in 1..Len(rs) : h = at(k)
    <3>1. CASE h < i
      <4>1. h \in 1..Len(rs) /\ h = at(h)
        BY <1>2, <3>1
      <4>. QED
        BY <4>1
    <3>2. CASE h > i
      <4>1. h - 1 \in 1..Len(rs) /\ h = at(h - 1)
        BY <1>2, <3>2
      <4>. QED
        BY <4>1
    <3>. QED
      BY <1>2, <2>3, <3>1, <3>2
  <2>. QED
    BY <2>1, <2>2, <2>3
<1>. HIDE DEF at
<1>4. ASSUME NEW s
      PROVE  Count(next, s) = IF Normalize(e.status) = s THEN Count(rs, s) + 1 ELSE Count(rs, s)
  <2>. DEFINE V == Votes(rs, s)
              W == Votes(next, s) \ {i}
              f == [k \in V |-> at(k)]
  <2>1. /\ V \subseteq 1..Len(rs) /\ IsFiniteSet(V)
        /\ W \subseteq 1..(Len(rs) + 1)
    BY <1>1, VotesFinite DEF Votes
  <2>2. \A k \in 1..Len(rs) : k \in V <=> at(k) \in W
    BY <1>1, <1>2, <1>3 DEF Votes
  <2>3. f \in Bijection(V, W)
    <3>. HIDE DEF V, W
    <3>1. f \in [V -> W]
      BY <2>1, <2>2
    <3>2. \A k, h \in V : f[k] = f[h] => k = h
      BY <1>3, <2>1
    <3>3. ASSUME NEW w \in W
          PROVE  \E k \in V : f[k] = w
      <4>1. w \in 1..(Len(rs) + 1) /\ w # i
        BY <2>1 DEF W
      <4>2. PICK k \in 1..Len(rs) : w = at(k)
        BY <1>3, <4>1
      <4>. QED
        BY <2>2, <4>2
    <3>. QED
      BY <3>1, <3>2, <3>3, Fun_IsBij
  <2>4. IsFiniteSet(W) /\ Cardinality(W) = Cardinality(V)
    <3>. HIDE DEF V, W, f
    <3>1. ExistsBijection(V, W)
      BY <2>3 DEF ExistsBijection
    <3>. QED
      BY <2>1, <3>1, FS_Bijection
  <2>5. i \in Votes(next, s) <=> Normalize(e.status) = s
    BY <1>1, <1>2 DEF Votes
  <2>6. i \notin W /\ (Votes(next, s) = IF Normalize(e.status) = s THEN W \cup {i} ELSE W)
    BY <2>5
  <2>7. Cardinality(W \cup {i}) = Cardinality(W) + 1
    <3>. HIDE DEF W
    <3>. QED
      BY <2>4, <2>6, FS_AddElement
  <2>. QED
    BY <2>4, <2>6, <2>7 DEF Count
<1>. QED
  BY <1>1, <1>4 DEF Joins, next

\* The end is one of the places.
LEMMA AppendedJoins ==
  ASSUME NEW S, NEW rs \in Seq(S), NEW e \in S
  PROVE  Joins(S, rs, e, Append(rs, e))
<1>1. InsertAt(rs, Len(rs) + 1, e) = Append(rs, e)
  <2>1. Len(rs) \in Nat /\ Len(rs) + 1 - 1 = Len(rs)
    OBVIOUS
  <2>2. SubSeq(rs, 1, Len(rs)) = rs /\ SubSeq(rs, Len(rs) + 1, Len(rs)) = <<>>
    BY <2>1, SubSeqFull, SubSeqEmpty
  <2>3. rs \o <<e>> = Append(rs, e) /\ Append(rs, e) \in Seq(S)
    BY AppendIsConcat
  <2>4. Append(rs, e) \o <<>> = Append(rs, e)
    BY <2>3, ConcatEmptySeq
  <2>5. InsertAt(rs, Len(rs) + 1, e) =
          (SubSeq(rs, 1, Len(rs) + 1 - 1) \o <<e>>) \o SubSeq(rs, Len(rs) + 1, Len(rs))
    BY DEF InsertAt
  <2>6. SubSeq(rs, 1, Len(rs) + 1 - 1) = rs
    BY <2>1, <2>2
  <2>7. InsertAt(rs, Len(rs) + 1, e) = (rs \o <<e>>) \o <<>>
    BY <2>2, <2>5, <2>6, Zenon
  <2>. QED
    BY <2>3, <2>4, <2>7, Zenon
<1>2. Len(rs) + 1 \in 1..(Len(rs) + 1)
  OBVIOUS
<1>. QED
  BY <1>1, <1>2, InsertedJoins

\* Every report is a vote for one of the three.
LEMMA NormalizeType ==
  ASSUME NEW s \in SiteStatus
  PROVE  Normalize(s) \in VerdictStatus
BY DEF SiteStatus, VerdictStatus, Normalize

\* A set of numbers has a least one: the one with the smallest initial segment.
LEMMA LeastElement ==
  ASSUME NEW V \in SUBSET Nat, V # {}
  PROVE  \E i \in V : \A k \in V : i <= k
<1>. DEFINE upTo == {1..i : i \in V}
<1>1. upTo \subseteq FiniteSubsetsOf(Nat) /\ upTo # {}
  <2>1. \A i \in V : IsFiniteSet(1..i) /\ 1..i \subseteq Nat
    BY Positions
  <2>. QED
    BY <2>1 DEF FiniteSubsetsOf
<1>2. PICK X \in upTo : \A Y \in upTo : ~(<<Y, X>> \in StrictSubsetOrdering(Nat))
  <2>. HIDE DEF upTo
  <2>1. IsWellFoundedOn(StrictSubsetOrdering(Nat), FiniteSubsetsOf(Nat))
    BY FS_StrictSubsetOrderingWellFounded
  <2>. QED
    BY <1>1, <2>1, WFMin
<1>3. PICK i \in V : X = 1..i
  OBVIOUS
<1>4. ASSUME NEW k \in V, k < i
      PROVE  FALSE
  <2>1. i \in Nat /\ k \in Nat
    OBVIOUS
  <2>2. 1..k \subseteq 1..i /\ i \in 1..i /\ i \notin 1..k
    BY <1>4, <2>1
  <2>3. 1..k \in SUBSET Nat /\ 1..i \in SUBSET Nat
    OBVIOUS
  <2>4. <<1..k, 1..i>> \in StrictSubsetOrdering(Nat)
    BY <2>2, <2>3 DEF StrictSubsetOrdering
  <2>. QED
    BY <1>2, <1>3, <2>4
<1>5. \A k \in V : i <= k
  <2>. SUFFICES ASSUME NEW k \in V PROVE i <= k
    OBVIOUS
  <2>1. i \in Nat /\ k \in Nat
    OBVIOUS
  <2>. QED
    BY <1>4, <2>1
<1>. QED
  BY <1>5

-----------------------------------------------------------------------------
\* Of two statuses one is preferred, unless nobody voted for either.
LEMMA PreferredTotal ==
  ASSUME NEW S, NEW rs \in Seq(S), NEW s, NEW t, s # t,
         Votes(rs, s) # {} \/ Votes(rs, t) # {}
  PROVE  Preferred(rs, s, t) \/ Preferred(rs, t, s)
<1>1. /\ Count(rs, s) \in Nat /\ Count(rs, t) \in Nat
      /\ Votes(rs, s) \subseteq 1..Len(rs) /\ Votes(rs, t) \subseteq 1..Len(rs)
      /\ Count(rs, s) = 0 <=> Votes(rs, s) = {}
      /\ Count(rs, t) = 0 <=> Votes(rs, t) = {}
  BY VotesFinite
<1>2. CASE Count(rs, s) # Count(rs, t)
  BY <1>1, <1>2 DEF Preferred
<1>3. CASE Count(rs, s) = Count(rs, t)
  <2>1. Votes(rs, s) # {} /\ Votes(rs, t) # {}
    BY <1>1, <1>3
  <2>2. Votes(rs, s) \in SUBSET Nat /\ Votes(rs, t) \in SUBSET Nat
    BY <1>1
  <2>3. PICK i \in Votes(rs, s) : \A k \in Votes(rs, s) : i <= k
    BY <2>1, <2>2, LeastElement
  <2>4. PICK h \in Votes(rs, t) : \A k \in Votes(rs, t) : h <= k
    BY <2>1, <2>2, LeastElement
  <2>5. i # h
    BY VotesShared
  <2>6. CASE i < h
    <3>1. \A k \in Votes(rs, t) : i < k
      BY <2>2, <2>4, <2>6
    <3>. QED
      BY <1>3, <3>1 DEF Preferred
  <2>7. CASE h < i
    <3>1. \A k \in Votes(rs, s) : h < k
      BY <2>2, <2>3, <2>7
    <3>. QED
      BY <1>3, <3>1 DEF Preferred
  <2>. QED
    BY <2>2, <2>5, <2>6, <2>7
<1>. QED
  BY <1>2, <1>3

LEMMA PreferredTransitive ==
  ASSUME NEW S, NEW rs \in Seq(S), NEW s, NEW t, NEW u,
         Preferred(rs, s, t), Preferred(rs, t, u)
  PROVE  Preferred(rs, s, u)
<1>1. Count(rs, s) \in Nat /\ Count(rs, t) \in Nat /\ Count(rs, u) \in Nat
  BY VotesFinite
<1>2. \A v : Votes(rs, v) \subseteq 1..Len(rs)
  BY VotesFinite
<1>3. CASE Count(rs, s) > Count(rs, u)
  BY <1>3 DEF Preferred
<1>4. CASE ~(Count(rs, s) > Count(rs, u))
  <2>1. Count(rs, s) = Count(rs, t) /\ Count(rs, t) = Count(rs, u)
    BY <1>1, <1>4 DEF Preferred
  <2>2. PICK i \in Votes(rs, s) : \A k \in Votes(rs, t) : i < k
    BY <2>1, <1>1 DEF Preferred
  <2>3. PICK h \in Votes(rs, t) : \A k \in Votes(rs, u) : h < k
    BY <2>1, <1>1 DEF Preferred
  <2>4. \A k \in Votes(rs, u) : i < k
    <3>. SUFFICES ASSUME NEW k \in Votes(rs, u) PROVE i < k
      OBVIOUS
    <3>1. i < h /\ h < k
      BY <2>2, <2>3
    <3>2. i \in 1..Len(rs) /\ h \in 1..Len(rs) /\ k \in 1..Len(rs)
      BY <1>2
    <3>. QED
      BY <3>1, <3>2
  <2>. QED
    BY <2>1, <2>4 DEF Preferred
<1>. QED
  BY <1>3, <1>4

LEMMA PreferredAsymmetric ==
  ASSUME NEW S, NEW rs \in Seq(S), NEW s, NEW t,
         Preferred(rs, s, t), Preferred(rs, t, s)
  PROVE  FALSE
<1>1. Count(rs, s) \in Nat /\ Count(rs, t) \in Nat
  BY VotesFinite
<1>2. Votes(rs, s) \subseteq 1..Len(rs) /\ Votes(rs, t) \subseteq 1..Len(rs)
  BY VotesFinite
<1>3. PICK i \in Votes(rs, s) : \A k \in Votes(rs, t) : i < k
  BY <1>1 DEF Preferred
<1>4. PICK h \in Votes(rs, t) : \A k \in Votes(rs, s) : h < k
  BY <1>1 DEF Preferred
<1>5. i < h /\ h < i /\ i \in 1..Len(rs) /\ h \in 1..Len(rs)
  BY <1>2, <1>3, <1>4
<1>. QED
  BY <1>5

LEMMA LeadsPreferred ==
  ASSUME NEW rs, NEW s
  PROVE  Leads(rs, s) <=> \A t \in VerdictStatus \ {s} : Preferred(rs, s, t)
BY DEF Leads, Preferred

\* As soon as there is a report, one status leads.
LEMMA LeaderExists ==
  ASSUME NEW S, HaveStatus(S), NEW rs \in Seq(S), rs # <<>>
  PROVE  \E s \in VerdictStatus : Leads(rs, s)
<1>1. PICK v \in VerdictStatus : Votes(rs, v) # {}
  <2>1. 1 \in DOMAIN rs /\ rs[1] \in S
    OBVIOUS
  <2>2. Normalize(rs[1].status) \in VerdictStatus
    BY <2>1, NormalizeType DEF HaveStatus
  <2>3. 1 \in Votes(rs, Normalize(rs[1].status))
    BY <2>1 DEF Votes
  <2>. QED
    BY <2>2, <2>3
\* The other two: the better of them, or none has a vote, against v.
<1>2. PICK t \in VerdictStatus, u \in VerdictStatus :
        v # t /\ v # u /\ t # u /\ VerdictStatus = {v, t, u}
  BY DEF VerdictStatus
<1>3. \A x \in {t, u} : Preferred(rs, v, x) \/ Preferred(rs, x, v)
  BY <1>1, <1>2, PreferredTotal
<1>4. CASE Preferred(rs, v, t) /\ Preferred(rs, v, u)
  BY <1>2, <1>4, LeadsPreferred
<1>5. ASSUME NEW x \in {t, u}, NEW y \in {t, u}, x # y, Preferred(rs, x, v)
      PROVE  \E s \in VerdictStatus : Leads(rs, s)
  <2>1. Preferred(rs, x, y) \/ Preferred(rs, y, x)
    <3>1. Count(rs, x) \in Nat /\ Count(rs, v) \in Nat /\ Count(rs, v) # 0
          /\ (Count(rs, x) = 0 <=> Votes(rs, x) = {})
      BY <1>1, VotesFinite
    <3>2. Votes(rs, x) # {}
      BY <1>5, <3>1 DEF Preferred
    <3>. QED
      BY <1>5, <3>2, PreferredTotal
  <2>2. VerdictStatus = {v, x, y} /\ x \in VerdictStatus /\ y \in VerdictStatus
    BY <1>2, <1>5
  <2>3. CASE Preferred(rs, x, y)
    BY <1>5, <2>2, <2>3, LeadsPreferred
  <2>4. CASE Preferred(rs, y, x)
    <3>1. Preferred(rs, y, v)
      BY <1>5, <2>4, PreferredTransitive
    <3>. QED
      BY <2>2, <2>4, <3>1, LeadsPreferred
  <2>. QED
    BY <2>1, <2>3, <2>4
<1>. QED
  BY <1>2, <1>3, <1>4, <1>5

\* Majority is the leader: there is one, and no second.
LEMMA MajorityIs ==
  ASSUME NEW S, NEW rs \in Seq(S), NEW s \in VerdictStatus, Leads(rs, s)
  PROVE  Majority(rs) = s
<1>1. ASSUME NEW t \in VerdictStatus, Leads(rs, t), t # s
      PROVE  FALSE
  <2>1. Preferred(rs, s, t) /\ Preferred(rs, t, s)
    BY <1>1, LeadsPreferred
  <2>. QED
    BY <2>1, PreferredAsymmetric
<1>. QED
  BY <1>1 DEF Majority

LEMMA MajorityLeads ==
  ASSUME NEW S, HaveStatus(S), NEW rs \in Seq(S), rs # <<>>
  PROVE  Majority(rs) \in VerdictStatus /\ Leads(rs, Majority(rs))
BY LeaderExists, MajorityIs

LEMMA MajorityType ==
  ASSUME NEW rs
  PROVE  Majority(rs) \in VerdictStatus
BY DEF Majority, VerdictStatus

\* No status has more votes than the leader.
LEMMA MajorityCounts ==
  ASSUME NEW S, HaveStatus(S), NEW rs \in Seq(S), NEW t \in VerdictStatus
  PROVE  Count(rs, t) <= Count(rs, Majority(rs))
<1>. DEFINE m == Majority(rs)
<1>1. Count(rs, t) \in Nat /\ Count(rs, m) \in Nat
  BY VotesFinite
<1>2. CASE rs = <<>>
  <2>1. Len(rs) = 0 /\ Count(rs, t) <= Len(rs)
    BY <1>2, VotesFinite
  <2>. QED
    BY <1>1, <2>1
<1>3. CASE rs # <<>> /\ t # m
  <2>1. Preferred(rs, m, t)
    BY <1>3, MajorityLeads, LeadsPreferred
  <2>. QED
    BY <1>1, <2>1 DEF Preferred
<1>. QED
  BY <1>1, <1>2, <1>3

LEMMA QuorumType ==
  ASSUME NEW n \in Nat
  PROVE  /\ Quorum(n) \in Nat
         /\ n # 0 => Quorum(n) >= 1
         /\ 2 * Quorum(n) = n \/ 2 * Quorum(n) = n + 1
BY DEF Quorum

\* The majority, in whatever order the rows are read, is one of those that lead.
THEOREM MajorityIsLeading ==
  ASSUME NEW S, HaveStatus(S), NEW rs \in Seq(S)
  PROVE  Majority(rs) \in Leading(rs)
BY MajorityType, MajorityCounts DEF Leading

\* Statuses that lead have as many votes as the majority.
LEMMA LeadingCounts ==
  ASSUME NEW S, HaveStatus(S), NEW rs \in Seq(S), NEW v \in Leading(rs)
  PROVE  /\ v \in VerdictStatus
         /\ Count(rs, v) = Count(rs, Majority(rs))
         /\ \A t \in VerdictStatus : Count(rs, t) <= Count(rs, v)
<1>1. v \in VerdictStatus /\ \A t \in VerdictStatus : Count(rs, t) <= Count(rs, v)
  BY DEF Leading
<1>2. Majority(rs) \in VerdictStatus /\ Count(rs, v) <= Count(rs, Majority(rs))
  BY <1>1, MajorityType, MajorityCounts
<1>3. Count(rs, v) \in Nat /\ Count(rs, Majority(rs)) \in Nat
  BY VotesFinite
<1>. QED
  BY <1>1, <1>2, <1>3

\* A list of the same reports in another order.
Reordered(rs, p) == [i \in DOMAIN rs |-> rs[p[i]]]

\* Read in any order of createdAt, a list has its verdict among Leading, and is
\* decided or not as before: what is left open by leaving the order out.
THEOREM OrderIsImmaterial ==
  ASSUME NEW S, HaveStatus(S), NEW rs \in Seq(S), NEW n,
         NEW p \in Bijection(DOMAIN rs, DOMAIN rs)
  PROVE  /\ Majority(Reordered(rs, p)) \in Leading(rs)
         /\ Leading(Reordered(rs, p)) = Leading(rs)
         /\ Decided(Reordered(rs, p), n) <=> Decided(rs, n)
<1>. DEFINE other == Reordered(rs, p)
<1>1. DOMAIN rs = 1..Len(rs) /\ Len(rs) \in Nat /\ p \in [1..Len(rs) -> 1..Len(rs)]
  BY DEF Bijection, Injection, IsInjective
<1>2. other \in Seq(S) /\ Len(other) = Len(rs) /\ DOMAIN other = 1..Len(rs)
  <2>1. other \in [1..Len(rs) -> S]
    BY <1>1 DEF Reordered
  <2>. QED
    BY <1>1, <2>1
<1>3. ASSUME NEW s
      PROVE  Count(other, s) = Count(rs, s)
  <2>. DEFINE V == Votes(other, s)
              W == Votes(rs, s)
              f == [i \in V |-> p[i]]
  <2>1. V \subseteq 1..Len(rs) /\ W \subseteq 1..Len(rs) /\ IsFiniteSet(V)
    BY <1>2, VotesFinite
  <2>2. \A i \in 1..Len(rs) : i \in V <=> p[i] \in W
    BY <1>1, <1>2 DEF Votes, Reordered
  <2>3. f \in Bijection(V, W)
    <3>. HIDE DEF V, W
    <3>1. f \in [V -> W]
      BY <2>1, <2>2
    <3>2. \A i, k \in V : f[i] = f[k] => i = k
      BY <1>1, <2>1 DEF Bijection, Injection, IsInjective
    <3>3. ASSUME NEW w \in W
          PROVE  \E i \in V : f[i] = w
      <4>1. PICK i \in 1..Len(rs) : p[i] = w
        BY <1>1, <2>1 DEF Bijection, Surjection
      <4>. QED
        BY <2>2, <4>1
    <3>. QED
      BY <3>1, <3>2, <3>3, Fun_IsBij
  <2>4. Cardinality(V) = Cardinality(W)
    <3>. HIDE DEF V, W, f
    <3>1. ExistsBijection(V, W)
      BY <2>3 DEF ExistsBijection
    <3>. QED
      BY <2>1, <3>1, FS_Bijection
  <2>. QED
    BY <2>4 DEF Count
<1>. HIDE DEF other
<1>4. Leading(other) = Leading(rs)
  BY <1>3 DEF Leading
<1>5. Majority(other) \in Leading(rs)
  BY <1>2, <1>4, MajorityIsLeading
<1>6. Count(other, Majority(other)) = Count(rs, Majority(rs))
  BY <1>3, <1>5, LeadingCounts
<1>7. Decided(other, n) <=> Decided(rs, n)
  BY <1>2, <1>6 DEF Decided
<1>. QED
  BY <1>4, <1>5, <1>7 DEF other

\* A decision is never undone by a further report, whatever the panel's size
\* and wherever the report stands in the order.
THEOREM DecidedStays ==
  ASSUME NEW S, HaveStatus(S), NEW rs \in Seq(S), NEW e \in S, NEW n \in Nat,
         NEW next, Joins(S, rs, e, next), Decided(rs, n)
  PROVE  Decided(next, n)
<1>. DEFINE m == Majority(rs)
<1>1. next \in Seq(S) /\ Len(next) = Len(rs) + 1 /\ Len(rs) \in Nat
  BY DEF Joins
<1>2. m \in VerdictStatus /\ Count(rs, m) \in Nat
  BY MajorityType, VotesFinite
<1>3. Count(next, m) >= Count(rs, m) /\ Count(next, m) \in Nat
  BY <1>2 DEF Joins
<1>4. Count(next, Majority(next)) >= Count(next, m) /\ Count(next, Majority(next)) \in Nat
  BY <1>1, <1>2, <1>3, MajorityCounts, VotesFinite
<1>5. Quorum(n) \in Nat
  BY QuorumType
<1>. HIDE DEF m
<1>6. CASE Count(rs, m) >= Quorum(n)
  <2>1. Count(next, Majority(next)) >= Quorum(n)
    BY <1>2, <1>3, <1>4, <1>5, <1>6
  <2>. QED
    BY <2>1 DEF Decided
<1>7. CASE Len(rs) >= n
  <2>1. Len(next) >= n
    BY <1>1, <1>7
  <2>. QED
    BY <2>1 DEF Decided
<1>. QED
  BY <1>6, <1>7 DEF Decided, m

\* While the panel of a decided list is not complete, the statuses that lead
\* have a quorum of its votes, and what is left of the panel is no more.
LEMMA LeadersHaveQuorum ==
  ASSUME NEW S, HaveStatus(S), NEW rs \in Seq(S), NEW n \in Nat,
         Decided(rs, n), Len(rs) < n, NEW v \in Leading(rs)
  PROVE  /\ v \in VerdictStatus
         /\ Count(rs, v) \in Nat /\ 2 * Count(rs, v) >= n
         /\ \A t \in VerdictStatus \ {v} :
              Count(rs, t) \in Nat /\ Count(rs, v) + Count(rs, t) < n
<1>1. Len(rs) \in Nat
  OBVIOUS
<1>2. v \in VerdictStatus /\ Count(rs, v) = Count(rs, Majority(rs)) /\ Count(rs, v) \in Nat
  BY LeadingCounts, VotesFinite
<1>3. Count(rs, v) >= Quorum(n)
  BY <1>1, <1>2 DEF Decided
<1>4. 2 * Count(rs, v) >= n
  <2>1. Quorum(n) \in Nat /\ (2 * Quorum(n) = n \/ 2 * Quorum(n) = n + 1)
    BY QuorumType
  <2>. QED
    BY <1>2, <1>3, <2>1
<1>5. ASSUME NEW t \in VerdictStatus \ {v}
      PROVE  Count(rs, t) \in Nat /\ Count(rs, v) + Count(rs, t) < n
  <2>1. Count(rs, t) \in Nat /\ Count(rs, v) + Count(rs, t) <= Len(rs)
    BY VotesFinite, VotesShared
  <2>. QED
    BY <1>1, <1>2, <2>1
<1>. QED
  BY <1>2, <1>4, <1>5

\* So no report of the panel outvotes any of them.  (On a panel of two it may
\* draw level.)
THEOREM LeadersStay ==
  ASSUME NEW S, HaveStatus(S), NEW rs \in Seq(S), NEW e \in S, NEW n \in Nat,
         NEW next, Joins(S, rs, e, next), Decided(rs, n), Len(rs) < n
  PROVE  Leading(rs) \subseteq Leading(next)
<1>. SUFFICES ASSUME NEW v \in Leading(rs), NEW t \in VerdictStatus, t # v
              PROVE  v \in VerdictStatus /\ Count(next, t) <= Count(next, v)
  <2>1. \A v : Count(next, v) \in Nat
    BY VotesFinite DEF Joins
  <2>. QED
    BY <2>1 DEF Leading
<1>1. /\ v \in VerdictStatus /\ Count(rs, v) \in Nat /\ 2 * Count(rs, v) >= n
      /\ Count(rs, t) \in Nat /\ Count(rs, v) + Count(rs, t) < n
  BY LeadersHaveQuorum
<1>2. /\ Count(next, v) >= Count(rs, v) /\ Count(next, v) \in Nat
      /\ Count(next, t) <= Count(rs, t) + 1 /\ Count(next, t) \in Nat
  BY <1>1 DEF Joins
<1>. QED
  BY <1>1, <1>2

\* On a panel of odd size the leader of a decided list stays the only one.
THEOREM MajorityStays ==
  ASSUME NEW S, HaveStatus(S), NEW rs \in Seq(S), NEW e \in S, NEW n \in Nat, n % 2 = 1,
         NEW next, Joins(S, rs, e, next), Decided(rs, n), Len(rs) < n
  PROVE  Majority(next) = Majority(rs)
<1>. DEFINE m == Majority(rs)
<1>1. next \in Seq(S) /\ m \in Leading(rs)
  BY MajorityIsLeading DEF Joins
<1>. HIDE DEF m
<1>2. m \in VerdictStatus /\ Count(rs, m) \in Nat /\ 2 * Count(rs, m) >= n
  BY <1>1, LeadersHaveQuorum
<1>3. 2 * Count(rs, m) >= n + 1
  <2>1. PICK k \in Nat : n = 2 * k + 1
    <3>1. n = 2 * (n \div 2) + (n % 2) /\ n \div 2 \in Nat
      OBVIOUS
    <3>. QED
      BY <3>1
  <2>2. k \in Nat /\ Count(rs, m) \in Nat /\ 2 * Count(rs, m) >= 2 * k + 1
    BY <1>2, <2>1
  <2>3. Count(rs, m) >= k + 1
    BY <2>2
  <2>. QED
    BY <2>1, <2>2, <2>3
<1>4. ASSUME NEW t \in VerdictStatus \ {m}
      PROVE  Count(next, t) < Count(next, m)
  <2>1. Count(rs, t) \in Nat /\ Count(rs, m) + Count(rs, t) < n
    BY <1>1, LeadersHaveQuorum
  <2>2. CASE Normalize(e.status) = t
    <3>1. Count(next, t) = Count(rs, t) + 1 /\ Count(next, m) = Count(rs, m)
      BY <2>2 DEF Joins
    <3>. QED
      BY <1>2, <1>3, <2>1, <3>1
  <2>3. CASE Normalize(e.status) # t
    <3>1. Count(next, t) = Count(rs, t) /\ Count(next, m) >= Count(rs, m) /\ Count(next, m) \in Nat
      BY <1>2, <2>3 DEF Joins
    <3>. QED
      BY <1>2, <1>3, <2>1, <3>1
  <2>. QED
    BY <2>2, <2>3
<1>5. Leads(next, m)
  BY <1>4 DEF Leads
<1>. QED
  BY <1>1, <1>2, <1>5, MajorityIs DEF m

-----------------------------------------------------------------------------
(***************************************************************************)
(* The loops of evaluateConsensus.  A loop is a function of the number of  *)
(* elements it has read, defined from the element before; that there is    *)
(* one, and what it is everywhere, is said by induction in the form of     *)
(* LeastElement: there is no first element at which it fails.              *)
(***************************************************************************)
\* The rounds of a loop on values of T, and f, what they make of a.
Rounds(n, T) == [1..n -> [T -> T]]

IsRun(f, n, T, a, step) ==
  /\ f \in [0..n -> T]
  /\ f[0] = a
  /\ \A k \in 1..n : f[k] = step[k][f[k - 1]]

\* A loop of n rounds can be run: each round goes on from the one before.
LEMMA LoopRuns ==
  ASSUME NEW n \in Nat, NEW T, NEW a \in T, NEW step \in Rounds(n, T)
  PROVE  \E f : IsRun(f, n, T, a, step)
<1>. USE DEF Rounds, IsRun
<1>. DEFINE Runs(m) == \E f \in [0..m -> T] :
                         f[0] = a /\ \A k \in 1..m : f[k] = step[k][f[k - 1]]
            Stuck == {m \in 0..n : ~Runs(m)}
<1>1. Runs(0)
  <2>. DEFINE f == [k \in 0..0 |-> a]
  <2>1. f \in [0..0 -> T] /\ f[0] = a
    OBVIOUS
  <2>2. \A k \in 1..0 : f[k] = step[k][f[k - 1]]
    OBVIOUS
  <2>. QED
    BY <2>1, <2>2
<1>2. ASSUME NEW m \in 1..n, Runs(m - 1)
      PROVE  Runs(m)
  <2>1. PICK f \in [0..(m - 1) -> T] :
          f[0] = a /\ \A k \in 1..(m - 1) : f[k] = step[k][f[k - 1]]
    BY <1>2
  <2>. DEFINE g == [k \in 0..m |-> IF k = m THEN step[m][f[m - 1]] ELSE f[k]]
  <2>2. m \in Nat /\ m # 0 /\ m - 1 \in 0..(m - 1)
    OBVIOUS
  <2>3. step[m][f[m - 1]] \in T
    BY <2>2
  <2>4. \A k \in 0..m : k # m => k \in 0..(m - 1)
    BY <2>2
  <2>5. g \in [0..m -> T]
    BY <2>3, <2>4
  <2>6. g[0] = a
    BY <2>1, <2>2
  <2>7. ASSUME NEW k \in 1..m
        PROVE  g[k] = step[k][g[k - 1]]
    <3>1. k \in 0..m /\ k - 1 \in 0..m /\ k - 1 # m
      BY <2>2
    <3>2. g[k - 1] = f[k - 1]
      BY <3>1
    <3>3. CASE k = m
      BY <3>1, <3>2, <3>3
    <3>4. CASE k # m
      <4>1. k \in 1..(m - 1)
        BY <2>2, <3>4
      <4>. QED
        BY <2>1, <3>1, <3>2, <3>4, <4>1
    <3>. QED
      BY <3>3, <3>4
  <2>. HIDE DEF g
  <2>. QED
    BY <2>5, <2>6, <2>7
<1>3. Stuck = {}
  <2>. SUFFICES ASSUME Stuck # {} PROVE FALSE
    OBVIOUS
  <2>1. Stuck \in SUBSET Nat
    OBVIOUS
  <2>. HIDE DEF Runs
  <2>2. PICK m \in Stuck : \A k \in Stuck : m <= k
    <3>. HIDE DEF Stuck
    <3>. QED
      BY <2>1, LeastElement
  <2>3. m \in 0..n /\ ~Runs(m) /\ m # 0
    BY <1>1
  <2>4. m \in 1..n /\ m - 1 \in 0..n /\ ~(m <= m - 1)
    BY <2>3
  <2>5. Runs(m - 1)
    BY <2>2, <2>4
  <2>. QED
    BY <1>2, <2>3, <2>4, <2>5
<1>4. Runs(n)
  <2>. HIDE DEF Runs
  <2>. QED
    BY <1>3
<1>. QED
  BY <1>4

\* An entry of the Map counts.
CountEntry == [status : VerdictStatus, count : Nat]

\* A report that is counted changes one entry, or adds one.
LEMMA BumpType ==
  ASSUME NEW E \in Seq(CountEntry), NEW r, r.status \in SiteStatus
  PROVE  Bump(E, r) \in Seq(CountEntry)
<1>. DEFINE s == Normalize(r.status)
            at == {k \in DOMAIN E : E[k].status = s}
<1>1. s \in VerdictStatus
  BY NormalizeType
<1>2. CASE at = {}
  <2>1. [status |-> s, count |-> 1] \in CountEntry
    BY <1>1 DEF CountEntry
  <2>. QED
    BY <1>2, <2>1 DEF Bump
<1>3. CASE at # {}
  <2>. DEFINE F == [k \in DOMAIN E |->
                      IF k \in at THEN [E[k] EXCEPT !.count = @ + 1] ELSE E[k]]
  <2>1. DOMAIN E = 1..Len(E) /\ Len(E) \in Nat
    OBVIOUS
  <2>2. \A k \in 1..Len(E) : E[k] \in CountEntry
    OBVIOUS
  <2>3. \A k \in 1..Len(E) : [E[k] EXCEPT !.count = @ + 1] \in CountEntry
    <3>1. ASSUME NEW e \in CountEntry
          PROVE  [e EXCEPT !.count = e.count + 1] \in CountEntry
      BY DEF CountEntry
    <3>. QED
      BY <2>2, <3>1
  <2>4. F \in [1..Len(E) -> CountEntry]
    BY <2>1, <2>2, <2>3
  <2>5. F \in Seq(CountEntry)
    BY <2>1, <2>4
  <2>6. Bump(E, r) = F
    BY <1>3 DEF Bump
  <2>. QED
    BY <2>5, <2>6
<1>. QED
  BY <1>2, <1>3

\* The first loop goes from report to report.
LEMMA CountLoopRuns ==
  ASSUME NEW S, HaveStatus(S), NEW rs \in Seq(S)
  PROVE  /\ CountLoop(rs)[0] = <<>>
         /\ \A k \in 1..Len(rs) : CountLoop(rs)[k] = Bump(CountLoop(rs)[k - 1], rs[k])
<1>. DEFINE n == Len(rs)
            T == Seq(CountEntry)
            empty == <<>>
            step == [k \in 1..n |-> [E \in T |-> Bump(E, rs[k])]]
<1>1. n \in Nat /\ \A k \in 1..n : rs[k].status \in SiteStatus
  BY DEF HaveStatus
<1>2. step \in Rounds(n, T)
  <2>1. \A k \in 1..n : \A E \in T : Bump(E, rs[k]) \in T
    BY <1>1, BumpType
  <2>. QED
    BY <2>1 DEF Rounds
<1>3. empty \in T
  OBVIOUS
<1>4. PICK f : IsRun(f, n, T, empty, step)
  <2>1. n \in Nat
    BY <1>1
  <2>. HIDE DEF empty, step, T, n
  <2>. QED
    BY <1>2, <1>3, <2>1, LoopRuns
<1>5. \A k \in 1..n : f[k] = Bump(f[k - 1], rs[k])
  <2>1. \A k \in 1..n : k - 1 \in 0..n
    BY <1>1
  <2>2. \A k \in 1..n : f[k - 1] \in T
    BY <1>4, <2>1 DEF IsRun
  <2>. QED
    BY <1>4, <2>2 DEF IsRun
<1>6. f = [k \in 0..n |-> IF k = 0 THEN <<>> ELSE Bump(f[k - 1], rs[k])]
  <2>1. \A k \in 0..n : k # 0 => k \in 1..n
    BY <1>1
  <2>2. \A k \in 0..n : f[k] = IF k = 0 THEN <<>> ELSE Bump(f[k - 1], rs[k])
    BY <1>4, <1>5, <2>1 DEF IsRun
  <2>. QED
    BY <1>4, <2>2 DEF IsRun
<1>7. CountLoop(rs) =
        [k \in 0..n |-> IF k = 0 THEN <<>> ELSE Bump(CountLoop(rs)[k - 1], rs[k])]
  BY <1>6 DEF CountLoop
<1>8. 0 \in 0..n /\ \A k \in 1..n : k \in 0..n /\ k # 0
  BY <1>1
<1>. HIDE DEF n
<1>. QED
  BY <1>7, <1>8 DEF n

\* The votes for s among the first k reports.
VotesUpTo(rs, k, s) == {i \in 1..k : Normalize(rs[i].status) = s}

LEMMA VotesUpToStep ==
  ASSUME NEW rs, NEW k \in Nat \ {0}, NEW s
  PROVE  /\ IsFiniteSet(VotesUpTo(rs, k, s))
         /\ Cardinality(VotesUpTo(rs, k, s)) \in Nat
         /\ VotesUpTo(rs, k, s) = IF Normalize(rs[k].status) = s
                                  THEN VotesUpTo(rs, k - 1, s) \cup {k}
                                  ELSE VotesUpTo(rs, k - 1, s)
         /\ Cardinality(VotesUpTo(rs, k, s)) =
              IF Normalize(rs[k].status) = s
              THEN Cardinality(VotesUpTo(rs, k - 1, s)) + 1
              ELSE Cardinality(VotesUpTo(rs, k - 1, s))
         /\ VotesUpTo(rs, k - 1, s) \subseteq 1..(k - 1)
<1>1. \A m \in Nat : VotesUpTo(rs, m, s) \subseteq 1..m
  BY DEF VotesUpTo
<1>2. \A m \in Nat : /\ IsFiniteSet(VotesUpTo(rs, m, s))
                     /\ Cardinality(VotesUpTo(rs, m, s)) \in Nat
  BY <1>1, Positions, FS_Subset, FS_CardinalityType
<1>3. k \in Nat /\ k - 1 \in Nat /\ \A i : i \in 1..k <=> i \in 1..(k - 1) \/ i = k
  OBVIOUS
<1>4. VotesUpTo(rs, k, s) = IF Normalize(rs[k].status) = s
                            THEN VotesUpTo(rs, k - 1, s) \cup {k}
                            ELSE VotesUpTo(rs, k - 1, s)
  BY <1>3 DEF VotesUpTo
<1>5. k \notin VotesUpTo(rs, k - 1, s)
  BY <1>3 DEF VotesUpTo
<1>6. Cardinality(VotesUpTo(rs, k - 1, s) \cup {k}) = Cardinality(VotesUpTo(rs, k - 1, s)) + 1
  BY <1>2, <1>3, <1>5, FS_AddElement
<1>. QED
  BY <1>1, <1>2, <1>3, <1>4, <1>6

\* What the Map E holds after k reports: for each status that has been reported
\* one entry, with its count, in the order of their first reports.
Counted(rs, E, k) ==
  /\ E \in Seq(CountEntry)
  /\ \A i \in 1..Len(E) :
       /\ E[i].count = Cardinality(VotesUpTo(rs, k, E[i].status))
       /\ VotesUpTo(rs, k, E[i].status) # {}
  /\ \A i, h \in 1..Len(E) : i < h =>
       \E p \in VotesUpTo(rs, k, E[i].status) :
         \A q \in VotesUpTo(rs, k, E[h].status) : p < q
  /\ \A s \in VerdictStatus : VotesUpTo(rs, k, s) # {} =>
       \E i \in 1..Len(E) : E[i].status = s

\* Counting one more report keeps it so.
LEMMA CountedStep ==
  ASSUME NEW rs, NEW k \in Nat \ {0}, rs[k].status \in SiteStatus,
         NEW E, Counted(rs, E, k - 1)
  PROVE  Counted(rs, Bump(E, rs[k]), k)
<1>. DEFINE v == Normalize(rs[k].status)
            at == {i \in DOMAIN E : E[i].status = v}
            F == Bump(E, rs[k])
            new == [status |-> v, count |-> 1]
            grown == [i \in DOMAIN E |->
                        IF i \in at THEN [E[i] EXCEPT !.count = @ + 1] ELSE E[i]]
<1>1. /\ E \in Seq(CountEntry) /\ Len(E) \in Nat /\ DOMAIN E = 1..Len(E)
      /\ v \in VerdictStatus /\ k \in Nat /\ k - 1 \in Nat
  BY NormalizeType DEF Counted
<1>2. F \in Seq(CountEntry)
  BY <1>1, BumpType
<1>3. /\ VotesUpTo(rs, k, v) = VotesUpTo(rs, k - 1, v) \cup {k}
      /\ Cardinality(VotesUpTo(rs, k, v)) = Cardinality(VotesUpTo(rs, k - 1, v)) + 1
  BY VotesUpToStep
<1>4. \A s : s # v => VotesUpTo(rs, k, s) = VotesUpTo(rs, k - 1, s)
  BY VotesUpToStep
<1>5. \A s : VotesUpTo(rs, k - 1, s) \subseteq 1..(k - 1)
  BY VotesUpToStep
<1>6. CASE at = {}
  <2>1. F = Append(E, new)
    BY <1>6 DEF Bump
  <2>2. /\ Len(F) = Len(E) + 1
        /\ F[Len(E) + 1].status = v /\ F[Len(E) + 1].count = 1
        /\ \A i \in 1..Len(E) : F[i] = E[i]
    <3>1. /\ Len(F) = Len(E) + 1 /\ F[Len(E) + 1] = new
          /\ \A i \in 1..Len(E) : F[i] = E[i]
      BY <1>1, <2>1
    <3>. QED
      BY <3>1
  <2>3. \A i : i \in 1..Len(F) <=> i \in 1..Len(E) \/ i = Len(E) + 1
    BY <1>1, <2>2
  <2>4. \A i \in 1..Len(E) : E[i].status # v
    BY <1>1, <1>6
  <2>5. VotesUpTo(rs, k - 1, v) = {}
    BY <1>1, <2>4 DEF Counted
  <2>6. VotesUpTo(rs, k, v) = {k} /\ Cardinality(VotesUpTo(rs, k, v)) = 1
    <3>1. VotesUpTo(rs, k, v) = {k}
      BY <1>3, <2>5
    <3>. QED
      BY <3>1, FS_Singleton
  <2>. HIDE DEF F, at, v
  <2>7. ASSUME NEW i \in 1..Len(F)
        PROVE  /\ F[i].count = Cardinality(VotesUpTo(rs, k, F[i].status))
               /\ VotesUpTo(rs, k, F[i].status) # {}
    <3>1. CASE i \in 1..Len(E)
      <4>1. F[i] = E[i] /\ VotesUpTo(rs, k, F[i].status) = VotesUpTo(rs, k - 1, E[i].status)
        BY <1>4, <2>2, <2>4, <3>1
      <4>. QED
        BY <3>1, <4>1 DEF Counted
    <3>2. CASE i = Len(E) + 1
      BY <2>2, <2>6, <3>2
    <3>. QED
      BY <2>3, <3>1, <3>2
  <2>8. ASSUME NEW i \in 1..Len(F), NEW h \in 1..Len(F), i < h
        PROVE  \E p \in VotesUpTo(rs, k, F[i].status) :
                 \A q \in VotesUpTo(rs, k, F[h].status) : p < q
    <3>1. i \in 1..Len(E)
      BY <1>1, <2>2, <2>8
    <3>2. VotesUpTo(rs, k, F[i].status) = VotesUpTo(rs, k - 1, E[i].status)
      BY <1>4, <2>2, <2>4, <3>1
    <3>3. CASE h \in 1..Len(E)
      <4>1. VotesUpTo(rs, k, F[h].status) = VotesUpTo(rs, k - 1, E[h].status)
        BY <1>4, <2>2, <2>4, <3>3
      <4>. QED
        BY <2>8, <3>1, <3>2, <3>3, <4>1 DEF Counted
    <3>4. CASE h = Len(E) + 1
      <4>1. VotesUpTo(rs, k, F[h].status) = {k}
        BY <2>2, <2>6, <3>4
      <4>2. PICK p \in VotesUpTo(rs, k - 1, E[i].status) : TRUE
        BY <3>1 DEF Counted
      <4>3. p < k
        BY <1>1, <1>5, <4>2
      <4>. QED
        BY <3>2, <4>1, <4>3
    <3>. QED
      BY <2>3, <3>3, <3>4
  <2>9. ASSUME NEW s \in VerdictStatus, VotesUpTo(rs, k, s) # {}
        PROVE  \E i \in 1..Len(F) : F[i].status = s
    <3>1. CASE s = v
      BY <2>2, <2>3, <3>1
    <3>2. CASE s # v
      <4>1. PICK i \in 1..Len(E) : E[i].status = s
        BY <1>4, <2>9, <3>2 DEF Counted
      <4>. QED
        BY <2>2, <2>3, <4>1
    <3>. QED
      BY <3>1, <3>2
  <2>. QED
    BY <1>2, <2>7, <2>8, <2>9 DEF Counted, F
<1>7. CASE at # {}
  <2>1. F = grown
    BY <1>7 DEF Bump
  <2>2. /\ Len(F) = Len(E)
        /\ \A i \in 1..Len(E) :
             /\ F[i].status = E[i].status
             /\ F[i].count = IF E[i].status = v THEN E[i].count + 1 ELSE E[i].count
    <3>1. DOMAIN F = 1..Len(E)
      BY <1>1, <2>1
    <3>2. Len(F) = Len(E)
      BY <1>1, <1>2, <3>1
    <3>3. \A i \in 1..Len(E) :
            F[i] = IF E[i].status = v THEN [E[i] EXCEPT !.count = @ + 1] ELSE E[i]
      BY <1>1, <2>1
    <3>4. ASSUME NEW e \in CountEntry
          PROVE  LET g == [e EXCEPT !.count = e.count + 1]
                 IN g.status = e.status /\ g.count = e.count + 1
      BY DEF CountEntry
    <3>5. \A i \in 1..Len(E) : E[i] \in CountEntry
      BY <1>1
    <3>. QED
      BY <3>2, <3>3, <3>4, <3>5
  <2>. HIDE DEF F, at, v
  <2>3. \A s : VotesUpTo(rs, k - 1, s) \subseteq VotesUpTo(rs, k, s)
    BY <1>3, <1>4
  <2>4. \A i \in 1..Len(F) :
          /\ F[i].count = Cardinality(VotesUpTo(rs, k, F[i].status))
          /\ VotesUpTo(rs, k, F[i].status) # {}
    BY <1>3, <1>4, <2>2, <2>3 DEF Counted
  <2>5. ASSUME NEW i \in 1..Len(F), NEW h \in 1..Len(F), i < h
        PROVE  \E p \in VotesUpTo(rs, k, F[i].status) :
                 \A q \in VotesUpTo(rs, k, F[h].status) : p < q
    <3>1. PICK p \in VotesUpTo(rs, k - 1, E[i].status) :
            \A q \in VotesUpTo(rs, k - 1, E[h].status) : p < q
      BY <2>2, <2>5 DEF Counted
    <3>2. p \in VotesUpTo(rs, k, F[i].status) /\ p < k
      BY <1>1, <1>5, <2>2, <2>3, <3>1
    <3>3. \A q \in VotesUpTo(rs, k, F[h].status) :
            q \in VotesUpTo(rs, k - 1, E[h].status) \/ q = k
      BY <1>3, <1>4, <2>2
    <3>. QED
      BY <3>1, <3>2, <3>3
  <2>6. ASSUME NEW s \in VerdictStatus, VotesUpTo(rs, k, s) # {}
        PROVE  \E i \in 1..Len(F) : F[i].status = s
    <3>1. \E i \in 1..Len(E) : E[i].status = s
      <4>1. CASE s = v
        BY <1>1, <1>7, <4>1 DEF at
      <4>2. CASE s # v
        BY <1>4, <2>6, <4>2 DEF Counted
      <4>. QED
        BY <4>1, <4>2
    <3>. QED
      BY <2>2, <3>1
  <2>. QED
    BY <1>2, <2>4, <2>5, <2>6 DEF Counted, F
<1>. QED
  BY <1>6, <1>7

\* So it is after every round of the loop.
LEMMA LoopCounts ==
  ASSUME NEW S, HaveStatus(S), NEW rs \in Seq(S), NEW k \in 0..Len(rs)
  PROVE  Counted(rs, CountLoop(rs)[k], k)
<1>. DEFINE Wrong == {m \in 0..Len(rs) : ~Counted(rs, CountLoop(rs)[m], m)}
<1>1. Counted(rs, CountLoop(rs)[0], 0)
  <2>1. CountLoop(rs)[0] = <<>>
    BY CountLoopRuns
  <2>2. \A s : VotesUpTo(rs, 0, s) = {}
    BY DEF VotesUpTo
  <2>. QED
    BY <2>1, <2>2 DEF Counted
<1>2. ASSUME Wrong # {}
      PROVE  FALSE
  <2>1. Wrong \in SUBSET Nat
    OBVIOUS
  <2>2. PICK m \in Wrong : \A h \in Wrong : m <= h
    <3>. HIDE DEF Wrong
    <3>. QED
      BY <1>2, <2>1, LeastElement
  <2>3. m \in 1..Len(rs) /\ m \in Nat \ {0} /\ m - 1 \in 0..Len(rs) /\ ~(m <= m - 1)
    BY <1>1
  <2>4. Counted(rs, CountLoop(rs)[m - 1], m - 1)
    BY <2>2, <2>3
  <2>5. CountLoop(rs)[m] = Bump(CountLoop(rs)[m - 1], rs[m])
    BY <2>3, CountLoopRuns
  <2>6. rs[m].status \in SiteStatus
    BY <2>3 DEF HaveStatus
  <2>. QED
    BY <2>2, <2>3, <2>4, <2>5, <2>6, CountedStep
<1>. QED
  BY <1>2

\* The second loop goes from entry to entry.
LEMMA BestLoopRuns ==
  ASSUME NEW E \in Seq(CountEntry)
  PROVE  /\ BestLoop(E)[0] = [status |-> "UNKNOWN", count |-> 0]
         /\ \A k \in 1..Len(E) : BestLoop(E)[k] = Better(BestLoop(E)[k - 1], E[k])
<1>. DEFINE n == Len(E)
            none == [status |-> "UNKNOWN", count |-> 0]
            step == [k \in 1..n |-> [b \in CountEntry |-> Better(b, E[k])]]
<1>1. n \in Nat /\ \A k \in 1..n : E[k] \in CountEntry
  OBVIOUS
<1>2. step \in Rounds(n, CountEntry)
  <2>1. \A k \in 1..n : \A b \in CountEntry : Better(b, E[k]) \in CountEntry
    BY <1>1 DEF Better
  <2>. QED
    BY <2>1 DEF Rounds
<1>3. none \in CountEntry
  BY DEF CountEntry, VerdictStatus
<1>4. PICK f : IsRun(f, n, CountEntry, none, step)
  <2>1. n \in Nat
    BY <1>1
  <2>. HIDE DEF none, step, n
  <2>. QED
    BY <1>2, <1>3, <2>1, LoopRuns
<1>5. \A k \in 1..n : f[k] = Better(f[k - 1], E[k])
  <2>1. \A k \in 1..n : k - 1 \in 0..n
    BY <1>1
  <2>2. \A k \in 1..n : f[k - 1] \in CountEntry
    BY <1>4, <2>1 DEF IsRun
  <2>. QED
    BY <1>4, <2>2 DEF IsRun
<1>6. f = [k \in 0..n |-> IF k = 0 THEN none ELSE Better(f[k - 1], E[k])]
  <2>1. \A k \in 0..n : k # 0 => k \in 1..n
    BY <1>1
  <2>2. \A k \in 0..n : f[k] = IF k = 0 THEN none ELSE Better(f[k - 1], E[k])
    BY <1>4, <1>5, <2>1 DEF IsRun
  <2>. QED
    BY <1>4, <2>2 DEF IsRun
<1>7. BestLoop(E) = [k \in 0..n |-> IF k = 0 THEN none ELSE Better(BestLoop(E)[k - 1], E[k])]
  BY <1>6 DEF BestLoop
<1>8. 0 \in 0..n /\ \A k \in 1..n : k \in 0..n /\ k # 0
  BY <1>1
<1>. HIDE DEF n
<1>. QED
  BY <1>7, <1>8 DEF n

\* What the second loop has found after k entries: the first of the greatest.
IsBest(b, E, k) ==
  IF k = 0
  THEN b = [status |-> "UNKNOWN", count |-> 0]
  ELSE \E i \in 1..k :
         /\ b = E[i]
         /\ \A h \in 1..k : /\ h < i => E[h].count < E[i].count
                            /\ E[h].count <= E[i].count

LEMMA IsBestStep ==
  ASSUME NEW E \in Seq(CountEntry), \A i \in 1..Len(E) : E[i].count # 0,
         NEW k \in 1..Len(E), NEW b, IsBest(b, E, k - 1)
  PROVE  IsBest(Better(b, E[k]), E, k)
<1>1. \A i \in 1..Len(E) : E[i].count \in Nat
  <2>1. \A i \in 1..Len(E) : E[i] \in CountEntry
    OBVIOUS
  <2>. QED
    BY <2>1 DEF CountEntry
<1>2. k \in Nat /\ k # 0 /\ \A h : h \in 1..k <=> h \in 1..(k - 1) \/ h = k
  OBVIOUS
<1>3. CASE k = 1
  <2>1. b.count = 0 /\ E[k].count > 0
    BY <1>1, <1>3 DEF IsBest
  <2>2. Better(b, E[k]) = E[k]
    BY <2>1 DEF Better
  <2>3. k \in 1..k /\ \A h \in 1..k : h = k
    BY <1>3
  <2>4. \A h \in 1..k : /\ h < k => E[h].count < E[k].count
                        /\ E[h].count <= E[k].count
    <3>1. E[k].count \in Nat /\ E[k].count <= E[k].count /\ ~(k < k)
      BY <1>1, <1>2
    <3>. QED
      BY <2>3, <3>1
  <2>. QED
    BY <1>2, <2>2, <2>3, <2>4 DEF IsBest
<1>4. CASE k # 1
  <2>1. PICK i \in 1..(k - 1) :
          /\ b = E[i]
          /\ \A h \in 1..(k - 1) : /\ h < i => E[h].count < E[i].count
                                   /\ E[h].count <= E[i].count
    BY <1>2, <1>4 DEF IsBest
  <2>2. i \in 1..Len(E) /\ i \in 1..k /\ i < k /\ \A h \in 1..k : h \in 1..Len(E)
    OBVIOUS
  <2>3. CASE E[k].count > b.count
    <3>1. Better(b, E[k]) = E[k]
      BY <2>3 DEF Better
    <3>2. \A h \in 1..(k - 1) : E[h].count < E[k].count
      BY <1>1, <2>1, <2>2, <2>3
    <3>3. \A h \in 1..k : /\ h < k => E[h].count < E[k].count
                          /\ E[h].count <= E[k].count
      BY <1>1, <1>2, <2>2, <3>2
    <3>. QED
      BY <1>2, <3>1, <3>3 DEF IsBest
  <2>4. CASE ~(E[k].count > b.count)
    <3>1. Better(b, E[k]) = E[i]
      BY <2>1, <2>4 DEF Better
    <3>2. E[k].count <= E[i].count /\ ~(k < i)
      BY <1>1, <2>1, <2>2, <2>4
    <3>3. \A h \in 1..k : /\ h < i => E[h].count < E[i].count
                          /\ E[h].count <= E[i].count
      BY <1>2, <2>1, <3>2
    <3>. QED
      BY <1>2, <2>2, <3>1, <3>3 DEF IsBest
  <2>. QED
    BY <2>3, <2>4
<1>. QED
  BY <1>3, <1>4

LEMMA LoopFindsBest ==
  ASSUME NEW E \in Seq(CountEntry), \A i \in 1..Len(E) : E[i].count # 0,
         NEW k \in 0..Len(E)
  PROVE  IsBest(BestLoop(E)[k], E, k)
<1>. DEFINE Wrong == {m \in 0..Len(E) : ~IsBest(BestLoop(E)[m], E, m)}
<1>1. IsBest(BestLoop(E)[0], E, 0)
  BY BestLoopRuns DEF IsBest
<1>2. ASSUME Wrong # {}
      PROVE  FALSE
  <2>1. Wrong \in SUBSET Nat
    OBVIOUS
  <2>2. PICK m \in Wrong : \A h \in Wrong : m <= h
    <3>. HIDE DEF Wrong
    <3>. QED
      BY <1>2, <2>1, LeastElement
  <2>3. m \in 1..Len(E) /\ m - 1 \in 0..Len(E) /\ ~(m <= m - 1)
    BY <1>1
  <2>4. IsBest(BestLoop(E)[m - 1], E, m - 1)
    BY <2>2, <2>3
  <2>5. BestLoop(E)[m] = Better(BestLoop(E)[m - 1], E[m])
    BY <2>3, BestLoopRuns
  <2>. QED
    BY <2>2, <2>3, <2>4, <2>5, IsBestStep
<1>. QED
  BY <1>2

\* For every list of reports the loops of evaluateConsensus end with the status
\* and the count of the declarative definition, ties included.
THEOREM LoopsComputeMajority ==
  ASSUME NEW S, HaveStatus(S), NEW rs \in Seq(S)
  PROVE  /\ LoopMajority(rs).status = Majority(rs)
         /\ LoopMajority(rs).count = Count(rs, Majority(rs))
<1>. DEFINE E == CountLoop(rs)[Len(rs)]
            b == BestLoop(E)[Len(E)]
<1>1. Len(rs) \in Nat /\ Len(rs) \in 0..Len(rs) /\ DOMAIN rs = 1..Len(rs)
  OBVIOUS
<1>2. Counted(rs, E, Len(rs))
  BY <1>1, LoopCounts
<1>3. \A s : VotesUpTo(rs, Len(rs), s) = Votes(rs, s)
  BY <1>1 DEF VotesUpTo, Votes
<1>4. /\ E \in Seq(CountEntry) /\ Len(E) \in Nat
      /\ \A i \in 1..Len(E) : /\ E[i] \in CountEntry
                              /\ E[i].count = Count(rs, E[i].status)
                              /\ Votes(rs, E[i].status) # {}
      /\ \A i, h \in 1..Len(E) : i < h =>
           \E p \in Votes(rs, E[i].status) : \A q \in Votes(rs, E[h].status) : p < q
      /\ \A s \in VerdictStatus : Votes(rs, s) # {} =>
           \E i \in 1..Len(E) : E[i].status = s
  <2>. HIDE DEF E
  <2>1. E \in Seq(CountEntry)
    BY <1>2 DEF Counted
  <2>2. \A i \in 1..Len(E) : /\ E[i].count = Count(rs, E[i].status)
                              /\ Votes(rs, E[i].status) # {}
    BY <1>2, <1>3 DEF Counted, Count
  <2>3. ASSUME NEW i \in 1..Len(E), NEW h \in 1..Len(E), i < h
        PROVE  \E p \in Votes(rs, E[i].status) : \A q \in Votes(rs, E[h].status) : p < q
    <3>1. \E p \in VotesUpTo(rs, Len(rs), E[i].status) :
            \A q \in VotesUpTo(rs, Len(rs), E[h].status) : p < q
      BY <1>2, <2>3 DEF Counted
    <3>2. /\ VotesUpTo(rs, Len(rs), E[i].status) = Votes(rs, E[i].status)
          /\ VotesUpTo(rs, Len(rs), E[h].status) = Votes(rs, E[h].status)
      BY <1>3
    <3>. QED
      BY <3>1, <3>2
  <2>4. \A s \in VerdictStatus : Votes(rs, s) # {} =>
          \E i \in 1..Len(E) : E[i].status = s
    BY <1>2, <1>3 DEF Counted
  <2>5. Len(E) \in Nat /\ \A i \in 1..Len(E) : E[i] \in CountEntry
    BY <2>1
  <2>. QED
    BY <2>1, <2>2, <2>3, <2>4, <2>5
<1>5. LoopMajority(rs) = b
  BY DEF LoopMajority
<1>. HIDE DEF E
<1>6. \A i \in 1..Len(E) : E[i].count # 0
  BY <1>4, VotesFinite
<1>7. IsBest(b, E, Len(E))
  BY <1>4, <1>6, LoopFindsBest
<1>. HIDE DEF b
<1>8. CASE Len(E) = 0
  <2>1. b = [status |-> "UNKNOWN", count |-> 0]
    BY <1>7, <1>8 DEF IsBest
  <2>2. \A s \in VerdictStatus : Votes(rs, s) = {} /\ Count(rs, s) = 0
    BY <1>4, <1>8, VotesFinite
  <2>3. Majority(rs) = "UNKNOWN"
    <3>1. \A s \in VerdictStatus : ~Leads(rs, s)
      <4>1. \A s \in VerdictStatus : \E t \in VerdictStatus : t # s
        BY DEF VerdictStatus
      <4>. QED
        BY <2>2, <4>1 DEF Leads
    <3>. QED
      BY <3>1 DEF Majority
  <2>. QED
    BY <1>5, <2>1, <2>2, <2>3, MajorityType
<1>9. CASE Len(E) # 0
  <2>1. PICK i \in 1..Len(E) :
          /\ b = E[i]
          /\ \A h \in 1..Len(E) : /\ h < i => E[h].count < E[i].count
                                  /\ E[h].count <= E[i].count
    BY <1>7, <1>9 DEF IsBest
  <2>. DEFINE s == E[i].status
  <2>2. s \in VerdictStatus /\ Count(rs, s) \in Nat /\ Count(rs, s) # 0
    BY <1>4, <1>6, VotesFinite DEF CountEntry
  <2>3. ASSUME NEW t \in VerdictStatus \ {s}
        PROVE  Preferred(rs, s, t)
    <3>1. Count(rs, t) \in Nat /\ (Count(rs, t) = 0 <=> Votes(rs, t) = {})
      BY VotesFinite
    <3>2. CASE Votes(rs, t) = {}
      BY <2>2, <3>1, <3>2 DEF Preferred
    <3>3. CASE Votes(rs, t) # {}
      <4>1. PICK h \in 1..Len(E) : E[h].status = t
        BY <1>4, <3>3
      <4>2. h \in Nat /\ i \in Nat /\ h # i
        BY <4>1
      <4>3. Count(rs, s) = E[i].count /\ Count(rs, t) = E[h].count
        BY <1>4, <4>1
      <4>4. CASE h < i
        <5>1. E[h].count < E[i].count
          BY <2>1, <4>4
        <5>. QED
          BY <2>2, <3>1, <4>3, <5>1 DEF Preferred
      <4>5. CASE i < h
        <5>1. E[h].count <= E[i].count
          BY <2>1
        <5>2. \E p \in Votes(rs, s) : \A q \in Votes(rs, t) : p < q
          BY <1>4, <4>1, <4>5
        <5>. QED
          BY <2>2, <3>1, <4>3, <5>1, <5>2 DEF Preferred
      <4>. QED
        BY <4>2, <4>4, <4>5
    <3>. QED
      BY <3>2, <3>3
  <2>4. Leads(rs, s)
    BY <2>3, LeadsPreferred
  <2>5. Majority(rs) = s
    BY <2>2, <2>4, MajorityIs
  <2>. QED
    BY <1>4, <1>5, <2>1, <2>5
<1>. QED
  BY <1>8, <1>9

-----------------------------------------------------------------------------
(***************************************************************************)
(* The properties of MajorityVote, for any bound on its reports: what is   *)
(* shown above of every list, said of the lists of its behaviours.         *)
(***************************************************************************)
\* A report of a behaviour of MajorityVote.
BallotRow == [status : SiteStatus]

LEMMA BallotStatus == HaveStatus(BallotRow)
BY DEF HaveStatus, BallotRow

\* A step adds a report somewhere, or none.
LEMMA BallotGrows ==
  ASSUME reports \in Seq(BallotRow), [BallotNext]_ballotVars
  PROVE  \/ reports' = reports
         \/ \E e \in BallotRow : Joins(BallotRow, reports, e, reports')
<1>1. CASE BallotNext
  <2>1. PICK s \in SiteStatus, i \in 1..(Len(reports) + 1) :
          reports' = InsertAt(reports, i, [status |-> s])
    BY <1>1 DEF BallotNext, Arrive
  <2>2. [status |-> s] \in BallotRow
    BY DEF BallotRow
  <2>. QED
    BY <2>1, <2>2, InsertedJoins
<1>2. CASE UNCHANGED ballotVars
  BY <1>2 DEF ballotVars
<1>. QED
  BY <1>1, <1>2

LEMMA BallotRows == BallotSpec => [](reports \in Seq(BallotRow))
<1>1. BallotInit => reports \in Seq(BallotRow)
  BY DEF BallotInit
<1>2. reports \in Seq(BallotRow) /\ [BallotNext]_ballotVars
      => (reports \in Seq(BallotRow))'
  BY BallotGrows DEF Joins
<1>. QED
  BY <1>1, <1>2, PTL DEF BallotSpec

\* However many reports come in, the loops and the definition agree on them.
THEOREM LoopsAlwaysAgree == BallotSpec => []LoopsAgree
<1>1. reports \in Seq(BallotRow) => LoopsAgree
  BY LoopsComputeMajority, BallotStatus DEF LoopsAgree
<1>. QED
  BY <1>1, BallotRows, PTL

\* Once the reports decide a job they always do, whatever the panel's size.
THEOREM DecisionsStay == BallotSpec => DecisionIsMonotone
<1>1. ASSUME reports \in Seq(BallotRow), [BallotNext]_ballotVars,
             NEW expected \in 1..MaxReports, Decided(reports, expected)
      PROVE  Decided(reports', expected)
  <2>1. expected \in Nat
    BY MaxReportsAssumption
  <2>2. ASSUME NEW e \in BallotRow, Joins(BallotRow, reports, e, reports')
        PROVE  Decided(reports', expected)
    BY <1>1, <2>1, <2>2, BallotStatus, DecidedStays
  <2>. QED
    BY <1>1, <2>2, BallotGrows
<1>2. reports \in Seq(BallotRow) /\ [BallotNext]_ballotVars
      => [\A expected \in 1..MaxReports :
            Decided(reports, expected) => Decided(reports', expected)]_ballotVars
  BY <1>1
<1>. QED
  BY <1>2, BallotRows, PTL DEF BallotSpec, DecisionIsMonotone

\* The verdict of a decided job is never outvoted by the rest of its panel, and
\* on a panel of odd size it is final, in whatever order the rows are read.
THEOREM VerdictsAreNotOutvoted == BallotSpec => VerdictIsNotOutvoted
<1>1. ASSUME reports \in Seq(BallotRow), [BallotNext]_ballotVars,
             NEW expected \in 1..MaxReports, Len(reports') <= expected,
             Decided(reports, expected)
      PROVE  /\ Majority(reports) \in Leading(reports')
             /\ expected % 2 = 1 => Majority(reports') = Majority(reports)
  <2>1. expected \in Nat /\ Majority(reports) \in Leading(reports)
    BY <1>1, MaxReportsAssumption, BallotStatus, MajorityIsLeading
  <2>2. ASSUME NEW e \in BallotRow, Joins(BallotRow, reports, e, reports')
        PROVE  /\ Majority(reports) \in Leading(reports')
               /\ expected % 2 = 1 => Majority(reports') = Majority(reports)
    <3>1. Len(reports) < expected
      BY <1>1, <2>1, <2>2 DEF Joins
    <3>2. Majority(reports) \in Leading(reports')
      BY <1>1, <2>1, <2>2, <3>1, BallotStatus, LeadersStay
    <3>3. expected % 2 = 1 => Majority(reports') = Majority(reports)
      BY <1>1, <2>1, <2>2, <3>1, BallotStatus, MajorityStays
    <3>. QED
      BY <3>2, <3>3
  <2>3. CASE reports' = reports
    BY <2>1, <2>3
  <2>. QED
    BY <1>1, <2>2, <2>3, BallotGrows
<1>2. reports \in Seq(BallotRow) /\ [BallotNext]_ballotVars
      => [\A expected \in 1..MaxReports :
            /\ Len(reports') <= expected
            /\ reports # <<>>
            /\ Decided(reports, expected)
            => /\ Majority(reports) \in Leading(reports')
               /\ expected % 2 = 1 => Majority(reports') = Majority(reports)]_ballotVars
  BY <1>1
<1>. QED
  BY <1>2, BallotRows, PTL DEF BallotSpec, VerdictIsNotOutvoted
=============================================================================

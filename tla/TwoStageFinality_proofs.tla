----------------------- MODULE TwoStageFinality_proofs -----------------------
(***************************************************************************)
(* Proofs about TwoStageFinality: that a stage is carried by its votes,    *)
(* that an invalidated block never becomes Deep, and that a challenge on   *)
(* record holds its block, for any blocks, votes, windows and tasks.       *)
(***************************************************************************)
EXTENDS TwoStageFinality, FiniteSetTheorems, SequenceTheorems,
        WellFoundedInduction, TLAPS

Call == [step : {"idle", "register", "report", "submit"},
         block : Block \cup {0}, nth : Nat, score : Nat]
Challenge == [block : Block, nth : Nat, left : Int]

\* The types of what the proofs look at.
Types ==
  /\ statuses \in [Block -> SUBSET Status]
  /\ level \in Level
  /\ challenges \subseteq Challenge
  /\ calls \in [Challenger -> Call]
  /\ ticking \subseteq Level
  /\ registrations \in Nat

LEMMA Constants ==
  /\ Block \subseteq Nat \ {0} /\ Window \in Nat
  /\ PorwWeights \subseteq Nat /\ TscPowers \subseteq Nat /\ Scores \subseteq Nat
  /\ Upgrades \subseteq 0 .. 4
BY FinalityAssumption

\* No preset is weaker than the one of level 0.
LEMMA Presets ==
  ASSUME NEW l \in Level
  PROVE  /\ Porw(l) \in Nat /\ Tsc(l) \in Nat /\ WindowAt(l) \in Nat
         /\ Porw(l) >= Porw(0) /\ Porw(l) \div 2 >= Porw(0) \div 2
         /\ Tsc(l) >= Tsc(0) /\ WindowAt(l) >= WindowAt(0)
<1>1. l = 0 \/ l = 1 \/ l = 2 \/ l = 3 \/ l = 4
  BY DEF Level
<1>2. Window \in Nat
  BY Constants
<1>3. /\ Porw(0) = 6667 /\ Porw(1) = 7000 /\ Porw(2) = 7500 /\ Porw(3) = 8000 /\ Porw(4) = 9000
      /\ Tsc(0) = 5100 /\ Tsc(1) = 5500 /\ Tsc(2) = 6000 /\ Tsc(3) = 6667 /\ Tsc(4) = 7500
  BY DEF Porw, Tsc, PorwThreshold, TscThreshold
<1>4. /\ WindowAt(0) = (Window * 10) \div 10 /\ WindowAt(1) = (Window * 15) \div 10
      /\ WindowAt(2) = (Window * 20) \div 10 /\ WindowAt(3) = (Window * 30) \div 10
      /\ WindowAt(4) = (Window * 50) \div 10
  BY DEF WindowAt, WindowTenths
<1>5. /\ Porw(l) \in Nat /\ Tsc(l) \in Nat /\ Porw(l) >= Porw(0)
      /\ Porw(l) \div 2 >= Porw(0) \div 2 /\ Tsc(l) >= Tsc(0)
  BY <1>1, <1>3
<1>6. WindowAt(l) \in Nat /\ WindowAt(l) >= WindowAt(0)
  BY <1>1, <1>2, <1>4
<1> QED BY <1>5, <1>6

LEMMA LevelForTyped == \A total : LevelFor(total) \in Level
<1> SUFFICES ASSUME NEW total PROVE LevelFor(total) \in Level
  OBVIOUS
<1> DEFINE S == {i \in 1 .. 4 : total >= ScoreThreshold[i]}
<1>1. IsFiniteSet(1 .. 4) /\ Cardinality(1 .. 4) = 4
  <2>1. 1 \in Int /\ 4 \in Int /\ ~(1 > 4) /\ 4 - 1 + 1 = 4
    OBVIOUS
  <2> QED BY <2>1, FS_Interval
<1>2. S \subseteq 1 .. 4
  OBVIOUS
<1>3. IsFiniteSet(S) /\ Cardinality(S) <= Cardinality(1 .. 4) /\ Cardinality(S) \in Nat
  BY <1>1, <1>2, FS_Subset, FS_CardinalityType
<1>4. Cardinality(S) \in 0 .. 4
  BY <1>1, <1>3
<1> QED BY <1>4 DEF LevelFor, Level

-----------------------------------------------------------------------------
(* The scores.  EscalationCovers needs that dropping reports from the front  *)
(* of the list never raises their total, and that the level grows with it.   *)

\* Every nonempty set of naturals has a least element.
LEMMA NatLeast ==
  ASSUME NEW S \in SUBSET Nat, S # {}
  PROVE  \E n \in S : \A m \in S : n <= m
<1>1. \E x \in S : \A y \in S : ~ (<<y, x>> \in OpToRel(<, Nat))
  BY NatLessThanWellFounded, WFMin, Zenon
<1>2. PICK n \in S : \A y \in S : ~ (<<y, n>> \in OpToRel(<, Nat))
  BY <1>1
<1>3. \A y \in S : ~ (y < n)
  BY <1>2 DEF OpToRel
<1> QED BY <1>3

\* A set with 0 and the successor of each natural it has, has them all.
LEMMA Induction ==
  ASSUME NEW S, 0 \in S, \A n \in Nat : n \in S => n + 1 \in S
  PROVE  Nat \subseteq S
<1> SUFFICES ASSUME Nat \ S # {} PROVE FALSE
  OBVIOUS
<1>1. PICK n \in Nat \ S : \A m \in Nat \ S : n <= m
  BY NatLeast
<1>2. n - 1 \in Nat
  BY <1>1
<1>3. (n - 1) + 1 \in S
  BY <1>1, <1>2
<1> QED BY <1>1, <1>3

Reports == Seq(Nat \X Nat)

\* Sums is the function its definition says it is.
LEMMA SumsIsDefined ==
  ASSUME NEW q \in Reports
  PROVE  Sums(q) = [i \in 0 .. Len(q) |-> IF i = 0 THEN 0 ELSE Sums(q)[i - 1] + q[i][2]]
<1> DEFINE Next1(K, i) == IF i = 0 THEN 0 ELSE K[i - 1] + q[i][2]
           Is(K, n) == K = [i \in 0 .. n |-> Next1(K, i)]
           Defined == {n \in Nat : \E K : Is(K, n)}
<1>1. 0 \in Defined
  <2>1. Is([i \in 0 .. 0 |-> 0], 0) OBVIOUS
  <2> QED BY <2>1
<1>2. ASSUME NEW n \in Nat, n \in Defined PROVE n + 1 \in Defined
  <2>1. PICK K : Is(K, n)
    BY <1>2
  <2> DEFINE J == [i \in 0 .. n + 1 |-> Next1(K, i)]
  <2>2. ASSUME NEW i \in 0 .. n + 1 PROVE Next1(J, i) = Next1(K, i)
    <3>1. CASE i = 0 BY <3>1
    <3>2. CASE i # 0
      <4> HIDE DEF Next1
      <4>1. i - 1 \in 0 .. n /\ i - 1 \in 0 .. n + 1 BY <3>2, <2>2
      <4>2. K[i - 1] = Next1(K, i - 1) BY <4>1, <2>1
      <4>3. J[i - 1] = Next1(K, i - 1) BY <4>1
      <4> HIDE DEF J
      <4> QED BY <4>2, <4>3 DEF Next1
    <3> QED BY <3>1, <3>2
  <2> HIDE DEF Next1
  <2>3. Is(J, n + 1)
    BY <2>2
  <2> HIDE DEF Is, J
  <2> QED BY <2>3
<1> HIDE DEF Next1, Is
<1>3. Len(q) \in Defined
  <2>1. Len(q) \in Nat BY DEF Reports
  <2> HIDE DEF Defined
  <2> QED BY <1>1, <1>2, <2>1, Induction
<1>4. Is(CHOOSE K : Is(K, Len(q)), Len(q))
  BY <1>3, Zenon
<1>5. Sums(q) = CHOOSE K : Is(K, Len(q))
  BY DEF Sums, Next1, Is
<1>6. Is(Sums(q), Len(q))
  BY <1>4, <1>5, Zenon
<1> QED BY <1>6 DEF Next1, Is

\* The equations of Sums.
LEMMA SumsEquations ==
  ASSUME NEW q \in Reports
  PROVE  /\ Sums(q)[0] = 0
         /\ \A n \in Nat : n + 1 <= Len(q) => Sums(q)[n + 1] = Sums(q)[n] + q[n + 1][2]
<1> DEFINE R == Sums(q)
<1>1. R = [i \in 0 .. Len(q) |-> IF i = 0 THEN 0 ELSE R[i - 1] + q[i][2]]
  BY SumsIsDefined
<1> HIDE DEF R
<1>2. Len(q) \in Nat BY DEF Reports
<1>3. R[0] = 0 BY <1>1, <1>2
<1>4. ASSUME NEW n \in Nat, n + 1 <= Len(q) PROVE R[n + 1] = R[n] + q[n + 1][2]
  <2>1. n + 1 \in 0 .. Len(q) /\ n + 1 # 0 /\ (n + 1) - 1 = n BY <1>2, <1>4
  <2> QED BY <1>1, <2>1
<1> QED BY <1>3, <1>4 DEF R

\* Sums of scores are naturals.
LEMMA SumsTyped ==
  ASSUME NEW q \in Reports, NEW n \in 0 .. Len(q)
  PROVE  Sums(q)[n] \in Nat
<1> DEFINE R == Sums(q)
           Fine == {k \in Nat : k <= Len(q) => R[k] \in Nat}
<1>1. /\ R[0] = 0
      /\ \A k \in Nat : k + 1 <= Len(q) => R[k + 1] = R[k] + q[k + 1][2]
  BY SumsEquations
<1> HIDE DEF R
<1>2. Len(q) \in Nat /\ \A i \in 1 .. Len(q) : q[i][2] \in Nat BY DEF Reports
<1>3. 0 \in Fine BY <1>1
<1>4. ASSUME NEW k \in Nat, k \in Fine PROVE k + 1 \in Fine
  <2> SUFFICES ASSUME k + 1 <= Len(q) PROVE R[k + 1] \in Nat OBVIOUS
  <2>1. R[k] \in Nat /\ k + 1 \in 1 .. Len(q) BY <1>2, <1>4
  <2>2. R[k + 1] = R[k] + q[k + 1][2] /\ q[k + 1][2] \in Nat BY <1>1, <1>2, <2>1
  <2> QED BY <2>1, <2>2
<1>5. n \in Fine
  <2> HIDE DEF Fine
  <2> QED BY <1>2, <1>3, <1>4, Induction
<1> QED BY <1>2, <1>5 DEF R

\* A list that ends like another, score by score, has no larger total.
LEMMA SuffixTotal ==
  ASSUME NEW q \in Reports, NEW r \in Reports, NEW d \in Nat, Len(q) = Len(r) + d,
         \A i \in 1 .. Len(r) : r[i][2] = q[i + d][2]
  PROVE  /\ Total(r) <= Total(q)
         /\ Total(r) \in Nat /\ Total(q) \in Nat
<1> DEFINE R == Sums(r)
           Q == Sums(q)
           Fine == {k \in Nat : k <= Len(r) => R[k] <= Q[k + d]}
<1>1. Len(q) \in Nat /\ Len(r) \in Nat
  BY DEF Reports
<1>2. /\ \A k \in 0 .. Len(r) : R[k] \in Nat
      /\ \A k \in 0 .. Len(q) : Q[k] \in Nat
  BY SumsTyped
<1>3. /\ R[0] = 0
      /\ \A k \in Nat : k + 1 <= Len(r) => R[k + 1] = R[k] + r[k + 1][2]
      /\ \A k \in Nat : k + 1 <= Len(q) => Q[k + 1] = Q[k] + q[k + 1][2]
  BY SumsEquations
<1> HIDE DEF R, Q
<1>4. 0 \in Fine
  <2>1. d \in 0 .. Len(q) BY <1>1
  <2>2. Q[d] \in Nat BY <1>2, <2>1
  <2> QED BY <1>3, <2>2
<1>5. ASSUME NEW k \in Nat, k \in Fine PROVE k + 1 \in Fine
  <2> SUFFICES ASSUME k + 1 <= Len(r) PROVE R[k + 1] <= Q[(k + 1) + d] OBVIOUS
  <2>1. R[k] <= Q[k + d] /\ k \in 0 .. Len(r) /\ k + 1 \in 1 .. Len(r) BY <1>1, <1>5
  <2>2. k + d \in 0 .. Len(q) /\ k + d \in Nat /\ (k + d) + 1 <= Len(q)
        /\ (k + 1) + d = (k + d) + 1
    BY <1>1, <2>1
  <2>3. r[k + 1][2] = q[(k + d) + 1][2] BY <2>1, <2>2
  <2>4. r[k + 1][2] \in Nat
    <3>1. \A i \in 1 .. Len(r) : r[i] \in Nat \X Nat BY DEF Reports
    <3> QED BY <2>1, <3>1
  <2>5. R[k + 1] = R[k] + r[k + 1][2] /\ Q[(k + 1) + d] = Q[k + d] + r[k + 1][2]
    BY <1>3, <2>1, <2>2, <2>3
  <2>6. R[k] \in Nat /\ Q[k + d] \in Nat BY <1>2, <2>1, <2>2
  <2> QED BY <2>1, <2>4, <2>5, <2>6
<1>6. Len(r) \in Fine
  <2> HIDE DEF Fine
  <2> QED BY <1>1, <1>4, <1>5, Induction
<1>7. R[Len(r)] <= Q[Len(q)] /\ R[Len(r)] \in Nat /\ Q[Len(q)] \in Nat
  BY <1>1, <1>2, <1>6
<1> QED BY <1>7 DEF Total, R, Q

\* What is left of the reports are reports, and no larger a total.
LEMMA RecentTotal ==
  ASSUME NEW q \in Reports
  PROVE  /\ Recent(q) \in Reports /\ Total(Recent(q)) \in Nat
         /\ Total(Recent(q)) <= Total(q)
<1> DEFINE kept == {i \in 1 .. Len(q) : q[i][1] <= Window}
<1>1. Len(q) \in Nat BY DEF Reports
<1>2. CASE kept = {}
  <2>1. Recent(q) = <<>> BY <1>2 DEF Recent
  <2>2. Recent(q) \in Reports /\ Len(Recent(q)) = 0 BY <2>1 DEF Reports
  <2>3. Len(q) = Len(Recent(q)) + Len(q) BY <1>1, <2>2
  <2> QED BY <1>1, <2>2, <2>3, SuffixTotal
<1>3. CASE kept # {}
  <2>1. kept \in SUBSET Nat OBVIOUS
  <2>2. PICK m \in kept : \A i \in kept : m <= i BY <1>3, <2>1, NatLeast
  <2>3. \E x \in kept : \A y \in kept : x =< y BY <2>2
  <2>4. Min(kept) \in kept BY <2>3, Zenon DEF Min
  <2> DEFINE a == Min(kept)
  <2>5. Recent(q) = SubSeq(q, a, Len(q)) BY <1>3 DEF Recent
  <2>6. a \in 1 .. Len(q) BY <2>4
  <2> HIDE DEF a, kept
  <2>7. /\ Recent(q) \in Reports /\ Len(Recent(q)) = Len(q) - a + 1
        /\ \A i \in 1 .. Len(Recent(q)) : Recent(q)[i] = q[a + i - 1]
    <3> DEFINE S == Nat \X Nat
    <3>1. q \in Seq(S) BY DEF Reports
    <3> HIDE DEF S
    <3>2. Len(Recent(q)) = Len(q) - a + 1 BY <1>1, <2>5, <2>6, <3>1
    <3>3. \A i \in 1 .. Len(Recent(q)) : Recent(q)[i] = q[a + i - 1]
      BY <1>1, <2>5, <2>6, <3>1
    <3>4. Recent(q) \in Seq(S) BY <1>1, <2>5, <2>6, <3>1
    <3> QED BY <3>2, <3>3, <3>4 DEF Reports, S
  <2>8. a - 1 \in Nat /\ Len(q) = Len(Recent(q)) + (a - 1) BY <1>1, <2>6, <2>7
  <2>9. \A i \in 1 .. Len(Recent(q)) : Recent(q)[i][2] = q[i + (a - 1)][2]
    <3> TAKE i \in 1 .. Len(Recent(q))
    <3>1. a + i - 1 = i + (a - 1) BY <2>6
    <3> QED BY <2>7, <3>1
  <2> QED BY <2>7, <2>8, <2>9, SuffixTotal
<1> QED BY <1>2, <1>3

\* A larger total calls for no lower a level.
LEMMA LevelGrows ==
  ASSUME NEW m \in Nat, NEW n \in Nat, m <= n
  PROVE  LevelFor(m) <= LevelFor(n)
<1> DEFINE A == {i \in 1 .. 4 : m >= ScoreThreshold[i]}
           B == {i \in 1 .. 4 : n >= ScoreThreshold[i]}
<1>1. \A i \in 1 .. 4 : ScoreThreshold[i] \in Nat
  <2>1. ScoreThreshold[1] = 100 /\ ScoreThreshold[2] = 500 /\ ScoreThreshold[3] = 2000
        /\ ScoreThreshold[4] = 5000
    BY DEF ScoreThreshold
  <2>2. \A i \in 1 .. 4 : i = 1 \/ i = 2 \/ i = 3 \/ i = 4 OBVIOUS
  <2> QED BY <2>1, <2>2
<1>2. A \subseteq B BY <1>1
<1>3. IsFiniteSet(1 .. 4)
  <2>1. 1 \in Int /\ 4 \in Int OBVIOUS
  <2> QED BY <2>1, FS_Interval
<1>4. IsFiniteSet(B) BY <1>3, FS_Subset
<1>5. Cardinality(A) <= Cardinality(B) BY <1>2, <1>4, FS_Subset
<1> QED BY <1>5 DEF LevelFor

-----------------------------------------------------------------------------
(* What is true of each status by itself.                                  *)

Backed(b, s) ==
  /\ s.stage >= Local /\ s.asserted < Local => s.porw >= Porw(0) \div 2
  /\ s.stage >= Continental /\ s.asserted < Continental => s.porw >= Porw(0)
  /\ s.stage >= Global /\ s.asserted < Global /\ IsCheckpoint(b) => s.tsc >= Tsc(0)
  /\ s.stage = Deep /\ s.asserted < Deep => s.sinceGlobal >= WindowAt(0)

\* An invalid block carries its challenge, and is Deep only if it was set so.
Held(s) == s.invalid => s.challenged /\ (s.stage = Deep => s.asserted = Deep)

Good(b, s) == s \in Status /\ Backed(b, s) /\ Held(s)

\* try_advance keeps all of it, at whatever level, and what it does not touch.
LEMMA AdvanceGood ==
  ASSUME NEW b \in Block, NEW s, Good(b, s), NEW l \in Level
  PROVE  /\ Good(b, TryAdvance(b, s, l))
         /\ TryAdvance(b, s, l).nth = s.nth
         /\ TryAdvance(b, s, l).challenged = s.challenged
         /\ TryAdvance(b, s, l).invalid = s.invalid
         /\ TryAdvance(b, s, l).asserted = s.asserted
         /\ s.stage # Deep /\ TryAdvance(b, s, l).stage = Deep => ~s.challenged
<1> DEFINE t == TryAdvance(b, s, l)
<1>1. s \in Status /\ Backed(b, s) /\ Held(s)
  BY DEF Good
<1>2. CASE ~MayAdvance(b, s, l)
  BY <1>2 DEF TryAdvance
<1>3. CASE MayAdvance(b, s, l)
  <2>1. s.stage \in 0 .. 3
    BY <1>3 DEF MayAdvance, Pending, Local, Continental, Global
  <2>2. PICK g : g = IF s.stage + 1 = Global THEN 0 ELSE s.sinceGlobal
    OBVIOUS
  <2>3. g \in Int
    BY <1>1, <2>2 DEF Status
  <2>4. t = [s EXCEPT !.stage = s.stage + 1, !.sinceGlobal = g]
    BY <1>3, <2>2 DEF TryAdvance
  <2>5. /\ t \in Status /\ t.stage = s.stage + 1 /\ t.sinceGlobal = g
        /\ t.porw = s.porw /\ t.tsc = s.tsc /\ t.challenged = s.challenged
        /\ t.nth = s.nth /\ t.invalid = s.invalid /\ t.asserted = s.asserted
    <3>1. s.stage + 1 \in 0 .. 4
      BY <2>1
    <3>2. \A k \in 0 .. 4 : LET r == [s EXCEPT !.stage = k, !.sinceGlobal = g] IN
            /\ r \in Status /\ r.stage = k /\ r.sinceGlobal = g
            /\ r.porw = s.porw /\ r.tsc = s.tsc /\ r.challenged = s.challenged
            /\ r.nth = s.nth /\ r.invalid = s.invalid /\ r.asserted = s.asserted
      BY <1>1, <2>3 DEF Status
    <3> HIDE DEF t
    <3> QED BY <2>4, <3>1, <3>2
  <2>6. /\ s.porw \in Nat /\ s.tsc \in Nat /\ s.sinceGlobal \in Int /\ s.asserted \in 0 .. 4
        /\ Porw(0) \in Nat /\ Tsc(0) \in Nat /\ WindowAt(0) \in Nat
    BY <1>1, Presets DEF Status, Level
  <2>7. Backed(b, t)
    <3>1. CASE s.stage = 0
      BY <1>3, <2>5, <2>6, <3>1, Presets DEF MayAdvance, Backed, Pending, Local, Continental, Global, Deep
    <3>2. CASE s.stage = 1
      BY <1>1, <1>3, <2>5, <2>6, <3>2, Presets DEF MayAdvance, Backed, Pending, Local, Continental, Global, Deep
    <3>3. CASE s.stage = 2
      BY <1>1, <1>3, <2>5, <2>6, <3>3, Presets DEF MayAdvance, Backed, Pending, Local, Continental, Global, Deep
    <3>4. CASE s.stage = 3
      <4>1. g = s.sinceGlobal /\ s.sinceGlobal >= WindowAt(l)
        BY <1>3, <2>2, <3>4 DEF MayAdvance, Pending, Local, Continental, Global
      <4>2. g >= WindowAt(0)
        BY <2>6, <4>1, Presets
      <4> QED BY <1>1, <2>5, <3>4, <4>2 DEF Backed, Local, Continental, Global, Deep
    <3> QED BY <2>1, <3>1, <3>2, <3>3, <3>4
  <2>8. t.stage = Deep => ~s.challenged
    BY <1>3, <2>5, <2>1 DEF MayAdvance, Pending, Local, Continental, Global, Deep
  <2>9. Held(t)
    BY <1>1, <2>5, <2>8 DEF Held
  <2> QED BY <2>5, <2>7, <2>8, <2>9 DEF Good
<1> QED BY <1>2, <1>3

-----------------------------------------------------------------------------
(* The inductive invariant.                                                *)

Single == \A b \in Block : \A s, t \in statuses[b] : s = t
AllGood == \A b \in Block : \A s \in statuses[b] : Good(b, s) /\ s.nth <= registrations

\* Whoever has challenged a registration, and whatever challenge is on record,
\* finds it challenged, if that registration is still there.
Marked(b, nth) == \A s \in statuses[b] : s.nth = nth => s.challenged
OnRecord == \A c \in challenges : c.nth <= registrations /\ Marked(c.block, c.nth)
OnTheWay == \A p \in Challenger : calls[p].step # "idle" =>
  /\ calls[p].block \in Block /\ calls[p].nth <= registrations
  /\ calls[p].step # "register" => Marked(calls[p].block, calls[p].nth)

Inv == Types /\ Single /\ AllGood /\ OnRecord /\ OnTheWay

\* t is s some time later, still the same registration.
Later(s, t) ==
  /\ t.nth = s.nth /\ (s.challenged => t.challenged)
  /\ s.stage # Deep /\ t.stage = Deep /\ t.asserted # Deep => ~s.challenged
\* What a step may do to the statuses.
Kept ==
  /\ statuses' \in [Block -> SUBSET Status] /\ Single'
  /\ \A b \in Block : \A t \in statuses'[b] :
       /\ Good(b, t)
       /\ \/ t.nth = registrations + 1 /\ registrations' = registrations + 1 /\ t.stage = Pending
          \/ \E s \in statuses[b] : Later(s, t)

LEMMA LaterSelf == ASSUME NEW s PROVE Later(s, s)
BY DEF Later

\* The part of the invariant about statuses follows from Kept.
LEMMA KeptEnough ==
  ASSUME Inv, Kept, registrations' \in Nat, registrations <= registrations'
  PROVE  /\ AllGood'
         /\ \A b \in Block, nth \in Nat : nth <= registrations /\ Marked(b, nth) => Marked(b, nth)'
<1>1. registrations \in Nat
  BY DEF Inv, Types
<1>2. AllGood'
  <2> SUFFICES ASSUME NEW b \in Block, NEW t \in statuses'[b]
               PROVE  Good(b, t) /\ t.nth <= registrations'
    BY DEF AllGood
  <2>1. Good(b, t)
    BY DEF Kept
  <2>2. CASE t.nth = registrations + 1 /\ registrations' = registrations + 1
    BY <1>1, <2>1, <2>2
  <2>3. ASSUME NEW s \in statuses[b], Later(s, t) PROVE t.nth <= registrations'
    <3>1. s.nth <= registrations /\ t.nth = s.nth /\ s \in Status
      BY <2>3 DEF Inv, AllGood, Later, Good
    <3>2. s.nth \in Nat
      BY <3>1 DEF Status
    <3> QED BY <1>1, <3>1, <3>2
  <2> QED BY <2>1, <2>2, <2>3 DEF Kept
<1>3. ASSUME NEW b \in Block, NEW nth \in Nat, nth <= registrations, Marked(b, nth)
      PROVE  Marked(b, nth)'
  <2> SUFFICES ASSUME NEW t \in statuses'[b], t.nth = nth PROVE t.challenged
    BY DEF Marked
  <2>1. t.nth # registrations + 1
    BY <1>1, <1>3
  <2>2. PICK s \in statuses[b] : Later(s, t)
    BY <2>1 DEF Kept
  <2> QED BY <1>3, <2>2 DEF Later, Marked
<1> QED BY <1>2, <1>3

\* So does the rest, when a challenge on record comes from one on record or
\* from a call that has marked its block, and a call moves on, or starts with
\* the registration it finds.
LEMMA KeptInv ==
  ASSUME Inv, Kept, registrations' \in Nat, registrations <= registrations',
         level' \in Level, ticking' \subseteq Level,
         challenges' \subseteq Challenge, calls' \in [Challenger -> Call],
         \A c \in challenges' :
           \/ \E d \in challenges : c.block = d.block /\ c.nth = d.nth
           \/ \E p \in Challenger : /\ calls[p].step \notin {"idle", "register"}
                                    /\ c.block = calls[p].block /\ c.nth = calls[p].nth,
         \A p \in Challenger :
           \/ calls'[p] = calls[p]
           \/ calls'[p].step = "idle"
           \/ /\ calls[p].step \notin {"idle", "register"}
              /\ calls'[p].block = calls[p].block /\ calls'[p].nth = calls[p].nth
           \/ /\ calls'[p].block \in Block /\ calls'[p].nth <= registrations
              /\ \/ calls'[p].step = "register"
                 \/ \A s \in statuses'[calls'[p].block] : s.challenged
  PROVE  Inv'
<1>1. registrations \in Nat /\ challenges \subseteq Challenge /\ calls \in [Challenger -> Call]
  BY DEF Inv, Types
<1>2. AllGood' /\ \A b \in Block, nth \in Nat :
        nth <= registrations /\ Marked(b, nth) => Marked(b, nth)'
  BY KeptEnough
<1>3. ASSUME NEW p \in Challenger, calls[p].step \notin {"idle", "register"}
      PROVE  /\ calls[p].block \in Block /\ calls[p].nth \in Nat
             /\ calls[p].nth <= registrations /\ Marked(calls[p].block, calls[p].nth)
  <2>1. calls[p] \in Call
    BY <1>1
  <2> QED BY <1>3, <2>1 DEF Inv, OnTheWay, Call
<1>4. OnRecord'
  <2> SUFFICES ASSUME NEW c \in challenges'
               PROVE  c.nth <= registrations' /\ Marked(c.block, c.nth)'
    BY DEF OnRecord
  <2>1. c.block \in Block /\ c.nth \in Nat
    BY DEF Challenge
  <2>2. c.nth <= registrations /\ Marked(c.block, c.nth)
    <3>1. ASSUME NEW d \in challenges, c.block = d.block, c.nth = d.nth
          PROVE  c.nth <= registrations /\ Marked(c.block, c.nth)
      BY <3>1 DEF Inv, OnRecord
    <3>2. ASSUME NEW p \in Challenger, calls[p].step \notin {"idle", "register"},
                 c.block = calls[p].block, c.nth = calls[p].nth
          PROVE  c.nth <= registrations /\ Marked(c.block, c.nth)
      BY <1>3, <3>2
    <3> QED BY <3>1, <3>2
  <2>3. c.nth <= registrations'
    BY <1>1, <2>1, <2>2
  <2>4. PICK b, n : b = c.block /\ n = c.nth
    OBVIOUS
  <2>5. Marked(b, n)'
    BY <1>2, <2>1, <2>2, <2>4
  <2> QED BY <2>3, <2>4, <2>5
<1>5. OnTheWay'
  <2> SUFFICES ASSUME NEW p \in Challenger, NEW q, q = calls'[p], q.step # "idle"
               PROVE  /\ q.block \in Block /\ q.nth <= registrations'
                      /\ q.step # "register" => Marked(q.block, q.nth)'
    BY DEF OnTheWay
  <2>1. q.nth \in Nat /\ calls[p] \in Call
    BY <1>1 DEF Call
  <2>2. /\ q.block \in Block /\ q.nth <= registrations
        /\ q.step # "register" => Marked(q.block, q.nth) \/ \A s \in statuses'[q.block] : s.challenged
    <3>1. CASE q = calls[p]
      BY <3>1 DEF Inv, OnTheWay
    <3>2. CASE /\ calls[p].step \notin {"idle", "register"}
               /\ q.block = calls[p].block /\ q.nth = calls[p].nth
      BY <1>3, <3>2
    <3>3. CASE /\ q.block \in Block /\ q.nth <= registrations
               /\ q.step = "register" \/ \A s \in statuses'[q.block] : s.challenged
      BY <3>3
    <3> QED BY <3>1, <3>2, <3>3
  <2>3. q.nth <= registrations'
    BY <1>1, <2>1, <2>2
  <2>4. PICK b, n : b = q.block /\ n = q.nth
    OBVIOUS
  <2>5. CASE Marked(b, n)
    <3>1. Marked(b, n)'
      BY <1>2, <2>1, <2>2, <2>4, <2>5
    <3> QED BY <2>2, <2>3, <2>4, <3>1
  <2>6. CASE \A s \in statuses'[b] : s.challenged
    <3>1. Marked(b, n)'
      BY <2>6 DEF Marked
    <3> QED BY <2>2, <2>3, <2>4, <3>1
  <2> QED BY <2>2, <2>3, <2>4, <2>5, <2>6
<1> QED BY <1>2, <1>4, <1>5 DEF Inv, Types, Kept

-----------------------------------------------------------------------------
(* Every action keeps the statuses.                                        *)

LEMMA UnchangedKept == ASSUME Inv, UNCHANGED statuses PROVE Kept
<1>1. \A b \in Block : \A t \in statuses[b] : Good(b, t) /\ Later(t, t)
  BY LaterSelf DEF Inv, AllGood
<1> QED BY <1>1 DEF Inv, Types, Single, Kept

\* A step that changes each status by an operation of its own.
LEMMA EachKept ==
  ASSUME Inv, NEW f, statuses' = [b \in Block |-> {f[b][s] : s \in statuses[b]}],
         \A b \in Block : \A s \in statuses[b] : Good(b, f[b][s]) /\ Later(s, f[b][s])
  PROVE  Kept
<1>1. ASSUME NEW b \in Block, NEW t \in statuses'[b]
      PROVE  Good(b, t) /\ \E s \in statuses[b] : t = f[b][s] /\ Later(s, t)
  <2>1. PICK s \in statuses[b] : t = f[b][s]
    OBVIOUS
  <2> QED BY <2>1
<1>2. statuses' \in [Block -> SUBSET Status]
  <2>1. \A b \in Block : statuses'[b] \subseteq Status
    BY <1>1 DEF Good
  <2> QED BY <2>1
<1>3. Single'
  BY <1>1 DEF Inv, Single
<1> QED BY <1>1, <1>2, <1>3 DEF Kept

\* A step that changes one status.
LEMMA OneKept ==
  ASSUME Inv, NEW b \in Block, NEW t, Good(b, t),
         statuses' = [statuses EXCEPT ![b] = {t}],
         \/ t.nth = registrations + 1 /\ registrations' = registrations + 1 /\ t.stage = Pending
         \/ \E s \in statuses[b] : Later(s, t)
  PROVE  Kept
<1>1. \A d \in Block : \A s \in statuses[d] : Good(d, s) /\ Later(s, s)
  BY LaterSelf DEF Inv, AllGood
<1>2. statuses \in [Block -> SUBSET Status] /\ t \in Status
  BY DEF Inv, Types, Good
<1>3. \A d \in Block : statuses'[d] = IF d = b THEN {t} ELSE statuses[d]
  BY <1>2
<1>4. statuses' \in [Block -> SUBSET Status]
  BY <1>2
<1>5. Single'
  BY <1>3 DEF Inv, Single
<1>6. ASSUME NEW d \in Block, NEW u \in statuses'[d]
      PROVE  /\ Good(d, u)
             /\ \/ u.nth = registrations + 1 /\ registrations' = registrations + 1 /\ u.stage = Pending
                \/ \E s \in statuses[d] : Later(s, u)
  <2>1. CASE d = b
    <3>1. u = t
      BY <1>3, <2>1
    <3> QED BY <2>1, <3>1
  <2>2. CASE d # b
    <3>1. u \in statuses[d]
      BY <1>3, <2>2
    <3> QED BY <1>1, <3>1
  <2> QED BY <2>1, <2>2
<1> QED BY <1>4, <1>5, <1>6 DEF Kept

LEMMA RegisterStep ==
  ASSUME Inv, NEW b \in Block, RegisterBlock(b)
  PROVE  Kept /\ registrations' = registrations + 1 /\ UNCHANGED <<challenges, calls, level, ticking>>
<1>1. PICK t : t = [stage |-> Pending, porw |-> 0, tsc |-> 0, sinceGlobal |-> -1,
                    challenged |-> FALSE, nth |-> registrations + 1, invalid |-> FALSE,
                    asserted |-> Pending]
  OBVIOUS
<1>2. /\ registrations' = registrations + 1 /\ UNCHANGED <<challenges, calls, level, ticking>>
      /\ statuses' = [statuses EXCEPT ![b] = {t}]
  BY <1>1 DEF RegisterBlock
<1>3. t.nth = registrations + 1 /\ t.stage = 0 /\ ~t.invalid
  BY <1>1 DEF Pending
<1>4. t \in Status
  BY <1>1 DEF Status, Pending, Inv, Types
<1>5. Good(b, t)
  BY <1>3, <1>4 DEF Good, Backed, Held, Local, Continental, Global, Deep
<1> QED BY <1>2, <1>3, <1>5, OneKept DEF Pending

LEMMA PorwSet ==
  ASSUME NEW s \in Status, NEW k \in Nat, NEW r, r = [s EXCEPT !.porw = k]
  PROVE  /\ r \in Status /\ r.porw = k /\ r.tsc = s.tsc /\ r.stage = s.stage
         /\ r.nth = s.nth /\ r.sinceGlobal = s.sinceGlobal /\ r.asserted = s.asserted
         /\ r.challenged = s.challenged /\ r.invalid = s.invalid
<1>1. r \in Status /\ r.porw = k
  BY DEF Status
<1>2. r.tsc = s.tsc /\ r.stage = s.stage /\ r.nth = s.nth
  BY DEF Status
<1>3. r.sinceGlobal = s.sinceGlobal /\ r.asserted = s.asserted
  BY DEF Status
<1>4. r.challenged = s.challenged /\ r.invalid = s.invalid
  BY Zenon DEF Status
<1> QED BY <1>1, <1>2, <1>3, <1>4

LEMMA TscSet ==
  ASSUME NEW s \in Status, NEW k \in Nat, NEW r, r = [s EXCEPT !.tsc = k]
  PROVE  /\ r \in Status /\ r.tsc = k /\ r.porw = s.porw /\ r.stage = s.stage
         /\ r.nth = s.nth /\ r.sinceGlobal = s.sinceGlobal /\ r.asserted = s.asserted
         /\ r.challenged = s.challenged /\ r.invalid = s.invalid
<1>1. r \in Status /\ r.tsc = k
  BY DEF Status
<1>2. r.porw = s.porw /\ r.stage = s.stage /\ r.nth = s.nth
  BY DEF Status
<1>3. r.sinceGlobal = s.sinceGlobal /\ r.asserted = s.asserted
  BY DEF Status
<1>4. r.challenged = s.challenged /\ r.invalid = s.invalid
  BY Zenon DEF Status
<1> QED BY <1>1, <1>2, <1>3, <1>4

LEMMA VoteStep ==
  ASSUME Inv, NEW b \in Block, Vote(b)
  PROVE  Kept /\ UNCHANGED <<registrations, challenges, calls, level, ticking>>
<1>1. UNCHANGED <<registrations, challenges, calls, level, ticking>>
  BY DEF Vote
<1>2. PICK s \in statuses[b] :
        \/ \E w \in PorwWeights : statuses' = [statuses EXCEPT ![b] =
             {TryAdvance(b, [s EXCEPT !.porw = Capped(@ + w, Porw(4))], level)}]
        \/ \E w \in TscPowers : statuses' = [statuses EXCEPT ![b] =
             {TryAdvance(b, [s EXCEPT !.tsc = Capped(@ + w, Tsc(4))], level)}]
  BY DEF Vote
<1>3. Good(b, s) /\ level \in Level
  BY DEF Inv, Types, AllGood
<1>4. ASSUME NEW r, Good(b, r), r.nth = s.nth, r.challenged = s.challenged, r.stage = s.stage,
             statuses' = [statuses EXCEPT ![b] = {TryAdvance(b, r, level)}]
      PROVE  Kept
  <2>1. PICK t : t = TryAdvance(b, r, level)
    OBVIOUS
  <2>2. Good(b, t) /\ Later(s, t)
    BY <1>3, <1>4, <2>1, AdvanceGood DEF Later
  <2> QED BY <1>4, <2>1, <2>2, OneKept
<1>5. /\ s \in Status /\ s.porw \in Nat /\ s.tsc \in Nat
      /\ Porw(0) = 6667 /\ Tsc(0) = 5100 /\ Porw(4) = 9000 /\ Tsc(4) = 7500
  BY <1>3 DEF Good, Status, Porw, Tsc, PorwThreshold, TscThreshold
<1>6. ASSUME NEW w \in PorwWeights PROVE
        LET r == [s EXCEPT !.porw = Capped(@ + w, Porw(4))] IN
          Good(b, r) /\ r.nth = s.nth /\ r.challenged = s.challenged /\ r.stage = s.stage
  <2>1. w \in Nat
    BY Constants
  <2>2. PICK k : k = Capped(s.porw + w, Porw(4))
    OBVIOUS
  <2>3. /\ k \in Nat
        /\ s.porw >= Porw(0) => k >= Porw(0)
        /\ s.porw >= Porw(0) \div 2 => k >= Porw(0) \div 2
    <3>1. \A m \in Nat : Capped(m, Porw(4)) \in Nat
                       /\ (m >= Porw(0) => Capped(m, Porw(4)) >= Porw(0))
                       /\ (m >= Porw(0) \div 2 => Capped(m, Porw(4)) >= Porw(0) \div 2)
      BY <1>5 DEF Capped
    <3>2. s.porw + w \in Nat /\ s.porw + w >= s.porw
      BY <1>5, <2>1
    <3> QED BY <1>5, <2>1, <2>2, <3>1, <3>2
  <2>4. PICK r : r = [s EXCEPT !.porw = k]
    OBVIOUS
  <2>5. /\ r \in Status /\ r.porw = k /\ r.tsc = s.tsc /\ r.stage = s.stage
        /\ r.nth = s.nth /\ r.sinceGlobal = s.sinceGlobal /\ r.asserted = s.asserted
        /\ r.challenged = s.challenged /\ r.invalid = s.invalid
    BY <1>5, <2>3, <2>4, PorwSet
  <2>6. s.asserted \in 0 .. 4 /\ s.stage \in 0 .. 4
    BY <1>5 DEF Status
  <2>7. Backed(b, r) /\ Held(r)
    BY <1>3, <1>5, <2>3, <2>5, <2>6 DEF Good, Backed, Held
  <2> QED BY <2>2, <2>4, <2>5, <2>6, <2>7 DEF Good
<1>7. ASSUME NEW w \in TscPowers PROVE
        LET r == [s EXCEPT !.tsc = Capped(@ + w, Tsc(4))] IN
          Good(b, r) /\ r.nth = s.nth /\ r.challenged = s.challenged /\ r.stage = s.stage
  <2>1. w \in Nat
    BY Constants
  <2>2. PICK k : k = Capped(s.tsc + w, Tsc(4))
    OBVIOUS
  <2>3. /\ k \in Nat
        /\ s.tsc >= Tsc(0) => k >= Tsc(0)
        /\ s.tsc >= Tsc(0) \div 2 => k >= Tsc(0) \div 2
    <3>1. \A m \in Nat : Capped(m, Tsc(4)) \in Nat
                       /\ (m >= Tsc(0) => Capped(m, Tsc(4)) >= Tsc(0))
                       /\ (m >= Tsc(0) \div 2 => Capped(m, Tsc(4)) >= Tsc(0) \div 2)
      BY <1>5 DEF Capped
    <3>2. s.tsc + w \in Nat /\ s.tsc + w >= s.tsc
      BY <1>5, <2>1
    <3> QED BY <1>5, <2>1, <2>2, <3>1, <3>2
  <2>4. PICK r : r = [s EXCEPT !.tsc = k]
    OBVIOUS
  <2>5. /\ r \in Status /\ r.tsc = k /\ r.porw = s.porw /\ r.stage = s.stage
        /\ r.nth = s.nth /\ r.sinceGlobal = s.sinceGlobal /\ r.asserted = s.asserted
        /\ r.challenged = s.challenged /\ r.invalid = s.invalid
    BY <1>5, <2>3, <2>4, TscSet
  <2>6. s.asserted \in 0 .. 4 /\ s.stage \in 0 .. 4
    BY <1>5 DEF Status
  <2>7. Backed(b, r) /\ Held(r)
    BY <1>3, <1>5, <2>3, <2>5, <2>6 DEF Good, Backed, Held
  <2> QED BY <2>2, <2>4, <2>5, <2>6, <2>7 DEF Good
<1> QED BY <1>1, <1>2, <1>4, <1>6, <1>7

\* upgrade_finality is trusted with the stage it sets, and with nothing else.
LEMMA UpgradeStep ==
  ASSUME Inv, NEW b \in Block, NEW stage \in Upgrades, UpgradeFinality(b, stage)
  PROVE  Kept /\ UNCHANGED <<registrations, challenges, calls, level, ticking>>
<1>1. PICK s \in statuses[b] :
        statuses' = [statuses EXCEPT ![b] = {[s EXCEPT !.stage = stage, !.asserted = stage]}]
  BY DEF UpgradeFinality
<1>2. Good(b, s) /\ s \in Status /\ stage \in 0 .. 4
  BY Constants DEF Inv, AllGood, Good
<1>3. PICK t : t = [s EXCEPT !.stage = stage, !.asserted = stage]
  OBVIOUS
<1>4. t \in Status /\ t.stage = stage /\ t.asserted = stage /\ t.nth = s.nth
  BY <1>2, <1>3 DEF Status
<1>5. t.challenged = s.challenged /\ t.invalid = s.invalid
  BY <1>2, <1>3, Zenon DEF Status
<1>6. Backed(b, t) /\ Held(t)
  BY <1>2, <1>4, <1>5 DEF Good, Backed, Held, Local, Continental, Global, Deep
<1>7. Good(b, t) /\ Later(s, t)
  BY <1>4, <1>5, <1>6 DEF Good, Later
<1> QED BY <1>1, <1>3, <1>7, OneKept DEF UpgradeFinality

\* A block that is rolled back was challenged: its challenge is on record.
LEMMA TickStep ==
  ASSUME Inv, TickRun
  PROVE  /\ Kept /\ UNCHANGED <<registrations, calls, level>>
         /\ ticking' = {} /\ challenges' \subseteq challenges
<1>1. PICK l \in ticking :
        LET expired == {c \in challenges : c.left < 0}
            Nths(b) == {c.nth : c \in {x \in expired : x.block = b}}
        IN /\ statuses' = [b \in Block |->
                IF Nths(b) = {} THEN Advanced(b, l)
                                ELSE {RolledBack(s, Nths(b)) : s \in Advanced(b, l)}]
           /\ challenges' = challenges \ expired
           /\ ticking' = {}
           /\ UNCHANGED <<level, scores, calls, registrations, filed, upgrades>>
  BY DEF TickRun
<1> DEFINE Nths(b) == {c.nth : c \in {x \in {d \in challenges : d.left < 0} : x.block = b}}
           After(b, s) == IF Nths(b) = {} THEN TryAdvance(b, s, l)
                                          ELSE RolledBack(TryAdvance(b, s, l), Nths(b))
<1>2. l \in Level
  BY DEF Inv, Types
<1>3. ASSUME NEW b \in Block, NEW s \in statuses[b]
      PROVE  Good(b, After(b, s)) /\ Later(s, After(b, s))
  <2>1. PICK t : t = TryAdvance(b, s, l)
    OBVIOUS
  <2>2. /\ Good(b, t) /\ t.nth = s.nth /\ t.challenged = s.challenged
        /\ s.stage # Deep /\ t.stage = Deep => ~s.challenged
    BY <1>2, <2>1, AdvanceGood DEF Inv, AllGood
  <2>3. CASE Nths(b) = {}
    BY <2>1, <2>2, <2>3 DEF Later
  <2>4. CASE Nths(b) # {}
    <3>1. PICK u : u = RolledBack(t, Nths(b))
      OBVIOUS
    <3>2. t \in Status
      BY <2>2 DEF Good
    <3>3. PICK i \in BOOLEAN : i = (t.invalid \/ t.nth \in Nths(b))
      BY Zenon
    <3>4. u = [t EXCEPT !.stage = Pending, !.asserted = Pending, !.invalid = i]
      BY <3>1, <3>3 DEF RolledBack
    <3>5. /\ u \in Status /\ u.stage = Pending /\ u.challenged = t.challenged
          /\ u.nth = t.nth /\ u.invalid = i
      <4>1. u.stage = Pending /\ u.challenged = t.challenged /\ u.nth = t.nth
        BY <3>2, <3>4 DEF Status, Pending
      <4>2. u.invalid = i
        BY <3>2, <3>4, Zenon DEF Status
      <4>3. \A j \in BOOLEAN : [t EXCEPT !.stage = Pending, !.asserted = Pending, !.invalid = j] \in Status
        <5>0. [t EXCEPT !.stage = Pending] \in Status
          BY <3>2 DEF Status, Pending
        <5>1. [t EXCEPT !.stage = Pending, !.asserted = Pending] \in Status
          <6>1. ASSUME NEW r \in Status PROVE [r EXCEPT !.asserted = Pending] \in Status
            BY DEF Status, Pending
          <6> QED BY <5>0, <6>1
        <5>2. ASSUME NEW j \in BOOLEAN, NEW r \in Status PROVE [r EXCEPT !.invalid = j] \in Status
          BY <5>2 DEF Status
        <5> QED BY <5>1, <5>2, Zenon
      <4> QED BY <3>4, <4>1, <4>2, <4>3
    <3>6. t.nth \in Nths(b) => s.challenged
      <4> SUFFICES ASSUME t.nth \in Nths(b) PROVE s.challenged
        OBVIOUS
      <4>1. PICK c \in challenges : c.block = b /\ c.nth = s.nth
        BY <2>2
      <4> QED BY <4>1 DEF Inv, OnRecord, Marked
    <3>7. u.invalid => u.challenged
      BY <2>2, <3>3, <3>5, <3>6 DEF Good, Held
    <3>8. Good(b, u)
      BY <3>5, <3>7 DEF Good, Backed, Held, Pending, Local, Continental, Global, Deep
    <3>9. Later(s, u)
      BY <2>2, <3>5 DEF Later, Pending, Deep
    <3> QED BY <2>1, <2>4, <3>1, <3>8, <3>9
  <2> QED BY <2>3, <2>4
<1>4. PICK f : f = [b \in Block |-> [s \in statuses[b] |-> After(b, s)]]
  OBVIOUS
<1>5. ASSUME NEW b \in Block, NEW s \in statuses[b] PROVE f[b][s] = After(b, s)
  BY <1>4
<1>6. ASSUME NEW b \in Block PROVE statuses'[b] = {After(b, s) : s \in statuses[b]}
  <2>1. Advanced(b, l) = {TryAdvance(b, s, l) : s \in statuses[b]}
    BY DEF Advanced
  <2>2. CASE Nths(b) = {}
    BY <1>1, <2>1, <2>2
  <2>3. CASE Nths(b) # {}
    <3>1. statuses'[b] = {RolledBack(s, Nths(b)) : s \in Advanced(b, l)}
      BY <1>1, <2>3
    <3> QED BY <2>1, <2>3, <3>1
  <2> QED BY <2>2, <2>3
<1>7. statuses' = [b \in Block |-> {f[b][s] : s \in statuses[b]}]
  <2>1. \A b \in Block : {After(b, s) : s \in statuses[b]} = {f[b][s] : s \in statuses[b]}
    BY <1>5
  <2>2. statuses' = [b \in Block |-> statuses'[b]]
    BY <1>1
  <2> HIDE DEF After
  <2> QED BY <1>6, <2>1, <2>2
<1>8. \A b \in Block : \A s \in statuses[b] : Good(b, f[b][s]) /\ Later(s, f[b][s])
  <2> HIDE DEF After
  <2> QED BY <1>3, <1>5
<1> HIDE DEF After, Nths
<1>9. Kept
  BY <1>7, <1>8, EachKept
<1> QED BY <1>1, <1>9

\* Pruning only forgets statuses.
LEMMA PruneStep ==
  ASSUME Inv, NEW keep, Prune(keep)
  PROVE  Kept /\ UNCHANGED <<registrations, challenges, calls, level, ticking>>
<1>1. PICK gone : statuses' = [b \in Block |-> IF b \in gone THEN {} ELSE statuses[b]]
  BY DEF Prune
<1>2. \A b \in Block : statuses'[b] \subseteq statuses[b]
  BY <1>1
<1>3. \A b \in Block : \A t \in statuses[b] : Good(b, t) /\ Later(t, t)
  BY LaterSelf DEF Inv, AllGood
<1>4. statuses' \in [Block -> SUBSET Status]
  BY <1>1 DEF Inv, Types
<1>5. Single'
  BY <1>2 DEF Inv, Single
<1>6. Kept
  BY <1>2, <1>3, <1>4, <1>5 DEF Kept
<1> QED BY <1>6 DEF Prune

LEMMA RegisterChallengeStep ==
  ASSUME Inv, NEW p \in Challenger, RegisterChallenge(p)
  PROVE  /\ Kept /\ calls[p].block \in Block
         /\ \A s \in statuses'[calls[p].block] : s.challenged
<1>1. calls[p].block \in Block
  BY DEF RegisterChallenge, Inv, OnTheWay
<1>2. PICK b \in Block : b = calls[p].block
  BY <1>1
<1>3. statuses' = [statuses EXCEPT ![b] = {[s EXCEPT !.challenged = TRUE] : s \in @}]
  BY <1>2 DEF RegisterChallenge
<1>4. statuses \in [Block -> SUBSET Status]
  BY DEF Inv, Types
<1>5. ASSUME NEW s \in Status, Good(b, s)
      PROVE  LET t == [s EXCEPT !.challenged = TRUE] IN Good(b, t) /\ Later(s, t) /\ t.challenged
  <2>1. PICK t : t = [s EXCEPT !.challenged = TRUE]
    OBVIOUS
  <2>2. /\ t \in Status /\ t.challenged /\ t.stage = s.stage /\ t.porw = s.porw /\ t.tsc = s.tsc
        /\ t.sinceGlobal = s.sinceGlobal /\ t.nth = s.nth /\ t.asserted = s.asserted
    BY <2>1 DEF Status
  <2>3. t.invalid = s.invalid
    BY <2>1, Zenon DEF Status
  <2>4. Backed(b, t) /\ Held(t)
    BY <1>5, <2>2, <2>3 DEF Good, Backed, Held
  <2> QED BY <2>1, <2>2, <2>4 DEF Good, Later
<1>6. \A d \in Block : \A s \in statuses[d] : Good(d, s) /\ Later(s, s)
  BY LaterSelf DEF Inv, AllGood
<1>7. ASSUME NEW d \in Block, NEW t \in statuses'[d]
      PROVE  /\ Good(d, t) /\ \E s \in statuses[d] : Later(s, t)
             /\ d = b => t.challenged
  <2>1. CASE d = b
    <3>1. PICK s \in statuses[b] : t = [s EXCEPT !.challenged = TRUE]
      BY <1>3, <1>4, <2>1
    <3> QED BY <1>4, <1>5, <1>6, <2>1, <3>1
  <2>2. CASE d # b
    BY <1>3, <1>4, <1>6, <2>2
  <2> QED BY <2>1, <2>2
<1>8. statuses' \in [Block -> SUBSET Status]
  <2>1. \A d \in Block : statuses'[d] \subseteq Status
    BY <1>7 DEF Good
  <2>2. statuses' = [d \in Block |-> statuses'[d]]
    BY <1>3, <1>4
  <2> QED BY <2>1, <2>2
<1>9. Single'
  <2> SUFFICES ASSUME NEW d \in Block, NEW t \in statuses'[d], NEW u \in statuses'[d] PROVE t = u
    BY DEF Single
  <2>1. CASE d = b
    <3>1. /\ \E s \in statuses[b] : t = [s EXCEPT !.challenged = TRUE]
          /\ \E s \in statuses[b] : u = [s EXCEPT !.challenged = TRUE]
      BY <1>3, <1>4, <2>1
    <3> QED BY <3>1 DEF Inv, Single
  <2>2. CASE d # b
    <3>1. t \in statuses[d] /\ u \in statuses[d]
      BY <1>3, <1>4, <2>2
    <3> QED BY <3>1 DEF Inv, Single
  <2> QED BY <2>1, <2>2
<1> QED BY <1>2, <1>7, <1>8, <1>9 DEF Kept

LEMMA ClockStep ==
  ASSUME Inv, Clock
  PROVE  Kept /\ UNCHANGED <<registrations, calls, level, ticking>>
<1>1. PICK f : f = [b \in Block |-> [s \in statuses[b] |-> Older(s)]]
  OBVIOUS
<1>2. \A b \in Block : \A s \in statuses[b] : f[b][s] = Older(s)
  BY <1>1
<1>3. statuses' = [b \in Block |-> {Older(s) : s \in statuses[b]}]
  BY DEF Clock
<1>4. statuses' = [b \in Block |-> {f[b][s] : s \in statuses[b]}]
  BY <1>2, <1>3
<1>5. ASSUME NEW b \in Block, NEW s \in statuses[b] PROVE Good(b, Older(s)) /\ Later(s, Older(s))
  <2>1. Good(b, s) /\ s \in Status /\ s.sinceGlobal \in Int /\ WindowAt(0) \in Nat
    BY Presets DEF Inv, AllGood, Good, Status, Level
  <2>2. PICK g \in Int : /\ g = IF s.sinceGlobal \in 0 .. MaxAge - 1 THEN s.sinceGlobal + 1
                                                                      ELSE s.sinceGlobal
                         /\ g >= s.sinceGlobal
    BY <2>1
  <2>3. PICK t : t = [s EXCEPT !.sinceGlobal = g]
    OBVIOUS
  <2>4. t = Older(s)
    BY <2>2, <2>3 DEF Older
  <2>5. /\ t \in Status /\ t.sinceGlobal = g /\ t.stage = s.stage /\ t.porw = s.porw
        /\ t.tsc = s.tsc /\ t.nth = s.nth /\ t.asserted = s.asserted
    BY <2>1, <2>3 DEF Status
  <2>6. t.challenged = s.challenged /\ t.invalid = s.invalid
    BY <2>1, <2>3, Zenon DEF Status
  <2>7. Backed(b, t) /\ Held(t)
    BY <2>1, <2>2, <2>5, <2>6 DEF Good, Backed, Held
  <2> QED BY <2>4, <2>5, <2>6, <2>7 DEF Good, Later
<1>6. Kept
  BY <1>2, <1>4, <1>5, EachKept
<1> QED BY <1>6 DEF Clock

LEMMA MovedOn ==
  ASSUME NEW c \in Call, NEW step \in {"report", "submit"}
  PROVE  LET q == [c EXCEPT !.step = step] IN q \in Call /\ q.block = c.block /\ q.nth = c.nth
BY DEF Call

LEMMA Step ==
  ASSUME Inv, [Next]_vars
  PROVE  Inv' /\ Kept
<1>0. /\ registrations \in Nat /\ level \in Level /\ ticking \subseteq Level
      /\ challenges \subseteq Challenge /\ calls \in [Challenger -> Call]
      /\ registrations <= registrations /\ registrations <= registrations + 1
      /\ registrations + 1 \in Nat
  BY DEF Inv, Types
<1>1. ASSUME NEW b \in Block, RegisterBlock(b) PROVE Inv' /\ Kept
  BY <1>0, <1>1, RegisterStep, KeptInv
<1>2. ASSUME NEW b \in Block, Vote(b) PROVE Inv' /\ Kept
  BY <1>0, <1>2, VoteStep, KeptInv
<1>2a. ASSUME NEW b \in Block, NEW stage \in Upgrades, UpgradeFinality(b, stage)
       PROVE  Inv' /\ Kept
  BY <1>0, <1>2a, UpgradeStep, KeptInv
<1>3. CASE TickRead
  <2>1. ticking' \subseteq Level /\ UNCHANGED <<statuses, registrations, challenges, calls, level>>
    BY <1>0, <1>3 DEF TickRead
  <2> QED BY <1>0, <2>1, UnchangedKept, KeptInv
<1>4. CASE TickRun
  <2>1. /\ Kept /\ UNCHANGED <<registrations, calls, level>>
        /\ ticking' \subseteq Level /\ challenges' \subseteq challenges
    BY <1>4, TickStep
  <2> QED BY <1>0, <2>1, KeptInv
<1>5. ASSUME NEW keep \in 0 .. 1, Prune(keep) PROVE Inv' /\ Kept
  BY <1>0, <1>5, PruneStep, KeptInv
<1>6. ASSUME NEW p \in Challenger, NEW b \in Block, NEW k \in Scores, ReadBlock(p, b, k)
      PROVE  Inv' /\ Kept
  <2>1. PICK s \in statuses[b] : calls' = [calls EXCEPT ![p] =
          [step |-> "register", block |-> b, nth |-> s.nth, score |-> k]]
    BY <1>6 DEF ReadBlock
  <2>2. s \in Status /\ s.nth <= registrations /\ k \in Nat
    BY Constants DEF Inv, AllGood, Good
  <2>3. s.nth \in Nat
    BY <2>2 DEF Status
  <2>4. PICK q \in Call : q = [step |-> "register", block |-> b, nth |-> s.nth, score |-> k]
    BY <2>2, <2>3 DEF Call
  <2>5. calls' \in [Challenger -> Call] /\ \A o \in Challenger : calls'[o] = IF o = p THEN q ELSE calls[o]
    BY <1>0, <2>1, <2>4
  <2>6. q.step = "register" /\ q.block \in Block /\ q.nth <= registrations
    BY <2>2, <2>4
  <2>7. Kept /\ UNCHANGED <<registrations, challenges, level, ticking>>
    BY <1>6, UnchangedKept DEF ReadBlock
  <2>8. \A o \in Challenger :
          \/ calls'[o] = calls[o]
          \/ calls'[o].block \in Block /\ calls'[o].nth <= registrations /\ calls'[o].step = "register"
    BY <2>5, <2>6
  <2> QED BY <1>0, <2>5, <2>7, <2>8, KeptInv
<1>7. ASSUME NEW p \in Challenger, RegisterChallenge(p) PROVE Inv' /\ Kept
  <2>1. /\ Kept /\ calls[p].block \in Block /\ calls[p].nth <= registrations
        /\ \A s \in statuses'[calls[p].block] : s.challenged
    BY <1>7, RegisterChallengeStep DEF RegisterChallenge, Inv, OnTheWay
  <2>2. /\ calls' = [calls EXCEPT ![p].step = "report"]
        /\ UNCHANGED <<registrations, challenges, level, ticking>>
    BY <1>7 DEF RegisterChallenge
  <2>3. calls[p] \in Call
    BY <1>0
  <2>4. PICK q \in Call : /\ q = [calls[p] EXCEPT !.step = "report"]
                          /\ q.block = calls[p].block /\ q.nth = calls[p].nth
    BY <2>3, MovedOn
  <2>5. calls' \in [Challenger -> Call] /\ \A o \in Challenger : calls'[o] = IF o = p THEN q ELSE calls[o]
    BY <1>0, <2>2, <2>4
  <2>6. \A o \in Challenger :
          \/ calls'[o] = calls[o]
          \/ /\ calls'[o].block \in Block /\ calls'[o].nth <= registrations
             /\ \A s \in statuses'[calls'[o].block] : s.challenged
    BY <2>1, <2>4, <2>5
  <2> QED BY <1>0, <2>1, <2>2, <2>5, <2>6, KeptInv
<1>8. ASSUME NEW p \in Challenger, ReportAnomaly(p) PROVE Inv' /\ Kept
  <2>1. /\ calls' = [calls EXCEPT ![p].step = "submit"] /\ calls[p].step = "report"
        /\ level' = LevelFor(Total(scores'))
        /\ UNCHANGED <<registrations, challenges, statuses, ticking>>
    BY <1>8 DEF ReportAnomaly
  <2>2. level' \in Level
    BY <2>1, LevelForTyped
  <2>3. calls[p] \in Call
    BY <1>0
  <2>4. PICK q \in Call : /\ q = [calls[p] EXCEPT !.step = "submit"]
                          /\ q.block = calls[p].block /\ q.nth = calls[p].nth
    BY <2>3, MovedOn
  <2>5. calls' \in [Challenger -> Call] /\ \A o \in Challenger : calls'[o] = IF o = p THEN q ELSE calls[o]
    BY <1>0, <2>1, <2>4
  <2>6. \A o \in Challenger :
          \/ calls'[o] = calls[o]
          \/ /\ calls[o].step \notin {"idle", "register"}
             /\ calls'[o].block = calls[o].block /\ calls'[o].nth = calls[o].nth
    BY <2>1, <2>4, <2>5
  <2>7. Kept
    BY <2>1, UnchangedKept
  <2> QED BY <1>0, <2>1, <2>2, <2>5, <2>6, <2>7, KeptInv
<1>9. ASSUME NEW p \in Challenger, SubmitChallenge(p) PROVE Inv' /\ Kept
  <2>1. /\ calls' = [calls EXCEPT ![p] = Idle] /\ calls[p].step = "submit"
        /\ \/ UNCHANGED challenges
           \/ challenges' = challenges \cup
                {[block |-> calls[p].block, nth |-> calls[p].nth, left |-> Window]}
        /\ UNCHANGED <<registrations, level, statuses, ticking>>
    BY <1>9 DEF SubmitChallenge
  <2>2. calls[p].block \in Block /\ calls[p].nth \in Nat
    <3>1. calls[p] \in Call
      BY <1>0
    <3> QED BY <2>1, <3>1 DEF Inv, OnTheWay, Call
  <2>3. PICK d : d = [block |-> calls[p].block, nth |-> calls[p].nth, left |-> Window]
    OBVIOUS
  <2>d. d \in Challenge /\ d.block = calls[p].block /\ d.nth = calls[p].nth
    BY <2>2, <2>3, Constants DEF Challenge
  <2>4. Idle \in Call /\ Idle.step = "idle"
    BY DEF Call, Idle
  <2>5. /\ calls' \in [Challenger -> Call]
        /\ \A o \in Challenger : calls'[o] = calls[o] \/ calls'[o].step = "idle"
    BY <1>0, <2>1, <2>4
  <2>6. challenges' \subseteq Challenge /\ \A c \in challenges' : c \in challenges \/ c = d
    BY <1>0, <2>1, <2>3, <2>d
  <2>7. \A c \in challenges' :
          \/ \E e \in challenges : c.block = e.block /\ c.nth = e.nth
          \/ \E o \in Challenger : /\ calls[o].step \notin {"idle", "register"}
                                   /\ c.block = calls[o].block /\ c.nth = calls[o].nth
    BY <2>1, <2>d, <2>6
  <2>8. Kept
    BY <2>1, UnchangedKept
  <2> QED BY <1>0, <2>1, <2>5, <2>6, <2>7, <2>8, KeptInv
<1>10. CASE Clock
  <2>1. Kept /\ UNCHANGED <<registrations, calls, level, ticking>>
    BY <1>10, ClockStep
  <2>2. ASSUME NEW c \in challenges'
        PROVE  c \in Challenge /\ \E d \in challenges : c.block = d.block /\ c.nth = d.nth
    <3>1. PICK d \in challenges : c = [d EXCEPT !.left = IF @ >= 0 THEN @ - 1 ELSE @]
      BY <1>10 DEF Clock
    <3>2. d \in Challenge
      BY <1>0
    <3> QED BY <3>1, <3>2 DEF Challenge
  <2> QED BY <1>0, <2>1, <2>2, KeptInv
<1>11. CASE UNCHANGED vars
  BY <1>0, <1>11, UnchangedKept, KeptInv DEF vars
<1> QED
  BY <1>1, <1>2, <1>2a, <1>3, <1>4, <1>5, <1>6, <1>7, <1>8, <1>9, <1>10, <1>11 DEF Next
-----------------------------------------------------------------------------
LEMMA InitInv == Init => Inv
<1> SUFFICES ASSUME Init PROVE Inv
  OBVIOUS
<1>1. Idle \in Call
  BY DEF Call, Idle
<1>2. Types
  BY <1>1 DEF Init, Types, Level
<1>3. Single /\ AllGood /\ OnRecord /\ OnTheWay
  BY DEF Init, Single, AllGood, OnRecord, OnTheWay, Idle
<1> QED BY <1>2, <1>3 DEF Inv

\* No stage beyond the one upgrade_finality set without the votes the weakest
\* preset asks for, whatever the blocks, the weights and the window, and however
\* tick, the votes, the challenges, the escalation and upgrade_finality itself
\* interleave.
THEOREM StagesAreBacked == Spec => []StageIsBacked
<1>1. Inv => StageIsBacked
  BY DEF Inv, AllGood, Good, Backed, StageIsBacked
<1>2. Inv /\ [Next]_vars => Inv'
  BY Step
<1> QED BY InitInv, <1>1, <1>2, PTL DEF Spec

\* A block that a challenge invalidated never becomes Deep, unless
\* upgrade_finality sets it so.
THEOREM InvalidIsNeverDeep == Spec => []InvalidNeverDeep
<1>1. Inv => InvalidNeverDeep
  BY DEF Inv, AllGood, Good, Held, InvalidNeverDeep
<1>2. Inv /\ [Next]_vars => Inv'
  BY Step
<1> QED BY InitInv, <1>1, <1>2, PTL DEF Spec

\* A challenge on record keeps the registration it is against from becoming
\* Deep by votes and ticks.
THEOREM ChallengesHold == Spec => ChallengeHolds
<1> DEFINE A == \A b \in Block : \A s \in statuses[b], t \in statuses'[b] :
                  /\ s.stage # Deep /\ t.stage = Deep /\ t.asserted # Deep
                  => \A c \in challenges : c.block = b => c.nth # s.nth
<1>1. Inv /\ [Next]_vars => [A]_vars
  <2> SUFFICES ASSUME Inv, [Next]_vars, NEW b \in Block, NEW s \in statuses[b],
                      NEW t \in statuses'[b], s.stage # Deep, t.stage = Deep, t.asserted # Deep,
                      NEW c \in challenges, c.block = b
               PROVE  c.nth # s.nth
    OBVIOUS
  <2>1. Kept
    BY Step
  <2>2. PICK r \in statuses[b] : Later(r, t)
    BY <2>1 DEF Kept, Pending, Deep
  <2>3. r = s
    BY DEF Inv, Single
  <2>4. ~s.challenged
    BY <2>2, <2>3 DEF Later
  <2> QED BY <2>4 DEF Inv, OnRecord, Marked
<1>2. Inv /\ [Next]_vars => Inv'
  BY Step
<1> QED BY InitInv, <1>1, <1>2, PTL DEF Spec, ChallengeHolds

-----------------------------------------------------------------------------
(* The finalized list and the escalation level, given Inv.                  *)

RestInv == /\ finalized \in Seq(Block) /\ lastFinalized \in Nat
           /\ scores \in Reports /\ filed \in Nat /\ upgrades \in Nat
           /\ EscalationCovers

\* fetch_max over the blocks of a list leaves a natural.
LEMMA LastOfTyped ==
  ASSUME lastFinalized \in Nat, NEW order \in Seq(Block)
  PROVE  LastOf(order) \in Nat
<1> DEFINE S(k) == {lastFinalized} \cup {order[i] : i \in 1 .. k}
           Fine == {k \in Nat : k <= Len(order) =>
                      \E m \in S(k) : \A x \in S(k) : m >= x}
<1>1. Len(order) \in Nat /\ \A i \in 1 .. Len(order) : order[i] \in Nat
  <2>1. Len(order) \in Nat /\ \A i \in 1 .. Len(order) : order[i] \in Block OBVIOUS
  <2> QED BY <2>1, Constants
<1>2. 0 \in Fine OBVIOUS
<1>3. ASSUME NEW k \in Nat, k \in Fine PROVE k + 1 \in Fine
  <2> SUFFICES ASSUME k + 1 <= Len(order)
               PROVE  \E m \in S(k + 1) : \A x \in S(k + 1) : m >= x
    OBVIOUS
  <2>1. k <= Len(order) /\ k + 1 \in 1 .. Len(order) BY <1>1
  <2>2. PICK m \in S(k) : \A x \in S(k) : m >= x BY <1>3, <2>1
  <2>3. \A x \in S(k) : x \in Nat BY <1>1, <2>1
  <2>4. order[k + 1] \in Nat BY <1>1, <2>1
  <2>5. S(k + 1) = S(k) \cup {order[k + 1]}
    <3>1. 1 .. k + 1 = (1 .. k) \cup {k + 1} OBVIOUS
    <3> QED BY <3>1
  <2> HIDE DEF S
  <2>6. CASE m >= order[k + 1] BY <2>2, <2>5, <2>6
  <2>7. CASE ~ (m >= order[k + 1])
    <3>1. \A x \in S(k) : order[k + 1] >= x BY <2>2, <2>3, <2>4, <2>7
    <3>2. \A x \in S(k + 1) : order[k + 1] >= x BY <2>4, <2>5, <3>1
    <3> QED BY <2>5, <3>2
  <2> QED BY <2>6, <2>7
<1>4. Len(order) \in Fine
  <2> HIDE DEF Fine
  <2> QED BY <1>1, <1>2, <1>3, Induction
<1>5. {lastFinalized} \cup Range(order) = S(Len(order))
  BY DEF Range
<1>6. \E m \in S(Len(order)) : \A x \in S(Len(order)) : m >= x
  BY <1>1, <1>4
<1>7. LastOf(order) = CHOOSE m \in S(Len(order)) : \A x \in S(Len(order)) : m >= x
  BY <1>5 DEF LastOf, Max
<1>8. \A x \in S(Len(order)) : x \in Nat BY <1>1
<1> HIDE DEF S
<1>9. LastOf(order) \in S(Len(order)) BY <1>6, <1>7, Zenon
<1> QED BY <1>8, <1>9

\* Whatever order the map is walked in, a list of blocks comes of it.
LEMMA OrderTyped ==
  ASSUME NEW l, NEW order \in SetToSeqs(NowDeep(l))
  PROVE  order \in Seq(Block)
<1>1. NowDeep(l) \subseteq Block BY DEF NowDeep
<1>2. IsFiniteSet(NowDeep(l)) BY <1>1, FS_Subset, FinalityAssumption
<1>3. Cardinality(NowDeep(l)) \in Nat BY <1>2, FS_CardinalityType
<1>4. order \in [1 .. Cardinality(NowDeep(l)) -> NowDeep(l)] BY DEF SetToSeqs
<1>5. order \in [1 .. Cardinality(NowDeep(l)) -> Block] BY <1>1, <1>4
<1> QED BY <1>3, <1>5, SeqDef

\* The ageing of the reports, and the dropping of the old ones, lower their
\* total at most.
LEMMA ClockTotal ==
  ASSUME scores \in Reports, Clock
  PROVE  scores' \in Reports /\ Total(scores') <= Total(scores)
         /\ Total(scores') \in Nat /\ Total(scores) \in Nat
<1> DEFINE aged == [i \in DOMAIN scores |-> <<scores[i][1] + 1, scores[i][2]>>]
<1>1. scores' = Recent(aged) BY DEF Clock
<1>2. DOMAIN scores = 1 .. Len(scores) /\ Len(scores) \in Nat BY DEF Reports
<1>3. \A i \in 1 .. Len(scores) : scores[i] \in Nat \X Nat BY DEF Reports
<1>4. \A i \in 1 .. Len(scores) : <<scores[i][1] + 1, scores[i][2]>> \in Nat \X Nat
  BY <1>3
<1>5. aged \in [1 .. Len(scores) -> Nat \X Nat] BY <1>2, <1>4
<1>6. \A i \in 1 .. Len(scores) : aged[i][2] = scores[i][2] BY <1>2
<1> HIDE DEF aged
<1>7. aged \in Reports BY <1>2, <1>5, SeqDef DEF Reports
<1>8. Len(aged) = Len(scores) BY <1>2, <1>5, <1>7 DEF Reports
<1>9. \A i \in 1 .. Len(aged) : aged[i][2] = scores[i + 0][2] BY <1>2, <1>6, <1>8
<1>10. Len(scores) = Len(aged) + 0 /\ 0 \in Nat BY <1>2, <1>8
<1>11. Total(aged) <= Total(scores) /\ Total(aged) \in Nat /\ Total(scores) \in Nat
  BY <1>7, <1>9, <1>10, SuffixTotal
<1>12. /\ Recent(aged) \in Reports /\ Total(Recent(aged)) \in Nat
       /\ Total(Recent(aged)) <= Total(aged)
  BY <1>7, RecentTotal
<1> QED BY <1>1, <1>11, <1>12

\* Every step keeps it.
LEMMA RestStep ==
  ASSUME Inv, RestInv, [Next]_vars
  PROVE  RestInv'
<1>1. /\ finalized \in Seq(Block) /\ lastFinalized \in Nat /\ scores \in Reports
      /\ filed \in Nat /\ upgrades \in Nat /\ EscalationCovers
  BY DEF RestInv
<1>2. ASSUME UNCHANGED <<level, scores>> PROVE EscalationCovers'
  BY <1>1, <1>2 DEF EscalationCovers
<1>3. CASE UNCHANGED <<finalized, lastFinalized, level, scores, filed, upgrades>>
  BY <1>1, <1>2, <1>3 DEF RestInv
<1>4. CASE \/ \E b \in Block : RegisterBlock(b) \/ Vote(b)
           \/ TickRead
           \/ \E p \in Challenger : RegisterChallenge(p) \/ SubmitChallenge(p)
           \/ UNCHANGED vars
  BY <1>3, <1>4 DEF RegisterBlock, Vote, TickRead, RegisterChallenge, SubmitChallenge, vars
<1>5. ASSUME NEW p \in Challenger, NEW b \in Block, NEW k \in Scores, ReadBlock(p, b, k)
      PROVE  RestInv'
  <2>1. filed' = filed + 1 /\ UNCHANGED <<finalized, lastFinalized, level, scores, upgrades>>
    BY <1>5 DEF ReadBlock
  <2> QED BY <1>1, <1>2, <2>1 DEF RestInv
<1>6. CASE TickRun
  <2>0. PICK l \in ticking : \E order \in SetToSeqs(NowDeep(l)) :
          /\ finalized' = finalized \o order /\ lastFinalized' = LastOf(order)
          /\ UNCHANGED <<level, scores, filed, upgrades>>
    BY <1>6 DEF TickRun
  <2>1. PICK order \in SetToSeqs(NowDeep(l)) :
          /\ finalized' = finalized \o order /\ lastFinalized' = LastOf(order)
          /\ UNCHANGED <<level, scores, filed, upgrades>>
    BY <2>0
  <2>2. order \in Seq(Block) BY OrderTyped
  <2>3. lastFinalized' \in Nat BY <1>1, <2>1, <2>2, LastOfTyped
  <2>4. finalized' \in Seq(Block) BY <1>1, <2>1, <2>2
  <2> QED BY <1>1, <1>2, <2>1, <2>3, <2>4 DEF RestInv
<1>7. ASSUME NEW keep \in 0 .. 1, Prune(keep) PROVE RestInv'
  <2>1. /\ finalized' = SubSeq(finalized, (Len(finalized) - keep) + 1, Len(finalized))
        /\ Len(finalized) > keep
        /\ UNCHANGED <<lastFinalized, level, scores, filed, upgrades>>
    BY <1>7 DEF Prune
  <2>2. finalized' \in Seq(Block) BY <1>1, <2>1
  <2> QED BY <1>1, <1>2, <2>1, <2>2 DEF RestInv
<1>8. ASSUME NEW p \in Challenger, ReportAnomaly(p) PROVE RestInv'
  <2> DEFINE q == Append(scores, <<0, calls[p].score>>)
  <2>1. /\ scores' = Recent(q) /\ level' = LevelFor(Total(scores'))
        /\ UNCHANGED <<finalized, lastFinalized, filed, upgrades>>
    BY <1>8 DEF ReportAnomaly
  <2>2. calls[p].score \in Nat BY DEF Inv, Types, Call
  <2>3. q \in Reports BY <1>1, <2>2 DEF Reports
  <2> HIDE DEF q
  <2>4. scores' \in Reports BY <2>1, <2>3, RecentTotal
  <2>5. level' \in Nat
    <3>1. LevelFor(Total(scores')) \in Level BY LevelForTyped
    <3> QED BY <2>1, <3>1 DEF Level
  <2>6. EscalationCovers' BY <2>1, <2>5 DEF EscalationCovers
  <2> QED BY <1>1, <2>1, <2>4, <2>6 DEF RestInv
<1>9. CASE Clock
  <2>1. UNCHANGED <<finalized, lastFinalized, level, filed, upgrades>> BY <1>9 DEF Clock
  <2>2. /\ scores' \in Reports /\ Total(scores') <= Total(scores)
        /\ Total(scores') \in Nat /\ Total(scores) \in Nat
    BY <1>1, <1>9, ClockTotal
  <2>3. LevelFor(Total(scores')) <= LevelFor(Total(scores)) BY <2>2, LevelGrows
  <2>4. /\ LevelFor(Total(scores')) \in Nat /\ LevelFor(Total(scores)) \in Nat
        /\ level \in Nat
    <3>1. \A n \in Level : n \in Nat BY DEF Level
    <3> QED BY <3>1, LevelForTyped DEF Inv, Types
  <2>5. level >= LevelFor(Total(scores)) BY <1>1 DEF EscalationCovers
  <2>6. level >= LevelFor(Total(scores')) BY <2>3, <2>4, <2>5
  <2>7. EscalationCovers' BY <2>1, <2>6 DEF EscalationCovers
  <2> QED BY <1>1, <2>1, <2>2, <2>7 DEF RestInv
<1>10. ASSUME NEW b \in Block, NEW stage \in Upgrades, UpgradeFinality(b, stage)
       PROVE  RestInv'
  <2>1. upgrades' = upgrades + 1 /\ UNCHANGED <<finalized, lastFinalized, level, scores, filed>>
    BY <1>10 DEF UpgradeFinality
  <2> QED BY <1>1, <1>2, <2>1 DEF RestInv
<1> QED BY <1>4, <1>5, <1>6, <1>7, <1>8, <1>9, <1>10 DEF Next

\* Both parts of the invariant hold in every state.
THEOREM InvAlways == Spec => [](Inv /\ RestInv)
<1>1. Init => RestInv
  <2> SUFFICES ASSUME Init PROVE RestInv OBVIOUS
  <2>1. scores = <<>> /\ level = 0 BY DEF Init
  <2>2. scores \in Reports /\ Len(scores) = 0 BY <2>1 DEF Reports
  <2>3. Total(scores) = 0 BY <2>2, SumsEquations DEF Total
  <2>4. LevelFor(0) = 0
    <3>1. ScoreThreshold[1] = 100 /\ ScoreThreshold[2] = 500 /\ ScoreThreshold[3] = 2000
          /\ ScoreThreshold[4] = 5000
      BY DEF ScoreThreshold
    <3>2. \A i \in 1 .. 4 : i = 1 \/ i = 2 \/ i = 3 \/ i = 4 OBVIOUS
    <3>3. {i \in 1 .. 4 : 0 >= ScoreThreshold[i]} = {} BY <3>1, <3>2
    <3> QED BY <3>3, FS_EmptySet DEF LevelFor
  <2>5. EscalationCovers BY <2>1, <2>3, <2>4 DEF EscalationCovers
  <2> QED BY <2>2, <2>5 DEF Init, RestInv
<1>2. Inv /\ RestInv /\ [Next]_vars => Inv' /\ RestInv'
  BY Step, RestStep
<1> QED BY InitInv, <1>1, <1>2, PTL DEF Spec

\* Type correctness of the tracker, the detector and the calls in flight.
THEOREM TypeCorrect == Spec => []TypeOK
<1>1. Inv /\ RestInv => TypeOK
  <2> SUFFICES ASSUME Inv, RestInv PROVE TypeOK OBVIOUS
  <2>1. ASSUME NEW b \in Block PROVE Cardinality(statuses[b]) <= 1
    <3>1. CASE statuses[b] = {} BY <3>1, FS_EmptySet
    <3>2. CASE statuses[b] # {}
      <4>1. PICK s : statuses[b] = {s} BY <3>2 DEF Inv, Single
      <4>2. Cardinality({s}) = 1 BY FS_Singleton
      <4> QED BY <4>1, <4>2
    <3> QED BY <3>1, <3>2
  <2> QED BY <2>1 DEF Inv, Types, RestInv, Reports, Call, Challenge, TypeOK
<1> QED BY InvAlways, <1>1, PTL

\* The level never falls behind the reports of the last window.
THEOREM EscalationAlwaysCovers == Spec => []EscalationCovers
BY InvAlways, PTL DEF RestInv
=============================================================================

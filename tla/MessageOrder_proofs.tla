------------------------- MODULE MessageOrder_proofs -------------------------
(* Proofs about MessageOrder, for every number of messages: what sorting and *)
(* going through the vector leave, by induction over its length, and from    *)
(* that the invariants and the refinement of Resequencer.                    *)
EXTENDS MessageOrder, FiniteSetTheorems, SequenceTheorems, WellFoundedInduction, TLAPS

\* Every nonempty set of naturals has a least element, and Min is it.
LEMMA NatLeast ==
  ASSUME NEW S \in SUBSET Nat, S # {}
  PROVE  \E n \in S : \A m \in S : n <= m
<1>1. \E x \in S : \A y \in S : ~ (<<y, x>> \in OpToRel(<, Nat))
  BY NatLessThanWellFounded, WFMin, Zenon
<1>2. PICK n \in S : \A y \in S : ~ (<<y, n>> \in OpToRel(<, Nat))
  BY <1>1
<1>3. \A y \in S : ~ (y < n)
  BY <1>2 DEF OpToRel
<1> QED BY <1>3

LEMMA MinIsLeast ==
  ASSUME NEW S \in SUBSET Nat, S # {}
  PROVE  Min(S) \in S /\ \A m \in S : Min(S) <= m
  BY NatLeast DEF Min

\* A set with 0 and the successor of each natural it has, has them all.
LEMMA Induction ==
  ASSUME NEW S, 0 \in S, \A n \in Nat : n \in S => n + 1 \in S
  PROVE  Nat \subseteq S
<1> SUFFICES ASSUME Nat \ S # {} PROVE FALSE
  OBVIOUS
<1>1. PICK n \in Nat \ S : \A m \in Nat \ S : n <= m
  BY NatLeast
<1>2. n - 1 \in Nat
  BY <1>1
<1>3. n - 1 \in S
  BY <1>1, <1>2
<1>4. (n - 1) + 1 \in S
  BY <1>2, <1>3
<1> QED BY <1>1, <1>4

-----------------------------------------------------------------------------
(* Sorting.                                                                 *)

\* A nonempty vector has a greatest number.
LEMMA HasGreatest ==
  ASSUME NEW w \in Seq(Nat), w # <<>>
  PROVE  \E x \in Range(w) : \A j \in 1 .. Len(w) : w[j] <= x
<1> DEFINE Top(n) == \E x \in Range(w) : \A j \in 1 .. n : w[j] <= x
           Good == {n \in Nat : n <= Len(w) => Top(n)}
<1>1. Len(w) \in Nat \ {0} /\ \A j \in 1 .. Len(w) : w[j] \in Nat /\ w[j] \in Range(w)
  BY DEF Range
<1>2. 0 \in Good
  <2>1. 1 \in 1 .. Len(w) BY <1>1
  <2> QED BY <1>1, <2>1
<1>3. ASSUME NEW n \in Nat, n \in Good PROVE n + 1 \in Good
  <2> SUFFICES ASSUME n + 1 <= Len(w) PROVE Top(n + 1) OBVIOUS
  <2>1. PICK x \in Range(w) : \A j \in 1 .. n : w[j] <= x BY <1>1, <1>3
  <2>2. n + 1 \in 1 .. Len(w) /\ x \in Nat BY <1>1 DEF Range
  <2>3. \A j \in 1 .. n + 1 : j \in 1 .. n \/ j = n + 1 OBVIOUS
  <2>4. CASE w[n + 1] <= x BY <2>1, <2>2, <2>3, <2>4
  <2>5. CASE ~ (w[n + 1] <= x)
    <3>1. \A j \in 1 .. n + 1 : w[j] <= w[n + 1]
      BY <1>1, <2>1, <2>2, <2>3, <2>5
    <3> QED BY <1>1, <2>2, <3>1
  <2> QED BY <2>4, <2>5
<1>4. Len(w) \in Good
  <2> HIDE DEF Good
  <2> QED BY <1>1, <1>2, <1>3, Induction
<1> QED BY <1>1, <1>4

\* The sorted vector has the length and the numbers of the vector, ascending.
LEMMA SortedSorts ==
  ASSUME NEW w \in Seq(Nat)
  PROVE  /\ Sorted(w) \in Seq(Nat) /\ Len(Sorted(w)) = Len(w)
         /\ Range(Sorted(w)) = Range(w)
         /\ \A i, j \in 1 .. Len(w) : i <= j => Sorted(w)[i] <= Sorted(w)[j]
<1> DEFINE D == 1 .. Len(w)
           UpTo(x) == {j \in D : w[j] <= x}
           From(i) == {x \in Range(w) : Cardinality(UpTo(x)) >= i}
<1>1. Len(w) \in Nat /\ DOMAIN w = D /\ Range(w) \subseteq Nat
      /\ \A j \in D : w[j] \in Nat /\ w[j] \in Range(w)
  BY DEF Range
<1>2. IsFiniteSet(D) /\ Cardinality(D) = Len(w)
  BY <1>1, FS_Interval
<1>3. \A x : IsFiniteSet(UpTo(x)) /\ Cardinality(UpTo(x)) \in Nat
             /\ Cardinality(UpTo(x)) <= Len(w)
  BY <1>2, FS_Subset, FS_CardinalityType
<1>4. Sorted(w) = [i \in D |-> Min(From(i))]
  BY <1>1 DEF Sorted
<1>5. \A i \in D : From(i) \subseteq Nat /\ From(i) # {}
  <2> TAKE i \in D
  <2>1. w # <<>> BY <1>1
  <2>2. PICK x \in Range(w) : \A j \in D : w[j] <= x BY <2>1, HasGreatest
  <2>3. UpTo(x) = D BY <2>2
  <2> HIDE DEF UpTo
  <2>4. Cardinality(UpTo(x)) = Len(w) BY <1>2, <2>3
  <2>a. Cardinality(UpTo(x)) >= i BY <1>1, <2>4
  <2>5. x \in From(i) BY <2>a
  <2> QED BY <1>1, <2>5
<1> HIDE DEF UpTo
<1>6. \A i \in D : Min(From(i)) \in From(i) /\ \A x \in From(i) : Min(From(i)) <= x
  BY <1>5, MinIsLeast
<1>7. \A i \in D : Min(From(i)) \in Nat /\ Min(From(i)) \in Range(w)
  BY <1>1, <1>6
<1>8. Sorted(w) \in Seq(Nat) /\ Len(Sorted(w)) = Len(w)
  <2>1. Sorted(w) \in [1 .. Len(w) -> Nat] BY <1>4, <1>7
  <2> QED BY <1>1, <2>1
<1>9. ASSUME NEW i \in D, NEW j \in D, i <= j PROVE Sorted(w)[i] <= Sorted(w)[j]
  <2>1. Min(From(j)) \in From(j) /\ j \in Int /\ i \in Int BY <1>1, <1>6
  <2>2. Min(From(j)) \in From(i) BY <1>3, <1>9, <2>1
  <2>3. Min(From(i)) <= Min(From(j)) BY <1>6, <2>2
  <2> HIDE DEF From
  <2> QED BY <1>4, <2>3
<1>10. ASSUME NEW x \in Range(w) PROVE \E i \in D : Sorted(w)[i] = x
  <2> DEFINE i == Cardinality(UpTo(x))
  <2>0. x \in Nat BY <1>1
  <2>1. PICK k \in D : w[k] = x BY <1>1 DEF Range
  <2>2. k \in UpTo(x) BY <2>0, <2>1 DEF UpTo
  <2>3. i # 0 BY <1>3, <2>2, FS_EmptySet
  <2>4. i \in D BY <1>1, <1>3, <2>3
  <2>5. x \in From(i) BY <1>3
  <2>6. ASSUME NEW y \in From(i), y < x PROVE FALSE
    <3>1. y \in Nat BY <1>1
    <3>2. UpTo(y) \subseteq UpTo(x) /\ k \notin UpTo(y)
      BY <1>1, <2>0, <2>1, <2>6, <3>1 DEF UpTo
    <3>3. UpTo(y) # UpTo(x) BY <2>2, <3>2
    <3>4. Cardinality(UpTo(y)) < Cardinality(UpTo(x))
      BY <1>3, <3>2, <3>3, FS_Subset
    <3> QED BY <1>3, <3>4
  <2> HIDE DEF i
  <2>7. Min(From(i)) \in From(i) /\ Min(From(i)) <= x /\ Min(From(i)) \in Nat
    BY <1>6, <1>7, <2>4, <2>5
  <2>8. Min(From(i)) = x BY <2>0, <2>6, <2>7
  <2> HIDE DEF From
  <2> QED BY <1>4, <2>4, <2>8
<1>11. Range(Sorted(w)) = Range(w)
  <2>1. DOMAIN Sorted(w) = D BY <1>4
  <2>2. \A i \in D : Sorted(w)[i] \in Range(w)
    <3> HIDE DEF From
    <3> QED BY <1>4, <1>7
  <2>3. Range(Sorted(w)) \subseteq Range(w) BY <2>1, <2>2 DEF Range
  <2>4. Range(w) \subseteq Range(Sorted(w))
    <3> SUFFICES ASSUME NEW x \in Range(w) PROVE x \in Range(Sorted(w)) OBVIOUS
    <3>1. PICK i \in D : Sorted(w)[i] = x BY <1>10
    <3> QED BY <2>1, <3>1 DEF Range
  <2> QED BY <2>3, <2>4
<1> QED BY <1>8, <1>9, <1>11
-----------------------------------------------------------------------------
(* Going through the vector.                                                *)

LEMMA FcnIsSeq ==
  ASSUME NEW S, NEW n \in Nat, NEW f \in [1 .. n -> S]
  PROVE  f \in Seq(S) /\ Len(f) = n
<1>1. f \in Seq(S) BY SeqDef
<1> QED BY <1>1

LEMMA RangeOfAppend ==
  ASSUME NEW k \in Seq(Nat), NEW s \in Nat
  PROVE  Append(k, s) \in Seq(Nat) /\ Range(Append(k, s)) = Range(k) \cup {s}
<1> DEFINE a == Append(k, s)
<1>1. /\ a \in Seq(Nat) /\ Len(k) \in Nat
      /\ DOMAIN a = 1 .. Len(k) + 1 /\ DOMAIN k = 1 .. Len(k)
      /\ \A i \in 1 .. Len(k) : a[i] = k[i]
      /\ a[Len(k) + 1] = s
  OBVIOUS
<1> HIDE DEF a
<1>2. Range(a) \subseteq Range(k) \cup {s}
  <2> SUFFICES ASSUME NEW i \in 1 .. Len(k) + 1 PROVE a[i] \in Range(k) \cup {s}
    BY <1>1 DEF Range
  <2>1. i \in 1 .. Len(k) \/ i = Len(k) + 1 BY <1>1
  <2> QED BY <1>1, <2>1 DEF Range
<1>3. Range(k) \cup {s} \subseteq Range(a)
  <2>1. ASSUME NEW i \in 1 .. Len(k) PROVE k[i] \in Range(a)
    <3>1. i \in DOMAIN a BY <1>1
    <3> QED BY <1>1, <3>1 DEF Range
  <2>2. s \in Range(a)
    <3>1. Len(k) + 1 \in DOMAIN a BY <1>1
    <3> QED BY <1>1, <3>1 DEF Range
  <2> QED BY <1>1, <2>1, <2>2 DEF Range
<1> QED BY <1>1, <1>2, <1>3 DEF a

\* One message of the vector: dropped and counted, or kept.
Passed(a, s) == IF s = a.expected THEN [expected |-> s + 1, kept |-> a.kept]
                                  ELSE [expected |-> a.expected, kept |-> Append(a.kept, s)]

\* Retain is the function its definition says it is.
LEMMA RetainIsDefined ==
  ASSUME NEW w \in Seq(Nat), NEW e
  PROVE  /\ Retain(e, w)[0] = [expected |-> e, kept |-> <<>>]
         /\ \A n \in Nat : n + 1 <= Len(w) =>
              Retain(e, w)[n + 1] = Passed(Retain(e, w)[n], w[n + 1])
<1> DEFINE Go(K, i) == IF i = 0 THEN [expected |-> e, kept |-> <<>>] ELSE Passed(K[i - 1], w[i])
           Is(K, n) == K = [i \in 0 .. n |-> Go(K, i)]
           Good == {n \in Nat : \E K : Is(K, n)}
<1> HIDE DEF Passed
<1>1. 0 \in Good
  <2> Is([i \in {0} |-> [expected |-> e, kept |-> <<>>]], 0) OBVIOUS
  <2> QED OBVIOUS
<1>2. ASSUME NEW n \in Nat, n \in Good PROVE n + 1 \in Good
  <2>1. PICK K : Is(K, n)
    BY <1>2
  <2> DEFINE J == [i \in 0 .. n + 1 |-> Go(K, i)]
  <2>2. ASSUME NEW i \in 0 .. n + 1 PROVE Go(J, i) = Go(K, i)
    <3>1. CASE i = 0 BY <3>1
    <3>2. CASE i # 0
      <4> HIDE DEF Go
      <4>1. i - 1 \in 0 .. n /\ i - 1 \in 0 .. n + 1 BY <3>2, <2>2
      <4>2. K[i - 1] = Go(K, i - 1) BY <4>1, <2>1
      <4>3. J[i - 1] = Go(K, i - 1) BY <4>1
      <4> HIDE DEF J
      <4> QED BY <4>2, <4>3 DEF Go
    <3> QED BY <3>1, <3>2
  <2> HIDE DEF Go
  <2>3. Is(J, n + 1)
    BY <2>2
  <2> HIDE DEF Is, J
  <2> QED BY <2>3
<1> HIDE DEF Go, Is
<1>3. Len(w) \in Good
  <2> HIDE DEF Good
  <2> QED BY <1>1, <1>2, Induction
<1>4. Is(CHOOSE K : Is(K, Len(w)), Len(w))
  BY <1>3, Zenon
<1>5. Retain(e, w) = CHOOSE K : Is(K, Len(w))
  BY Zenon DEF Retain, Go, Is, Passed
<1>6. Is(Retain(e, w), Len(w))
  BY <1>4, <1>5, Zenon
<1> DEFINE R == Retain(e, w)
<1> HIDE DEF R
<1>7. R = [i \in 0 .. Len(w) |-> Go(R, i)]
  BY <1>6 DEF Is, R
<1>8. \A i \in 0 .. Len(w) : R[i] = Go(R, i)
  BY <1>7
<1>9. R[0] = [expected |-> e, kept |-> <<>>]
  <2>1. 0 \in 0 .. Len(w) OBVIOUS
  <2> QED BY <1>8, <2>1 DEF Go
<1>10. ASSUME NEW n \in Nat, n + 1 <= Len(w) PROVE R[n + 1] = Passed(R[n], w[n + 1])
  <2>1. n + 1 \in 0 .. Len(w) /\ n + 1 # 0 /\ (n + 1) - 1 = n BY <1>10
  <2> QED BY <1>8, <2>1 DEF Go
<1> QED BY <1>9, <1>10 DEF R

\* What going through an ascending vector leaves: the counter stops at the first
\* number from e on that is not in it, what it moved over was there, and what is
\* not behind it is kept.
LEMMA RetainDelivers ==
  ASSUME NEW w \in Seq(Nat), NEW e \in Nat,
         \A i, j \in 1 .. Len(w) : i <= j => w[i] <= w[j]
  PROVE  LET d == Retain(e, w)[Len(w)] IN
         /\ d.expected \in Nat /\ d.kept \in Seq(Nat) /\ e <= d.expected
         /\ \A s \in Range(w) : s < d.expected \/ s \in Range(d.kept)
         /\ \A s \in e .. d.expected - 1 : s \in Range(w)
         /\ Range(d.kept) \subseteq Range(w)
         /\ d.expected \notin Range(w)
<1> DEFINE R(n) == Retain(e, w)[n]
           Fine(n) ==
             /\ R(n).expected \in Nat /\ R(n).kept \in Seq(Nat) /\ e <= R(n).expected
             /\ \A i \in 1 .. n : w[i] < R(n).expected \/ w[i] \in Range(R(n).kept)
             /\ \A s \in e .. R(n).expected - 1 : \E i \in 1 .. n : w[i] = s
             /\ \A s \in Range(R(n).kept) : \E i \in 1 .. n : w[i] = s
             /\ \A i \in 1 .. n : w[i] # R(n).expected
           Good == {n \in Nat : n <= Len(w) => Fine(n)}
<1>1. Len(w) \in Nat /\ \A i \in 1 .. Len(w) : w[i] \in Nat
  OBVIOUS
<1>2. R(0) = [expected |-> e, kept |-> <<>>] /\
      \A n \in Nat : n + 1 <= Len(w) => R(n + 1) = Passed(R(n), w[n + 1])
  BY RetainIsDefined
<1> HIDE DEF R
<1>3. 0 \in Good
  <2>1. R(0).expected = e /\ R(0).kept = <<>> BY <1>2
  <2>2. Range(R(0).kept) = {} BY <2>1 DEF Range
  <2>3. <<>> \in Seq(Nat) /\ 1 .. 0 = {} /\ e .. e - 1 = {} OBVIOUS
  <2>4. \A i \in 1 .. 0 : FALSE OBVIOUS
  <2>5. \A t \in e .. e - 1 : FALSE OBVIOUS
  <2>6. /\ R(0).expected \in Nat /\ R(0).kept \in Seq(Nat) /\ e <= R(0).expected
    <3>1. e \in Nat /\ e <= e OBVIOUS
    <3>2. R(0).kept \in Seq(Nat) BY <2>1, <2>3
    <3> QED BY <2>1, <3>1, <3>2
  <2>7. Fine(0) BY <2>1, <2>2, <2>4, <2>5, <2>6
  <2> QED BY <2>7
<1>4. ASSUME NEW n \in Nat, n \in Good PROVE n + 1 \in Good
  <2> SUFFICES ASSUME n + 1 <= Len(w) PROVE Fine(n + 1)
    OBVIOUS
  <2> DEFINE a == R(n).expected
             k == R(n).kept
             s == w[n + 1]
  <2>1. Fine(n) BY <1>1, <1>4
  <2>2. n + 1 \in 1 .. Len(w) /\ s \in Nat /\ \A i \in 1 .. n : w[i] \in Nat /\ w[i] <= s
    BY <1>1
  <2>3. R(n + 1) = Passed(R(n), s) BY <1>2
  <2>4. \A i \in 1 .. n + 1 : i \in 1 .. n \/ i = n + 1 OBVIOUS
  <2>5. /\ a \in Nat /\ k \in Seq(Nat) /\ e <= a
        /\ \A i \in 1 .. n : w[i] < a \/ w[i] \in Range(k)
        /\ \A t \in e .. a - 1 : \E i \in 1 .. n : w[i] = t
        /\ \A t \in Range(k) : \E i \in 1 .. n : w[i] = t
        /\ \A i \in 1 .. n : w[i] # a
    BY <2>1
  <2>6. CASE s = a
    <3>1. R(n + 1) = [expected |-> a + 1, kept |-> k] BY <2>3, <2>6 DEF Passed
    <3>2. R(n + 1).expected = a + 1 /\ R(n + 1).kept = k BY <3>1
    <3> HIDE DEF a, k, s
    <3>3. \A i \in 1 .. n + 1 : w[i] < a + 1 \/ w[i] \in Range(k)
      BY <2>2, <2>4, <2>5, <2>6 DEF s
    <3>4. \A t \in e .. (a + 1) - 1 : \E i \in 1 .. n + 1 : w[i] = t
      <4> TAKE t \in e .. (a + 1) - 1
      <4>1. CASE t = a BY <2>6, <4>1 DEF s
      <4>2. CASE t # a
        <5>1. t \in e .. a - 1 BY <2>5, <4>2
        <5> QED BY <2>5, <5>1
      <4> QED BY <4>1, <4>2
    <3>5. \A i \in 1 .. n + 1 : w[i] # a + 1 BY <2>2, <2>4, <2>5, <2>6 DEF s
    <3>6. \A t \in Range(k) : \E i \in 1 .. n + 1 : w[i] = t BY <2>5
    <3>7. a + 1 \in Nat /\ e <= a + 1 BY <2>5
    <3> QED BY <2>5, <3>1, <3>2, <3>3, <3>4, <3>5, <3>6, <3>7
  <2>7. CASE s # a
    <3>1. R(n + 1) = [expected |-> a, kept |-> Append(k, s)] BY <2>3, <2>7 DEF Passed
    <3>2. R(n + 1).expected = a /\ R(n + 1).kept = Append(k, s) BY <3>1
    <3> HIDE DEF a, k, s
    <3>3. Append(k, s) \in Seq(Nat) /\ Range(Append(k, s)) = Range(k) \cup {s}
      BY <2>2, <2>5, RangeOfAppend
    <3>4. \A i \in 1 .. n + 1 : w[i] < a \/ w[i] \in Range(k) \cup {s}
      BY <2>4, <2>5 DEF s
    <3>5. \A t \in e .. a - 1 : \E i \in 1 .. n + 1 : w[i] = t BY <2>5
    <3>6. \A t \in Range(k) \cup {s} : \E i \in 1 .. n + 1 : w[i] = t BY <2>5 DEF s
    <3>7. \A i \in 1 .. n + 1 : w[i] # a BY <2>4, <2>5, <2>7 DEF s
    <3> QED BY <2>5, <3>1, <3>2, <3>3, <3>4, <3>5, <3>6, <3>7
  <2> QED BY <2>6, <2>7
<1> HIDE DEF Fine
<1>5. Len(w) \in Good
  <2> HIDE DEF Good
  <2> QED BY <1>1, <1>3, <1>4, Induction
<1>6. Fine(Len(w)) BY <1>1, <1>5
<1>7. \A s : s \in Range(w) <=> \E i \in 1 .. Len(w) : w[i] = s
  BY DEF Range
<1> QED BY <1>6, <1>7 DEF Fine, R
-----------------------------------------------------------------------------
(* The invariants.                                                          *)

N == 0 .. Number - 1

\* Every variable has its type.
TypeOK ==
  /\ expected \in 0 .. Number /\ pending \in Seq(N)
  /\ arrived \subseteq N /\ accepted \in Seq(N) /\ allocated \subseteq N

\* What arrived is behind the counter or waits.
Kept == \A s \in arrived : s < expected \/ s \in Range(pending)

\* Each number the counter has passed was accepted or handed out.
Accounted == \A n \in 0 .. expected - 1 : n \in Range(accepted) \cup allocated

\* What waits has arrived, and what is behind the counter is just what was
\* accepted or handed out.
Inv ==
  /\ TypeOK
  /\ Kept
  /\ Accounted
  /\ Range(pending) \subseteq arrived
  /\ \A i \in 1 .. Len(accepted) : accepted[i] < expected
  /\ \A n \in allocated : n < expected
  /\ AcceptedInOrder

\* What deliver_pending leaves of what was waiting.
LEMMA DeliverPendingDelivers ==
  ASSUME NEW w \in Seq(N), NEW s \in N
  PROVE  LET d == DeliverPending(s + 1, w) IN
         /\ d.expected \in s + 1 .. Number /\ d.kept \in Seq(N)
         /\ \A t \in Range(w) : t < d.expected \/ t \in Range(d.kept)
         /\ \A t \in s + 1 .. d.expected - 1 : t \in Range(w)
         /\ Range(d.kept) \subseteq Range(w)
         /\ d.expected \notin Range(w)
<1> DEFINE d == DeliverPending(s + 1, w)
<1>1. w \in Seq(Nat) /\ s + 1 \in Nat /\ Range(w) \subseteq N /\ Number \in Nat
  <2>1. N \subseteq Nat BY OrderAssumption DEF N
  <2> QED BY <2>1, OrderAssumption DEF N, Range
<1>2. /\ Sorted(w) \in Seq(Nat) /\ Len(Sorted(w)) = Len(w) /\ Range(Sorted(w)) = Range(w)
      /\ \A i, j \in 1 .. Len(Sorted(w)) : i <= j => Sorted(w)[i] <= Sorted(w)[j]
  BY <1>1, SortedSorts
<1>3. d = Retain(s + 1, Sorted(w))[Len(Sorted(w))]
  BY <1>2 DEF DeliverPending
<1> HIDE DEF d
<1>4. /\ d.expected \in Nat /\ d.kept \in Seq(Nat) /\ s + 1 <= d.expected
      /\ \A t \in Range(w) : t < d.expected \/ t \in Range(d.kept)
      /\ \A t \in s + 1 .. d.expected - 1 : t \in Range(w)
      /\ Range(d.kept) \subseteq Range(w)
      /\ d.expected \notin Range(w)
  BY <1>1, <1>2, <1>3, RetainDelivers
<1>5. d.expected <= Number
  <2>1. CASE d.expected = s + 1 BY <1>1, <2>1 DEF N
  <2>2. CASE d.expected # s + 1
    <3>1. d.expected - 1 \in s + 1 .. d.expected - 1 BY <1>1, <1>4, <2>2
    <3>2. d.expected - 1 \in N BY <1>1, <1>4, <3>1
    <3> QED BY <1>1, <1>4, <3>2 DEF N
  <2> QED BY <2>1, <2>2
<1>6. d.kept \in Seq(N)
  <2> DEFINE k == d.kept
  <2> HIDE DEF k
  <2>0. k \in Seq(Nat) /\ Range(k) \subseteq N BY <1>1, <1>4 DEF k
  <2>1. \A i \in 1 .. Len(k) : k[i] \in N BY <2>0 DEF Range
  <2>2. k \in [1 .. Len(k) -> N] /\ Len(k) \in Nat BY <2>0, <2>1
  <2>3. k \in Seq(N) BY <2>2, FcnIsSeq
  <2> QED BY <2>3 DEF k
<1>7. d.expected \in s + 1 .. Number BY <1>1, <1>4, <1>5
<1> QED BY <1>4, <1>6, <1>7 DEF d

LEMMA InvInit == Init => Inv
<1> SUFFICES ASSUME Init PROVE Inv
  OBVIOUS
<1>1. Range(pending) = {} /\ Len(accepted) = 0 BY DEF Init, Range
<1>2. TypeOK BY OrderAssumption DEF Init, TypeOK
<1> QED BY <1>1, <1>2 DEF Init, Inv, Kept, Accounted, AcceptedInOrder

\* The run of numbers an arrival in order adds to what was accepted.
LEMMA AcceptedGrows ==
  ASSUME Inv, NEW s \in N, s = expected, NEW e \in s + 1 .. Number,
         accepted' = accepted \o [i \in 1 .. e - s |-> s + i - 1],
         expected' = e, allocated' = allocated
  PROVE  /\ accepted' \in Seq(N)
         /\ \A i \in 1 .. Len(accepted') : accepted'[i] < e
         /\ AcceptedInOrder'
         /\ Accounted'
<1> DEFINE f == [i \in 1 .. e - s |-> s + i - 1]
           a == accepted
           m == e - s
<1>1. s \in Nat /\ e \in Nat /\ m \in Nat /\ Number \in Nat /\ e <= Number /\ m = e - s
  BY OrderAssumption DEF N
<1>2. /\ f \in Seq(N) /\ Len(f) = m /\ \A i \in 1 .. m : f[i] = s + i - 1
  <2>1. \A i \in 1 .. m : s + i - 1 \in N BY <1>1 DEF N
  <2>2. f \in [1 .. m -> N] BY <2>1
  <2> HIDE DEF f, m
  <2>3. f \in Seq(N) /\ Len(f) = m BY <1>1, <2>2, FcnIsSeq
  <2> QED BY <2>3 DEF f, m
<1>3. a \in Seq(N) /\ Len(a) \in Nat BY DEF Inv, TypeOK
<1> HIDE DEF f, m
<1>4. accepted' = a \o f BY DEF f, m
<1>5. /\ accepted' \in Seq(N) /\ Len(accepted') = Len(a) + m
      /\ \A i \in 1 .. Len(a) : accepted'[i] = a[i]
      /\ \A i \in Len(a) + 1 .. Len(a) + m : accepted'[i] = f[i - Len(a)]
  <2>1. /\ accepted' \in Seq(N) /\ Len(accepted') = Len(a) + m
        /\ \A i \in 1 .. Len(a) + m :
             accepted'[i] = IF i <= Len(a) THEN a[i] ELSE f[i - Len(a)]
    <3> DEFINE c == a \o f
    <3>1. /\ c \in Seq(N) /\ Len(c) = Len(a) + Len(f)
          /\ \A i \in 1 .. Len(a) + Len(f) : c[i] = IF i <= Len(a) THEN a[i] ELSE f[i - Len(a)]
      BY <1>2, <1>3, ConcatProperties
    <3> HIDE DEF c
    <3>2. accepted' = c BY <1>4 DEF c
    <3> QED BY <1>2, <3>1, <3>2
  <2> QED BY <1>1, <1>3, <2>1
<1>6. \A i \in 1 .. Len(a) : accepted'[i] \in Nat /\ accepted'[i] < s /\ accepted'[i] \notin allocated
  <2>1. \A i \in 1 .. Len(a) : a[i] \in N BY <1>3
  <2> QED BY <1>1, <1>5, <2>1 DEF Inv, AcceptedInOrder, N
<1>7. ASSUME NEW i \in Len(a) + 1 .. Len(a) + m
      PROVE  /\ accepted'[i] = s + (i - Len(a)) - 1
             /\ accepted'[i] >= s /\ accepted'[i] < e /\ accepted'[i] \notin allocated
  <2>1. i - Len(a) \in 1 .. m BY <1>1, <1>3
  <2>2. accepted'[i] = s + (i - Len(a)) - 1 BY <1>2, <1>5, <2>1
  <2>3. accepted'[i] >= s /\ accepted'[i] < e BY <1>1, <1>3, <2>1, <2>2
  <2>4. \A n \in allocated : n < s /\ n \in Nat
    BY <1>1 DEF Inv, TypeOK, N
  <2> QED BY <1>1, <2>1, <2>2, <2>3, <2>4
<1>8. \A i \in 1 .. Len(accepted') : i \in 1 .. Len(a) \/ i \in Len(a) + 1 .. Len(a) + m
  BY <1>1, <1>3, <1>5
<1>9. \A i \in 1 .. Len(accepted') : accepted'[i] < e /\ accepted'[i] \notin allocated'
  <2> TAKE i \in 1 .. Len(accepted')
  <2>1. CASE i \in 1 .. Len(a) BY <1>1, <1>6, <2>1
  <2>2. CASE i \in Len(a) + 1 .. Len(a) + m BY <1>7, <2>2
  <2> QED BY <1>8, <2>1, <2>2
<1>10. ASSUME NEW i \in 1 .. Len(accepted'), NEW j \in 1 .. Len(accepted'), i < j
       PROVE  accepted'[i] < accepted'[j]
  <2>1. CASE i \in 1 .. Len(a) /\ j \in 1 .. Len(a)
    BY <1>5, <1>10, <2>1 DEF Inv, AcceptedInOrder
  <2>2. CASE i \in 1 .. Len(a) /\ j \in Len(a) + 1 .. Len(a) + m
    <3>1. accepted'[i] < s /\ accepted'[i] \in Nat BY <1>6, <2>2
    <3>2. accepted'[j] = s + (j - Len(a)) - 1 /\ accepted'[j] >= s BY <1>7, <2>2
    <3> QED BY <1>1, <1>3, <3>1, <3>2, <2>2
  <2>3. CASE i \in Len(a) + 1 .. Len(a) + m /\ j \in Len(a) + 1 .. Len(a) + m
    <3>1. accepted'[i] = s + (i - Len(a)) - 1 /\ accepted'[j] = s + (j - Len(a)) - 1
      BY <1>7, <2>3
    <3> QED BY <1>1, <1>3, <1>10, <2>3, <3>1
  <2>4. ~ (i \in Len(a) + 1 .. Len(a) + m /\ j \in 1 .. Len(a)) BY <1>3, <1>10
  <2> QED BY <1>8, <2>1, <2>2, <2>3, <2>4
<1>11. ASSUME NEW n \in 0 .. e - 1 PROVE n \in Range(accepted') \cup allocated
  <2>1. DOMAIN accepted' = 1 .. Len(a) + m
    <3>1. PICK c : c = accepted' OBVIOUS
    <3>2. c \in Seq(N) /\ Len(c) = Len(a) + m BY <1>5, <3>1
    <3>3. DOMAIN c = 1 .. Len(c) BY <3>2
    <3> QED BY <3>1, <3>2, <3>3
  <2>2. CASE n < s
    <3>1. n \in Range(a) \cup allocated BY <1>1, <2>2 DEF Inv, Accounted
    <3>2. ASSUME n \in Range(a) PROVE n \in Range(accepted')
      <4>1. PICK i \in 1 .. Len(a) : a[i] = n BY <1>3, <3>2 DEF Range
      <4>2. i \in 1 .. Len(a) + m /\ accepted'[i] = n BY <1>1, <1>3, <1>5, <4>1
      <4> QED BY <2>1, <4>2 DEF Range
    <3> QED BY <3>1, <3>2
  <2>3. CASE ~ (n < s)
    <3>1. PICK i : i = Len(a) + (n - s) + 1 OBVIOUS
    <3>2. i \in Len(a) + 1 .. Len(a) + m BY <1>1, <1>3, <2>3, <3>1
    <3>3. accepted'[i] = n BY <1>1, <1>3, <1>7, <3>1, <3>2
    <3>4. i \in DOMAIN accepted' BY <1>1, <1>3, <2>1, <3>2
    <3> QED BY <3>3, <3>4 DEF Range
  <2> QED BY <2>2, <2>3
<1>12. Accounted' BY <1>11 DEF Accounted
<1> QED BY <1>5, <1>9, <1>10, <1>12 DEF AcceptedInOrder

LEMMA InOrderKeepsInv ==
  ASSUME Inv, NEW s \in N, RegisterInOrder(s)
  PROVE  Inv'
<1> DEFINE d == DeliverPending(s + 1, pending)
<1>1. pending \in Seq(N) BY DEF Inv, TypeOK
<1>2. /\ d.expected \in s + 1 .. Number /\ d.kept \in Seq(N)
      /\ \A t \in Range(pending) : t < d.expected \/ t \in Range(d.kept)
      /\ \A t \in s + 1 .. d.expected - 1 : t \in Range(pending)
      /\ Range(d.kept) \subseteq Range(pending)
      /\ d.expected \notin Range(pending)
  BY <1>1, DeliverPendingDelivers
<1>3. /\ s = expected /\ expected' = d.expected /\ pending' = d.kept
      /\ accepted' = accepted \o [i \in 1 .. d.expected - s |-> s + i - 1]
      /\ arrived' = arrived \cup {s} /\ allocated' = allocated
  BY DEF RegisterInOrder
<1> HIDE DEF d
<1>4. s \in Nat /\ Number \in Nat /\ d.expected \in Nat /\ s < d.expected /\ d.expected <= Number
  BY <1>2, OrderAssumption DEF N
<1>5. /\ accepted' \in Seq(N) /\ AcceptedInOrder' /\ Accounted'
      /\ \A i \in 1 .. Len(accepted') : accepted'[i] < expected'
  BY <1>2, <1>3, AcceptedGrows
<1>6. TypeOK' BY <1>2, <1>3, <1>4, <1>5 DEF Inv, TypeOK
<1>7. Kept'
  <2> SUFFICES ASSUME NEW t \in arrived' PROVE t < d.expected \/ t \in Range(d.kept)
    BY <1>3 DEF Kept
  <2>1. t \in arrived \/ t = s BY <1>3
  <2>2. t \in Nat
    <3>1. arrived \subseteq N BY DEF Inv, TypeOK
    <3>2. N \subseteq Nat BY <1>4 DEF N
    <3> QED BY <1>4, <2>1, <3>1, <3>2
  <2>3. t < s \/ t \in Range(pending) \/ t = s BY <1>3, <2>1 DEF Inv, Kept
  <2> QED BY <1>2, <1>4, <2>2, <2>3
<1>8. Range(pending') \subseteq arrived' BY <1>2, <1>3 DEF Inv
<1>9. \A n \in allocated' : n < expected'
  <2>1. \A n \in allocated : n \in Nat BY DEF Inv, TypeOK, N
  <2> QED BY <1>3, <1>4, <2>1 DEF Inv
<1> QED BY <1>5, <1>6, <1>7, <1>8, <1>9 DEF Inv

LEMMA AheadKeepsInv ==
  ASSUME Inv, NEW s \in N, RegisterAhead(s)
  PROVE  Inv'
<1>1. /\ pending' = Append(pending, s) /\ arrived' = arrived \cup {s}
      /\ UNCHANGED <<expected, accepted, allocated>>
  BY DEF RegisterAhead
<1>2. pending \in Seq(N) /\ pending \in Seq(Nat) /\ s \in Nat
  <2>1. N \subseteq Nat BY OrderAssumption DEF N
  <2>2. pending \in Seq(N) BY DEF Inv, TypeOK
  <2> QED BY <2>1, <2>2, SeqMonotonic
<1>3. pending' \in Seq(N) BY <1>1, <1>2
<1>4. Range(pending') = Range(pending) \cup {s} BY <1>1, <1>2, RangeOfAppend
<1> QED BY <1>1, <1>3, <1>4 DEF Inv, TypeOK, Kept, Accounted, AcceptedInOrder

LEMMA InvNext == Inv /\ [Next]_vars => Inv'
<1> SUFFICES ASSUME Inv, [Next]_vars PROVE Inv'
  OBVIOUS
<1>1. CASE UNCHANGED vars
  BY <1>1 DEF vars, Inv, TypeOK, Kept, Accounted, AcceptedInOrder
<1>2. ASSUME NEW s \in N, RegisterBehind(s) PROVE Inv'
  BY <1>2 DEF RegisterBehind, Inv, TypeOK, Kept, Accounted, AcceptedInOrder
<1>3. CASE NextSequence
  <2>1. /\ expected' = expected + 1 /\ allocated' = allocated \cup {expected}
        /\ UNCHANGED <<pending, arrived, accepted>> /\ expected < Number
    BY <1>3 DEF NextSequence
  <2>2. expected \in Nat /\ Number \in Nat /\ arrived \subseteq Nat /\ allocated \subseteq Nat
        /\ \A i \in 1 .. Len(accepted) : accepted[i] \in Nat
    BY OrderAssumption DEF Inv, TypeOK, N
  <2>3. TypeOK' BY <2>1, <2>2 DEF Inv, TypeOK, N
  <2>4. Kept' BY <2>1, <2>2 DEF Inv, Kept
  <2>8. Accounted' BY <2>1, <2>2 DEF Inv, Accounted
  <2>5. \A n \in allocated' : n < expected' BY <2>1, <2>2 DEF Inv
  <2>6. \A i \in 1 .. Len(accepted') : accepted'[i] < expected' BY <2>1, <2>2 DEF Inv
  <2>7. AcceptedInOrder'
    <3>1. \A i \in 1 .. Len(accepted) : accepted[i] # expected BY <2>2 DEF Inv
    <3> QED BY <2>1, <3>1 DEF Inv, AcceptedInOrder
  <2> QED BY <2>1, <2>3, <2>4, <2>5, <2>6, <2>7, <2>8 DEF Inv
<1>4. ASSUME NEW s \in N, RegisterInOrder(s) \/ RegisterAhead(s) PROVE Inv'
  BY <1>4, InOrderKeepsInv, AheadKeepsInv
<1> QED BY <1>1, <1>2, <1>3, <1>4 DEF Next, Receive, N

\* The inductive invariant of register_message and next_sequence: the numbers
\* behind the counter are the ones accepted or handed out, and what arrived is
\* behind the counter or waits.
THEOREM InvAlways == Spec => []Inv
  BY InvInit, InvNext, PTL DEF Spec

\* NothingIsLost: whatever order and duplicates register_message is called with,
\* what arrived was delivered or waits, unless next_sequence handed out its
\* number.
THEOREM NeverLost == Spec => []NothingIsLost
<1>1. ASSUME Inv PROVE NothingIsLost
  <2> SUFFICES ASSUME NEW s \in arrived, s \notin allocated
               PROVE  s \in Range(accepted) \/ s \in Range(pending)
    BY DEF NothingIsLost
  <2>1. s \in Nat /\ expected \in Nat
    BY <1>1, OrderAssumption DEF Inv, TypeOK, N
  <2>2. s < expected => s \in 0 .. expected - 1
    BY <2>1
  <2> QED BY <1>1, <2>2 DEF Inv, Kept, Accounted
<1> QED BY InvAlways, <1>1, PTL

\* AcceptedInOrder: messages are accepted in the order of their numbers, none
\* twice, and none whose number next_sequence handed out.
THEOREM AlwaysAcceptedInOrder == Spec => []AcceptedInOrder
<1>1. Inv => AcceptedInOrder BY DEF Inv
<1> QED BY InvAlways, <1>1, PTL

-----------------------------------------------------------------------------
(* check_gaps.                                                              *)

LEMMA GapsFound == ASSUME Inv PROVE GapsAreReported
<1> DEFINE w == Sorted(pending)
           from(i) == IF i = 1 THEN expected ELSE w[i - 1] + 1
<1>1. pending \in Seq(Nat) /\ expected \in Nat /\ Number \in Nat
  <2>1. N \subseteq Nat BY OrderAssumption DEF N
  <2>2. pending \in Seq(N) /\ expected \in 0 .. Number BY DEF Inv, TypeOK
  <2>3. pending \in Seq(Nat) BY <2>1, <2>2, SeqMonotonic
  <2> QED BY <2>2, <2>3, OrderAssumption
<1>2. /\ w \in Seq(Nat) /\ Range(w) = Range(pending)
      /\ \A i, j \in 1 .. Len(w) : i <= j => w[i] <= w[j]
  BY <1>1, SortedSorts
<1>3. CheckGaps = UNION {from(i) .. w[i] - 1 : i \in 1 .. Len(w)}
  BY DEF CheckGaps
<1> HIDE DEF w
<1>4. Len(w) \in Nat /\ (\A i \in 1 .. Len(w) : w[i] \in Nat)
      /\ \A s : s \in Range(w) <=> \E i \in 1 .. Len(w) : w[i] = s
  BY <1>2 DEF Range
<1>5. ASSUME NEW n \in expected .. Number - 1, n \notin Range(pending),
             NEW s \in Range(pending), n < s
      PROVE  n \in CheckGaps
  <2>1. n \in Nat /\ expected <= n BY <1>1
  <2> DEFINE above == {i \in 1 .. Len(w) : n < w[i]}
  <2>2. above # {} BY <1>2, <1>4, <1>5
  <2>3. PICK i \in above : \A j \in above : i <= j
    <3>1. above \in SUBSET Nat BY <1>4
    <3> HIDE DEF above
    <3> QED BY <2>2, <3>1, NatLeast
  <2>4. i \in 1 .. Len(w) /\ w[i] \in Nat /\ n < w[i] BY <1>4, <2>3
  <2>5. from(i) <= n /\ from(i) \in Nat
    <3>1. CASE i = 1 BY <1>1, <2>1, <3>1
    <3>2. CASE i # 1
      <4>1. i - 1 \in 1 .. Len(w) /\ i - 1 < i BY <1>4, <2>4, <3>2
      <4>2. i - 1 \notin above BY <1>4, <2>3, <2>4, <4>1
      <4>3. w[i - 1] \in Nat /\ w[i - 1] <= n BY <1>4, <2>1, <4>1, <4>2
      <4>4. w[i - 1] # n BY <1>2, <1>4, <1>5, <4>1
      <4> QED BY <2>1, <3>2, <4>3, <4>4
    <3> QED BY <3>1, <3>2
  <2> HIDE DEF from
  <2>6. n \in from(i) .. w[i] - 1 BY <2>1, <2>4, <2>5
  <2> QED BY <1>3, <2>4, <2>6
<1>6. ASSUME NEW g \in CheckGaps, g \in Range(pending) PROVE FALSE
  <2>1. PICK i \in 1 .. Len(w) : g \in from(i) .. w[i] - 1 BY <1>3
  <2>2. PICK j \in 1 .. Len(w) : w[j] = g BY <1>2, <1>4, <1>6
  <2>3. w[i] \in Nat /\ g \in Nat /\ g < w[i] BY <1>4, <2>1, <2>2
  <2>4. j < i BY <1>2, <1>4, <2>2, <2>3
  <2>5. i # 1 /\ i - 1 \in 1 .. Len(w) /\ j <= i - 1 BY <1>4, <2>4
  <2>6. w[j] <= w[i - 1] /\ w[i - 1] \in Nat BY <1>2, <1>4, <2>5
  <2>7. g >= w[i - 1] + 1 BY <2>1, <2>3, <2>5, <2>6
  <2> QED BY <2>2, <2>3, <2>6, <2>7
<1> QED BY <1>5, <1>6 DEF GapsAreReported

\* GapsAreReported: check_gaps reports every number still to come before a
\* message that waits and none that waits, however many of them wait and with
\* whatever duplicates.
THEOREM GapsAlwaysReported == Spec => []GapsAreReported
  BY InvAlways, GapsFound, PTL

-----------------------------------------------------------------------------
(* The refinement.                                                          *)

LEMMA StepResequences ==
  ASSUME Inv, [Next]_vars
  PROVE  [Ideal!RNext]_<<arrived, expected>>
<1>1. CASE UNCHANGED vars BY <1>1 DEF vars
<1>2. CASE NextSequence BY <1>2 DEF NextSequence, Ideal!RNext, Ideal!HandOut
<1>3. ASSUME NEW s \in N, RegisterAhead(s) \/ RegisterBehind(s) PROVE Ideal!Arrive(s)
  <2>1. arrived' = arrived \cup {s} /\ expected' = expected /\ (s < expected \/ s > expected)
    BY <1>3 DEF RegisterAhead, RegisterBehind
  <2>2. s \in Nat /\ expected \in Nat BY OrderAssumption DEF N, Inv, TypeOK
  <2> QED BY <2>1, <2>2 DEF Ideal!Arrive
<1>4. ASSUME NEW s \in N, RegisterInOrder(s) PROVE Ideal!Arrive(s)
  <2> DEFINE d == DeliverPending(s + 1, pending)
             Free == {n \in expected + 1 .. Number : n \notin arrived'}
  <2>1. pending \in Seq(N) BY DEF Inv, TypeOK
  <2>2. /\ d.expected \in s + 1 .. Number
        /\ \A t \in s + 1 .. d.expected - 1 : t \in Range(pending)
        /\ d.expected \notin Range(pending)
    BY <2>1, DeliverPendingDelivers
  <2>3. s = expected /\ expected' = d.expected /\ arrived' = arrived \cup {s}
    BY <1>4 DEF RegisterInOrder
  <2> HIDE DEF d
  <2>4. s \in Nat /\ Number \in Nat /\ d.expected \in Nat BY <2>2, OrderAssumption DEF N
  <2>5. d.expected \in Free
    <3>1. ~ (d.expected < s) /\ d.expected # s BY <2>2, <2>4
    <3>2. d.expected \notin arrived BY <2>2, <2>3, <3>1 DEF Inv, Kept
    <3> QED BY <2>2, <2>3, <3>1, <3>2
  <2>6. ASSUME NEW n \in Free, n < d.expected PROVE FALSE
    <3>1. n \in s + 1 .. d.expected - 1 BY <2>3, <2>4, <2>6
    <3>2. n \in arrived' BY <2>2, <2>3, <3>1 DEF Inv
    <3> QED BY <3>2
  <2>7. Free \in SUBSET Nat BY <2>3, <2>4
  <2> HIDE DEF Free
  <2>8. Min(Free) \in Free /\ Min(Free) <= d.expected BY <2>5, <2>7, MinIsLeast
  <2>a. Min(Free) \in Nat /\ ~ (Min(Free) < d.expected) BY <2>6, <2>7, <2>8
  <2>9. Min(Free) = d.expected BY <2>4, <2>8, <2>a
  <2> QED BY <2>3, <2>9 DEF Ideal!Arrive, Free, Min, Ideal!Min
<1>5. CASE \E s \in N : RegisterInOrder(s) \/ RegisterAhead(s) \/ RegisterBehind(s)
  BY <1>3, <1>4, <1>5 DEF Ideal!RNext, N
<1> QED BY <1>1, <1>2, <1>5 DEF Next, Receive, N

\* Resequences: with every order of arrivals, gaps, duplicates and numbers
\* handed out in between, a conversation implements the resequencer: each
\* arrival in order moves the counter to the least later number that has not
\* arrived.
THEOREM ConversationResequences == Spec => Resequences
<1>1. Init => Ideal!RInit BY DEF Init, Ideal!RInit
<1>2. Inv /\ [Next]_vars => [Ideal!RNext]_<<arrived, expected>> BY StepResequences
<1> QED BY InvAlways, <1>1, <1>2, PTL DEF Spec, Resequences, Ideal!RSpec
=============================================================================

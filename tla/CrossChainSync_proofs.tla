------------------------ MODULE CrossChainSync_proofs ------------------------
(* Proofs about CrossChainSync, for every value of its constants.  A map     *)
(* and the queues beside it are one invariant, the calls in flight another,  *)
(* and what was submitted a third.                                           *)
EXTENDS CrossChainSync, FiniteSetTheorems, WellFoundedInduction, TLAPS

\* The call of process_chain that is not idle has an operation to work on.
WorkingOnOne == \A w \in Worker : worker[w].step # "idle" => worker[w].batch # <<>>

Typed == TypeOK /\ WorkingOnOne

\* The id stands in the queue once at most.
NoRepeats(q) == \A i, j \in 1 .. Len(q) : q[i] = q[j] => i = j
In(o, q) == \E i \in 1 .. Len(q) : q[i] = o

\* A map has one value at most for an id, an id is not being added while it is
\* known or after it was completed, and only ids that were drawn are used.
MapsInv ==
  /\ \A o \in Op : \A x, y \in operations[o] : x = y
  /\ \A o \in Op : \A x, y \in adding[o] : x = y
  /\ \A o \in Op : operations[o] # {} => adding[o] = {} /\ o \in created
  /\ \A o \in Op : adding[o] # {} => o \in created
  /\ \A c \in Chain : NoRepeats(queues[c])
  /\ \A c \in Chain, o \in Op :
       In(o, queues[c]) <=> \E x \in operations[o] : x.source = c
  /\ \A o \in Op : In(o, completed) => operations[o] = {} /\ adding[o] = {} /\ o \in created

\* An id a call still works on, or one that was submitted, was in the map
\* before, so nobody is about to add it.
WasThere(o) == o \in created /\ adding[o] = {}

\* What a call works on after the confirmations is a clone whose source
\* transaction was reported final.
ClonesInv ==
  \A w \in Worker :
    /\ \A i \in 1 .. Len(worker[w].batch) : WasThere(worker[w].batch[i])
    /\ worker[w].step \in {"confirm", "submit"} => \A x \in worker[w].snap : x.tx # {}
    /\ worker[w].step = "submit" =>
         \E x \in worker[w].snap : \E t \in x.tx : <<x.source, t>> \in finalTx

SubmittedInv == \A o \in Op : submissions[o] > 0 => WasThere(o)

Inv == Typed /\ MapsInv /\ ClonesInv /\ SubmittedInv /\ SubmissionIsSettled

\* With run() alone: what its batch still holds was not submitted, but for the
\* operation it has just submitted and not settled yet.
AloneInv ==
  /\ SubmittedOnce
  /\ NoRepeats(worker[Run].batch)
  /\ \A i \in 1 .. Len(worker[Run].batch) :
       \/ submissions[worker[Run].batch[i]] = 0
       \/ i = 1 /\ worker[Run].step \in {"settle", "complete"}
-----------------------------------------------------------------------------
(* Induction over the naturals and what retain leaves of a queue.           *)

\* Every nonempty set of naturals has a least element.
LEMMA NatLeast ==
  ASSUME NEW S \in SUBSET Nat, S # {}
  PROVE  \E n \in S : \A m \in S : n <= m
<1>1. \E x \in S : \A y \in S : ~ (<<y, x>> \in OpToRel(<, Nat))
  BY NatLessThanWellFounded, WFMin, Zenon
<1>2. PICK n \in S : \A y \in S : ~ (<<y, n>> \in OpToRel(<, Nat))
  BY <1>1
<1>3. \A y \in S : ~ (y < n)
  BY <1>2 DEF OpToRel
<1> QED BY <1>3

\* A set with 0 and the successor of each natural it has, has them all.
LEMMA Induction ==
  ASSUME NEW S, 0 \in S, \A n \in Nat : n \in S => n + 1 \in S
  PROVE  Nat \subseteq S
<1> SUFFICES ASSUME Nat \ S # {} PROVE FALSE
  OBVIOUS
<1>1. PICK n \in Nat \ S : \A m \in Nat \ S : n <= m
  BY NatLeast
<1>2. n - 1 \in Nat
  BY <1>1
<1>3. n - 1 \in S
  BY <1>1, <1>2
<1>4. (n - 1) + 1 \in S
  BY <1>2, <1>3
<1> QED BY <1>1, <1>4

\* Retain is the function its definition says it is.
LEMMA RetainIsDefined ==
  ASSUME NEW S, NEW q \in Seq(S), NEW o
  PROVE  Retain(q, o) = [i \in 0 .. Len(q) |->
           IF i = 0 THEN <<>>
           ELSE IF q[i] = o THEN Retain(q, o)[i - 1]
                            ELSE Append(Retain(q, o)[i - 1], q[i])]
<1> DEFINE Next1(K, i) == IF i = 0 THEN <<>>
                          ELSE IF q[i] = o THEN K[i - 1] ELSE Append(K[i - 1], q[i])
           Is(K, n) == K = [i \in 0 .. n |-> Next1(K, i)]
           Good == {n \in Nat : \E K : Is(K, n)}
<1>1. 0 \in Good
  <2> Is([i \in {0} |-> <<>>], 0) OBVIOUS
  <2> QED OBVIOUS
<1>2. ASSUME NEW n \in Nat, n \in Good PROVE n + 1 \in Good
  <2>1. PICK K : Is(K, n)
    BY <1>2
  <2> DEFINE J == [i \in 0 .. n + 1 |-> Next1(K, i)]
  <2>2. ASSUME NEW i \in 0 .. n + 1 PROVE Next1(J, i) = Next1(K, i)
    <3>1. CASE i = 0 BY <3>1
    <3>2. CASE i # 0
      <4> HIDE DEF Next1
      <4>1. i - 1 \in 0 .. n /\ i - 1 \in 0 .. n + 1 BY <3>2, <2>2
      <4>2. K[i - 1] = Next1(K, i - 1) BY <4>1, <2>1
      <4>3. J[i - 1] = Next1(K, i - 1) BY <4>1
      <4> HIDE DEF J
      <4> QED BY <4>2, <4>3 DEF Next1
    <3> QED BY <3>1, <3>2
  <2> HIDE DEF Next1
  <2>3. Is(J, n + 1)
    BY <2>2
  <2> HIDE DEF Is, J
  <2> QED BY <2>3
<1> HIDE DEF Next1, Is
<1>3. Len(q) \in Good
  <2> HIDE DEF Good
  <2> QED BY <1>1, <1>2, Induction
<1>4. Is(CHOOSE K : Is(K, Len(q)), Len(q))
  BY <1>3, Zenon
<1>5. Retain(q, o) = CHOOSE K : Is(K, Len(q))
  BY DEF Retain, Next1, Is
<1>6. Is(Retain(q, o), Len(q))
  BY <1>4, <1>5, Zenon
<1> QED BY <1>6 DEF Next1, Is

\* The queue without an id has every other id it had, once if it had it once.
LEMMA WithoutKeepsOthers ==
  ASSUME NEW S, NEW q \in Seq(S), NEW o
  PROVE  /\ Without(q, o) \in Seq(S)
         /\ \A p \in S : In(p, Without(q, o)) <=> In(p, q) /\ p # o
         /\ NoRepeats(q) => NoRepeats(Without(q, o))
<1> DEFINE R == Retain(q, o)
           Up(n, p) == \E j \in 1 .. n : q[j] = p
           Fine(n) == /\ R[n] \in Seq(S)
                      /\ \A p \in S : In(p, R[n]) <=> Up(n, p) /\ p # o
                      /\ NoRepeats(q) => NoRepeats(R[n])
           Good == {n \in Nat : n <= Len(q) => Fine(n)}
<1>1. Len(q) \in Nat /\ \A i \in 1 .. Len(q) : q[i] \in S
  OBVIOUS
<1>2. R[0] = <<>> /\ \A n \in Nat : n + 1 <= Len(q) =>
        R[n + 1] = IF q[n + 1] = o THEN R[n] ELSE Append(R[n], q[n + 1])
  <2> HIDE DEF R
  <2>1. R = [i \in 0 .. Len(q) |->
           IF i = 0 THEN <<>> ELSE IF q[i] = o THEN R[i - 1] ELSE Append(R[i - 1], q[i])]
    BY RetainIsDefined DEF R
  <2>2. R[0] = <<>> BY <1>1, <2>1
  <2>3. ASSUME NEW n \in Nat, n + 1 <= Len(q)
        PROVE  R[n + 1] = IF q[n + 1] = o THEN R[n] ELSE Append(R[n], q[n + 1])
    <3>1. n + 1 \in 0 .. Len(q) /\ n + 1 # 0 /\ (n + 1) - 1 = n BY <1>1, <2>3
    <3> QED BY <2>1, <3>1
  <2> QED BY <2>2, <2>3
<1> HIDE DEF R
<1>3. 0 \in Good
  <2>1. R[0] \in Seq(S) /\ Len(R[0]) = 0 BY <1>2
  <2>2. \A p \in S : ~ In(p, R[0]) /\ ~ Up(0, p) BY <2>1 DEF In
  <2>3. NoRepeats(R[0]) BY <2>1 DEF NoRepeats
  <2> QED BY <2>1, <2>2, <2>3
<1>4. ASSUME NEW n \in Nat, n \in Good PROVE n + 1 \in Good
  <2> SUFFICES ASSUME n + 1 <= Len(q) PROVE Fine(n + 1)
    OBVIOUS
  <2>1. Fine(n)
    BY <1>1, <1>4
  <2>2. q[n + 1] \in S /\ n + 1 \in 1 .. Len(q)
    BY <1>1
  <2>3. \A p \in S : Up(n + 1, p) <=> Up(n, p) \/ p = q[n + 1]
    BY <2>2
  <2>4. CASE q[n + 1] = o
    <3>1. R[n + 1] = R[n] BY <1>2, <2>4
    <3> QED BY <2>1, <2>3, <2>4, <3>1
  <2>5. CASE q[n + 1] # o
    <3>1. R[n + 1] = Append(R[n], q[n + 1]) BY <1>2, <2>5
    <3>2. /\ R[n + 1] \in Seq(S) /\ Len(R[n + 1]) = Len(R[n]) + 1
          /\ \A i \in 1 .. Len(R[n]) : R[n + 1][i] = R[n][i]
          /\ R[n + 1][Len(R[n]) + 1] = q[n + 1] /\ Len(R[n]) \in Nat
      BY <2>1, <2>2, <3>1
    <3>3. \A p \in S : In(p, R[n + 1]) <=> In(p, R[n]) \/ p = q[n + 1]
      <4> HIDE DEF Fine
      <4> TAKE p \in S
      <4>1. ASSUME In(p, R[n]) PROVE In(p, R[n + 1]) BY <3>2, <4>1 DEF In
      <4>2. ASSUME p = q[n + 1] PROVE In(p, R[n + 1]) BY <3>2, <4>2 DEF In
      <4>3. ASSUME In(p, R[n + 1]) PROVE In(p, R[n]) \/ p = q[n + 1]
        <5>1. PICK i \in 1 .. Len(R[n]) + 1 : R[n + 1][i] = p BY <3>2, <4>3 DEF In
        <5>2. i \in 1 .. Len(R[n]) \/ i = Len(R[n]) + 1 BY <3>2, <5>1
        <5> QED BY <3>2, <5>1, <5>2 DEF In
      <4> QED BY <4>1, <4>2, <4>3
    <3>4. NoRepeats(q) => NoRepeats(R[n + 1])
      <4> SUFFICES ASSUME NoRepeats(q), NEW i \in 1 .. Len(R[n + 1]),
                          NEW j \in 1 .. Len(R[n + 1]), R[n + 1][i] = R[n + 1][j]
                   PROVE  i = j
        BY DEF NoRepeats
      <4>1. ~ In(q[n + 1], R[n])
        <5> SUFFICES ~ Up(n, q[n + 1]) BY <2>1, <2>2
        <5> QED BY <2>2 DEF NoRepeats
      <4> HIDE DEF Fine
      <4>2. CASE i <= Len(R[n]) /\ j <= Len(R[n])
        BY <2>1, <3>2, <4>2 DEF NoRepeats, Fine
      <4>3. i \in 1 .. Len(R[n]) + 1 /\ j \in 1 .. Len(R[n]) + 1 BY <3>2
      <4>4. CASE i = Len(R[n]) + 1 \/ j = Len(R[n]) + 1
        <5>1. \A k \in 1 .. Len(R[n]) : R[n + 1][k] # q[n + 1] BY <3>2, <4>1 DEF In
        <5> QED BY <3>2, <4>3, <4>4, <5>1
      <4> QED BY <3>2, <4>2, <4>3, <4>4
    <3> QED BY <2>1, <2>3, <2>5, <3>2, <3>3, <3>4
  <2> QED BY <2>4, <2>5
<1> HIDE DEF Fine
<1>5. Len(q) \in Good
  <2> HIDE DEF Good
  <2> QED BY <1>1, <1>3, <1>4, Induction
<1>6. Fine(Len(q)) BY <1>1, <1>5
<1> QED BY <1>6 DEF Fine, R, Without, In
-----------------------------------------------------------------------------
(* What the steps do to the calls in flight and to the maps.                *)

WorkerRec == [step : Step, batch : Seq(Op), snap : SUBSET Operation]

NextOne(r) == [step |-> "fetch", batch |-> Tail(r.batch), snap |-> {}]

\* The call goes on with its next operation, returns, or takes its next step.
LEMMA CallMoves ==
  ASSUME Typed, NEW w \in Worker, worker[w].step # "idle"
  PROVE  /\ worker[w] \in WorkerRec /\ Current(w) \in Op
         /\ worker[w].batch \in Seq(Op) /\ Len(worker[w].batch) \in Nat \ {0}
         /\ Current(w) = worker[w].batch[1]
         /\ Idle \in WorkerRec
         /\ Len(worker[w].batch) > 1 =>
              /\ NextOne(worker[w]) \in WorkerRec /\ Tail(worker[w].batch) # <<>>
              /\ Len(Tail(worker[w].batch)) = Len(worker[w].batch) - 1
              /\ \A i \in 1 .. Len(worker[w].batch) - 1 :
                   Tail(worker[w].batch)[i] = worker[w].batch[i + 1]
         /\ Continue(w) =>
              \/ worker' = [worker EXCEPT ![w] = Idle]
              \/ /\ Len(worker[w].batch) > 1
                 /\ worker' = [worker EXCEPT ![w] = NextOne(worker[w])]
         /\ Leave(w) => worker' = [worker EXCEPT ![w] = Idle]
         /\ \A s \in Step : GoTo(w, s) =>
              worker' = [worker EXCEPT ![w] = [step |-> s, batch |-> worker[w].batch,
                                               snap |-> worker[w].snap]]
<1>1. worker[w] \in WorkerRec /\ worker[w].batch # <<>>
  BY DEF Typed, TypeOK, WorkingOnOne, WorkerRec
<1>2. worker[w].batch \in Seq(Op) /\ worker[w].snap \in SUBSET Operation
  BY <1>1 DEF WorkerRec
<1>3. Current(w) \in Op /\ Len(worker[w].batch) \in Nat \ {0}
      /\ Current(w) = worker[w].batch[1]
  BY <1>1, <1>2 DEF Current
<1>4. Idle \in WorkerRec
  BY DEF Idle, WorkerRec, Step
<1>5. ASSUME Len(worker[w].batch) > 1
      PROVE  /\ NextOne(worker[w]) \in WorkerRec /\ Tail(worker[w].batch) # <<>>
             /\ Len(Tail(worker[w].batch)) = Len(worker[w].batch) - 1
             /\ \A i \in 1 .. Len(worker[w].batch) - 1 :
                  Tail(worker[w].batch)[i] = worker[w].batch[i + 1]
  <2> DEFINE b == worker[w].batch
  <2> HIDE DEF b
  <2>1. b \in Seq(Op) /\ Len(b) > 1 BY <1>2, <1>5 DEF b
  <2>2. Tail(b) \in Seq(Op) /\ Len(Tail(b)) = Len(b) - 1 /\ Tail(b) # <<>>
        /\ \A i \in 1 .. Len(b) - 1 : Tail(b)[i] = b[i + 1]
    <3>1. Tail(b) \in Seq(Op) /\ Len(Tail(b)) = Len(b) - 1 BY <2>1
    <3>2. \A i \in 1 .. Len(b) - 1 : Tail(b)[i] = b[i + 1] BY <2>1
    <3>3. Len(Tail(b)) # 0 BY <2>1, <3>1
    <3> QED BY <3>1, <3>2, <3>3
  <2>3. [step |-> "fetch", batch |-> Tail(b), snap |-> {}] \in WorkerRec
    BY <2>2 DEF WorkerRec, Step
  <2> QED BY <2>2, <2>3 DEF b, NextOne
<1>6. worker \in [Worker -> WorkerRec]
  BY DEF Typed, TypeOK, WorkerRec
<1>7. Continue(w) => \/ worker' = [worker EXCEPT ![w] = Idle]
                     \/ /\ Len(worker[w].batch) > 1
                        /\ worker' = [worker EXCEPT ![w] = NextOne(worker[w])]
  <2> SUFFICES ASSUME Continue(w) PROVE \/ worker' = [worker EXCEPT ![w] = Idle]
                     \/ /\ Len(worker[w].batch) > 1
                        /\ worker' = [worker EXCEPT ![w] = NextOne(worker[w])]
    OBVIOUS
  <2>1. CASE Len(worker[w].batch) = 1 BY <2>1 DEF Continue
  <2>2. CASE Len(worker[w].batch) # 1
    <3>0. \A n \in Nat \ {0} : n # 1 => n > 1 OBVIOUS
    <3>1. Len(worker[w].batch) > 1 BY <3>0, <1>3, <2>2, Zenon
    <3>2. worker' = [worker EXCEPT ![w] = NextOne(worker[w])]
      BY <2>2, Zenon DEF Continue, NextOne
    <3> QED BY <3>1, <3>2
  <2> QED BY <2>1, <2>2
<1>8. Leave(w) => worker' = [worker EXCEPT ![w] = Idle]
  BY DEF Leave
<1>9. ASSUME NEW s \in Step, GoTo(w, s)
      PROVE  worker' = [worker EXCEPT ![w] = [step |-> s, batch |-> worker[w].batch,
                                              snap |-> worker[w].snap]]
  <2>1. [worker[w] EXCEPT !.step = s] =
          [step |-> s, batch |-> worker[w].batch, snap |-> worker[w].snap]
    BY <1>1 DEF WorkerRec
  <2>2. worker' = [worker EXCEPT ![w] = [worker[w] EXCEPT !.step = s]]
    BY <1>6, <1>9 DEF GoTo
  <2> QED BY <2>1, <2>2
<1> QED BY <1>1, <1>2, <1>3, <1>4, <1>5, <1>7, <1>8, <1>9

\* An operation of the map is written, its source chain as before.
Rewritten(o) ==
  \E x \in operations[o], y \in Operation :
    /\ y.source = x.source /\ Change(o, y)
    /\ UNCHANGED <<queues, completed, adapters>>

LEMMA UpdatesRewrite ==
  ASSUME Typed, NEW o \in Op
  PROVE  /\ \A s \in SyncState : UpdateState(o, s) => Rewritten(o)
         /\ \A t \in Tx : SetSourceTx(o, t) => Rewritten(o)
         /\ FailOperation(o) => Rewritten(o)
<1>1. ASSUME NEW x \in operations[o], NEW s \in SyncState
      PROVE  [x EXCEPT !.state = s] \in Operation /\ [x EXCEPT !.state = s].source = x.source
  <2>1. x \in Operation BY DEF Typed, TypeOK
  <2> QED BY <2>1 DEF Operation
<1>2. ASSUME NEW x \in operations[o], NEW t \in Tx
      PROVE  /\ [x EXCEPT !.tx = {t}, !.state = "InProgress"] \in Operation
             /\ [x EXCEPT !.tx = {t}, !.state = "InProgress"].source = x.source
  <2>1. x \in Operation BY DEF Typed, TypeOK
  <2>2. {t} \in SUBSET Tx BY <1>2
  <2> QED BY <2>1, <2>2 DEF Operation, SyncState
<1>3. ASSUME NEW s \in SyncState, UpdateState(o, s) PROVE Rewritten(o)
  <2>1. PICK x \in operations[o] : Change(o, [x EXCEPT !.state = s])
                                   /\ UNCHANGED <<queues, completed, adapters>>
    BY <1>3 DEF UpdateState
  <2> QED BY <1>1, <2>1 DEF Rewritten
<1>4. ASSUME NEW t \in Tx, SetSourceTx(o, t) PROVE Rewritten(o)
  <2>1. PICK x \in operations[o] :
          /\ Change(o, [x EXCEPT !.tx = {t}, !.state = "InProgress"])
          /\ UNCHANGED <<queues, completed, adapters>>
    BY <1>4 DEF SetSourceTx
  <2> QED BY <1>2, <2>1 DEF Rewritten
<1>5. "Failed" \in SyncState BY DEF SyncState
<1> QED BY <1>3, <1>4, <1>5 DEF FailOperation

\* A step of process_chain leaves the maps alone, writes its operation or
\* completes it.
LEMMA CallOnMaps ==
  ASSUME Typed, NEW w \in Worker, WorkerStep(w)
  PROVE  /\ worker[w].step # "idle"
         /\ UNCHANGED <<adding, turn, created, adapters>>
         /\ \/ UNCHANGED <<operations, queues, completed>>
            \/ Rewritten(Current(w))
            \/ CompleteOperation(Current(w))
<1>0. worker[w].step # "idle"
  BY DEF WorkerStep, Fetch, MarkTimedOut, Confirm, Submit, Fail, SetDestinationTx, Complete
<1>1. Current(w) \in Op
  BY <1>0, CallMoves
<1>2. CASE Fetch(w) BY <1>0, <1>2 DEF Fetch, shared, hist
<1>3. CASE MarkTimedOut(w)
  <2>1. "TimedOut" \in SyncState BY DEF SyncState
  <2>2. CASE UpdateState(Current(w), "TimedOut")
    <3>1. Rewritten(Current(w)) BY <1>1, <2>1, <2>2, UpdatesRewrite
    <3> QED BY <1>0, <1>3, <3>1 DEF MarkTimedOut, hist, Rewritten
  <2>3. CASE ~ UpdateState(Current(w), "TimedOut")
    BY <1>0, <1>3, <2>3 DEF MarkTimedOut, Try, shared, hist
  <2> QED BY <2>2, <2>3
<1>4. CASE Confirm(w) BY <1>0, <1>4 DEF Confirm, Try, Touch, shared
<1>5. CASE Submit(w) BY <1>0, <1>5 DEF Submit, shared
<1>6. CASE Fail(w)
  <2>2. CASE FailOperation(Current(w))
    <3>1. Rewritten(Current(w)) BY <1>1, <2>2, UpdatesRewrite
    <3> QED BY <1>0, <1>6, <3>1 DEF Fail, hist, Rewritten
  <2>3. CASE ~ FailOperation(Current(w))
    BY <1>0, <1>6, <2>3 DEF Fail, Try, shared, hist
  <2> QED BY <2>2, <2>3
<1>7. CASE SetDestinationTx(w) BY <1>0, <1>7 DEF SetDestinationTx, Try, Touch, shared, hist
<1>8. CASE Complete(w)
  BY <1>0, <1>8 DEF Complete, Try, CompleteOperation, shared, hist
<1> QED BY <1>2, <1>3, <1>4, <1>5, <1>6, <1>7, <1>8 DEF WorkerStep
-----------------------------------------------------------------------------
(* Types.                                                                   *)

WorkersTyped == worker \in [Worker -> WorkerRec] /\ WorkingOnOne
MapsTyped ==
  /\ operations \in [Op -> SUBSET Operation]
  /\ queues \in [Chain -> Seq(Op)]
  /\ completed \in Seq(Op) /\ Len(completed) <= MaxCompleted

LEMMA TypedParts ==
  Typed <=> /\ WorkersTyped /\ MapsTyped
            /\ adapters \subseteq Chain /\ adding \in [Op -> SUBSET Operation]
            /\ turn \in 1 .. Len(ChainOrder)
            /\ created \subseteq Op /\ finalTx \subseteq Chain \X Tx
            /\ submissions \in [Op -> 0 .. 2]
  BY DEF Typed, TypeOK, WorkersTyped, MapsTyped, WorkerRec

LEMMA TypedAfter ==
  (/\ WorkersTyped /\ MapsTyped
   /\ adapters \subseteq Chain /\ adding \in [Op -> SUBSET Operation]
   /\ turn \in 1 .. Len(ChainOrder)
   /\ created \subseteq Op /\ finalTx \subseteq Chain \X Tx
   /\ submissions \in [Op -> 0 .. 2])' => Typed'
  BY DEF Typed, TypeOK, WorkersTyped, MapsTyped, WorkerRec, WorkingOnOne

LEMMA RewrittenTyped ==
  ASSUME Typed, NEW o \in Op, Rewritten(o)
  PROVE  MapsTyped'
  BY DEF Typed, TypeOK, MapsTyped, Rewritten, Change

LEMMA CompletedTyped ==
  ASSUME Typed, NEW o \in Op, CompleteOperation(o)
  PROVE  MapsTyped'
<1>1. PICK x \in operations[o] :
        /\ operations' = [operations EXCEPT ![o] = {}]
        /\ queues' = [queues EXCEPT ![x.source] = Without(@, o)]
        /\ completed' = (IF Len(completed) < MaxCompleted THEN completed
                                                          ELSE Tail(completed)) \o <<o>>
  BY DEF CompleteOperation
<1>2. x.source \in Chain
  <2>1. x \in Operation BY DEF Typed, TypeOK
  <2> QED BY <2>1 DEF Operation
<1>3. Without(queues[x.source], o) \in Seq(Op)
  BY <1>2, WithoutKeepsOthers DEF Typed, TypeOK
<1>4. queues' \in [Chain -> Seq(Op)]
  BY <1>1, <1>2, <1>3 DEF Typed, TypeOK
<1>5. operations' \in [Op -> SUBSET Operation]
  BY <1>1 DEF Typed, TypeOK
<1>6. completed' \in Seq(Op) /\ Len(completed') <= MaxCompleted
  <2>1. completed \in Seq(Op) /\ Len(completed) <= MaxCompleted /\ <<o>> \in Seq(Op)
        /\ MaxCompleted \in Nat \ {0} /\ Len(<<o>>) = 1 /\ Len(completed) \in Nat
    BY SyncAssumption DEF Typed, TypeOK
  <2>2. CASE Len(completed) < MaxCompleted
    <3>1. completed' = completed \o <<o>> BY <1>1, <2>2
    <3>2. completed' \in Seq(Op) /\ Len(completed') = Len(completed) + 1
      BY <2>1, <3>1
    <3> QED BY <2>1, <2>2, <3>2
  <2>3. CASE ~ (Len(completed) < MaxCompleted)
    <3>1. completed' = Tail(completed) \o <<o>> BY <1>1, <2>3
    <3>2. completed # <<>> BY <2>1, <2>3
    <3>3. Tail(completed) \in Seq(Op) /\ Len(Tail(completed)) = Len(completed) - 1
      BY <2>1, <3>2
    <3>4. completed' \in Seq(Op) /\ Len(completed') = Len(Tail(completed)) + 1
      <4> DEFINE rest == Tail(completed)
      <4>1. rest \in Seq(Op) /\ completed' = rest \o <<o>> BY <3>1, <3>3
      <4> HIDE DEF rest
      <4>2. completed' \in Seq(Op) /\ Len(completed') = Len(rest) + 1 BY <2>1, <4>1
      <4> QED BY <4>2 DEF rest
    <3> QED BY <2>1, <3>3, <3>4
  <2> QED BY <2>2, <2>3
<1> QED BY <1>4, <1>5, <1>6 DEF MapsTyped

LEMMA StartTyped ==
  ASSUME Typed, NEW w \in Worker, NEW c \in Chain, Start(w, c)
  PROVE  \/ worker' = [worker EXCEPT ![w] = Idle]
         \/ \E b \in Seq(Op) :
              /\ b # <<>> /\ Len(b) <= Len(queues[c])
              /\ \A i \in 1 .. Len(b) : b[i] = queues[c][i]
              /\ worker' = [worker EXCEPT ![w] =
                              [step |-> "fetch", batch |-> b, snap |-> {}]]
<1> DEFINE n == IF Len(queues[c]) < Batch THEN Len(queues[c]) ELSE Batch
           b == SubSeq(queues[c], 1, n)
<1>1. queues[c] \in Seq(Op) /\ n \in 0 .. Len(queues[c])
  BY SyncAssumption DEF Typed, TypeOK
<1> HIDE DEF n
<1>2. b \in Seq(Op) /\ Len(b) = n /\ \A i \in 1 .. n : b[i] = queues[c][i]
  BY <1>1
<1>3. worker' = [worker EXCEPT ![w] =
        IF c \in adapters /\ b # <<>>
        THEN [step |-> "fetch", batch |-> b, snap |-> {}] ELSE Idle]
  BY DEF Start, n
<1> HIDE DEF b
<1>4. CASE c \in adapters /\ b # <<>>
  <2>1. worker' = [worker EXCEPT ![w] = [step |-> "fetch", batch |-> b, snap |-> {}]]
    BY <1>3, <1>4, Zenon
  <2>2. Len(b) <= Len(queues[c]) /\ \A i \in 1 .. Len(b) : b[i] = queues[c][i]
    BY <1>1, <1>2
  <2> QED BY <1>2, <1>4, <2>1, <2>2
<1>5. CASE ~ (c \in adapters /\ b # <<>>) BY <1>3, <1>5, Zenon
<1> QED BY <1>4, <1>5
\* One call takes its step: the record it is left with.
LEMMA CallTyped ==
  ASSUME Typed, NEW w \in Worker, NEW r \in WorkerRec,
         r.step # "idle" => r.batch # <<>>, worker' = [worker EXCEPT ![w] = r]
  PROVE  WorkersTyped'
  BY DEF Typed, TypeOK, WorkingOnOne, WorkersTyped, WorkerRec

\* What a step of a call leaves in its record, by the step.
LEMMA CallRecord ==
  ASSUME Typed, NEW w \in Worker, WorkerStep(w)
  PROVE  LET b == worker[w].batch
             old == worker[w].step
             after(r) == worker' = [worker EXCEPT ![w] = r]
         IN  \/ after(Idle)
             \/ Len(b) > 1 /\ after(NextOne(worker[w]))
             \/ /\ old = "fetch"
                /\ \E x \in operations[Current(w)] : \E s \in {"timeout", "confirm"} :
                     /\ s = "confirm" => x.tx # {}
                     /\ after([step |-> s, batch |-> b, snap |-> {x}])
             \/ /\ old = "confirm"
                /\ \E n \in Confirmations, x \in worker[w].snap :
                     /\ n >= Required[x.source]
                     /\ finalTx' = finalTx \cup {<<x.source, t>> : t \in x.tx}
                /\ after([step |-> "submit", batch |-> b, snap |-> worker[w].snap])
             \/ /\ old = "submit"
                /\ after([step |-> "fail", batch |-> b, snap |-> worker[w].snap])
             \/ /\ old = "submit"
                /\ after([step |-> "settle", batch |-> b, snap |-> worker[w].snap])
             \/ /\ old = "settle"
                /\ after([step |-> "complete", batch |-> b, snap |-> worker[w].snap])
<1> DEFINE b == worker[w].batch
           after(r) == worker' = [worker EXCEPT ![w] = r]
           at(s) == [step |-> s, batch |-> b, snap |-> worker[w].snap]
<1>0. worker[w].step # "idle"
  BY CallOnMaps
<1>1. /\ worker[w] \in WorkerRec
      /\ Continue(w) => after(Idle) \/ (Len(b) > 1 /\ after(NextOne(worker[w])))
      /\ Leave(w) => after(Idle)
      /\ \A s \in Step : GoTo(w, s) => after(at(s))
  BY <1>0, CallMoves
<1>2. {"submit", "fail", "settle", "complete"} \subseteq Step
  BY DEF Step
<1>3. CASE Fetch(w)
  <2>1. CASE Continue(w) BY <1>1, <2>1
  <2>2. CASE ~ Continue(w)
    <3>1. PICK x \in operations[Current(w)] :
            /\ x.left < 0 \/ x.tx # {}
            /\ worker' = [worker EXCEPT
                 ![w].step = IF x.left < 0 THEN "timeout" ELSE "confirm",
                 ![w].snap = {x}]
      BY <1>3, <2>2 DEF Fetch
    <3> DEFINE s == IF x.left < 0 THEN "timeout" ELSE "confirm"
    <3>2. s \in {"timeout", "confirm"} /\ (s = "confirm" => x.tx # {})
      BY <3>1
    <3> HIDE DEF s
    <3>3. after([step |-> s, batch |-> b, snap |-> {x}])
      <4>1. worker' = [worker EXCEPT ![w].step = s, ![w].snap = {x}] BY <3>1 DEF s
      <4>2. worker \in [Worker -> WorkerRec] BY DEF Typed, TypeOK, WorkerRec
      <4>3. worker' = [worker EXCEPT ![w] = [[worker[w] EXCEPT !.step = s] EXCEPT !.snap = {x}]]
        BY <4>1, <4>2
      <4>4. [[worker[w] EXCEPT !.step = s] EXCEPT !.snap = {x}]
              = [step |-> s, batch |-> b, snap |-> {x}]
        <5>1. [worker[w] EXCEPT !.step = s]
                = [step |-> s, batch |-> b, snap |-> worker[w].snap]
          BY <1>1 DEF WorkerRec
        <5> DEFINE r == [worker[w] EXCEPT !.step = s]
        <5> HIDE DEF r
        <5>2. r = [step |-> s, batch |-> b, snap |-> worker[w].snap] BY <5>1 DEF r
        <5>3. [r EXCEPT !.snap = {x}] = [step |-> s, batch |-> b, snap |-> {x}] BY <5>2
        <5> QED BY <5>3 DEF r
      <4> QED BY <4>3, <4>4
    <3>4. worker[w].step = "fetch" BY <1>3 DEF Fetch
    <3> QED BY <3>2, <3>3, <3>4
  <2> QED BY <2>1, <2>2
<1>4. CASE MarkTimedOut(w) BY <1>1, <1>4 DEF MarkTimedOut, Try
<1>5. CASE Confirm(w)
  <2>1. CASE Continue(w) \/ Leave(w) BY <1>1, <2>1
  <2>2. CASE ~ Continue(w) /\ ~ Leave(w)
    <3>1. PICK n \in Confirmations, x \in worker[w].snap :
            /\ Try(w, Touch(Current(w)),
                      IF AfterConfirm(x, n) = "submit" THEN GoTo(w, "submit") ELSE Continue(w))
            /\ finalTx' = IF n >= Required[x.source]
                          THEN finalTx \cup {<<x.source, t>> : t \in x.tx} ELSE finalTx
      BY <1>5, <2>2 DEF Confirm
    <3>2. AfterConfirm(x, n) = "submit" /\ GoTo(w, "submit")
      BY <2>2, <3>1 DEF Try
    <3>3. n >= Required[x.source] BY <3>2 DEF AfterConfirm
    <3>4. finalTx' = finalTx \cup {<<x.source, t>> : t \in x.tx} BY <3>1, <3>3
    <3>5. after(at("submit")) BY <1>1, <1>2, <3>2
    <3>6. worker[w].step = "confirm" BY <1>5 DEF Confirm
    <3> QED BY <3>3, <3>4, <3>5, <3>6
  <2> QED BY <2>1, <2>2
<1>6. CASE Submit(w) BY <1>1, <1>2, <1>6 DEF Submit
<1>7. CASE Fail(w) BY <1>1, <1>7 DEF Fail, Try
<1>8. CASE SetDestinationTx(w) BY <1>1, <1>2, <1>8 DEF SetDestinationTx, Try
<1>9. CASE Complete(w) BY <1>1, <1>9 DEF Complete, Try
<1> QED BY <1>3, <1>4, <1>5, <1>6, <1>7, <1>8, <1>9 DEF WorkerStep

LEMMA CallKeepsTyped ==
  ASSUME Typed, NEW w \in Worker, WorkerStep(w)
  PROVE  WorkersTyped'
<1> DEFINE b == worker[w].batch
           after(r) == worker' = [worker EXCEPT ![w] = r]
<1>0. worker[w].step # "idle"
  BY CallOnMaps
<1>1. /\ worker[w] \in WorkerRec /\ Current(w) \in Op /\ Idle \in WorkerRec
      /\ b \in Seq(Op) /\ Len(b) # 0
      /\ Len(b) > 1 => NextOne(worker[w]) \in WorkerRec /\ Tail(b) # <<>>
  BY <1>0, CallMoves
<1>2. \E r \in WorkerRec : (r.step # "idle" => r.batch # <<>>) /\ after(r)
  <2>1. b # <<>> /\ worker[w].snap \in SUBSET Operation /\ operations[Current(w)] \subseteq Operation
    BY <1>1 DEF WorkerRec, Typed, TypeOK
  <2>2. ASSUME NEW s \in Step, NEW xs \in SUBSET Operation,
               after([step |-> s, batch |-> b, snap |-> xs])
        PROVE  \E r \in WorkerRec : (r.step # "idle" => r.batch # <<>>) /\ after(r)
    <3>1. [step |-> s, batch |-> b, snap |-> xs] \in WorkerRec BY <1>1 DEF WorkerRec
    <3> QED BY <2>1, <2>2, <3>1
  <2>3. CASE after(Idle) BY <1>1, <2>3 DEF Idle
  <2>4. CASE Len(b) > 1 /\ after(NextOne(worker[w])) BY <1>1, <2>4 DEF NextOne
  <2>5. CASE \E x \in operations[Current(w)] : \E s \in {"timeout", "confirm"} :
               after([step |-> s, batch |-> b, snap |-> {x}])
    <3>1. PICK x \in operations[Current(w)], s \in {"timeout", "confirm"} :
            after([step |-> s, batch |-> b, snap |-> {x}]) BY <2>5
    <3>2. s \in Step /\ {x} \in SUBSET Operation BY <2>1 DEF Step
    <3> QED BY <2>2, <3>1, <3>2
  <2>6. CASE \E s \in {"submit", "fail", "settle", "complete"} :
               after([step |-> s, batch |-> b, snap |-> worker[w].snap])
    <3>1. PICK s \in {"submit", "fail", "settle", "complete"} :
            after([step |-> s, batch |-> b, snap |-> worker[w].snap]) BY <2>6
    <3>2. s \in Step BY DEF Step
    <3> QED BY <2>1, <2>2, <3>1, <3>2
  <2> HIDE DEF after
  <2> QED BY <2>3, <2>4, <2>5, <2>6, CallRecord DEF after
<1> QED BY <1>2, CallTyped
LEMMA TypedInit == Init => Typed
<1> SUFFICES ASSUME Init PROVE Typed
  OBVIOUS
<1>1. Idle \in WorkerRec
  BY DEF Idle, WorkerRec, Step
<1>2. WorkersTyped
  BY <1>1 DEF Init, WorkersTyped, WorkingOnOne, Idle
<1>3. MapsTyped
  BY SyncAssumption DEF Init, MapsTyped
<1>4. turn \in 1 .. Len(ChainOrder)
  <2>1. ChainOrder \in Seq(Chain) /\ ChainOrder # <<>> BY SyncAssumption
  <2> QED BY <2>1 DEF Init
<1> QED BY <1>2, <1>3, <1>4, TypedParts DEF Init

\* What is sampled of the calls: an addition's record is an operation.
LEMMA CheckQueueTyped ==
  ASSUME Typed, NEW o \in Op, NEW c \in Chain, NEW d \in Chain,
         NEW tx \in {{}} \cup {{t} : t \in Tx}, NEW k \in Timeouts, CheckQueue(o, c, d, tx, k)
  PROVE  adding' \in [Op -> SUBSET Operation] /\ created' \subseteq Op
<1>1. k \in Int /\ tx \in SUBSET Tx
  BY SyncAssumption
<1>2. [source |-> c, dest |-> d, tx |-> tx, state |-> "Pending", left |-> k] \in Operation
  BY <1>1 DEF Operation, SyncState
<1> QED BY <1>2 DEF CheckQueue, Typed, TypeOK

LEMMA CloserTyped ==
  ASSUME NEW xs \in SUBSET Operation
  PROVE  /\ Closer(xs) \in SUBSET Operation
         /\ \A y \in Closer(xs) : \E x \in xs :
              /\ y = [x EXCEPT !.left = IF @ >= 0 THEN @ - 1 ELSE @]
              /\ y.source = x.source
         /\ \A x \in xs : \E y \in Closer(xs) : y.source = x.source
         /\ Closer(xs) = {} <=> xs = {}
<1>1. ASSUME NEW x \in xs
      PROVE  /\ [x EXCEPT !.left = IF @ >= 0 THEN @ - 1 ELSE @] \in Operation
             /\ [x EXCEPT !.left = IF @ >= 0 THEN @ - 1 ELSE @].source = x.source
  <2>1. x \in Operation /\ x.left \in Int BY DEF Operation
  <2> QED BY <2>1 DEF Operation
<1> QED BY <1>1 DEF Closer

LEMMA TypedNext == Typed /\ [Next]_vars => Typed'
<1> SUFFICES ASSUME Typed, [Next]_vars PROVE Typed'
  OBVIOUS
<1> USE TypedParts, TypedAfter
<1>1. CASE UNCHANGED vars
  BY <1>1 DEF vars, shared, hist, Typed, TypeOK, WorkingOnOne
<1>2. ASSUME NEW c \in Chain, RegisterAdapter(c) PROVE Typed'
  <2>1. WorkersTyped' /\ MapsTyped'
    BY <1>2 DEF RegisterAdapter, WorkersTyped, MapsTyped, WorkingOnOne
  <2> QED BY <1>2, <2>1 DEF RegisterAdapter, hist
<1>3. ASSUME NEW o \in Op, NEW c \in Chain, NEW d \in Chain,
             NEW tx \in {{}} \cup {{t} : t \in Tx}, NEW k \in Timeouts,
             CheckQueue(o, c, d, tx, k)
      PROVE  Typed'
  <2>1. WorkersTyped' /\ MapsTyped'
    BY <1>3 DEF CheckQueue, WorkersTyped, MapsTyped, WorkingOnOne, shared
  <2>2. adding' \in [Op -> SUBSET Operation] /\ created' \subseteq Op
    BY <1>3, CheckQueueTyped
  <2> QED BY <1>3, <2>1, <2>2 DEF CheckQueue, shared
<1>4. ASSUME NEW o \in Op, AddOperation(o) PROVE Typed'
  <2>1. PICK x \in adding[o] :
          /\ operations' = [operations EXCEPT ![o] = {x}]
          /\ queues' = [queues EXCEPT ![x.source] = Append(@, o)]
          /\ adding' = [adding EXCEPT ![o] = {}]
    BY <1>4 DEF AddOperation
  <2>2. x \in Operation BY DEF Typed, TypeOK
  <2>3. x.source \in Chain BY <2>2 DEF Operation
  <2>4. Append(queues[x.source], o) \in Seq(Op) BY <2>3 DEF MapsTyped
  <2>5. UNCHANGED <<completed, adapters, worker, turn, created, finalTx, submissions>>
    BY <1>4 DEF AddOperation, hist
  <2>6. WorkersTyped' BY <2>5 DEF WorkersTyped, WorkingOnOne
  <2>7. MapsTyped' BY <2>1, <2>2, <2>3, <2>4, <2>5 DEF MapsTyped
  <2>8. adding' \in [Op -> SUBSET Operation] BY <2>1
  <2> QED BY <2>5, <2>6, <2>7, <2>8
<1>5. ASSUME NEW o \in Op, ApiCall(o) PROVE Typed'
  <2>1. UNCHANGED <<adding, worker, turn, created, finalTx, submissions>>
    BY <1>5 DEF ApiCall, hist
  <2>2. Rewritten(o) \/ CompleteOperation(o)
    BY <1>5, UpdatesRewrite, SyncAssumption DEF ApiCall
  <2>3. MapsTyped' BY <2>2, RewrittenTyped, CompletedTyped
  <2>4. adapters' = adapters BY <2>2 DEF Rewritten, CompleteOperation
  <2>5. WorkersTyped' BY <2>1 DEF WorkersTyped, WorkingOnOne
  <2> QED BY <2>1, <2>3, <2>4, <2>5
<1>6. ASSUME NEW w \in Worker, NEW c \in Chain, Start(w, c) PROVE WorkersTyped'
  <2>1. Idle \in WorkerRec /\ Idle.step = "idle" BY DEF Idle, WorkerRec, Step
  <2>2. CASE worker' = [worker EXCEPT ![w] = Idle]
    BY <2>1, <2>2, CallTyped
  <2>3. ASSUME NEW b \in Seq(Op), b # <<>>,
               worker' = [worker EXCEPT ![w] = [step |-> "fetch", batch |-> b, snap |-> {}]]
        PROVE  WorkersTyped'
    <3>1. [step |-> "fetch", batch |-> b, snap |-> {}] \in WorkerRec BY DEF WorkerRec, Step
    <3> QED BY <2>3, <3>1, CallTyped
  <2> QED BY <1>6, <2>2, <2>3, StartTyped
<1>7. CASE RunStart
  <2>1. Run \in Worker /\ ChainOrder[turn] \in Chain /\ Len(ChainOrder) \in Nat
    BY SyncAssumption DEF Worker
  <2>2. Start(Run, ChainOrder[turn]) BY <1>7 DEF RunStart
  <2>3. WorkersTyped' BY <1>6, <2>1, <2>2
  <2>4. turn' \in 1 .. Len(ChainOrder)
    BY <1>7, <2>1 DEF RunStart
  <2>5. MapsTyped' BY <1>7 DEF RunStart, shared, MapsTyped
  <2> QED BY <1>7, <2>3, <2>4, <2>5 DEF RunStart, shared, hist
<1>8. ASSUME NEW w \in Caller, NEW c \in Chain, CallerStart(w, c) PROVE Typed'
  <2>1. w \in Worker /\ Start(w, c) BY <1>8 DEF CallerStart, Worker
  <2>2. WorkersTyped' BY <1>6, <2>1
  <2>3. MapsTyped' BY <1>8 DEF CallerStart, shared, MapsTyped
  <2> QED BY <1>8, <2>2, <2>3 DEF CallerStart, shared, hist
<1>9. ASSUME NEW w \in Worker, WorkerStep(w) PROVE Typed'
  <2>1. WorkersTyped' BY <1>9, CallKeepsTyped
  <2>2. worker[w].step # "idle" /\ UNCHANGED <<adding, turn, created, adapters>>
    BY <1>9, CallOnMaps
  <2>3. Current(w) \in Op /\ worker[w] \in WorkerRec BY <2>2, CallMoves
  <2>4. MapsTyped'
    <3>1. CASE UNCHANGED <<operations, queues, completed>> BY <3>1 DEF MapsTyped
    <3> QED BY <1>9, <2>3, <3>1, CallOnMaps, RewrittenTyped, CompletedTyped
  <2>5. finalTx' \subseteq Chain \X Tx /\ submissions' \in [Op -> 0 .. 2]
    <3>1. ASSUME NEW x \in worker[w].snap
          PROVE  {<<x.source, t>> : t \in x.tx} \subseteq Chain \X Tx
      <4>1. x \in Operation BY <2>3 DEF WorkerRec
      <4> QED BY <4>1 DEF Operation
    <3>2. CASE Confirm(w) BY <3>1, <3>2 DEF Confirm
    <3>3. CASE Submit(w)
      <4>1. submissions' \in [Op -> 0 .. 2] BY <2>3, <3>3 DEF Submit
      <4> QED BY <3>3, <4>1 DEF Submit
    <3>4. CASE ~ Confirm(w) /\ ~ Submit(w)
      BY <1>9, <3>4 DEF WorkerStep, Fetch, MarkTimedOut, Fail, SetDestinationTx, Complete, hist
    <3> QED BY <3>2, <3>3, <3>4
  <2> QED BY <2>1, <2>2, <2>4, <2>5
<1>10. CASE Tick
  <2>1. operations' \in [Op -> SUBSET Operation] /\ adding' \in [Op -> SUBSET Operation]
    BY <1>10, CloserTyped DEF Tick, Typed, TypeOK
  <2>2. WorkersTyped' /\ MapsTyped'
    BY <1>10, <2>1 DEF Tick, WorkersTyped, MapsTyped, WorkingOnOne
  <2> QED BY <1>10, <2>1, <2>2 DEF Tick, hist
<1> QED BY <1>1, <1>2, <1>3, <1>4, <1>5, <1>7, <1>8, <1>9, <1>10 DEF Next

\* TypeOK: every variable of the manager keeps its type, and the history of
\* completed operations never outgrows max_completed.
THEOREM TypeCorrect == Spec => []TypeOK
<1>1. Typed => TypeOK BY DEF Typed
<1> QED BY TypedInit, TypedNext, <1>1, PTL DEF Spec
-----------------------------------------------------------------------------
(* The maps and the queues.                                                 *)

LEMMA AppendIn ==
  ASSUME NEW q \in Seq(Op), NEW o \in Op
  PROVE  /\ \A p \in Op : In(p, Append(q, o)) <=> In(p, q) \/ p = o
         /\ NoRepeats(q) /\ ~ In(o, q) => NoRepeats(Append(q, o))
<1> DEFINE a == Append(q, o)
<1>1. /\ Len(q) \in Nat /\ Len(a) = Len(q) + 1 /\ a[Len(q) + 1] = o
      /\ \A i \in 1 .. Len(q) : a[i] = q[i]
  OBVIOUS
<1> HIDE DEF a
<1>2. ASSUME NEW p \in Op PROVE In(p, a) <=> In(p, q) \/ p = o
  <2>1. ASSUME In(p, a) PROVE In(p, q) \/ p = o
    <3>1. PICK i \in 1 .. Len(q) + 1 : a[i] = p BY <1>1, <2>1 DEF In
    <3>2. i \in 1 .. Len(q) \/ i = Len(q) + 1 BY <1>1, <3>1
    <3> QED BY <1>1, <3>1, <3>2 DEF In
  <2>2. In(p, q) => In(p, a) BY <1>1 DEF In
  <2>3. p = o => In(p, a) BY <1>1 DEF In
  <2> QED BY <2>1, <2>2, <2>3
<1>3. ASSUME NoRepeats(q), ~ In(o, q), NEW i \in 1 .. Len(a), NEW j \in 1 .. Len(a), a[i] = a[j]
      PROVE  i = j
  <2>1. i \in 1 .. Len(q) + 1 /\ j \in 1 .. Len(q) + 1 BY <1>1
  <2>2. \A k \in 1 .. Len(q) : a[k] # o BY <1>1, <1>3 DEF In
  <2>3. CASE i \in 1 .. Len(q) /\ j \in 1 .. Len(q) BY <1>1, <1>3, <2>3 DEF NoRepeats
  <2>4. CASE i = Len(q) + 1 \/ j = Len(q) + 1 BY <1>1, <1>3, <2>1, <2>2, <2>4
  <2> QED BY <1>1, <2>1, <2>3, <2>4
<1> QED BY <1>2, <1>3 DEF a, NoRepeats

\* The history of completed operations after one more.
LEMMA CompletedIn ==
  ASSUME Typed, NEW o \in Op,
         completed' = (IF Len(completed) < MaxCompleted THEN completed
                                                        ELSE Tail(completed)) \o <<o>>
  PROVE  \A p \in Op : In(p, completed') => In(p, completed) \/ p = o
<1> DEFINE rest == IF Len(completed) < MaxCompleted THEN completed ELSE Tail(completed)
<1>1. completed \in Seq(Op) /\ MaxCompleted \in Nat \ {0} /\ Len(completed) \in Nat
  BY SyncAssumption DEF Typed, TypeOK
<1>2. rest \in Seq(Op) /\ \A p \in Op : In(p, rest) => In(p, completed)
  <2>1. CASE Len(completed) < MaxCompleted BY <1>1, <2>1
  <2>2. CASE ~ (Len(completed) < MaxCompleted)
    <3>1. completed # <<>> BY <1>1, <2>2
    <3>2. Tail(completed) \in Seq(Op) /\ Len(Tail(completed)) = Len(completed) - 1
          /\ \A i \in 1 .. Len(completed) - 1 : Tail(completed)[i] = completed[i + 1]
      BY <1>1, <3>1
    <3> DEFINE t == Tail(completed)
    <3>3. rest = t BY <2>2
    <3> HIDE DEF rest, t
    <3>4. ASSUME NEW p \in Op, In(p, t) PROVE In(p, completed)
      <4>1. PICK i \in 1 .. Len(t) : t[i] = p BY <3>4 DEF In
      <4>2. i + 1 \in 1 .. Len(completed) /\ completed[i + 1] = p
        <5>1. Len(t) = Len(completed) - 1 /\ \A j \in 1 .. Len(t) : t[j] = completed[j + 1]
          BY <3>2 DEF t
        <5> QED BY <1>1, <4>1, <5>1
      <4> QED BY <4>2 DEF In
    <3> QED BY <3>2, <3>3, <3>4 DEF t
  <2> QED BY <2>1, <2>2
<1> HIDE DEF rest
<1>3. completed' = Append(rest, o)
  <2>1. completed' = rest \o <<o>> BY DEF rest
  <2>2. rest \o <<o>> = Append(rest, o) BY <1>2
  <2> QED BY <2>1, <2>2
<1>4. \A p \in Op : In(p, Append(rest, o)) <=> In(p, rest) \/ p = o
  BY <1>2, AppendIn
<1> QED BY <1>2, <1>3, <1>4

LEMMA KindOfStep ==
  ASSUME Typed, Next
  PROVE  \/ UNCHANGED <<operations, queues, completed, adding, created>>
         \/ \E o \in Op, c, d \in Chain, tx \in {{}} \cup {{t} : t \in Tx}, k \in Timeouts :
              CheckQueue(o, c, d, tx, k)
         \/ \E o \in Op : AddOperation(o)
         \/ \E o \in Op : Rewritten(o) /\ UNCHANGED <<adding, created>>
         \/ \E o \in Op : CompleteOperation(o) /\ UNCHANGED <<adding, created>>
         \/ Tick
<1>1. ASSUME NEW o \in Op, ApiCall(o)
      PROVE  (Rewritten(o) \/ CompleteOperation(o)) /\ UNCHANGED <<adding, created>>
  BY <1>1, UpdatesRewrite, SyncAssumption DEF ApiCall, hist
<1>2. ASSUME NEW w \in Worker, WorkerStep(w)
      PROVE  /\ Current(w) \in Op /\ UNCHANGED <<adding, created>>
             /\ \/ UNCHANGED <<operations, queues, completed>>
                \/ Rewritten(Current(w)) \/ CompleteOperation(Current(w))
  BY <1>2, CallOnMaps, CallMoves
<1>3. ASSUME NEW c \in Chain, RegisterAdapter(c)
      PROVE  UNCHANGED <<operations, queues, completed, adding, created>>
  BY <1>3 DEF RegisterAdapter, hist
<1>4. RunStart => UNCHANGED <<operations, queues, completed, adding, created>>
  BY DEF RunStart, shared, hist
<1>5. ASSUME NEW w \in Caller, NEW c \in Chain, CallerStart(w, c)
      PROVE  UNCHANGED <<operations, queues, completed, adding, created>>
  BY <1>5 DEF CallerStart, shared, hist
<1>6. CASE \E o \in Op : ApiCall(o) BY <1>1, <1>6
<1>7. CASE \E w \in Worker : WorkerStep(w) BY <1>2, <1>7
<1>8. CASE \E c \in Chain : RegisterAdapter(c) BY <1>3, <1>8
<1>9. CASE \E w \in Caller, c \in Chain : CallerStart(w, c) BY <1>5, <1>9
<1> QED BY <1>4, <1>6, <1>7, <1>8, <1>9 DEF Next

LEMMA CheckQueueKeepsMaps ==
  ASSUME Typed, MapsInv, NEW o \in Op, NEW c \in Chain, NEW d \in Chain, NEW tx, NEW k,
         CheckQueue(o, c, d, tx, k)
  PROVE  MapsInv'
<1>1. /\ o \notin created /\ UNCHANGED <<operations, queues, completed>>
      /\ created' = created \cup {o}
      /\ \E x : adding' = [adding EXCEPT ![o] = {x}]
  BY DEF CheckQueue, shared
<1>2. PICK x : adding' = [adding EXCEPT ![o] = {x}] BY <1>1
<1>3. \A p \in Op : adding'[p] = IF p = o THEN {x} ELSE adding[p]
  BY <1>2 DEF Typed, TypeOK
<1> QED BY <1>1, <1>3 DEF MapsInv, In, NoRepeats

LEMMA AddKeepsMaps ==
  ASSUME Typed, MapsInv, NEW o \in Op, AddOperation(o)
  PROVE  MapsInv'
<1>1. PICK x \in adding[o] :
        /\ operations' = [operations EXCEPT ![o] = {x}]
        /\ queues' = [queues EXCEPT ![x.source] = Append(@, o)]
        /\ adding' = [adding EXCEPT ![o] = {}]
  BY DEF AddOperation
<1>2. UNCHANGED <<completed, created>>
  BY DEF AddOperation, hist
<1>3. x \in Operation /\ x.source \in Chain
  <2>1. x \in Operation BY DEF Typed, TypeOK
  <2> QED BY <2>1 DEF Operation
<1>4. /\ \A p \in Op : operations'[p] = IF p = o THEN {x} ELSE operations[p]
      /\ \A p \in Op : adding'[p] = IF p = o THEN {} ELSE adding[p]
      /\ \A c \in Chain : queues'[c] = IF c = x.source THEN Append(queues[c], o) ELSE queues[c]
      /\ \A c \in Chain : queues[c] \in Seq(Op)
  BY <1>1 DEF Typed, TypeOK
<1>5. operations[o] = {} /\ o \in created
  BY <1>1 DEF MapsInv
<1>6. \A c \in Chain : ~ In(o, queues[c])
  BY <1>5 DEF MapsInv
<1>7. \A c \in Chain : NoRepeats(queues'[c])
  BY <1>4, <1>6, AppendIn DEF MapsInv
<1>8. ASSUME NEW c \in Chain, NEW p \in Op
      PROVE  In(p, queues'[c]) <=> \E y \in operations'[p] : y.source = c
  <2>1. In(p, queues'[c]) <=> In(p, queues[c]) \/ (c = x.source /\ p = o)
    BY <1>4, AppendIn
  <2>2. CASE p = o BY <1>4, <1>6, <2>1, <2>2
  <2>3. CASE p # o BY <1>4, <2>1, <2>3 DEF MapsInv
  <2> QED BY <2>2, <2>3
<1>9. \A p \in Op : In(p, completed') => operations'[p] = {} /\ adding'[p] = {} /\ p \in created'
  BY <1>1, <1>2, <1>4 DEF MapsInv
<1> QED BY <1>2, <1>4, <1>5, <1>7, <1>8, <1>9 DEF MapsInv

LEMMA RewriteKeepsMaps ==
  ASSUME Typed, MapsInv, NEW o \in Op, Rewritten(o), UNCHANGED <<adding, created>>
  PROVE  MapsInv'
<1>1. PICK x \in operations[o], y \in Operation :
        /\ y.source = x.source /\ operations' = [operations EXCEPT ![o] = {y}]
        /\ UNCHANGED <<queues, completed>>
  BY DEF Rewritten, Change
<1>2. \A p \in Op : operations'[p] = IF p = o THEN {y} ELSE operations[p]
  BY <1>1 DEF Typed, TypeOK
<1>3. ASSUME NEW c \in Chain, NEW p \in Op
      PROVE  In(p, queues'[c]) <=> \E z \in operations'[p] : z.source = c
  <2>1. In(p, queues[c]) <=> \E z \in operations[p] : z.source = c BY DEF MapsInv
  <2>2. CASE p = o
    <3>1. \A z \in operations[o] : z = x BY <1>1 DEF MapsInv
    <3> QED BY <1>1, <1>2, <2>1, <2>2, <3>1
  <2>3. CASE p # o BY <1>1, <1>2, <2>1, <2>3
  <2> QED BY <2>2, <2>3
<1>4. ~ In(o, completed) BY <1>1 DEF MapsInv
<1>5. \A p \in Op : In(p, completed') => operations'[p] = {} /\ adding'[p] = {} /\ p \in created'
  BY <1>1, <1>2, <1>4 DEF MapsInv
<1> QED BY <1>1, <1>2, <1>3, <1>5 DEF MapsInv

LEMMA CompleteKeepsMaps ==
  ASSUME Typed, MapsInv, NEW o \in Op, CompleteOperation(o), UNCHANGED <<adding, created>>
  PROVE  MapsInv'
<1>1. PICK x \in operations[o] :
        /\ operations' = [operations EXCEPT ![o] = {}]
        /\ queues' = [queues EXCEPT ![x.source] = Without(@, o)]
        /\ completed' = (IF Len(completed) < MaxCompleted THEN completed
                                                          ELSE Tail(completed)) \o <<o>>
  BY DEF CompleteOperation
<1>2. x \in Operation /\ x.source \in Chain
  <2>1. x \in Operation BY DEF Typed, TypeOK
  <2> QED BY <2>1 DEF Operation
<1>3. /\ \A p \in Op : operations'[p] = IF p = o THEN {} ELSE operations[p]
      /\ \A c \in Chain : queues'[c] = IF c = x.source THEN Without(queues[c], o) ELSE queues[c]
      /\ \A c \in Chain : queues[c] \in Seq(Op)
  BY <1>1 DEF Typed, TypeOK
<1>4. \A c \in Chain : NoRepeats(queues'[c])
  BY <1>3, WithoutKeepsOthers DEF MapsInv
<1>5. ASSUME NEW c \in Chain, NEW p \in Op
      PROVE  In(p, queues'[c]) <=> \E y \in operations'[p] : y.source = c
  <2>1. In(p, queues[c]) <=> \E y \in operations[p] : y.source = c BY DEF MapsInv
  <2>2. CASE c = x.source
    <3>1. In(p, queues'[c]) <=> In(p, queues[c]) /\ p # o
      BY <1>3, <2>2, WithoutKeepsOthers
    <3> QED BY <1>3, <2>1, <3>1
  <2>3. CASE c # x.source
    <3>1. queues'[c] = queues[c] BY <1>3, <2>3
    <3>2. p = o => ~ \E y \in operations[p] : y.source = c
      BY <1>1, <2>3 DEF MapsInv
    <3> QED BY <1>3, <2>1, <3>1, <3>2
  <2> QED BY <2>2, <2>3
<1>6. \A p \in Op : In(p, completed') => operations'[p] = {} /\ adding'[p] = {} /\ p \in created'
  <2>1. \A p \in Op : In(p, completed') => In(p, completed) \/ p = o
    BY <1>1, CompletedIn
  <2>2. operations'[o] = {} /\ adding[o] = {} /\ o \in created
    BY <1>1, <1>3 DEF MapsInv
  <2> QED BY <1>3, <2>1, <2>2 DEF MapsInv
<1> QED BY <1>3, <1>4, <1>5, <1>6 DEF MapsInv

LEMMA TickKeepsMaps ==
  ASSUME Typed, MapsInv, Tick
  PROVE  MapsInv'
<1>1. /\ UNCHANGED <<queues, completed, created>>
      /\ \A o \in Op : operations'[o] = Closer(operations[o]) /\ adding'[o] = Closer(adding[o])
  BY DEF Tick, hist
<1>2. ASSUME NEW xs \in SUBSET Operation, \A x, y \in xs : x = y
      PROVE  \A x, y \in Closer(xs) : x = y
  BY <1>2 DEF Closer
<1>3. \A o \in Op : operations[o] \in SUBSET Operation /\ adding[o] \in SUBSET Operation
  BY DEF Typed, TypeOK
<1>4. \A o \in Op : (operations'[o] = {} <=> operations[o] = {})
                    /\ (adding'[o] = {} <=> adding[o] = {})
  BY <1>1, <1>3, CloserTyped
<1>5. ASSUME NEW c \in Chain, NEW o \in Op
      PROVE  (\E x \in operations'[o] : x.source = c) <=> \E x \in operations[o] : x.source = c
  BY <1>1, <1>3, CloserTyped
<1>6. \A o \in Op : \A x, y \in operations'[o] : x = y
  BY <1>1, <1>2, <1>3 DEF MapsInv
<1>7. \A o \in Op : \A x, y \in adding'[o] : x = y
  BY <1>1, <1>2, <1>3 DEF MapsInv
<1> QED BY <1>1, <1>4, <1>5, <1>6, <1>7 DEF MapsInv

LEMMA MapsNext == Typed /\ MapsInv /\ [Next]_vars => MapsInv'
<1> SUFFICES ASSUME Typed, MapsInv, [Next]_vars PROVE MapsInv'
  OBVIOUS
<1>1. CASE UNCHANGED <<operations, queues, completed, adding, created>>
  BY <1>1 DEF MapsInv
<1>2. UNCHANGED vars => UNCHANGED <<operations, queues, completed, adding, created>>
  BY DEF vars, shared, hist
<1>3. CASE \E o \in Op, c, d \in Chain, tx \in {{}} \cup {{t} : t \in Tx}, k \in Timeouts :
             CheckQueue(o, c, d, tx, k)
  BY <1>3, CheckQueueKeepsMaps
<1> QED BY <1>1, <1>2, <1>3, KindOfStep, AddKeepsMaps, RewriteKeepsMaps, CompleteKeepsMaps,
           TickKeepsMaps
LEMMA MapsMatch == ASSUME Typed, MapsInv PROVE QueuesMatchOperations
<1>1. ASSUME NEW o \in Op, NEW c \in Chain
      PROVE  Cardinality({i \in 1 .. Len(queues[c]) : queues[c][i] = o}) =
               IF \E x \in operations[o] : x.source = c THEN 1 ELSE 0
  <2> DEFINE at == {i \in 1 .. Len(queues[c]) : queues[c][i] = o}
  <2>1. at # {} <=> \E x \in operations[o] : x.source = c BY DEF MapsInv, In
  <2>2. \A i, j \in at : i = j BY DEF MapsInv, NoRepeats
  <2> HIDE DEF at
  <2>3. CASE at = {} BY <2>1, <2>3, FS_EmptySet DEF at
  <2>4. CASE at # {}
    <3>1. PICK i : at = {i} BY <2>2, <2>4
    <3>2. Cardinality(at) = 1 BY <3>1, FS_Singleton
    <3> QED BY <2>1, <2>4, <3>2 DEF at
  <2> QED BY <2>3, <2>4
<1>2. ASSUME NEW i \in 1 .. Len(completed) PROVE operations[completed[i]] = {}
  <2>1. completed[i] \in Op BY DEF Typed, TypeOK
  <2>2. In(completed[i], completed) BY DEF In
  <2> QED BY <2>1, <2>2 DEF MapsInv
<1> QED BY <1>1, <1>2 DEF QueuesMatchOperations

LEMMA MapsInit == Init => MapsInv
<1> SUFFICES ASSUME Init PROVE MapsInv
  OBVIOUS
<1>1. /\ \A o \in Op : operations[o] = {} /\ adding[o] = {}
      /\ \A c \in Chain : Len(queues[c]) = 0
      /\ Len(completed) = 0
  BY DEF Init
<1> QED BY <1>1 DEF MapsInv, In, NoRepeats

\* QueuesMatchOperations: through every interleaving of add_operation,
\* complete_operation and process_chain an operation is known exactly while its
\* id is once in its source chain's queue and in no other, and what is completed
\* is not pending.
THEOREM QueuesAlwaysMatch == Spec => []QueuesMatchOperations
<1>1. Init => Typed /\ MapsInv BY TypedInit, MapsInit
<1>2. Typed /\ MapsInv /\ [Next]_vars => (Typed /\ MapsInv)' BY TypedNext, MapsNext
<1>3. Typed /\ MapsInv => QueuesMatchOperations BY MapsMatch
<1> QED BY <1>1, <1>2, <1>3, PTL DEF Spec

-----------------------------------------------------------------------------
(* What a call works on, and what was submitted.                            *)

\* An id that was in the map is never added again, so once it has left the map
\* it stays out.
LEMMA GoneStaysGone ==
  ASSUME Typed, MapsInv, [Next]_vars
  PROVE  \A o \in Op : o \in created /\ adding[o] = {} =>
           /\ o \in created' /\ adding'[o] = {}
           /\ operations[o] = {} => operations'[o] = {}
<1> SUFFICES ASSUME NEW o \in Op, o \in created, adding[o] = {}
             PROVE  /\ o \in created' /\ adding'[o] = {}
                    /\ operations[o] = {} => operations'[o] = {}
  OBVIOUS
<1>0. operations \in [Op -> SUBSET Operation] /\ adding \in [Op -> SUBSET Operation]
  BY DEF Typed, TypeOK
<1>1. CASE UNCHANGED <<operations, queues, completed, adding, created>>
  BY <1>1
<1>2. UNCHANGED vars => UNCHANGED <<operations, queues, completed, adding, created>>
  BY DEF vars, shared, hist
<1>3. ASSUME NEW p \in Op, NEW c, NEW d, NEW tx, NEW k, CheckQueue(p, c, d, tx, k)
      PROVE  o \in created' /\ adding'[o] = {} /\ operations' = operations
  BY <1>0, <1>3 DEF CheckQueue, shared
<1>4. ASSUME NEW p \in Op, AddOperation(p)
      PROVE  o \in created' /\ adding'[o] = {} /\ (operations[o] = {} => operations'[o] = {})
  BY <1>0, <1>4 DEF AddOperation, hist
<1>5. ASSUME NEW p \in Op, Rewritten(p), UNCHANGED <<adding, created>>
      PROVE  o \in created' /\ adding'[o] = {} /\ (operations[o] = {} => operations'[o] = {})
  BY <1>0, <1>5 DEF Rewritten, Change
<1>6. ASSUME NEW p \in Op, CompleteOperation(p), UNCHANGED <<adding, created>>
      PROVE  o \in created' /\ adding'[o] = {} /\ (operations[o] = {} => operations'[o] = {})
  BY <1>0, <1>6 DEF CompleteOperation
<1>7. CASE Tick
  BY <1>0, <1>7, CloserTyped DEF Tick, hist
<1>8. CASE \E p \in Op, c, d \in Chain, tx \in {{}} \cup {{t} : t \in Tx}, k \in Timeouts :
             CheckQueue(p, c, d, tx, k)
  BY <1>3, <1>8
<1> QED BY <1>1, <1>2, <1>4, <1>5, <1>6, <1>7, <1>8, KindOfStep

\* Only a step of a call makes it look different, and one call at a time.
LEMMA CallOrNot ==
  ASSUME Typed, [Next]_vars
  PROVE  \/ UNCHANGED <<worker, finalTx, submissions>>
         \/ \E w \in Worker : WorkerStep(w)
         \/ \E w \in Worker, c \in Chain :
              /\ worker[w].step = "idle" /\ Start(w, c)
              /\ UNCHANGED <<operations, queues, completed, adding, created, finalTx, submissions>>
<1>1. RunStart => \E w \in Worker, c \in Chain :
              /\ worker[w].step = "idle" /\ Start(w, c)
              /\ UNCHANGED <<operations, queues, completed, adding, created, finalTx, submissions>>
  <2>1. Run \in Worker /\ ChainOrder[turn] \in Chain
    BY SyncAssumption DEF Typed, TypeOK, Worker
  <2> QED BY <2>1 DEF RunStart, shared, hist
<1>2. ASSUME NEW w \in Caller, NEW c \in Chain, CallerStart(w, c)
      PROVE  /\ w \in Worker /\ worker[w].step = "idle" /\ Start(w, c)
             /\ UNCHANGED <<operations, queues, completed, adding, created, finalTx, submissions>>
  BY <1>2 DEF CallerStart, Worker, shared, hist
<1>3. ASSUME NEW c \in Chain, RegisterAdapter(c) PROVE UNCHANGED <<worker, finalTx, submissions>>
  BY <1>3 DEF RegisterAdapter, hist
<1>4. ASSUME NEW o, NEW c, NEW d, NEW tx, NEW k, CheckQueue(o, c, d, tx, k)
      PROVE  UNCHANGED <<worker, finalTx, submissions>>
  BY <1>4 DEF CheckQueue
<1>5. ASSUME NEW o, AddOperation(o) \/ ApiCall(o) PROVE UNCHANGED <<worker, finalTx, submissions>>
  BY <1>5 DEF AddOperation, ApiCall, hist
<1>6. Tick => UNCHANGED <<worker, finalTx, submissions>>
  BY DEF Tick, hist
<1>7. UNCHANGED vars => UNCHANGED <<worker, finalTx, submissions>>
  BY DEF vars, hist
<1>8. CASE \E w \in Caller, c \in Chain : CallerStart(w, c) BY <1>2, <1>8
<1>9. CASE \/ \E c \in Chain : RegisterAdapter(c)
           \/ \E o \in Op, c, d \in Chain, tx \in {{}} \cup {{t} : t \in Tx}, k \in Timeouts :
                CheckQueue(o, c, d, tx, k)
           \/ \E o \in Op : AddOperation(o) \/ ApiCall(o)
  BY <1>3, <1>4, <1>5, <1>9
<1> QED BY <1>1, <1>6, <1>7, <1>8, <1>9 DEF Next

\* Confirm and Submit alone write the histories.
LEMMA HistoryOfCall ==
  ASSUME Typed, NEW w \in Worker, WorkerStep(w)
  PROVE  /\ finalTx \subseteq finalTx'
         /\ \/ submissions' = submissions
            \/ /\ worker[w].step = "submit"
               /\ submissions' = [submissions EXCEPT ![Current(w)] = IF @ < 2 THEN @ + 1 ELSE @]
               /\ worker' = [worker EXCEPT ![w] =
                    [step |-> "settle", batch |-> worker[w].batch, snap |-> worker[w].snap]]
<1>1. CASE Confirm(w) BY <1>1 DEF Confirm
<1>2. CASE Submit(w)
  <2>1. worker[w].step = "submit" /\ finalTx' = finalTx BY <1>2 DEF Submit
  <2>2. CASE submissions' = submissions BY <2>1, <2>2
  <2>3. CASE submissions' # submissions
    <3>1. /\ submissions' = [submissions EXCEPT ![Current(w)] = IF @ < 2 THEN @ + 1 ELSE @]
          /\ GoTo(w, "settle")
      BY <1>2, <2>3 DEF Submit
    <3>2. "settle" \in Step BY DEF Step
    <3> QED BY <2>1, <3>1, <3>2, CallMoves
  <2> QED BY <2>2, <2>3
<1>3. CASE ~ Confirm(w) /\ ~ Submit(w)
  BY <1>3 DEF WorkerStep, Fetch, MarkTimedOut, Fail, SetDestinationTx, Complete, hist
<1> QED BY <1>1, <1>2, <1>3
LEMMA ClonesNext ==
  ASSUME Typed, MapsInv, ClonesInv, [Next]_vars
  PROVE  ClonesInv'
<1> DEFINE There(r) == \A i \in 1 .. Len(r.batch) :
                         r.batch[i] \in created' /\ adding'[r.batch[i]] = {}
           Clone(r) == /\ r.step \in {"confirm", "submit"} => \A x \in r.snap : x.tx # {}
                       /\ r.step = "submit" =>
                            \E x \in r.snap : \E t \in x.tx : <<x.source, t>> \in finalTx'
<1> SUFFICES ASSUME NEW v \in Worker PROVE There(worker'[v]) /\ Clone(worker'[v])
  BY DEF ClonesInv, WasThere
<1>1. finalTx \subseteq finalTx'
  BY CallOrNot, HistoryOfCall
<1>2. worker \in [Worker -> WorkerRec]
  BY DEF Typed, TypeOK, WorkerRec
<1>3. ASSUME NEW w \in Worker PROVE There(worker[w]) /\ Clone(worker[w])
  <2>1. worker[w].batch \in Seq(Op) BY <1>2 DEF WorkerRec
  <2>2. There(worker[w])
    <3> DEFINE b == worker[w].batch
    <3>1. \A i \in 1 .. Len(b) : b[i] \in created /\ adding[b[i]] = {}
      BY DEF ClonesInv, WasThere
    <3>2. b \in Seq(Op) BY <2>1
    <3> HIDE DEF b
    <3>3. \A i \in 1 .. Len(b) : b[i] \in created' /\ adding'[b[i]] = {}
      <4> TAKE i \in 1 .. Len(b)
      <4>1. b[i] \in Op BY <3>2
      <4> QED BY <3>1, <4>1, GoneStaysGone
    <3> QED BY <3>3 DEF b
  <2>3. Clone(worker[w]) BY <1>1 DEF ClonesInv
  <2> QED BY <2>2, <2>3
<1>4. There(Idle) /\ Clone(Idle)
  BY DEF Idle
<1> HIDE DEF There, Clone
<1>5. CASE UNCHANGED <<worker, finalTx, submissions>> BY <1>3, <1>5
<1>6. ASSUME NEW w \in Worker, NEW c \in Chain, Start(w, c),
             UNCHANGED <<operations, queues, completed, adding, created, finalTx, submissions>>
      PROVE  There(worker'[v]) /\ Clone(worker'[v])
  <2>1. CASE worker' = [worker EXCEPT ![w] = Idle] BY <1>2, <1>3, <1>4, <2>1
  <2>2. ASSUME NEW b \in Seq(Op), Len(b) <= Len(queues[c]),
               \A i \in 1 .. Len(b) : b[i] = queues[c][i],
               worker' = [worker EXCEPT ![w] = [step |-> "fetch", batch |-> b, snap |-> {}]]
        PROVE  There(worker'[v]) /\ Clone(worker'[v])
    <3> DEFINE r == [step |-> "fetch", batch |-> b, snap |-> {}]
    <3>1. ASSUME NEW i \in 1 .. Len(b) PROVE b[i] \in created' /\ adding'[b[i]] = {}
      <4>1. i \in 1 .. Len(queues[c]) /\ b[i] \in Op /\ b[i] = queues[c][i]
        BY <2>2 DEF Typed, TypeOK
      <4>2. operations[b[i]] # {} BY <4>1 DEF MapsInv, In
      <4> QED BY <1>6, <4>1, <4>2 DEF MapsInv
    <3>2. There(r) BY <3>1 DEF There
    <3>3. Clone(r) BY DEF Clone
    <3>4. worker' = [worker EXCEPT ![w] = r] BY <2>2
    <3> HIDE DEF r
    <3> QED BY <1>2, <1>3, <3>2, <3>3, <3>4
  <2> QED BY <1>6, <2>1, <2>2, StartTyped
<1>7. ASSUME NEW w \in Worker, WorkerStep(w)
      PROVE  There(worker'[v]) /\ Clone(worker'[v])
  <2> DEFINE b == worker[w].batch
             after(r) == worker' = [worker EXCEPT ![w] = r]
  <2>0. worker[w].step # "idle" BY <1>7, CallOnMaps
  <2>1. b \in Seq(Op) /\ Len(b) \in Nat
        /\ (Len(b) > 1 => /\ Len(Tail(b)) = Len(b) - 1
                          /\ \A i \in 1 .. Len(b) - 1 : Tail(b)[i] = b[i + 1])
    BY <2>0, CallMoves
  <2>2. ASSUME NEW r, There(r), Clone(r), after(r)
        PROVE  There(worker'[v]) /\ Clone(worker'[v])
    BY <1>2, <1>3, <2>2
  <2>3. ASSUME NEW s, NEW xs PROVE There([step |-> s, batch |-> b, snap |-> xs])
    BY <1>3 DEF There
  <2>4. CASE after(Idle) BY <1>4, <2>2, <2>4
  <2>5. CASE Len(b) > 1 /\ after(NextOne(worker[w]))
    <3>1. There(NextOne(worker[w]))
      <4> DEFINE t == Tail(b)
      <4>1. \A i \in 1 .. Len(t) : i + 1 \in 1 .. Len(b) /\ t[i] = b[i + 1]
        BY <2>1, <2>5
      <4> HIDE DEF t
      <4>2. \A i \in 1 .. Len(t) : t[i] \in created' /\ adding'[t[i]] = {}
        BY <1>3, <4>1 DEF There
      <4> QED BY <4>2 DEF There, NextOne, t
    <3>2. Clone(NextOne(worker[w])) BY DEF Clone, NextOne
    <3> QED BY <2>2, <2>5, <3>1, <3>2
  <2>6. ASSUME NEW x, NEW s \in {"timeout", "confirm"}, s = "confirm" => x.tx # {},
               after([step |-> s, batch |-> b, snap |-> {x}])
        PROVE  There(worker'[v]) /\ Clone(worker'[v])
    <3>1. Clone([step |-> s, batch |-> b, snap |-> {x}]) BY <2>6 DEF Clone
    <3> QED BY <2>2, <2>3, <2>6, <3>1
  <2>7. ASSUME worker[w].step = "confirm", NEW x \in worker[w].snap,
               finalTx' = finalTx \cup {<<x.source, t>> : t \in x.tx},
               after([step |-> "submit", batch |-> b, snap |-> worker[w].snap])
        PROVE  There(worker'[v]) /\ Clone(worker'[v])
    <3>1. \A y \in worker[w].snap : y.tx # {} BY <2>7 DEF ClonesInv
    <3>2. PICK t \in x.tx : TRUE BY <3>1
    <3>3. <<x.source, t>> \in finalTx' BY <2>7, <3>2
    <3>4. Clone([step |-> "submit", batch |-> b, snap |-> worker[w].snap])
      BY <3>1, <3>3 DEF Clone
    <3> QED BY <2>2, <2>3, <2>7, <3>4
  <2>8. ASSUME NEW s \in {"fail", "settle", "complete"},
               after([step |-> s, batch |-> b, snap |-> worker[w].snap])
        PROVE  There(worker'[v]) /\ Clone(worker'[v])
    <3>1. Clone([step |-> s, batch |-> b, snap |-> worker[w].snap]) BY DEF Clone
    <3> QED BY <2>2, <2>3, <2>8, <3>1
  <2> HIDE DEF after
  <2> QED BY <1>7, <2>4, <2>5, <2>6, <2>7, <2>8, CallRecord DEF after
<1> QED BY <1>5, <1>6, <1>7, CallOrNot

LEMMA SubmittedNext ==
  ASSUME Typed, MapsInv, ClonesInv, SubmittedInv, [Next]_vars
  PROVE  SubmittedInv'
<1> SUFFICES ASSUME NEW o \in Op, submissions'[o] > 0
             PROVE  o \in created' /\ adding'[o] = {}
  BY DEF SubmittedInv, WasThere
<1>1. CASE submissions'[o] = submissions[o]
  BY <1>1, GoneStaysGone DEF SubmittedInv, WasThere
<1>2. CASE submissions'[o] # submissions[o]
  <2>1. PICK w \in Worker : WorkerStep(w)
    BY <1>2, CallOrNot
  <2>2. Current(w) \in Op /\ Len(worker[w].batch) \in Nat \ {0} /\ Current(w) = worker[w].batch[1]
    BY <2>1, CallOnMaps, CallMoves
  <2>3. Current(w) = o
    BY <1>2, <2>1, <2>2, HistoryOfCall DEF Typed, TypeOK
  <2>4. WasThere(Current(w)) BY <2>2 DEF ClonesInv
  <2> QED BY <2>3, <2>4, GoneStaysGone DEF WasThere
<1> QED BY <1>1, <1>2

\* What completes or fails to find the operation leaves it out of the map.
LEMMA SettlingStep ==
  ASSUME Typed, NEW w \in Worker, WorkerStep(w), worker[w].step \in {"settle", "complete"}
  PROVE  \/ operations'[Current(w)] = {}
         \/ worker'[w].step = "complete" /\ worker'[w].batch = worker[w].batch
<1>1. Current(w) \in Op /\ operations \in [Op -> SUBSET Operation]
      /\ worker \in [Worker -> WorkerRec]
  BY CallOnMaps, CallMoves DEF Typed, TypeOK, WorkerRec
<1>2. CASE SetDestinationTx(w)
  <2>1. CASE operations[Current(w)] = {}
    BY <1>2, <2>1 DEF SetDestinationTx, Try, Touch, shared
  <2>2. CASE operations[Current(w)] # {}
    <3>1. GoTo(w, "complete") BY <1>2, <2>2 DEF SetDestinationTx, Try
    <3>2. "complete" \in Step BY DEF Step
    <3>3. worker' = [worker EXCEPT ![w] =
            [step |-> "complete", batch |-> worker[w].batch, snap |-> worker[w].snap]]
      BY <3>1, <3>2, CallMoves
    <3> QED BY <1>1, <3>3
  <2> QED BY <2>1, <2>2
<1>3. CASE Complete(w)
  BY <1>1, <1>3 DEF Complete, Try, CompleteOperation, shared
<1> QED BY <1>2, <1>3 DEF WorkerStep, Fetch, MarkTimedOut, Confirm, Submit, Fail

LEMMA SettledNext ==
  ASSUME Inv, [Next]_vars
  PROVE  SubmissionIsSettled'
<1> USE DEF Inv
<1> SUFFICES ASSUME NEW o \in Op, submissions'[o] > 0
             PROVE  \/ operations'[o] = {}
                    \/ \E v \in Worker : /\ worker'[v].step \in {"settle", "complete"}
                                         /\ Head(worker'[v].batch) = o
  BY DEF SubmissionIsSettled, Current
<1>1. worker \in [Worker -> WorkerRec]
  BY DEF Typed, TypeOK, WorkerRec
<1>2. CASE submissions'[o] # submissions[o]
  <2>1. PICK w \in Worker : WorkerStep(w)
    BY <1>2, CallOrNot
  <2>2. Current(w) = o /\ worker' = [worker EXCEPT ![w] =
          [step |-> "settle", batch |-> worker[w].batch, snap |-> worker[w].snap]]
    BY <1>2, <2>1, CallOnMaps, CallMoves, HistoryOfCall DEF Typed, TypeOK
  <2>3. worker'[w].step = "settle" /\ worker'[w].batch = worker[w].batch BY <1>1, <2>2
  <2> QED BY <2>2, <2>3 DEF Current
<1>3. CASE submissions'[o] = submissions[o]
  <2>1. WasThere(o) BY <1>3 DEF SubmittedInv
  <2>2. CASE operations[o] = {}
    BY <2>1, <2>2, GoneStaysGone DEF WasThere
  <2>3. CASE operations[o] # {}
    <3>1. PICK v \in Worker : worker[v].step \in {"settle", "complete"} /\ Head(worker[v].batch) = o
      BY <1>3, <2>3 DEF SubmissionIsSettled, Current
    <3>2. CASE worker'[v] = worker[v] BY <3>1, <3>2
    <3>3. CASE worker'[v] # worker[v]
      <4>1. WorkerStep(v)
        <5>1. ASSUME NEW w \in Worker, NEW c \in Chain, worker[w].step = "idle", Start(w, c)
              PROVE  FALSE
          <6>1. v # w BY <3>1, <5>1
          <6>2. worker'[v] = worker[v] BY <1>1, <5>1, <6>1 DEF Start
          <6> QED BY <3>3, <6>2
        <5>2. ASSUME NEW w \in Worker, WorkerStep(w), w # v PROVE FALSE
          <6>1. \E r : worker' = [worker EXCEPT ![w] = r] BY <5>2, CallRecord
          <6> QED BY <1>1, <3>3, <5>2, <6>1
        <5> QED BY <3>3, <5>1, <5>2, CallOrNot
      <4> QED BY <3>1, <4>1, SettlingStep DEF Current
    <3> QED BY <3>2, <3>3
  <2> QED BY <2>2, <2>3
<1> QED BY <1>2, <1>3

\* A manager without operations satisfies the invariant.
LEMMA InvInit == Init => Inv
<1> SUFFICES ASSUME Init PROVE Inv
  OBVIOUS
<1>1. \A w \in Worker : worker[w].step = "idle" /\ Len(worker[w].batch) = 0
  BY DEF Init, Idle
<1>2. ClonesInv BY <1>1 DEF ClonesInv
<1>3. SubmittedInv /\ SubmissionIsSettled BY DEF Init, SubmittedInv, SubmissionIsSettled
<1> QED BY <1>2, <1>3, TypedInit, MapsInit DEF Inv

LEMMA InvNext == Inv /\ [Next]_vars => Inv'
  BY TypedNext, MapsNext, ClonesNext, SubmittedNext, SettledNext DEF Inv

\* The inductive invariant of the sync manager: types, the agreement of the maps
\* (MapsInv), what a call of process_chain knows of the clone it works on
\* (ClonesInv), and what a submission leaves behind.
THEOREM InvAlways == Spec => []Inv
  BY InvInit, InvNext, PTL DEF Spec

\* SubmissionIsSettled: with any number of tasks in process_chain, an operation
\* the destination accepted has left the map or the call that submitted it is
\* about to take it out, whatever fails or is completed by others meanwhile.
THEOREM SubmissionsAreSettled == Spec => []SubmissionIsSettled
<1>1. Inv => SubmissionIsSettled BY DEF Inv
<1> QED BY InvAlways, <1>1, PTL

\* SubmitsOnlyFinal: what process_chain submits is a clone whose own source
\* transaction was reported final, although set_source_tx may have named
\* another one since.
THEOREM SubmitsFinalOnly == Spec => SubmitsOnlyFinal
<1>1. ASSUME Inv, [Next]_vars
      PROVE  [\A o \in Op : submissions'[o] > submissions[o] =>
                \E w \in Worker : /\ worker[w].step = "submit" /\ Current(w) = o
                                  /\ \E x \in worker[w].snap : \E t \in x.tx :
                                       <<x.source, t>> \in finalTx]_vars
  <2>0. Typed /\ MapsInv /\ ClonesInv BY <1>1 DEF Inv
  <2> SUFFICES ASSUME NEW o \in Op, submissions'[o] > submissions[o]
               PROVE  \E w \in Worker : /\ worker[w].step = "submit" /\ Current(w) = o
                                        /\ \E x \in worker[w].snap : \E t \in x.tx :
                                             <<x.source, t>> \in finalTx
    OBVIOUS
  <2>1. submissions' # submissions
    <3>1. submissions[o] \in Nat BY <2>0 DEF Typed, TypeOK
    <3> QED BY <3>1
  <2>2. PICK w \in Worker : WorkerStep(w)
    BY <1>1, <2>0, <2>1, CallOrNot
  <2>3. worker[w].step = "submit" /\ Current(w) = o
    <3>1. submissions \in [Op -> 0 .. 2] BY <2>0 DEF Typed, TypeOK
    <3>2. Current(w) \in Op BY <2>0, <2>2, CallOnMaps, CallMoves
    <3>3. worker[w].step = "submit" /\
          submissions' = [submissions EXCEPT ![Current(w)] = IF @ < 2 THEN @ + 1 ELSE @]
      BY <2>0, <2>1, <2>2, HistoryOfCall
    <3> QED BY <3>1, <3>2, <3>3
  <2>4. \E x \in worker[w].snap : \E t \in x.tx : <<x.source, t>> \in finalTx
    BY <2>0, <2>3 DEF ClonesInv
  <2> QED BY <2>3, <2>4
<1> QED BY InvAlways, <1>1, PTL DEF Spec, SubmitsOnlyFinal

-----------------------------------------------------------------------------
(* run() alone.                                                             *)

LEMMA AloneNext ==
  ASSUME Caller = {}, Inv, AloneInv, [Next]_vars
  PROVE  AloneInv'
<1> USE DEF Inv
<1>0. Worker = {Run} /\ worker \in [Worker -> WorkerRec] /\ submissions \in [Op -> 0 .. 2]
  BY DEF Worker, Typed, TypeOK, WorkerRec
<1> DEFINE b == worker[Run].batch
           new == worker'[Run].batch
<1>1. b \in Seq(Op) /\ \A i \in 1 .. Len(b) : b[i] \in Op
  BY <1>0 DEF WorkerRec
<1>2. CASE UNCHANGED <<worker, finalTx, submissions>>
  BY <1>2 DEF AloneInv, SubmittedOnce
<1>3. ASSUME NEW w \in Worker, NEW c \in Chain, worker[w].step = "idle", Start(w, c),
             UNCHANGED <<operations, queues, completed, adding, created, finalTx, submissions>>
      PROVE  AloneInv'
  <2>1. w = Run BY <1>0
  <2>2. CASE worker' = [worker EXCEPT ![w] = Idle]
    <3>1. Len(new) = 0 BY <1>0, <2>1, <2>2 DEF Idle
    <3> QED BY <1>3, <3>1 DEF AloneInv, SubmittedOnce, NoRepeats
  <2>3. ASSUME NEW a \in Seq(Op), Len(a) <= Len(queues[c]),
               \A i \in 1 .. Len(a) : a[i] = queues[c][i],
               worker' = [worker EXCEPT ![w] = [step |-> "fetch", batch |-> a, snap |-> {}]]
        PROVE  AloneInv'
    <3>1. new = a BY <1>0, <2>1, <2>3
    <3>2. \A i \in 1 .. Len(a) : i \in 1 .. Len(queues[c]) /\ a[i] \in Op
      BY <2>3 DEF Typed, TypeOK
    <3>3. NoRepeats(a) BY <2>3, <3>2 DEF MapsInv, NoRepeats
    <3>4. ASSUME NEW i \in 1 .. Len(a) PROVE submissions[a[i]] = 0
      <4>1. operations[a[i]] # {} BY <2>3, <3>2 DEF MapsInv, In
      <4>2. ~ (submissions[a[i]] > 0)
        BY <1>0, <1>3, <2>1, <3>2, <4>1 DEF SubmissionIsSettled
      <4> QED BY <1>0, <3>2, <4>2
    <3> QED BY <1>3, <3>1, <3>3, <3>4 DEF AloneInv, SubmittedOnce
  <2> QED BY <1>3, <2>2, <2>3, StartTyped
<1>4. CASE WorkerStep(Run)
  <2> DEFINE after(r) == worker' = [worker EXCEPT ![Run] = r]
             old == worker[Run].step
  <2>0. Run \in Worker /\ old # "idle" BY <1>0, <1>4, CallOnMaps
  <2>1. Len(b) \in Nat \ {0} /\ Current(Run) = b[1]
        /\ (Len(b) > 1 => /\ Len(Tail(b)) = Len(b) - 1
                          /\ \A i \in 1 .. Len(b) - 1 : Tail(b)[i] = b[i + 1])
    BY <2>0, CallMoves
  <2>2. \/ submissions' = submissions
        \/ /\ old = "submit"
           /\ submissions' = [submissions EXCEPT ![b[1]] = IF @ < 2 THEN @ + 1 ELSE @]
           /\ after([step |-> "settle", batch |-> b, snap |-> worker[Run].snap])
    BY <1>4, <2>0, <2>1, HistoryOfCall
  <2>3. ASSUME NEW r, after(r) PROVE worker'[Run] = r
    BY <1>0, <2>3
  <2> HIDE DEF after
  <2>4. NoRepeats(b) /\ \A i \in 1 .. Len(b) :
          submissions[b[i]] = 0 \/ (i = 1 /\ old \in {"settle", "complete"})
    BY DEF AloneInv
  <2>5. SubmittedOnce BY DEF AloneInv
  <2>6. ASSUME NEW r, after(r), r.step # "settle" PROVE submissions' = submissions
    <3>1. worker'[Run] = r BY <2>3, <2>6
    <3>2. ASSUME after([step |-> "settle", batch |-> b, snap |-> worker[Run].snap]) PROVE FALSE
      <4>1. worker'[Run] = [step |-> "settle", batch |-> b, snap |-> worker[Run].snap]
        BY <2>3, <3>2
      <4>2. r.step = "settle" BY <3>1, <4>1
      <4> QED BY <2>6, <4>2
    <3> QED BY <2>2, <3>2
  <2>7. CASE after(Idle)
    <3>0. Idle.step # "settle" /\ Len(Idle.batch) = 0 BY DEF Idle
    <3>1. Len(new) = 0 /\ submissions' = submissions BY <2>3, <2>6, <2>7, <3>0
    <3> QED BY <2>5, <3>1 DEF AloneInv, SubmittedOnce, NoRepeats
  <2>8. CASE Len(b) > 1 /\ after(NextOne(worker[Run]))
    <3>0. NextOne(worker[Run]).step # "settle" /\ NextOne(worker[Run]).batch = Tail(b)
      BY DEF NextOne
    <3>1. new = Tail(b) /\ submissions' = submissions BY <2>3, <2>6, <2>8, <3>0
    <3>2. \A i \in 1 .. Len(new) : /\ i + 1 \in 1 .. Len(b) /\ new[i] = b[i + 1]
                                   /\ i + 1 # 1
      <4> HIDE DEF new, b
      <4>1. Len(new) = Len(b) - 1 /\ Len(b) \in Nat
            /\ \A i \in 1 .. Len(b) - 1 : new[i] = b[i + 1]
        BY <2>1, <2>8, <3>1
      <4> QED BY <4>1
    <3> HIDE DEF b, new
    <3>3. NoRepeats(new)
      <4> SUFFICES ASSUME NEW i \in 1 .. Len(new), NEW j \in 1 .. Len(new), new[i] = new[j]
                   PROVE  i = j
        BY DEF NoRepeats
      <4>1. i + 1 = j + 1 BY <2>4, <3>2 DEF NoRepeats
      <4> QED BY <4>1
    <3>4. \A i \in 1 .. Len(new) : submissions[new[i]] = 0 BY <2>4, <3>2
    <3> QED BY <2>5, <3>1, <3>3, <3>4 DEF AloneInv, SubmittedOnce, new
  <2>9. ASSUME NEW s, NEW xs, after([step |-> s, batch |-> b, snap |-> xs]),
               s # "settle", old \in {"settle", "complete"} => s = "complete"
        PROVE  AloneInv'
    <3> DEFINE r == [step |-> s, batch |-> b, snap |-> xs]
    <3>0. r.step = s /\ r.batch = b /\ after(r) BY <2>9
    <3> HIDE DEF r
    <3>1. new = b /\ worker'[Run].step = s /\ submissions' = submissions
      BY <2>3, <2>6, <2>9, <3>0
    <3> QED BY <2>4, <2>5, <2>9, <3>1 DEF AloneInv, SubmittedOnce
  <2>10. CASE old = "submit" /\ after([step |-> "settle", batch |-> b, snap |-> worker[Run].snap])
    <3>1. new = b /\ worker'[Run].step = "settle" BY <2>3, <2>10
    <3>2. 1 \in 1 .. Len(b) /\ b[1] \in Op /\ submissions[b[1]] = 0
      BY <1>1, <2>1, <2>4, <2>10
    <3>3. submissions' = submissions \/ submissions' = [submissions EXCEPT ![b[1]] = 1]
      BY <1>0, <2>2, <3>2
    <3> HIDE DEF b, new
    <3>4. ASSUME NEW i \in 1 .. Len(b) PROVE submissions'[b[i]] = 0 \/ i = 1
      <4>1. i # 1 => b[i] # b[1] BY <2>4, <3>2 DEF NoRepeats
      <4> QED BY <1>0, <1>1, <2>4, <2>10, <3>2, <3>3, <4>1
    <3>5. \A o \in Op : submissions'[o] <= 1
      BY <1>0, <2>5, <3>2, <3>3 DEF SubmittedOnce
    <3> QED BY <2>4, <3>1, <3>4, <3>5 DEF AloneInv, SubmittedOnce, new
  <2> HIDE DEF after
  <2> QED BY <1>4, <2>0, <2>7, <2>8, <2>9, <2>10, CallRecord DEF after
<1> QED BY <1>0, <1>2, <1>3, <1>4, CallOrNot

\* SubmittedOnce: while run() is the only task in process_chain, no operation is
\* submitted to its destination twice, across failures, aborted passes, and
\* completions by other tasks.
THEOREM AloneSubmitsOnce ==
  ASSUME Caller = {}
  PROVE  Spec => []SubmittedOnce
<1>1. Init => AloneInv
  <2> SUFFICES ASSUME Init PROVE AloneInv OBVIOUS
  <2>1. Run \in Worker BY DEF Worker
  <2>2. worker[Run].batch = <<>> BY <2>1 DEF Init, Idle
  <2>3. Len(worker[Run].batch) = 0 BY <2>2
  <2> QED BY <2>3 DEF Init, AloneInv, SubmittedOnce, NoRepeats
<1>2. Inv /\ AloneInv /\ [Next]_vars => AloneInv'
  BY AloneNext
<1>3. AloneInv => SubmittedOnce BY DEF AloneInv
<1> QED BY InvAlways, <1>1, <1>2, <1>3, PTL DEF Spec
=============================================================================

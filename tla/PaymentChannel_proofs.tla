----------------------- MODULE PaymentChannel_proofs -----------------------
(* Proofs about PaymentChannel, and about the Watchtower that challenges   *)
(* closes in its client's name, for every value of their constants.        *)
EXTENDS Watchtower, SequenceTheorems, TLAPS

\* A u64 sum is a u64, and the nonce after n is larger unless n is the last.
LEMMA Wrapping ==
  ASSUME NEW x \in Nat
  PROVE  /\ x % Word \in 0 .. Word - 1
         /\ x \in 0 .. Word - 1 =>
              \/ NextNonce(x) > x
              \/ x = Word - 1 /\ NextNonce(x) = 0
<1>1. Word \in Nat \ {0} BY ChannelAssumption
<1>2. x % Word \in 0 .. Word - 1 BY <1>1
<1>3. ASSUME x \in 0 .. Word - 2 PROVE NextNonce(x) = x + 1
  BY <1>1, <1>3 DEF NextNonce
<1>4. ASSUME x = Word - 1 PROVE NextNonce(x) = 0
  BY <1>1, <1>4 DEF NextNonce
<1> QED BY <1>1, <1>2, <1>3, <1>4

\* What a challenge in flight is made of, and that moving it on keeps its type.
LEMMA ChallengeParts ==
  ASSUME TypeOK, NEW p \in Users, NEW c \in challenging[p]
  PROVE  /\ c.newer \in Update /\ c.newer.state \in State
         /\ c.newer.state.nonce \in Nat
         /\ c.close \in Close /\ c.close.initiator \in Users
         /\ c.close.update.state.nonce \in Nat
         /\ \A t \in {"fraud", "mark", "channel", "insert"} :
              Advance(p, c, t) => challenging' \in [Users -> SUBSET Challenge]
<1>1. c \in Challenge BY DEF TypeOK
<1>2. c.close \in Close /\ c.newer \in Update BY <1>1 DEF Challenge
<1>3. ASSUME NEW t \in {"fraud", "mark", "channel", "insert"}, Advance(p, c, t)
      PROVE  challenging' \in [Users -> SUBSET Challenge]
  <2>1. [c EXCEPT !.step = t] \in Challenge BY <1>1 DEF Challenge
  <2> QED BY <2>1, <1>3 DEF TypeOK, Advance
<1> QED BY <1>2, <1>3 DEF Close, Update, State

\* Every step of the manager keeps the types.
LEMMA TypeStep == TypeOK /\ [Next]_vars => TypeOK'
<1> USE ChannelAssumption
<1> SUFFICES ASSUME TypeOK, [Next]_vars PROVE TypeOK'
    OBVIOUS
<1>1. ASSUME NEW a \in Amounts, CreatePayment(a) PROVE TypeOK'
  <2> DEFINE s == [nonce |-> NextNonce(channel.state.nonce),
                   sender |-> channel.state.sender - a,
                   receiver |-> (channel.state.receiver + a) % Word]
  <2>3. /\ channel.state.nonce + 1 \in Nat /\ channel.state.receiver + a \in Nat
        /\ channel.state.sender - a \in 0 .. Word - 1
        BY <1>1 DEF TypeOK, State, CreatePayment
  <2>1. s \in State BY <2>3, Wrapping DEF State, NextNonce
  <2>2. [state |-> s, senderSig |-> TRUE, receiverSig |-> "none"] \in Update
        BY <2>1 DEF Update
  <2> QED BY <1>1, <2>2 DEF TypeOK, CreatePayment, calls, hist
<1>2. ASSUME NEW u \in updates, Countersign(u) PROVE TypeOK'
  <2>1. [u EXCEPT !.receiverSig = "valid"] \in Update
        BY DEF TypeOK, Update
  <2> QED BY <1>2, <2>1 DEF TypeOK, Countersign, calls, hist
<1>3. ASSUME NEW u \in updates, Apply(u) PROVE TypeOK'
  <2>1. u \in Update /\ u.state \in State /\ u.state.nonce \in Nat
        BY DEF TypeOK, Update, State
  <2>2. channel' \in [status : {"Open", "Closing", "Closed", "Disputed"},
                      state : State, bilateral : SUBSET Update]
        BY <1>3, <2>1 DEF TypeOK, Apply
  <2>3. applied' \in Seq(Nat) BY <1>3, <2>1 DEF TypeOK, Apply
  <2> QED BY <1>3, <2>2, <2>3 DEF TypeOK, Apply, calls
<1>4. ASSUME NEW p \in Users, NEW u \in updates, InitiateClose(p, u) PROVE TypeOK'
  <2> DEFINE c == [update |-> u, initiator |-> p, left |-> DisputeWindow,
                   challenged |-> FALSE]
  <2>1. u \in Update /\ u.state.nonce \in Nat BY DEF TypeOK, Update, State
  <2>2. c \in Close BY <2>1 DEF Close
  <2>3. closing' \in [Users -> SUBSET Close] BY <1>4, <2>2 DEF TypeOK, InitiateClose
  <2>4. closed' \in Seq(Users \X Nat) BY <1>4, <2>1 DEF TypeOK, InitiateClose
  <2>5. channel' \in [status : {"Open", "Closing", "Closed", "Disputed"},
                      state : State, bilateral : SUBSET Update]
        BY <1>4 DEF TypeOK, InitiateClose
  <2> QED BY <1>4, <2>3, <2>4, <2>5 DEF TypeOK, InitiateClose
<1>5. ASSUME NEW p \in Users, RecordClose(p) PROVE TypeOK'
  BY <1>5 DEF TypeOK, RecordClose, hist
<1>6. ASSUME NEW p \in Users, NEW u \in updates, ChallengeClose(p, u) PROVE TypeOK'
  <2> PICK c \in pending : challenging' = [challenging EXCEPT ![p] =
                             {[step |-> "fraud", close |-> c, newer |-> u]}]
      BY <1>6 DEF ChallengeClose, MayChallenge
  <2>1. [step |-> "fraud", close |-> c, newer |-> u] \in Challenge
        BY DEF TypeOK, Challenge
  <2>2. challenging' \in [Users -> SUBSET Challenge] BY <2>1 DEF TypeOK
  <2> QED BY <1>6, <2>2 DEF TypeOK, ChallengeClose, hist
<1>7. ASSUME NEW p \in Users, PushFraud(p) PROVE TypeOK'
  <2> PICK c \in challenging[p] : PushFraud(p)!(c) BY <1>7 DEF PushFraud
  <2>1. challenging' \in [Users -> SUBSET Challenge] BY ChallengeParts
  <2>2. fraud' \in Seq(Fraud) BY ChallengeParts DEF TypeOK, Fraud
  <2> QED BY <2>1, <2>2 DEF TypeOK, hist
<1>14. ASSUME NEW p \in Users, MarkChallenged(p) PROVE TypeOK'
  <2> PICK c \in challenging[p] : MarkChallenged(p)!(c) BY <1>14 DEF MarkChallenged
  <2>1. challenging' \in [Users -> SUBSET Challenge] BY ChallengeParts
  <2>2. \A d \in pending : [d EXCEPT !.challenged = TRUE] \in Close
        BY DEF TypeOK, Close
  <2> QED BY <2>1, <2>2 DEF TypeOK, hist
<1>15. ASSUME NEW p \in Users, MarkDisputed(p) PROVE TypeOK'
  <2> PICK c \in challenging[p] : MarkDisputed(p)!(c) BY <1>15 DEF MarkDisputed
  <2>1. challenging' \in [Users -> SUBSET Challenge] BY ChallengeParts
  <2>2. channel' \in [status : {"Open", "Closing", "Closed", "Disputed"},
                      state : State, bilateral : SUBSET Update]
        BY ChallengeParts DEF TypeOK
  <2> QED BY <2>1, <2>2 DEF TypeOK, hist
<1>16. ASSUME NEW p \in Users, RecordChallenge(p) PROVE TypeOK'
  <2> PICK c \in challenging[p] : RecordChallenge(p)!(c) BY <1>16 DEF RecordChallenge
  <2>1. challenging' \in [Users -> SUBSET Challenge] BY DEF TypeOK
  <2>2. challenges' \subseteq [newer : Update, challenger : Users]
        BY ChallengeParts
  <2> QED BY <2>1, <2>2 DEF TypeOK, hist
<1>8. ASSUME FinalizeClose PROVE TypeOK'
  BY <1>8 DEF TypeOK, FinalizeClose, hist
<1>9. ASSUME SettleClose PROVE TypeOK'
  <2> PICK c \in finalizing : payouts' = Append(payouts, [how |-> "unilateral",
                                                state |-> c.update.state])
      BY <1>9 DEF SettleClose
  <2>1. c.update.state \in State BY DEF TypeOK, Close, Update
  <2>2. payouts' \in Seq([how : {"unilateral", "cooperative"}, state : State])
        BY <2>1 DEF TypeOK
  <2> QED BY <1>9, <2>2 DEF TypeOK, SettleClose
<1>10. ASSUME NEW u \in updates, CooperativeClose(u) PROVE TypeOK'
  <2>1. u.state \in State BY DEF TypeOK, Update
  <2>2. payouts' \in Seq([how : {"unilateral", "cooperative"}, state : State])
        BY <1>10, <2>1 DEF TypeOK, CooperativeClose
  <2>3. channel' \in [status : {"Open", "Closing", "Closed", "Disputed"},
                      state : State, bilateral : SUBSET Update]
        BY <1>10, <2>1 DEF TypeOK, CooperativeClose
  <2> QED BY <1>10, <2>2, <2>3 DEF TypeOK, CooperativeClose, calls
<1>11. ASSUME MarkFraudSlashed PROVE TypeOK'
  <2>1. fraud \in Seq(Fraud) /\ Len(fraud) \in Nat BY DEF TypeOK
  <2>2. \A i \in 1 .. Len(fraud) : fraud[i] \in Fraud BY <2>1
  <2>5. \A e \in Fraud : [e EXCEPT !.slashed = TRUE] \in Fraud BY DEF Fraud
  <2>3. fraud' \in [1 .. Len(fraud) -> Fraud] BY <1>11, <2>2, <2>5 DEF MarkFraudSlashed
  <2>4. fraud' \in Seq(Fraud) BY <2>1, <2>3, SeqDef
  <2> QED BY <1>11, <2>4 DEF TypeOK, MarkFraudSlashed, calls, hist
<1>12. ASSUME Tick PROVE TypeOK'
  <2>1. \A cs \in SUBSET Close : Closer(cs) \subseteq Close BY DEF Closer, Close
  <2> QED BY <1>12, <2>1 DEF TypeOK, Tick, hist
<1>13. CASE UNCHANGED vars
  BY <1>13 DEF TypeOK, vars, calls, hist
<1> QED BY <1>1, <1>2, <1>3, <1>4, <1>5, <1>6, <1>7, <1>8, <1>9, <1>10, <1>11,
           <1>12, <1>13, <1>14, <1>15, <1>16 DEF Next, UpdateState, ProcessPayment

\* Type correctness of the manager's maps and of the calls in flight.
THEOREM TypeCorrect == Spec => []TypeOK
<1>1. Init => TypeOK
  <2> SUFFICES ASSUME Init PROVE TypeOK OBVIOUS
  <2>1. InitialState \in State BY ChannelAssumption DEF InitialState, State
  <2> QED BY <2>1, ChannelAssumption, StrayAssumption DEF Init, TypeOK
<1> QED BY <1>1, TypeStep, PTL DEF Spec

-----------------------------------------------------------------------------
(* Safety.  NoReplay, OpenStateIsBacked and FraudIsProved are not inductive *)
(* alone: the first needs that an open channel is at the nonce applied last, *)
(* the highest since it stood at the end of the word, the last that every   *)
(* close and every challenge in flight is backed by what was submitted and  *)
(* signed.                                                                  *)

AppliedUpToState ==
  channel.status = "Open" =>
    \A i \in 1 .. Len(applied) :
      /\ \/ applied[i] <= channel.state.nonce
         \/ \E k \in i .. Len(applied) : applied[k] = Word - 1
      /\ i = Len(applied) => applied[i] = channel.state.nonce

Submitted(c) ==
  \E k \in 1 .. Len(closed) : closed[k] = <<c.initiator, c.update.state.nonce>>

ClosesSubmitted ==
  /\ \A c \in pending : Submitted(c)
  /\ \A p \in Users : \A c \in closing[p] : Submitted(c)
  /\ \A p \in Users : \A c \in challenging[p] : Submitted(c.close)

ChallengesProved ==
  \A p \in Users : \A c \in challenging[p] :
    /\ c.newer \in updates /\ c.newer.senderSig /\ c.newer.receiverSig = "valid"
    /\ c.close.update.state.nonce < c.newer.state.nonce

SafetyInv == /\ TypeOK /\ NoReplay /\ AppliedUpToState /\ OpenStateIsBacked
             /\ FraudIsProved /\ ClosesSubmitted /\ ChallengesProved

\* A step either applies an update that passed the checks of update_state or
\* process_payment, or leaves the off-chain history alone; in the latter case
\* the channel is unchanged or no longer open.
LEMMA OffChainStep ==
  ASSUME TypeOK, [Next]_vars
  PROVE  \/ \E u \in updates :
              /\ channel.status = "Open"
              /\ \/ u.state.nonce > channel.state.nonce
                 \/ channel.state.nonce = Word - 1
              /\ Total(u.state) = Capacity /\ u.senderSig
              /\ Apply(u)
         \/ /\ applied' = applied /\ updates \subseteq updates'
            /\ channel' = channel \/ channel'.status # "Open"
<1>1. ASSUME NEW u \in updates, ProcessPayment(u)
      PROVE  u.state.nonce > channel.state.nonce \/ channel.state.nonce = Word - 1
  <2>1. channel.state.nonce \in 0 .. Word - 1 /\ channel.state.nonce \in Nat
        BY DEF TypeOK, State
  <2> QED BY <1>1, <2>1, Wrapping DEF ProcessPayment
<1>2. CASE \E u \in updates : UpdateState(u) BY <1>2 DEF UpdateState
<1>3. CASE \E u \in updates : ProcessPayment(u) BY <1>3, <1>1 DEF ProcessPayment
<1>4. CASE \E a \in Amounts : CreatePayment(a) BY <1>4 DEF CreatePayment, hist
<1>5. CASE \E u \in updates : Countersign(u) BY <1>5 DEF Countersign, hist
<1>6. CASE \E u \in updates : CooperativeClose(u)
  BY <1>6 DEF CooperativeClose, TypeOK
<1>7. CASE \E p \in Users, u \in updates : InitiateClose(p, u)
  BY <1>7 DEF InitiateClose, TypeOK
<1>8. CASE \E p \in Users, u \in updates : ChallengeClose(p, u)
  BY <1>8 DEF ChallengeClose, hist
<1>9. CASE \E p \in Users : RecordClose(p) \/ PushFraud(p) \/ MarkChallenged(p)
                             \/ RecordChallenge(p)
  BY <1>9 DEF RecordClose, PushFraud, MarkChallenged, RecordChallenge, hist
<1>10. CASE \E p \in Users : MarkDisputed(p) BY <1>10 DEF MarkDisputed, hist, TypeOK
<1>11. CASE FinalizeClose \/ MarkFraudSlashed \/ Tick
  BY <1>11 DEF FinalizeClose, MarkFraudSlashed, Tick, hist
<1>12. CASE SettleClose BY <1>12 DEF SettleClose, TypeOK
<1>13. CASE UNCHANGED vars BY <1>13 DEF vars, hist
<1> QED BY <1>2, <1>3, <1>4, <1>5, <1>6, <1>7, <1>8, <1>9, <1>10, <1>11, <1>12,
           <1>13 DEF Next

\* Every step keeps what is known of the off-chain history.
LEMMA ReplayStep ==
  ASSUME TypeOK, NoReplay, AppliedUpToState, OpenStateIsBacked, [Next]_vars
  PROVE  NoReplay' /\ AppliedUpToState' /\ OpenStateIsBacked'
<1>1. ASSUME NEW u \in updates, channel.status = "Open",
             u.state.nonce > channel.state.nonce \/ channel.state.nonce = Word - 1,
             Total(u.state) = Capacity, u.senderSig, Apply(u)
      PROVE  NoReplay' /\ AppliedUpToState' /\ OpenStateIsBacked'
  <2>1. /\ u.state.nonce \in Nat /\ channel.state.nonce \in Nat
        /\ applied \in Seq(Nat)
        BY DEF TypeOK, Update, State
  <2>2. /\ applied' = Append(applied, u.state.nonce)
        /\ channel'.state = u.state /\ updates' = updates
        BY <1>1 DEF Apply, TypeOK
  <2> DEFINE n == Len(applied)
  <2>7. /\ n \in Nat /\ Len(applied') = n + 1 /\ applied'[n + 1] = u.state.nonce
        /\ \A i \in 1 .. n : applied'[i] = applied[i] /\ applied[i] \in Nat
        BY <2>1, <2>2
  <2> HIDE DEF n
  <2>8. /\ \A i \in 1 .. n : \/ applied[i] <= channel.state.nonce
                           \/ \E k \in i .. n : applied[k] = Word - 1
        /\ n > 0 => applied[n] = channel.state.nonce
        BY <1>1, <2>7 DEF AppliedUpToState, n
  <2>3. \A i \in 1 .. n : \/ applied[i] < u.state.nonce
                        \/ \E k \in i .. n : applied[k] = Word - 1
    <3> TAKE i \in 1 .. n
    <3>1. CASE channel.state.nonce = Word - 1
      <4>1. n \in i .. n /\ applied[n] = Word - 1 BY <2>7, <2>8, <3>1
      <4> QED BY <4>1
    <3>2. CASE u.state.nonce > channel.state.nonce
      BY <2>1, <2>7, <2>8, <3>2
    <3> QED BY <1>1, <3>1, <3>2
  <2>9. \A i \in 1 .. n : (\E k \in i .. n : applied[k] = Word - 1)
                          => \E k \in i .. n : applied'[k] = Word - 1
        BY <2>7
  <2>4. NoReplay'
    <3> SUFFICES ASSUME NEW i \in 1 .. n + 1, NEW j \in 1 .. n + 1, i < j
                 PROVE  \/ applied'[i] < applied'[j]
                        \/ \E k \in i .. j - 1 : applied'[k] = Word - 1
        BY <2>7 DEF NoReplay
    <3>0. i \in 1 .. n BY <2>7
    <3>1. CASE j = n + 1
      <4>1. j - 1 = n BY <3>1, <2>7
      <4> QED BY <2>3, <2>7, <2>9, <3>0, <3>1, <4>1
    <3>2. CASE j \in 1 .. n
      <4>1. \/ applied[i] < applied[j]
            \/ \E k \in i .. j - 1 : applied[k] = Word - 1
            BY <3>0, <3>2 DEF NoReplay, n
      <4>2. \A k \in i .. j - 1 : applied'[k] = applied[k] BY <2>7, <3>0, <3>2
      <4> QED BY <2>7, <3>0, <3>2, <4>1, <4>2
    <3> QED BY <2>7, <3>1, <3>2
  <2>5. AppliedUpToState'
    <3> SUFFICES ASSUME NEW i \in 1 .. n + 1
                 PROVE  /\ \/ applied'[i] <= u.state.nonce
                           \/ \E k \in i .. n + 1 : applied'[k] = Word - 1
                        /\ i = n + 1 => applied'[i] = u.state.nonce
        BY <2>2, <2>7 DEF AppliedUpToState
    <3>1. CASE i = n + 1 BY <2>1, <2>7, <3>1
    <3>2. CASE i \in 1 .. n
      <4>1. CASE applied[i] < u.state.nonce BY <2>1, <2>7, <3>2, <4>1
      <4>2. CASE \E k \in i .. n : applied[k] = Word - 1
        <5> PICK k \in i .. n : applied'[k] = Word - 1 BY <2>9, <3>2, <4>2
        <5>1. k \in i .. n + 1 BY <2>7, <3>2
        <5> QED BY <5>1, <2>7, <3>2
      <4> QED BY <2>3, <3>2, <4>1, <4>2
    <3> QED BY <2>7, <3>1, <3>2
  <2>6. OpenStateIsBacked' BY <1>1, <2>2 DEF OpenStateIsBacked, Total
  <2> QED BY <2>4, <2>5, <2>6
<1>2. ASSUME applied' = applied, updates \subseteq updates',
             channel' = channel \/ channel'.status # "Open"
      PROVE  NoReplay' /\ AppliedUpToState' /\ OpenStateIsBacked'
  <2>1. NoReplay' BY <1>2 DEF NoReplay
  <2>2. CASE channel' = channel
    <3>1. AppliedUpToState' BY <1>2, <2>2 DEF AppliedUpToState
    <3>2. OpenStateIsBacked' BY <1>2, <2>2 DEF OpenStateIsBacked, Total
    <3> QED BY <2>1, <3>1, <3>2
  <2>3. CASE channel'.status # "Open"
    BY <2>1, <2>3 DEF AppliedUpToState, OpenStateIsBacked
  <2> QED BY <1>2, <2>2, <2>3
<1> QED BY <1>1, <1>2, OffChainStep

\* Closes, calls in flight and fraud events stay backed by what was submitted
\* and signed.
LEMMA EvidenceStep ==
  ASSUME TypeOK, ClosesSubmitted, ChallengesProved, FraudIsProved, [Next]_vars
  PROVE  ClosesSubmitted' /\ ChallengesProved' /\ FraudIsProved'
<1> DEFINE Good == ClosesSubmitted /\ ChallengesProved /\ FraudIsProved
<1>a. ASSUME closed' = closed PROVE \A d : Submitted(d) <=> Submitted(d)'
  BY <1>a DEF Submitted
<1>b. ASSUME closed' = closed, updates \subseteq updates'
      PROVE  \A e : Proved(e) => Proved(e)'
  BY <1>b DEF Proved
<1>c. \A d, e : d.initiator = e.initiator /\ d.update = e.update /\ Submitted(e)
               => Submitted(d)
  BY DEF Submitted
<1>1. ASSUME updates \subseteq updates', UNCHANGED <<pending, closing, challenging, closed, fraud>>
      PROVE  Good'
  BY <1>1, <1>a, <1>b DEF ClosesSubmitted, ChallengesProved, FraudIsProved
<1>2. CASE \E a \in Amounts : CreatePayment(a)
  BY <1>1, <1>2 DEF CreatePayment, calls, hist
<1>3. CASE \E u \in updates : Countersign(u)
  BY <1>1, <1>3 DEF Countersign, calls, hist
<1>4. CASE \E u \in updates : UpdateState(u) \/ ProcessPayment(u)
  BY <1>1, <1>4 DEF UpdateState, ProcessPayment, Apply, calls
<1>5. CASE \E u \in updates : CooperativeClose(u)
  BY <1>1, <1>5 DEF CooperativeClose, calls
<1>6. ASSUME NEW p \in Users, NEW u \in updates, InitiateClose(p, u) PROVE Good'
  <2> DEFINE c == [update |-> u, initiator |-> p, left |-> DisputeWindow,
                   challenged |-> FALSE]
  <2>1. closed \in Seq(Users \X Nat) /\ u.state.nonce \in Nat
        BY DEF TypeOK, Update, State
  <2>2. closed' = Append(closed, <<p, u.state.nonce>>) BY <1>6 DEF InitiateClose
  <2>3. /\ Len(closed') = Len(closed) + 1
        /\ \A k \in 1 .. Len(closed) : closed'[k] = closed[k]
        /\ closed'[Len(closed) + 1] = <<p, u.state.nonce>>
        /\ Len(closed) \in Nat
        BY <2>1, <2>2
  <2>4. /\ closing' = [closing EXCEPT ![p] = {c}]
        /\ UNCHANGED <<pending, fraud, updates, challenging>>
        BY <1>6 DEF InitiateClose
  <2>5. \A d : Submitted(d) => Submitted(d)' BY <2>3 DEF Submitted
  <2>6. Submitted(c)' BY <2>3 DEF Submitted
  <2>7. \A q \in Users : \A d \in closing'[q] : Submitted(d)'
        BY <2>4, <2>5, <2>6 DEF ClosesSubmitted, TypeOK
  <2>8. ClosesSubmitted' BY <2>4, <2>5, <2>7 DEF ClosesSubmitted
  <2>9. ChallengesProved' BY <2>4 DEF ChallengesProved
  <2>11. \A e : Proved(e) => Proved(e)' BY <2>3, <2>4 DEF Proved
  <2>10. FraudIsProved' BY <2>4, <2>11 DEF FraudIsProved
  <2> QED BY <2>8, <2>9, <2>10
<1>7. ASSUME NEW p \in Users, RecordClose(p) PROVE Good'
  <2>1. ClosesSubmitted' BY <1>7, <1>a DEF RecordClose, ClosesSubmitted, TypeOK, hist
  <2> QED BY <1>7, <1>b, <2>1 DEF RecordClose, ChallengesProved, FraudIsProved, hist
<1>8. ASSUME NEW p \in Users, NEW u \in updates, ChallengeClose(p, u) PROVE Good'
  <2> PICK c \in pending :
        /\ u.state.nonce > c.update.state.nonce /\ u.senderSig
        /\ u.receiverSig = "valid"
        /\ challenging' = [challenging EXCEPT ![p] =
                             {[step |-> "fraud", close |-> c, newer |-> u]}]
      BY <1>8 DEF ChallengeClose, MayChallenge
  <2>1. UNCHANGED <<pending, closing, closed, fraud, updates>>
        BY <1>8 DEF ChallengeClose, hist
  <2>2. c.update.state.nonce < u.state.nonce
        BY DEF TypeOK, Close, Update, State
  <2>3. ClosesSubmitted' BY <2>1, <1>a DEF ClosesSubmitted, TypeOK
  <2>4. ChallengesProved' BY <2>1, <2>2 DEF ChallengesProved, TypeOK
  <2> QED BY <2>1, <2>3, <2>4, <1>b DEF FraudIsProved
<1>9. ASSUME NEW p \in Users, NEW c \in challenging[p],
             NEW t \in {"fraud", "mark", "channel", "insert"}, Advance(p, c, t)
      PROVE  \A q \in Users : \A d \in challenging'[q] :
               \E e \in challenging[q] : d.close = e.close /\ d.newer = e.newer
  <2>1. c \in Challenge BY DEF TypeOK
  <2>2. /\ [c EXCEPT !.step = t].close = c.close
        /\ [c EXCEPT !.step = t].newer = c.newer
        BY <2>1 DEF Challenge
  <2>3. challenging' = [challenging EXCEPT ![p] = {[c EXCEPT !.step = t]}]
        BY <1>9 DEF Advance
  <2> QED BY <2>2, <2>3 DEF TypeOK
<1>10. ASSUME UNCHANGED <<closing, closed, updates>>,
              \A d \in pending' : \E e \in pending :
                 d.initiator = e.initiator /\ d.update = e.update,
              \A q \in Users : \A d \in challenging'[q] :
                 \E e \in challenging[q] : d.close = e.close /\ d.newer = e.newer
       PROVE  ClosesSubmitted' /\ ChallengesProved'
  <2>1. ClosesSubmitted' BY <1>10, <1>a, <1>c DEF ClosesSubmitted
  <2>2. ChallengesProved' BY <1>10 DEF ChallengesProved
  <2> QED BY <2>1, <2>2
<1>11. ASSUME NEW p \in Users, PushFraud(p) PROVE Good'
  <2> PICK c \in challenging[p] : PushFraud(p)!(c) BY <1>11 DEF PushFraud
  <2>1. ClosesSubmitted' /\ ChallengesProved' BY <1>9, <1>10 DEF hist
  <2> DEFINE e == [fraudster |-> c.close.initiator,
                   submitted |-> c.close.update.state.nonce,
                   actual |-> c.newer.state.nonce, slashed |-> FALSE]
  <2>2. Proved(e) BY DEF ClosesSubmitted, ChallengesProved, Proved, Submitted
  <2>3. fraud \in Seq(Fraud) /\ e \in Fraud BY ChallengeParts DEF TypeOK, Fraud
  <2>4. \A i \in 1 .. Len(fraud') : fraud'[i] = e \/ (i \in 1 .. Len(fraud) /\ fraud'[i] = fraud[i])
        BY <2>3
  <2>5. closed' = closed /\ updates' = updates BY DEF hist
  <2>6. FraudIsProved' BY <2>2, <2>4, <2>5, <1>b DEF FraudIsProved
  <2> QED BY <2>1, <2>6
<1>12. ASSUME NEW p \in Users, MarkChallenged(p) PROVE Good'
  <2> PICK c \in challenging[p] : MarkChallenged(p)!(c) BY <1>12 DEF MarkChallenged
  <2>1. \A d \in pending : /\ [d EXCEPT !.challenged = TRUE].initiator = d.initiator
                           /\ [d EXCEPT !.challenged = TRUE].update = d.update
        BY DEF TypeOK, Close
  <2>2. ClosesSubmitted' /\ ChallengesProved' BY <2>1, <1>9, <1>10 DEF hist
  <2> QED BY <2>2, <1>b DEF FraudIsProved, hist
<1>13. ASSUME NEW p \in Users, MarkDisputed(p) PROVE Good'
  <2> PICK c \in challenging[p] : MarkDisputed(p)!(c) BY <1>13 DEF MarkDisputed
  <2>1. ClosesSubmitted' /\ ChallengesProved' BY <1>9, <1>10 DEF hist
  <2> QED BY <2>1, <1>b DEF FraudIsProved, hist
<1>14. ASSUME NEW p \in Users, RecordChallenge(p) PROVE Good'
  <2> PICK c \in challenging[p] : RecordChallenge(p)!(c) BY <1>14 DEF RecordChallenge
  <2>1. \A q \in Users : challenging'[q] \subseteq challenging[q] BY DEF TypeOK
  <2>2. ClosesSubmitted' /\ ChallengesProved' BY <2>1, <1>10 DEF hist
  <2> QED BY <2>2, <1>b DEF FraudIsProved, hist
<1>15. CASE FinalizeClose BY <1>1, <1>15 DEF FinalizeClose, hist
<1>16. CASE SettleClose
  <2>1. pending' = {} /\ UNCHANGED <<closing, challenging, closed, updates, fraud>>
        BY <1>16 DEF SettleClose
  <2> QED BY <2>1, <1>a, <1>b DEF ClosesSubmitted, ChallengesProved, FraudIsProved
<1>17. CASE MarkFraudSlashed
  <2>1. UNCHANGED <<pending, closing, challenging, closed, updates>>
        BY <1>17 DEF MarkFraudSlashed, calls, hist
  <2>2. fraud \in Seq(Fraud) BY DEF TypeOK
  <2>3. \A i \in 1 .. Len(fraud) : fraud[i] \in Fraud BY <2>2
  <2>4. \A e \in Fraud : LET f == [e EXCEPT !.slashed = TRUE] IN
          f.fraudster = e.fraudster /\ f.submitted = e.submitted /\ f.actual = e.actual
        BY DEF Fraud
  <2>5. /\ Len(fraud') = Len(fraud)
        /\ \A i \in 1 .. Len(fraud) : fraud'[i] = [fraud[i] EXCEPT !.slashed = TRUE]
        BY <1>17, <2>2 DEF MarkFraudSlashed
  <2>8. \A e \in Fraud : Proved(e) => Proved([e EXCEPT !.slashed = TRUE])'
        BY <2>1, <2>4 DEF Proved
  <2>6. FraudIsProved' BY <2>3, <2>5, <2>8 DEF FraudIsProved
  <2>7. ClosesSubmitted' /\ ChallengesProved' BY <2>1, <1>a DEF ClosesSubmitted, ChallengesProved
  <2> QED BY <2>6, <2>7
<1>18. CASE Tick
  <2>1. \A cs \in SUBSET Close : \A d \in Closer(cs) :
          \E e \in cs : d.initiator = e.initiator /\ d.update = e.update
        BY DEF Closer, Close
  <2>2. /\ pending' = Closer(pending)
        /\ \A p \in Users : closing'[p] = Closer(closing[p])
        /\ UNCHANGED <<challenging, closed, updates, fraud>>
        BY <1>18 DEF Tick, hist
  <2>3. pending \in SUBSET Close /\ \A p \in Users : closing[p] \in SUBSET Close
        BY DEF TypeOK
  <2>4. /\ \A d \in pending' : \E e \in pending :
             d.initiator = e.initiator /\ d.update = e.update
        /\ \A p \in Users : \A d \in closing'[p] : \E e \in closing[p] :
             d.initiator = e.initiator /\ d.update = e.update
        BY <2>1, <2>2, <2>3
  <2>5. ClosesSubmitted' BY <2>2, <2>4, <1>a, <1>c DEF ClosesSubmitted
  <2> QED BY <2>2, <2>5, <1>b DEF ChallengesProved, FraudIsProved
<1>19. CASE UNCHANGED vars BY <1>1, <1>19 DEF vars, calls, hist
<1> QED BY <1>2, <1>3, <1>4, <1>5, <1>6, <1>7, <1>8, <1>11, <1>12, <1>13, <1>14,
           <1>15, <1>16, <1>17, <1>18, <1>19 DEF Next

\* The first state is safe.
LEMMA InitSafe == Init => SafetyInv
<1> SUFFICES ASSUME Init PROVE SafetyInv OBVIOUS
<1>1. TypeOK
  <2>1. InitialState \in State BY ChannelAssumption DEF InitialState, State
  <2> QED BY <2>1, ChannelAssumption, StrayAssumption DEF Init, TypeOK
<1>2. Total(InitialState) = Capacity BY ChannelAssumption DEF Total, InitialState
<1>3. NoReplay /\ AppliedUpToState /\ FraudIsProved
      BY DEF Init, NoReplay, AppliedUpToState, FraudIsProved
<1>4. OpenStateIsBacked BY <1>2 DEF Init, OpenStateIsBacked
<1>5. ClosesSubmitted /\ ChallengesProved BY DEF Init, ClosesSubmitted, ChallengesProved
<1> QED BY <1>1, <1>3, <1>4, <1>5 DEF SafetyInv

\* SafetyInv is inductive.
THEOREM Safety == Spec => []SafetyInv
<1>2. SafetyInv /\ [Next]_vars => SafetyInv'
  BY TypeStep, ReplayStep, EvidenceStep DEF SafetyInv
<1> QED BY InitSafe, <1>2, PTL DEF Spec

\* The nonces applied grow from each time the channel stood at the end of the
\* machine word to the next.
COROLLARY NeverReplayed == Spec => []NoReplay
BY Safety, PTL DEF SafetyInv

\* An open channel distributes its capacity as the sender signed it.
COROLLARY OpenStateAlwaysBacked == Spec => []OpenStateIsBacked
BY Safety, PTL DEF SafetyInv

\* Nobody is accused without proof.
COROLLARY FraudAlwaysProved == Spec => []FraudIsProved
BY Safety, PTL DEF SafetyInv

\* A closing channel always has a close recorded or about to be: of the steps
\* that empty pending_closes or finish a call, one also ends Closing and the
\* other moves the close to where the status expects it.
THEOREM ClosingAlwaysBacked == Spec => []ClosingIsBacked
<1>1. Init => ClosingIsBacked BY DEF Init, ClosingIsBacked
<1>2. ASSUME TypeOK, ClosingIsBacked, [Next]_vars PROVE ClosingIsBacked'
  <2>1. ASSUME NEW p \in Users, NEW u \in updates, InitiateClose(p, u)
        PROVE  ClosingIsBacked'
    <3>1. closing'[p] # {} BY <2>1, <1>2 DEF InitiateClose, TypeOK
    <3> QED BY <3>1 DEF ClosingIsBacked
  <2>2. ASSUME NEW p \in Users, RecordClose(p) PROVE ClosingIsBacked'
    BY <2>2 DEF RecordClose, ClosingIsBacked
  <2>3. ASSUME NEW p \in Users, MarkChallenged(p) PROVE ClosingIsBacked'
    <3>1. /\ channel' = channel /\ closing' = closing
          /\ pending' = {[d EXCEPT !.challenged = TRUE] : d \in pending}
          BY <2>3 DEF MarkChallenged
    <3>2. pending # {} => pending' # {} BY <3>1
    <3> QED BY <3>1, <3>2, <1>2 DEF ClosingIsBacked
  <2>4. ASSUME NEW p \in Users, MarkDisputed(p) PROVE ClosingIsBacked'
    BY <2>4 DEF MarkDisputed, ClosingIsBacked, TypeOK
  <2>5. CASE SettleClose BY <2>5 DEF SettleClose, ClosingIsBacked, TypeOK
  <2>6. CASE \E u \in updates : CooperativeClose(u)
    BY <2>6 DEF CooperativeClose, ClosingIsBacked, TypeOK
  <2>7. CASE Tick
    <3>1. \A cs : cs # {} => Closer(cs) # {} BY DEF Closer
    <3>2. /\ channel' = channel /\ pending' = Closer(pending)
          /\ \A p \in Users : closing'[p] = Closer(closing[p])
          BY <2>7 DEF Tick
    <3> QED BY <3>1, <3>2, <1>2 DEF ClosingIsBacked
  <2>8. ASSUME UNCHANGED <<channel, pending, closing>> PROVE ClosingIsBacked'
    BY <2>8, <1>2 DEF ClosingIsBacked
  <2>9. CASE \E a \in Amounts : CreatePayment(a) BY <2>8, <2>9 DEF CreatePayment, calls
  <2>10. CASE \E u \in updates : Countersign(u) BY <2>8, <2>10 DEF Countersign, calls
  <2>11. CASE \E u \in updates : UpdateState(u) \/ ProcessPayment(u)
    BY <2>11, <1>2 DEF UpdateState, ProcessPayment, Apply, ClosingIsBacked, TypeOK
  <2>12. CASE \E p \in Users, u \in updates : ChallengeClose(p, u)
    BY <2>8, <2>12 DEF ChallengeClose
  <2>13. CASE \E p \in Users : PushFraud(p) \/ RecordChallenge(p)
    BY <2>8, <2>13 DEF PushFraud, RecordChallenge
  <2>14. CASE FinalizeClose \/ MarkFraudSlashed
    BY <2>8, <2>14 DEF FinalizeClose, MarkFraudSlashed, calls
  <2>15. CASE UNCHANGED vars BY <2>8, <2>15 DEF vars, calls
  <2> QED BY <1>2, <2>1, <2>2, <2>3, <2>4, <2>5, <2>6, <2>7, <2>9, <2>10, <2>11,
             <2>12, <2>13, <2>14, <2>15 DEF Next
<1> QED BY <1>1, <1>2, TypeCorrect, PTL DEF Spec

-----------------------------------------------------------------------------
(* The watchtower.  ChallengedIsRecorded is about the moment a challenge    *)
(* has returned; what makes it inductive is what the monitor's local state  *)
(* promises on the way there: the state it read is at least as new as the   *)
(* attempt it answers, and the call it waits for is its own.                *)

\* A fraud event answers every attempt detected with a nonce up to its own.
Answered(n) == \E k \in 1 .. Len(fraud) : fraud[k].actual >= n

\* The map holds one registration of the channel, and the pass one client.
OneRegistration == /\ \A v, w \in tower : v = w
                   /\ \A p, q \in pass.client : p = q

\* What the tower holds and what the monitor has read are signed updates.
KnownIsSigned == /\ \A w \in tower : w.latest \in updates
                 /\ pass.state \subseteq updates

\* No attempt was detected with a state newer than the latest.
AttemptsAreOlder ==
  \A w \in tower : \A i \in 1 .. Len(w.attempts) :
    w.attempts[i].latest <= w.latest.state.nonce

\* There is a block to look at while events are being looked at.
RangeIsOpen == pass.step \in {"query", "check"} => last < pass.current

\* The state the monitor has read is as new as the attempt it is to answer,
\* even when the registration was replaced or updated since.
StateCoversAttempt ==
  pass.step \in {"party", "call", "wait"} =>
    \A w \in tower, u \in pass.state :
      w.attempts # <<>> => w.attempts[Len(w.attempts)].latest <= u.state.nonce

\* Only the monitor challenges, and only while it waits for the call.
OnlyMonitorChallenges ==
  \A p \in Users : challenging[p] # {} => pass.step = "wait" /\ p \in pass.client

\* The call the monitor waits for answers the state it was made with, once it
\* is past the section that pushes the fraud event.
CallAnswers ==
  pass.step = "wait" => \E p \in pass.client, u \in pass.state :
    /\ challenging[p] = {} => Answered(u.state.nonce)
    /\ \A c \in challenging[p] :
         c.newer = u /\ (c.step # "fraud" => Answered(u.state.nonce))

TowerInv == /\ OneRegistration /\ KnownIsSigned /\ AttemptsAreOlder /\ RangeIsOpen
            /\ StateCoversAttempt /\ OnlyMonitorChallenges /\ CallAnswers
            /\ ChallengedIsRecorded

WatchInv == TypeOK /\ WatchTypeOK /\ TowerInv

\* Whatever the tower does to the channel is an operation of the manager.
LEMMA TowerMovesChannel ==
  ASSUME WatchInv, [WatchNext]_allVars
  PROVE  [Next]_vars
<1>1. pass.client \subseteq Users /\ pass.state \subseteq updates
  BY TowerAssumption DEF WatchInv, TowerInv, WatchTypeOK, Pass, KnownIsSigned
<1>2. ASSUME UNCHANGED closeVars PROVE UNCHANGED vars
  BY <1>2 DEF closeVars, vars
<1>3. CASE Challenging
  BY <1>1, <1>3 DEF Challenging, ChallengeSection, Next
<1>4. CASE SubmitChallenge
  <2>1. CASE Refused BY <2>1, <1>2 DEF Refused
  <2>2. CASE \E p \in pass.client, u \in pass.state : ChallengeClose(p, u)
    BY <1>1, <2>2 DEF Next
  <2> QED BY <2>1, <2>2, <1>4 DEF SubmitChallenge
<1>5. CASE PartyStep BY <1>5 DEF PartyStep, Next
<1>6. CASE \/ \E p \in Client, u \in updates : RegisterChannel(p, u)
           \/ \E u \in updates : UpdateChannelState(u)
           \/ Expire \/ Stop
           \/ \E u \in updates : Announce(u.state.nonce)
  BY <1>2, <1>6 DEF RegisterChannel, UpdateChannelState, Expire, Stop, Announce
<1>7. CASE Start \/ Iterate \/ Height \/ HeightFails \/ Query \/ CheckForFraud
  BY <1>2, <1>7 DEF Start, Iterate, Height, HeightFails, Query, CheckForFraud
<1>8. CASE ReadState \/ ReadParty \/ ChallengeSubmitted \/ Advanced
  BY <1>2, <1>8 DEF ReadState, ReadParty, ChallengeSubmitted, Advanced
<1>9. CASE UNCHANGED allVars BY <1>2, <1>9 DEF allVars
<1> QED BY <1>3, <1>4, <1>5, <1>6, <1>7, <1>8, <1>9 DEF WatchNext, MonitorStep

\* Moving on to another step keeps the monitor's local variables.
LEMMA PassMoves ==
  ASSUME pass \in Pass, NEW t \in Step, GoTo(t)
  PROVE  /\ pass' \in Pass /\ pass'.step = t /\ pass'.current = pass.current
         /\ pass'.state = pass.state /\ pass'.client = pass.client
BY DEF GoTo, Pass

\* A pass that starts or ends has nothing in hand.
LEMMA FreshPass ==
  ASSUME NEW t \in Step
  PROVE  /\ Fresh(t) \in Pass /\ Fresh(t).step = t /\ Fresh(t).current = 0
         /\ Fresh(t).state = {} /\ Fresh(t).client = {}
BY DEF Fresh, Pass

\* The parts of a registration, and that each change of one keeps its type.
LEMMA WatchedParts ==
  ASSUME WatchTypeOK, NEW w \in tower
  PROVE  /\ w \in Watched /\ w.client \in Client /\ w.latest \in Update
         /\ w.latest.state.nonce \in Nat /\ w.active \in BOOLEAN
         /\ w.attempts \in Seq(Attempt) /\ Len(w.attempts) \in Nat
         /\ \A i \in 1 .. Len(w.attempts) :
              w.attempts[i] \in Attempt /\ w.attempts[i].latest \in Nat
<1>1. w \in Watched BY DEF WatchTypeOK
<1>2. w.latest \in Update /\ w.attempts \in Seq(Attempt) BY <1>1 DEF Watched
<1>3. \A i \in 1 .. Len(w.attempts) : w.attempts[i] \in Attempt BY <1>2
<1>4. \A a \in Attempt : a.latest \in Nat BY DEF Attempt
<1> QED BY <1>1, <1>2, <1>3, <1>4 DEF Watched, Update, State

\* A step that leaves the channel, and a pass that asks nothing of the events.
LEMMA IdleStep ==
  ASSUME WatchInv, UNCHANGED <<challenging, fraud, updates>>, tower' \subseteq tower,
         \A p \in Users : challenging[p] = {},
         pass'.step \notin {"query", "check", "party", "call", "wait"},
         pass'.state \subseteq updates, \A p, q \in pass'.client : p = q
  PROVE  TowerInv'
<1>1. OneRegistration' /\ KnownIsSigned' /\ AttemptsAreOlder' /\ RangeIsOpen'
  BY DEF WatchInv, TowerInv, OneRegistration, KnownIsSigned, AttemptsAreOlder,
         RangeIsOpen
<1>2. StateCoversAttempt' /\ OnlyMonitorChallenges' /\ CallAnswers'
  BY DEF StateCoversAttempt, OnlyMonitorChallenges, CallAnswers
<1>3. ChallengedIsRecorded' BY DEF WatchInv, TowerInv, ChallengedIsRecorded
<1> QED BY <1>1, <1>2, <1>3 DEF TowerInv

\* A step of the parties or of the chain changes nothing the tower relies on.
LEMMA ElsewhereStep ==
  ASSUME TowerInv, UNCHANGED <<challenging, fraud, updates, tower, last, pass>>
  PROVE  TowerInv'
<1>1. OneRegistration' /\ KnownIsSigned' /\ AttemptsAreOlder' /\ RangeIsOpen'
  BY DEF TowerInv, OneRegistration, KnownIsSigned, AttemptsAreOlder, RangeIsOpen
<1>2. StateCoversAttempt' /\ OnlyMonitorChallenges'
  BY DEF TowerInv, StateCoversAttempt, OnlyMonitorChallenges
<1>3. CallAnswers' /\ ChallengedIsRecorded'
  BY DEF TowerInv, CallAnswers, ChallengedIsRecorded, Answered
<1> QED BY <1>1, <1>2, <1>3 DEF TowerInv

\* Nobody challenges unless the monitor waits for it.
LEMMA NoCallInFlight ==
  ASSUME WatchInv, pass.step # "wait"
  PROVE  \A p \in Users : challenging[p] = {}
BY DEF WatchInv, TowerInv, OnlyMonitorChallenges

\* A registration, an update and an expiry, whatever the monitor is doing.
LEMMA ClientStep ==
  ASSUME WatchInv,
         \/ \E p \in Client, u \in updates : RegisterChannel(p, u)
         \/ \E u \in updates : UpdateChannelState(u)
         \/ Expire
  PROVE  WatchTypeOK' /\ TowerInv'
<1> DEFINE Kept(w) == \E v \in tower : w.attempts = v.attempts
                                      /\ v.latest.state.nonce <= w.latest.state.nonce
           Sound(w) == w \in Watched /\ w.latest \in updates
                       /\ (w.attempts = <<>> \/ Kept(w))
<1>1. ASSUME NEW w, tower' = {w}, Sound(w), watching' \in 0 .. MaxWatching,
             UNCHANGED <<closeVars, chain, running, last, pass>>
      PROVE  WatchTypeOK' /\ TowerInv'
  <2>1. WatchTypeOK' BY <1>1 DEF WatchInv, WatchTypeOK
  <2>2. UNCHANGED <<challenging, fraud, updates>> BY <1>1 DEF closeVars, calls
  <2>3. OneRegistration' /\ KnownIsSigned' /\ RangeIsOpen'
        BY <1>1, <2>2 DEF WatchInv, TowerInv, OneRegistration, KnownIsSigned, RangeIsOpen
  <2>4. w.latest.state.nonce \in Nat BY <1>1 DEF Watched, Update, State
  <2>8. AttemptsAreOlder' /\ ChallengedIsRecorded' /\ StateCoversAttempt'
    <3>5. CASE w.attempts = <<>>
      <4>1. \A v \in tower' : Len(v.attempts) = 0 BY <1>1, <3>5
      <4>2. AttemptsAreOlder' /\ ChallengedIsRecorded'
            BY <4>1 DEF AttemptsAreOlder, ChallengedIsRecorded
      <4>3. StateCoversAttempt' BY <1>1, <3>5 DEF StateCoversAttempt
      <4> QED BY <4>2, <4>3
    <3>6. CASE Kept(w)
      <4> PICK v \in tower : w.attempts = v.attempts
                             /\ v.latest.state.nonce <= w.latest.state.nonce BY <3>6
      <4>1. /\ v.latest.state.nonce \in Nat
            /\ \A i \in 1 .. Len(v.attempts) : v.attempts[i].latest \in Nat
            BY WatchedParts DEF WatchInv
      <4>2. \A i \in 1 .. Len(v.attempts) : v.attempts[i].latest <= v.latest.state.nonce
            BY DEF WatchInv, TowerInv, AttemptsAreOlder
      <4>3. \A i \in 1 .. Len(w.attempts) : w.attempts[i].latest <= w.latest.state.nonce
            BY <2>4, <4>1, <4>2
      <4>4. AttemptsAreOlder' BY <1>1, <4>3 DEF AttemptsAreOlder
      <4>5. ChallengedIsRecorded'
            BY <1>1, <2>2 DEF ChallengedIsRecorded, WatchInv, TowerInv
      <4>6. StateCoversAttempt'
            BY <1>1 DEF StateCoversAttempt, WatchInv, TowerInv
      <4> QED BY <4>4, <4>5, <4>6
    <3> QED BY <1>1, <3>5, <3>6
  <2>7. OnlyMonitorChallenges' /\ CallAnswers'
        BY <1>1, <2>2 DEF WatchInv, TowerInv, OnlyMonitorChallenges, CallAnswers, Answered
  <2> QED BY <2>1, <2>3, <2>7, <2>8 DEF TowerInv
<1>2. ASSUME NEW p \in Client, NEW u \in updates, RegisterChannel(p, u)
      PROVE  WatchTypeOK' /\ TowerInv'
  <2> DEFINE w == [client |-> p, latest |-> u, active |-> TRUE, attempts |-> <<>>,
                   submitted |-> FALSE]
  <2>1. w \in Watched BY DEF Watched, WatchInv, TypeOK
  <2>2. Sound(w) BY <2>1
  <2>3. tower' = {w} /\ UNCHANGED <<closeVars, chain, running, last, pass>>
        BY <1>2 DEF RegisterChannel
  <2>4. watching' \in 0 .. MaxWatching
        BY <1>2, TowerAssumption DEF RegisterChannel, WatchInv, WatchTypeOK
  <2> HIDE DEF w, Sound
  <2> QED BY <1>1, <2>2, <2>3, <2>4
<1>3. ASSUME NEW u \in updates, UpdateChannelState(u) PROVE WatchTypeOK' /\ TowerInv'
  <2> PICK v \in tower :
        /\ u.state.nonce > v.latest.state.nonce /\ tower' = {[v EXCEPT !.latest = u]}
        /\ UNCHANGED <<closeVars, watching, chain, running, last, pass>>
      BY <1>3 DEF UpdateChannelState
  <2> DEFINE w == [v EXCEPT !.latest = u]
  <2>1. u \in Update /\ u.state.nonce \in Nat BY DEF WatchInv, TypeOK, Update, State
  <2>2. v \in Watched /\ v.latest.state.nonce \in Nat BY WatchedParts DEF WatchInv
  <2>3. w \in Watched /\ w.latest = u /\ w.attempts = v.attempts
        BY <2>1, <2>2 DEF Watched
  <2>4. Sound(w) BY <2>1, <2>2, <2>3
  <2>5. watching' \in 0 .. MaxWatching BY DEF WatchInv, WatchTypeOK
  <2> HIDE DEF Sound
  <2>6. tower' = {w} /\ UNCHANGED <<closeVars, chain, running, last, pass>>
        OBVIOUS
  <2> HIDE DEF w
  <2> QED BY <1>1, <2>4, <2>5, <2>6
<1>4. CASE Expire
  <2> PICK v \in tower : tower' = {[v EXCEPT !.active = FALSE]}
      BY <1>4 DEF Expire
  <2> DEFINE w == [v EXCEPT !.active = FALSE]
  <2>1. v \in Watched /\ v.latest.state.nonce \in Nat BY WatchedParts DEF WatchInv
  <2>2. w \in Watched /\ w.latest = v.latest /\ w.attempts = v.attempts
        BY <2>1 DEF Watched
  <2>3. v.latest \in updates BY DEF WatchInv, TowerInv, KnownIsSigned
  <2>4. Sound(w) BY <2>1, <2>2, <2>3
  <2>5. watching' \in 0 .. MaxWatching BY <1>4 DEF Expire, WatchInv, WatchTypeOK
  <2> HIDE DEF Sound
  <2>6. tower' = {w} /\ UNCHANGED <<closeVars, chain, running, last, pass>>
        BY <1>4 DEF Expire
  <2> HIDE DEF w
  <2> QED BY <1>1, <2>4, <2>5, <2>6
<1> QED BY <1>2, <1>3, <1>4

\* A step of the monitor that ends or begins a pass, or moves it on without a
\* look at the channel.
LEMMA PollStep ==
  ASSUME WatchInv, Start \/ Iterate \/ Height \/ HeightFails \/ Query \/ Advanced
  PROVE  WatchTypeOK' /\ TowerInv'
<1>1. /\ pass \in Pass /\ pass.current \in 0 .. Len(chain) /\ last \in 0 .. Len(chain)
      /\ Len(chain) \in Nat
  BY DEF WatchInv, WatchTypeOK
<1>2. UNCHANGED <<challenging, fraud, updates, watching, chain>> /\ pass.step # "wait"
  BY DEF Start, Iterate, Height, HeightFails, Query, Advanced, closeVars, calls
<1>3. \A p \in Users : challenging[p] = {} BY <1>2, NoCallInFlight
<1>4. ASSUME NEW t \in {"loop", "poll", "stopped"}, pass' = Fresh(t),
             tower' \subseteq tower, running' \in BOOLEAN, last' \in 0 .. Len(chain)
      PROVE  WatchTypeOK' /\ TowerInv'
  <2>1. t \in Step BY DEF Step
  <2>2. WatchTypeOK' BY <1>1, <1>2, <1>4, <2>1, FreshPass DEF WatchInv, WatchTypeOK
  <2>3. TowerInv' BY <1>2, <1>3, <1>4, <2>1, FreshPass, IdleStep
  <2> QED BY <2>2, <2>3
<1>5. CASE Start
  BY <1>1, <1>4, <1>5 DEF Start
<1>6. CASE Iterate
  BY <1>1, <1>4, <1>6 DEF Iterate, WatchInv, WatchTypeOK
<1>7. CASE HeightFails
  BY <1>1, <1>4, <1>7 DEF HeightFails, WatchInv, WatchTypeOK
<1>8. CASE Advanced
  BY <1>1, <1>4, <1>8 DEF Advanced, WatchInv, WatchTypeOK
<1>9. CASE Height
  <2>1. UNCHANGED <<tower, running, last>> BY <1>9 DEF Height
  <2>2. CASE Len(chain) > last
    <3> DEFINE q == [Fresh("query") EXCEPT !.current = Len(chain)]
    <3>1. pass' = q BY <1>9, <2>2 DEF Height
    <3>2. /\ q \in Pass /\ q.step = "query" /\ q.current = Len(chain)
          /\ q.state = {} /\ q.client = {}
          BY <1>1 DEF Fresh, Pass, Step
    <3> HIDE DEF q
    <3>3. WatchTypeOK' BY <1>1, <1>2, <2>1, <3>1, <3>2 DEF WatchInv, WatchTypeOK
    <3>4. OneRegistration' /\ KnownIsSigned' /\ AttemptsAreOlder' /\ ChallengedIsRecorded'
          BY <1>2, <2>1, <3>1, <3>2 DEF WatchInv, TowerInv, OneRegistration,
             KnownIsSigned, AttemptsAreOlder, ChallengedIsRecorded
    <3>5. RangeIsOpen' BY <1>1, <2>1, <2>2, <3>1, <3>2 DEF RangeIsOpen
    <3>6. StateCoversAttempt' /\ OnlyMonitorChallenges' /\ CallAnswers'
          BY <1>2, <1>3, <3>1, <3>2 DEF StateCoversAttempt, OnlyMonitorChallenges, CallAnswers
    <3> QED BY <3>3, <3>4, <3>5, <3>6 DEF TowerInv
  <2>3. CASE ~(Len(chain) > last)
    BY <1>1, <1>4, <1>9, <2>1, <2>3 DEF Height, WatchInv, WatchTypeOK
  <2> QED BY <2>2, <2>3
<1>10. CASE Query
  <2>1. UNCHANGED <<tower, running, last>> BY <1>10 DEF Query
  <2>2. PICK t \in {"advance", "check"} : GoTo(t) BY <1>10 DEF Query
  <2>3. t \in Step BY DEF Step
  <2>4. /\ pass' \in Pass /\ pass'.step = t /\ pass'.current = pass.current
        /\ pass'.state = pass.state /\ pass'.client = pass.client
        BY <1>1, <2>2, <2>3, PassMoves
  <2>5. WatchTypeOK' BY <1>1, <1>2, <2>1, <2>4 DEF WatchInv, WatchTypeOK
  <2>6. OneRegistration' /\ KnownIsSigned' /\ AttemptsAreOlder' /\ ChallengedIsRecorded'
        BY <1>2, <2>1, <2>4 DEF WatchInv, TowerInv, OneRegistration,
           KnownIsSigned, AttemptsAreOlder, ChallengedIsRecorded
  <2>7. RangeIsOpen' BY <1>10, <2>1, <2>4 DEF RangeIsOpen, WatchInv, TowerInv, Query
  <2>8. StateCoversAttempt' /\ OnlyMonitorChallenges' /\ CallAnswers'
        BY <1>2, <1>3, <2>2, <2>4 DEF StateCoversAttempt, OnlyMonitorChallenges, CallAnswers
  <2> QED BY <2>5, <2>6, <2>7, <2>8 DEF TowerInv
<1> QED BY <1>5, <1>6, <1>7, <1>8, <1>9, <1>10

\* check_for_fraud: the attempt it records is of the latest state.
LEMMA CheckStep ==
  ASSUME WatchInv, CheckForFraud
  PROVE  WatchTypeOK' /\ TowerInv'
<1> DEFINE n == chain[last + 1]
<1>1. /\ pass \in Pass /\ pass.current \in 0 .. Len(chain) /\ last \in 0 .. Len(chain)
      /\ chain \in Seq(Nat) /\ Len(chain) \in Nat
  BY DEF WatchInv, WatchTypeOK
<1>2. /\ UNCHANGED <<challenging, fraud, updates, watching, chain, running, last>>
      /\ pass.step = "check"
  BY DEF CheckForFraud, closeVars, calls
<1>3. \A p \in Users : challenging[p] = {} BY <1>2, NoCallInFlight
<1>4. last < pass.current BY <1>2 DEF WatchInv, TowerInv, RangeIsOpen
<1>5. n \in Nat BY <1>1, <1>4
<1>6. ASSUME NEW t \in {"advance", "state"}, GoTo(t)
      PROVE  /\ pass' \in Pass /\ pass'.step = t /\ pass'.current = pass.current
             /\ pass'.state = pass.state /\ pass'.client = pass.client
  BY <1>1, <1>6, PassMoves DEF Step
<1>7. CASE GoTo("advance") /\ UNCHANGED tower
  <2>1. WatchTypeOK' BY <1>1, <1>2, <1>6, <1>7 DEF WatchInv, WatchTypeOK
  <2>2. /\ pass.state \subseteq updates /\ \A p, q \in pass.client : p = q
        BY DEF WatchInv, TowerInv, KnownIsSigned, OneRegistration
  <2>3. TowerInv' BY <1>2, <1>3, <1>6, <1>7, <2>2, IdleStep
  <2> QED BY <2>1, <2>3
<1>8. ASSUME NEW v \in tower,
             tower' = {[v EXCEPT !.attempts = Append(v.attempts,
               [submitted |-> n, latest |-> v.latest.state.nonce, challenged |-> FALSE])]},
             GoTo("state")
      PROVE  WatchTypeOK' /\ TowerInv'
  <2> DEFINE a == [submitted |-> n, latest |-> v.latest.state.nonce, challenged |-> FALSE]
             w == [v EXCEPT !.attempts = Append(v.attempts, a)]
  <2>1. /\ v \in Watched /\ v.latest.state.nonce \in Nat /\ v.attempts \in Seq(Attempt)
        /\ Len(v.attempts) \in Nat
        BY WatchedParts DEF WatchInv
  <2>2. /\ a \in Attempt /\ a.latest = v.latest.state.nonce /\ ~a.challenged
        BY <1>5, <2>1 DEF Attempt
  <2> HIDE DEF a
  <2>3. /\ Append(v.attempts, a) \in Seq(Attempt)
        /\ Len(Append(v.attempts, a)) = Len(v.attempts) + 1
        /\ Append(v.attempts, a)[Len(v.attempts) + 1] = a
        /\ \A i \in 1 .. Len(v.attempts) : Append(v.attempts, a)[i] = v.attempts[i]
        BY <2>1, <2>2
  <2>4. w \in Watched /\ w.latest = v.latest /\ w.attempts = Append(v.attempts, a)
        BY <2>1, <2>3 DEF Watched
  <2>5. tower' = {w} BY <1>8 DEF a
  <2> HIDE DEF w
  <2>6. WatchTypeOK' BY <1>1, <1>2, <1>6, <1>8, <2>4, <2>5 DEF WatchInv, WatchTypeOK
  <2>7. OneRegistration' /\ KnownIsSigned'
        BY <1>2, <1>6, <1>8, <2>4, <2>5 DEF WatchInv, TowerInv, OneRegistration, KnownIsSigned
  <2>8. RangeIsOpen' /\ StateCoversAttempt' /\ OnlyMonitorChallenges' /\ CallAnswers'
        BY <1>2, <1>3, <1>6, <1>8 DEF RangeIsOpen, StateCoversAttempt,
           OnlyMonitorChallenges, CallAnswers
  <2>9. \A i \in 1 .. Len(w.attempts) :
          \/ w.attempts[i] = a
          \/ i \in 1 .. Len(v.attempts) /\ w.attempts[i] = v.attempts[i]
        BY <2>1, <2>3, <2>4
  <2>10. AttemptsAreOlder'
    <3>1. \A i \in 1 .. Len(v.attempts) : v.attempts[i].latest <= v.latest.state.nonce
          BY DEF WatchInv, TowerInv, AttemptsAreOlder
    <3>2. a.latest <= v.latest.state.nonce BY <2>1, <2>2
    <3>3. \A i \in 1 .. Len(w.attempts) : w.attempts[i].latest <= w.latest.state.nonce
          BY <2>4, <2>9, <3>1, <3>2
    <3> QED BY <2>5, <3>3 DEF AttemptsAreOlder
  <2>11. ChallengedIsRecorded'
    <3>1. \A i \in 1 .. Len(v.attempts) : v.attempts[i].challenged =>
            \E k \in 1 .. Len(fraud) : fraud[k].actual >= v.attempts[i].latest
          BY DEF WatchInv, TowerInv, ChallengedIsRecorded
    <3> QED BY <1>2, <2>2, <2>5, <2>9, <3>1 DEF ChallengedIsRecorded
  <2> QED BY <2>6, <2>7, <2>8, <2>10, <2>11 DEF TowerInv
<1> QED BY <1>7, <1>8 DEF CheckForFraud

\* submit_challenge reads the state, then the client, then calls the manager.
LEMMA SubmitStep ==
  ASSUME WatchInv, ReadState \/ ReadParty \/ SubmitChallenge
  PROVE  WatchTypeOK' /\ TowerInv'
<1>1. /\ pass \in Pass /\ pass.current \in 0 .. Len(chain) /\ last \in 0 .. Len(chain)
      /\ pass.state \subseteq Update /\ pass.client \subseteq Client
  BY DEF WatchInv, WatchTypeOK, Pass
<1>2. UNCHANGED <<updates, fraud, tower, watching, chain, running, last>>
  BY DEF ReadState, ReadParty, SubmitChallenge, Refused, ChallengeClose, closeVars
<1>3. pass.step # "wait" BY DEF ReadState, ReadParty, SubmitChallenge
<1>4. \A p \in Users : challenging[p] = {} BY <1>3, NoCallInFlight
<1>5. /\ \A p, q \in pass.client : p = q
      /\ \A v, w \in tower : v = w
      /\ pass.state \subseteq updates /\ \A w \in tower : w.latest \in updates
  BY DEF WatchInv, TowerInv, OneRegistration, KnownIsSigned
<1>6. AttemptsAreOlder' /\ ChallengedIsRecorded'
  BY <1>2 DEF WatchInv, TowerInv, AttemptsAreOlder, ChallengedIsRecorded
<1>7. ASSUME GoTo("advance"), UNCHANGED challenging PROVE WatchTypeOK' /\ TowerInv'
  <2>1. /\ pass' \in Pass /\ pass'.step = "advance" /\ pass'.current = pass.current
        /\ pass'.state = pass.state /\ pass'.client = pass.client
        BY <1>1, <1>7, PassMoves DEF Step
  <2>2. WatchTypeOK' BY <1>1, <1>2, <2>1 DEF WatchInv, WatchTypeOK
  <2>3. TowerInv' BY <1>2, <1>4, <1>5, <1>7, <2>1, IdleStep
  <2> QED BY <2>2, <2>3
<1>8. CASE ReadState
  <2>1. UNCHANGED challenging BY <1>8 DEF ReadState, closeVars, calls
  <2>2. CASE tower = {} BY <1>7, <1>8, <2>1, <2>2 DEF ReadState, GoTo
  <2>3. CASE tower # {}
    <3> DEFINE known == {w.latest : w \in tower}
    <3>1. pass' = [pass EXCEPT !.step = "party", !.state = known]
          BY <1>8, <2>3 DEF ReadState
    <3>2. known \subseteq Update BY WatchedParts DEF WatchInv
    <3>3. /\ pass' \in Pass /\ pass'.step = "party" /\ pass'.current = pass.current
          /\ pass'.state = known /\ pass'.client = pass.client
          BY <1>1, <3>1, <3>2 DEF Pass, Step
    <3>4. WatchTypeOK' BY <1>1, <1>2, <3>3 DEF WatchInv, WatchTypeOK
    <3>5. OneRegistration' /\ KnownIsSigned' BY <1>2, <1>5, <3>3 DEF OneRegistration, KnownIsSigned
    <3>6. RangeIsOpen' /\ OnlyMonitorChallenges' /\ CallAnswers'
          BY <1>4, <2>1, <3>3 DEF RangeIsOpen, OnlyMonitorChallenges, CallAnswers
    <3>7. \A w \in tower : w.attempts # <<>> =>
            w.attempts[Len(w.attempts)].latest <= w.latest.state.nonce
      <4> SUFFICES ASSUME NEW w \in tower, w.attempts # <<>>
                   PROVE  w.attempts[Len(w.attempts)].latest <= w.latest.state.nonce
          OBVIOUS
      <4>1. w.attempts \in Seq(Attempt) BY WatchedParts DEF WatchInv
      <4>2. Len(w.attempts) \in 1 .. Len(w.attempts) BY <4>1
      <4> QED BY <4>2 DEF WatchInv, TowerInv, AttemptsAreOlder
    <3>8. StateCoversAttempt'
          BY <1>2, <1>5, <3>3, <3>7 DEF StateCoversAttempt
    <3> QED BY <1>6, <3>4, <3>5, <3>6, <3>8 DEF TowerInv
  <2> QED BY <2>2, <2>3
<1>9. CASE ReadParty
  <2>1. UNCHANGED challenging BY <1>9 DEF ReadParty, closeVars, calls
  <2>2. CASE tower = {} BY <1>7, <1>9, <2>1, <2>2 DEF ReadParty, GoTo
  <2>3. CASE tower # {}
    <3> DEFINE whom == {w.client : w \in tower}
    <3>1. pass' = [pass EXCEPT !.step = "call", !.client = whom]
          BY <1>9, <2>3 DEF ReadParty
    <3>2. whom \subseteq Client BY WatchedParts DEF WatchInv
    <3>3. /\ pass' \in Pass /\ pass'.step = "call" /\ pass'.current = pass.current
          /\ pass'.client = whom /\ pass'.state = pass.state
          BY <1>1, <3>1, <3>2 DEF Pass, Step
    <3>4. WatchTypeOK' BY <1>1, <1>2, <3>3 DEF WatchInv, WatchTypeOK
    <3>5. OneRegistration' /\ KnownIsSigned' BY <1>2, <1>5, <3>3 DEF OneRegistration, KnownIsSigned
    <3>6. RangeIsOpen' /\ OnlyMonitorChallenges' /\ CallAnswers'
          BY <1>4, <2>1, <3>3 DEF RangeIsOpen, OnlyMonitorChallenges, CallAnswers
    <3>7. StateCoversAttempt'
          BY <1>2, <1>9, <3>3 DEF StateCoversAttempt, WatchInv, TowerInv, ReadParty
    <3> QED BY <1>6, <3>4, <3>5, <3>6, <3>7 DEF TowerInv
  <2> QED BY <2>2, <2>3
<1>10. CASE SubmitChallenge
  <2>1. CASE Refused
    <3>1. GoTo("advance") /\ UNCHANGED challenging BY <2>1 DEF Refused, closeVars, calls
    <3> QED BY <1>7, <3>1
  <2>2. ASSUME NEW p \in pass.client, NEW u \in pass.state, ChallengeClose(p, u), GoTo("wait")
        PROVE  WatchTypeOK' /\ TowerInv'
    <3> PICK c \in pending : challenging' = [challenging EXCEPT ![p] =
                               {[step |-> "fraud", close |-> c, newer |-> u]}]
        BY <2>2 DEF ChallengeClose
    <3>1. p \in Users BY <1>1, TowerAssumption
    <3> DEFINE call == [step |-> "fraud", close |-> c, newer |-> u]
    <3>11. call.newer = u /\ call.step = "fraud" OBVIOUS
    <3>12. challenging' = [challenging EXCEPT ![p] = {call}] OBVIOUS
    <3> HIDE DEF call
    <3>2. /\ challenging'[p] = {call}
          /\ \A q \in Users : q # p => challenging'[q] = {}
          BY <1>4, <3>1, <3>12 DEF WatchInv, TypeOK
    <3>3. /\ pass' \in Pass /\ pass'.step = "wait" /\ pass'.current = pass.current
          /\ pass'.state = pass.state /\ pass'.client = pass.client
          BY <1>1, <2>2, PassMoves DEF Step
    <3>4. WatchTypeOK' BY <1>1, <1>2, <3>3 DEF WatchInv, WatchTypeOK
    <3>5. OneRegistration' /\ KnownIsSigned' BY <1>2, <1>5, <3>3 DEF OneRegistration, KnownIsSigned
    <3>6. RangeIsOpen' BY <3>3 DEF RangeIsOpen
    <3>7. StateCoversAttempt'
          BY <1>2, <1>10, <3>3 DEF StateCoversAttempt, WatchInv, TowerInv, SubmitChallenge
    <3>8. OnlyMonitorChallenges' BY <3>2, <3>3 DEF OnlyMonitorChallenges
    <3>9. CallAnswers'
      <4>1. p \in pass'.client /\ u \in pass'.state BY <3>3
      <4>2. /\ challenging'[p] # {}
            /\ \A d \in challenging'[p] : d.newer = u /\ d.step = "fraud"
            BY <3>2, <3>11
      <4> QED BY <4>1, <4>2 DEF CallAnswers
    <3> QED BY <1>6, <3>4, <3>5, <3>6, <3>7, <3>8, <3>9 DEF TowerInv
  <2> QED BY <1>10, <2>1, <2>2 DEF SubmitChallenge
<1> QED BY <1>8, <1>9, <1>10

\* The sections of challenge_close: the first pushes the fraud event, and what
\* was answered stays answered.
LEMMA SectionStep ==
  ASSUME WatchInv, Challenging
  PROVE  WatchTypeOK' /\ TowerInv'
<1> PICK p \in pass.client : ChallengeSection(p) BY DEF Challenging
<1>1. UNCHANGED watch /\ pass.step = "wait" BY DEF Challenging
<1>2. p \in Users BY TowerAssumption DEF WatchInv, WatchTypeOK, Pass
<1>3. PICK u \in pass.state :
        /\ challenging[p] = {} => Answered(u.state.nonce)
        /\ \A c \in challenging[p] :
             c.newer = u /\ (c.step # "fraud" => Answered(u.state.nonce))
  BY <1>1 DEF WatchInv, TowerInv, OneRegistration, CallAnswers
<1>4. fraud \in Seq(Fraud) /\ u.state.nonce \in Nat
  BY DEF WatchInv, TypeOK, TowerInv, KnownIsSigned, Update, State
<1>5. WatchTypeOK' BY <1>1 DEF watch, WatchInv, WatchTypeOK
<1>6. ASSUME \A q \in Users : q # p => challenging'[q] = challenging[q],
             \A d \in challenging'[p] : d.newer = u, Answered(u.state.nonce)',
             \A n \in Nat : Answered(n) => Answered(n)', updates' = updates
      PROVE  WatchTypeOK' /\ TowerInv'
  <2>1. OneRegistration' /\ KnownIsSigned' /\ AttemptsAreOlder' /\ RangeIsOpen'
        BY <1>1, <1>6 DEF watch, WatchInv, TowerInv, OneRegistration, KnownIsSigned,
           AttemptsAreOlder, RangeIsOpen
  <2>2. StateCoversAttempt' BY <1>1 DEF watch, WatchInv, TowerInv, StateCoversAttempt
  <2>4. OnlyMonitorChallenges'
        BY <1>1, <1>6 DEF watch, WatchInv, TowerInv, OnlyMonitorChallenges
  <2>5. CallAnswers'
    <3>1. p \in pass'.client /\ u \in pass'.state BY <1>1 DEF watch
    <3> QED BY <1>6, <3>1 DEF CallAnswers
  <2>6. ChallengedIsRecorded'
    <3> SUFFICES ASSUME NEW w \in tower, NEW i \in 1 .. Len(w.attempts),
                        w.attempts[i].challenged
                 PROVE  Answered(w.attempts[i].latest)'
        BY <1>1 DEF watch, ChallengedIsRecorded, Answered
    <3>1. Answered(w.attempts[i].latest)
          BY DEF WatchInv, TowerInv, ChallengedIsRecorded, Answered
    <3>2. w.attempts[i].latest \in Nat BY WatchedParts DEF WatchInv
    <3> QED BY <1>6, <3>1, <3>2
  <2> QED BY <1>5, <2>1, <2>2, <2>4, <2>5, <2>6 DEF TowerInv
<1>7. ASSUME NEW c \in challenging[p], NEW t \in {"mark", "channel", "insert"},
             Advance(p, c, t)
      PROVE  /\ \A q \in Users : q # p => challenging'[q] = challenging[q]
             /\ \A d \in challenging'[p] : d.newer = u
  <2>1. [c EXCEPT !.step = t].newer = u BY <1>2, <1>3 DEF WatchInv, TypeOK, Challenge
  <2> QED BY <1>2, <1>7, <2>1 DEF Advance, WatchInv, TypeOK
<1>8. CASE PushFraud(p)
  <2> PICK c \in challenging[p] : PushFraud(p)!(c) BY <1>8 DEF PushFraud
  <2> DEFINE e == [fraudster |-> c.close.initiator,
                   submitted |-> c.close.update.state.nonce,
                   actual |-> c.newer.state.nonce, slashed |-> FALSE]
  <2>1. fraud' = Append(fraud, e) /\ e.actual = u.state.nonce BY <1>3
  <2>2. e \in Fraud BY <1>2, ChallengeParts DEF WatchInv, Fraud
  <2>6. updates' = updates OBVIOUS
  <2>7. /\ \A q \in Users : q # p => challenging'[q] = challenging[q]
        /\ \A d \in challenging'[p] : d.newer = u
        BY <1>7
  <2> HIDE DEF e
  <2>3. /\ Len(fraud') = Len(fraud) + 1 /\ fraud'[Len(fraud) + 1] = e
        /\ \A k \in 1 .. Len(fraud) : fraud'[k] = fraud[k]
        /\ Len(fraud) \in Nat
        BY <1>4, <2>1, <2>2
  <2>4. Answered(u.state.nonce)' BY <1>4, <2>1, <2>3 DEF Answered
  <2>5. \A n \in Nat : Answered(n) => Answered(n)' BY <2>3 DEF Answered
  <2> QED BY <1>6, <2>4, <2>5, <2>6, <2>7
<1>9. ASSUME NEW c \in challenging[p], c.step # "fraud",
             UNCHANGED <<fraud, updates>>,
             \/ \E t \in {"channel", "insert"} : Advance(p, c, t)
             \/ challenging' = [challenging EXCEPT ![p] = {}]
      PROVE  WatchTypeOK' /\ TowerInv'
  <2>1. Answered(u.state.nonce)' BY <1>3, <1>9 DEF Answered
  <2>2. \A n \in Nat : Answered(n) => Answered(n)' BY <1>9 DEF Answered
  <2>3. CASE challenging' = [challenging EXCEPT ![p] = {}]
    <3>1. /\ \A q \in Users : q # p => challenging'[q] = challenging[q]
          /\ \A d \in challenging'[p] : d.newer = u
          BY <1>2, <2>3 DEF WatchInv, TypeOK
    <3> QED BY <1>6, <1>9, <2>1, <2>2, <3>1
  <2>4. ASSUME NEW t \in {"channel", "insert"}, Advance(p, c, t)
        PROVE  WatchTypeOK' /\ TowerInv'
    BY <1>6, <1>7, <1>9, <2>1, <2>2, <2>4
  <2> QED BY <1>9, <2>3, <2>4
<1>10. CASE MarkChallenged(p) BY <1>9, <1>10 DEF MarkChallenged
<1>11. CASE MarkDisputed(p) BY <1>9, <1>11 DEF MarkDisputed
<1>12. CASE RecordChallenge(p) BY <1>9, <1>12 DEF RecordChallenge
<1> QED BY <1>8, <1>10, <1>11, <1>12 DEF ChallengeSection

\* What is marked when challenge_close has returned.
LEMMA MarkedAttempts ==
  ASSUME WatchTypeOK, ChallengeSubmitted, NEW v \in tower'
  PROVE  \E w \in tower :
           /\ v \in Watched /\ v.latest = w.latest /\ v.client = w.client
           /\ Len(v.attempts) = Len(w.attempts)
           /\ \A i \in 1 .. Len(w.attempts) :
                /\ v.attempts[i].latest = w.attempts[i].latest
                /\ v.attempts[i].challenged => w.attempts[i].challenged \/ i = Len(w.attempts)
<1>1. PICK w \in tower : v = [w EXCEPT !.submitted = TRUE, !.attempts = MarkLast(w.attempts)]
  BY DEF ChallengeSubmitted
<1> DEFINE s == MarkLast(w.attempts)
<1>2. /\ w \in Watched /\ w.attempts \in Seq(Attempt) /\ Len(w.attempts) \in Nat
      /\ \A i \in 1 .. Len(w.attempts) : w.attempts[i] \in Attempt
  BY WatchedParts
<1>3. \A a \in Attempt : /\ [a EXCEPT !.challenged = TRUE] \in Attempt
                         /\ [a EXCEPT !.challenged = TRUE].latest = a.latest
  BY DEF Attempt
<1>4. \A i \in 1 .. Len(w.attempts) :
        /\ s[i] \in Attempt /\ s[i].latest = w.attempts[i].latest
        /\ i # Len(w.attempts) => s[i] = w.attempts[i]
  BY <1>2, <1>3 DEF MarkLast
<1>5. s = [i \in 1 .. Len(w.attempts) |-> s[i]] BY DEF MarkLast
<1> HIDE DEF s
<1>6. s \in [1 .. Len(w.attempts) -> Attempt] BY <1>4, <1>5
<1>7. s \in Seq(Attempt) /\ Len(s) = Len(w.attempts)
  <2>1. s \in Seq(Attempt) BY <1>2, <1>6, SeqDef
  <2> QED BY <1>2, <1>6, <2>1
<1>8. /\ v \in Watched /\ v.latest = w.latest /\ v.client = w.client /\ v.attempts = s
  BY <1>1, <1>2, <1>7 DEF Watched, s
<1> QED BY <1>4, <1>7, <1>8

\* The call has returned, so what it answers is recorded.
LEMMA ReturnStep ==
  ASSUME WatchInv, ChallengeSubmitted
  PROVE  WatchTypeOK' /\ TowerInv'
<1>1. /\ pass \in Pass /\ pass.step = "wait" /\ GoTo("advance")
      /\ UNCHANGED <<challenging, fraud, updates, watching, chain, running, last>>
      /\ \A p \in pass.client : challenging[p] = {}
  BY DEF ChallengeSubmitted, WatchInv, WatchTypeOK, closeVars, calls
<1>2. /\ pass' \in Pass /\ pass'.step = "advance" /\ pass'.current = pass.current
      /\ pass'.state = pass.state /\ pass'.client = pass.client
  BY <1>1, PassMoves DEF Step
<1>3. \A p \in Users : challenging[p] = {}
  BY <1>1 DEF WatchInv, TowerInv, OnlyMonitorChallenges
<1>4. PICK u \in pass.state : Answered(u.state.nonce)
  BY <1>1 DEF WatchInv, TowerInv, CallAnswers
<1>5. u.state.nonce \in Nat
  BY DEF WatchInv, TypeOK, TowerInv, KnownIsSigned, Update, State
<1>6. ASSUME NEW v \in tower'
      PROVE  \E w \in tower :
               /\ v \in Watched /\ v.latest = w.latest /\ v.client = w.client
               /\ Len(v.attempts) = Len(w.attempts)
               /\ \A i \in 1 .. Len(w.attempts) :
                    /\ v.attempts[i].latest = w.attempts[i].latest
                    /\ v.attempts[i].challenged => w.attempts[i].challenged \/ i = Len(w.attempts)
  BY MarkedAttempts DEF WatchInv
<1>7. WatchTypeOK'
  <2>1. tower' \subseteq Watched BY <1>6
  <2> QED BY <1>1, <1>2, <2>1 DEF WatchInv, WatchTypeOK
<1>8. OneRegistration'
  <2>1. \A v, w \in tower : v = w BY DEF WatchInv, TowerInv, OneRegistration
  <2>2. \A v, w \in tower' : v = w
    <3> DEFINE M(w) == [w EXCEPT !.submitted = TRUE, !.attempts = MarkLast(w.attempts)]
    <3>1. tower' = {M(w) : w \in tower} BY DEF ChallengeSubmitted
    <3> HIDE DEF M
    <3> QED BY <2>1, <3>1
  <2> QED BY <1>2, <2>2 DEF WatchInv, TowerInv, OneRegistration
<1>9. KnownIsSigned' BY <1>1, <1>2, <1>6 DEF WatchInv, TowerInv, KnownIsSigned
<1>10. AttemptsAreOlder' BY <1>6 DEF WatchInv, TowerInv, AttemptsAreOlder
<1>11. RangeIsOpen' /\ StateCoversAttempt' /\ OnlyMonitorChallenges' /\ CallAnswers'
  BY <1>1, <1>2, <1>3 DEF RangeIsOpen, StateCoversAttempt, OnlyMonitorChallenges, CallAnswers
<1>12. ChallengedIsRecorded'
  <2> SUFFICES ASSUME NEW v \in tower', NEW i \in 1 .. Len(v.attempts),
                      v.attempts[i].challenged
               PROVE  Answered(v.attempts[i].latest)
      BY <1>1 DEF ChallengedIsRecorded, Answered
  <2>1. PICK w \in tower :
          /\ Len(v.attempts) = Len(w.attempts)
          /\ v.attempts[i].latest = w.attempts[i].latest
          /\ w.attempts[i].challenged \/ i = Len(w.attempts)
        BY <1>6
  <2>2. CASE w.attempts[i].challenged
    BY <2>1, <2>2 DEF WatchInv, TowerInv, ChallengedIsRecorded, Answered
  <2>3. CASE i = Len(w.attempts)
    <3>1. w.attempts # <<>> BY <2>1
    <3>2. w.attempts[i].latest <= u.state.nonce
          BY <1>1, <2>3, <3>1 DEF WatchInv, TowerInv, StateCoversAttempt
    <3>3. w.attempts[i].latest \in Nat BY <2>1, WatchedParts DEF WatchInv
    <3>4. fraud \in Seq(Fraud) /\ \A f \in Fraud : f.actual \in Nat
          BY DEF WatchInv, TypeOK, Fraud
    <3>5. PICK k \in 1 .. Len(fraud) : fraud[k].actual >= u.state.nonce
          BY <1>4 DEF Answered
    <3>6. fraud[k].actual \in Nat BY <3>4
    <3>7. fraud[k].actual >= w.attempts[i].latest BY <1>5, <3>2, <3>3, <3>5, <3>6
    <3> QED BY <2>1, <3>7 DEF Answered
  <2> QED BY <2>1, <2>2, <2>3
<1> QED BY <1>7, <1>8, <1>9, <1>10, <1>11, <1>12 DEF TowerInv

\* The parties, the chain and the flag.
LEMMA OutsideStep ==
  ASSUME WatchInv,
         PartyStep \/ Stop \/ (\E u \in updates : Announce(u.state.nonce))
           \/ UNCHANGED allVars
  PROVE  WatchTypeOK' /\ TowerInv'
<1>1. UNCHANGED <<challenging, fraud, updates, tower, last, pass, watching>>
  BY DEF PartyStep, InitiateClose, RecordClose, FinalizeClose, SettleClose, Tick,
         Stop, Announce, closeVars, allVars, calls, watch
<1>2. TowerInv' BY <1>1, ElsewhereStep DEF WatchInv
<1>3. CASE UNCHANGED <<chain, running>>
  BY <1>1, <1>2, <1>3 DEF WatchInv, WatchTypeOK
<1>4. CASE Stop
  BY <1>1, <1>2, <1>4 DEF Stop, WatchInv, WatchTypeOK
<1>5. ASSUME NEW u \in updates, Announce(u.state.nonce) PROVE WatchTypeOK' /\ TowerInv'
  <2>1. u.state.nonce \in Nat BY DEF WatchInv, TypeOK, Update, State
  <2>2. chain \in Seq(Nat) /\ chain' = Append(chain, u.state.nonce) /\ running' = running
        BY <1>5 DEF Announce, WatchInv, WatchTypeOK
  <2>3. chain' \in Seq(Nat) /\ Len(chain') = Len(chain) + 1 /\ Len(chain) \in Nat
        BY <2>1, <2>2
  <2> QED BY <1>1, <1>2, <2>2, <2>3 DEF WatchInv, WatchTypeOK
<1> QED BY <1>3, <1>4, <1>5 DEF PartyStep, watch, allVars

\* The channel's safety invariant holds beside the tower as it does alone.
SafeWatch == WatchInv /\ SafetyInv

\* The invariant of the tower and its channel: every step of the monitor, of
\* the clients, of the parties and of the chain keeps it.
THEOREM WatchInvAlways == WatchSpec => []SafeWatch
<1>1. WatchInit => SafeWatch
  <2> SUFFICES ASSUME WatchInit PROVE SafeWatch OBVIOUS
  <2>1. SafetyInv BY InitSafe DEF WatchInit
  <2>2. TypeOK BY <2>1 DEF SafetyInv
  <2>3. WatchTypeOK
    <3>1. pass \in Pass /\ pass.current = 0 BY FreshPass DEF WatchInit, Step
    <3>2. chain \in Seq(Nat) /\ Len(chain) = 0 BY DEF WatchInit
    <3>3. tower = {} /\ watching = 0 /\ running = FALSE /\ last = 0 BY DEF WatchInit
    <3>4. watching \in 0 .. MaxWatching BY <3>3, TowerAssumption
    <3>5. last \in 0 .. Len(chain) /\ pass.current \in 0 .. Len(chain)
          BY <3>1, <3>2, <3>3
    <3> QED BY <3>1, <3>2, <3>3, <3>4, <3>5 DEF WatchTypeOK
  <2>4. pass.step = "new" /\ pass.state = {} /\ pass.client = {} /\ tower = {}
        BY FreshPass DEF WatchInit, Step
  <2>5. OneRegistration /\ KnownIsSigned /\ AttemptsAreOlder /\ ChallengedIsRecorded
        BY <2>4 DEF OneRegistration, KnownIsSigned, AttemptsAreOlder, ChallengedIsRecorded
  <2>6. RangeIsOpen /\ StateCoversAttempt /\ CallAnswers
        BY <2>4 DEF RangeIsOpen, StateCoversAttempt, CallAnswers
  <2>7. OnlyMonitorChallenges BY DEF WatchInit, Init, OnlyMonitorChallenges
  <2> QED BY <2>1, <2>2, <2>3, <2>5, <2>6, <2>7 DEF SafeWatch, WatchInv, TowerInv
<1>2. SafeWatch /\ [WatchNext]_allVars => SafeWatch'
  <2> SUFFICES ASSUME SafeWatch, [WatchNext]_allVars PROVE SafeWatch' OBVIOUS
  <2>1. [Next]_vars BY TowerMovesChannel DEF SafeWatch
  <2>2. SafetyInv' BY <2>1, TypeStep, ReplayStep, EvidenceStep DEF SafeWatch, SafetyInv
  <2>3. WatchTypeOK' /\ TowerInv'
        BY ClientStep, PollStep, CheckStep, SubmitStep, SectionStep, ReturnStep,
           OutsideStep DEF SafeWatch, WatchNext, MonitorStep
  <2> QED BY <2>2, <2>3 DEF SafeWatch, WatchInv, SafetyInv
<1> QED BY <1>1, <1>2, PTL DEF WatchSpec

\* Type correctness of the tower and its monitor, which never runs ahead of
\* the chain.
COROLLARY WatchTypeCorrect == WatchSpec => []WatchTypeOK
BY WatchInvAlways, PTL DEF SafeWatch, WatchInv

\* An attempt shown as challenged was answered by a fraud event.
COROLLARY ChallengedAlwaysRecorded == WatchSpec => []ChallengedIsRecorded
BY WatchInvAlways, PTL DEF SafeWatch, WatchInv, TowerInv

\* Nobody is accused without proof when the tower challenges either.
COROLLARY TowerAccusesWithProof == WatchSpec => []FraudIsProved
BY WatchInvAlways, PTL DEF SafeWatch, SafetyInv

\* The channel beside its tower is still a channel: every behaviour of the two
\* is one the manager alone allows, so the tower does nothing to it that a
\* user could not have done.
THEOREM TowerRefinesChannel == WatchSpec => Spec
<1>1. WatchInit => Init BY DEF WatchInit
<1>2. SafeWatch /\ [WatchNext]_allVars => [Next]_vars
  BY TowerMovesChannel DEF SafeWatch
<1> QED BY <1>1, <1>2, WatchInvAlways, PTL DEF WatchSpec, Spec
=============================================================================

------------------------ MODULE BridgeManager_proofs ------------------------
(* Proofs about FinalityTracker and BridgeManager, for every value of their *)
(* constants.  The tracker's invariant is proved first and reused: every    *)
(* step of the bridge is a step of the tracker or leaves it alone.          *)
EXTENDS BridgeManager, TLAPS

-----------------------------------------------------------------------------
(* The tracker.                                                             *)

\* No validator is counted twice, and every signer is registered.
SignersSound(p) ==
  /\ \A i, j \in 1 .. Len(p.signatures) :
       p.signatures[i].validator = p.signatures[j].validator => i = j
  /\ Signers(p) \subseteq registered

\* FinalizedByQuorum is about finalized proofs only; what makes it inductive is
\* that pending proofs have sound signers, and that a hash is never pending and
\* finalized at once.
PendingSound == \A h \in TxHash : \A p \in pendingProofs[h] : SignersSound(p)
NeverBoth == \A h \in TxHash : pendingProofs[h] = {} \/ finalizedProofs[h] = {}

TrackerInv == /\ TrackerTypeOK /\ PendingSound /\ NeverBoth
              /\ FinalizedByQuorum /\ QuorumIsNoticed

\* What add_signature does to a proof that did not yet hold the validator.
LEMMA AddSignatureEffect ==
  ASSUME NEW p \in Proof, NEW v \in Validator,
         NEW sig \in {"parses", "malformed"}, ~DuplicateSignature(p, v)
  PROVE  LET q == AddSignature(p, [validator |-> v, sig |-> sig]) IN
         /\ q \in Proof
         /\ q.confirmations = p.confirmations
         /\ q.signatures = Append(p.signatures, [validator |-> v, sig |-> sig])
         /\ SignersSound(p) /\ v \in registered => SignersSound(q)
         /\ Len(q.signatures) >= RequiredSignatures /\ AllParse(q)
              => q.aggregated = Len(q.signatures)
<1> DEFINE s == [validator |-> v, sig |-> sig]
           r == [p EXCEPT !.signatures = Append(p.signatures, s)]
           q == AddSignature(p, s)
<1>1. /\ s \in Signature /\ p.signatures \in Seq(Signature) /\ p.aggregated \in Nat
      /\ Append(p.signatures, s) \in Seq(Signature)
      BY DEF Signature, Proof
<1>2. r \in Proof /\ r.signatures = Append(p.signatures, s)
      /\ r.confirmations = p.confirmations
      BY <1>1 DEF Proof
<1>3. Len(r.signatures) \in Nat BY <1>1, <1>2
<1>4. q = IF Len(r.signatures) >= RequiredSignatures /\ AllParse(r)
          THEN [r EXCEPT !.aggregated = Len(r.signatures)] ELSE r
      BY DEF AddSignature
<1>5. /\ q \in Proof /\ q.confirmations = r.confirmations
      /\ q.signatures = r.signatures
      BY <1>2, <1>3, <1>4 DEF Proof
<1>6. Len(q.signatures) >= RequiredSignatures /\ AllParse(q)
        => q.aggregated = Len(q.signatures)
  <2>1. AllParse(q) <=> AllParse(r) BY <1>5 DEF AllParse
  <2> QED BY <1>2, <1>3, <1>4, <1>5, <2>1 DEF Proof
<1>7. ASSUME SignersSound(p), v \in registered PROVE SignersSound(q)
  <2> DEFINE n == Len(p.signatures)
  <2>1. /\ q.signatures = Append(p.signatures, s) /\ n \in Nat
        /\ Len(q.signatures) = n + 1
        /\ \A i \in 1 .. n : q.signatures[i] = p.signatures[i]
        /\ q.signatures[n + 1] = s
        BY <1>1, <1>2, <1>5
  <2>2. \A i \in 1 .. n : p.signatures[i].validator # v BY DEF DuplicateSignature
  <2>5. \A i \in 1 .. n + 1 : i \in 1 .. n \/ i = n + 1 BY <2>1
  <2>6. q.signatures[n + 1].validator = v BY <2>1
  <2>3. \A i, j \in 1 .. Len(q.signatures) :
          q.signatures[i].validator = q.signatures[j].validator => i = j
    <3> SUFFICES ASSUME NEW i \in 1 .. n + 1, NEW j \in 1 .. n + 1,
                        q.signatures[i].validator = q.signatures[j].validator
                 PROVE  i = j
        BY <2>1
    <3> QED BY <2>1, <2>2, <2>5, <2>6, <1>7 DEF SignersSound
  <2>4. Signers(q) \subseteq registered BY <2>1, <1>7 DEF SignersSound, Signers
  <2> QED BY <2>3, <2>4 DEF SignersSound
<1> QED BY <1>2, <1>5, <1>6, <1>7

\* submit_signature keeps the invariant, whether the proof becomes final or
\* stays pending.
LEMMA SubmitSignatureKeepsInv ==
  ASSUME TrackerInv, NEW h \in TxHash, NEW v \in Validator,
         NEW sig \in {"parses", "malformed"}, SubmitSignature(h, v, sig)
  PROVE  TrackerInv'
<1> PICK p \in pendingProofs[h] :
      /\ ~DuplicateSignature(p, v)
      /\ LET q == AddSignature(p, [validator |-> v, sig |-> sig])
         IN  \/ /\ AllParse(q) /\ IsFinalized(q)
                /\ pendingProofs' = [pendingProofs EXCEPT ![h] = {}]
                /\ finalizedProofs' = [finalizedProofs EXCEPT ![h] = {q}]
             \/ /\ ~(AllParse(q) /\ IsFinalized(q))
                /\ pendingProofs' = [pendingProofs EXCEPT ![h] = {q}]
                /\ UNCHANGED finalizedProofs
    BY DEF SubmitSignature
<1> DEFINE q == AddSignature(p, [validator |-> v, sig |-> sig])
<1>1. /\ p \in Proof /\ SignersSound(p) /\ v \in registered /\ registered' = registered
      /\ pendingProofs[h] # {} /\ finalizedProofs[h] = {}
      BY DEF TrackerInv, TrackerTypeOK, PendingSound, NeverBoth, SubmitSignature
<1>2. /\ q \in Proof /\ SignersSound(q)
      /\ Len(q.signatures) >= RequiredSignatures /\ AllParse(q)
           => q.aggregated = Len(q.signatures)
      BY <1>1, AddSignatureEffect
<1> HIDE DEF q
<1>3. \A r : SignersSound(r) => SignersSound(r)' BY <1>1 DEF SignersSound, Signers
<1>4. CASE /\ AllParse(q) /\ IsFinalized(q)
           /\ pendingProofs' = [pendingProofs EXCEPT ![h] = {}]
           /\ finalizedProofs' = [finalizedProofs EXCEPT ![h] = {q}]
  <2>1. TrackerTypeOK' BY <1>1, <1>2, <1>4 DEF TrackerInv, TrackerTypeOK
  <2>2. PendingSound' BY <1>3, <1>4 DEF TrackerInv, TrackerTypeOK, PendingSound
  <2>3. NeverBoth' BY <1>4 DEF TrackerInv, TrackerTypeOK, NeverBoth
  <2>4. FinalizedByQuorum'
    <3> SUFFICES ASSUME NEW k \in TxHash, NEW r \in finalizedProofs'[k]
                 PROVE  FinalizedByQuorum!(k)!(r)'
        BY DEF FinalizedByQuorum
    <3>1. CASE k = h
      <4>1. r = q BY <1>4, <3>1 DEF TrackerInv, TrackerTypeOK
      <4> QED BY <4>1, <1>1, <1>2, <1>4 DEF IsFinalized, SignersSound, Signers, AllParse
    <3>2. CASE k # h
      <4>1. r \in finalizedProofs[k] BY <1>4, <3>2 DEF TrackerInv, TrackerTypeOK
      <4> QED BY <4>1, <1>1 DEF TrackerInv, FinalizedByQuorum, Signers, AllParse
    <3> QED BY <3>1, <3>2
  <2>5. QuorumIsNoticed'
        BY <1>4 DEF TrackerInv, TrackerTypeOK, QuorumIsNoticed, AllParse
  <2> QED BY <2>1, <2>2, <2>3, <2>4, <2>5 DEF TrackerInv
<1>5. CASE /\ ~(AllParse(q) /\ IsFinalized(q))
           /\ pendingProofs' = [pendingProofs EXCEPT ![h] = {q}]
           /\ UNCHANGED finalizedProofs
  <2>1. TrackerTypeOK' BY <1>1, <1>2, <1>5 DEF TrackerInv, TrackerTypeOK
  <2>2. PendingSound' BY <1>2, <1>3, <1>5 DEF TrackerInv, TrackerTypeOK, PendingSound
  <2>3. NeverBoth' BY <1>1, <1>5 DEF TrackerInv, TrackerTypeOK, NeverBoth
  <2>4. FinalizedByQuorum'
        BY <1>1, <1>5 DEF TrackerInv, FinalizedByQuorum, Signers, AllParse
  <2>5. QuorumIsNoticed'
    <3>1. AllParse(q) /\ q.confirmations >= RequiredConfirmations
            => Len(q.signatures) < RequiredSignatures
      <4>1. Len(q.signatures) \in Nat /\ RequiredSignatures \in Nat \ {0}
            BY <1>2, TrackerAssumption DEF Proof
      <4> QED BY <4>1, <1>2, <1>5 DEF IsFinalized
    <3>2. \A k \in TxHash : \A r \in pendingProofs'[k] : r = q \/ r \in pendingProofs[k]
          BY <1>5 DEF TrackerInv, TrackerTypeOK
    <3> QED BY <3>1, <3>2 DEF TrackerInv, QuorumIsNoticed, AllParse
  <2> QED BY <2>1, <2>2, <2>3, <2>4, <2>5 DEF TrackerInv
<1> QED BY <1>4, <1>5 DEF q

\* The invariant survives when pending proofs are dropped or only their
\* deadlines move, nobody loses a key and the finalized proofs are left alone.
LEMMA PendingShrinks ==
  ASSUME TrackerInv, TrackerTypeOK', registered \subseteq registered',
         finalizedProofs' = finalizedProofs,
         \A h \in TxHash : \A p \in pendingProofs'[h] :
           \/ p.signatures = <<>> /\ finalizedProofs[h] = {}
           \/ \E r \in pendingProofs[h] : /\ p.signatures = r.signatures
                                         /\ p.confirmations = r.confirmations
  PROVE  TrackerInv'
<1>1. \A p, r : p.signatures = r.signatures /\ SignersSound(r) => SignersSound(p)'
      BY DEF SignersSound, Signers
<1>2. \A p : p.signatures = <<>> => SignersSound(p)'
      BY DEF SignersSound, Signers
<1>3. PendingSound' BY <1>1, <1>2 DEF TrackerInv, PendingSound
<1>4. NeverBoth' BY DEF TrackerInv, NeverBoth
<1>5. FinalizedByQuorum' BY DEF TrackerInv, FinalizedByQuorum, Signers, AllParse
<1>6. QuorumIsNoticed'
  <2>1. \A p : p.signatures = <<>> => Len(p.signatures) < RequiredSignatures
        BY TrackerAssumption
  <2>2. \A p, r : p.signatures = r.signatures /\ AllParse(p) => AllParse(r)
        BY DEF AllParse
  <2>3. QuorumIsNoticed BY DEF TrackerInv
  <2> QED BY <2>1, <2>2, <2>3 DEF QuorumIsNoticed
<1> QED BY <1>3, <1>4, <1>5, <1>6 DEF TrackerInv

\* Every operation of the tracker keeps the invariant.
LEMMA TrackerStep == TrackerInv /\ [TrackerNext]_trackerVars => TrackerInv'
<1> USE TrackerAssumption
<1> SUFFICES ASSUME TrackerInv, [TrackerNext]_trackerVars PROVE TrackerInv'
    OBVIOUS
<1>1. ASSUME NEW v \in Validator, RegisterBlsValidator(v) PROVE TrackerInv'
  <2>1. TrackerTypeOK' BY <1>1 DEF TrackerInv, TrackerTypeOK, RegisterBlsValidator
  <2> QED BY <1>1, <2>1, PendingShrinks DEF RegisterBlsValidator
<1>2. ASSUME NEW h \in TxHash, NEW n \in Confirmations, InitiateProof(h, n)
      PROVE  TrackerInv'
  <2> DEFINE p == [confirmations |-> n, signatures |-> <<>>, aggregated |-> 0,
                   keys |-> registered, left |-> ProofTimeout]
  <2>1. /\ pendingProofs' = [pendingProofs EXCEPT ![h] = {p}]
        /\ finalizedProofs[h] = {} /\ registered' = registered
        /\ finalizedProofs' = finalizedProofs
        BY <1>2 DEF InitiateProof
  <2>2. p \in Proof
    <3>1. n \in Nat /\ ProofTimeout \in Int /\ registered \in SUBSET Validator
          BY DEF TrackerInv, TrackerTypeOK
    <3>2. <<>> \in Seq(Signature) OBVIOUS
    <3> QED BY <3>1, <3>2 DEF Proof
  <2>3. TrackerTypeOK' BY <2>1, <2>2 DEF TrackerInv, TrackerTypeOK
  <2>4. p.signatures = <<>> OBVIOUS
  <2> HIDE DEF p
  <2>5. \A k \in TxHash : \A r \in pendingProofs'[k] :
          (r = p /\ k = h) \/ r \in pendingProofs[k]
        BY <2>1 DEF TrackerInv, TrackerTypeOK
  <2> QED BY <2>1, <2>3, <2>4, <2>5, PendingShrinks
<1>3. ASSUME NEW h \in TxHash, NEW v \in Validator,
             NEW sig \in {"parses", "malformed"}, SubmitSignature(h, v, sig)
      PROVE  TrackerInv'
  BY <1>3, SubmitSignatureKeepsInv
<1>4. CASE CleanupExpiredProofs
  <2>1. TrackerTypeOK' BY <1>4 DEF TrackerInv, TrackerTypeOK, CleanupExpiredProofs
  <2> QED BY <1>4, <2>1, PendingShrinks DEF CleanupExpiredProofs
<1>5. CASE TrackerTick
  <2>1. \A p \in Proof : LET r == [p EXCEPT !.left = IF @ >= 0 THEN @ - 1 ELSE @] IN
          r \in Proof /\ r.signatures = p.signatures /\ r.confirmations = p.confirmations
        BY DEF Proof
  <2>2. TrackerTypeOK' BY <1>5, <2>1 DEF TrackerInv, TrackerTypeOK, TrackerTick
  <2>3. \A h \in TxHash : \A p \in pendingProofs'[h] :
          \E r \in pendingProofs[h] : /\ p.signatures = r.signatures
                                       /\ p.confirmations = r.confirmations
    <3> TAKE h \in TxHash
    <3>1. pendingProofs'[h] = {[p EXCEPT !.left = IF @ >= 0 THEN @ - 1 ELSE @] :
                                 p \in pendingProofs[h]}
          BY <1>5 DEF TrackerTick
    <3>2. pendingProofs[h] \subseteq Proof BY DEF TrackerInv, TrackerTypeOK
    <3> QED BY <2>1, <3>1, <3>2
  <2> QED BY <1>5, <2>2, <2>3, PendingShrinks DEF TrackerTick
<1>6. CASE UNCHANGED trackerVars
  <2>1. TrackerTypeOK' BY <1>6 DEF TrackerInv, TrackerTypeOK, trackerVars
  <2> QED BY <1>6, <2>1, PendingShrinks DEF trackerVars
<1> QED BY <1>1, <1>2, <1>3, <1>4, <1>5, <1>6 DEF TrackerNext

\* A new tracker satisfies the invariant.
LEMMA TrackerInitInv == TrackerInit => TrackerInv
  BY DEF TrackerInit, TrackerInv, TrackerTypeOK, PendingSound, NeverBoth,
         FinalizedByQuorum, QuorumIsNoticed

\* The inductive invariant of the tracker.
THEOREM TrackerCorrect == TrackerSpec => []TrackerInv
  BY TrackerInitInv, TrackerStep, PTL DEF TrackerSpec

\* A finalized proof stands on M different registered validators.
COROLLARY QuorumAlways == TrackerSpec => []FinalizedByQuorum
  BY TrackerCorrect, PTL DEF TrackerInv

\* A proof whose signatures all parse is finalized as soon as it has a quorum.
COROLLARY QuorumAlwaysNoticed == TrackerSpec => []QuorumIsNoticed
  BY TrackerCorrect, PTL DEF TrackerInv

\* No operation of the tracker touches a hash that has a finalized proof.
LEMMA FinalStays ==
  ASSUME TrackerInv, [TrackerNext]_trackerVars, NEW h \in TxHash, finalizedProofs[h] # {}
  PROVE  finalizedProofs'[h] = finalizedProofs[h] /\ pendingProofs'[h] = {}
<1>1. pendingProofs[h] = {} BY DEF TrackerInv, NeverBoth
<1>2. CASE \E v \in Validator : RegisterBlsValidator(v)
  BY <1>1, <1>2 DEF RegisterBlsValidator
<1>3. CASE \E k \in TxHash, n \in Confirmations : InitiateProof(k, n)
  BY <1>1, <1>3 DEF InitiateProof, TrackerInv, TrackerTypeOK
<1>4. ASSUME NEW k \in TxHash, NEW v \in Validator,
             NEW sig \in {"parses", "malformed"}, SubmitSignature(k, v, sig)
      PROVE  finalizedProofs'[h] = finalizedProofs[h] /\ pendingProofs'[h] = {}
  BY <1>1, <1>4 DEF SubmitSignature, TrackerInv, TrackerTypeOK
<1>5. CASE CleanupExpiredProofs \/ TrackerTick
  BY <1>1, <1>5 DEF CleanupExpiredProofs, TrackerTick
<1>6. CASE UNCHANGED trackerVars BY <1>1, <1>6 DEF trackerVars
<1> QED BY <1>2, <1>3, <1>4, <1>5, <1>6 DEF TrackerNext

\* What is final stays final.
THEOREM FinalAlwaysForever == TrackerSpec => FinalIsForever
<1>1. TrackerInv /\ [TrackerNext]_trackerVars =>
        [\A h \in TxHash : finalizedProofs[h] # {} =>
           /\ finalizedProofs'[h] = finalizedProofs[h]
           /\ pendingProofs'[h] = {}]_trackerVars
  BY FinalStays
<1> QED BY <1>1, TrackerCorrect, PTL DEF TrackerSpec, FinalIsForever

-----------------------------------------------------------------------------
(* The bridge.                                                              *)

\* Whatever check_finality can answer TRUE for is recorded in the history.
EvidenceComplete ==
  \A h \in TxHash :
    /\ finalizedProofs[h] # {} => ProvedFinal(h)
    /\ \A p \in finalityProofs[h] : IsFinal(p) => ProvedFinal(h)

\* What was executed is a transaction the bridge still knows, so the hash the
\* execution was justified by is the hash it has now.
ExecutedIsKnown == \A t \in TxId : executions[t] > 0 => transactions[t] # {}

BridgeTypes == /\ transactions \in [TxId -> SUBSET Transaction]
               /\ finalityProofs \in [TxHash -> SUBSET LegacyProof]
               /\ evidence \subseteq TxHash \X Chain
               /\ executions \in [TxId -> 0 .. 2]

BridgeInv == /\ BridgeTypes /\ TrackerInv /\ EvidenceComplete /\ ExecutedIsKnown
             /\ ProvedBeforeExecution

\* Every operation of the bridge is one of the tracker or leaves it alone.
LEMMA BridgeMovesTracker == [Next]_vars => [TrackerNext]_trackerVars
  BY DEF Next, vars, InitiateTransaction, SubmitFinalityProof, Tracker,
         UpdatePendingFinality, MarkReadyToExecute, ExecuteTransaction,
         RollbackTransaction, CheckTimeouts, Tick, TrackerNext

\* The operations that move one known transaction to another status.
LEMMA StatusStep ==
  ASSUME BridgeInv, NEW t \in TxId, NEW x \in transactions[t], NEW s \in Status,
         SetStatus(t, x, s), UNCHANGED <<trackerVars, finalityProofs, evidence>>,
         s \in {"ReadyToExecute", "Executed"} => ProvedFinal(x.hash),
         \/ executions' = executions
         \/ /\ executions' = [executions EXCEPT ![t] = IF @ < 2 THEN @ + 1 ELSE @]
            /\ ProvedFinal(x.hash)
  PROVE  /\ BridgeTypes' /\ EvidenceComplete' /\ ExecutedIsKnown'
         /\ ProvedBeforeExecution'
<1> DEFINE y == [x EXCEPT !.status = s]
<1>1. /\ x \in Transaction /\ y \in Transaction /\ y.hash = x.hash /\ y.status = s
      BY DEF BridgeInv, BridgeTypes, Transaction
<1>2. transactions' = [transactions EXCEPT ![t] = {y}] BY DEF SetStatus
<1> HIDE DEF y
<1>3. executions' \in [TxId -> 0 .. 2] /\ \A u \in TxId \ {t} : executions'[u] = executions[u]
      BY DEF BridgeInv, BridgeTypes
<1>4. BridgeTypes' BY <1>1, <1>2, <1>3 DEF BridgeInv, BridgeTypes
<1>5. EvidenceComplete' BY DEF ProvedFinal, BridgeInv, EvidenceComplete, trackerVars, IsFinal
<1>6. ExecutedIsKnown'
      BY <1>2, <1>3 DEF BridgeInv, BridgeTypes, ExecutedIsKnown
<1>7. ProvedBeforeExecution'
  <2> SUFFICES ASSUME NEW u \in TxId, NEW z \in transactions'[u],
                      executions'[u] > 0 \/ z.status \in {"ReadyToExecute", "Executed"}
               PROVE  ProvedFinal(z.hash)'
      BY DEF ProvedBeforeExecution
  <2>1. CASE u # t
    <3>1. z \in transactions[u] BY <1>2, <2>1 DEF BridgeInv, BridgeTypes
    <3> QED BY <1>3, <2>1, <3>1 DEF ProvedFinal, BridgeInv, ProvedBeforeExecution
  <2>2. CASE u = t
    <3>1. z = y BY <1>2, <2>2 DEF BridgeInv, BridgeTypes
    <3>2. CASE executions' = executions /\ executions[t] > 0
      <4>1. ProvedFinal(x.hash) BY <3>2 DEF BridgeInv, ProvedBeforeExecution
      <4> QED BY <1>1, <3>1, <4>1 DEF ProvedFinal
    <3>3. CASE s \in {"ReadyToExecute", "Executed"} BY <1>1, <3>1, <3>3 DEF ProvedFinal
    <3>4. CASE ProvedFinal(x.hash) BY <1>1, <3>1, <3>4 DEF ProvedFinal
    <3> QED BY <1>1, <2>2, <3>1, <3>2, <3>3, <3>4
  <2> QED BY <2>1, <2>2
<1> QED BY <1>4, <1>5, <1>6, <1>7

\* What check_finality answers TRUE for was final at some time.
LEMMA FinalHasEvidence ==
  ASSUME BridgeInv, NEW h \in TxHash, CheckFinality(h) PROVE ProvedFinal(h)
  BY DEF BridgeInv, EvidenceComplete, CheckFinality

\* The steps that rewrite every transaction in place.
LEMMA SweepStep ==
  ASSUME BridgeInv, UNCHANGED <<finalityProofs, evidence, executions>>,
         finalizedProofs' = finalizedProofs,
         transactions' \in [TxId -> SUBSET Transaction],
         \A t \in TxId : transactions[t] # {} => transactions'[t] # {},
         \A t \in TxId : \A y \in transactions'[t] : \E x \in transactions[t] :
           y.hash = x.hash /\ y.status \in {x.status, "TimedOut"}
  PROVE  /\ BridgeTypes' /\ EvidenceComplete' /\ ExecutedIsKnown'
         /\ ProvedBeforeExecution'
<1>1. BridgeTypes' BY DEF BridgeInv, BridgeTypes
<1>2. EvidenceComplete' BY DEF ProvedFinal, BridgeInv, EvidenceComplete, IsFinal
<1>3. ExecutedIsKnown' BY DEF BridgeInv, ExecutedIsKnown
<1>4. ProvedBeforeExecution' BY DEF ProvedFinal, BridgeInv, ProvedBeforeExecution
<1> QED BY <1>1, <1>2, <1>3, <1>4

\* Every operation of the bridge keeps the invariant.
LEMMA BridgeStep ==
  ASSUME BridgeInv, [Next]_vars PROVE BridgeInv'
<1> USE BridgeAssumption, TrackerAssumption
<1>1. TrackerInv' BY BridgeMovesTracker, TrackerStep DEF BridgeInv
<1> DEFINE Rest == /\ BridgeTypes /\ EvidenceComplete /\ ExecutedIsKnown
                   /\ ProvedBeforeExecution
<1>2. ASSUME NEW t \in TxId, NEW c \in Chain, NEW d \in Chain, NEW h \in TxHash,
             NEW k \in Timeouts, InitiateTransaction(t, c, d, h, k)
      PROVE  Rest'
  <2> DEFINE x == [source |-> c, hash |-> h, status |-> "Initiated", left |-> k]
  <2>1. /\ transactions[t] = {} /\ transactions' = [transactions EXCEPT ![t] = {x}]
        /\ UNCHANGED <<trackerVars, finalityProofs, evidence, executions>>
        BY <1>2 DEF InitiateTransaction
  <2>2. x \in Transaction /\ x.status = "Initiated" BY DEF Transaction, Status
  <2> HIDE DEF x
  <2>3. BridgeTypes' BY <2>1, <2>2 DEF BridgeInv, BridgeTypes
  <2>4. EvidenceComplete' BY <2>1 DEF ProvedFinal, BridgeInv, EvidenceComplete, trackerVars, IsFinal
  <2>5. ~(executions[t] > 0) BY <2>1 DEF BridgeInv, ExecutedIsKnown
  <2>6. ExecutedIsKnown' BY <2>1, <2>5 DEF BridgeInv, BridgeTypes, ExecutedIsKnown
  <2>7. ProvedBeforeExecution'
        BY <2>1, <2>2, <2>5 DEF ProvedFinal, BridgeInv, BridgeTypes, ProvedBeforeExecution
  <2> QED BY <2>3, <2>4, <2>6, <2>7
<1>3. ASSUME NEW h \in TxHash, NEW c \in Chain, NEW n \in Confirmations,
             SubmitFinalityProof(h, c, n)
      PROVE  Rest'
  <2> DEFINE p == [chain |-> c, confirmations |-> n]
  <2>1. /\ finalityProofs' = [finalityProofs EXCEPT ![h] = {p}]
        /\ evidence' = IF IsFinal(p) THEN evidence \cup {<<h, c>>} ELSE evidence
        /\ UNCHANGED <<trackerVars, transactions, executions>>
        BY <1>3 DEF SubmitFinalityProof
  <2>2. p \in LegacyProof BY DEF LegacyProof
  <2> HIDE DEF p
  <2>3. BridgeTypes' BY <2>1, <2>2 DEF BridgeInv, BridgeTypes
  <2>4. evidence \subseteq evidence' BY <2>1
  <2>5. \A k \in TxHash : \A q \in finalityProofs'[k] :
          (k = h /\ q = p) \/ q \in finalityProofs[k]
        BY <2>1 DEF BridgeInv, BridgeTypes
  <2>6. EvidenceComplete'
        BY <2>1, <2>4, <2>5 DEF ProvedFinal, BridgeInv, EvidenceComplete, trackerVars, IsFinal
  <2> QED BY <2>1, <2>3, <2>4, <2>6
          DEF ProvedFinal, BridgeInv, ExecutedIsKnown, ProvedBeforeExecution
<1>4. ASSUME Tracker PROVE Rest'
  <2>1. /\ evidence' = evidence \cup
             {h \in TxHash : finalizedProofs'[h] # {}} \X {ChatChain}
        /\ UNCHANGED <<transactions, finalityProofs, executions>>
        BY <1>4 DEF Tracker
  <2>2. BridgeTypes' BY <2>1 DEF BridgeInv, BridgeTypes
  <2>3. EvidenceComplete' BY <2>1 DEF ProvedFinal, BridgeInv, EvidenceComplete, IsFinal
  <2>4. ExecutedIsKnown' BY <2>1 DEF BridgeInv, ExecutedIsKnown
  <2>5. evidence \subseteq evidence' BY <2>1
  <2>6. ProvedBeforeExecution' BY <2>1, <2>5 DEF ProvedFinal, BridgeInv, ProvedBeforeExecution
  <2> QED BY <2>2, <2>3, <2>4, <2>6
<1>5. ASSUME NEW t \in TxId, UpdatePendingFinality(t) PROVE Rest'
  BY <1>5, StatusStep DEF UpdatePendingFinality, Status
<1>6. ASSUME NEW t \in TxId, MarkReadyToExecute(t) PROVE Rest'
  <2> PICK x \in transactions[t] :
        CheckFinality(x.hash) /\ SetStatus(t, x, "ReadyToExecute")
      BY <1>6 DEF MarkReadyToExecute
  <2>1. x.hash \in TxHash BY DEF BridgeInv, BridgeTypes, Transaction
  <2>2. ProvedFinal(x.hash) BY <2>1, FinalHasEvidence
  <2> QED BY <1>6, <2>2, StatusStep DEF MarkReadyToExecute, Status
<1>7. ASSUME NEW t \in TxId, ExecuteTransaction(t) PROVE Rest'
  <2> PICK x \in transactions[t] :
        x.status = "ReadyToExecute" /\ SetStatus(t, x, "Executed")
      BY <1>7 DEF ExecuteTransaction
  <2>1. ProvedFinal(x.hash) BY DEF BridgeInv, ProvedBeforeExecution
  <2> QED BY <1>7, <2>1, StatusStep DEF ExecuteTransaction, Status
<1>8. ASSUME NEW t \in TxId, RollbackTransaction(t) PROVE Rest'
  BY <1>8, StatusStep DEF RollbackTransaction, Status
<1> DEFINE Known == \A t \in TxId : transactions[t] \subseteq Transaction
<1>k. Known BY DEF BridgeInv, BridgeTypes
<1>9. ASSUME CheckTimeouts PROVE Rest'
  <2> DEFINE F(x) == IF TimedOut(x) THEN [x EXCEPT !.status = "TimedOut"] ELSE x
  <2>1. \A x \in Transaction : /\ F(x) \in Transaction /\ F(x).hash = x.hash
                               /\ F(x).status \in {x.status, "TimedOut"}
        BY DEF Transaction, Status
  <2>2. /\ transactions' = [t \in TxId |-> {F(x) : x \in transactions[t]}]
        /\ UNCHANGED <<trackerVars, finalityProofs, evidence, executions>>
        BY <1>9 DEF CheckTimeouts
  <2> HIDE DEF F
  <2>3. \A t \in TxId : transactions'[t] = {F(x) : x \in transactions[t]} BY <2>2
  <2>4. /\ transactions' \in [TxId -> SUBSET Transaction]
        /\ \A t \in TxId : transactions[t] # {} => transactions'[t] # {}
        BY <1>k, <2>1, <2>2, <2>3
  <2>5. \A t \in TxId : \A y \in transactions'[t] : \E x \in transactions[t] :
          y.hash = x.hash /\ y.status \in {x.status, "TimedOut"}
        BY <1>k, <2>1, <2>3
  <2> QED BY <2>2, <2>4, <2>5, SweepStep DEF trackerVars
<1>10. ASSUME Tick PROVE Rest'
  <2> DEFINE F(x) == [x EXCEPT !.left = IF @ >= 0 THEN @ - 1 ELSE @]
  <2>1. \A x \in Transaction : /\ F(x) \in Transaction /\ F(x).hash = x.hash
                               /\ F(x).status \in {x.status, "TimedOut"}
        BY DEF Transaction
  <2>2. /\ transactions' = [t \in TxId |-> {F(x) : x \in transactions[t]}]
        /\ finalizedProofs' = finalizedProofs
        /\ UNCHANGED <<finalityProofs, evidence, executions>>
        BY <1>10 DEF Tick, TrackerTick
  <2> HIDE DEF F
  <2>3. \A t \in TxId : transactions'[t] = {F(x) : x \in transactions[t]} BY <2>2
  <2>4. /\ transactions' \in [TxId -> SUBSET Transaction]
        /\ \A t \in TxId : transactions[t] # {} => transactions'[t] # {}
        BY <1>k, <2>1, <2>2, <2>3
  <2>5. \A t \in TxId : \A y \in transactions'[t] : \E x \in transactions[t] :
          y.hash = x.hash /\ y.status \in {x.status, "TimedOut"}
        BY <1>k, <2>1, <2>3
  <2> QED BY <2>2, <2>4, <2>5, SweepStep
<1>11. ASSUME UNCHANGED vars PROVE Rest'
  <2>1. UNCHANGED <<transactions, finalityProofs, finalizedProofs, evidence, executions>>
        BY <1>11 DEF vars, bridgeVars, trackerVars
  <2>2. transactions' \in [TxId -> SUBSET Transaction]
        BY <2>1 DEF BridgeInv, BridgeTypes
  <2> QED BY <2>1, <2>2, SweepStep
<1>12. Rest'
  <2> HIDE DEF Rest
  <2>1. CASE \E t \in TxId, c, d \in Chain, h \in TxHash, k \in Timeouts :
               InitiateTransaction(t, c, d, h, k)
        BY <2>1, <1>2
  <2>2. CASE \E h \in TxHash, c \in Chain, n \in Confirmations : SubmitFinalityProof(h, c, n)
        BY <2>2, <1>3
  <2>3. CASE \E t \in TxId : \/ UpdatePendingFinality(t) \/ MarkReadyToExecute(t)
                             \/ ExecuteTransaction(t) \/ RollbackTransaction(t)
        BY <2>3, <1>5, <1>6, <1>7, <1>8
  <2> QED BY <2>1, <2>2, <2>3, <1>4, <1>9, <1>10, <1>11 DEF Next
<1> QED BY <1>1, <1>12 DEF BridgeInv

\* The inductive invariant of the bridge composed with its tracker.
THEOREM BridgeCorrect == Spec => []BridgeInv
<1>1. Init => BridgeInv
  <2> SUFFICES ASSUME Init PROVE BridgeInv OBVIOUS
  <2>1. TrackerInv BY TrackerInitInv DEF Init
  <2> QED BY <2>1 DEF Init, TrackerInit, BridgeInv, BridgeTypes, EvidenceComplete,
                      ExecutedIsKnown, ProvedBeforeExecution
<1> QED BY <1>1, BridgeStep, PTL DEF Spec

\* Type correctness of the bridge and its tracker.
COROLLARY BridgeTypeCorrect == Spec => []TypeOK
<1>1. BridgeInv => TypeOK BY DEF BridgeInv, BridgeTypes, TypeOK, TrackerInv
<1> QED BY <1>1, BridgeCorrect, PTL

\* Nothing is executed before its source hash was proved final, by the
\* requirement of the chain the proof was for.
COROLLARY ProvedAlwaysBefore == Spec => []ProvedBeforeExecution
  BY BridgeCorrect, PTL DEF BridgeInv

\* Inside the bridge, too, a finalized proof has M different registered signers.
COROLLARY BridgeFinalByQuorum == Spec => []FinalizedByQuorum
  BY BridgeCorrect, PTL DEF BridgeInv, TrackerInv
=============================================================================

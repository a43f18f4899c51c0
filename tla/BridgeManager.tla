---------------------------- MODULE BridgeManager ----------------------------
(***************************************************************************)
(* BridgeManager (crates/dchat-bridge/src/lib.rs) composed with the        *)
(* FinalityTracker it owns: cross-chain transactions, the older map of     *)
(* finality proofs by transaction hash, and the operations by which the    *)
(* callers move a transaction through its statuses.  Every operation takes *)
(* &mut self, so each is one action.  Maps are functions to sets of at     *)
(* most one value; timeout_at is kept as the ticks left, -1 once it has    *)
(* passed.  Amounts, initiators and timestamps decide nothing.             *)
(***************************************************************************)
EXTENDS FinalityTracker

CONSTANTS
  TxId,
  Chain, ChatChain,     \* ChainId
  ChainConfirmations,   \* required_confirmations, by chain
  Timeouts              \* timeout_seconds initiate_transaction is called with

ASSUME BridgeAssumption ==
  /\ ChatChain \in Chain /\ ChainConfirmations \in [Chain -> Nat]
  /\ RequiredConfirmations = ChainConfirmations[ChatChain]
  /\ Timeouts \subseteq Nat

VARIABLES
  transactions,     \* by transaction id
  finalityProofs,   \* by transaction hash: the last proof submitted, if any
  evidence,         \* history: the hashes with a final proof of either kind, and
                    \* the chain by whose requirement it was final
  executions        \* history: successful execute_transaction calls, by id

bridgeVars == <<transactions, finalityProofs, evidence, executions>>
vars == <<trackerVars, bridgeVars>>

Status == {"Initiated", "PendingFinality", "ReadyToExecute", "Executed",
           "RolledBack", "TimedOut"}
Transaction == [source : Chain, hash : TxHash, status : Status, left : Int]
LegacyProof == [chain : Chain, confirmations : Nat]

Init ==
  /\ TrackerInit
  /\ transactions = [t \in TxId |-> {}]
  /\ finalityProofs = [h \in TxHash |-> {}]
  /\ evidence = {} /\ executions = [t \in TxId |-> 0]

SetStatus(t, x, s) ==
  transactions' = [transactions EXCEPT ![t] = {[x EXCEPT !.status = s]}]

\* initiate_transaction draws a fresh id.
InitiateTransaction(t, source, dest, h, timeout) ==
  /\ transactions[t] = {}
  /\ source # dest
  /\ transactions' = [transactions EXCEPT ![t] =
       {[source |-> source, hash |-> h, status |-> "Initiated", left |-> timeout]}]
  /\ UNCHANGED <<trackerVars, finalityProofs, evidence, executions>>

\* FinalityProof::is_final as submit_finality_proof computes it.
IsFinal(p) == p.confirmations >= ChainConfirmations[p.chain]

\* Slip: what is stored is how many confirmations exceed the requirement.
SubmitFinalityProofSlip(h, c, n) ==
  /\ finalityProofs' = [finalityProofs EXCEPT ![h] =
       {[chain |-> c, confirmations |-> n - ChainConfirmations[c]]}]
  /\ UNCHANGED <<trackerVars, transactions, evidence, executions>>

\* submit_finality_proof replaces whatever proof the hash had.  The chain is the
\* caller's: no transaction is looked up.
SubmitFinalityProof(h, c, n) ==
  LET p == [chain |-> c, confirmations |-> n] IN
  /\ finalityProofs' = [finalityProofs EXCEPT ![h] = {p}]
  /\ evidence' = IF IsFinal(p) THEN evidence \cup {<<h, c>>} ELSE evidence
  /\ UNCHANGED <<trackerVars, transactions, executions>>

\* Slip: a proof that was merely submitted is taken for a final one.
CheckFinalitySlip(h) == finalityProofs[h] # {} \/ finalizedProofs[h] # {}

\* check_finality: the tracker is asked only when there is no older proof.
CheckFinality(h) ==
  IF finalityProofs[h] # {} THEN \A p \in finalityProofs[h] : IsFinal(p)
                            ELSE finalizedProofs[h] # {}

\* initiate_bls_finality, which takes the chat chain's requirement whatever the
\* transaction, register_bls_validator, submit_finality_signature, and the
\* tracker's cleanup.
Tracker ==
  /\ \/ \E v \in Validator : RegisterBlsValidator(v)
     \/ \E h \in TxHash, n \in Confirmations : InitiateProof(h, n)
     \/ \E h \in TxHash, v \in Validator, sig \in {"parses", "malformed"} :
          SubmitSignature(h, v, sig)
     \/ CleanupExpiredProofs
  /\ evidence' = evidence \cup
       {h \in TxHash : finalizedProofs'[h] # {}} \X {ChatChain}
  /\ UNCHANGED <<transactions, finalityProofs, executions>>

UpdatePendingFinality(t) ==
  /\ \E x \in transactions[t] : /\ x.status = "Initiated"
                               /\ SetStatus(t, x, "PendingFinality")
  /\ UNCHANGED <<trackerVars, finalityProofs, evidence, executions>>

\* mark_ready_to_execute looks at the finality of the hash, not at the status.
MarkReadyToExecute(t) ==
  /\ \E x \in transactions[t] : /\ CheckFinality(x.hash)
                               /\ SetStatus(t, x, "ReadyToExecute")
  /\ UNCHANGED <<trackerVars, finalityProofs, evidence, executions>>

\* Slip: a transaction still waiting for finality may be executed.
ExecuteTransactionSlip(t) ==
  /\ \E x \in transactions[t] : /\ x.status \in {"PendingFinality", "ReadyToExecute"}
                               /\ SetStatus(t, x, "Executed")
  /\ executions' = [executions EXCEPT ![t] = IF @ < 2 THEN @ + 1 ELSE @]
  /\ UNCHANGED <<trackerVars, finalityProofs, evidence>>

\* execute_transaction; the history counts up to two.
ExecuteTransaction(t) ==
  /\ \E x \in transactions[t] : /\ x.status = "ReadyToExecute"
                               /\ SetStatus(t, x, "Executed")
  /\ executions' = [executions EXCEPT ![t] = IF @ < 2 THEN @ + 1 ELSE @]
  /\ UNCHANGED <<trackerVars, finalityProofs, evidence>>

RollbackTransaction(t) ==
  /\ \E x \in transactions[t] : SetStatus(t, x, "RolledBack")
  /\ UNCHANGED <<trackerVars, finalityProofs, evidence, executions>>

\* The transactions check_timeouts sweeps.
TimedOut(x) == x.left < 0 /\ x.status # "Executed"

CheckTimeouts ==
  /\ transactions' = [t \in TxId |->
       {IF TimedOut(x) THEN [x EXCEPT !.status = "TimedOut"] ELSE x : x \in transactions[t]}]
  /\ UNCHANGED <<trackerVars, finalityProofs, evidence, executions>>

Tick ==
  /\ TrackerTick
  /\ transactions' = [t \in TxId |->
       {[x EXCEPT !.left = IF @ >= 0 THEN @ - 1 ELSE @] : x \in transactions[t]}]
  /\ UNCHANGED <<finalityProofs, evidence, executions>>

Next ==
  \/ \E t \in TxId, c, d \in Chain, h \in TxHash, k \in Timeouts :
       InitiateTransaction(t, c, d, h, k)
  \/ \E h \in TxHash, c \in Chain, n \in Confirmations : SubmitFinalityProof(h, c, n)
  \/ Tracker
  \/ \E t \in TxId : UpdatePendingFinality(t)
  \/ \E t \in TxId : MarkReadyToExecute(t)
  \/ \E t \in TxId : ExecuteTransaction(t)
  \/ \E t \in TxId : RollbackTransaction(t)
  \/ CheckTimeouts
  \/ Tick

Spec == Init /\ [][Next]_vars

-----------------------------------------------------------------------------
(* Properties.                                                             *)

\* Every variable keeps its type.
TypeOK ==
  /\ TrackerTypeOK
  /\ transactions \in [TxId -> SUBSET Transaction]
  /\ finalityProofs \in [TxHash -> SUBSET LegacyProof]
  /\ evidence \subseteq TxHash \X Chain
  /\ executions \in [TxId -> 0 .. 2]

ProvedFinal(h) == \E c \in Chain : <<h, c>> \in evidence

\* Nothing is executed on the destination chain, or offered for execution,
\* unless its source hash had been proved final before by the requirement of the
\* chain the proof was for: an older proof with the confirmations of the chain
\* its submitter named, or a finalized BLS proof with those of the chat chain.
\* A proof may have been replaced by one with fewer confirmations since, and a
\* rolled-back or timed-out transaction may have been made ready again.  That the
\* requirement was the one of the transaction's own source chain does not hold:
\* the code never compares the two.
ProvedBeforeExecution ==
  \A t \in TxId : \A x \in transactions[t] :
    executions[t] > 0 \/ x.status \in {"ReadyToExecute", "Executed"}
      => ProvedFinal(x.hash)

\* "Atomic swaps with rollback safety": what was executed on the destination
\* chain is not rolled back.
NotExecutedAndRolledBack ==
  \A t \in TxId : \A x \in transactions[t] :
    x.status = "RolledBack" => executions[t] = 0
=============================================================================

--------------------------- MODULE FinalityTracker ---------------------------
(***************************************************************************)
(* The bridge's M-of-N finality tracker                                    *)
(* (crates/dchat-bridge/src/finality.rs).  A proof collects validator      *)
(* signatures until the required number can be aggregated; a finalized     *)
(* proof is moved from pending_proofs to finalized_proofs.                 *)
(*                                                                         *)
(* A signature is abstracted to whether it parses as a BLS signature:      *)
(* nothing is verified before a proof is final.  A map from hashes to      *)
(* proofs is a function to sets of at most one proof.  created_at is kept  *)
(* as the number of ticks left                                             *)
(* before cleanup_expired_proofs would drop the proof; -1 is expired.      *)
(***************************************************************************)
EXTENDS Integers, Sequences, FiniteSets

CONSTANTS
  TxHash, Validator,
  RequiredSignatures,     \* M
  RequiredConfirmations,  \* what initiate_bls_finality passes: ChatChain's
  Confirmations,          \* confirmations initiate_proof is called with
  ProofTimeout            \* one hour, in ticks

ASSUME TrackerAssumption ==
  /\ RequiredSignatures \in Nat \ {0}
  /\ RequiredConfirmations \in Nat /\ Confirmations \subseteq Nat
  /\ ProofTimeout \in Nat

VARIABLES
  registered,   \* validator_pubkeys: who has a BLS key
  pendingProofs, finalizedProofs

trackerVars == <<registered, pendingProofs, finalizedProofs>>

Signature == [validator : Validator, sig : {"parses", "malformed"}]
Proof == [confirmations : Nat,
          signatures : Seq(Signature),
          aggregated : Nat,           \* how many signatures the aggregate covers
          keys : SUBSET Validator,    \* validator_pubkeys_map, copied at creation
          left : Int]

TrackerInit ==
  /\ registered = {}
  /\ pendingProofs = [h \in TxHash |-> {}]
  /\ finalizedProofs = [h \in TxHash |-> {}]

\* register_validator, with a key that parses.
RegisterBlsValidator(v) ==
  /\ registered' = registered \cup {v}
  /\ UNCHANGED <<pendingProofs, finalizedProofs>>

\* Slip: a hash that is already final may be proved again.
InitiateProofAgainSlip(h, n) ==
  /\ pendingProofs[h] = {}
  /\ pendingProofs' = [pendingProofs EXCEPT ![h] =
       {[confirmations |-> n, signatures |-> <<>>, aggregated |-> 0,
         keys |-> registered, left |-> ProofTimeout]}]
  /\ UNCHANGED <<registered, finalizedProofs>>

InitiateProof(h, n) ==
  /\ pendingProofs[h] = {} /\ finalizedProofs[h] = {}
  /\ pendingProofs' = [pendingProofs EXCEPT ![h] =
       {[confirmations |-> n, signatures |-> <<>>, aggregated |-> 0,
         keys |-> registered, left |-> ProofTimeout]}]
  /\ UNCHANGED <<registered, finalizedProofs>>

\* add_signature refuses a second signature of the same validator.
DuplicateSignatureSlip(p, v) == FALSE
DuplicateSignature(p, v) ==
  \E i \in 1 .. Len(p.signatures) : p.signatures[i].validator = v

AllParse(p) == \A i \in 1 .. Len(p.signatures) : p.signatures[i].sig # "malformed"

\* Slip: what is aggregated are the signatures that were there before.
AddSignatureEarlySlip(p, s) ==
  [p EXCEPT !.signatures = Append(@, s),
            !.aggregated = IF Len(p.signatures) + 1 >= RequiredSignatures
                           THEN Len(p.signatures) ELSE @]

\* Slip: aggregation waits for one signature more than is needed.
AddSignatureStrictSlip(p, s) ==
  LET q == [p EXCEPT !.signatures = Append(@, s)]
  IN  IF Len(q.signatures) > RequiredSignatures /\ AllParse(q)
      THEN [q EXCEPT !.aggregated = Len(q.signatures)]
      ELSE q

\* add_signature: the signature is pushed first; try_aggregate then replaces
\* the aggregate, or fails and leaves proof and signature as they are.
AddSignature(p, s) ==
  LET q == [p EXCEPT !.signatures = Append(@, s)]
  IN  IF Len(q.signatures) >= RequiredSignatures /\ AllParse(q)
      THEN [q EXCEPT !.aggregated = Len(q.signatures)]
      ELSE q

IsFinalized(p) ==
  /\ p.aggregated > 0
  /\ Len(p.signatures) >= RequiredSignatures
  /\ p.confirmations >= RequiredConfirmations

\* submit_signature; add_signature's error returns before is_finalized is asked.
SubmitSignature(h, v, sig) ==
  /\ v \in registered
  /\ \E p \in pendingProofs[h] :
       /\ ~DuplicateSignature(p, v)
       /\ LET q == AddSignature(p, [validator |-> v, sig |-> sig])
          IN  \/ /\ AllParse(q) /\ IsFinalized(q)
                 /\ pendingProofs' = [pendingProofs EXCEPT ![h] = {}]
                 /\ finalizedProofs' = [finalizedProofs EXCEPT ![h] = {q}]
              \/ /\ ~(AllParse(q) /\ IsFinalized(q))
                 /\ pendingProofs' = [pendingProofs EXCEPT ![h] = {q}]
                 /\ UNCHANGED finalizedProofs
  /\ UNCHANGED registered

CleanupExpiredProofs ==
  /\ pendingProofs' = [h \in TxHash |-> {p \in pendingProofs[h] : p.left >= 0}]
  /\ UNCHANGED <<registered, finalizedProofs>>

TrackerTick ==
  /\ pendingProofs' = [h \in TxHash |->
       {[p EXCEPT !.left = IF @ >= 0 THEN @ - 1 ELSE @] : p \in pendingProofs[h]}]
  /\ UNCHANGED <<registered, finalizedProofs>>

TrackerNext ==
  \/ \E v \in Validator : RegisterBlsValidator(v)
  \/ \E h \in TxHash, n \in Confirmations : InitiateProof(h, n)
  \/ \E h \in TxHash, v \in Validator, sig \in {"parses", "malformed"} :
       SubmitSignature(h, v, sig)
  \/ CleanupExpiredProofs
  \/ TrackerTick

TrackerSpec == TrackerInit /\ [][TrackerNext]_trackerVars

-----------------------------------------------------------------------------
(* Properties.                                                             *)

\* Every variable keeps its type.
TrackerTypeOK ==
  /\ registered \subseteq Validator
  /\ pendingProofs \in [TxHash -> SUBSET Proof]
  /\ finalizedProofs \in [TxHash -> SUBSET Proof]

Signers(p) == {p.signatures[i].validator : i \in 1 .. Len(p.signatures)}

\* A proof counts signatures, so it counts validators only if no validator is
\* counted twice: M signatures of a finalized proof are those of M different
\* registered validators, every one parsed and is covered by the aggregate.
FinalizedByQuorum ==
  \A h \in TxHash : \A p \in finalizedProofs[h] :
    /\ Len(p.signatures) >= RequiredSignatures
    /\ \A i, j \in 1 .. Len(p.signatures) :
         p.signatures[i].validator = p.signatures[j].validator => i = j
    /\ Signers(p) \subseteq registered
    /\ AllParse(p) /\ p.aggregated = Len(p.signatures)
    /\ p.confirmations >= RequiredConfirmations

\* No quorum goes unnoticed: a pending proof with enough confirmations is short
\* of M signatures, unless one of them does not parse.  (One that does not parse
\* stays in the proof and keeps every later aggregation from succeeding.)
QuorumIsNoticed ==
  \A h \in TxHash : \A p \in pendingProofs[h] :
    AllParse(p) /\ p.confirmations >= RequiredConfirmations
      => Len(p.signatures) < RequiredSignatures

\* What is final stays final, unchanged: no later proof, signature or cleanup
\* touches a finalized proof or reopens its hash.
FinalIsForever ==
  [][\A h \in TxHash : finalizedProofs[h] # {} =>
       /\ finalizedProofs'[h] = finalizedProofs[h]
       /\ pendingProofs'[h] = {}]_trackerVars
=============================================================================

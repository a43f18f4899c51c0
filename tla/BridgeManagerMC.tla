--------------------------- MODULE BridgeManagerMC ---------------------------
(* BridgeManager for TLC: two chains, the second asking for more            *)
(* confirmations than the chat chain.                                       *)
EXTENDS BridgeManager, TLC

ConfirmationsByChain == [c \in Chain |-> IF c = ChatChain THEN 1 ELSE 2]
ValidatorSymmetry == Permutations(Validator)
=============================================================================

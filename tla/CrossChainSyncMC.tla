-------------------------- MODULE CrossChainSyncMC --------------------------
(* Instances of CrossChainSync for TLC: two chains with a batch that is     *)
(* shorter than a queue may get, and one chain with a batch of two and a    *)
(* second caller of process_chain.                                          *)
EXTENDS CrossChainSync, TLC

CONSTANTS o1, o2, t1, t2, run, caller

MCOps == {o1, o2}
MCTx == {t1}
MCTxs == {t1, t2}
MCChain == {"Currency", "Solana"}
MCExternal == {"Solana"}
MCOrder == <<"Currency", "Solana">>
MCRequired == [c \in Chain |-> 1]
MCNobody == {}
MCOneChain == {"Currency"}
MCOneOrder == <<"Currency">>
MCCaller == {caller}
MCSymmetry == {p @@ q : p \in Permutations(MCOps), q \in Permutations(MCTxs)}
=============================================================================

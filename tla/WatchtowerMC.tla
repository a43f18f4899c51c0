---------------------------- MODULE WatchtowerMC ----------------------------
(* Instance of Watchtower for TLC: a channel of two tokens whose parties    *)
(* signed an opening state, a first payment, and a second payment that the  *)
(* receiver has not signed.                                                 *)
EXTENDS Watchtower

Signed(n, s, r, rsig) ==
  [state |-> [nonce |-> n, sender |-> s, receiver |-> r],
   senderSig |-> TRUE, receiverSig |-> rsig]

SignedBefore == {Signed(0, 2, 0, "none"), Signed(1, 1, 1, "valid"), Signed(2, 0, 2, "none")}
=============================================================================

-------------------------- MODULE PaymentChannelMC --------------------------
(* Instances of PaymentChannel for TLC: a channel of two tokens.           *)
EXTENDS PaymentChannel

Signed(n, s, r, senderOk, rsig) ==
  [state |-> [nonce |-> n, sender |-> s, receiver |-> r],
   senderSig |-> senderOk, receiverSig |-> rsig]

\* A state that creates a token, one whose sender signature is corrupt, one
\* whose balances add up to the capacity only modulo Word, and one with the last
\* nonce of the machine word.
StrayOffChain == {Signed(1, 2, 1, TRUE, "none"), Signed(2, 0, 2, FALSE, "none"),
                  Signed(2, 3, 7, TRUE, "none"),
                  Signed(Word - 1, 2, 0, TRUE, "none")}

\* A second payment the receiver has not signed yet.
StrayOneSided == {Signed(2, 0, 2, TRUE, "none")}
=============================================================================

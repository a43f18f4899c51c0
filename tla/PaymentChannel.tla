--------------------------- MODULE PaymentChannel ---------------------------
(***************************************************************************)
(* One off-chain payment channel and the PaymentChannelManager that keeps  *)
(* it (crates/dchat-blockchain/src/payment_channels.rs).                   *)
(*                                                                         *)
(* The manager's maps sit behind separate locks (channels, pending_closes, *)
(* challenges, fraud_events), so an operation that takes several of them   *)
(* in turn is several actions here, one per critical section; the call's   *)
(* local variables between two sections are closing, challenging and       *)
(* finalizing.  An operation that holds one lock throughout is one action. *)
(*                                                                         *)
(* Signed updates are records; `updates' is the set of those that exist in *)
(* the world and that a caller may therefore hand to any operation, at any *)
(* time and as often as it likes.  An Option is a set of at most one       *)
(* element.  The dispute deadline is kept as the number of clock ticks     *)
(* left until it, so that time needs no bound.                             *)
(***************************************************************************)
EXTENDS Integers, Sequences

CONSTANTS
  Sender, Receiver,   \* the two parties
  Users,              \* every user id that may call an operation
  Capacity,           \* tokens locked when the channel is opened
  Word,               \* 2^64 in the code: u64 arithmetic wraps in release builds
  Amounts,            \* amounts create_payment is called with
  DisputeWindow,      \* DISPUTE_WINDOW_SECONDS, in ticks
  StrayUpdates,       \* signed updates that do not come from create_payment
  MaxNonce,           \* bound: highest nonce create_payment signs
  MaxApplied,         \* bound: updates applied off-chain
  MaxCloses,          \* bound: unilateral closes submitted
  MaxPayouts,         \* bound: operations that pay a channel out
  MaxFraud            \* bound: challenges

ASSUME ChannelAssumption ==
  /\ Sender \in Users /\ Receiver \in Users /\ Sender # Receiver
  /\ Capacity \in Nat /\ Word \in Nat /\ Capacity < Word
  /\ Amounts \subseteq 0 .. Word - 1
  /\ DisputeWindow \in Nat \ {0}
  /\ MaxNonce \in Nat /\ MaxApplied \in Nat /\ MaxCloses \in Nat
  /\ MaxPayouts \in Nat /\ MaxFraud \in Nat

\* ChannelState: three u64
State  == [nonce : 0 .. Word - 1, sender : 0 .. Word - 1, receiver : 0 .. Word - 1]
Update == [state : State, senderSig : BOOLEAN,
           receiverSig : {"none", "valid", "invalid"}]
Close  == [update : Update, initiator : Users, left : 0 .. DisputeWindow,
           challenged : BOOLEAN]
Fraud  == [fraudster : Users, submitted : Nat, actual : Nat, slashed : BOOLEAN]
Challenge == [step : {"fraud", "mark", "channel", "insert"},
              close : Close, newer : Update]

ASSUME StrayAssumption == StrayUpdates \subseteq Update

VARIABLES
  channel,      \* channels[id]: status, current_state, latest_bilateral
  pending,      \* pending_closes[id]
  challenges,   \* challenges[id]
  fraud,        \* fraud_events, in the order they were pushed
  updates,      \* the signed updates that exist
  closing,      \* initiate_unilateral_close between its two sections, per caller
  challenging,  \* challenge_close between its sections, per caller
  finalizing,   \* finalize_unilateral_close between its two sections
  applied,      \* history: nonces of the updates applied off-chain, in order
  closed,       \* history: initiator and nonce of each unilateral close submitted
  payouts       \* history: the balances returned by the operations that close

calls == <<closing, challenging, finalizing>>
hist  == <<applied, closed, payouts>>
vars  == <<channel, pending, challenges, fraud, updates, calls, hist>>

InitialState == [nonce |-> 0, sender |-> Capacity, receiver |-> 0]

\* ChannelState::total
Total(s) == (s.sender + s.receiver) % Word

\* The nonce after n, which is 0 after the last one.
NextNonce(n) == (n + 1) % Word

Init ==
  /\ channel = [status |-> "Open", state |-> InitialState, bilateral |-> {}]
  /\ pending = {} /\ challenges = {} /\ fraud = <<>>
  /\ updates = StrayUpdates
  /\ closing = [u \in Users |-> {}] /\ challenging = [u \in Users |-> {}]
  /\ finalizing = {}
  /\ applied = <<>> /\ closed = <<>> /\ payouts = <<>>

-----------------------------------------------------------------------------
(* Off-chain payments.                                                     *)

\* Slip: the sender's balance is not compared with the amount.
CreatePaymentSlip(a) ==
  /\ channel.status = "Open" /\ NextNonce(channel.state.nonce) <= MaxNonce
  /\ updates' = updates \cup
       {[state |-> [nonce    |-> NextNonce(channel.state.nonce),
                    sender   |-> channel.state.sender - a,
                    receiver |-> (channel.state.receiver + a) % Word],
         senderSig |-> TRUE, receiverSig |-> "none"]}
  /\ UNCHANGED <<channel, pending, challenges, fraud, calls, hist>>

\* The sender signs the next state (create_payment, and use_credit with the
\* message fee as the amount).
CreatePayment(a) ==
  /\ channel.status = "Open"
  /\ a <= channel.state.sender
  /\ NextNonce(channel.state.nonce) <= MaxNonce
  /\ updates' = updates \cup
       {[state |-> [nonce    |-> NextNonce(channel.state.nonce),
                    sender   |-> channel.state.sender - a,
                    receiver |-> (channel.state.receiver + a) % Word],
         senderSig |-> TRUE, receiverSig |-> "none"]}
  /\ UNCHANGED <<channel, pending, challenges, fraud, calls, hist>>

\* SignedStateUpdate::add_receiver_signature
Countersign(u) ==
  /\ updates' = updates \cup {[u EXCEPT !.receiverSig = "valid"]}
  /\ UNCHANGED <<channel, pending, challenges, fraud, calls, hist>>

\* What update_state and process_payment do once their checks have passed.
Apply(u) ==
  /\ Len(applied) < MaxApplied
  /\ channel' = [channel EXCEPT
       !.state = u.state,
       !.bilateral = IF u.receiverSig # "none" THEN {u} ELSE @]
  /\ applied' = Append(applied, u.state.nonce)
  /\ UNCHANGED <<pending, challenges, fraud, updates, calls, closed, payouts>>

\* Slip: the nonce check of update_state lets the current nonce through.
UpdateStateNonceSlip(u) ==
  /\ channel.status = "Open"
  /\ u.state.nonce >= channel.state.nonce /\ Total(u.state) = Capacity
  /\ u.senderSig /\ u.receiverSig # "invalid"
  /\ Apply(u)

UpdateState(u) ==
  /\ channel.status = "Open"
  /\ u.state.nonce > channel.state.nonce
  /\ Total(u.state) = Capacity
  /\ u.senderSig
  /\ u.receiverSig # "invalid"
  /\ Apply(u)

\* Slip: process_payment trusts the balances of the update.
ProcessPaymentTotalSlip(u) ==
  /\ channel.status = "Open"
  /\ u.state.nonce = NextNonce(channel.state.nonce)
  /\ u.senderSig
  /\ Apply(u)

\* process_payment asks for the very next nonce, which wraps, and verifies the
\* sender's signature only.
ProcessPayment(u) ==
  /\ channel.status = "Open"
  /\ u.state.nonce = NextNonce(channel.state.nonce)
  /\ Total(u.state) = Capacity
  /\ u.senderSig
  /\ Apply(u)

-----------------------------------------------------------------------------
(* Closing.                                                                *)

\* initiate_unilateral_close, under the channels lock: the status is set
\* whatever it was, and only a closing sender's signature is verified.
InitiateClose(p, u) ==
  /\ closing[p] = {} /\ Len(closed) < MaxCloses
  /\ p \in {Sender, Receiver}
  /\ p = Sender => u.senderSig
  /\ channel' = [channel EXCEPT !.status = "Closing"]
  /\ closing' = [closing EXCEPT ![p] =
       {[update |-> u, initiator |-> p, left |-> DisputeWindow,
         challenged |-> FALSE]}]
  /\ closed' = Append(closed, <<p, u.state.nonce>>)
  /\ UNCHANGED <<pending, challenges, fraud, updates, challenging, finalizing,
                 applied, payouts>>

\* initiate_unilateral_close, under the pending_closes lock: insert replaces
\* whatever close was pending.
RecordClose(p) ==
  /\ closing[p] # {}
  /\ pending' = closing[p]
  /\ closing' = [closing EXCEPT ![p] = {}]
  /\ UNCHANGED <<channel, challenges, fraud, updates, challenging, finalizing,
                 hist>>

\* Slip: a one-sided update is accepted as proof of fraud.
ChallengeOneSidedSlip(p, u) ==
  /\ challenging[p] = {} /\ Len(fraud) < MaxFraud
  /\ \E c \in pending :
       /\ c.left > 0 /\ p # c.initiator
       /\ u.state.nonce > c.update.state.nonce
       /\ u.senderSig
       /\ challenging' = [challenging EXCEPT ![p] =
            {[step |-> "fraud", close |-> c, newer |-> u]}]
  /\ UNCHANGED <<channel, pending, challenges, fraud, updates, closing,
                 finalizing, hist>>

\* The checks of challenge_close: the window is open, and the challenger brings
\* a newer state that both parties signed.
MayChallenge(c, p, u) ==
  /\ c.left > 0
  /\ p # c.initiator
  /\ u.state.nonce > c.update.state.nonce
  /\ u.senderSig /\ u.receiverSig = "valid"

\* challenge_close up to its last check: the pending close is cloned under the
\* read lock, and everything after works on that clone.
ChallengeClose(p, u) ==
  /\ challenging[p] = {} /\ Len(fraud) < MaxFraud
  /\ \E c \in pending :
       /\ MayChallenge(c, p, u)
       /\ challenging' = [challenging EXCEPT ![p] =
            {[step |-> "fraud", close |-> c, newer |-> u]}]
  /\ UNCHANGED <<channel, pending, challenges, fraud, updates, closing,
                 finalizing, hist>>

Advance(p, c, step) == challenging' = [challenging EXCEPT ![p] =
                         {[c EXCEPT !.step = step]}]

\* Slip: the close is read again instead of using the clone that was checked.
PushFraudRereadSlip(p) ==
  \E c \in challenging[p], now \in pending :
    /\ c.step = "fraud"
    /\ fraud' = Append(fraud, [fraudster |-> now.initiator,
                               submitted |-> now.update.state.nonce,
                               actual |-> c.newer.state.nonce,
                               slashed |-> FALSE])
    /\ Advance(p, c, "mark")
    /\ UNCHANGED <<channel, pending, challenges, updates, closing, finalizing,
                   hist>>

\* challenge_close, under the fraud_events lock.
PushFraud(p) ==
  \E c \in challenging[p] :
    /\ c.step = "fraud"
    /\ fraud' = Append(fraud, [fraudster |-> c.close.initiator,
                               submitted |-> c.close.update.state.nonce,
                               actual |-> c.newer.state.nonce,
                               slashed |-> FALSE])
    /\ Advance(p, c, "mark")
    /\ UNCHANGED <<channel, pending, challenges, updates, closing, finalizing,
                   hist>>

\* challenge_close, under the pending_closes lock: whichever close is pending
\* now, if any, is marked.
MarkChallenged(p) ==
  \E c \in challenging[p] :
    /\ c.step = "mark"
    /\ pending' = {[d EXCEPT !.challenged = TRUE] : d \in pending}
    /\ Advance(p, c, "channel")
    /\ UNCHANGED <<channel, challenges, fraud, updates, closing, finalizing,
                   hist>>

\* challenge_close, under the channels lock.
MarkDisputed(p) ==
  \E c \in challenging[p] :
    /\ c.step = "channel"
    /\ channel' = [channel EXCEPT !.status = "Disputed", !.state = c.newer.state]
    /\ Advance(p, c, "insert")
    /\ UNCHANGED <<pending, challenges, fraud, updates, closing, finalizing, hist>>

\* challenge_close, under the challenges lock.
RecordChallenge(p) ==
  \E c \in challenging[p] :
    /\ c.step = "insert"
    /\ challenges' = {[newer |-> c.newer, challenger |-> p]}
    /\ challenging' = [challenging EXCEPT ![p] = {}]
    /\ UNCHANGED <<channel, pending, fraud, updates, closing, finalizing, hist>>

\* finalize_unilateral_close, under the pending_closes read lock, with the two
\* checks made on the clone.
FinalizeClose ==
  /\ finalizing = {} /\ Len(payouts) < MaxPayouts
  /\ \E c \in pending : /\ c.left = 0 /\ ~c.challenged
                        /\ finalizing' = {c}
  /\ UNCHANGED <<channel, pending, challenges, fraud, updates, closing,
                 challenging, hist>>

\* Slip: the channel is left as it was when the close is paid out.
SettleCloseStatusSlip ==
  \E c \in finalizing :
    /\ pending' = {} /\ finalizing' = {}
    /\ payouts' = Append(payouts, [how |-> "unilateral", state |-> c.update.state])
    /\ UNCHANGED <<channel, challenges, fraud, updates, closing, challenging,
                   applied, closed>>

\* finalize_unilateral_close, under the channels lock, in which the
\* pending_closes lock is nested.
SettleClose ==
  \E c \in finalizing :
    /\ channel' = [channel EXCEPT !.status = "Closed"]
    /\ pending' = {}
    /\ finalizing' = {}
    /\ payouts' = Append(payouts, [how |-> "unilateral", state |-> c.update.state])
    /\ UNCHANGED <<challenges, fraud, updates, closing, challenging, applied,
                   closed>>

\* cooperative_close: no status, nonce or pending close is looked at.
CooperativeClose(u) ==
  /\ Len(payouts) < MaxPayouts
  /\ u.receiverSig = "valid" /\ u.senderSig
  /\ Total(u.state) = Capacity
  /\ channel' = [channel EXCEPT !.status = "Closed", !.state = u.state]
  /\ payouts' = Append(payouts, [how |-> "cooperative", state |-> u.state])
  /\ UNCHANGED <<pending, challenges, fraud, updates, calls, applied, closed>>

\* mark_fraud_slashed marks every event of the channel.
MarkFraudSlashed ==
  /\ fraud' = [i \in 1 .. Len(fraud) |-> [fraud[i] EXCEPT !.slashed = TRUE]]
  /\ UNCHANGED <<channel, pending, challenges, updates, calls, hist>>

\* The clock: every deadline comes one tick closer.
Closer(cs) == {[c EXCEPT !.left = IF @ > 0 THEN @ - 1 ELSE 0] : c \in cs}
Tick ==
  /\ pending' = Closer(pending)
  /\ closing' = [p \in Users |-> Closer(closing[p])]
  /\ UNCHANGED <<channel, challenges, fraud, updates, challenging, finalizing,
                 hist>>

Next ==
  \/ \E a \in Amounts : CreatePayment(a)
  \/ \E u \in updates : Countersign(u)
  \/ \E u \in updates : UpdateState(u)
  \/ \E u \in updates : ProcessPayment(u)
  \/ \E u \in updates : CooperativeClose(u)
  \/ \E p \in Users, u \in updates : InitiateClose(p, u)
  \/ \E p \in Users, u \in updates : ChallengeClose(p, u)
  \/ \E p \in Users : \/ RecordClose(p) \/ PushFraud(p) \/ MarkChallenged(p)
                      \/ MarkDisputed(p) \/ RecordChallenge(p)
  \/ FinalizeClose \/ SettleClose \/ MarkFraudSlashed \/ Tick

Spec == Init /\ [][Next]_vars

-----------------------------------------------------------------------------
(* Properties.                                                             *)

\* Every variable keeps its type.
TypeOK ==
  /\ channel \in [status : {"Open", "Closing", "Closed", "Disputed"},
                  state : State, bilateral : SUBSET Update]
  /\ pending \subseteq Close
  /\ challenges \subseteq [newer : Update, challenger : Users]
  /\ fraud \in Seq(Fraud)
  /\ updates \subseteq Update
  /\ closing \in [Users -> SUBSET Close]
  /\ challenging \in [Users -> SUBSET Challenge]
  /\ finalizing \subseteq Close
  /\ applied \in Seq(Nat)
  /\ closed \in Seq(Users \X Nat)
  /\ payouts \in Seq([how : {"unilateral", "cooperative"}, state : State])

\* Between two applications of updates, by update_state, by process_payment or
\* by a mixture of the two, the nonce grows, so that no update is applied twice,
\* unless the channel stood at the last u64 in between: from there
\* process_payment asks for nonce 0, and every update is new again.  The sender's
\* signature alone suffices to bring it there, since update_state bounds no jump.
NoReplay ==
  \A i, j \in 1 .. Len(applied) :
    i < j => \/ applied[i] < applied[j]
             \/ \E k \in i .. j - 1 : applied[k] = Word - 1

\* While the channel is open its state is the initial one or one the sender
\* signed, and it distributes exactly the capacity (in the code's arithmetic).
OpenStateIsBacked ==
  channel.status = "Open" =>
    /\ Total(channel.state) = Capacity
    /\ \/ channel.state = InitialState
       \/ \E u \in updates : u.state = channel.state /\ u.senderSig

\* Event e accuses the initiator of a close that was submitted, on the strength
\* of a state with a higher nonce that both parties signed.
Proved(e) ==
  /\ e.submitted < e.actual
  /\ \E k \in 1 .. Len(closed) : closed[k] = <<e.fraudster, e.submitted>>
  /\ \E u \in updates : /\ u.state.nonce = e.actual
                        /\ u.senderSig /\ u.receiverSig = "valid"

\* Whoever is accused in a fraud event did submit a close with that nonce, and
\* a state with the higher nonce exists that both parties had signed, however
\* the sections of closes and challenges interleave.
FraudIsProved == \A i \in 1 .. Len(fraud) : Proved(fraud[i])

\* A channel never waits for a close that nobody recorded: while its status is
\* Closing there is a pending close or one about to be inserted.
ClosingIsBacked ==
  channel.status = "Closing" => pending # {} \/ \E p \in Users : closing[p] # {}
=============================================================================

---------------------------- MODULE MessageOrder ----------------------------
(***************************************************************************)
(* MessageOrder (crates/dchat-messaging/src/ordering.rs): the sequence     *)
(* number a conversation waits for, and the messages that came too early.  *)
(* The entries of its two maps never interact, so the model has one        *)
(* conversation.  A pending message is its sequence number; its id is kept *)
(* by the code but never read.  Every operation takes &mut self.           *)
(***************************************************************************)
EXTENDS Integers, Sequences, FiniteSets, FiniteSetsExt, Functions

CONSTANTS
  Number,       \* bound: sequence numbers in use are 0 .. Number - 1
  MaxWaiting    \* bound: messages in pending_messages

ASSUME OrderAssumption == Number \in Nat /\ MaxWaiting \in Nat

VARIABLES
  expected,    \* expected_sequences
  pending,     \* pending_messages, in the order of the vector
  arrived,     \* history: numbers register_message was called with
  accepted,    \* history: numbers delivered in order
  allocated    \* history: numbers next_sequence returned

vars == <<expected, pending, arrived, accepted, allocated>>

Init == /\ expected = 0 /\ pending = <<>>
        /\ arrived = {} /\ accepted = <<>> /\ allocated = {}

\* sort_by_key: the i-th is the least number that at least i of them do not exceed.
Sorted(w) ==
  [i \in DOMAIN w |->
     Min({x \in Range(w) : Cardinality({j \in DOMAIN w : w[j] <= x}) >= i})]

\* retain goes through the messages once, dropping each one that is the
\* expected one by then.
Retain(e, w) ==
  LET after[i \in 0 .. Len(w)] ==
        IF i = 0 THEN [expected |-> e, kept |-> <<>>]
        ELSE LET a == after[i - 1] IN
             IF w[i] = a.expected
             THEN [expected |-> w[i] + 1, kept |-> a.kept]
             ELSE [expected |-> a.expected, kept |-> Append(a.kept, w[i])]
  IN  after

\* Slip: what is waiting is gone through in the order it came.
DeliverPendingSlip(e, waiting) == Retain(e, waiting)[Len(waiting)]

\* deliver_pending: what is waiting is sorted, then gone through.
DeliverPending(e, waiting) == Retain(e, Sorted(waiting))[Len(waiting)]

\* register_message returns true.
RegisterInOrder(s) ==
  LET d == DeliverPending(s + 1, pending) IN
  /\ s = expected
  /\ expected' = d.expected /\ pending' = d.kept
  /\ accepted' = accepted \o [i \in 1 .. d.expected - s |-> s + i - 1]
  /\ arrived' = arrived \cup {s}
  /\ UNCHANGED allocated

\* Slip: the entry of the conversation is replaced, not extended.
RegisterAheadSlip(s) ==
  /\ s > expected
  /\ pending' = <<s>>
  /\ arrived' = arrived \cup {s}
  /\ UNCHANGED <<expected, accepted, allocated>>

\* register_message queues a message that is ahead.
RegisterAhead(s) ==
  /\ s > expected /\ Len(pending) < MaxWaiting
  /\ pending' = Append(pending, s)
  /\ arrived' = arrived \cup {s}
  /\ UNCHANGED <<expected, accepted, allocated>>

\* register_message ignores a message that is behind.
RegisterBehind(s) ==
  /\ s < expected
  /\ arrived' = arrived \cup {s}
  /\ UNCHANGED <<expected, pending, accepted, allocated>>

\* Slip: the number is handed out but not consumed.
NextSequenceSlip ==
  /\ expected < Number
  /\ allocated' = allocated \cup {expected}
  /\ UNCHANGED <<expected, pending, arrived, accepted>>

\* next_sequence takes its number from the counter the received messages move.
NextSequence ==
  /\ expected < Number
  /\ expected' = expected + 1
  /\ allocated' = allocated \cup {expected}
  /\ UNCHANGED <<pending, arrived, accepted>>

Receive == \E s \in 0 .. Number - 1 :
             RegisterInOrder(s) \/ RegisterAhead(s) \/ RegisterBehind(s)
Next == Receive \/ NextSequence

Spec == Init /\ [][Next]_vars

\* Slip: the search starts at the first message that waits.
CheckGapsSlip ==
  LET w == Sorted(pending) IN
  UNION {w[i - 1] + 1 .. w[i] - 1 : i \in 2 .. Len(w)}

\* check_gaps: from where the counter, or the message before, leaves off.
CheckGaps ==
  LET w == Sorted(pending)
      current(i) == IF i = 1 THEN expected ELSE w[i - 1] + 1
  IN  UNION {current(i) .. w[i] - 1 : i \in 1 .. Len(w)}

-----------------------------------------------------------------------------
(* Properties.                                                             *)

\* A conversation is a resequencer: whatever order, gaps and duplicates its
\* messages arrive with, and whatever numbers are handed out in between, each
\* arrival moves the counter exactly past what has arrived without a gap.
Ideal == INSTANCE Resequencer WITH next <- expected
Resequences == Ideal!RSpec

\* Nothing that arrived is lost: it was delivered or it is waiting, whatever
\* order and duplicates it came with.  The exception are the numbers that
\* next_sequence handed out: it moves the counter past them, so register_message
\* takes even the first arrival of such a number for a duplicate.
NothingIsLost ==
  \A s \in arrived \ allocated : s \in Range(accepted) \/ s \in Range(pending)

\* Messages are accepted in the order of their numbers and never twice, and no
\* number is both accepted from the other side and handed out to this one.
AcceptedInOrder ==
  /\ \A i, j \in 1 .. Len(accepted) : i < j => accepted[i] < accepted[j]
  /\ \A i \in 1 .. Len(accepted) : accepted[i] \notin allocated

\* check_gaps reports every number that is still to come before a message that
\* waits, and none that waits, whatever stale duplicates are left in the vector.
\* (Because of those it may also report numbers that were accepted.)
GapsAreReported ==
  /\ \A n \in expected .. Number - 1 :
       n \notin Range(pending) /\ (\E s \in Range(pending) : n < s) => n \in CheckGaps
  /\ CheckGaps \cap Range(pending) = {}
=============================================================================

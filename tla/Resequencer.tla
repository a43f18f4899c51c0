----------------------------- MODULE Resequencer -----------------------------
(***************************************************************************)
(* What a resequencer of one conversation promises: a message that is the  *)
(* next one moves the counter to the least later number that has not       *)
(* arrived, any other message leaves it alone, and a number handed out to  *)
(* a sender is passed over.  While nothing is handed out, the counter is   *)
(* the least number that has not arrived.                                  *)
(***************************************************************************)
EXTENDS Naturals, FiniteSetsExt

CONSTANT Number
VARIABLES arrived, next

RInit == arrived = {} /\ next = 0

\* A message arrives, early, on time or once more.
Arrive(s) ==
  /\ arrived' = arrived \cup {s}
  /\ next' = IF s = next THEN Min({n \in next + 1 .. Number : n \notin arrived'})
                         ELSE next

HandOut ==
  /\ next < Number /\ next' = next + 1
  /\ UNCHANGED arrived

RNext == HandOut \/ \E s \in 0 .. Number - 1 : Arrive(s)

RSpec == RInit /\ [][RNext]_<<arrived, next>>
=============================================================================

--------------------------- MODULE CrossChainSync ---------------------------
(***************************************************************************)
(* CrossChainSyncManager (crates/dchat-bridge/src/crosschain_sync.rs):     *)
(* operations waiting in a queue per source chain, and the calls of        *)
(* process_chain that watch their confirmations and submit them to the     *)
(* destination chain.  The maps have locks of their own, taken in the      *)
(* order adapters, operations, chain_queues / completed, so a call that    *)
(* nests them is one action and a call that releases one before it takes   *)
(* the next (add_operation, process_chain, every await on an adapter) is   *)
(* several.  The adapters are external: they answer anything.              *)
(*                                                                         *)
(* A map is a function to sets of at most one value, an Option a set.      *)
(* timeout_at is kept as the ticks left, -1 once it has passed.  Payloads, *)
(* block numbers, destination hashes, the stored confirmation count and    *)
(* retry_count (can_retry is never called) are not read and are left out.  *)
(***************************************************************************)
EXTENDS Integers, Sequences, FiniteSets

CONSTANTS
  Op, Tx,
  Chain, Currency, External,   \* ChainId, CurrencyChain and is_external
  ChainOrder,                  \* the chains run() goes through, in order
  Run, Caller,                 \* the task in run(); other callers of process_chain
  Required,                    \* required_confirmations, by chain
  Confirmations,               \* what an adapter may answer
  Timeouts,                    \* timeout_seconds the create_* calls are given
  ApiStates,                   \* states other tasks pass to update_state
  OthersSettle,                \* whether other tasks call fail_ and complete_operation
  MaxPending, Batch, MaxCompleted

SyncState == {"Pending", "InProgress", "Completed", "Failed", "TimedOut"}

ASSUME SyncAssumption ==
  /\ Currency \in Chain /\ External \subseteq Chain \ {Currency}
  /\ ChainOrder \in Seq(Chain) /\ ChainOrder # <<>>
  /\ Run \notin Caller
  /\ Required \in [Chain -> Nat] /\ Confirmations \subseteq Nat
  /\ Timeouts \subseteq Nat /\ ApiStates \subseteq SyncState
  /\ OthersSettle \in BOOLEAN
  /\ {MaxPending, Batch, MaxCompleted} \subseteq Nat \ {0}

Worker == Caller \cup {Run}

VARIABLES
  operations, queues, completed,
  adapters,     \* chains with a registered adapter
  adding,       \* add_operation calls between their check and their insertion
  worker,       \* process_chain calls: step, ids left of the batch, clone of the first
  turn,         \* where run() is in ChainOrder
  created,      \* history: the ids drawn so far (Uuid::new_v4 draws fresh ones)
  finalTx,      \* history: <<chain, tx>> an adapter reported as final
  submissions   \* history: successful submit_operation calls, up to two

shared == <<operations, queues, completed, adapters>>
hist   == <<created, finalTx, submissions>>
vars   == <<shared, adding, worker, turn, hist>>

Operation == [source : Chain, dest : Chain, tx : SUBSET Tx, state : SyncState, left : Int]
Step == {"idle", "fetch", "timeout", "confirm", "submit", "fail", "settle", "complete"}
Idle == [step |-> "idle", batch |-> <<>>, snap |-> {}]

Init ==
  /\ operations = [o \in Op |-> {}] /\ queues = [c \in Chain |-> <<>>]
  /\ completed = <<>> /\ adapters = {}
  /\ adding = [o \in Op |-> {}]
  /\ worker = [w \in Worker |-> Idle]
  /\ turn = 1
  /\ created = {} /\ finalTx = {} /\ submissions = [o \in Op |-> 0]

\* register_adapter waits for the adapters lock, which process_chain holds from
\* looking up the destination's adapter until the submission is settled.
RegisterAdapter(c) ==
  /\ \A w \in Worker : worker[w].step \notin {"submit", "fail", "settle", "complete"}
  /\ adapters' = adapters \cup {c}
  /\ UNCHANGED <<operations, queues, completed, adding, worker, turn, hist>>

\* create_bridge_in names its source transaction and goes to the currency
\* chain; create_bridge_out leaves the currency chain; the others are free.
\* add_operation then compares the queue with the limit under the read lock.
CheckQueue(o, c, d, tx, k) ==
  /\ o \notin created
  /\ tx # {} => c \in External /\ d = Currency
  /\ Len(queues[c]) < MaxPending
  /\ adding' = [adding EXCEPT ![o] =
       {[source |-> c, dest |-> d, tx |-> tx, state |-> "Pending", left |-> k]}]
  /\ created' = created \cup {o}
  /\ UNCHANGED <<shared, worker, turn, finalTx, submissions>>

\* add_operation, under the operations lock with the queues lock nested.
AddOperation(o) ==
  \E x \in adding[o] :
    /\ operations' = [operations EXCEPT ![o] = {x}]
    /\ queues' = [queues EXCEPT ![x.source] = Append(@, o)]
    /\ adding' = [adding EXCEPT ![o] = {}]
    /\ UNCHANGED <<completed, adapters, worker, turn, hist>>

-----------------------------------------------------------------------------
(* What the operations map goes through, in process_chain and by callers.  *)

Change(o, x) == operations' = [operations EXCEPT ![o] = {x}]

UpdateState(o, s) ==
  \E x \in operations[o] : /\ Change(o, [x EXCEPT !.state = s])
                           /\ UNCHANGED <<queues, completed, adapters>>

\* update_confirmations and set_destination_tx: the operation must be there,
\* and what they write is not read again.
Touch(o) == operations[o] # {} /\ UNCHANGED shared

SetSourceTx(o, t) ==
  \E x \in operations[o] : /\ Change(o, [x EXCEPT !.tx = {t}, !.state = "InProgress"])
                           /\ UNCHANGED <<queues, completed, adapters>>

FailOperation(o) == UpdateState(o, "Failed")

\* VecDeque::retain(|id| id != o): the other ids, in their order.
Retain(q, o) ==
  LET kept[i \in 0 .. Len(q)] ==
        IF i = 0 THEN <<>>
        ELSE IF q[i] = o THEN kept[i - 1] ELSE Append(kept[i - 1], q[i])
  IN  kept

Without(q, o) == Retain(q, o)[Len(q)]

\* Slip: the id stays in its chain's queue.
CompleteOperationQueueSlip(o) ==
  \E x \in operations[o] :
    /\ operations' = [operations EXCEPT ![o] = {}]
    /\ completed' = (IF Len(completed) < MaxCompleted THEN completed
                                                      ELSE Tail(completed)) \o <<o>>
    /\ UNCHANGED <<queues, adapters>>

\* Slip: the history of completed operations is not trimmed.
CompleteOperationTrimSlip(o) ==
  \E x \in operations[o] :
    /\ operations' = [operations EXCEPT ![o] = {}]
    /\ queues' = [queues EXCEPT ![x.source] = Without(@, o)]
    /\ completed' = Append(completed, o)
    /\ UNCHANGED adapters

\* complete_operation; the oldest of more than max_completed are dropped.
CompleteOperation(o) ==
  \E x \in operations[o] :
    /\ operations' = [operations EXCEPT ![o] = {}]
    /\ queues' = [queues EXCEPT ![x.source] = Without(@, o)]
    /\ completed' = (IF Len(completed) < MaxCompleted THEN completed
                                                      ELSE Tail(completed)) \o <<o>>
    /\ UNCHANGED adapters

\* The operations are public: any task may call them.
ApiCall(o) ==
  /\ \/ \E s \in ApiStates : UpdateState(o, s)
     \/ \E t \in Tx : SetSourceTx(o, t)
     \/ OthersSettle /\ FailOperation(o)
     \/ OthersSettle /\ CompleteOperation(o)
  /\ UNCHANGED <<adding, worker, turn, hist>>

-----------------------------------------------------------------------------
(* process_chain.                                                          *)

\* The adapter is looked up and the first ids of the queue are cloned.
Start(w, c) ==
  LET batch == SubSeq(queues[c], 1, IF Len(queues[c]) < Batch THEN Len(queues[c]) ELSE Batch)
  IN  worker' = [worker EXCEPT ![w] =
        IF c \in adapters /\ batch # <<>>
        THEN [step |-> "fetch", batch |-> batch, snap |-> {}] ELSE Idle]

\* run() calls process_chain for one chain after the other, whatever it returns.
RunStart ==
  /\ worker[Run].step = "idle"
  /\ Start(Run, ChainOrder[turn])
  /\ turn' = IF turn = Len(ChainOrder) THEN 1 ELSE turn + 1
  /\ UNCHANGED <<shared, adding, hist>>

CallerStart(w, c) ==
  /\ worker[w].step = "idle" /\ Start(w, c)
  /\ UNCHANGED <<shared, adding, turn, hist>>

Current(w) == Head(worker[w].batch)

\* The loop goes to its next operation; `?' leaves process_chain altogether.
Continue(w) == worker' = [worker EXCEPT ![w] =
  IF Len(@.batch) = 1 THEN Idle
                      ELSE [step |-> "fetch", batch |-> Tail(@.batch), snap |-> {}]]
Leave(w)      == worker' = [worker EXCEPT ![w] = Idle]
GoTo(w, step) == worker' = [worker EXCEPT ![w].step = step]

\* Slip: the deadline of an operation without a source transaction is not looked at.
FetchSlip(w) ==
  /\ worker[w].step = "fetch"
  /\ \/ operations[Current(w)] = {} /\ Continue(w)
     \/ \E x \in operations[Current(w)] :
          IF x.tx = {} THEN Continue(w)
          ELSE worker' = [worker EXCEPT
                 ![w].step = IF x.left < 0 THEN "timeout" ELSE "confirm",
                 ![w].snap = {x}]
  /\ UNCHANGED <<shared, adding, turn, hist>>

\* get_operation clones the operation; what follows works on the clone.
Fetch(w) ==
  /\ worker[w].step = "fetch"
  /\ \/ operations[Current(w)] = {} /\ Continue(w)
     \/ \E x \in operations[Current(w)] :
          \/ /\ x.left >= 0 /\ x.tx = {}
             /\ Continue(w)
          \/ /\ x.left < 0 \/ x.tx # {}
             /\ worker' = [worker EXCEPT
                  ![w].step = IF x.left < 0 THEN "timeout" ELSE "confirm",
                  ![w].snap = {x}]
  /\ UNCHANGED <<shared, adding, turn, hist>>

\* An operation on the maps made with `?': gone means leave the call.
Try(w, A, B) ==
  \/ A /\ B
  \/ operations[Current(w)] = {} /\ Leave(w) /\ UNCHANGED shared

MarkTimedOut(w) ==
  /\ worker[w].step = "timeout"
  /\ Try(w, UpdateState(Current(w), "TimedOut"), Continue(w))
  /\ UNCHANGED <<adding, turn, hist>>

\* Slip: whatever the adapter answers is taken for final.
AfterConfirmSlip(x, n) == IF x.dest \in adapters THEN "submit" ELSE "skip"

\* Final, with an adapter for the destination: submit.
AfterConfirm(x, n) ==
  IF n >= Required[x.source] /\ x.dest \in adapters THEN "submit" ELSE "skip"

\* get_confirmations fails, or answers n and update_confirmations records it.
Confirm(w) ==
  /\ worker[w].step = "confirm"
  /\ \/ Continue(w) /\ UNCHANGED <<shared, finalTx>>
     \/ \E n \in Confirmations, x \in worker[w].snap :
          /\ Try(w, Touch(Current(w)),
                    IF AfterConfirm(x, n) = "submit" THEN GoTo(w, "submit") ELSE Continue(w))
          /\ finalTx' = IF n >= Required[x.source]
                        THEN finalTx \cup {<<x.source, t>> : t \in x.tx} ELSE finalTx
  /\ UNCHANGED <<adding, turn, created, submissions>>

\* The destination's adapter takes the clone, or fails.
Submit(w) ==
  /\ worker[w].step = "submit"
  /\ \/ /\ submissions' = [submissions EXCEPT ![Current(w)] = IF @ < 2 THEN @ + 1 ELSE @]
        /\ GoTo(w, "settle")
     \/ UNCHANGED submissions /\ GoTo(w, "fail")
  /\ UNCHANGED <<shared, adding, turn, created, finalTx>>

Fail(w) ==
  /\ worker[w].step = "fail"
  /\ Try(w, FailOperation(Current(w)), Continue(w))
  /\ UNCHANGED <<adding, turn, hist>>

SetDestinationTx(w) ==
  /\ worker[w].step = "settle"
  /\ Try(w, Touch(Current(w)), GoTo(w, "complete"))
  /\ UNCHANGED <<adding, turn, hist>>

\* Slip: the operation is only marked completed and stays where it was.
CompleteSlip(w) ==
  /\ worker[w].step = "complete"
  /\ Try(w, UpdateState(Current(w), "Completed"), Continue(w))
  /\ UNCHANGED <<adding, turn, hist>>

Complete(w) ==
  /\ worker[w].step = "complete"
  /\ Try(w, CompleteOperation(Current(w)), Continue(w))
  /\ UNCHANGED <<adding, turn, hist>>

WorkerStep(w) ==
  \/ Fetch(w) \/ MarkTimedOut(w) \/ Confirm(w) \/ Submit(w) \/ Fail(w)
  \/ SetDestinationTx(w) \/ Complete(w)

Closer(xs) == {[x EXCEPT !.left = IF @ >= 0 THEN @ - 1 ELSE @] : x \in xs}
Tick ==
  /\ operations' = [o \in Op |-> Closer(operations[o])]
  /\ adding' = [o \in Op |-> Closer(adding[o])]
  /\ UNCHANGED <<queues, completed, adapters, worker, turn, hist>>

Next ==
  \/ \E c \in Chain : RegisterAdapter(c)
  \/ \E o \in Op, c, d \in Chain, tx \in {{}} \cup {{t} : t \in Tx}, k \in Timeouts :
       CheckQueue(o, c, d, tx, k)
  \/ \E o \in Op : AddOperation(o)
  \/ \E o \in Op : ApiCall(o)
  \/ RunStart
  \/ \E w \in Caller, c \in Chain : CallerStart(w, c)
  \/ \E w \in Worker : WorkerStep(w)
  \/ Tick

Spec == Init /\ [][Next]_vars

\* run() is a loop that never returns, and an adapter's call returns.
Fairness == WF_vars(RunStart \/ WorkerStep(Run))
FairSpec == Spec /\ Fairness

-----------------------------------------------------------------------------
(* Properties.                                                             *)

\* Every variable keeps its type, and the history its bound.
TypeOK ==
  /\ operations \in [Op -> SUBSET Operation]
  /\ queues \in [Chain -> Seq(Op)]
  /\ completed \in Seq(Op) /\ Len(completed) <= MaxCompleted
  /\ adapters \subseteq Chain
  /\ adding \in [Op -> SUBSET Operation]
  /\ worker \in [Worker -> [step : Step, batch : Seq(Op), snap : SUBSET Operation]]
  /\ turn \in 1 .. Len(ChainOrder)
  /\ created \subseteq Op /\ finalTx \subseteq Chain \X Tx
  /\ submissions \in [Op -> 0 .. 2]

\* The two maps agree through every interleaving of additions, completions by
\* callers and completions by process_chain: an operation is known exactly
\* while its id is in its source chain's queue, once, and in no other queue;
\* and what is completed is not pending.
QueuesMatchOperations ==
  /\ \A o \in Op, c \in Chain :
       Cardinality({i \in 1 .. Len(queues[c]) : queues[c][i] = o}) =
         IF \E x \in operations[o] : x.source = c THEN 1 ELSE 0
  /\ \A i \in 1 .. Len(completed) : operations[completed[i]] = {}

\* A submission is never forgotten: an operation the destination accepted has
\* left the map, or the call that submitted it is about to take it out, so no
\* later pass submits it again.
SubmissionIsSettled ==
  \A o \in Op : submissions[o] > 0 =>
    \/ operations[o] = {}
    \/ \E w \in Worker : /\ worker[w].step \in {"settle", "complete"}
                         /\ Current(w) = o

\* With run() alone calling process_chain, an operation is submitted to its
\* destination at most once, across failures, aborted passes and completions
\* by other tasks.
SubmittedOnce == \A o \in Op : submissions[o] <= 1

\* What is submitted is the clone whose own source transaction the source
\* chain's adapter reported as final, although set_source_tx may have named
\* another transaction since.
SubmitsOnlyFinal ==
  [][\A o \in Op : submissions'[o] > submissions[o] =>
       \E w \in Worker : /\ worker[w].step = "submit" /\ Current(w) = o
                         /\ \E x \in worker[w].snap : \E t \in x.tx :
                              <<x.source, t>> \in finalTx]_vars

\* process_chain's batch reaches o.
InBatch(o, c) == \E i \in 1 .. Len(queues[c]) : i <= Batch /\ queues[c][i] = o

\* An operation past its deadline that is among the first Batch of its queue
\* does not wait for ever: run() eventually marks it TimedOut, or it has been
\* completed, whatever other tasks do to it and to the ones ahead.  Further back
\* this does not hold: process_chain never takes an operation that timed out or
\* failed out of its queue, so that Batch of them at its head keep every later
\* one from being looked at.
DeadlineIsNoticed ==
  \A o \in Op :
    (\E x \in operations[o] : /\ x.left < 0 /\ x.source \in adapters
                              /\ InBatch(o, x.source))
      ~> (\A x \in operations[o] : x.state = "TimedOut")
=============================================================================

---------------------------- MODULE SolanaBridge ----------------------------
(***************************************************************************)
(* SolanaBridgeManager and SolanaChainAdapter                              *)
(* (crates/dchat-bridge/src/solana_bridge.rs): transfers collect validator *)
(* signatures, are minted on Solana and watched until they are final.      *)
(* submit_operation is what the sync manager calls for a BridgeOut; an     *)
(* operation whose call failed stays in the manager's queue and is         *)
(* submitted again, as a new transfer.  The transfers are behind one lock  *)
(* that no call keeps across an await: execute_mint and                    *)
(* update_confirmations work on a clone and write back whatever happened   *)
(* in between.                                                             *)
(*                                                                         *)
(* Solana itself is external: a list of transactions, numbered by their    *)
(* signatures, each with its confirmations, or Gone when it failed or was  *)
(* dropped.  Ids are drawn fresh, so transfers are numbered in the order   *)
(* they were made.  Amounts, addresses, hashes and timestamps are left     *)
(* out; so are the status Failed, which nothing writes, the count in       *)
(* Confirming, which nothing reads, and the validators map, which          *)
(* add_validator_signature does not look at.                               *)
(***************************************************************************)
EXTENDS Integers, Sequences, FiniteSets

CONSTANTS
  Op,                 \* BridgeOut operations of the sync manager
  Executor,           \* other callers of execute_mint
  Monitor,            \* callers of update_confirmations
  Validator,
  FullFrom, ShortFrom,\* validators who may send 64 bytes, another length
  Required,           \* required_signatures
  MinConfirmations,   \* min_confirmations
  MaxTransfers,       \* bounds: transfers made,
  MaxOther,           \* transfers not made by submit_operation among them,
  MaxTx,              \* transactions on Solana,
  MaxSignatures       \* validator signatures kept, of all transfers

ASSUME SolanaAssumption ==
  /\ Op \cap Executor = {}
  /\ FullFrom \subseteq Validator /\ ShortFrom \subseteq Validator
  /\ Required \in Nat /\ MinConfirmations \in Nat \ {0}

VARIABLES
  transfers,   \* the transfers made so far
  ledger,      \* Solana: transfer a transaction mints for (0 if none), confirmations
  call,        \* submit_operation and execute_mint calls
  watch        \* update_confirmations calls

vars == <<transfers, ledger, call, watch>>

None == 0
Gone == -1
Caller == Op \cup Executor

Status    == {"Pending", "ReadyToExecute", "Confirming", "Completed"}
Signature == [validator : Validator, full : BOOLEAN]   \* full: 64 bytes long
Step      == {"idle", "wait", "execute", "send", "record", "ok", "err"}

\* for: the operation a transfer was made for, none when it has another origin.
Transfer == [to_solana : BOOLEAN, for : SUBSET Op, signature : Nat,
             status : Status, validator_signatures : Seq(Signature)]

Idle == [step |-> "idle", transfer |-> None, late |-> FALSE, signature |-> None]
Off  == [step |-> "off", transfer |-> None, signature |-> None, seen |-> Gone]

Init ==
  /\ transfers = <<>> /\ ledger = <<>>
  /\ call = [c \in Caller |-> Idle]
  /\ watch = [m \in Monitor |-> Off]

\* The entries of a transfer that execute_mint counts, and whose they are.
FullEntries(t) == {i \in DOMAIN transfers[t].validator_signatures :
                     transfers[t].validator_signatures[i].full}
WellFormed(t)  == {transfers[t].validator_signatures[i].validator : i \in FullEntries(t)}

-----------------------------------------------------------------------------
(* Solana.                                                                 *)

Accepted(t) == Append(ledger, [mints |-> t, confirmations |-> 0])

Burn ==
  /\ Len(ledger) < MaxTx
  /\ ledger' = Accepted(None)
  /\ UNCHANGED <<transfers, call, watch>>

\* A transaction gains a confirmation, or fails or is dropped before it is final.
Progress(s) ==
  /\ ledger[s].confirmations \in 0 .. MinConfirmations - 1
  /\ \E n \in {ledger[s].confirmations + 1, Gone} :
       ledger' = [ledger EXCEPT ![s] = [@ EXCEPT !.confirmations = n]]
  /\ UNCHANGED <<transfers, call, watch>>

-----------------------------------------------------------------------------
(* Transfers.                                                              *)

\* Callers other than the adapter may make another transfer.
RoomForOthers ==
  /\ Len(transfers) < MaxTransfers
  /\ Cardinality({t \in DOMAIN transfers : transfers[t].for = {}}) < MaxOther

Initiated(to, op, s, st) ==
  Append(transfers, [to_solana |-> to, for |-> op, signature |-> s, status |-> st,
                     validator_signatures |-> <<>>])

InitiateToSolana(op) == transfers' = Initiated(TRUE, op, None, "Pending")

\* Any transaction that Solana knows will do, and nothing looks at whether
\* another transfer named it before.
InitiateFromSolana(s) ==
  /\ RoomForOthers
  /\ ledger[s].confirmations >= 0
  /\ transfers' = Initiated(FALSE, {}, s, "Confirming")
  /\ UNCHANGED <<ledger, call, watch>>

\* A transfer to Solana made by a caller other than the adapter.
Request ==
  /\ RoomForOthers
  /\ InitiateToSolana({})
  /\ UNCHANGED <<ledger, call, watch>>

\* add_validator_signature refuses a second entry of the same validator.
DuplicateSlip(t, v) == FALSE
Duplicate(t, v) == \E i \in DOMAIN transfers[t].validator_signatures :
                     transfers[t].validator_signatures[i].validator = v

SignaturesKept ==
  Cardinality(UNION {{t} \X DOMAIN transfers[t].validator_signatures : t \in DOMAIN transfers})

\* Once there are enough entries, of whatever length, the status becomes
\* ReadyToExecute whatever it was.
AddValidatorSignature(t, x) ==
  /\ SignaturesKept < MaxSignatures
  /\ ~Duplicate(t, x.validator)
  /\ transfers' = [transfers EXCEPT ![t] = [@ EXCEPT
       !.validator_signatures = Append(transfers[t].validator_signatures, x),
       !.status = IF Len(transfers[t].validator_signatures) + 1 >= Required
                  THEN "ReadyToExecute" ELSE transfers[t].status]]
  /\ UNCHANGED <<ledger, call, watch>>

-----------------------------------------------------------------------------
(* submit_operation, wait_and_execute, execute_mint.                       *)

GoTo(c, step) == call' = [call EXCEPT ![c] = [@ EXCEPT !.step = step, !.late = FALSE]]

\* A call returns; only what submit_operation returns is looked at.
Finish(c, res, s) == call' = [call EXCEPT
  ![c] = IF c \in Op THEN [Idle EXCEPT !.step = res, !.signature = s] ELSE Idle]
Error(c) == Finish(c, "err", None)

\* wait_and_execute finds the transfer completed.
Found(o, s) == IF s = None THEN Error(o) ELSE Finish(o, "ok", s)

\* The first call for an operation, and a call after one that failed.
SubmitOperation(o) ==
  /\ call[o].step \in {"idle", "err"} /\ Len(transfers) < MaxTransfers
  /\ InitiateToSolana({o})
  /\ call' = [call EXCEPT ![o] = [Idle EXCEPT !.step = "wait", !.transfer = Len(transfers) + 1]]
  /\ UNCHANGED <<ledger, watch>>

\* The timeout of wait_and_execute elapses.
Elapse(o) ==
  /\ call[o].step = "wait" /\ ~call[o].late
  /\ call' = [call EXCEPT ![o].late = TRUE]
  /\ UNCHANGED <<transfers, ledger, watch>>

\* Slip: the elapsed time is looked at only once the signatures are there.
PollSlip(o) ==
  /\ call[o].step = "wait"
  /\ LET t == transfers[call[o].transfer] IN
       \/ t.status = "ReadyToExecute" /\ call[o].late /\ Error(o)
       \/ t.status = "ReadyToExecute" /\ ~call[o].late /\ GoTo(o, "execute")
       \/ t.status = "Completed" /\ Found(o, t.signature)
  /\ UNCHANGED <<transfers, ledger, watch>>

\* One round of the loop in wait_and_execute; a round that finds the transfer
\* Pending or Confirming sleeps and changes nothing.
Poll(o) ==
  /\ call[o].step = "wait"
  /\ LET t == transfers[call[o].transfer] IN
       \/ call[o].late /\ Error(o)
       \/ ~call[o].late /\ t.status = "ReadyToExecute" /\ GoTo(o, "execute")
       \/ ~call[o].late /\ t.status = "Completed" /\ Found(o, t.signature)
  /\ UNCHANGED <<transfers, ledger, watch>>

\* Another caller asks for a transfer to be minted.
ExecuteMint(e, t) ==
  /\ call[e].step = "idle"
  /\ call' = [call EXCEPT ![e] = [Idle EXCEPT !.step = "execute", !.transfer = t]]
  /\ UNCHANGED <<transfers, ledger, watch>>

\* Slip: the entries that are not 64 bytes long are counted too.
MayMintSlip(t) ==
  /\ transfers[t].status = "ReadyToExecute" /\ transfers[t].to_solana
  /\ Len(transfers[t].validator_signatures) >= Required

MayMint(t) ==
  /\ transfers[t].status = "ReadyToExecute" /\ transfers[t].to_solana
  /\ Cardinality(FullEntries(t)) >= Required

\* execute_mint clones the transfer and checks the clone; the configuration
\* or the recipient's address may be unusable.
Check(c) ==
  /\ call[c].step = "execute"
  /\ \/ MayMint(call[c].transfer) /\ GoTo(c, "send")
     \/ Error(c)
  /\ UNCHANGED <<transfers, ledger, watch>>

\* Slip: the signature kept is that of the transaction before.
SendSlip(c) ==
  /\ call[c].step = "send"
  /\ \/ Error(c) /\ UNCHANGED ledger
     \/ /\ Len(ledger) < MaxTx /\ ledger' = Accepted(call[c].transfer)
        /\ \/ Error(c)
           \/ call' = [call EXCEPT ![c] =
                [@ EXCEPT !.step = "record", !.signature = Len(ledger)]]
  /\ UNCHANGED <<transfers, watch>>

\* A request for the block hash or to send the transaction fails, the second
\* before or after Solana took the transaction, or both are answered.
Send(c) ==
  /\ call[c].step = "send"
  /\ \/ Error(c) /\ UNCHANGED ledger
     \/ /\ Len(ledger) < MaxTx /\ ledger' = Accepted(call[c].transfer)
        /\ \/ Error(c)
           \/ call' = [call EXCEPT ![c] =
                [@ EXCEPT !.step = "record", !.signature = Len(ledger) + 1]]
  /\ UNCHANGED <<transfers, watch>>

Record(c) ==
  /\ call[c].step = "record"
  /\ transfers' = [transfers EXCEPT ![call[c].transfer] =
       [@ EXCEPT !.signature = call[c].signature, !.status = "Confirming"]]
  /\ Finish(c, "ok", call[c].signature)
  /\ UNCHANGED <<ledger, watch>>

-----------------------------------------------------------------------------
(* update_confirmations.                                                   *)

UpdateConfirmations(m, t) ==
  /\ watch[m].step = "off" /\ transfers[t].signature # None
  /\ watch' = [watch EXCEPT ![m] =
       [step |-> "ask", transfer |-> t, signature |-> transfers[t].signature, seen |-> Gone]]
  /\ UNCHANGED <<transfers, ledger, call>>

\* Slip: a transaction that failed is not reported as an error.
AnswerSlip(m) ==
  /\ watch[m].step = "ask"
  /\ \/ watch' = [watch EXCEPT ![m] = Off]
     \/ watch' = [watch EXCEPT ![m] = [@ EXCEPT !.step = "write",
                               !.seen = ledger[watch[m].signature].confirmations]]
  /\ UNCHANGED <<transfers, ledger, call>>

\* get_transaction_confirmations answers, or fails.
Answer(m) ==
  /\ watch[m].step = "ask"
  /\ \/ watch' = [watch EXCEPT ![m] = Off]
     \/ LET n == ledger[watch[m].signature].confirmations IN
          n # Gone /\ watch' = [watch EXCEPT ![m] = [@ EXCEPT !.step = "write", !.seen = n]]
  /\ UNCHANGED <<transfers, ledger, call>>

\* Slip: one confirmation short of final is taken for final.
StatusForSlip(n) == IF n + 1 >= MinConfirmations THEN "Completed" ELSE "Confirming"

StatusFor(n) == IF n >= MinConfirmations THEN "Completed" ELSE "Confirming"

WriteConfirmations(m) ==
  /\ watch[m].step = "write"
  /\ transfers' = [transfers EXCEPT ![watch[m].transfer] =
       [@ EXCEPT !.status = StatusFor(watch[m].seen)]]
  /\ watch' = [watch EXCEPT ![m] = Off]
  /\ UNCHANGED <<ledger, call>>

-----------------------------------------------------------------------------
CallStep(c) == (c \in Op /\ Poll(c)) \/ Check(c) \/ Send(c) \/ Record(c)

Next ==
  \/ Burn
  \/ \E s \in DOMAIN ledger : Progress(s) \/ InitiateFromSolana(s)
  \/ Request
  \/ \E t \in DOMAIN transfers :
       \/ \E v \in FullFrom : AddValidatorSignature(t, [validator |-> v, full |-> TRUE])
       \/ \E v \in ShortFrom : AddValidatorSignature(t, [validator |-> v, full |-> FALSE])
  \/ \E o \in Op : SubmitOperation(o) \/ Elapse(o)
  \/ \E e \in Executor, t \in DOMAIN transfers : ExecuteMint(e, t)
  \/ \E c \in Caller : CallStep(c)
  \/ \E m \in Monitor, t \in DOMAIN transfers : UpdateConfirmations(m, t)
  \/ \E m \in Monitor : Answer(m) \/ WriteConfirmations(m)

Spec == Init /\ [][Next]_vars

\* The task that made a call goes on, requests to Solana are answered or time
\* out, and the clock runs.
Fairness == \A o \in Op : WF_vars(CallStep(o)) /\ WF_vars(Elapse(o))
FairSpec == Spec /\ Fairness

-----------------------------------------------------------------------------
(* Properties.                                                             *)

\* Every variable keeps its type, and no reference dangles.
TypeOK ==
  /\ transfers \in Seq(Transfer)
  /\ ledger \in Seq([mints : 0 .. Len(transfers), confirmations : Gone .. MinConfirmations])
  /\ call \in [Caller -> [step : Step, transfer : 0 .. Len(transfers), late : BOOLEAN,
                          signature : 0 .. Len(ledger)]]
  /\ watch \in [Monitor -> [step : {"off", "ask", "write"}, transfer : 0 .. Len(transfers),
                            signature : 0 .. Len(ledger), seen : Gone .. MinConfirmations]]
  /\ \A m \in Monitor : watch[m].step = "write" => watch[m].seen # Gone

\* No mint without its quorum: a transaction Solana took mints for a transfer
\* to Solana that distinct validators, as many as are required, signed with
\* signatures of full length, although what execute_mint counts are the entries
\* of a clone it made awaits ago.
QuorumBehindMint ==
  \A s \in DOMAIN ledger : ledger[s].mints # None =>
    /\ transfers[ledger[s].mints].to_solana
    /\ Cardinality(WellFormed(ledger[s].mints)) >= Required

\* The transactions of a transfer: what it minted, or the one it was made from.
Belongs(s, t) ==
  /\ s \in DOMAIN ledger
  /\ IF transfers[t].to_solana THEN ledger[s].mints = t ELSE transfers[t].signature = s

\* Completed means final on Solana: one of the transfer's own transactions has
\* the confirmations asked for, although the status is written from an answer
\* about the signature the transfer had when the question was asked.
CompletedWasFinal ==
  \A t \in DOMAIN transfers : transfers[t].status = "Completed" =>
    \E s \in DOMAIN ledger : Belongs(s, t) /\ ledger[s].confirmations = MinConfirmations

\* The signature submit_operation returns, which the sync manager stores as the
\* destination transaction, is of a transaction that mints for the very
\* operation it was called for, through retries and calls of execute_mint by
\* others.
ReturnsOwnMint ==
  \A o \in Op : call[o].step = "ok" =>
    /\ call[o].signature \in DOMAIN ledger
    /\ ledger[call[o].signature].mints \in DOMAIN transfers
    /\ transfers[ledger[call[o].signature].mints].for = {o}

\* submit_operation always returns, with its mint or with an error: the sync
\* manager's only task waits for it.
SubmissionReturns ==
  \A o \in Op : call[o].step \notin {"idle", "ok", "err"} ~> call[o].step \in {"ok", "err"}
=============================================================================

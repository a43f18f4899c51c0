------------------------ MODULE SolanaBridge_proofs ------------------------
(***************************************************************************)
(* Proofs about SolanaBridge.  Every call works on a transfer by number    *)
(* across awaits, so what it once checked must still hold when it acts: a  *)
(* step only ever adds to the transfers and to the ledger (Growth).  The   *)
(* invariant Safe says of each call in progress what it has established.   *)
(***************************************************************************)
EXTENDS SolanaBridge, FiniteSetTheorems, TLAPS

Tx   == [mints : Nat, confirmations : Gone .. MinConfirmations]
Call == [step : Step, transfer : Nat, late : BOOLEAN, signature : Nat]
Look == [step : {"off", "ask", "write"}, transfer : Nat, signature : Nat,
         seen : Gone .. MinConfirmations]

\* The types without the references' bounds.
Types ==
  /\ transfers \in Seq(Transfer)
  /\ ledger \in Seq(Tx)
  /\ call \in [Caller -> Call]
  /\ watch \in [Monitor -> Look]

LEMMA Constants ==
  /\ MinConfirmations \in Nat /\ MinConfirmations > 0 /\ Required \in Nat
  /\ FullFrom \subseteq Validator /\ ShortFrom \subseteq Validator
BY SolanaAssumption

\* Replacing one element of a sequence.
LEMMA Put ==
  ASSUME NEW S, NEW q \in Seq(S), NEW i, NEW x, i \in DOMAIN q => x \in S
  PROVE  /\ [q EXCEPT ![i] = x] \in Seq(S)
         /\ DOMAIN [q EXCEPT ![i] = x] = DOMAIN q
         /\ Len([q EXCEPT ![i] = x]) = Len(q)
<1> DEFINE f == [q EXCEPT ![i] = x]
<1>1. DOMAIN f = 1 .. Len(q) /\ Len(q) \in Nat
  OBVIOUS
<1>2. ASSUME NEW j \in 1 .. Len(q) PROVE f[j] \in S
  <2>1. q[j] \in S /\ j \in DOMAIN q
    OBVIOUS
  <2> QED BY <2>1
<1>3. f = [j \in 1 .. Len(q) |-> f[j]]
  OBVIOUS
<1> HIDE DEF f
<1>4. f \in [1 .. Len(q) -> S]
  BY <1>1, <1>2, <1>3
<1>5. f \in Seq(S) /\ Len(f) = Len(q)
  BY <1>1, <1>4
<1> QED BY <1>1, <1>5 DEF f

LEMMA Changed ==
  ASSUME NEW r \in Transfer
  PROVE  /\ \A q \in Seq(Signature), st \in Status :
              [r EXCEPT !.validator_signatures = q, !.status = st] \in Transfer
         /\ \A s \in Nat, st \in Status : [r EXCEPT !.signature = s, !.status = st] \in Transfer
         /\ \A st \in Status : [r EXCEPT !.status = st] \in Transfer
         /\ r.signature \in Nat /\ r.status \in Status
         /\ r.validator_signatures \in Seq(Signature)
BY DEF Transfer

LEMMA TypesStep ==
  ASSUME Types, [Next]_vars,
         \A o \in Op : call[o].step = "wait" => call[o].transfer \in DOMAIN transfers,
         \A m \in Monitor : watch[m].step = "ask" => watch[m].signature \in DOMAIN ledger
  PROVE  Types'
<1> USE Constants DEF Types
<1>0. /\ Idle \in Call /\ Off \in Look
      /\ \A s \in {"ok", "err"}, n \in Nat : [Idle EXCEPT !.step = s, !.signature = n] \in Call
      /\ \A s \in {"wait", "execute"}, n \in Nat :
           [Idle EXCEPT !.step = s, !.transfer = n] \in Call
  <2>1. Gone \in Gone .. MinConfirmations
    BY DEF Gone
  <2> QED BY <2>1 DEF Idle, Off, Call, Look, Step, None
<1>a. ASSUME NEW to \in BOOLEAN, NEW op \in SUBSET Op, NEW s \in Nat, NEW st \in Status
      PROVE  Initiated(to, op, s, st) \in Seq(Transfer)
  <2>1. [to_solana |-> to, for |-> op, signature |-> s, status |-> st,
         validator_signatures |-> <<>>] \in Transfer
    BY DEF Transfer
  <2> QED BY <2>1 DEF Initiated
<1>b. ASSUME NEW t \in Nat PROVE Accepted(t) \in Seq(Tx)
  <2>1. [mints |-> t, confirmations |-> 0] \in Tx
    BY DEF Tx, Gone
  <2> QED BY <2>1 DEF Accepted
<1>c. ASSUME NEW c \in Caller, NEW res \in {"ok", "err"}, NEW s \in Nat, Finish(c, res, s)
      PROVE  call' \in [Caller -> Call]
  BY <1>c, <1>0 DEF Finish
<1>d. ASSUME NEW c \in Caller, NEW st \in Step, GoTo(c, st) PROVE call' \in [Caller -> Call]
  BY <1>d DEF GoTo, Call
<1>e. /\ \A t \in DOMAIN transfers : transfers[t] \in Transfer
      /\ \A s \in DOMAIN ledger : ledger[s] \in Tx
  OBVIOUS
<1>1. CASE Burn
  BY <1>1, <1>b DEF Burn, None
<1>2. ASSUME NEW s \in DOMAIN ledger, Progress(s) PROVE Types'
  <2>1. PICK n \in {ledger[s].confirmations + 1, Gone} :
          ledger' = [ledger EXCEPT ![s] = [@ EXCEPT !.confirmations = n]]
    BY <1>2 DEF Progress
  <2>2. n \in Gone .. MinConfirmations
    BY <1>2, <2>1 DEF Progress, Gone
  <2>3. [ledger[s] EXCEPT !.confirmations = n] \in Tx
    BY <1>e, <2>2 DEF Tx
  <2>4. ledger' \in Seq(Tx)
    BY <2>1, <2>3, Put
  <2>5. UNCHANGED <<transfers, call, watch>>
    BY <1>2 DEF Progress
  <2> QED BY <2>4, <2>5
<1>3. ASSUME NEW s \in DOMAIN ledger, InitiateFromSolana(s) PROVE Types'
  <2>1. s \in Nat /\ "Confirming" \in Status
    BY DEF Status
  <2>2. transfers' \in Seq(Transfer)
    BY <1>3, <1>a, <2>1 DEF InitiateFromSolana
  <2> QED BY <1>3, <2>2 DEF InitiateFromSolana
<1>4. CASE Request
  BY <1>4, <1>a DEF Request, InitiateToSolana, Status, None
<1>5. ASSUME NEW t \in DOMAIN transfers, NEW x \in Signature,
             AddValidatorSignature(t, x) PROVE Types'
  <2> DEFINE q == Append(transfers[t].validator_signatures, x)
             st == IF Len(transfers[t].validator_signatures) + 1 >= Required
                   THEN "ReadyToExecute" ELSE transfers[t].status
  <2>1. st \in Status
    BY <1>e, Changed DEF Status
  <2>6. transfers[t].validator_signatures \in Seq(Signature)
    BY <1>e, Changed
  <2>7. q \in Seq(Signature)
    BY <2>6
  <2>3. transfers' = [transfers EXCEPT ![t] =
          [transfers[t] EXCEPT !.validator_signatures = q, !.status = st]]
    BY <1>5 DEF AddValidatorSignature
  <2> HIDE DEF st, q
  <2>2. [transfers[t] EXCEPT !.validator_signatures = q, !.status = st] \in Transfer
    BY <1>e, <2>1, <2>7, Changed
  <2>4. transfers' \in Seq(Transfer)
    BY <2>2, <2>3, Put
  <2>5. UNCHANGED <<ledger, call, watch>>
    BY <1>5 DEF AddValidatorSignature
  <2> QED BY <2>4, <2>5
<1>6. ASSUME NEW o \in Op, SubmitOperation(o) PROVE Types'
  <2>1. transfers' \in Seq(Transfer)
    BY <1>6, <1>a DEF SubmitOperation, InitiateToSolana, Status, None
  <2>2. Len(transfers) + 1 \in Nat
    OBVIOUS
  <2>3. call' \in [Caller -> Call]
    BY <1>6, <1>0, <2>2 DEF SubmitOperation
  <2> QED BY <1>6, <2>1, <2>3 DEF SubmitOperation
<1>7. ASSUME NEW o \in Op, Elapse(o) PROVE Types'
  <2>1. call' \in [Caller -> Call]
    BY <1>7 DEF Elapse, Call, Caller
  <2> QED BY <1>7, <2>1 DEF Elapse
<1>8. ASSUME NEW e \in Executor, NEW t \in DOMAIN transfers, ExecuteMint(e, t) PROVE Types'
  <2>1. t \in Nat
    OBVIOUS
  <2>2. call' \in [Caller -> Call]
    BY <1>8, <1>0, <2>1 DEF ExecuteMint
  <2> QED BY <1>8, <2>2 DEF ExecuteMint
<1>9. ASSUME NEW c \in Op, Poll(c) PROVE Types'
  <2>1. transfers[call[c].transfer].signature \in Nat
    BY <1>9, <1>e, Changed DEF Poll
  <2>2. call' \in [Caller -> Call]
    BY <1>9, <1>c, <1>d, <2>1 DEF Poll, Error, Found, Caller, Step, None
  <2> QED BY <1>9, <2>2 DEF Poll
<1>10. ASSUME NEW c \in Caller, Check(c) PROVE Types'
  BY <1>10, <1>c, <1>d DEF Check, Error, Step, None
<1>11. ASSUME NEW c \in Caller, Send(c) PROVE Types'
  <2>1. call[c].transfer \in Nat
    BY DEF Call
  <2>2. CASE Error(c) /\ UNCHANGED ledger
    BY <1>11, <2>2, <1>c DEF Send, Error, None
  <2>3. CASE ledger' = Accepted(call[c].transfer) /\ Error(c)
    BY <1>11, <2>1, <2>3, <1>b, <1>c DEF Send, Error, None
  <2>4. CASE /\ ledger' = Accepted(call[c].transfer)
             /\ call' = [call EXCEPT ![c] = [@ EXCEPT !.step = "record", !.signature = Len(ledger) + 1]]
    <3>1. call' \in [Caller -> Call]
      <4>1. Len(ledger) + 1 \in Nat
        OBVIOUS
      <4>2. [call[c] EXCEPT !.step = "record", !.signature = Len(ledger) + 1] \in Call
        BY <4>1 DEF Call, Step
      <4> QED BY <2>4, <4>2
    <3> QED BY <1>11, <2>1, <2>4, <1>b, <3>1 DEF Send
  <2> QED BY <1>11, <2>2, <2>3, <2>4 DEF Send
<1>12. ASSUME NEW c \in Caller, Record(c) PROVE Types'
  <2> DEFINE r == [transfers[call[c].transfer] EXCEPT !.signature = call[c].signature,
                                                      !.status = "Confirming"]
  <2>1. call[c].signature \in Nat
    BY DEF Call
  <2>2. call[c].transfer \in DOMAIN transfers => r \in Transfer
    BY <1>e, <2>1, Changed DEF Status
  <2>3. transfers' = [transfers EXCEPT ![call[c].transfer] = r]
    BY <1>12 DEF Record
  <2> HIDE DEF r
  <2>4. transfers' \in Seq(Transfer)
    BY <2>2, <2>3, Put
  <2> QED BY <1>12, <1>c, <2>1, <2>4 DEF Record
<1>13. ASSUME NEW m \in Monitor, NEW t \in DOMAIN transfers, UpdateConfirmations(m, t) PROVE Types'
  <2>1. transfers[t].signature \in Nat
    BY <1>e, Changed
  <2>2. Gone \in Gone .. MinConfirmations /\ t \in Nat
    BY DEF Gone
  <2>3. [step |-> "ask", transfer |-> t, signature |-> transfers[t].signature, seen |-> Gone]
          \in Look
    BY <2>1, <2>2 DEF Look
  <2> QED BY <1>13, <2>3 DEF UpdateConfirmations
<1>14. ASSUME NEW m \in Monitor, Answer(m) PROVE Types'
  <2>1. ledger[watch[m].signature].confirmations \in Gone .. MinConfirmations
    BY <1>14, <1>e DEF Answer, Tx
  <2>2. watch' \in [Monitor -> Look]
    <3>1. CASE watch' = [watch EXCEPT ![m] = Off]
      BY <1>0, <3>1
    <3>2. CASE watch' = [watch EXCEPT ![m] = [@ EXCEPT !.step = "write",
                           !.seen = ledger[watch[m].signature].confirmations]]
      <4>1. [watch[m] EXCEPT !.step = "write",
               !.seen = ledger[watch[m].signature].confirmations] \in Look
        BY <2>1 DEF Look
      <4> QED BY <3>2, <4>1
    <3> QED BY <1>14, <3>1, <3>2 DEF Answer
  <2> QED BY <1>14, <2>2 DEF Answer
<1>15. ASSUME NEW m \in Monitor, WriteConfirmations(m) PROVE Types'
  <2> DEFINE r == [transfers[watch[m].transfer] EXCEPT !.status = StatusFor(watch[m].seen)]
  <2>1. watch[m].transfer \in DOMAIN transfers => r \in Transfer
    BY <1>e, Changed DEF Status, StatusFor
  <2>2. transfers' = [transfers EXCEPT ![watch[m].transfer] = r]
    BY <1>15 DEF WriteConfirmations
  <2> HIDE DEF r
  <2>3. transfers' \in Seq(Transfer)
    BY <2>1, <2>2, Put
  <2> QED BY <1>15, <1>0, <2>3 DEF WriteConfirmations
<1>16. CASE UNCHANGED vars
  BY <1>16 DEF vars
<1>17. \A v \in FullFrom \cup ShortFrom, b \in BOOLEAN : [validator |-> v, full |-> b] \in Signature
  BY DEF Signature
<1> QED
  BY <1>17, <1>1, <1>2, <1>3, <1>4, <1>5, <1>6, <1>7, <1>8, <1>9, <1>10, <1>11, <1>12, <1>13,
     <1>14, <1>15, <1>16 DEF Next, CallStep

-----------------------------------------------------------------------------
\* What no step takes back.
LedgerGrows ==
  /\ Len(ledger) <= Len(ledger')
  /\ \A s \in DOMAIN ledger :
       /\ s \in DOMAIN ledger' /\ ledger'[s].mints = ledger[s].mints
       /\ ledger[s].confirmations = MinConfirmations =>
            ledger'[s].confirmations = MinConfirmations
Extends(p, q) == \A i \in DOMAIN q : i \in DOMAIN p /\ p[i] = q[i]
TransfersGrow ==
  /\ Len(transfers) <= Len(transfers')
  /\ \A t \in DOMAIN transfers :
       /\ t \in DOMAIN transfers'
       /\ transfers'[t].to_solana = transfers[t].to_solana
       /\ transfers'[t].for = transfers[t].for
       /\ Extends(transfers'[t].validator_signatures, transfers[t].validator_signatures)
       /\ ~transfers[t].to_solana => transfers'[t].signature = transfers[t].signature
Grows == LedgerGrows /\ TransfersGrow

LEMMA LedgerGrowth ==
  ASSUME Types, [Next]_vars
  PROVE  LedgerGrows
<1> USE DEF Types
<1>1. CASE UNCHANGED ledger
  BY <1>1 DEF LedgerGrows
<1>2. ASSUME NEW x, ledger' = Append(ledger, x) PROVE LedgerGrows
  BY <1>2 DEF LedgerGrows
<1>3. ASSUME NEW s \in DOMAIN ledger, Progress(s) PROVE LedgerGrows
  <2>1. PICK n : ledger' = [ledger EXCEPT ![s] = [@ EXCEPT !.confirmations = n]]
    BY <1>3 DEF Progress
  <2>2. ledger[s] \in Tx /\ ledger[s].confirmations # MinConfirmations
    BY <1>3, Constants DEF Progress
  <2>3. [ledger[s] EXCEPT !.confirmations = n].mints = ledger[s].mints
    BY <2>2 DEF Tx
  <2>4. DOMAIN ledger' = DOMAIN ledger /\ Len(ledger') = Len(ledger)
    BY <2>1
  <2> QED BY <2>1, <2>2, <2>3, <2>4 DEF LedgerGrows
<1>4. \/ UNCHANGED ledger \/ \E x : ledger' = Append(ledger, x)
      \/ \E s \in DOMAIN ledger : Progress(s)
  BY DEF Next, CallStep, Burn, Accepted, InitiateFromSolana, Request, AddValidatorSignature,
         SubmitOperation, Elapse, ExecuteMint, Poll, Check, Send, Record,
         UpdateConfirmations, Answer, WriteConfirmations, vars
<1> QED BY <1>1, <1>2, <1>3, <1>4

LEMMA TransfersGrowth ==
  ASSUME Types, [Next]_vars,
         \A c \in Caller : call[c].step = "record" /\ call[c].transfer \in DOMAIN transfers =>
           transfers[call[c].transfer].to_solana
  PROVE  TransfersGrow
<1> USE DEF Types
<1>1. CASE UNCHANGED transfers
  BY <1>1 DEF TransfersGrow, Extends
<1>2. ASSUME NEW x, transfers' = Append(transfers, x) PROVE TransfersGrow
  <2>1. /\ Len(transfers) <= Len(transfers')
        /\ \A t \in DOMAIN transfers : t \in DOMAIN transfers' /\ transfers'[t] = transfers[t]
    BY <1>2
  <2> QED BY <2>1 DEF TransfersGrow, Extends
<1>3. ASSUME NEW t, NEW r, transfers' = [transfers EXCEPT ![t] = r],
             t \in DOMAIN transfers =>
               /\ r.to_solana = transfers[t].to_solana /\ r.for = transfers[t].for
               /\ Extends(r.validator_signatures, transfers[t].validator_signatures)
               /\ ~transfers[t].to_solana => r.signature = transfers[t].signature
      PROVE  TransfersGrow
  <2>1. DOMAIN transfers' = DOMAIN transfers /\ Len(transfers') = Len(transfers)
    BY <1>3
  <2>2. \A u \in DOMAIN transfers : transfers'[u] = IF u = t THEN r ELSE transfers[u]
    BY <1>3
  <2>3. \A q : Extends(q, q)
    BY DEF Extends
  <2> QED BY <1>3, <2>1, <2>2, <2>3 DEF TransfersGrow
<1>4. ASSUME NEW t \in DOMAIN transfers, NEW x \in Signature,
             AddValidatorSignature(t, x) PROVE TransfersGrow
  <2> DEFINE q == transfers[t].validator_signatures
             st == IF Len(transfers[t].validator_signatures) + 1 >= Required
                   THEN "ReadyToExecute" ELSE transfers[t].status
             r == [transfers[t] EXCEPT !.validator_signatures = Append(q, x), !.status = st]
  <2>1. transfers' = [transfers EXCEPT ![t] = r]
    BY <1>4 DEF AddValidatorSignature
  <2>6. transfers[t] \in Transfer
    OBVIOUS
  <2>2. transfers[t] \in Transfer /\ q \in Seq(Signature)
    BY <2>6, Changed
  <2>3. Extends(Append(q, x), q)
    BY <2>2 DEF Extends
  <2>4. /\ r.to_solana = transfers[t].to_solana /\ r.for = transfers[t].for
        /\ r.signature = transfers[t].signature
        /\ r.validator_signatures = Append(q, x)
    BY <2>2 DEF Transfer
  <2>5. Extends(r.validator_signatures, transfers[t].validator_signatures)
    BY <2>3, <2>4
  <2> HIDE DEF r
  <2> QED BY <1>3, <2>1, <2>4, <2>5
<1>5. ASSUME NEW c \in Caller, Record(c) PROVE TransfersGrow
  <2> DEFINE t == call[c].transfer
             r == [transfers[t] EXCEPT !.signature = call[c].signature, !.status = "Confirming"]
  <2>1. transfers' = [transfers EXCEPT ![t] = r]
    BY <1>5 DEF Record
  <2>2. t \in DOMAIN transfers => transfers[t] \in Transfer /\ transfers[t].to_solana
    BY <1>5 DEF Record
  <2>3. t \in DOMAIN transfers =>
          /\ r.to_solana = transfers[t].to_solana /\ r.for = transfers[t].for
          /\ Extends(r.validator_signatures, transfers[t].validator_signatures)
    BY <2>2 DEF Transfer, Extends
  <2> HIDE DEF r, t
  <2> QED BY <1>3, <2>1, <2>2, <2>3
<1>6. ASSUME NEW m \in Monitor, WriteConfirmations(m) PROVE TransfersGrow
  <2> DEFINE t == watch[m].transfer
             r == [transfers[t] EXCEPT !.status = StatusFor(watch[m].seen)]
  <2>1. transfers' = [transfers EXCEPT ![t] = r]
    BY <1>6 DEF WriteConfirmations
  <2>2. t \in DOMAIN transfers => transfers[t] \in Transfer
    OBVIOUS
  <2>3. t \in DOMAIN transfers =>
          /\ r.to_solana = transfers[t].to_solana /\ r.for = transfers[t].for
          /\ Extends(r.validator_signatures, transfers[t].validator_signatures)
          /\ r.signature = transfers[t].signature
    BY <2>2 DEF Transfer, Extends
  <2> HIDE DEF r, t
  <2> QED BY <1>3, <2>1, <2>3
<1>7. \/ UNCHANGED transfers \/ \E x : transfers' = Append(transfers, x)
      \/ \E t \in DOMAIN transfers, x \in Signature : AddValidatorSignature(t, x)
      \/ \E c \in Caller : Record(c)
      \/ \E m \in Monitor : WriteConfirmations(m)
  <2>1. \A v \in FullFrom \cup ShortFrom, b \in BOOLEAN :
          [validator |-> v, full |-> b] \in Signature
    BY Constants DEF Signature
  <2> QED BY <2>1 DEF Next, CallStep, Burn, Initiated, InitiateFromSolana, Request, Progress,
         InitiateToSolana, SubmitOperation, Elapse, ExecuteMint, Poll, Check, Send,
         UpdateConfirmations, Answer, vars
<1> QED BY <1>1, <1>2, <1>4, <1>5, <1>6, <1>7

-----------------------------------------------------------------------------
Busy == {"wait", "execute", "send", "record"}

\* What a call of submit_operation or execute_mint has established.
Holding(c) ==
  /\ call[c].transfer \in 0 .. Len(transfers) /\ call[c].signature \in 0 .. Len(ledger)
  /\ call[c].step \in Busy =>
       /\ call[c].transfer \in DOMAIN transfers
       /\ c \in Op => transfers[call[c].transfer].for = {c} /\ transfers[call[c].transfer].to_solana
  /\ call[c].step \in {"send", "record"} =>
       /\ transfers[call[c].transfer].to_solana
       /\ Cardinality(WellFormed(call[c].transfer)) >= Required
  /\ call[c].step = "record" =>
       call[c].signature \in DOMAIN ledger /\ ledger[call[c].signature].mints = call[c].transfer
  /\ c \in Op /\ call[c].step = "ok" =>
       /\ call[c].signature \in DOMAIN ledger
       /\ ledger[call[c].signature].mints \in DOMAIN transfers
       /\ transfers[ledger[call[c].signature].mints].for = {c}

\* What a call of update_confirmations is about.
Looking(m) ==
  /\ watch[m].transfer \in 0 .. Len(transfers) /\ watch[m].signature \in 0 .. Len(ledger)
  /\ watch[m].step # "off" => /\ watch[m].transfer \in DOMAIN transfers
                              /\ Belongs(watch[m].signature, watch[m].transfer)
  /\ watch[m].step = "write" =>
       /\ watch[m].seen # Gone
       /\ watch[m].seen = MinConfirmations =>
            ledger[watch[m].signature].confirmations = MinConfirmations

\* A transfer's signature is of its own transaction, and it is completed by one.
Sound(t) ==
  /\ ~transfers[t].to_solana => transfers[t].signature # None
  /\ transfers[t].signature # None => Belongs(transfers[t].signature, t)
  /\ transfers[t].status = "Completed" =>
       \E s \in DOMAIN ledger : Belongs(s, t) /\ ledger[s].confirmations = MinConfirmations

\* A transaction that mints has its quorum.
Minted(s) ==
  /\ ledger[s].mints \in 0 .. Len(transfers)
  /\ ledger[s].mints # None =>
       /\ transfers[ledger[s].mints].to_solana
       /\ Cardinality(WellFormed(ledger[s].mints)) >= Required

Safe ==
  /\ Types
  /\ \A c \in Caller : Holding(c)
  /\ \A m \in Monitor : Looking(m)
  /\ \A t \in DOMAIN transfers : Sound(t)
  /\ \A s \in DOMAIN ledger : Minted(s)

\* add_validator_signature keeps one entry for each validator.
Once(q) == \A i, j \in DOMAIN q : q[i].validator = q[j].validator => i = j
OneEach == \A t \in DOMAIN transfers : Once(transfers[t].validator_signatures)

\* The validators behind the full entries of a list, as many as the entries
\* when no validator has two.
LEMMA Signers ==
  ASSUME NEW q \in Seq(Signature), NEW E, E = {i \in DOMAIN q : q[i].full},
         NEW W, W = {q[i].validator : i \in E}
  PROVE  /\ IsFiniteSet(W)
         /\ Once(q) => Cardinality(W) = Cardinality(E)
<1>1. E \subseteq 1 .. Len(q) /\ Len(q) \in Nat
  OBVIOUS
<1>2. IsFiniteSet(E)
  BY <1>1, FS_Interval, FS_Subset
<1> DEFINE f == [i \in E |-> q[i].validator]
<1>3. f \in [E -> W] /\ \A w \in W : \E i \in E : f[i] = w
  OBVIOUS
<1>4. f \in Surjection(E, W)
  BY <1>3 DEF Surjection
<1>5. Once(q) => f \in Injection(E, W)
  <2>1. SUFFICES ASSUME Once(q) PROVE f \in Injection(E, W)
    OBVIOUS
  <2>2. \A i, j \in E : f[i] = f[j] => i = j
    BY <2>1 DEF Once
  <2> HIDE DEF f
  <2> QED BY <1>3, <2>2 DEF Injection, IsInjective
<1> HIDE DEF f
<1> QED BY <1>2, <1>4, <1>5, FS_Surjection

\* The quorum behind a transfer stays.
LEMMA QuorumStays ==
  ASSUME Types, Types', TransfersGrow, NEW t \in DOMAIN transfers,
         Cardinality(WellFormed(t)) >= Required
  PROVE  Cardinality(WellFormed(t)') >= Required
<1>1. PICK q : q = transfers'[t].validator_signatures
  OBVIOUS
<1>2. q \in Seq(Signature)
  <2>1. PICK r : r = transfers'[t]
    OBVIOUS
  <2>2. r \in Transfer
    BY <2>1 DEF TransfersGrow, Types
  <2> QED BY <1>1, <2>1, <2>2, Changed
<1>3. IsFiniteSet(WellFormed(t)')
  BY <1>1, <1>2, Signers DEF WellFormed, FullEntries
<1>4. WellFormed(t) \subseteq WellFormed(t)'
  BY DEF TransfersGrow, Extends, WellFormed, FullEntries
<1>5. /\ Cardinality(WellFormed(t)) <= Cardinality(WellFormed(t)')
      /\ IsFiniteSet(WellFormed(t))
  BY <1>3, <1>4, FS_Subset
<1>6. Cardinality(WellFormed(t)) \in Nat /\ Cardinality(WellFormed(t)') \in Nat
  BY <1>3, <1>5, FS_CardinalityType
<1> QED BY <1>5, <1>6, Constants

LEMMA BelongsStays ==
  ASSUME Types, Grows, NEW t \in DOMAIN transfers, NEW s, Belongs(s, t)
  PROVE  Belongs(s, t)'
BY DEF Grows, LedgerGrows, TransfersGrow, Belongs

LEMMA KeepHolding ==
  ASSUME Types, Types', Grows, NEW c \in Caller, Holding(c), call'[c] = call[c]
  PROVE  Holding(c)'
<1>1. /\ Len(ledger) \in Nat /\ Len(transfers) \in Nat /\ Len(ledger') \in Nat
      /\ Len(transfers') \in Nat
  BY DEF Types
<1>2. /\ (call[c].transfer \in 0 .. Len(transfers))' /\ (call[c].signature \in 0 .. Len(ledger))'
  BY <1>1 DEF Holding, Grows, LedgerGrows, TransfersGrow
<1>3. ASSUME call[c].step \in {"send", "record"}
      PROVE  Cardinality(WellFormed(call[c].transfer))' >= Required
  <2>1. PICK t : t = call[c].transfer
    OBVIOUS
  <2>2. t \in DOMAIN transfers /\ Cardinality(WellFormed(t)) >= Required
    BY <1>3, <2>1 DEF Holding, Busy
  <2>3. Cardinality(WellFormed(t)') >= Required
    BY <2>2, QuorumStays DEF Grows
  <2> QED BY <2>1, <2>3 DEF WellFormed, FullEntries
<1>4. (call[c].step \in Busy =>
       /\ call[c].transfer \in DOMAIN transfers
       /\ c \in Op => transfers[call[c].transfer].for = {c} /\ transfers[call[c].transfer].to_solana)'
  BY DEF Holding, Grows, TransfersGrow
<1>5. (call[c].step \in {"send", "record"} => transfers[call[c].transfer].to_solana)'
  BY DEF Holding, Grows, TransfersGrow, Busy
<1>6. (call[c].step = "record" =>
       call[c].signature \in DOMAIN ledger /\ ledger[call[c].signature].mints = call[c].transfer)'
  BY DEF Holding, Grows, LedgerGrows
<1>7. (c \in Op /\ call[c].step = "ok" =>
       /\ call[c].signature \in DOMAIN ledger
       /\ ledger[call[c].signature].mints \in DOMAIN transfers
       /\ transfers[ledger[call[c].signature].mints].for = {c})'
  BY DEF Holding, Grows, LedgerGrows, TransfersGrow
<1> QED BY <1>2, <1>3, <1>4, <1>5, <1>6, <1>7 DEF Holding

LEMMA KeepLooking ==
  ASSUME Types, Types', Grows, NEW m \in Monitor, Looking(m), watch'[m] = watch[m]
  PROVE  Looking(m)'
<1>1. /\ Len(ledger) \in Nat /\ Len(transfers) \in Nat /\ Len(ledger') \in Nat
      /\ Len(transfers') \in Nat
  BY DEF Types
<1>2. (watch[m].transfer \in 0 .. Len(transfers))' /\ (watch[m].signature \in 0 .. Len(ledger))'
  BY <1>1 DEF Looking, Grows, LedgerGrows, TransfersGrow
<1>3. (watch[m].step # "off" => /\ watch[m].transfer \in DOMAIN transfers
                                /\ Belongs(watch[m].signature, watch[m].transfer))'
  BY DEF Looking, Belongs, Grows, LedgerGrows, TransfersGrow
<1>4. (watch[m].step = "write" =>
         /\ watch[m].seen # Gone
         /\ watch[m].seen = MinConfirmations =>
              ledger[watch[m].signature].confirmations = MinConfirmations)'
  BY DEF Looking, Belongs, Grows, LedgerGrows
<1> QED BY <1>2, <1>3, <1>4 DEF Looking

LEMMA KeepSound ==
  ASSUME Types, Types', Grows, NEW t \in DOMAIN transfers, Sound(t),
         transfers'[t].signature = transfers[t].signature,
         transfers'[t].status = "Completed" => transfers[t].status = "Completed"
  PROVE  Sound(t)'
<1>1. (~transfers[t].to_solana => transfers[t].signature # None)'
  BY DEF Sound, Grows, TransfersGrow
<1>2. (transfers[t].signature # None => Belongs(transfers[t].signature, t))'
  BY DEF Sound, Belongs, Grows, LedgerGrows, TransfersGrow
<1>3. (transfers[t].status = "Completed" =>
       \E s \in DOMAIN ledger : Belongs(s, t) /\ ledger[s].confirmations = MinConfirmations)'
  BY DEF Sound, Belongs, Grows, LedgerGrows, TransfersGrow
<1> QED BY <1>1, <1>2, <1>3 DEF Sound

LEMMA KeepMinted ==
  ASSUME Types, Types', Grows, NEW s \in DOMAIN ledger, Minted(s)
  PROVE  Minted(s)'
<1>1. /\ Len(transfers) \in Nat /\ Len(transfers') \in Nat
      /\ DOMAIN transfers = 1 .. Len(transfers)
  BY DEF Types
<1>2. PICK t : t = ledger[s].mints
  OBVIOUS
<1>3. ledger'[s].mints = t /\ t \in 0 .. Len(transfers) /\ t \in 0 .. Len(transfers')
  BY <1>1, <1>2 DEF Minted, Grows, LedgerGrows, TransfersGrow
<1>4. ASSUME t # None
      PROVE  transfers'[t].to_solana /\ Cardinality(WellFormed(t)') >= Required
  <2>1. t \in DOMAIN transfers /\ transfers[t].to_solana /\ Cardinality(WellFormed(t)) >= Required
    BY <1>1, <1>2, <1>3, <1>4 DEF Minted, None
  <2> QED BY <2>1, QuorumStays DEF Grows, TransfersGrow
<1>5. t # None => Cardinality(WellFormed(ledger[s].mints))' >= Required
  BY <1>3, <1>4 DEF WellFormed, FullEntries
<1> QED BY <1>3, <1>4, <1>5 DEF Minted

LEMMA SafeInit == Init => Safe
<1> SUFFICES ASSUME Init PROVE Safe
  OBVIOUS
<1>1. Types
  <2>1. Gone \in Gone .. MinConfirmations
    BY Constants DEF Gone
  <2>2. Idle \in Call /\ Off \in Look
    BY <2>1 DEF Idle, Off, Call, Look, Step, None
  <2> QED BY <2>2 DEF Init, Types
<1>2. Len(transfers) = 0 /\ Len(ledger) = 0 /\ DOMAIN transfers = {} /\ DOMAIN ledger = {}
  BY DEF Init
<1>3. ASSUME NEW c \in Caller PROVE Holding(c)
  BY <1>2 DEF Init, Holding, Idle, Busy, None
<1>4. ASSUME NEW m \in Monitor PROVE Looking(m)
  BY <1>2 DEF Init, Looking, Off, None
<1> QED BY <1>1, <1>2, <1>3, <1>4 DEF Safe

LEMMA SafeStep == Safe /\ OneEach /\ [Next]_vars => Safe'
<1> SUFFICES ASSUME Safe, OneEach, [Next]_vars PROVE Safe'
  OBVIOUS
<1>a. Types /\ Types'
  BY TypesStep DEF Safe, Holding, Looking, Busy, Belongs, Caller
<1>b. Grows
  BY <1>a, LedgerGrowth, TransfersGrowth DEF Safe, Holding, Grows
<1>c. /\ Len(transfers) \in Nat /\ DOMAIN transfers = 1 .. Len(transfers)
      /\ Len(ledger) \in Nat /\ DOMAIN ledger = 1 .. Len(ledger)
      /\ Len(transfers') \in Nat /\ DOMAIN transfers' = 1 .. Len(transfers')
      /\ Len(ledger') \in Nat /\ DOMAIN ledger' = 1 .. Len(ledger')
      /\ Len(transfers) <= Len(transfers') /\ Len(ledger) <= Len(ledger')
  BY <1>a, <1>b DEF Types, Grows, LedgerGrows, TransfersGrow
\* What is not touched is kept.
<1>d. /\ \A c \in Caller : call'[c] = call[c] => Holding(c)'
      /\ \A m \in Monitor : watch'[m] = watch[m] => Looking(m)'
      /\ \A t \in DOMAIN transfers : transfers'[t] = transfers[t] => Sound(t)'
      /\ \A s \in DOMAIN ledger : Minted(s)'
  BY <1>a, <1>b, KeepHolding, KeepLooking, KeepSound, KeepMinted DEF Safe
<1>e. ASSUME UNCHANGED transfers PROVE \A t \in DOMAIN transfers' : Sound(t)'
  BY <1>d, <1>e
<1>f. ASSUME UNCHANGED ledger PROVE \A s \in DOMAIN ledger' : Minted(s)'
  BY <1>d, <1>f
<1>g. ASSUME NEW c \in Caller, Error(c) PROVE \A d \in Caller : Holding(d)'
  <2>1. call'[c].step \in {"err", "idle"} /\ call'[c].transfer = None /\ call'[c].signature = None
    BY <1>a, <1>g DEF Error, Finish, Idle, None, Types
  <2>2. Holding(c)'
    BY <1>c, <2>1 DEF Holding, Busy, None
  <2>3. \A d \in Caller : d # c => call'[d] = call[d]
    BY <1>a, <1>g DEF Error, Finish, Types
  <2> QED BY <1>d, <2>2, <2>3
\* A new transfer.
<1>h. ASSUME NEW to \in BOOLEAN, NEW op, NEW s \in Nat, NEW st \in {"Pending", "Confirming"},
             transfers' = Initiated(to, op, s, st),
             \/ to /\ s = None
             \/ ~to /\ s \in DOMAIN ledger
      PROVE  \A t \in DOMAIN transfers' : Sound(t)'
  <2>0. PICK n : n = Len(transfers) + 1
    OBVIOUS
  <2>1. /\ DOMAIN transfers' = DOMAIN transfers \cup {n}
        /\ \A t \in DOMAIN transfers : transfers'[t] = transfers[t]
        /\ transfers'[n].to_solana = to /\ transfers'[n].signature = s /\ transfers'[n].status = st
    BY <1>a, <1>c, <1>h, <2>0 DEF Initiated, Types
  <2>2. s \in DOMAIN ledger => s \in DOMAIN ledger'
    BY <1>c
  <2>3. Sound(n)'
    BY <1>c, <1>h, <2>1, <2>2 DEF Sound, Belongs, None
  <2> QED BY <1>d, <2>1, <2>3
\* A new transaction.
<1>i. ASSUME NEW t \in 0 .. Len(transfers'), ledger' = Accepted(t),
             t # None => transfers'[t].to_solana /\ Cardinality(WellFormed(t)') >= Required
      PROVE  \A s \in DOMAIN ledger' : Minted(s)'
  <2>0. PICK n : n = Len(ledger) + 1
    OBVIOUS
  <2>1. DOMAIN ledger' = DOMAIN ledger \cup {n} /\ ledger'[n].mints = t
    BY <1>a, <1>c, <1>i, <2>0 DEF Accepted, Types
  <2>2. Minted(n)'
    BY <1>i, <2>1 DEF Minted, WellFormed, FullEntries
  <2> QED BY <1>d, <2>1, <2>2
<1>1. CASE Burn
  <2>1. \A s \in DOMAIN ledger' : Minted(s)'
    BY <1>1, <1>c, <1>i DEF Burn, None
  <2> QED BY <1>1, <1>a, <1>d, <1>e, <2>1 DEF Safe, Burn
<1>2. ASSUME NEW s \in DOMAIN ledger, Progress(s) PROVE Safe'
  <2>1. DOMAIN ledger' = DOMAIN ledger
    BY <1>2, <1>a DEF Progress, Types
  <2> QED BY <1>2, <1>a, <1>d, <1>e, <2>1 DEF Safe, Progress
<1>3. ASSUME NEW s \in DOMAIN ledger, InitiateFromSolana(s) PROVE Safe'
  <2>0. /\ s \in Nat /\ FALSE \in BOOLEAN /\ "Confirming" \in {"Pending", "Confirming"}
        /\ transfers' = Initiated(FALSE, {}, s, "Confirming")
    BY <1>3, <1>c DEF InitiateFromSolana
  <2>1. \A t \in DOMAIN transfers' : Sound(t)'
    BY <2>0, <1>h, Zenon
  <2> QED BY <1>3, <1>a, <1>d, <1>f, <2>1 DEF Safe, InitiateFromSolana
<1>4. CASE Request
  <2>1. \A t \in DOMAIN transfers' : Sound(t)'
    BY <1>4, <1>h DEF Request, InitiateToSolana, None
  <2> QED BY <1>4, <1>a, <1>d, <1>f, <2>1 DEF Safe, Request
<1>5. ASSUME NEW t \in DOMAIN transfers, NEW x \in Signature,
             AddValidatorSignature(t, x) PROVE Safe'
  <2> DEFINE st == IF Len(transfers[t].validator_signatures) + 1 >= Required
                   THEN "ReadyToExecute" ELSE transfers[t].status
             r == [transfers[t] EXCEPT
                     !.validator_signatures = Append(transfers[t].validator_signatures, x),
                     !.status = st]
  <2>1. transfers' = [transfers EXCEPT ![t] = r]
    BY <1>5 DEF AddValidatorSignature
  <2>2. transfers[t] \in Transfer
    BY <1>a DEF Types
  <2>3. r.signature = transfers[t].signature /\ (r.status = "Completed" => transfers[t].status = "Completed")
    BY <2>2 DEF Transfer
  <2> HIDE DEF r
  <2>4. DOMAIN transfers' = DOMAIN transfers /\ transfers'[t] = r
        /\ \A u \in DOMAIN transfers : u # t => transfers'[u] = transfers[u]
    BY <1>a, <2>1 DEF Types
  <2>5. Sound(t)'
    BY <1>a, <1>b, <2>3, <2>4, KeepSound DEF Safe
  <2>6. \A u \in DOMAIN transfers' : Sound(u)'
    BY <1>d, <2>4, <2>5
  <2> QED BY <1>5, <1>a, <1>d, <1>f, <2>6 DEF Safe, AddValidatorSignature
<1>6. ASSUME NEW o \in Op, SubmitOperation(o) PROVE Safe'
  <2>1. \A t \in DOMAIN transfers' : Sound(t)'
    BY <1>6, <1>h DEF SubmitOperation, InitiateToSolana, None
  <2>2. /\ call'[o].transfer = Len(transfers) + 1 /\ call'[o].step = "wait"
        /\ call'[o].signature = None
        /\ \A c \in Caller : c # o => call'[c] = call[c]
    BY <1>6, <1>a DEF SubmitOperation, Types, Idle, Caller
  <2>3. /\ Len(transfers') = Len(transfers) + 1
        /\ transfers'[Len(transfers) + 1].for = {o} /\ transfers'[Len(transfers) + 1].to_solana
    BY <1>6, <1>a, <1>c DEF SubmitOperation, InitiateToSolana, Initiated, Types
  <2>4. Holding(o)'
    BY <1>c, <2>2, <2>3 DEF Holding, Busy, None
  <2> QED BY <1>6, <1>a, <1>d, <1>f, <2>1, <2>2, <2>4 DEF Safe, SubmitOperation
<1>7. ASSUME NEW o \in Op, Elapse(o) PROVE Safe'
  <2>1. /\ \A c \in Caller : c # o => call'[c] = call[c]
        /\ call'[o].step = "wait" /\ call'[o].transfer = call[o].transfer
        /\ call'[o].signature = call[o].signature
    BY <1>7, <1>a DEF Elapse, Types, Call, Caller
  <2>2. Holding(o)'
    BY <1>7, <2>1 DEF Safe, Holding, Busy, Elapse, Caller
  <2> QED BY <1>7, <1>a, <1>d, <1>e, <1>f, <2>1, <2>2 DEF Safe, Elapse
<1>8. ASSUME NEW e \in Executor, NEW t \in DOMAIN transfers, ExecuteMint(e, t) PROVE Safe'
  <2>1. /\ call'[e].transfer = t /\ call'[e].step = "execute" /\ call'[e].signature = None
        /\ \A c \in Caller : c # e => call'[c] = call[c]
    BY <1>8, <1>a DEF ExecuteMint, Types, Idle, Caller
  <2>2. e \notin Op
    BY SolanaAssumption
  <2>3. Holding(e)'
    BY <1>8, <1>c, <2>1, <2>2 DEF Holding, Busy, None, ExecuteMint
  <2> QED BY <1>8, <1>a, <1>d, <1>e, <1>f, <2>1, <2>3 DEF Safe, ExecuteMint
\* submit_operation returns a signature of a transaction minted for it.
<1>j. ASSUME NEW o \in Op, NEW s \in DOMAIN ledger, Finish(o, "ok", s),
             ledger[s].mints \in DOMAIN transfers, transfers[ledger[s].mints].for = {o}
      PROVE  \A c \in Caller : Holding(c)'
  <2>1. /\ call'[o].step = "ok" /\ call'[o].transfer = None /\ call'[o].signature = s
        /\ \A c \in Caller : c # o => call'[c] = call[c]
    BY <1>j, <1>a DEF Finish, Idle, Types, Caller
  <2>2. /\ s \in DOMAIN ledger' /\ ledger'[s].mints = ledger[s].mints
        /\ ledger[s].mints \in DOMAIN transfers' /\ transfers'[ledger[s].mints].for = {o}
    BY <1>j, <1>b DEF Grows, LedgerGrows, TransfersGrow
  <2>3. Holding(o)'
    BY <1>c, <2>1, <2>2 DEF Holding, Busy, None
  <2> QED BY <1>d, <2>1, <2>3
<1>9. ASSUME NEW o \in Op, Poll(o) PROVE Safe'
  <2>0. PICK t : t = call[o].transfer
    OBVIOUS
  <2>1. /\ t \in DOMAIN transfers /\ Sound(t)
        /\ transfers[t].for = {o} /\ transfers[t].to_solana
    BY <1>9, <2>0 DEF Poll, Safe, Holding, Busy, Caller
  <2>2. CASE Error(o)
    BY <2>2, <1>9, <1>a, <1>d, <1>e, <1>f, <1>g DEF Safe, Poll, Caller
  <2>3. CASE transfers[t].status = "ReadyToExecute" /\ GoTo(o, "execute")
    <3>1. /\ \A c \in Caller : c # o => call'[c] = call[c]
          /\ call'[o].step = "execute" /\ call'[o].transfer = t
          /\ call'[o].signature = call[o].signature
      BY <2>0, <2>3, <1>a DEF GoTo, Types, Call, Caller
    <3>2. Holding(o)'
      BY <1>9, <2>0, <2>1, <3>1 DEF Safe, Holding, Busy, Poll, Caller
    <3> QED BY <1>9, <1>a, <1>d, <1>e, <1>f, <3>1, <3>2 DEF Safe, Poll
  <2>4. CASE transfers[t].status = "Completed" /\ Found(o, transfers[t].signature)
    <3>0. PICK s : s = transfers[t].signature
      OBVIOUS
    <3>1. CASE s = None
      BY <2>4, <3>0, <3>1, <2>2 DEF Found
    <3>2. CASE s # None
      <4>1. s \in DOMAIN ledger /\ ledger[s].mints = t
        BY <2>1, <3>0, <3>2 DEF Sound, Belongs
      <4>2. Finish(o, "ok", s)
        BY <2>4, <3>0, <3>2 DEF Found
      <4>3. \A c \in Caller : Holding(c)'
        BY <1>j, <2>1, <4>1, <4>2
      <4> QED BY <1>9, <1>a, <1>d, <1>e, <1>f, <4>3 DEF Safe, Poll
    <3> QED BY <3>1, <3>2
  <2> QED BY <1>9, <2>0, <2>2, <2>3, <2>4 DEF Poll
<1>10. ASSUME NEW c \in Caller, Check(c) PROVE Safe'
  <2>1. CASE Error(c)
    BY <2>1, <1>10, <1>a, <1>d, <1>e, <1>f, <1>g DEF Safe, Check
  <2>2. CASE MayMint(call[c].transfer) /\ GoTo(c, "send")
    <3>1. /\ \A d \in Caller : d # c => call'[d] = call[d]
          /\ call'[c].step = "send" /\ call'[c].transfer = call[c].transfer
          /\ call'[c].signature = call[c].signature
      BY <2>2, <1>a DEF GoTo, Types, Call
    <3>2. Holding(c)'
      <4>1. PICK t : t = call[c].transfer
        OBVIOUS
      <4>2. PICK q : q = transfers[t].validator_signatures
        OBVIOUS
      <4>3. t \in DOMAIN transfers /\ MayMint(t)
        BY <1>10, <2>2, <4>1 DEF Safe, Holding, Busy, Check
      <4>7. transfers[t] \in Transfer
        BY <1>a, <4>3 DEF Types
      <4>4. q \in Seq(Signature) /\ Once(q)
        BY <4>2, <4>3, <4>7, Changed DEF OneEach
      <4>5. Cardinality(WellFormed(t)) = Cardinality(FullEntries(t))
        BY <4>2, <4>4, Signers DEF WellFormed, FullEntries
      <4>6. Cardinality(WellFormed(call[c].transfer))' >= Required
        BY <1>10, <3>1, <4>1, <4>3, <4>5 DEF Check, MayMint, WellFormed, FullEntries
      <4> QED BY <1>10, <2>2, <3>1, <4>1, <4>3, <4>6 DEF Safe, Holding, Busy, Check, MayMint
    <3> QED BY <1>10, <1>a, <1>d, <1>e, <1>f, <3>1, <3>2 DEF Safe, Check
  <2> QED BY <1>10, <2>1, <2>2 DEF Check
<1>11. ASSUME NEW c \in Caller, Send(c) PROVE Safe'
  <2>0. PICK t : t = call[c].transfer
    OBVIOUS
  <2>1. /\ t \in DOMAIN transfers /\ transfers[t].to_solana
        /\ Cardinality(WellFormed(t)) >= Required
    BY <1>11, <2>0 DEF Send, Safe, Holding, Busy
  <2>2. UNCHANGED <<transfers, watch>>
    BY <1>11 DEF Send
  <2>3. CASE Error(c) /\ UNCHANGED ledger
    BY <2>2, <2>3, <1>a, <1>d, <1>e, <1>f, <1>g DEF Safe
  <2>4. ASSUME ledger' = Accepted(t) PROVE \A s \in DOMAIN ledger' : Minted(s)'
    <3>1. /\ t \in 0 .. Len(transfers') /\ transfers'[t].to_solana
          /\ Cardinality(WellFormed(t)') >= Required
      BY <1>c, <2>1, <2>2 DEF WellFormed, FullEntries
    <3> QED BY <1>i, <2>4, <3>1
  <2>5. CASE ledger' = Accepted(t) /\ Error(c)
    BY <2>2, <2>4, <2>5, <1>a, <1>d, <1>e, <1>g DEF Safe
  <2>6. CASE /\ ledger' = Accepted(t)
             /\ call' = [call EXCEPT ![c] =
                  [@ EXCEPT !.step = "record", !.signature = Len(ledger) + 1]]
    <3>1. /\ \A d \in Caller : d # c => call'[d] = call[d]
          /\ call'[c].step = "record" /\ call'[c].transfer = t
          /\ call'[c].signature = Len(ledger) + 1
      BY <2>0, <2>6, <1>a DEF Types, Call
    <3>2. /\ Len(ledger') = Len(ledger) + 1
          /\ ledger'[Len(ledger) + 1].mints = t
      BY <2>6, <1>a, <1>c DEF Accepted, Types
    <3>3. /\ c \in Op => transfers[t].for = {c}
          /\ Cardinality(WellFormed(call[c].transfer))' >= Required
      BY <1>11, <2>0, <2>1, <2>2, <3>1 DEF Safe, Holding, Busy, Send, WellFormed, FullEntries
    <3>4. Holding(c)'
      BY <1>c, <2>1, <2>2, <3>1, <3>2, <3>3 DEF Holding, Busy
    <3> QED BY <2>2, <2>4, <2>6, <1>a, <1>d, <1>e, <3>1, <3>4 DEF Safe
  <2> QED BY <1>11, <2>0, <2>3, <2>5, <2>6 DEF Send
<1>12. ASSUME NEW c \in Caller, Record(c) PROVE Safe'
  <2>0. PICK t, s : t = call[c].transfer /\ s = call[c].signature
    OBVIOUS
  <2>1. /\ t \in DOMAIN transfers /\ transfers[t].to_solana
        /\ s \in DOMAIN ledger /\ ledger[s].mints = t
        /\ c \in Op => transfers[t].for = {c}
    BY <1>12, <2>0 DEF Record, Safe, Holding, Busy
  <2>2. UNCHANGED <<ledger, watch>> /\ Finish(c, "ok", s)
    BY <1>12, <2>0 DEF Record
  <2>3. \A d \in Caller : Holding(d)'
    <3>1. CASE c \in Op
      BY <1>j, <2>1, <2>2, <3>1
    <3>2. CASE c \notin Op
      <4>1. Error(c)
        BY <2>2, <3>2 DEF Error, Finish
      <4> QED BY <1>g, <4>1
    <3> QED BY <3>1, <3>2
  <2>4. transfers[t] \in Transfer
    BY <1>a, <2>1 DEF Types
  <2>5. /\ DOMAIN transfers' = DOMAIN transfers
        /\ \A u \in DOMAIN transfers : u # t => transfers'[u] = transfers[u]
        /\ transfers'[t] = [transfers[t] EXCEPT !.signature = s, !.status = "Confirming"]
    BY <1>12, <1>a, <2>0, <2>1 DEF Record, Types
  <2>6. transfers'[t].to_solana /\ transfers'[t].signature = s /\ transfers'[t].status = "Confirming"
    BY <2>1, <2>4, <2>5 DEF Transfer
  <2>7. Sound(t)'
    BY <2>1, <2>2, <2>6 DEF Sound, Belongs
  <2> QED BY <1>a, <1>d, <1>f, <2>2, <2>3, <2>5, <2>7 DEF Safe
<1>13. ASSUME NEW m \in Monitor, NEW t \in DOMAIN transfers, UpdateConfirmations(m, t)
       PROVE  Safe'
  <2>1. /\ watch'[m].step = "ask" /\ watch'[m].transfer = t
        /\ watch'[m].signature = transfers[t].signature
        /\ \A n \in Monitor : n # m => watch'[n] = watch[n]
    BY <1>13, <1>a DEF UpdateConfirmations, Types
  <2>2. Belongs(transfers[t].signature, t)
    BY <1>13 DEF UpdateConfirmations, Safe, Sound
  <2>3. Looking(m)'
    BY <1>13, <1>c, <2>1, <2>2 DEF Looking, Belongs, UpdateConfirmations
  <2> QED BY <1>13, <1>a, <1>d, <1>e, <1>f, <2>1, <2>3 DEF Safe, UpdateConfirmations
<1>14. ASSUME NEW m \in Monitor, Answer(m) PROVE Safe'
  <2>1. CASE watch' = [watch EXCEPT ![m] = Off]
    <3>1. /\ watch'[m] = Off /\ \A n \in Monitor : n # m => watch'[n] = watch[n]
      BY <2>1, <1>a DEF Types
    <3>2. Looking(m)'
      BY <1>c, <3>1 DEF Looking, Off, None
    <3> QED BY <1>14, <1>a, <1>d, <1>e, <1>f, <3>1, <3>2 DEF Safe, Answer
  <2>2. CASE LET n == ledger[watch[m].signature].confirmations IN
               n # Gone /\ watch' = [watch EXCEPT ![m] = [@ EXCEPT !.step = "write", !.seen = n]]
    <3>1. /\ \A n \in Monitor : n # m => watch'[n] = watch[n]
          /\ watch'[m].step = "write" /\ watch'[m].transfer = watch[m].transfer
          /\ watch'[m].signature = watch[m].signature
          /\ watch'[m].seen = ledger[watch[m].signature].confirmations /\ watch'[m].seen # Gone
      BY <2>2, <1>a DEF Types, Look
    <3>2. Looking(m)'
      BY <1>14, <3>1 DEF Safe, Looking, Belongs, Answer
    <3> QED BY <1>14, <1>a, <1>d, <1>e, <1>f, <3>1, <3>2 DEF Safe, Answer
  <2> QED BY <1>14, <2>1, <2>2 DEF Answer
<1>15. ASSUME NEW m \in Monitor, WriteConfirmations(m) PROVE Safe'
  <2>0. PICK t, s : t = watch[m].transfer /\ s = watch[m].signature
    OBVIOUS
  <2>1. /\ t \in DOMAIN transfers /\ Belongs(s, t) /\ Sound(t)
        /\ watch[m].seen = MinConfirmations => ledger[s].confirmations = MinConfirmations
        /\ watch[m].seen \in Gone .. MinConfirmations
    BY <1>15, <1>a, <2>0 DEF WriteConfirmations, Safe, Looking, Types, Look
  <2>2. /\ watch'[m] = Off /\ \A n \in Monitor : n # m => watch'[n] = watch[n]
        /\ UNCHANGED <<ledger, call>>
    BY <1>15, <1>a DEF WriteConfirmations, Types
  <2>3. Looking(m)'
    BY <1>c, <2>2 DEF Looking, Off, None
  <2>4. transfers[t] \in Transfer
    BY <1>a, <2>1 DEF Types
  <2>5. /\ DOMAIN transfers' = DOMAIN transfers
        /\ \A u \in DOMAIN transfers : u # t => transfers'[u] = transfers[u]
        /\ transfers'[t] = [transfers[t] EXCEPT !.status = StatusFor(watch[m].seen)]
    BY <1>15, <1>a, <2>0, <2>1 DEF WriteConfirmations, Types
  <2>6. /\ transfers'[t].to_solana = transfers[t].to_solana
        /\ transfers'[t].signature = transfers[t].signature
        /\ transfers'[t].status = StatusFor(watch[m].seen)
    BY <2>4, <2>5 DEF Transfer
  <2>7. transfers'[t].status = "Completed" => ledger[s].confirmations = MinConfirmations
    BY <2>1, <2>6, Constants DEF StatusFor, Gone
  <2>8. Sound(t)'
    BY <2>1, <2>2, <2>6, <2>7 DEF Sound, Belongs
  <2> QED BY <1>a, <1>d, <1>f, <2>2, <2>3, <2>5, <2>8 DEF Safe
<1>16. CASE UNCHANGED vars
  BY <1>16, <1>a, <1>d, <1>e, <1>f DEF vars, Safe
<1>17. \A v \in FullFrom \cup ShortFrom, b \in BOOLEAN : [validator |-> v, full |-> b] \in Signature
  BY Constants DEF Signature
<1> QED
  BY <1>17, <1>1, <1>2, <1>3, <1>4, <1>5, <1>6, <1>7, <1>8, <1>9, <1>10, <1>11, <1>12, <1>13,
     <1>14, <1>15, <1>16 DEF Next, CallStep

-----------------------------------------------------------------------------
LEMMA OneEachStep == Safe /\ OneEach /\ [Next]_vars => OneEach'
<1> SUFFICES ASSUME Safe, OneEach, [Next]_vars PROVE OneEach'
  OBVIOUS
<1> USE DEF Safe, Types
<1>1. CASE UNCHANGED transfers
  BY <1>1 DEF OneEach
<1>2. ASSUME NEW x, transfers' = Append(transfers, x), x.validator_signatures = <<>>
      PROVE  OneEach'
  <2>1. \A t \in DOMAIN transfers' :
          transfers'[t] = IF t \in DOMAIN transfers THEN transfers[t] ELSE x
    BY <1>2
  <2>2. Once(<<>>)
    BY DEF Once
  <2> QED BY <1>2, <2>1, <2>2 DEF OneEach
<1>3. ASSUME NEW t, NEW r, transfers' = [transfers EXCEPT ![t] = r],
             t \in DOMAIN transfers => Once(r.validator_signatures)
      PROVE  OneEach'
  <2>1. /\ DOMAIN transfers' = DOMAIN transfers
        /\ \A u \in DOMAIN transfers : transfers'[u] = IF u = t THEN r ELSE transfers[u]
    BY <1>3
  <2> QED BY <1>3, <2>1 DEF OneEach
<1>4. ASSUME NEW t \in DOMAIN transfers, NEW x \in Signature, AddValidatorSignature(t, x)
      PROVE  OneEach'
  <2> DEFINE q == transfers[t].validator_signatures
             st == IF Len(transfers[t].validator_signatures) + 1 >= Required
                   THEN "ReadyToExecute" ELSE transfers[t].status
             r == [transfers[t] EXCEPT !.validator_signatures = Append(q, x), !.status = st]
  <2>1. transfers' = [transfers EXCEPT ![t] = r]
    BY <1>4 DEF AddValidatorSignature
  <2>7. transfers[t] \in Transfer
    OBVIOUS
  <2>2. transfers[t] \in Transfer /\ q \in Seq(Signature) /\ Once(q)
    BY <2>7, Changed DEF OneEach
  <2>3. \A i \in DOMAIN q : q[i].validator # x.validator
    BY <1>4 DEF AddValidatorSignature, Duplicate
  <2>4. Once(Append(q, x))
    <3> HIDE DEF q
    <3>1. \A i \in DOMAIN Append(q, x) :
            \/ i \in DOMAIN q /\ Append(q, x)[i] = q[i]
            \/ i = Len(q) + 1 /\ Append(q, x)[i] = x
      BY <2>2
    <3> QED BY <2>2, <2>3, <3>1 DEF Once
  <2>5. r.validator_signatures = Append(q, x)
    BY <2>2 DEF Transfer
  <2>6. Once(r.validator_signatures)
    BY <2>4, <2>5
  <2> HIDE DEF r
  <2> QED BY <1>3, <2>1, <2>6
<1>5. ASSUME NEW c \in Caller, Record(c) PROVE OneEach'
  <2> DEFINE t == call[c].transfer
             r == [transfers[t] EXCEPT !.signature = call[c].signature, !.status = "Confirming"]
  <2>1. transfers' = [transfers EXCEPT ![t] = r]
    BY <1>5 DEF Record
  <2>2. t \in DOMAIN transfers => r.validator_signatures = transfers[t].validator_signatures
    BY DEF Transfer
  <2>3. t \in DOMAIN transfers => Once(r.validator_signatures)
    BY <2>2 DEF OneEach
  <2> HIDE DEF r, t
  <2> QED BY <1>3, <2>1, <2>3
<1>6. ASSUME NEW m \in Monitor, WriteConfirmations(m) PROVE OneEach'
  <2> DEFINE t == watch[m].transfer
             r == [transfers[t] EXCEPT !.status = StatusFor(watch[m].seen)]
  <2>1. transfers' = [transfers EXCEPT ![t] = r]
    BY <1>6 DEF WriteConfirmations
  <2>2. t \in DOMAIN transfers => r.validator_signatures = transfers[t].validator_signatures
    BY DEF Transfer
  <2>3. t \in DOMAIN transfers => Once(r.validator_signatures)
    BY <2>2 DEF OneEach
  <2> HIDE DEF r, t
  <2> QED BY <1>3, <2>1, <2>3
<1>7. \/ UNCHANGED transfers
      \/ \E x : transfers' = Append(transfers, x) /\ x.validator_signatures = <<>>
      \/ \E t \in DOMAIN transfers, x \in Signature : AddValidatorSignature(t, x)
      \/ \E c \in Caller : Record(c)
      \/ \E m \in Monitor : WriteConfirmations(m)
  <2>1. \A v \in FullFrom \cup ShortFrom, b \in BOOLEAN :
          [validator |-> v, full |-> b] \in Signature
    BY Constants DEF Signature
  <2>2. ASSUME NEW to, NEW op, NEW s, NEW st, transfers' = Initiated(to, op, s, st)
        PROVE  \E x : transfers' = Append(transfers, x) /\ x.validator_signatures = <<>>
    <3>1. PICK x : x = [to_solana |-> to, for |-> op, signature |-> s, status |-> st,
                        validator_signatures |-> <<>>]
      OBVIOUS
    <3>2. transfers' = Append(transfers, x) /\ x.validator_signatures = <<>>
      BY <2>2, <3>1 DEF Initiated
    <3> QED BY <3>2
  <2> QED BY <2>1, <2>2 DEF Next, CallStep, Burn, InitiateFromSolana, Request, Progress,
         InitiateToSolana, SubmitOperation, Elapse, ExecuteMint, Poll, Check, Send,
         UpdateConfirmations, Answer, vars
<1> QED BY <1>1, <1>2, <1>4, <1>5, <1>6, <1>7

LEMMA SafeAlways == Spec => [](Safe /\ OneEach)
<1>1. Init => OneEach
  BY DEF Init, OneEach
<1> QED BY <1>1, SafeInit, SafeStep, OneEachStep, PTL DEF Spec

LEMMA SafeIsTyped == Safe => TypeOK
<1> SUFFICES ASSUME Safe PROVE TypeOK
  OBVIOUS
<1>1. /\ transfers \in Seq(Transfer) /\ ledger \in Seq(Tx)
      /\ call \in [Caller -> Call] /\ watch \in [Monitor -> Look]
  BY DEF Safe, Types
<1> DEFINE L == [mints : 0 .. Len(transfers), confirmations : Gone .. MinConfirmations]
<1>2. \A s \in DOMAIN ledger : ledger[s] \in L
  <2> SUFFICES ASSUME NEW s \in DOMAIN ledger PROVE ledger[s] \in L
    OBVIOUS
  <2>1. ledger[s] \in Tx /\ ledger[s].mints \in 0 .. Len(transfers)
    BY <1>1 DEF Safe, Minted
  <2> QED BY <2>1 DEF Tx
<1> HIDE DEF L
<1>3. ledger \in Seq(L)
  <2>1. Len(ledger) \in Nat /\ ledger \in [1 .. Len(ledger) -> L]
    BY <1>1, <1>2
  <2> QED BY <2>1
<1>4. call \in [Caller -> [step : Step, transfer : 0 .. Len(transfers), late : BOOLEAN,
                           signature : 0 .. Len(ledger)]]
  BY <1>1 DEF Safe, Holding, Call
<1>5. watch \in [Monitor -> [step : {"off", "ask", "write"}, transfer : 0 .. Len(transfers),
                             signature : 0 .. Len(ledger), seen : Gone .. MinConfirmations]]
  BY <1>1 DEF Safe, Looking, Look
<1>6. \A m \in Monitor : watch[m].step = "write" => watch[m].seen # Gone
  BY DEF Safe, Looking
<1> QED BY <1>1, <1>3, <1>4, <1>5, <1>6 DEF TypeOK, L

\* Every variable keeps its type and no reference to a transfer or to a
\* transaction dangles, for any number of callers, monitors and validators.
THEOREM TypeCorrect == Spec => []TypeOK
BY SafeAlways, SafeIsTyped, PTL

\* execute_mint never mints without the quorum, whatever happens to the transfer
\* between the check on its clone and the transaction.
THEOREM MintHasQuorum == Spec => []QuorumBehindMint
<1>1. Safe => QuorumBehindMint
  BY DEF Safe, Minted, QuorumBehindMint
<1> QED BY <1>1, SafeAlways, PTL

\* A transfer update_confirmations completed has a final transaction of its own.
THEOREM CompletedIsFinal == Spec => []CompletedWasFinal
<1>1. Safe => CompletedWasFinal
  BY DEF Safe, Sound, CompletedWasFinal
<1> QED BY <1>1, SafeAlways, PTL

\* submit_operation returns a transaction that mints for the operation it was
\* called for.
THEOREM ReturnsItsMint == Spec => []ReturnsOwnMint
<1>1. Safe => ReturnsOwnMint
  BY DEF Safe, Holding, ReturnsOwnMint, Caller
<1> QED BY <1>1, SafeAlways, PTL
=============================================================================

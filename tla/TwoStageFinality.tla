--------------------------- MODULE TwoStageFinality ---------------------------
(***************************************************************************)
(* TwoStageFinality with its ChallengeManager and AttackDetector           *)
(* (crates/dchat-blockchain/src/hardened_consensus/two_stage_finality.rs). *)
(* Blocks gather relay (PoRW) and staker (TSC) votes and advance from      *)
(* Pending through Local, Continental and Global to Deep; challenges hold  *)
(* them back, roll them back when nobody answers in time, and escalate the *)
(* thresholds.  Every map has a lock of its own: submit_challenge takes    *)
(* them one after the other, and tick reads the escalation level before it *)
(* takes the lock of the statuses.  The challenge manager is private and   *)
(* the tracker forwards neither submit_response nor resolve_challenge, so  *)
(* a challenge stays pending until its deadline.                           *)
(*                                                                         *)
(* A map is a function to sets of at most one value.  Timestamps are kept  *)
(* as ages, capped where no comparison tells them apart.  Evidence and     *)
(* vote counts are left out; so are the stage timestamps other than        *)
(* Global's, which nothing reads, and the hashes: hash_index never drops   *)
(* one, so a call by hash may reach any number that was registered.        *)
(***************************************************************************)
EXTENDS Integers, Sequences, FiniteSets, Functions, SequencesExt

CONSTANTS
  Block,               \* block numbers
  Challenger,          \* tasks that call submit_challenge
  CheckpointInterval,  \* TSC_CHECKPOINT_INTERVAL
  Window,              \* FINALITY_CHALLENGE_WINDOW_SECS: challenges, responses, scores
  MaxPending,          \* MAX_PENDING_FINALITY
  PorwWeights, TscPowers, \* what a vote may weigh, in basis points
  Scores,              \* scores of the challenge types: 200, 500 or 1000
  Upgrades,            \* stages upgrade_finality is called with
  MaxRegistrations, MaxChallenges, MaxUpgrades \* bounds: calls of each kind

ASSUME FinalityAssumption ==
  /\ Block \subseteq Nat \ {0} /\ IsFiniteSet(Block)   \* they are u64
  /\ CheckpointInterval \in Nat \ {0} /\ Window \in Nat \ {0}
  /\ PorwWeights \subseteq Nat /\ TscPowers \subseteq Nat /\ Scores \subseteq Nat
  /\ Upgrades \subseteq 0 .. 4

Pending == 0
Local == 1
Continental == 2
Global == 3
Deep == 4

(* The escalation presets, by level.                                       *)
Level == 0 .. 4
PorwThreshold == <<6667, 7000, 7500, 8000, 9000>>
TscThreshold  == <<5100, 5500, 6000, 6667, 7500>>
WindowTenths  == <<10, 15, 20, 30, 50>>   \* challenge_window_multiplier
ScoreThreshold == <<100, 500, 2000, 5000>>

Porw(l)       == PorwThreshold[l + 1]
Tsc(l)        == TscThreshold[l + 1]
WindowAt(l)   == (Window * WindowTenths[l + 1]) \div 10
TscForAll(l)  == l >= 2

VARIABLES
  statuses, finalized, lastFinalized,
  level, scores,    \* the attack detector: its level, and <<age, score>> reported
  challenges,       \* the pending challenges: block, registration, time left
  calls,            \* submit_challenge calls
  ticking,          \* tick calls that have read the level, at most one
  registrations,    \* history: how many registrations there were
  filed, upgrades   \* history: challenges submitted and stages set, bounds

vars == <<statuses, finalized, lastFinalized, level, scores, challenges, calls,
          ticking, registrations, filed, upgrades>>

\* History: nth, which registration this is; invalid, a challenge against it
\* expired without a response; asserted, the stage upgrade_finality set last,
\* unless the block was rolled back since.
Status == [stage : 0 .. 4, porw : Nat, tsc : Nat, sinceGlobal : Int,
           challenged : BOOLEAN, nth : Nat, invalid : BOOLEAN, asserted : 0 .. 4]

Idle == [step |-> "idle", block |-> 0, nth |-> 0, score |-> 0]

Init ==
  /\ statuses = [b \in Block |-> {}]
  /\ finalized = <<>> /\ lastFinalized = 0
  /\ level = 0 /\ scores = <<>>
  /\ challenges = {}
  /\ calls = [c \in Challenger |-> Idle]
  /\ ticking = {}
  /\ registrations = 0 /\ filed = 0 /\ upgrades = 0

Tracked == {b \in Block : statuses[b] # {}}
IsCheckpoint(b) == b % CheckpointInterval = 0

\* register_block: a number that is already there is replaced.
RegisterBlock(b) ==
  /\ Cardinality(Tracked) < MaxPending /\ registrations < MaxRegistrations
  /\ statuses' = [statuses EXCEPT ![b] =
       {[stage |-> Pending, porw |-> 0, tsc |-> 0, sinceGlobal |-> -1,
         challenged |-> FALSE, nth |-> registrations + 1, invalid |-> FALSE,
         asserted |-> Pending]}]
  /\ registrations' = registrations + 1
  /\ UNCHANGED <<finalized, lastFinalized, level, scores, challenges, calls, ticking,
                 filed, upgrades>>

-----------------------------------------------------------------------------
(* Advancing.                                                              *)

\* Slip: a Global block waits for the window, challenged or not.
MayAdvanceChallengedSlip(b, s, l) ==
  \/ s.stage = Pending /\ s.porw >= Porw(l) \div 2
  \/ s.stage = Local /\ s.porw >= Porw(l)
  \/ s.stage = Continental /\ (IsCheckpoint(b) \/ TscForAll(l) => s.tsc >= Tsc(l))
  \/ s.stage = Global /\ s.sinceGlobal >= WindowAt(l)

\* Slip: a Deep block is not left alone.
MayAdvanceDeepSlip(b, s, l) ==
  \/ s.stage = Pending /\ s.porw >= Porw(l) \div 2
  \/ s.stage = Local /\ s.porw >= Porw(l)
  \/ s.stage = Continental /\ (IsCheckpoint(b) \/ TscForAll(l) => s.tsc >= Tsc(l))
  \/ s.stage >= Global /\ s.sinceGlobal >= WindowAt(l) /\ ~s.challenged

\* Slip: only the presets that want it everywhere ask for the TSC quorum.
MayAdvanceCheckpointSlip(b, s, l) ==
  \/ s.stage = Pending /\ s.porw >= Porw(l) \div 2
  \/ s.stage = Local /\ s.porw >= Porw(l)
  \/ s.stage = Continental /\ (TscForAll(l) => s.tsc >= Tsc(l))
  \/ s.stage = Global /\ s.sinceGlobal >= WindowAt(l) /\ ~s.challenged

\* try_advance: what each stage waits for.  Without a timestamp for Global the
\* window starts anew each time.
MayAdvance(b, s, l) ==
  \/ s.stage = Pending /\ s.porw >= Porw(l) \div 2
  \/ s.stage = Local /\ s.porw >= Porw(l)
  \/ s.stage = Continental /\ (IsCheckpoint(b) \/ TscForAll(l) => s.tsc >= Tsc(l))
  \/ s.stage = Global /\ s.sinceGlobal >= WindowAt(l) /\ ~s.challenged

TryAdvance(b, s, l) ==
  IF MayAdvance(b, s, l)
  THEN [s EXCEPT !.stage = @ + 1,
                 !.sinceGlobal = IF s.stage + 1 = Global THEN 0 ELSE @]
  ELSE s

\* Weight beyond the highest threshold makes no difference.
Capped(weight, top) == IF weight < top THEN weight ELSE top

\* add_porw_vote and add_tsc_vote advance the block by at most one stage; a
\* block that becomes Deep here is not entered in finalized.
Vote(b) ==
  /\ \E s \in statuses[b] :
       \/ \E w \in PorwWeights : statuses' = [statuses EXCEPT ![b] =
            {TryAdvance(b, [s EXCEPT !.porw = Capped(@ + w, Porw(4))], level)}]
       \/ \E w \in TscPowers : statuses' = [statuses EXCEPT ![b] =
            {TryAdvance(b, [s EXCEPT !.tsc = Capped(@ + w, Tsc(4))], level)}]
  /\ UNCHANGED <<finalized, lastFinalized, level, scores, challenges, calls, ticking,
                 registrations, filed, upgrades>>

\* upgrade_finality sets the stage, whatever it was and whatever the votes, the
\* challenges and the timestamps say.  Between its two locks the number may be
\* registered anew: it then sets the stage of the new registration.
UpgradeFinality(b, stage) ==
  /\ upgrades < MaxUpgrades /\ upgrades' = upgrades + 1
  /\ \E s \in statuses[b] :
       statuses' = [statuses EXCEPT ![b] = {[s EXCEPT !.stage = stage, !.asserted = stage]}]
  /\ UNCHANGED <<finalized, lastFinalized, level, scores, challenges, calls, ticking,
                 registrations, filed>>

Advanced(b, l) == {TryAdvance(b, s, l) : s \in statuses[b]}
NowDeep(l) == {b \in Block : \E s \in statuses[b] :
                 s.stage = Global /\ MayAdvance(b, s, l)}

\* tick reads the preset, then waits for the lock.
TickRead ==
  /\ ticking = {} /\ ticking' = {level}
  /\ UNCHANGED <<statuses, finalized, lastFinalized, level, scores, challenges, calls,
                 registrations, filed, upgrades>>

\* Slip: the mark is taken off the block that is rolled back.
RolledBackSlip(s, nths) ==
  [s EXCEPT !.stage = Pending, !.challenged = FALSE, !.asserted = Pending,
            !.invalid = @ \/ s.nth \in nths]

\* A block whose challenge expired goes back to Pending, whatever its stage
\* and whichever registration was challenged.
RolledBack(s, nths) ==
  [s EXCEPT !.stage = Pending, !.asserted = Pending, !.invalid = @ \/ s.nth \in nths]

\* fetch_max.
LastOf(order) == Max({lastFinalized} \cup Range(order))

\* tick, under the lock: every block advances by at most one stage, the new
\* Deep ones are entered in the map's order, and expired challenges are
\* collected and roll their blocks back.
TickRun ==
  \E l \in ticking :
    LET expired == {c \in challenges : c.left < 0}
        Nths(b) == {c.nth : c \in {x \in expired : x.block = b}}
    IN /\ statuses' = [b \in Block |->
            IF Nths(b) = {} THEN Advanced(b, l)
                            ELSE {RolledBack(s, Nths(b)) : s \in Advanced(b, l)}]
       /\ \E order \in SetToSeqs(NowDeep(l)) :
            /\ finalized' = finalized \o order
            /\ lastFinalized' = LastOf(order)
       /\ challenges' = challenges \ expired
       /\ ticking' = {}
       /\ UNCHANGED <<level, scores, calls, registrations, filed, upgrades>>

\* prune(keep_latest): the oldest entries go, with the blocks they name.
Prune(keep) ==
  /\ Len(finalized) > keep
  /\ LET cutoff == Len(finalized) - keep
         gone   == Range(SubSeq(finalized, 1, cutoff)) IN
       /\ finalized' = SubSeq(finalized, cutoff + 1, Len(finalized))
       /\ statuses' = [b \in Block |-> IF b \in gone THEN {} ELSE statuses[b]]
  /\ UNCHANGED <<lastFinalized, level, scores, challenges, calls, ticking, registrations,
                 filed, upgrades>>

-----------------------------------------------------------------------------
(* submit_challenge, one step per lock.                                    *)

ReadBlock(c, b, k) ==
  /\ calls[c].step = "idle" /\ filed < MaxChallenges
  /\ \E s \in statuses[b] : calls' = [calls EXCEPT ![c] =
       [step |-> "register", block |-> b, nth |-> s.nth, score |-> k]]
  /\ filed' = filed + 1
  /\ UNCHANGED <<statuses, finalized, lastFinalized, level, scores, challenges, ticking,
                 registrations, upgrades>>

\* register_challenge, if the block is still there.
RegisterChallenge(c) ==
  /\ calls[c].step = "register"
  /\ statuses' = [statuses EXCEPT ![calls[c].block] =
       {[s EXCEPT !.challenged = TRUE] : s \in @}]
  /\ calls' = [calls EXCEPT ![c].step = "report"]
  /\ UNCHANGED <<finalized, lastFinalized, level, scores, challenges, ticking,
                 registrations, filed, upgrades>>

\* What is left when the old entries have been popped from the front.
Recent(reports) ==
  LET kept == {i \in 1 .. Len(reports) : reports[i][1] <= Window}
  IN  IF kept = {} THEN <<>> ELSE SubSeq(reports, Min(kept), Len(reports))

\* The sums of the first i scores, for every i.
Sums(reports) ==
  LET sum[i \in 0 .. Len(reports)] == IF i = 0 THEN 0 ELSE sum[i - 1] + reports[i][2]
  IN  sum
Total(reports) == Sums(reports)[Len(reports)]

LevelFor(total) == Cardinality({i \in 1 .. 4 : total >= ScoreThreshold[i]})

\* Slip: the level is computed before the report is added.
ReportAnomalySlip(c) ==
  /\ calls[c].step = "report"
  /\ scores' = Recent(Append(scores, <<0, calls[c].score>>))
  /\ level' = LevelFor(Total(scores))
  /\ calls' = [calls EXCEPT ![c].step = "submit"]
  /\ UNCHANGED <<statuses, finalized, lastFinalized, challenges, ticking, registrations,
                 filed, upgrades>>

\* report_anomaly: the level is that of the scores of the last window, and is
\* not looked at again until the next report.
ReportAnomaly(c) ==
  /\ calls[c].step = "report"
  /\ scores' = Recent(Append(scores, <<0, calls[c].score>>))
  /\ level' = LevelFor(Total(scores'))
  /\ calls' = [calls EXCEPT ![c].step = "submit"]
  /\ UNCHANGED <<statuses, finalized, lastFinalized, challenges, ticking, registrations,
                 filed, upgrades>>

\* The challenge manager takes the challenge, or finds the bond too low: the
\* block stays challenged and the level escalated all the same.
SubmitChallenge(c) ==
  /\ calls[c].step = "submit"
  /\ \/ UNCHANGED challenges
     \/ challenges' = challenges \cup
          {[block |-> calls[c].block, nth |-> calls[c].nth, left |-> Window]}
  /\ calls' = [calls EXCEPT ![c] = Idle]
  /\ UNCHANGED <<statuses, finalized, lastFinalized, level, scores, ticking,
                 registrations, filed, upgrades>>

-----------------------------------------------------------------------------
\* No window is longer than that of the highest level MaxChallenges can reach.
MaxAge == WindowAt(LevelFor(MaxChallenges * Max(Scores)))
Older(s) == [s EXCEPT !.sinceGlobal = IF @ \in 0 .. MaxAge - 1 THEN @ + 1 ELSE @]

\* A score that is out of the window is left out at once: it is dropped before
\* it is next looked at.
Clock ==
  /\ statuses' = [b \in Block |-> {Older(s) : s \in statuses[b]}]
  /\ challenges' = {[c EXCEPT !.left = IF @ >= 0 THEN @ - 1 ELSE @] : c \in challenges}
  /\ scores' = Recent([i \in DOMAIN scores |-> <<scores[i][1] + 1, scores[i][2]>>])
  /\ UNCHANGED <<finalized, lastFinalized, level, calls, ticking, registrations, filed,
                 upgrades>>

Next ==
  \/ \E b \in Block : RegisterBlock(b) \/ Vote(b)
  \/ \E b \in Block, stage \in Upgrades : UpgradeFinality(b, stage)
  \/ TickRead \/ TickRun
  \/ \E keep \in 0 .. 1 : Prune(keep)
  \/ \E c \in Challenger, b \in Block, k \in Scores : ReadBlock(c, b, k)
  \/ \E c \in Challenger : RegisterChallenge(c) \/ ReportAnomaly(c) \/ SubmitChallenge(c)
  \/ Clock

Spec == Init /\ [][Next]_vars

-----------------------------------------------------------------------------
(* Properties.                                                             *)

\* Every variable keeps its type.
TypeOK ==
  /\ statuses \in [Block -> SUBSET Status]
  /\ \A b \in Block : Cardinality(statuses[b]) <= 1
  /\ finalized \in Seq(Block) /\ lastFinalized \in Nat
  /\ level \in Level /\ scores \in Seq(Nat \X Nat)
  /\ challenges \subseteq [block : Block, nth : Nat, left : Int]
  /\ calls \in [Challenger -> [step : {"idle", "register", "report", "submit"},
                               block : Block \cup {0}, nth : Nat, score : Nat]]
  /\ ticking \subseteq Level
  /\ registrations \in Nat /\ filed \in Nat /\ upgrades \in Nat

\* No stage without its votes: through rollbacks, escalations and a tick that
\* works with the level of a moment ago, every stage a block reached beyond the
\* one upgrade_finality gave it is carried by its votes under the weakest
\* preset; a checkpoint that reached Global by itself has its TSC quorum, and a
\* block that became Deep by itself has waited out the challenge window.  The
\* stage upgrade_finality sets is taken on trust: the code checks nothing.
StageIsBacked ==
  \A b \in Block : \A s \in statuses[b] :
    /\ s.stage >= Local /\ s.asserted < Local => s.porw >= Porw(0) \div 2
    /\ s.stage >= Continental /\ s.asserted < Continental => s.porw >= Porw(0)
    /\ s.stage >= Global /\ s.asserted < Global /\ IsCheckpoint(b) => s.tsc >= Tsc(0)
    /\ s.stage = Deep /\ s.asserted < Deep => s.sinceGlobal >= WindowAt(0)

\* A block that a challenge invalidated never becomes Deep again by votes and
\* ticks, however many follow and from whatever stage upgrade_finality puts it
\* at, short of being registered anew or set to Deep outright.
InvalidNeverDeep ==
  \A b \in Block : \A s \in statuses[b] : s.invalid /\ s.stage = Deep => s.asserted = Deep

\* A challenged registration is held at Global: between the moment a challenge
\* against it is on record and its expiry no vote and no tick makes it Deep.
\* Only upgrade_finality does, which does not look at the challenge.
ChallengeHolds ==
  [][\A b \in Block : \A s \in statuses[b], t \in statuses'[b] :
       /\ s.stage # Deep /\ t.stage = Deep /\ t.asserted # Deep
       => \A c \in challenges : c.block = b => c.nth # s.nth]_vars

\* The level is at least the one the reports of the last window call for,
\* although it is only computed when something is reported.
EscalationCovers == level >= LevelFor(Total(scores))
===============================================================================

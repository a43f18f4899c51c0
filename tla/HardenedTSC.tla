----------------------------- MODULE HardenedTSC -----------------------------
(***************************************************************************)
(* HardenedTSC (crates/dchat-blockchain/src/hardened_consensus/            *)
(* integration.rs): staker votes per block hash, the finality tracker they *)
(* move (two_stage_finality.rs, by hash) and the checkpoints made from     *)
(* them.  The votes are in a ShardedState that offers get and insert only: *)
(* submit_vote changes a clone and writes it back, so that two votes can   *)
(* undo each other, and a partition that is full forgets the block used    *)
(* longest ago.  Requests to a partition are taken in order by its worker; *)
(* the answer to a get may time out, and then the vote is dropped and      *)
(* reported as taken.  track_block reads the number of tracked blocks      *)
(* under one lock, registers the block under a second and its hash under a *)
(* third; upgrade_finality looks the number up under one lock and sets the *)
(* stage under another.                                                    *)
(*                                                                         *)
(* Signatures are queued for a verifier whose answer is not awaited, so    *)
(* they do not appear; neither does the rejecting power, which nothing     *)
(* reads, nor the tracker's own advancing and pruning, which this engine   *)
(* never asks for.                                                         *)
(***************************************************************************)
EXTENDS Integers, Sequences, FiniteSets, FiniteSetsExt

CONSTANTS
  Hash, Staker,
  Power,          \* a staker's power in the snapshot
  Shard,          \* the partition a hash is kept in
  Capacity,       \* max_items_per_partition
  Heights,        \* heights checkpoints are asked for
  CheckpointInterval,
  Voter,          \* tasks that call submit_vote
  Initializer,    \* tasks that call initialize_block
  Creator,        \* tasks that call create_checkpoint
  MaxPending,     \* the tracker's max_pending
  MaxVotes, MaxBlocks \* bounds: votes submitted, blocks initialized

ASSUME TSCAssumption ==
  /\ IsFiniteSet(Staker) /\ Power \in [Staker -> Nat]
  /\ Heights \subseteq Nat /\ CheckpointInterval \in Nat \ {0}
  /\ Capacity \in Nat \ {0} /\ MaxPending \in Nat

Pending == 0
Global == 3
Deep == 4
Untracked == 0

VARIABLES
  votes,        \* active_votes
  older,        \* the access order: <<g, h>>, g was used before h
  stages,       \* the tracker's statuses: stage by number
  index,        \* the tracker's hash_index
  checkpoints,  \* checkpoints by height
  voting,       \* submit_vote calls
  tracking,     \* initialize_block calls
  creating,     \* create_checkpoint calls that found the quorum
  quorum,       \* history: hashes for which the quorum was once computed
  contended,    \* history: hashes whose initialize_block overlapped another
  submitted, initialized \* history: what the bounds are about

shards  == <<votes, older>>
tracker == <<stages, index>>
bounds  == <<submitted, initialized>>
vars == <<shards, tracker, checkpoints, voting, tracking, creating, quorum, contended, bounds>>

\* The list of the votes themselves is pushed to and never read.
Votes == [approve_power : Nat, quorum_reached : BOOLEAN]
NoVotes == [approve_power |-> 0, quorum_reached |-> FALSE]

Total == FoldSet(LAMBDA s, sum : Power[s] + sum, 0, Staker)

Init ==
  /\ votes = [h \in Hash |-> {}] /\ older = {}
  /\ stages = <<>>
  /\ index = [h \in Hash |-> Untracked]
  /\ checkpoints = {}
  /\ voting = [v \in Voter |-> {}]
  /\ tracking = [i \in Initializer |-> {}]
  /\ creating = [k \in Creator |-> {}]
  /\ quorum = {} /\ contended = {}
  /\ submitted = 0 /\ initialized = 0

-----------------------------------------------------------------------------
(* The partitions of the ShardedState.                                     *)

Stored == {h \in Hash : votes[h] # {}}
Beside(h) == {g \in Stored : Shard[g] = Shard[h]}

\* evict_lru, in insert: a partition that is full makes room before it looks
\* whether the key is there.
Evicted(h) ==
  IF Cardinality(Beside(h)) < Capacity THEN {}
  ELSE {g \in Beside(h) : \A f \in Beside(h) \ {g} : <<g, f>> \in older}

\* touch_key: h becomes the one used last, after the others that are kept.
Touched(h, kept) == {p \in older : p[1] \in kept \ {h} /\ p[2] \in kept \ {h}}
                      \cup (kept \ {h}) \X {h}

Insert(h, x) ==
  LET gone == Evicted(h) IN
    /\ votes' = [g \in Hash |-> IF g = h THEN {x} ELSE IF g \in gone THEN {} ELSE votes[g]]
    /\ older' = Touched(h, Stored \ gone)

\* A get moves the block it finds to the end, even if the answer comes too late.
Get(h) == older' = IF h \in Stored THEN Touched(h, Stored) ELSE older

-----------------------------------------------------------------------------
(* initialize_block and track_block.                                       *)

InFlight == UNION {tracking[i] : i \in Initializer}

InitializeBlock(i, h) ==
  /\ tracking[i] = {} /\ initialized < MaxBlocks
  /\ Insert(h, NoVotes)
  /\ tracking' = [tracking EXCEPT ![i] = {[step |-> "number", hash |-> h, number |-> 0]}]
  /\ contended' = IF InFlight = {} THEN contended
                  ELSE contended \cup {h} \cup {c.hash : c \in InFlight}
  /\ initialized' = initialized + 1
  /\ UNCHANGED <<tracker, checkpoints, voting, creating, quorum, submitted>>

\* Slip: only the blocks that are still pending are counted.
NextNumberSlip == Cardinality({n \in DOMAIN stages : stages[n] = Pending}) + 1

NextNumber == Cardinality(DOMAIN stages) + 1

ReadLength(i) ==
  \E c \in tracking[i] :
    /\ c.step = "number"
    /\ tracking' = [tracking EXCEPT ![i] = {[c EXCEPT !.step = "register", !.number = NextNumber]}]
    /\ UNCHANGED <<shards, tracker, checkpoints, voting, creating, quorum, contended, bounds>>

\* register_block: a number that is already there is replaced; that the tracker
\* is full is not reported.
Register(i) ==
  \E c \in tracking[i] :
    /\ c.step = "register"
    /\ \/ /\ Cardinality(DOMAIN stages) >= MaxPending
          /\ tracking' = [tracking EXCEPT ![i] = {}]
          /\ UNCHANGED stages
       \/ /\ Cardinality(DOMAIN stages) < MaxPending
          /\ stages' = [n \in DOMAIN stages \cup {c.number} |->
                          IF n = c.number THEN Pending ELSE stages[n]]
          /\ tracking' = [tracking EXCEPT ![i] = {[c EXCEPT !.step = "index"]}]
    /\ UNCHANGED <<shards, index, checkpoints, voting, creating, quorum, contended, bounds>>

Index(i) ==
  \E c \in tracking[i] :
    /\ c.step = "index"
    /\ index' = [index EXCEPT ![c.hash] = c.number]
    /\ tracking' = [tracking EXCEPT ![i] = {}]
    /\ UNCHANGED <<shards, stages, checkpoints, voting, creating, quorum, contended, bounds>>

-----------------------------------------------------------------------------
(* upgrade_finality, by a call c that goes on at the step given.           *)

\* Under the first lock the number is looked up.
LookedUp(c, next) == [c EXCEPT !.step = IF index[c.hash] = Untracked THEN next ELSE "raise",
                               !.number = index[c.hash]]

\* Slip: the stage goes up by one.
RaisedSlip(n, stage) == [stages EXCEPT ![n] = @ + 1]

\* Under the second the stage is set, whatever it is and whichever block has
\* the number by now.
Raised(n, stage) == [stages EXCEPT ![n] = stage]

\* get_finality_stage.
Finality(h) == IF index[h] \in DOMAIN stages THEN stages[index[h]] ELSE Pending

-----------------------------------------------------------------------------
(* submit_vote.                                                            *)

\* 51% of the stake power in the snapshot.
HasQuorum(power) == Total > 0 /\ (power * 10000) \div Total >= 5100

\* The vote is counted; no look is taken at whether the staker voted before.
Counted(x, s, approve) ==
  LET power == x.approve_power + (IF approve THEN Power[s] ELSE 0)
  IN  [approve_power |-> power, quorum_reached |-> x.quorum_reached \/ HasQuorum(power)]

\* The votes are cloned and the vote counted in the clone: with the quorum the
\* finality is raised to Global, before the votes are back.  Or there are no
\* votes for the block, or the answer does not come in time.
ReadVotes(v, h, s, approve) ==
  /\ voting[v] = {} /\ submitted < MaxVotes
  /\ Get(h) /\ UNCHANGED votes
  /\ \/ UNCHANGED <<voting, quorum>>
     \/ \E x \in votes[h] :
          LET y == Counted(x, s, approve)
              reached == HasQuorum(y.approve_power) IN
            /\ voting' = [voting EXCEPT ![v] = {[step |-> IF reached THEN "look" ELSE "write",
                                                  hash |-> h, number |-> 0, votes |-> y]}]
            /\ quorum' = IF reached THEN quorum \cup {h} ELSE quorum
  /\ submitted' = submitted + 1
  /\ UNCHANGED <<tracker, checkpoints, tracking, creating, contended, initialized>>

VoteLooksUp(v) ==
  \E c \in voting[v] :
    /\ c.step = "look"
    /\ voting' = [voting EXCEPT ![v] = {LookedUp(c, "write")}]
    /\ UNCHANGED <<shards, tracker, checkpoints, tracking, creating, quorum, contended, bounds>>

VoteRaises(v) ==
  \E c \in voting[v] :
    /\ c.step = "raise"
    /\ stages' = Raised(c.number, Global)
    /\ voting' = [voting EXCEPT ![v] = {[c EXCEPT !.step = "write"]}]
    /\ UNCHANGED <<shards, index, checkpoints, tracking, creating, quorum, contended, bounds>>

\* The clone replaces whatever is there by now.
WriteBack(v) ==
  \E c \in voting[v] :
    /\ c.step = "write"
    /\ Insert(c.hash, c.votes)
    /\ voting' = [voting EXCEPT ![v] = {}]
    /\ UNCHANGED <<tracker, checkpoints, tracking, creating, quorum, contended, bounds>>

-----------------------------------------------------------------------------
(* create_checkpoint.                                                      *)

IsCheckpointBlock(n) == n % CheckpointInterval = 0

\* Slip: a checkpoint is made of whatever votes there are.
MayCheckpointSlip(h, n) == votes[h] # {} /\ IsCheckpointBlock(n)

\* The height is the caller's: nothing ties it to the block.
MayCheckpoint(h, n) == (\E x \in votes[h] : x.quorum_reached) /\ IsCheckpointBlock(n)

ReadQuorum(k, h, n) ==
  /\ creating[k] = {}
  /\ Get(h) /\ UNCHANGED votes
  /\ creating' = IF MayCheckpoint(h, n)
                 THEN [creating EXCEPT ![k] =
                         {[step |-> "insert", hash |-> h, number |-> 0, height |-> n]}]
                 ELSE creating
  /\ UNCHANGED <<tracker, checkpoints, voting, tracking, quorum, contended, bounds>>

\* maybe_create_checkpoint: a checkpoint at that height is replaced, whatever has
\* become of the block's votes by now.
CreateCheckpoint(k) ==
  \E c \in creating[k] :
    /\ c.step = "insert"
    /\ checkpoints' = {d \in checkpoints : d.height # c.height}
                        \cup {[height |-> c.height, hash |-> c.hash]}
    /\ creating' = [creating EXCEPT ![k] = {[c EXCEPT !.step = "look"]}]
    /\ UNCHANGED <<shards, tracker, voting, tracking, quorum, contended, bounds>>

CheckpointLooksUp(k) ==
  \E c \in creating[k] :
    /\ c.step = "look"
    /\ creating' = [creating EXCEPT ![k] = {d \in {LookedUp(c, "done")} : d.step = "raise"}]
    /\ UNCHANGED <<shards, tracker, checkpoints, voting, tracking, quorum, contended, bounds>>

CheckpointRaises(k) ==
  \E c \in creating[k] :
    /\ c.step = "raise"
    /\ stages' = Raised(c.number, Deep)
    /\ creating' = [creating EXCEPT ![k] = {}]
    /\ UNCHANGED <<shards, index, checkpoints, voting, tracking, quorum, contended, bounds>>

Next ==
  \/ \E i \in Initializer, h \in Hash : InitializeBlock(i, h)
  \/ \E i \in Initializer : ReadLength(i) \/ Register(i) \/ Index(i)
  \/ \E v \in Voter, h \in Hash, s \in Staker, a \in BOOLEAN : ReadVotes(v, h, s, a)
  \/ \E v \in Voter : VoteLooksUp(v) \/ VoteRaises(v) \/ WriteBack(v)
  \/ \E k \in Creator, h \in Hash, n \in Heights : ReadQuorum(k, h, n)
  \/ \E k \in Creator : CreateCheckpoint(k) \/ CheckpointLooksUp(k) \/ CheckpointRaises(k)

Spec == Init /\ [][Next]_vars

-----------------------------------------------------------------------------
(* Properties.                                                             *)

\* Every variable keeps its type; the numbers handed out by concurrent
\* track_block calls leave no gap, so that the next number is never one that is
\* tracked already, and no hash is indexed under a number that is not tracked.
TypeOK ==
  /\ votes \in [Hash -> SUBSET Votes] /\ older \subseteq Hash \X Hash
  /\ \A h \in Hash : Cardinality(votes[h]) <= 1
  /\ stages \in Seq({Pending, Global, Deep})
  /\ index \in [Hash -> 0 .. Len(stages)]
  /\ checkpoints \subseteq [height : Heights, hash : Hash]
  /\ \A c, d \in checkpoints : c.height = d.height => c = d
  /\ voting \in [Voter -> SUBSET [step : {"look", "raise", "write"}, hash : Hash,
                                  number : 0 .. Len(stages), votes : Votes]]
  /\ tracking \in [Initializer -> SUBSET [step : {"number", "register", "index"},
                                          hash : Hash, number : 0 .. Len(stages) + 1]]
  /\ creating \in [Creator -> SUBSET [step : {"insert", "look", "raise"}, hash : Hash,
                                      number : 0 .. Len(stages), height : Heights]]
  /\ quorum \subseteq Hash /\ contended \subseteq Hash
  /\ submitted \in Nat /\ initialized \in Nat

\* The number race of track_block is confined to the calls that race: a block
\* whose initialize_block never overlapped another is reported Global or Deep on
\* its own votes only, whatever numbers the others share, with a full tracker,
\* blocks initialized again, and stages set after the number was looked up.
FinalityIsOwn == \A h \in Hash \ contended : Finality(h) >= Global => h \in quorum

\* A checkpoint stands for a quorum of the block it names, even if a vote written
\* back later has undone quorum_reached since, or the block's votes were evicted.
\* The quorum is the code's own sum, which counts a staker as often as it votes,
\* and the height is whatever the caller said.
CheckpointHadQuorum == \A c \in checkpoints : c.hash \in quorum
===============================================================================

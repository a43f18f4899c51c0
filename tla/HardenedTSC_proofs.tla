------------------------- MODULE HardenedTSC_proofs -------------------------
(***************************************************************************)
(* Proofs about HardenedTSC, for any number of tasks in each of its calls: *)
(* its types, that a checkpoint stands for a quorum, and that the finality *)
(* of a block whose initialization overlapped no other is its own.         *)
(***************************************************************************)
EXTENDS HardenedTSC, FiniteSetTheorems, SequenceTheorems, TLAPS

Voting   == [step : {"look", "raise", "write"}, hash : Hash, number : Nat, votes : Votes]
Tracking == [step : {"number", "register", "index"}, hash : Hash, number : Nat]
Creating == [step : {"insert", "look", "raise"}, hash : Hash, number : Nat, height : Heights]
Stage    == {Pending, Global, Deep}

\* The types of what is not a block number, with a block's only votes named.
Types ==
  /\ votes \in [Hash -> SUBSET Votes] /\ older \subseteq Hash \X Hash
  /\ \A h \in Hash : votes[h] = {} \/ \E x : votes[h] = {x}
  /\ index \in [Hash -> Nat]
  /\ checkpoints \subseteq [height : Heights, hash : Hash]
  /\ \A c, d \in checkpoints : c.height = d.height => c = d
  /\ voting \in [Voter -> SUBSET Voting]
  /\ tracking \in [Initializer -> SUBSET Tracking]
  /\ creating \in [Creator -> SUBSET Creating]
  /\ quorum \subseteq Hash /\ contended \subseteq Hash
  /\ submitted \in Nat /\ initialized \in Nat

LEMMA Constants ==
  /\ IsFiniteSet(Staker) /\ Power \in [Staker -> Nat] /\ Heights \subseteq Nat
BY TSCAssumption

LEMMA CountedTyped ==
  ASSUME NEW x \in Votes, NEW s \in Staker, NEW a \in BOOLEAN
  PROVE  /\ Counted(x, s, a) \in Votes
         /\ Counted(x, s, a).quorum_reached =>
              x.quorum_reached \/ HasQuorum(Counted(x, s, a).approve_power)
<1>1. PICK p : p = x.approve_power + (IF a THEN Power[s] ELSE 0)
  OBVIOUS
<1>2. p \in Nat
  <2>1. Power[s] \in Nat /\ x.approve_power \in Nat
    BY Constants DEF Votes
  <2> QED BY <1>1, <2>1
<1>3. PICK q \in BOOLEAN : q = (x.quorum_reached \/ HasQuorum(p))
  BY Zenon
<1>4. Counted(x, s, a) = [approve_power |-> p, quorum_reached |-> q]
  BY <1>1, <1>3 DEF Counted
<1>5. Counted(x, s, a) \in Votes
  BY <1>2, <1>4 DEF Votes
<1>6. Counted(x, s, a).approve_power = p /\ Counted(x, s, a).quorum_reached = q
  BY <1>4
<1> QED BY <1>3, <1>5, <1>6

LEMMA TouchedTyped ==
  ASSUME Types, NEW h \in Hash, NEW kept \in SUBSET Hash
  PROVE  Touched(h, kept) \subseteq Hash \X Hash
BY DEF Types, Touched

LEMMA GetTyped ==
  ASSUME Types, NEW h \in Hash, Get(h)
  PROVE  older' \subseteq Hash \X Hash
<1>1. Stored \in SUBSET Hash
  BY DEF Stored
<1>2. Touched(h, Stored) \subseteq Hash \X Hash
  BY <1>1, TouchedTyped
<1> QED BY <1>2 DEF Get, Types

\* An insert leaves the other blocks their votes, or none.
LEMMA InsertTyped ==
  ASSUME Types, NEW h \in Hash, NEW x \in Votes, Insert(h, x)
  PROVE  /\ votes' \in [Hash -> SUBSET Votes] /\ older' \subseteq Hash \X Hash
         /\ \A g \in Hash : votes'[g] = {} \/ \E y : votes'[g] = {y}
         /\ \A g \in Hash : \A y \in votes'[g] : y \in votes[g] \/ (g = h /\ y = x)
<1>1. PICK gone : /\ votes' = [g \in Hash |-> IF g = h THEN {x}
                                 ELSE IF g \in gone THEN {} ELSE votes[g]]
                  /\ older' = Touched(h, Stored \ gone)
  BY DEF Insert
<1>2. Stored \ gone \in SUBSET Hash
  BY DEF Stored
<1>3. older' \subseteq Hash \X Hash
  BY <1>1, <1>2, TouchedTyped
<1>4. \A g \in Hash : (votes'[g] = {x} /\ g = h) \/ votes'[g] = {} \/ votes'[g] = votes[g]
  BY <1>1
<1>5. votes' \in [Hash -> SUBSET Votes]
  <2>1. \A g \in Hash : (IF g = h THEN {x} ELSE IF g \in gone THEN {} ELSE votes[g]) \in SUBSET Votes
    BY DEF Types
  <2> QED BY <1>1, <2>1
<1>6. \A g \in Hash : votes'[g] = {} \/ \E y : votes'[g] = {y}
  BY <1>4 DEF Types
<1> QED BY <1>3, <1>4, <1>5, <1>6

\* What upgrade_finality's first half leaves of a call.
LEMMA LookedUpTyped ==
  ASSUME NEW c, NEW next, NEW d, d = LookedUp(c, next), index \in [Hash -> Nat]
  PROVE  /\ c \in Voting /\ next = "write" =>
              d \in Voting /\ d.hash = c.hash /\ d.votes = c.votes /\ d.number = index[c.hash]
         /\ c \in Creating /\ d.step = "raise" =>
              d \in Creating /\ d.hash = c.hash /\ d.number = index[c.hash]
<1>1. PICK st : st = IF index[c.hash] = Untracked THEN next ELSE "raise"
  OBVIOUS
<1>2. PICK n : n = index[c.hash]
  OBVIOUS
<1>3. d = [c EXCEPT !.step = st, !.number = n]
  BY <1>1, <1>2 DEF LookedUp
<1>4. ASSUME c \in Voting, next = "write"
      PROVE  d \in Voting /\ d.hash = c.hash /\ d.votes = c.votes /\ d.number = index[c.hash]
  <2>1. n \in Nat /\ st \in {"look", "raise", "write"}
    BY <1>1, <1>2, <1>4 DEF Voting
  <2> QED BY <1>2, <1>3, <1>4, <2>1 DEF Voting
<1>5. ASSUME c \in Creating, d.step = "raise"
      PROVE  d \in Creating /\ d.hash = c.hash /\ d.number = index[c.hash]
  <2>1. n \in Nat
    BY <1>2, <1>5 DEF Creating
  <2>2. d.step = st
    BY <1>3, <1>5 DEF Creating
  <2>3. \A z \in {"insert", "look", "raise"} : [c EXCEPT !.step = z, !.number = n] \in Creating
    BY <1>5, <2>1 DEF Creating
  <2>4. d \in Creating
    BY <1>3, <1>5, <2>2, <2>3
  <2> QED BY <1>2, <1>3, <1>5, <2>1, <2>4 DEF Creating
<1> QED BY <1>4, <1>5

-----------------------------------------------------------------------------
LEMMA TypesStep ==
  ASSUME Types, NextNumber \in Nat, [Next]_vars
  PROVE  Types'
<1> USE DEF Types, shards, tracker, bounds
<1>1. ASSUME NEW i \in Initializer, NEW h \in Hash, InitializeBlock(i, h) PROVE Types'
  <2>1. NoVotes \in Votes
    BY DEF NoVotes, Votes
  <2>2. /\ votes' \in [Hash -> SUBSET Votes] /\ older' \subseteq Hash \X Hash
        /\ \A g \in Hash : votes'[g] = {} \/ \E y : votes'[g] = {y}
    BY <1>1, <2>1, InsertTyped DEF InitializeBlock
  <2>3. [step |-> "number", hash |-> h, number |-> 0] \in Tracking
    BY DEF Tracking
  <2>4. tracking' \in [Initializer -> SUBSET Tracking]
    BY <1>1, <2>3 DEF InitializeBlock
  <2>5. contended' \subseteq Hash
    <3>1. \A c \in InFlight : c.hash \in Hash
      BY DEF InFlight, Tracking
    <3> QED BY <1>1, <3>1 DEF InitializeBlock
  <2>6. /\ initialized' \in Nat
        /\ UNCHANGED <<stages, index, checkpoints, voting, creating, quorum, submitted>>
    BY <1>1 DEF InitializeBlock
  <2> QED BY <2>2, <2>4, <2>5, <2>6
<1>2. ASSUME NEW i \in Initializer, ReadLength(i) \/ Register(i) \/ Index(i)
      PROVE  tracking' \in [Initializer -> SUBSET Tracking] /\ index' \in [Hash -> Nat]
  <2>1. CASE ReadLength(i)
    <3>1. PICK c \in tracking[i] :
            tracking' = [tracking EXCEPT ![i] = {[c EXCEPT !.step = "register", !.number = NextNumber]}]
      BY <2>1 DEF ReadLength
    <3>2. c \in Tracking
      OBVIOUS
    <3>3. \A n \in Nat : [c EXCEPT !.step = "register", !.number = n] \in Tracking
      BY <3>2 DEF Tracking
    <3>4. tracking' \in [Initializer -> SUBSET Tracking]
      BY <3>1, <3>3
    <3> QED BY <2>1, <3>4 DEF ReadLength
  <2>2. CASE Register(i)
    <3>1. PICK c \in tracking[i] :
            \/ tracking' = [tracking EXCEPT ![i] = {}]
            \/ tracking' = [tracking EXCEPT ![i] = {[c EXCEPT !.step = "index"]}]
      BY <2>2 DEF Register
    <3>2. [c EXCEPT !.step = "index"] \in Tracking
      BY DEF Tracking
    <3> QED BY <2>2, <3>1, <3>2 DEF Register
  <2>3. CASE Index(i)
    BY <2>3 DEF Index, Tracking
  <2> QED BY <1>2, <2>1, <2>2, <2>3
<1>3. ASSUME NEW i \in Initializer, ReadLength(i) \/ Register(i) \/ Index(i) PROVE Types'
  <2>1. tracking' \in [Initializer -> SUBSET Tracking] /\ index' \in [Hash -> Nat]
    BY <1>2, <1>3
  <2>2. UNCHANGED <<votes, older, checkpoints, voting, creating, quorum, contended, bounds>>
    BY <1>3 DEF ReadLength, Register, Index
  <2> QED BY <2>1, <2>2
<1>5. ASSUME NEW v \in Voter, NEW h \in Hash, NEW s \in Staker, NEW a \in BOOLEAN,
             ReadVotes(v, h, s, a) PROVE Types'
  <2>1. ASSUME NEW x \in votes[h], NEW z \in {"look", "write"}
        PROVE  [step |-> z, hash |-> h, number |-> 0, votes |-> Counted(x, s, a)] \in Voting
    BY CountedTyped DEF Voting
  <2>2. /\ Get(h) /\ submitted' = submitted + 1
        /\ UNCHANGED <<votes, stages, index, checkpoints, tracking, creating, contended, initialized>>
    BY <1>5 DEF ReadVotes
  <2>3. voting' \in [Voter -> SUBSET Voting] /\ quorum' \subseteq Hash
    <3>1. CASE UNCHANGED <<voting, quorum>>
      BY <3>1
    <3>2. ASSUME NEW x \in votes[h], NEW z \in {"look", "write"}, voting' = [voting EXCEPT ![v] =
                   {[step |-> z, hash |-> h, number |-> 0, votes |-> Counted(x, s, a)]}]
          PROVE  voting' \in [Voter -> SUBSET Voting]
      <4>1. PICK c : c = [step |-> z, hash |-> h, number |-> 0, votes |-> Counted(x, s, a)]
        OBVIOUS
      <4>2. c \in Voting
        BY <2>1, <4>1
      <4> QED BY <3>2, <4>1, <4>2
    <3>3. ASSUME ~UNCHANGED <<voting, quorum>>
          PROVE  /\ \E x \in votes[h], z \in {"look", "write"} : voting' = [voting EXCEPT ![v] =
                      {[step |-> z, hash |-> h, number |-> 0, votes |-> Counted(x, s, a)]}]
                 /\ quorum' \subseteq Hash
      <4>1. PICK x \in votes[h] :
              /\ voting' = [voting EXCEPT ![v] =
                   {[step |-> IF HasQuorum(Counted(x, s, a).approve_power) THEN "look" ELSE "write",
                     hash |-> h, number |-> 0, votes |-> Counted(x, s, a)]}]
              /\ quorum' = IF HasQuorum(Counted(x, s, a).approve_power) THEN quorum \cup {h} ELSE quorum
        BY <1>5, <3>3 DEF ReadVotes
      <4> QED BY <4>1
    <3> QED BY <3>1, <3>2, <3>3
  <2>4. older' \subseteq Hash \X Hash
    BY <2>2, GetTyped
  <2>5. submitted' \in Nat
    BY <2>2
  <2>6. UNCHANGED <<votes, index, checkpoints, tracking, creating, contended, initialized>>
    BY <2>2
  <2> QED BY <2>3, <2>4, <2>5, <2>6
<1>6. ASSUME NEW v \in Voter, VoteLooksUp(v) PROVE Types'
  <2>1. PICK c \in voting[v] : voting' = [voting EXCEPT ![v] = {LookedUp(c, "write")}]
    BY <1>6 DEF VoteLooksUp
  <2>2. PICK d : d = LookedUp(c, "write")
    OBVIOUS
  <2>3. d \in Voting
    BY <2>2, LookedUpTyped
  <2>4. voting' \in [Voter -> SUBSET Voting]
    BY <2>1, <2>2, <2>3
  <2> QED BY <1>6, <2>4 DEF VoteLooksUp
<1>7. ASSUME NEW v \in Voter, VoteRaises(v) PROVE Types'
  <2>1. PICK c \in voting[v] : voting' = [voting EXCEPT ![v] = {[c EXCEPT !.step = "write"]}]
    BY <1>7 DEF VoteRaises
  <2>2. [c EXCEPT !.step = "write"] \in Voting
    BY DEF Voting
  <2>3. voting' \in [Voter -> SUBSET Voting]
    BY <2>1, <2>2
  <2> QED BY <1>7, <2>3 DEF VoteRaises
<1>8. ASSUME NEW v \in Voter, WriteBack(v) PROVE Types'
  <2>1. PICK c \in voting[v] : Insert(c.hash, c.votes) /\ voting' = [voting EXCEPT ![v] = {}]
    BY <1>8 DEF WriteBack
  <2>2. c.hash \in Hash /\ c.votes \in Votes
    BY DEF Voting
  <2>3. /\ votes' \in [Hash -> SUBSET Votes] /\ older' \subseteq Hash \X Hash
        /\ \A g \in Hash : votes'[g] = {} \/ \E y : votes'[g] = {y}
    BY <2>1, <2>2, InsertTyped
  <2>4. voting' \in [Voter -> SUBSET Voting]
    BY <2>1
  <2>5. UNCHANGED <<stages, index, checkpoints, tracking, creating, quorum, contended, bounds>>
    BY <1>8 DEF WriteBack
  <2> QED BY <2>3, <2>4, <2>5
<1>9. ASSUME NEW k \in Creator, NEW h \in Hash, NEW n \in Heights, ReadQuorum(k, h, n)
      PROVE  Types'
  <2>1. [step |-> "insert", hash |-> h, number |-> 0, height |-> n] \in Creating
    BY DEF Creating
  <2>2. creating' \in [Creator -> SUBSET Creating]
    BY <1>9, <2>1 DEF ReadQuorum
  <2>3. /\ Get(h)
        /\ UNCHANGED <<votes, stages, index, checkpoints, voting, tracking, quorum, contended, bounds>>
    BY <1>9 DEF ReadQuorum
  <2>4. older' \subseteq Hash \X Hash
    BY <2>3, GetTyped
  <2> QED BY <2>2, <2>3, <2>4
<1>10. ASSUME NEW k \in Creator, CreateCheckpoint(k) PROVE Types'
  <2>1. PICK c \in creating[k] :
          /\ checkpoints' = {d \in checkpoints : d.height # c.height}
                              \cup {[height |-> c.height, hash |-> c.hash]}
          /\ creating' = [creating EXCEPT ![k] = {[c EXCEPT !.step = "look"]}]
    BY <1>10 DEF CreateCheckpoint
  <2>2. [c EXCEPT !.step = "look"] \in Creating /\ c.hash \in Hash /\ c.height \in Heights
    BY DEF Creating
  <2>3. creating' \in [Creator -> SUBSET Creating]
    BY <2>1, <2>2
  <2>4. PICK e : e = [height |-> c.height, hash |-> c.hash]
    OBVIOUS
  <2>5. e \in [height : Heights, hash : Hash] /\ e.height = c.height
    BY <2>2, <2>4
  <2>6. \A d \in checkpoints' : d = e \/ (d \in checkpoints /\ d.height # e.height)
    BY <2>1, <2>4, <2>5
  <2>7. checkpoints' \subseteq [height : Heights, hash : Hash]
    BY <2>5, <2>6
  <2>8. \A c1, c2 \in checkpoints' : c1.height = c2.height => c1 = c2
    BY <2>6
  <2> QED BY <1>10, <2>3, <2>7, <2>8 DEF CreateCheckpoint
<1>11. ASSUME NEW k \in Creator, CheckpointLooksUp(k) PROVE Types'
  <2>1. PICK c \in creating[k] :
          creating' = [creating EXCEPT ![k] = {d \in {LookedUp(c, "done")} : d.step = "raise"}]
    BY <1>11 DEF CheckpointLooksUp
  <2>2. \A d \in {LookedUp(c, "done")} : d.step = "raise" => d \in Creating
    BY LookedUpTyped
  <2>3. creating' \in [Creator -> SUBSET Creating]
    BY <2>1, <2>2
  <2> QED BY <1>11, <2>3 DEF CheckpointLooksUp
<1>12. ASSUME NEW k \in Creator, CheckpointRaises(k) PROVE Types'
  BY <1>12 DEF CheckpointRaises
<1>13. CASE UNCHANGED vars
  BY <1>13 DEF vars
<1> QED
  <2> HIDE DEF Types, shards, tracker, bounds
  <2> QED BY <1>1, <1>3, <1>5, <1>6, <1>7, <1>8, <1>9, <1>10, <1>11, <1>12, <1>13 DEF Next

-----------------------------------------------------------------------------
(* A checkpoint stands for a quorum.                                       *)

\* Whatever says that the quorum was reached, says so of a block for which it
\* was once computed: the recorded votes, the clones, the calls that are about
\* to make a checkpoint or to set a stage, and the checkpoints.
Reached ==
  /\ \A h \in Hash : \A x \in votes[h] : x.quorum_reached => h \in quorum
  /\ \A v \in Voter : \A c \in voting[v] :
       c.votes.quorum_reached \/ c.step # "write" => c.hash \in quorum
  /\ \A k \in Creator : \A c \in creating[k] : c.hash \in quorum
  /\ CheckpointHadQuorum

LEMMA ReachedStep ==
  ASSUME Types, Reached, [Next]_vars
  PROVE  Reached'
<1> USE DEF Types, Reached, shards, tracker, bounds
<1>1. ASSUME NEW i \in Initializer, NEW h \in Hash, InitializeBlock(i, h) PROVE Reached'
  <2>1. NoVotes \in Votes /\ ~NoVotes.quorum_reached
    BY DEF NoVotes, Votes
  <2>2. \A g \in Hash : \A y \in votes'[g] : y \in votes[g] \/ (g = h /\ y = NoVotes)
    BY <1>1, <2>1, InsertTyped DEF InitializeBlock
  <2>3. UNCHANGED <<checkpoints, voting, creating, quorum>>
    BY <1>1 DEF InitializeBlock
  <2> QED BY <2>1, <2>2, <2>3 DEF CheckpointHadQuorum
<1>2. ASSUME NEW i \in Initializer, ReadLength(i) \/ Register(i) \/ Index(i) PROVE Reached'
  <2>1. UNCHANGED <<votes, checkpoints, voting, creating, quorum>>
    BY <1>2 DEF ReadLength, Register, Index
  <2> QED BY <2>1 DEF CheckpointHadQuorum
<1>3. ASSUME NEW v \in Voter, NEW h \in Hash, NEW s \in Staker, NEW a \in BOOLEAN,
             ReadVotes(v, h, s, a) PROVE Reached'
  <2>1. UNCHANGED <<votes, checkpoints, creating>>
    BY <1>3 DEF ReadVotes
  <2>2. CASE UNCHANGED <<voting, quorum>>
    BY <2>1, <2>2 DEF CheckpointHadQuorum
  <2>3. CASE ~UNCHANGED <<voting, quorum>>
    <3>1. PICK x \in votes[h] :
            /\ voting' = [voting EXCEPT ![v] =
                 {[step |-> IF HasQuorum(Counted(x, s, a).approve_power) THEN "look" ELSE "write",
                   hash |-> h, number |-> 0, votes |-> Counted(x, s, a)]}]
            /\ quorum' = IF HasQuorum(Counted(x, s, a).approve_power) THEN quorum \cup {h} ELSE quorum
      BY <1>3, <2>3 DEF ReadVotes
    <3>2. PICK y : y = Counted(x, s, a)
      OBVIOUS
    <3>3. y.quorum_reached => x.quorum_reached \/ HasQuorum(y.approve_power)
      BY <3>2, CountedTyped
    <3>4. PICK c : c = [step |-> IF HasQuorum(y.approve_power) THEN "look" ELSE "write",
                        hash |-> h, number |-> 0, votes |-> y]
      OBVIOUS
    <3>5. /\ c.hash = h /\ c.votes = y
          /\ c.step # "write" => HasQuorum(y.approve_power)
      BY <3>4
    <3>6. quorum \subseteq quorum' /\ (HasQuorum(y.approve_power) => h \in quorum')
      BY <3>1, <3>2
    <3>7. \A w \in Voter : \A d \in voting'[w] : d = c \/ d \in voting[w]
      BY <3>1, <3>2, <3>4
    <3>8. c.votes.quorum_reached \/ c.step # "write" => c.hash \in quorum'
      BY <3>3, <3>5, <3>6
    <3> QED BY <2>1, <3>6, <3>7, <3>8 DEF CheckpointHadQuorum
  <2> QED BY <2>2, <2>3
<1>4. ASSUME NEW v \in Voter, VoteLooksUp(v) PROVE Reached'
  <2>1. PICK c \in voting[v] : /\ c.step = "look"
                               /\ voting' = [voting EXCEPT ![v] = {LookedUp(c, "write")}]
    BY <1>4 DEF VoteLooksUp
  <2>2. PICK d : d = LookedUp(c, "write")
    OBVIOUS
  <2>3. d.hash = c.hash
    BY <2>2, LookedUpTyped
  <2>4. d.hash \in quorum
    BY <2>1, <2>3
  <2>5. \A w \in Voter : \A e \in voting'[w] : e = d \/ e \in voting[w]
    BY <2>1, <2>2
  <2>6. UNCHANGED <<votes, checkpoints, creating, quorum>>
    BY <1>4 DEF VoteLooksUp
  <2> QED BY <2>4, <2>5, <2>6 DEF CheckpointHadQuorum
<1>5. ASSUME NEW v \in Voter, VoteRaises(v) PROVE Reached'
  <2>1. PICK c \in voting[v] : /\ c.step = "raise"
                               /\ voting' = [voting EXCEPT ![v] = {[c EXCEPT !.step = "write"]}]
    BY <1>5 DEF VoteRaises
  <2>2. PICK d : d = [c EXCEPT !.step = "write"]
    OBVIOUS
  <2>3. d.hash = c.hash
    BY <2>2 DEF Voting
  <2>4. d.hash \in quorum
    BY <2>1, <2>3
  <2>5. \A w \in Voter : \A e \in voting'[w] : e = d \/ e \in voting[w]
    BY <2>1, <2>2
  <2>6. UNCHANGED <<votes, checkpoints, creating, quorum>>
    BY <1>5 DEF VoteRaises
  <2> QED BY <2>4, <2>5, <2>6 DEF CheckpointHadQuorum
<1>6. ASSUME NEW v \in Voter, WriteBack(v) PROVE Reached'
  <2>1. PICK c \in voting[v] : Insert(c.hash, c.votes) /\ voting' = [voting EXCEPT ![v] = {}]
    BY <1>6 DEF WriteBack
  <2>2. c.hash \in Hash /\ c.votes \in Votes
    BY DEF Voting
  <2>3. \A g \in Hash : \A y \in votes'[g] : y \in votes[g] \/ (g = c.hash /\ y = c.votes)
    BY <2>1, <2>2, InsertTyped
  <2>4. \A w \in Voter : voting'[w] \subseteq voting[w]
    BY <2>1
  <2>5. UNCHANGED <<checkpoints, creating, quorum>>
    BY <1>6 DEF WriteBack
  <2>6. c.votes.quorum_reached => c.hash \in quorum
    OBVIOUS
  <2> QED BY <2>3, <2>4, <2>5, <2>6 DEF CheckpointHadQuorum
<1>7. ASSUME NEW k \in Creator, NEW h \in Hash, NEW n \in Heights, ReadQuorum(k, h, n)
      PROVE  Reached'
  <2>1. UNCHANGED <<votes, checkpoints, voting, quorum>>
    BY <1>7 DEF ReadQuorum
  <2>2. PICK c : c = [step |-> "insert", hash |-> h, number |-> 0, height |-> n]
    OBVIOUS
  <2>3. CASE MayCheckpoint(h, n)
    <3>1. h \in quorum
      BY <2>3 DEF MayCheckpoint
    <3>2. \A o \in Creator : \A d \in creating'[o] : d = c \/ d \in creating[o]
      BY <1>7, <2>2, <2>3 DEF ReadQuorum
    <3> QED BY <2>1, <2>2, <3>1, <3>2 DEF CheckpointHadQuorum
  <2>4. CASE ~MayCheckpoint(h, n)
    <3>1. UNCHANGED creating
      BY <1>7, <2>4 DEF ReadQuorum
    <3> QED BY <2>1, <3>1 DEF CheckpointHadQuorum
  <2> QED BY <2>3, <2>4
<1>8. ASSUME NEW k \in Creator, CreateCheckpoint(k) PROVE Reached'
  <2>1. PICK c \in creating[k] :
          /\ checkpoints' = {d \in checkpoints : d.height # c.height}
                              \cup {[height |-> c.height, hash |-> c.hash]}
          /\ creating' = [creating EXCEPT ![k] = {[c EXCEPT !.step = "look"]}]
    BY <1>8 DEF CreateCheckpoint
  <2>2. PICK e : e = [c EXCEPT !.step = "look"]
    OBVIOUS
  <2>3. e.hash = c.hash /\ c.hash \in quorum
    BY <2>2 DEF Creating
  <2>4. \A o \in Creator : \A d \in creating'[o] : d = e \/ d \in creating[o]
    BY <2>1, <2>2
  <2>5. \A d \in checkpoints' : d \in checkpoints \/ d.hash = c.hash
    BY <2>1
  <2>6. UNCHANGED <<votes, voting, quorum>>
    BY <1>8 DEF CreateCheckpoint
  <2> QED BY <2>3, <2>4, <2>5, <2>6 DEF CheckpointHadQuorum
<1>9. ASSUME NEW k \in Creator, CheckpointLooksUp(k) PROVE Reached'
  <2>1. PICK c \in creating[k] :
          creating' = [creating EXCEPT ![k] = {d \in {LookedUp(c, "done")} : d.step = "raise"}]
    BY <1>9 DEF CheckpointLooksUp
  <2>2. \A d \in {LookedUp(c, "done")} : d.step = "raise" => d.hash = c.hash
    BY LookedUpTyped
  <2>3. \A o \in Creator : \A d \in creating'[o] : d.hash = c.hash \/ d \in creating[o]
    BY <2>1, <2>2
  <2>4. UNCHANGED <<votes, checkpoints, voting, quorum>>
    BY <1>9 DEF CheckpointLooksUp
  <2> QED BY <2>3, <2>4 DEF CheckpointHadQuorum
<1>10. ASSUME NEW k \in Creator, CheckpointRaises(k) PROVE Reached'
  <2>1. \A o \in Creator : creating'[o] \subseteq creating[o]
    BY <1>10 DEF CheckpointRaises
  <2>2. UNCHANGED <<votes, checkpoints, voting, quorum>>
    BY <1>10 DEF CheckpointRaises
  <2> QED BY <2>1, <2>2 DEF CheckpointHadQuorum
<1>11. CASE UNCHANGED vars
  BY <1>11 DEF vars, CheckpointHadQuorum
<1> QED
  <2> HIDE DEF Types, Reached, shards, tracker, bounds
  <2> QED BY <1>1, <1>2, <1>3, <1>4, <1>5, <1>6, <1>7, <1>8, <1>9, <1>10, <1>11 DEF Next

-----------------------------------------------------------------------------
(* The numbers of the blocks.                                              *)

\* The calls that may be about to set a stage.
Raising == (UNION {voting[v] : v \in Voter}) \cup (UNION {creating[o] : o \in Creator})

\* The numbers tracked are 1 .. k, and the calls in flight know no others,
\* except that track_block may be about to register k + 1.
Numbered(k) ==
  /\ stages \in [1 .. k -> Stage]
  /\ \A h \in Hash : index[h] <= k
  /\ \A c \in Raising : c.number <= k
  /\ \A i \in Initializer : \A c \in tracking[i] :
       /\ c.number <= k + 1
       /\ c.step = "register" => c.number # 0
       /\ c.step = "index" => c.number \in 1 .. k

\* A block that raced with no other has its number for itself.
OwnNumber(h) ==
  /\ \A g \in Hash \ {h} : index[g] # index[h]
  /\ \A i \in Initializer : \A c \in tracking[i] : c.number # index[h]
  /\ \A c \in Raising : c.hash # h => c.number # index[h]
  /\ stages[index[h]] # Pending => h \in quorum

\* So will the block that is being initialized alone.
Fresh(k, i, c) ==
  /\ \A j \in Initializer \ {i} : tracking[j] = {}
  /\ c.step = "register" => c.number = k + 1
  /\ c.step = "index" => /\ \A g \in Hash : index[g] # c.number
                         /\ \A d \in Raising : d.number # c.number
                         /\ stages[c.number] = Pending

Owned(k) ==
  /\ \A h \in Hash \ contended : index[h] # Untracked => OwnNumber(h)
  /\ \A i \in Initializer : \A c \in tracking[i] : c.hash \notin contended => Fresh(k, i, c)

LEMMA CountTracked ==
  ASSUME NEW k \in Nat, Numbered(k)
  PROVE  Cardinality(DOMAIN stages) = k /\ NextNumber = k + 1
<1>1. DOMAIN stages = 1 .. k
  BY DEF Numbered
<1>2. Cardinality(1 .. k) = k
  BY FS_Interval
<1> QED BY <1>1, <1>2 DEF NextNumber

LEMMA UnionMembers ==
  ASSUME NEW f, NEW S, NEW c
  PROVE  c \in UNION {f[v] : v \in S} <=> \E v \in S : c \in f[v]
OBVIOUS

\* The calls in flight, by who makes them.
LEMMA CallsMembers ==
  ASSUME NEW vs, NEW cs, NEW c
  PROVE  c \in (UNION {vs[v] : v \in Voter}) \cup (UNION {cs[o] : o \in Creator})
           <=> (\E v \in Voter : c \in vs[v]) \/ (\E o \in Creator : c \in cs[o])
<1>1. c \in UNION {vs[v] : v \in Voter} <=> \E v \in Voter : c \in vs[v]
  BY UnionMembers
<1>2. c \in UNION {cs[o] : o \in Creator} <=> \E o \in Creator : c \in cs[o]
  BY UnionMembers
<1> QED BY <1>1, <1>2, Zenon

LEMMA RaisingMembers ==
  \A c : c \in Raising <=> \/ \E v \in Voter : c \in voting[v]
                           \/ \E o \in Creator : c \in creating[o]
BY CallsMembers DEF Raising

LEMMA CallsTyped ==
  ASSUME NEW vs \in [Voter -> SUBSET Voting], NEW cs \in [Creator -> SUBSET Creating],
         NEW c \in (UNION {vs[v] : v \in Voter}) \cup (UNION {cs[o] : o \in Creator})
  PROVE  c.hash \in Hash /\ c.number \in Nat
<1>1. ASSUME NEW v \in Voter, c \in vs[v] PROVE c.hash \in Hash /\ c.number \in Nat
  <2>1. c \in Voting BY <1>1
  <2> QED BY <2>1 DEF Voting
<1>2. ASSUME NEW o \in Creator, c \in cs[o] PROVE c.hash \in Hash /\ c.number \in Nat
  <2>1. c \in Creating BY <1>2
  <2> QED BY <2>1 DEF Creating
<1>3. (\E v \in Voter : c \in vs[v]) \/ (\E o \in Creator : c \in cs[o])
  BY CallsMembers
<1>4. CASE \E v \in Voter : c \in vs[v]
  BY <1>1, <1>4
<1>5. CASE \E o \in Creator : c \in cs[o]
  BY <1>2, <1>5
<1> QED BY <1>3, <1>4, <1>5

LEMMA RaisingTyped ==
  ASSUME Types
  PROVE  \A c \in Raising : c.hash \in Hash /\ c.number \in Nat
<1>1. voting \in [Voter -> SUBSET Voting] /\ creating \in [Creator -> SUBSET Creating]
  BY DEF Types
<1> QED BY <1>1, CallsTyped DEF Raising

\* The steps of submit_vote and create_checkpoint: a call takes its number from
\* the index, and sets the stage of no number but its own.
LEMMA QuietStep ==
  ASSUME NEW k \in Nat, Types, Types', Numbered(k), Owned(k),
         UNCHANGED <<index, tracking, contended>>, quorum \subseteq quorum',
         stages' \in [1 .. k -> Stage],
         \A n \in 1 .. k : \/ stages'[n] = stages[n]
                           \/ \E d \in Raising : d.number = n /\ d.hash \in quorum',
         \A c \in Raising' : \/ c.number = 0
                             \/ c.number = index[c.hash]
                             \/ \E d \in Raising : d.hash = c.hash /\ d.number = c.number
  PROVE  Numbered(k)' /\ Owned(k)'
<1>1. /\ \A c \in Raising : c.hash \in Hash /\ c.number \in Nat /\ c.number <= k
      /\ \A h \in Hash : index[h] \in Nat /\ index[h] <= k
  BY RaisingTyped DEF Numbered, Types
<1>2. \A c \in Raising' : c.hash \in Hash /\ c.number \in Nat
  <2>1. voting' \in [Voter -> SUBSET Voting] /\ creating' \in [Creator -> SUBSET Creating]
    BY DEF Types
  <2> QED BY <2>1, CallsTyped DEF Raising
<1>3. \A c \in Raising' : c.number <= k
  BY <1>1, <1>2
<1>4. Numbered(k)'
  BY <1>3 DEF Numbered
<1>5. ASSUME NEW h \in Hash \ contended, index[h] # Untracked PROVE OwnNumber(h)'
  <2>1. OwnNumber(h) /\ index[h] \in 1 .. k /\ h \in Hash
    BY <1>1, <1>5 DEF Owned, Untracked
  <2>2. ASSUME NEW c \in Raising', c.hash # h PROVE c.number # index[h]
    <3>1. c.hash \in Hash
      BY <1>2
    <3> QED BY <2>1, <2>2, <3>1 DEF OwnNumber
  <2>3. stages'[index[h]] # Pending => h \in quorum'
    <3>1. CASE stages'[index[h]] = stages[index[h]]
      BY <2>1, <3>1 DEF OwnNumber
    <3>2. ASSUME NEW d \in Raising, d.number = index[h], d.hash \in quorum' PROVE h \in quorum'
      BY <2>1, <3>2 DEF OwnNumber
    <3> QED BY <2>1, <3>1, <3>2
  <2> QED BY <2>1, <2>2, <2>3 DEF OwnNumber
<1>6. ASSUME NEW i \in Initializer, NEW c \in tracking[i], c.hash \notin contended
      PROVE  Fresh(k, i, c)'
  <2>1. Fresh(k, i, c)
    BY <1>6 DEF Owned
  <2>2. CASE c.step # "index"
    BY <2>1, <2>2 DEF Fresh
  <2>3. CASE c.step = "index"
    <3>1. c.number \in 1 .. k
      BY <2>3 DEF Numbered
    <3>2. /\ \A g \in Hash : index[g] # c.number
          /\ \A d \in Raising : d.number # c.number
          /\ stages[c.number] = Pending
      BY <2>1, <2>3 DEF Fresh
    <3>3. stages'[c.number] = Pending
      BY <3>1, <3>2
    <3>4. \A d \in Raising' : d.number # c.number
      BY <1>2, <3>1, <3>2
    <3> QED BY <2>1, <3>2, <3>3, <3>4 DEF Fresh
  <2> QED BY <2>2, <2>3
<1> QED BY <1>4, <1>5, <1>6 DEF Owned

\* The steps of initialize_block.
LEMMA InitializeStep ==
  ASSUME NEW k \in Nat, Types, Numbered(k), Owned(k),
         NEW i \in Initializer, NEW h \in Hash, InitializeBlock(i, h)
  PROVE  Numbered(k)' /\ Owned(k)'
<1>1. PICK c : c = [step |-> "number", hash |-> h, number |-> 0]
  OBVIOUS
<1>2. /\ tracking' = [tracking EXCEPT ![i] = {c}]
      /\ contended' = IF InFlight = {} THEN contended
                      ELSE contended \cup {h} \cup {d.hash : d \in InFlight}
      /\ UNCHANGED <<stages, index, voting, creating, quorum>>
  BY <1>1 DEF InitializeBlock, tracker
<1>3. c.step = "number" /\ c.hash = h /\ c.number = 0
  BY <1>1
<1>4. \A j \in Initializer : tracking'[j] = IF j = i THEN {c} ELSE tracking[j]
  BY <1>2 DEF Types
<1>5. Raising' = Raising
  BY <1>2 DEF Raising
<1>6. Numbered(k)'
  BY <1>2, <1>3, <1>4, <1>5 DEF Numbered
<1>7. ASSUME NEW g \in Hash \ contended', index[g] # Untracked PROVE OwnNumber(g)'
  <2>1. g \in Hash \ contended
    BY <1>2, <1>7
  <2>2. OwnNumber(g)
    BY <1>7, <2>1 DEF Owned
  <2> QED BY <1>2, <1>3, <1>4, <1>5, <1>7, <2>2 DEF OwnNumber, Untracked
<1>8. ASSUME NEW j \in Initializer, NEW d \in tracking'[j], d.hash \notin contended'
      PROVE  Fresh(k, j, d)'
  <2>1. InFlight = {}
    <3> SUFFICES ASSUME InFlight # {} PROVE FALSE
      OBVIOUS
    <3>1. d = c \/ d \in InFlight
      BY <1>4 DEF InFlight
    <3> QED BY <1>2, <1>3, <1>8, <3>1
  <2>2. \A o \in Initializer : tracking[o] = {}
    BY <2>1 DEF InFlight
  <2>3. j = i /\ d = c
    BY <1>4, <2>2
  <2>4. \A o \in Initializer \ {j} : tracking'[o] = {}
    BY <1>4, <2>2, <2>3
  <2> QED BY <1>3, <2>3, <2>4 DEF Fresh
<1> QED BY <1>2, <1>6, <1>7, <1>8 DEF Owned

LEMMA ReadLengthStep ==
  ASSUME NEW k \in Nat, Types, Numbered(k), Owned(k), NEW i \in Initializer, ReadLength(i)
  PROVE  Numbered(k)' /\ Owned(k)'
<1>1. PICK c \in tracking[i] :
        tracking' = [tracking EXCEPT ![i] = {[c EXCEPT !.step = "register", !.number = NextNumber]}]
  BY DEF ReadLength
<1>2. PICK e : e = [c EXCEPT !.step = "register", !.number = k + 1]
  OBVIOUS
<1>3. tracking' = [tracking EXCEPT ![i] = {e}]
  BY <1>1, <1>2, CountTracked
<1>4. e.step = "register" /\ e.hash = c.hash /\ e.number = k + 1
  <2>1. c \in Tracking
    BY DEF Types
  <2> QED BY <1>2, <2>1 DEF Tracking
<1>5. \A j \in Initializer : tracking'[j] = IF j = i THEN {e} ELSE tracking[j]
  BY <1>3 DEF Types
<1>6. UNCHANGED <<stages, index, voting, creating, quorum, contended>>
  BY DEF ReadLength, tracker
<1>7. Raising' = Raising
  BY <1>6 DEF Raising
<1>8. Numbered(k)'
  <2>1. \A j \in Initializer : \A d \in tracking'[j] :
          /\ d.number <= k + 1
          /\ d.step = "register" => d.number # 0
          /\ d.step = "index" => d.number \in 1 .. k
    BY <1>4, <1>5 DEF Numbered
  <2> QED BY <1>6, <1>7, <2>1 DEF Numbered
<1>9. ASSUME NEW g \in Hash \ contended', index'[g] # Untracked PROVE OwnNumber(g)'
  <2>1. OwnNumber(g) /\ index[g] <= k /\ index[g] \in Nat /\ g \in Hash
    BY <1>6, <1>9 DEF Owned, Numbered, Types
  <2>2. \A j \in Initializer : \A d \in tracking'[j] : d.number # index[g]
    BY <1>4, <1>5, <2>1 DEF OwnNumber
  <2> QED BY <1>6, <1>7, <2>1, <2>2 DEF OwnNumber
<1>10. ASSUME NEW j \in Initializer, NEW d \in tracking'[j], d.hash \notin contended'
       PROVE  Fresh(k, j, d)'
  <2>1. CASE j = i
    <3>1. d = e /\ Fresh(k, i, c)
      BY <1>4, <1>5, <1>6, <1>10, <2>1 DEF Owned
    <3>2. \A o \in Initializer \ {i} : tracking'[o] = {}
      BY <1>5, <3>1 DEF Fresh
    <3> QED BY <1>4, <2>1, <3>1, <3>2 DEF Fresh
  <2>2. CASE j # i
    <3>1. d \in tracking[j] /\ d.hash \notin contended
      BY <1>5, <1>6, <1>10, <2>2
    <3>2. Fresh(k, j, d)
      BY <3>1 DEF Owned
    <3>3. tracking[i] = {}
      BY <2>2, <3>2 DEF Fresh
    <3> QED BY <3>3
  <2> QED BY <2>1, <2>2
<1> QED BY <1>8, <1>9, <1>10 DEF Owned

LEMMA RegisterStep ==
  ASSUME NEW k \in Nat, Types, Numbered(k), Owned(k), NEW i \in Initializer, Register(i)
  PROVE  \E m \in Nat : Numbered(m)' /\ Owned(m)'
<1>0. UNCHANGED <<index, voting, creating, quorum, contended>>
  BY DEF Register
<1>1. PICK c \in tracking[i] :
        /\ c.step = "register"
        /\ \/ UNCHANGED stages /\ tracking' = [tracking EXCEPT ![i] = {}]
           \/ /\ stages' = [n \in DOMAIN stages \cup {c.number} |->
                              IF n = c.number THEN Pending ELSE stages[n]]
              /\ tracking' = [tracking EXCEPT ![i] = {[c EXCEPT !.step = "index"]}]
  BY DEF Register
<1>2. Raising' = Raising
  BY <1>0 DEF Raising
\* A block initialized alone excludes the call that registers another.
<1>3. ASSUME NEW j \in Initializer \ {i}, NEW d \in tracking[j], d.hash \notin contended
      PROVE  FALSE
  <2>1. Fresh(k, j, d)
    BY <1>3 DEF Owned
  <2> QED BY <1>1, <1>3, <2>1 DEF Fresh
<1>4. CASE UNCHANGED stages /\ tracking' = [tracking EXCEPT ![i] = {}]
  <2>1. \A j \in Initializer : tracking'[j] \subseteq tracking[j] /\ tracking'[i] = {}
    BY <1>4 DEF Types
  <2>2. Numbered(k)'
    BY <1>0, <1>2, <1>4, <2>1 DEF Numbered
  <2>3. ASSUME NEW g \in Hash \ contended', index'[g] # Untracked PROVE OwnNumber(g)'
    <3>1. OwnNumber(g)
      BY <1>0, <2>3 DEF Owned
    <3> QED BY <1>0, <1>2, <1>4, <2>1, <3>1 DEF OwnNumber
  <2>4. ASSUME NEW j \in Initializer, NEW d \in tracking'[j], d.hash \notin contended'
        PROVE  FALSE
    BY <1>0, <1>3, <2>1, <2>4
  <2>5. Owned(k)'
    BY <2>3, <2>4 DEF Owned
  <2> QED BY <2>2, <2>5
<1>5. CASE /\ stages' = [n \in DOMAIN stages \cup {c.number} |->
                           IF n = c.number THEN Pending ELSE stages[n]]
           /\ tracking' = [tracking EXCEPT ![i] = {[c EXCEPT !.step = "index"]}]
  <2>1. PICK e : e = [c EXCEPT !.step = "index"]
    OBVIOUS
  <2>2. e.step = "index" /\ e.hash = c.hash /\ e.number = c.number /\ c.number \in Nat
    <3>1. c \in Tracking
      BY DEF Types
    <3> QED BY <2>1, <3>1 DEF Tracking
  <2>3. \A j \in Initializer : tracking'[j] = IF j = i THEN {e} ELSE tracking[j]
    BY <1>5, <2>1 DEF Types
  <2>4. c.number \in 1 .. k + 1
    BY <1>1, <2>2 DEF Numbered
  <2>5. PICK m \in Nat : m = IF c.number = k + 1 THEN k + 1 ELSE k
    OBVIOUS
  <2>6. DOMAIN stages = 1 .. k /\ (1 .. k) \cup {c.number} = 1 .. m
    BY <2>4, <2>5 DEF Numbered
  <2>7. stages' = [n \in 1 .. m |-> IF n = c.number THEN Pending ELSE stages[n]]
    BY <1>5, <2>6
  <2>8. stages' \in [1 .. m -> Stage]
    <3>1. \A n \in 1 .. m : n # c.number => n \in 1 .. k
      BY <2>6
    <3>2. \A n \in 1 .. m : (IF n = c.number THEN Pending ELSE stages[n]) \in Stage
      BY <3>1 DEF Numbered, Stage
    <3> QED BY <2>7, <3>2
  <2>9. k <= m /\ m <= k + 1
    BY <2>5
  <2>10. Numbered(m)'
    <3>1. \A h \in Hash : index'[h] <= m
      BY <1>0, <2>9 DEF Numbered, Types
    <3>2. \A d \in Raising' : d.number <= m
      BY <1>2, <2>9, RaisingTyped DEF Numbered
    <3>3. \A j \in Initializer : \A d \in tracking[j] : d.number \in Nat
      BY DEF Types, Tracking
    <3>4. c.number \in 1 .. m
      BY <2>4, <2>5
    <3>5. \A j \in Initializer : \A d \in tracking'[j] :
            /\ d.number <= m + 1
            /\ d.step = "register" => d.number # 0
            /\ d.step = "index" => d.number \in 1 .. m
      <4> SUFFICES ASSUME NEW j \in Initializer, NEW d \in tracking'[j]
                   PROVE  /\ d.number <= m + 1
                          /\ d.step = "register" => d.number # 0
                          /\ d.step = "index" => d.number \in 1 .. m
        OBVIOUS
      <4>1. CASE j = i
        BY <2>2, <2>3, <3>4, <4>1
      <4>2. CASE j # i
        <5>1. /\ d.number \in Nat /\ d.number <= k + 1
              /\ d.step = "register" => d.number # 0
              /\ d.step = "index" => d.number \in 1 .. k
          BY <2>3, <3>3, <4>2 DEF Numbered
        <5> QED BY <2>9, <5>1
      <4> QED BY <4>1, <4>2
    <3> QED BY <2>8, <3>1, <3>2, <3>5 DEF Numbered
  <2>11. ASSUME NEW g \in Hash \ contended', index'[g] # Untracked PROVE OwnNumber(g)'
    <3>1. OwnNumber(g) /\ index[g] \in 1 .. k /\ g \in Hash
      BY <1>0, <2>11 DEF Owned, Numbered, Types, Untracked
    <3>2. c.number # index[g] /\ index[g] \in 1 .. m
      BY <2>9, <3>1 DEF OwnNumber
    <3>3. stages'[index[g]] = stages[index[g]]
      BY <2>7, <3>2
    <3>4. \A j \in Initializer : \A d \in tracking'[j] : d.number # index[g]
      BY <2>2, <2>3, <3>1, <3>2 DEF OwnNumber
    <3> QED BY <1>0, <1>2, <3>1, <3>3, <3>4 DEF OwnNumber
  <2>12. ASSUME NEW j \in Initializer, NEW d \in tracking'[j], d.hash \notin contended'
         PROVE  Fresh(m, j, d)'
    <3>1. j = i /\ d = e
      BY <1>0, <1>3, <2>3, <2>12
    <3>2. Fresh(k, i, c)
      BY <1>0, <2>2, <2>12, <3>1 DEF Owned
    <3>3. c.number = k + 1
      BY <1>1, <3>2 DEF Fresh
    <3>4. \A o \in Initializer \ {i} : tracking'[o] = {}
      BY <2>3, <3>2 DEF Fresh
    <3>5. \A g \in Hash : index'[g] # c.number
      BY <1>0, <3>3 DEF Numbered, Types
    <3>6. \A r \in Raising' : r.number # c.number
      BY <1>2, <3>3, RaisingTyped DEF Numbered
    <3>7. stages'[c.number] = Pending
      BY <2>5, <2>7, <3>3
    <3> QED BY <2>2, <3>1, <3>4, <3>5, <3>6, <3>7 DEF Fresh
  <2>13. Owned(m)'
    BY <2>11, <2>12 DEF Owned
  <2> QED BY <2>10, <2>13
<1> QED BY <1>1, <1>4, <1>5

LEMMA IndexStep ==
  ASSUME NEW k \in Nat, Types, Numbered(k), Owned(k), NEW i \in Initializer, Index(i)
  PROVE  Numbered(k)' /\ Owned(k)'
<1>0. UNCHANGED <<stages, voting, creating, quorum, contended>>
  BY DEF Index
<1>1. PICK c \in tracking[i] :
        /\ c.step = "index"
        /\ index' = [index EXCEPT ![c.hash] = c.number]
        /\ tracking' = [tracking EXCEPT ![i] = {}]
  BY DEF Index
<1>2. Raising' = Raising
  BY <1>0 DEF Raising
<1>3. c.number \in 1 .. k /\ c.hash \in Hash
  BY <1>1 DEF Numbered, Types, Tracking
<1>4. \A g \in Hash : index'[g] = IF g = c.hash THEN c.number ELSE index[g]
  BY <1>1 DEF Types
<1>5. \A j \in Initializer : tracking'[j] = IF j = i THEN {} ELSE tracking[j]
  BY <1>1 DEF Types
<1>6. Numbered(k)'
  BY <1>0, <1>2, <1>3, <1>4, <1>5 DEF Numbered
<1>7. ASSUME NEW g \in Hash \ contended', index'[g] # Untracked PROVE OwnNumber(g)'
  <2>1. CASE g = c.hash
    <3>1. Fresh(k, i, c)
      BY <1>0, <1>7, <2>1 DEF Owned
    <3>2. \A j \in Initializer : tracking'[j] = {}
      BY <1>5, <3>1 DEF Fresh
    <3>3. /\ \A f \in Hash : index[f] # c.number
          /\ \A d \in Raising : d.number # c.number
          /\ stages[c.number] = Pending
      BY <1>1, <3>1 DEF Fresh
    <3> QED BY <1>0, <1>2, <1>4, <2>1, <3>2, <3>3 DEF OwnNumber
  <2>2. CASE g # c.hash
    <3>1. index'[g] = index[g] /\ OwnNumber(g)
      BY <1>0, <1>4, <1>7, <2>2 DEF Owned
    <3>2. \A f \in Hash \ {g} : index'[f] # index'[g]
      BY <1>4, <3>1 DEF OwnNumber
    <3>3. \A j \in Initializer : tracking'[j] \subseteq tracking[j]
      BY <1>5
    <3> QED BY <1>0, <1>2, <3>1, <3>2, <3>3 DEF OwnNumber
  <2> QED BY <2>1, <2>2
<1>8. ASSUME NEW j \in Initializer, NEW d \in tracking'[j], d.hash \notin contended'
      PROVE  FALSE
  <2>1. j # i /\ d \in tracking[j] /\ d.hash \notin contended
    BY <1>0, <1>5, <1>8
  <2>2. Fresh(k, j, d)
    BY <2>1 DEF Owned
  <2> QED BY <1>1, <2>1, <2>2 DEF Fresh
<1> QED BY <1>6, <1>7, <1>8 DEF Owned

LEMMA NumbersStep ==
  ASSUME NEW k \in Nat, Types, Types', Reached, Numbered(k), Owned(k), [Next]_vars
  PROVE  \E m \in Nat : Numbered(m)' /\ Owned(m)'
<1> DEFINE Same(c) == \/ c.number = 0 \/ c.number = index[c.hash]
                      \/ \E d \in Raising : d.hash = c.hash /\ d.number = c.number
<1>0. stages \in [1 .. k -> Stage] /\ Global \in Stage /\ Deep \in Stage
  BY DEF Numbered, Stage
<1>1. ASSUME NEW i \in Initializer, NEW h \in Hash, InitializeBlock(i, h)
      PROVE  Numbered(k)' /\ Owned(k)'
  BY <1>1, InitializeStep
<1>2. ASSUME NEW i \in Initializer, ReadLength(i) PROVE Numbered(k)' /\ Owned(k)'
  BY <1>2, ReadLengthStep
<1>3. ASSUME NEW i \in Initializer, Register(i) PROVE \E m \in Nat : Numbered(m)' /\ Owned(m)'
  BY <1>3, RegisterStep
<1>4. ASSUME NEW i \in Initializer, Index(i) PROVE Numbered(k)' /\ Owned(k)'
  BY <1>4, IndexStep
\* A step that changes no stage.
<1>5. ASSUME UNCHANGED <<stages, index, tracking, contended>>, quorum \subseteq quorum',
             \A c \in Raising' : Same(c)
      PROVE  Numbered(k)' /\ Owned(k)'
  <2>1. stages' \in [1 .. k -> Stage] /\ \A n \in 1 .. k : stages'[n] = stages[n]
    BY <1>0, <1>5
  <2> QED BY <1>5, <2>1, QuietStep
\* A step of a call that sets the stage of the number it has looked up.
<1>6. ASSUME UNCHANGED <<index, tracking, contended, quorum>>,
             NEW e \in Raising, e.hash \in quorum, NEW s \in Stage, stages' = Raised(e.number, s),
             \A c \in Raising' : Same(c)
      PROVE  Numbered(k)' /\ Owned(k)'
  <2>1. stages' = [stages EXCEPT ![e.number] = s]
    BY <1>6 DEF Raised
  <2>2. stages' \in [1 .. k -> Stage]
    BY <1>0, <2>1
  <2>3. \A n \in 1 .. k : stages'[n] = stages[n] \/ (e.number = n /\ e.hash \in quorum')
    BY <1>0, <1>6, <2>1
  <2>4. quorum \subseteq quorum'
    BY <1>6
  <2> QED BY <1>6, <2>2, <2>3, <2>4, QuietStep
<1>7. /\ \A v \in Voter : voting[v] \subseteq Raising
      /\ \A o \in Creator : creating[o] \subseteq Raising
      /\ \A c \in Raising : Same(c)
  <2>1. \A v \in Voter : voting[v] \subseteq Raising
    BY RaisingMembers
  <2>2. \A o \in Creator : creating[o] \subseteq Raising
    BY RaisingMembers
  <2>3. \A c \in Raising : Same(c)
    OBVIOUS
  <2> QED BY <2>1, <2>2, <2>3
<1>8. ASSUME NEW e, Same(e), NEW v \in Voter, UNCHANGED creating,
             \/ UNCHANGED voting \/ voting' = [voting EXCEPT ![v] = {}]
             \/ voting' = [voting EXCEPT ![v] = {e}]
      PROVE  \A c \in Raising' : Same(c)
  <2>1. \A w \in Voter : \A c \in voting'[w] : c = e \/ c \in voting[w]
    BY <1>8 DEF Types
  <2>2. \A c \in Raising' : c = e \/ c \in Raising
    BY <1>8, <2>1 DEF Raising
  <2> QED BY <1>7, <1>8, <2>2
<1>9. ASSUME NEW e, NEW o \in Creator, UNCHANGED voting,
             \/ UNCHANGED creating \/ creating' = [creating EXCEPT ![o] = {}]
             \/ creating' = [creating EXCEPT ![o] = {e}] /\ Same(e)
      PROVE  \A c \in Raising' : Same(c)
  <2>1. \A w \in Creator : \A c \in creating'[w] : (c = e /\ Same(e)) \/ c \in creating[w]
    <3> HIDE DEF Same
    <3> QED BY <1>9 DEF Types
  <2>2. \A c \in Raising' : (c = e /\ Same(e)) \/ c \in Raising
    <3> SUFFICES ASSUME NEW c \in Raising' PROVE (c = e /\ Same(e)) \/ c \in Raising
      OBVIOUS
    <3>1. (\E w \in Voter : c \in voting'[w]) \/ (\E w \in Creator : c \in creating'[w])
      BY CallsMembers DEF Raising
    <3> HIDE DEF Same
    <3>2. CASE \E w \in Voter : c \in voting'[w]
      BY <1>7, <1>9, <3>2
    <3>3. CASE \E w \in Creator : c \in creating'[w]
      BY <1>7, <2>1, <3>3
    <3> QED BY <3>1, <3>2, <3>3
  <2> HIDE DEF Same
  <2> QED BY <1>7, <2>2
<1>10. ASSUME NEW v \in Voter, NEW h \in Hash, NEW s \in Staker, NEW a \in BOOLEAN,
              ReadVotes(v, h, s, a) PROVE Numbered(k)' /\ Owned(k)'
  <2>1. UNCHANGED <<stages, index, tracking, contended, creating>>
    BY <1>10 DEF ReadVotes, tracker
  <2>2. quorum \subseteq quorum' /\ \A c \in Raising' : Same(c)
    <3>1. CASE UNCHANGED <<voting, quorum>>
      <4>1. Raising' = Raising
        BY <2>1, <3>1 DEF Raising
      <4> QED BY <1>7, <3>1, <4>1
    <3>2. CASE ~UNCHANGED <<voting, quorum>>
      <4>1. PICK x \in votes[h] :
              /\ voting' = [voting EXCEPT ![v] =
                   {[step |-> IF HasQuorum(Counted(x, s, a).approve_power) THEN "look" ELSE "write",
                     hash |-> h, number |-> 0, votes |-> Counted(x, s, a)]}]
              /\ quorum' = IF HasQuorum(Counted(x, s, a).approve_power) THEN quorum \cup {h} ELSE quorum
        BY <1>10, <3>2 DEF ReadVotes
      <4>2. PICK e : e = [step |-> IF HasQuorum(Counted(x, s, a).approve_power) THEN "look" ELSE "write",
                          hash |-> h, number |-> 0, votes |-> Counted(x, s, a)]
        OBVIOUS
      <4>3. e.number = 0 /\ voting' = [voting EXCEPT ![v] = {e}] /\ quorum \subseteq quorum'
        BY <4>1, <4>2
      <4> QED BY <1>8, <2>1, <4>3
    <3> QED BY <3>1, <3>2
  <2> QED BY <1>5, <2>1, <2>2
<1>11. ASSUME NEW v \in Voter, VoteLooksUp(v) PROVE Numbered(k)' /\ Owned(k)'
  <2>1. PICK c \in voting[v] : voting' = [voting EXCEPT ![v] = {LookedUp(c, "write")}]
    BY <1>11 DEF VoteLooksUp
  <2>2. PICK e : e = LookedUp(c, "write")
    OBVIOUS
  <2>3. e.hash = c.hash /\ e.number = index[c.hash]
    <3>1. c \in Voting /\ index \in [Hash -> Nat] BY DEF Types
    <3> QED BY <2>2, <3>1, LookedUpTyped
  <2>4. UNCHANGED <<stages, index, tracking, contended, creating, quorum>>
    BY <1>11 DEF VoteLooksUp, tracker
  <2>5. \A d \in Raising' : Same(d)
    BY <1>8, <2>1, <2>2, <2>3, <2>4
  <2> QED BY <1>5, <2>4, <2>5
<1>12. ASSUME NEW v \in Voter, VoteRaises(v) PROVE Numbered(k)' /\ Owned(k)'
  <2>1. PICK c \in voting[v] : /\ c.step = "raise" /\ stages' = Raised(c.number, Global)
                               /\ voting' = [voting EXCEPT ![v] = {[c EXCEPT !.step = "write"]}]
    BY <1>12 DEF VoteRaises
  <2>2. PICK e : e = [c EXCEPT !.step = "write"]
    OBVIOUS
  <2>3. e.hash = c.hash /\ e.number = c.number
    <3>1. c \in Voting BY DEF Types
    <3> QED BY <2>2, <3>1 DEF Voting
  <2>4. UNCHANGED <<index, tracking, contended, creating, quorum>>
    BY <1>12 DEF VoteRaises
  <2>5. c \in Raising /\ c.hash \in quorum
    BY <1>7, <2>1 DEF Reached
  <2>6. \A d \in Raising' : Same(d)
    BY <1>8, <2>1, <2>2, <2>3, <2>4, <2>5
  <2> QED BY <1>0, <1>6, <2>1, <2>4, <2>5, <2>6
<1>13. ASSUME NEW v \in Voter, WriteBack(v) PROVE Numbered(k)' /\ Owned(k)'
  <2>1. /\ voting' = [voting EXCEPT ![v] = {}]
        /\ UNCHANGED <<stages, index, tracking, contended, creating, quorum>>
    BY <1>13 DEF WriteBack, tracker
  <2>2. \A w \in Voter : voting'[w] \subseteq voting[w]
    BY <2>1 DEF Types
  <2>3. Raising' \subseteq Raising
    BY <2>1, <2>2 DEF Raising
  <2> QED BY <1>5, <1>7, <2>1, <2>3
<1>14. ASSUME NEW o \in Creator, NEW h \in Hash, NEW n \in Heights, ReadQuorum(o, h, n)
       PROVE  Numbered(k)' /\ Owned(k)'
  <2>1. PICK e : e = [step |-> "insert", hash |-> h, number |-> 0, height |-> n]
    OBVIOUS
  <2>2. /\ e.number = 0
        /\ UNCHANGED creating \/ creating' = [creating EXCEPT ![o] = {e}]
        /\ UNCHANGED <<stages, index, tracking, contended, voting, quorum>>
    BY <1>14, <2>1 DEF ReadQuorum, tracker
  <2>3. \A d \in Raising' : Same(d)
    BY <1>9, <2>2
  <2> QED BY <1>5, <2>2, <2>3
<1>15. ASSUME NEW o \in Creator, CreateCheckpoint(o) PROVE Numbered(k)' /\ Owned(k)'
  <2>1. PICK c \in creating[o] : creating' = [creating EXCEPT ![o] = {[c EXCEPT !.step = "look"]}]
    BY <1>15 DEF CreateCheckpoint
  <2>2. PICK e : e = [c EXCEPT !.step = "look"]
    OBVIOUS
  <2>3. e.hash = c.hash /\ e.number = c.number
    <3>1. c \in Creating BY DEF Types
    <3> QED BY <2>2, <3>1 DEF Creating
  <2>4. UNCHANGED <<stages, index, tracking, contended, voting, quorum>>
    BY <1>15 DEF CreateCheckpoint, tracker
  <2>5. \A d \in Raising' : Same(d)
    BY <1>7, <1>9, <2>1, <2>2, <2>3, <2>4
  <2> QED BY <1>5, <2>4, <2>5
<1>16. ASSUME NEW o \in Creator, CheckpointLooksUp(o) PROVE Numbered(k)' /\ Owned(k)'
  <2>1. PICK c \in creating[o] :
          creating' = [creating EXCEPT ![o] = {d \in {LookedUp(c, "done")} : d.step = "raise"}]
    BY <1>16 DEF CheckpointLooksUp
  <2>2. PICK e : e = LookedUp(c, "done")
    OBVIOUS
  <2>3. e.step = "raise" => e.hash = c.hash /\ e.number = index[c.hash]
    <3>1. c \in Creating /\ index \in [Hash -> Nat] BY DEF Types
    <3> QED BY <2>2, <3>1, LookedUpTyped
  <2>4. \/ creating' = [creating EXCEPT ![o] = {}]
        \/ creating' = [creating EXCEPT ![o] = {e}] /\ e.step = "raise"
    <3>1. {d \in {LookedUp(c, "done")} : d.step = "raise"} = IF e.step = "raise" THEN {e} ELSE {}
      BY <2>2
    <3> QED BY <2>1, <3>1
  <2>5. UNCHANGED <<stages, index, tracking, contended, voting, quorum>>
    BY <1>16 DEF CheckpointLooksUp, tracker
  <2>6. \A d \in Raising' : Same(d)
    BY <1>9, <2>3, <2>4, <2>5
  <2> QED BY <1>5, <2>5, <2>6
<1>17. ASSUME NEW o \in Creator, CheckpointRaises(o) PROVE Numbered(k)' /\ Owned(k)'
  <2>1. PICK c \in creating[o] : stages' = Raised(c.number, Deep)
    BY <1>17 DEF CheckpointRaises
  <2>2. /\ creating' = [creating EXCEPT ![o] = {}]
        /\ UNCHANGED <<index, tracking, contended, voting, quorum>>
    BY <1>17 DEF CheckpointRaises
  <2>3. c \in Raising /\ c.hash \in quorum
    BY <1>7 DEF Reached
  <2>4. \A d \in Raising' : Same(d)
    BY <1>9, <2>2
  <2> QED BY <1>0, <1>6, <2>1, <2>2, <2>3, <2>4
<1>18. CASE UNCHANGED vars
  <2>1. UNCHANGED <<stages, index, tracking, contended, voting, creating, quorum>>
    BY <1>18 DEF vars, tracker
  <2>2. Raising' = Raising
    BY <2>1 DEF Raising
  <2> QED BY <1>5, <1>7, <2>1, <2>2
<1> HIDE DEF Same
<1> QED
  BY <1>1, <1>2, <1>3, <1>4, <1>10, <1>11, <1>12, <1>13, <1>14, <1>15, <1>16, <1>17, <1>18
  DEF Next

-----------------------------------------------------------------------------
Inv == Types /\ Reached /\ \E k \in Nat : Numbered(k) /\ Owned(k)

LEMMA Initially == Init => Inv
<1> SUFFICES ASSUME Init PROVE Inv
  OBVIOUS
<1>1. Types
  BY DEF Init, Types, Untracked
<1>2. Reached
  BY DEF Init, Reached, CheckpointHadQuorum
<1>3. Raising = {}
  BY DEF Init, Raising
<1>4. Numbered(0)
  BY <1>3 DEF Init, Numbered, Untracked
<1>5. Owned(0)
  BY DEF Init, Owned, Untracked
<1> QED BY <1>1, <1>2, <1>4, <1>5 DEF Inv

LEMMA Inductive == Inv /\ [Next]_vars => Inv'
<1> SUFFICES ASSUME Inv, [Next]_vars PROVE Inv'
  OBVIOUS
<1>1. PICK k \in Nat : Numbered(k) /\ Owned(k)
  BY DEF Inv
<1>2. Types /\ Reached
  BY DEF Inv
<1>3. NextNumber \in Nat
  BY <1>1, CountTracked
<1>4. Types' /\ Reached'
  BY <1>2, <1>3, TypesStep, ReachedStep
<1>5. \E m \in Nat : Numbered(m)' /\ Owned(m)'
  BY <1>1, <1>2, <1>4, NumbersStep
<1> QED BY <1>4, <1>5 DEF Inv

\* A checkpoint stands for a quorum of its block, for any number of voters and
\* blocks, however the concurrent writes of submit_vote undo each other and
\* whatever the partitions forget.
THEOREM CheckpointsHadQuorum == Spec => []CheckpointHadQuorum
<1>1. Inv => CheckpointHadQuorum
  BY DEF Inv, Reached
<1> QED BY Initially, Inductive, <1>1, PTL DEF Spec

\* Every variable keeps its type, for any number of tasks in initialize_block:
\* however their calls race, the numbers tracked are 1 .. k, and nothing refers
\* to a number beyond them.
THEOREM TypeCorrect == Spec => []TypeOK
<1>1. Inv => TypeOK
  <2> SUFFICES ASSUME Inv PROVE TypeOK
    OBVIOUS
  <2>1. PICK k \in Nat : Numbered(k)
    BY DEF Inv
  <2>2. Types
    BY DEF Inv
  <2>3. stages \in Seq(Stage) /\ Len(stages) = k
    <3>1. stages \in [1 .. k -> Stage]
      BY <2>1 DEF Numbered
    <3>2. stages \in Seq(Stage)
      BY <3>1, SeqDef
    <3> QED BY <3>1, <3>2
  <2>4. index \in [Hash -> 0 .. k]
    BY <2>1, <2>2 DEF Types, Numbered
  <2>5. ASSUME NEW h \in Hash PROVE Cardinality(votes[h]) <= 1
    <3>1. CASE votes[h] = {}
      BY <3>1, FS_EmptySet
    <3>2. ASSUME NEW x, votes[h] = {x} PROVE Cardinality(votes[h]) <= 1
      <4>1. Cardinality({x}) = 1
        BY FS_Singleton
      <4> QED BY <3>2, <4>1
    <3> QED BY <2>2, <3>1, <3>2 DEF Types
  <2>6. ASSUME NEW v \in Voter, NEW c \in voting[v]
        PROVE  c \in [step : {"look", "raise", "write"}, hash : Hash, number : 0 .. k, votes : Votes]
    <3>1. c \in Voting
      BY <2>2 DEF Types
    <3>2. c \in Raising
      BY RaisingMembers
    <3>3. c.number <= k
      BY <2>1, <3>2 DEF Numbered
    <3> QED BY <3>1, <3>3 DEF Voting
  <2>7. ASSUME NEW o \in Creator, NEW c \in creating[o]
        PROVE  c \in [step : {"insert", "look", "raise"}, hash : Hash, number : 0 .. k,
                      height : Heights]
    <3>1. c \in Creating
      BY <2>2 DEF Types
    <3>2. c \in Raising
      BY RaisingMembers
    <3>3. c.number <= k
      BY <2>1, <3>2 DEF Numbered
    <3> QED BY <3>1, <3>3 DEF Creating
  <2>8. ASSUME NEW i \in Initializer, NEW c \in tracking[i]
        PROVE  c \in [step : {"number", "register", "index"}, hash : Hash, number : 0 .. k + 1]
    <3>1. c \in Tracking /\ c.number <= k + 1
      BY <2>1, <2>2 DEF Types, Numbered
    <3> QED BY <3>1 DEF Tracking
  <2>9. /\ voting \in [Voter -> SUBSET [step : {"look", "raise", "write"}, hash : Hash,
                                        number : 0 .. Len(stages), votes : Votes]]
        /\ tracking \in [Initializer -> SUBSET [step : {"number", "register", "index"},
                                                hash : Hash, number : 0 .. Len(stages) + 1]]
        /\ creating \in [Creator -> SUBSET [step : {"insert", "look", "raise"}, hash : Hash,
                                            number : 0 .. Len(stages), height : Heights]]
    BY <2>2, <2>3, <2>6, <2>7, <2>8 DEF Types
  <2> QED BY <2>2, <2>3, <2>4, <2>5, <2>9 DEF Types, TypeOK, Stage
<1> QED BY Initially, Inductive, <1>1, PTL DEF Spec

\* The number race stays between the calls that race, for any number of tasks: a
\* block whose initialization overlapped no other is never reported Global or
\* Deep on the votes of another.
THEOREM FinalityIsItsOwn == Spec => []FinalityIsOwn
<1>1. Inv => FinalityIsOwn
  <2> SUFFICES ASSUME Inv, NEW h \in Hash \ contended, Finality(h) >= Global
               PROVE  h \in quorum
    BY DEF FinalityIsOwn
  <2>1. PICK k \in Nat : Numbered(k) /\ Owned(k)
    BY DEF Inv
  <2>2. index[h] \in DOMAIN stages
    BY DEF Finality, Global, Pending
  <2>3. index[h] # Untracked
    BY <2>1, <2>2 DEF Numbered, Untracked
  <2>4. OwnNumber(h)
    BY <2>1, <2>3 DEF Owned
  <2>5. stages[index[h]] # Pending
    BY <2>2 DEF Finality, Global, Pending
  <2> QED BY <2>4, <2>5 DEF OwnNumber
<1> QED BY Initially, Inductive, <1>1, PTL DEF Spec
=============================================================================

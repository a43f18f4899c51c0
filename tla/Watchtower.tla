----------------------------- MODULE Watchtower -----------------------------
(***************************************************************************)
(* The watchtower of a payment channel and its monitor task                *)
(* (crates/dchat-blockchain/src/watchtower.rs), composed with the channel  *)
(* manager whose challenge_close it calls in its client's name.            *)
(*                                                                         *)
(* The channel half is the closing half of PaymentChannel: the updates the *)
(* parties signed are given (StrayUpdates), and the parties' closes and    *)
(* pay-outs interleave with the tower.  The monitor is one task; every     *)
(* lock section and every await of a pass is an action of its own, and     *)
(* challenge_close runs in its sections of PaymentChannel.                 *)
(*                                                                         *)
(* The currency chain is external: `chain' is the nonces of the            *)
(* ChannelCloseInitiated events of this channel, one block each.  A close  *)
(* may be announced that this manager never saw.  Alerts, fees and state   *)
(* hashes are written and not read; an expired registration is active =    *)
(* FALSE.                                                                  *)
(***************************************************************************)
EXTENDS PaymentChannel

CONSTANTS
  Client,       \* the users for whom the channel is registered
  MaxEvents,    \* bound: close events on the chain
  MaxWatching   \* bound: registrations

ASSUME TowerAssumption ==
  /\ Client \subseteq Users
  /\ MaxEvents \in Nat /\ MaxWatching \in Nat

VARIABLES
  tower,      \* Watchtower.channels[id]
  watching,   \* history: registrations so far
  chain,      \* the close events of the channel, a block each
  running,    \* WatchtowerMonitor.running
  last,       \* WatchtowerMonitor.last_processed_block
  pass        \* poll_close_events in progress: its step and local variables

watch     == <<tower, watching, chain, running, last, pass>>
closeVars == <<channel, pending, challenges, fraud, updates, calls, hist>>
allVars   == <<closeVars, watch>>

Attempt == [submitted : Nat, latest : Nat, challenged : BOOLEAN]
Watched == [client : Client, latest : Update, active : BOOLEAN,
            attempts : Seq(Attempt), submitted : BOOLEAN]
Step == {"new", "stopped", "loop", "poll", "query", "check", "state", "party",
         "call", "wait", "advance"}
Pass == [step : Step, current : Nat, state : SUBSET Update, client : SUBSET Client]

Fresh(step) == [step |-> step, current |-> 0, state |-> {}, client |-> {}]

WatchInit ==
  /\ Init
  /\ tower = {} /\ watching = 0 /\ chain = <<>>
  /\ running = FALSE /\ last = 0 /\ pass = Fresh("new")

-----------------------------------------------------------------------------
(* The tower's operations, for any caller.                                 *)

\* register_channel: insert replaces an earlier registration of the channel,
\* its fraud attempts included.
RegisterChannel(p, u) ==
  /\ watching < MaxWatching
  /\ tower' = {[client |-> p, latest |-> u, active |-> TRUE, attempts |-> <<>>,
                submitted |-> FALSE]}
  /\ watching' = watching + 1
  /\ UNCHANGED <<closeVars, chain, running, last, pass>>

\* update_channel_state: newer is all that is asked of an update.
UpdateChannelState(u) ==
  \E w \in tower :
    /\ u.state.nonce > w.latest.state.nonce
    /\ tower' = {[w EXCEPT !.latest = u]}
    /\ UNCHANGED <<closeVars, watching, chain, running, last, pass>>

\* The time that was paid for is over.
Expire ==
  /\ \E w \in tower : w.active /\ tower' = {[w EXCEPT !.active = FALSE]}
  /\ UNCHANGED <<closeVars, watching, chain, running, last, pass>>

\* A block of the currency chain announces a close of the channel.
Announce(n) ==
  /\ Len(chain) < MaxEvents
  /\ chain' = Append(chain, n)
  /\ UNCHANGED <<closeVars, tower, watching, running, last, pass>>

-----------------------------------------------------------------------------
(* The monitor.                                                            *)

Start ==
  /\ pass.step = "new"
  /\ running' = TRUE /\ pass' = Fresh("loop")
  /\ UNCHANGED <<closeVars, tower, watching, chain, last>>

\* stop() before start() has written its flag is overwritten by it.
Stop ==
  /\ running' = FALSE
  /\ UNCHANGED <<closeVars, tower, watching, chain, last, pass>>

\* The loop looks at the flag, warns of expiring challenges (alerts only) and
\* removes the registrations that have expired.
Iterate ==
  /\ pass.step = "loop"
  /\ IF running
     THEN pass' = Fresh("poll") /\ tower' = {w \in tower : w.active}
     ELSE pass' = Fresh("stopped") /\ UNCHANGED tower
  /\ UNCHANGED <<closeVars, watching, chain, running, last>>

\* poll_close_events asks for the height; no new block, and an error, end the
\* pass.
Height ==
  /\ pass.step = "poll"
  /\ pass' = IF Len(chain) > last
             THEN [Fresh("query") EXCEPT !.current = Len(chain)] ELSE Fresh("loop")
  /\ UNCHANGED <<closeVars, tower, watching, chain, running, last>>
HeightFails ==
  /\ pass.step = "poll" /\ pass' = Fresh("loop")
  /\ UNCHANGED <<closeVars, tower, watching, chain, running, last>>

GoTo(step) == pass' = [pass EXCEPT !.step = step]

\* get_monitored_channels and get_unilateral_close_event: of the events in the
\* range only the first is returned, and a query that fails looks like a range
\* without one.
Query ==
  /\ pass.step = "query"
  /\ \/ GoTo("advance")
     \/ \E w \in tower : /\ chain[last + 1] < w.latest.state.nonce
                         /\ GoTo("check")
  /\ UNCHANGED <<closeVars, tower, watching, chain, running, last>>

\* check_for_fraud looks at the channel again, and records the attempt.
CheckForFraud ==
  /\ pass.step = "check"
  /\ LET n == chain[last + 1] IN
     \/ /\ \A w \in tower : ~w.active \/ n >= w.latest.state.nonce
        /\ GoTo("advance") /\ UNCHANGED tower
     \/ \E w \in tower :
          /\ w.active /\ n < w.latest.state.nonce
          /\ tower' = {[w EXCEPT !.attempts = Append(@,
               [submitted |-> n, latest |-> w.latest.state.nonce, challenged |-> FALSE])]}
          /\ GoTo("state")
  /\ UNCHANGED <<closeVars, watching, chain, running, last>>

\* submit_challenge clones the state, then reads for whom, in two sections.
ReadState ==
  /\ pass.step = "state"
  /\ pass' = IF tower = {} THEN [pass EXCEPT !.step = "advance"]
             ELSE [pass EXCEPT !.step = "party", !.state = {w.latest : w \in tower}]
  /\ UNCHANGED <<closeVars, tower, watching, chain, running, last>>
ReadParty ==
  /\ pass.step = "party"
  /\ pass' = IF tower = {} THEN [pass EXCEPT !.step = "advance"]
             ELSE [pass EXCEPT !.step = "call", !.client = {w.client : w \in tower}]
  /\ UNCHANGED <<closeVars, tower, watching, chain, running, last>>

\* Slip: an error of challenge_close is not returned to the caller.
RefusedSlip == \E p \in pass.client, u \in pass.state :
  /\ \A c \in pending : ~MayChallenge(c, p, u)
  /\ GoTo("wait") /\ UNCHANGED closeVars

\* Slip: the challenge is tried until it is accepted.
RefusedRetrySlip == \E p \in pass.client, u \in pass.state :
  /\ \A c \in pending : ~MayChallenge(c, p, u)
  /\ UNCHANGED <<pass, closeVars>>

\* challenge_close refuses; submit_challenge returns the error, which the
\* monitor logs.
Refused == \E p \in pass.client, u \in pass.state :
  /\ \A c \in pending : ~MayChallenge(c, p, u)
  /\ GoTo("advance") /\ UNCHANGED closeVars

SubmitChallenge ==
  /\ pass.step = "call"
  /\ \/ \E p \in pass.client, u \in pass.state : ChallengeClose(p, u) /\ GoTo("wait")
     \/ Refused
  /\ UNCHANGED <<tower, watching, chain, running, last>>

ChallengeSection(p) ==
  PushFraud(p) \/ MarkChallenged(p) \/ MarkDisputed(p) \/ RecordChallenge(p)

\* The sections of challenge_close that the monitor is in.
Challenging ==
  /\ pass.step = "wait"
  /\ \E p \in pass.client : ChallengeSection(p)
  /\ UNCHANGED watch

\* The most recent fraud attempt, if there is one, is marked as challenged.
MarkLast(attempts) ==
  [i \in 1 .. Len(attempts) |->
     IF i = Len(attempts) THEN [attempts[i] EXCEPT !.challenged = TRUE]
     ELSE attempts[i]]

\* challenge_close has returned: the channel is marked, and the most recent
\* fraud attempt with it.
ChallengeSubmitted ==
  /\ pass.step = "wait"
  /\ \A p \in pass.client : challenging[p] = {}
  /\ tower' = {[w EXCEPT !.submitted = TRUE, !.attempts = MarkLast(@)] : w \in tower}
  /\ GoTo("advance")
  /\ UNCHANGED <<closeVars, watching, chain, running, last>>

\* Slip: the next block is taken for processed as well.
AdvancedSlip ==
  /\ pass.step = "advance"
  /\ last' = pass.current + 1 /\ pass' = Fresh("loop")
  /\ UNCHANGED <<closeVars, tower, watching, chain, running>>

\* Whatever came of the events, their blocks are processed.
Advanced ==
  /\ pass.step = "advance"
  /\ last' = pass.current /\ pass' = Fresh("loop")
  /\ UNCHANGED <<closeVars, tower, watching, chain, running>>

MonitorStep ==
  \/ Start \/ Iterate \/ Height \/ HeightFails \/ Query \/ CheckForFraud
  \/ ReadState \/ ReadParty \/ SubmitChallenge \/ Challenging
  \/ ChallengeSubmitted \/ Advanced

-----------------------------------------------------------------------------
\* The parties close by themselves and leave their challenges to the tower.
PartyStep ==
  /\ \/ \E p \in Users, u \in updates : InitiateClose(p, u)
     \/ \E p \in Users : RecordClose(p)
     \/ FinalizeClose \/ SettleClose \/ Tick
  /\ UNCHANGED watch

WatchNext ==
  \/ \E p \in Client, u \in updates : RegisterChannel(p, u)
  \/ \E u \in updates : UpdateChannelState(u)
  \/ Expire
  \/ \E u \in updates : Announce(u.state.nonce)
  \/ Stop \/ MonitorStep \/ PartyStep

\* The monitor is a task of its own that never waits for another (the locks
\* are held for a section only), and its height query is answered now and then
\* if it is made for ever.
WatchSpec == /\ WatchInit /\ [][WatchNext]_allVars
             /\ WF_allVars(MonitorStep) /\ SF_allVars(Height)

-----------------------------------------------------------------------------
(* Properties.                                                             *)

\* Every variable keeps its type, and the monitor never runs ahead of the chain.
WatchTypeOK ==
  /\ tower \subseteq Watched /\ watching \in 0 .. MaxWatching
  /\ chain \in Seq(Nat) /\ running \in BOOLEAN
  /\ last \in 0 .. Len(chain)
  /\ pass \in Pass /\ pass.current \in 0 .. Len(chain)

\* A fraud attempt the tower shows as challenged was answered: the manager
\* holds a fraud event on the strength of a state at least as new as the one
\* the attempt was detected with, although the registration, the pending close
\* and the known state may all have changed on the way to challenge_close.
ChallengedIsRecorded ==
  \A w \in tower : \A i \in 1 .. Len(w.attempts) : w.attempts[i].challenged =>
    \E k \in 1 .. Len(fraud) : fraud[k].actual >= w.attempts[i].latest

\* The monitor keeps up: a block is processed in the end, through refused
\* challenges, failed queries and registrations that come and go, unless the
\* monitor is stopped or was never started.
BlocksAreProcessed ==
  \A k \in 1 .. MaxEvents :
    (Len(chain) >= k) ~> (last >= k \/ ~running)
=============================================================================

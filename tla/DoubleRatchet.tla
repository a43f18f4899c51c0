---------------------------- MODULE DoubleRatchet ----------------------------
(***************************************************************************)
(* Two DoubleRatchet sessions (crates/dchat-crypto/src/ratchet) and the    *)
(* network between them, which loses, reorders and duplicates messages.    *)
(*                                                                         *)
(* Cryptography is symbolic.  A DH public key is a number, drawn fresh;    *)
(* the output of a DH exchange is the unordered pair of the two keys; a    *)
(* root key is the sequence of the DH outputs mixed into it, so that two   *)
(* sessions hold the same root key exactly when they mixed in the same     *)
(* outputs.  A chain key is the root key it was derived with and its       *)
(* index, which is also what identifies the message key derived from it.   *)
(* A ciphertext opens only with the message key it was sealed with.  An    *)
(* Option is a set of at most one element.                                 *)
(***************************************************************************)
EXTENDS Integers, Sequences, FiniteSets, FiniteSetsExt

CONSTANTS
  Alice, Bob,     \* the initiator and the responder of X3DH
  MaxSkip,        \* SessionConfig::max_skip
  MaxStored,      \* SkippedMessageKeys::max_keys
  Evicted,        \* max_keys / 10: entries evicted when the store is full
  MaxSent,        \* bound: messages encrypted
  MaxDhKeys       \* bound: DH key pairs generated

ASSUME RatchetAssumption ==
  /\ Alice # Bob
  /\ MaxSkip \in Nat /\ MaxStored \in Nat /\ Evicted \in Nat \ {0}
  /\ Evicted <= MaxStored
  /\ MaxSent \in Nat /\ MaxDhKeys \in Nat

Party == {Alice, Bob}
Peer(p) == IF p = Alice THEN Bob ELSE Alice

VARIABLES
  session,    \* the two DoubleRatchet values
  dhKeys,     \* how many DH key pairs exist; the next one has this number
  sent,       \* every message encrypted so far; delivery never removes it
  arrived,    \* history: messages given to decrypt at least once
  opened,     \* history: messages decrypted
  reopened,   \* history: messages decrypted more than once
  forgotten,  \* history: messages whose stored key expired or was evicted
  seen,       \* history: the peer keys each session has ratcheted to
  stepsBack   \* history: messages on which a session ratcheted to a seen key

hist == <<arrived, opened, reopened, forgotten, seen, stepsBack>>
vars == <<session, dhKeys, sent, hist>>

DhOutput == SUBSET Nat
RootKey == Seq(DhOutput)
ChainKey == [root : RootKey, index : Nat]
Entry == [dh : Nat, n : Nat, key : ChainKey, old : BOOLEAN]
Message == [from : Party, dh : Nat, pn : Nat, n : Nat, key : ChainKey]
Session == [root : RootKey, self : Nat, peer : SUBSET Nat,
            sending : SUBSET ChainKey, receiving : SUBSET ChainKey,
            pn : Nat, skipped : SUBSET Entry,
            state : {"ReadyToSend", "WaitingForReply", "Active"}]

\* init_sender: the initiator mixes in the DH of its first key with the
\* responder's signed pre-key, which is key 0 (ChainKey::from_root_key).
InitSender == LET root == <<{0, 1}>> IN
  [root |-> root, self |-> 1, peer |-> {0},
   sending |-> {[root |-> root, index |-> 0]}, receiving |-> {},
   pn |-> 0, skipped |-> {}, state |-> "ReadyToSend"]

\* init_receiver
InitReceiver ==
  [root |-> <<>>, self |-> 0, peer |-> {}, sending |-> {}, receiving |-> {},
   pn |-> 0, skipped |-> {}, state |-> "WaitingForReply"]

Init ==
  /\ session = [p \in Party |-> IF p = Alice THEN InitSender ELSE InitReceiver]
  /\ dhKeys = 2 /\ sent = {}
  /\ arrived = {} /\ opened = {} /\ reopened = {} /\ forgotten = {}
  /\ seen = [p \in Party |-> {}] /\ stepsBack = {}

-----------------------------------------------------------------------------
(* Sending.                                                                *)

\* Slips: the chain stays where it is when a message key is taken from it, or
\* counts down.
AdvancedSlip(c) == c
AdvancedDownSlip(c) == [c EXCEPT !.index = @ - 1]

\* ChainKey::derive_message_key: the chain key is replaced by its successor.
Advanced(c) == [c EXCEPT !.index = @ + 1]

\* encrypt
Encrypt(p) ==
  /\ Cardinality(sent) < MaxSent
  /\ \E c \in session[p].sending :
       /\ sent' = sent \cup {[from |-> p, dh |-> session[p].self,
                              pn |-> session[p].pn, n |-> c.index, key |-> c]}
       /\ session' = [session EXCEPT ![p].sending = {Advanced(c)},
                                     ![p].state = "Active"]
  /\ UNCHANGED <<dhKeys, hist>>

-----------------------------------------------------------------------------
(* The store of skipped message keys.                                      *)

\* The keys ChainKey::skip_to derives on the way to index n, as entries.
Skipped(dh, c, n) ==
  {[dh |-> dh, n |-> i, key |-> [c EXCEPT !.index = i], old |-> FALSE] :
     i \in c.index .. n - 1}

\* The stores that store may leave of one entry: evict_oldest makes room in a
\* full store before a look is taken at the id, and an entry with the same id is
\* replaced.  Entries of one age are in the order of a hash map, which may be any.
Store(store, e) ==
  LET oldest == {o \in kSubset(Evicted, store) : \A x \in o, y \in store \ o : y.old => x.old}
  IN {{f \in store \ o : <<f.dh, f.n>> # <<e.dh, e.n>>} \cup {e} :
        o \in IF Cardinality(store) >= MaxStored THEN oldest ELSE {{}}}

\* The stores that store_many may leave: the new entries are stored one by one,
\* by their index, so that one of them may be evicted for a later one.
StoreMany(store, new) ==
  IF new = {} THEN {store}
  ELSE LET first == Min({e.n : e \in new})
           last == Max({e.n : e \in new})
           stores == SUBSET (store \cup new)
       IN {t \in stores : \E after \in [first - 1 .. last -> stores] :
             /\ after[first - 1] = store /\ after[last] = t
             /\ \A i \in first .. last : \E e \in new :
                  e.n = i /\ after[i] \in Store(after[i - 1], e)}

\* The messages whose key was to be in the store and is not.
Dropped(owed, store) ==
  {m \in sent : \E e \in owed \ store : e.dh = m.dh /\ e.n = m.n}

-----------------------------------------------------------------------------
(* Receiving.                                                              *)

\* How many keys of chain c are skipped to reach index n.
Gap(c, n) == IF n > c.index THEN n - c.index ELSE 0

\* Slip: the new key pair is generated before the receiving chain is derived.
RatchetStepSlip(s, dh, fresh) ==
  LET received == Append(s.root, {fresh, dh})
      next     == Append(received, {fresh, dh})
  IN [s EXCEPT !.root = next, !.self = fresh, !.peer = {dh},
        !.receiving = {[root |-> received, index |-> 0]},
        !.sending = {[root |-> next, index |-> 0]},
        !.pn = IF s.sending = {} THEN 0 ELSE (CHOOSE c \in s.sending : TRUE).index]

\* dh_ratchet_step once the rest of the old receiving chain is stored: a new
\* receiving chain with our present key, then a new key of our own and a new
\* sending chain with that.
RatchetStep(s, dh, fresh) ==
  LET received == Append(s.root, {s.self, dh})
      next     == Append(received, {fresh, dh})
  IN [s EXCEPT
        !.root = next, !.self = fresh, !.peer = {dh},
        !.receiving = {[root |-> received, index |-> 0]},
        !.sending = {[root |-> next, index |-> 0]},
        !.pn = IF s.sending = {} THEN 0 ELSE (CHOOSE c \in s.sending : TRUE).index]

\* Slip: the last key owed is taken for one that was used.
RestSlip(s, m) == UNION {Skipped(dh, c, m.pn - 1) : dh \in s.peer, c \in s.receiving}

\* The keys the present receiving chain still owes when the peer has left it
\* at index m.pn.
Rest(s, m) == UNION {Skipped(dh, c, m.pn) : dh \in s.peer, c \in s.receiving}

\* The sessions dh_ratchet_step may leave; none when it refuses, which it does
\* before it changes anything.
Ratcheted(s, m) ==
  IF \E c \in s.receiving : Gap(c, m.pn) > MaxSkip THEN {}
  ELSE {[RatchetStep(s, m.dh, dhKeys) EXCEPT !.skipped = t] :
          t \in StoreMany(s.skipped, Rest(s, m))}

NeedsRatchet(s, m) == s.peer # {m.dh}

Arrives(p, m) ==
  /\ arrived' = arrived \cup {m}
  /\ UNCHANGED sent

Opens(m, ok) ==
  /\ opened' = IF ok THEN opened \cup {m} ELSE opened
  /\ reopened' = IF ok /\ m \in opened THEN reopened \cup {m} ELSE reopened

\* The part of decrypt that needs the chain, from session s: keys are skipped
\* up to the message, the chain advances, and only then is the ciphertext
\* opened.  A message too far ahead or behind the chain leaves s as it is.
FromChain(p, m, s, owed) ==
  \E c \in s.receiving :
    IF Gap(c, m.n) > MaxSkip \/ m.n < c.index
    THEN /\ session' = [session EXCEPT ![p] = s]
         /\ Opens(m, FALSE)
         /\ forgotten' = forgotten \cup Dropped(owed, s.skipped)
    ELSE LET at  == [c EXCEPT !.index = m.n]
             new == Skipped(m.dh, c, m.n)
         IN \E t \in StoreMany(s.skipped, new) :
              /\ session' = [session EXCEPT ![p] = [s EXCEPT
                   !.receiving = {Advanced(at)}, !.skipped = t,
                   !.state = IF at = m.key THEN "Active" ELSE @]]
              /\ Opens(m, at = m.key)
              /\ forgotten' = forgotten \cup Dropped(owed \cup new, t)

\* decrypt, when the key of the message was stored: it is taken out of the
\* store, whether or not it opens the ciphertext.
DecryptSkipped(p, m) ==
  \E e \in session[p].skipped :
    /\ e.dh = m.dh /\ e.n = m.n
    /\ session' = [session EXCEPT ![p].skipped = @ \ {e}]
    /\ Opens(m, e.key = m.key)
    /\ Arrives(p, m)
    /\ UNCHANGED <<dhKeys, forgotten, seen, stepsBack>>

NotStored(s, m) == \A e \in s.skipped : ~(e.dh = m.dh /\ e.n = m.n)

\* decrypt on the current receiving chain.
DecryptChain(p, m) ==
  /\ NotStored(session[p], m) /\ ~NeedsRatchet(session[p], m)
  /\ session[p].receiving # {}
  /\ FromChain(p, m, session[p], session[p].skipped)
  /\ Arrives(p, m)
  /\ UNCHANGED <<dhKeys, seen, stepsBack>>

\* decrypt of a message with another ratchet key than the current one.
DecryptRatchet(p, m) ==
  /\ NotStored(session[p], m) /\ NeedsRatchet(session[p], m)
  /\ dhKeys < MaxDhKeys
  /\ \E s \in Ratcheted(session[p], m) :
       FromChain(p, m, s, session[p].skipped \cup Rest(session[p], m))
  /\ dhKeys' = dhKeys + 1
  /\ seen' = [seen EXCEPT ![p] = @ \cup {m.dh}]
  /\ stepsBack' = IF m.dh \in seen[p] THEN stepsBack \cup {m} ELSE stepsBack
  /\ Arrives(p, m)

\* decrypt, when the ratchet step refuses to skip that many keys.
DecryptRefused(p, m) ==
  /\ NotStored(session[p], m) /\ NeedsRatchet(session[p], m)
  /\ Ratcheted(session[p], m) = {}
  /\ Arrives(p, m)
  /\ UNCHANGED <<session, dhKeys, opened, reopened, forgotten, seen, stepsBack>>

\* cleanup_expired_keys
CleanupExpiredKeys(p) ==
  LET live == {e \in session[p].skipped : ~e.old}
  IN /\ session' = [session EXCEPT ![p].skipped = live]
     /\ forgotten' = forgotten \cup Dropped(session[p].skipped, live)
     /\ UNCHANGED <<dhKeys, sent, arrived, opened, reopened, seen, stepsBack>>

\* max_skipped_key_age_secs pass: everything stored so far is expired.
Age ==
  /\ session' = [p \in Party |-> [session[p] EXCEPT
       !.skipped = {[e EXCEPT !.old = TRUE] : e \in @}]]
  /\ UNCHANGED <<dhKeys, sent, hist>>

Next ==
  \/ \E p \in Party : Encrypt(p)
  \/ \E p \in Party : \E m \in {x \in sent : x.from # p} :
       \/ DecryptSkipped(p, m)
       \/ DecryptChain(p, m)
       \/ DecryptRatchet(p, m)
       \/ DecryptRefused(p, m)
  \/ \E p \in Party : CleanupExpiredKeys(p)
  \/ Age

Spec == Init /\ [][Next]_vars

-----------------------------------------------------------------------------
(* Properties.                                                             *)

\* Every variable keeps its type.
TypeOK ==
  /\ session \in [Party -> Session]
  /\ dhKeys \in Nat
  /\ sent \subseteq Message
  /\ arrived \subseteq sent /\ opened \subseteq arrived
  /\ reopened \subseteq opened /\ forgotten \subseteq sent
  /\ seen \in [Party -> SUBSET Nat]
  /\ stepsBack \subseteq arrived

\* What a session can still derive: the stored keys, and the keys its chains
\* will come to.
Derivable(s, k) ==
  \/ \E e \in s.skipped : e.key = k
  \/ \E c \in s.sending \cup s.receiving : c.root = k.root /\ c.index <= k.index

\* "Forward Secrecy: Past messages cannot be decrypted if current keys are
\* compromised": the key of a message that was decrypted can be derived from
\* neither session any more, whatever was lost, reordered or delivered again.
\* It follows that no message is decrypted twice.
ForwardSecrecy ==
  /\ \A m \in opened, p \in Party : ~Derivable(session[p], m.key)
  /\ reopened = {}

\* A message too far ahead of what its receiver has seen.
TooFar(s, m) ==
  IF NeedsRatchet(s, m)
  THEN m.n > MaxSkip \/ \E c \in s.receiving : Gap(c, m.pn) > MaxSkip
  ELSE \E c \in s.receiving : Gap(c, m.n) > MaxSkip

\* "Out-of-order messages can be decrypted (with limits)": until some session
\* has been taken back to an old ratchet key, the first delivery of a message
\* decrypts it, in whatever order the messages of both parties and of several
\* chains arrive; the limits are max_skip, and the age and the number of the
\* stored keys.
FirstDeliveryOpens ==
  [][\A m \in arrived' \ arrived :
       \/ m \in opened'
       \/ stepsBack' # {}
       \/ TooFar(session[Peer(m.from)], m)
       \/ m \in forgotten]_vars

\* The first time a session ratchets back to a key it has left, it is on a
\* message it was given before or whose stored key it dropped: in a network
\* that neither duplicates messages nor delays them beyond the age of a key or
\* until it is evicted, no session ever steps back.
StepsBackAreRepeats ==
  [][stepsBack = {} => stepsBack' \subseteq arrived \cup forgotten]_vars
=============================================================================

------------------------ MODULE DoubleRatchet_proofs ------------------------
(***************************************************************************)
(* Proof that DoubleRatchet keeps forward secrecy, and that a message      *)
(* opens when it is first delivered, for every number of messages, of      *)
(* ratchet steps and every limit on skipped keys.                          *)
(*                                                                         *)
(* Forward secrecy is an argument about the length of root keys.  Whatever *)
(* a session can derive after a step it could derive before, or it belongs *)
(* to a chain whose root key is longer than the session's was (Recedes);   *)
(* and the chains of every message opened or sent have root keys that are  *)
(* at most as long.  So nothing that was once given up comes back.         *)
(*                                                                         *)
(* That messages open rests on the two sessions taking turns (Linked), as  *)
(* they do until one of them steps back to a key it has left.              *)
(***************************************************************************)
EXTENDS DoubleRatchet, SequenceTheorems, FiniteSetTheorems, WellFoundedInduction, TLAPS

\* What a session looks like between two operations.
Shape(s) ==
  /\ \A c \in s.sending : c.root = s.root
  /\ \A c \in s.receiving : Len(c.root) < Len(s.root)
  /\ \A e \in s.skipped : Len(e.key.root) < Len(s.root)
  /\ \A e \in s.skipped, c \in s.receiving :
       e.key.root = c.root => e.key.index < c.index
  /\ \A e, f \in s.skipped : e.key = f.key => e = f
  /\ \A c, d \in s.receiving : c = d
  /\ \A a, b \in s.peer : a = b

\* What session t can derive was derivable from s, or its chain is newer than s.
Recedes(s, t) ==
  /\ Len(s.root) <= Len(t.root)
  /\ \A k \in ChainKey :
       Derivable(t, k) => Derivable(s, k) \/ Len(k.root) > Len(s.root)

\* Session s has given up key k for good.
GivenUp(s, k) == Len(k.root) <= Len(s.root) /\ ~Derivable(s, k)

\* The inductive invariant.
IInv ==
  /\ TypeOK
  /\ \A p \in Party : Shape(session[p])
  /\ \A m \in sent : GivenUp(session[m.from], m.key)
  /\ \A m \in opened, p \in Party : GivenUp(session[p], m.key)
  /\ reopened = {}

-----------------------------------------------------------------------------
(* The store and the chains.                                               *)

LEMMA StoreManyBound ==
  ASSUME NEW store, NEW new, NEW t \in StoreMany(store, new)
  PROVE  t \subseteq store \cup new
BY DEF StoreMany

\* skip_to files keys of the chain it is given, below the index it goes to.
LEMMA SkippedKeys ==
  ASSUME NEW dh \in Nat, NEW c \in ChainKey, NEW n \in Nat,
         NEW e \in Skipped(dh, c, n)
  PROVE  /\ e \in Entry
         /\ e.key.root = c.root
         /\ c.index <= e.key.index /\ e.key.index < n
         /\ e = [dh |-> dh, n |-> e.key.index, key |-> e.key, old |-> FALSE]
<1>1. PICK i \in c.index .. n - 1 :
        e = [dh |-> dh, n |-> i, key |-> [c EXCEPT !.index = i], old |-> FALSE]
      BY DEF Skipped
<1>2. c.index \in Nat /\ i \in Nat /\ c.index <= i /\ i < n BY DEF ChainKey
<1>3. [c EXCEPT !.index = i] \in ChainKey BY <1>2 DEF ChainKey
<1>4. e \in Entry BY <1>1, <1>2, <1>3 DEF Entry
<1>5. e.key.root = c.root /\ e.key.index = i BY <1>1 DEF ChainKey
<1> QED BY <1>1, <1>2, <1>4, <1>5

\* Taking the key of a message from the receiving chain gives that key up, and
\* brings nothing back.
LEMMA ChainStep ==
  ASSUME NEW s \in Session, Shape(s), NEW m \in Message,
         NEW c \in s.receiving, ~(m.n < c.index),
         NEW t \in StoreMany(s.skipped, Skipped(m.dh, c, m.n)),
         NEW st \in {"ReadyToSend", "WaitingForReply", "Active"},
         NEW at, at = [c EXCEPT !.index = m.n],
         NEW u, u = [s EXCEPT !.receiving = {Advanced(at)}, !.skipped = t,
                              !.state = st]
  PROVE  /\ u \in Session /\ Shape(u) /\ Recedes(s, u)
         /\ at \in ChainKey /\ GivenUp(u, at) /\ Derivable(s, at)
<1>1. c \in ChainKey /\ m.n \in Nat /\ m.dh \in Nat /\ c.index \in Nat
      /\ c.index <= m.n
      BY DEF Session, Message, ChainKey
<1>2. /\ at \in ChainKey /\ at.root = c.root /\ at.index = m.n
      /\ Advanced(at) \in ChainKey /\ Advanced(at).root = c.root
      /\ Advanced(at).index = m.n + 1
  <2>1. at \in ChainKey /\ at.root = c.root /\ at.index = m.n
        BY <1>1 DEF ChainKey
  <2>2. Advanced(at) = [at EXCEPT !.index = m.n + 1] BY <2>1 DEF Advanced
  <2>3. m.n + 1 \in Nat BY <1>1
  <2>4. ASSUME NEW i \in Nat
        PROVE  /\ [at EXCEPT !.index = i] \in ChainKey
               /\ [at EXCEPT !.index = i].root = at.root
               /\ [at EXCEPT !.index = i].index = i
        BY <2>1 DEF ChainKey
  <2> QED BY <2>1, <2>2, <2>3, <2>4
<1>3. t \subseteq s.skipped \cup Skipped(m.dh, c, m.n) BY StoreManyBound
<1>4. \A e \in Skipped(m.dh, c, m.n) :
        /\ e \in Entry /\ e.key.root = c.root
        /\ c.index <= e.key.index /\ e.key.index < m.n
        /\ e = [dh |-> m.dh, n |-> e.key.index, key |-> e.key, old |-> FALSE]
      BY <1>1, SkippedKeys
<1>5. t \subseteq Entry BY <1>3, <1>4 DEF Session
<1>6. /\ u \in Session /\ u.root = s.root /\ u.sending = s.sending
      /\ u.receiving = {Advanced(at)} /\ u.skipped = t /\ u.peer = s.peer
      BY <1>2, <1>5 DEF Session
<1>7. s.root \in RootKey /\ Len(s.root) \in Nat /\ c.root \in RootKey
      /\ Len(c.root) \in Nat /\ Len(c.root) < Len(s.root)
      BY <1>1 DEF Session, Shape, ChainKey, RootKey
<1>8. \A e \in t : /\ Len(e.key.root) < Len(s.root)
                   /\ e.key.root = c.root => e.key.index < m.n
  <2> SUFFICES ASSUME NEW e \in t
               PROVE  /\ Len(e.key.root) < Len(s.root)
                      /\ e.key.root = c.root => e.key.index < m.n
      OBVIOUS
  <2>1. CASE e \in Skipped(m.dh, c, m.n) BY <2>1, <1>4, <1>7
  <2>2. CASE e \in s.skipped
    <3>1. e.key.index \in Nat BY <2>2 DEF Session, Entry, ChainKey
    <3> QED BY <2>2, <3>1, <1>1 DEF Shape
  <2> QED BY <2>1, <2>2, <1>3
<1>9. \A e \in t : e.key.index \in Nat BY <1>5 DEF Entry, ChainKey
<1>10. Shape(u)
  <2>1. ASSUME NEW e \in t, NEW f \in t, e.key = f.key PROVE e = f
    <3>1. CASE e \in s.skipped /\ f \in s.skipped BY <2>1, <3>1 DEF Shape
    <3>2. CASE e \in Skipped(m.dh, c, m.n) /\ f \in Skipped(m.dh, c, m.n)
          BY <2>1, <3>2, <1>4
    <3>3. ASSUME NEW x \in s.skipped, NEW y \in Skipped(m.dh, c, m.n)
          PROVE  x.key # y.key
      <4>1. x.key.root = c.root => x.key.index < c.index BY DEF Shape
      <4>2. y.key.root = c.root /\ c.index <= y.key.index BY <1>4
      <4>3. x.key.index \in Nat BY DEF Session, Entry, ChainKey
      <4> QED BY <4>1, <4>2, <4>3, <1>1
    <3> QED BY <2>1, <3>1, <3>2, <3>3, <1>3
  <2> QED BY <1>2, <1>6, <1>7, <1>8, <1>9, <1>1, <2>1 DEF Shape
<1>11. Recedes(s, u)
  <2> SUFFICES ASSUME NEW k \in ChainKey, Derivable(u, k)
               PROVE  Derivable(s, k) \/ Len(k.root) > Len(s.root)
      BY <1>6, <1>7 DEF Recedes
  <2>0. k.index \in Nat BY DEF ChainKey
  <2>1. CASE \E e \in u.skipped : e.key = k
    <3>1. PICK e \in t : e.key = k BY <2>1, <1>6
    <3>2. CASE e \in s.skipped BY <3>1, <3>2 DEF Derivable
    <3>3. CASE e \in Skipped(m.dh, c, m.n)
          BY <3>1, <3>3, <1>4 DEF Derivable
    <3> QED BY <3>2, <3>3, <1>3
  <2>2. CASE \E d \in u.sending \cup u.receiving : d.root = k.root /\ d.index <= k.index
    <3>1. PICK d \in u.sending \cup u.receiving : d.root = k.root /\ d.index <= k.index
          BY <2>2
    <3>2. CASE d \in s.sending BY <3>1, <3>2 DEF Derivable
    <3>3. CASE d = Advanced(at)
      <4>1. c.root = k.root /\ c.index <= k.index BY <3>1, <3>3, <1>1, <1>2, <2>0
      <4> QED BY <4>1 DEF Derivable
    <3> QED BY <3>1, <3>2, <3>3, <1>6
  <2> QED BY <2>1, <2>2 DEF Derivable
<1>12. Derivable(s, at) BY <1>1, <1>2 DEF Derivable
<1>13. ~Derivable(u, at)
  <2>1. \A e \in t : e.key.root = at.root => e.key.index < at.index
        BY <1>2, <1>8
  <2>2. \A d \in u.sending : d.root # at.root BY <1>2, <1>6, <1>7 DEF Shape
  <2>3. \A d \in u.receiving : ~(d.index <= at.index) BY <1>2, <1>6, <1>1
  <2>4. ASSUME NEW e \in t, e.key = at PROVE FALSE
    <3>1. at.index < at.index BY <2>1, <2>4
    <3>2. at.index \in Nat BY <1>1, <1>2
    <3> QED BY <3>1, <3>2
  <2> QED BY <2>2, <2>3, <2>4, <1>6 DEF Derivable
<1> QED BY <1>2, <1>6, <1>7, <1>10, <1>11, <1>12, <1>13 DEF GivenUp

\* A ratchet step starts chains that are longer than anything before.
LEMMA RatchetLemma ==
  ASSUME NEW s \in Session, Shape(s), NEW m \in Message, dhKeys \in Nat,
         NEW u \in Ratcheted(s, m)
  PROVE  u \in Session /\ Shape(u) /\ Recedes(s, u)
<1> DEFINE received == Append(s.root, {s.self, m.dh})
           next == Append(received, {dhKeys, m.dh})
<1>1. PICK t \in StoreMany(s.skipped, Rest(s, m)) :
        u = [RatchetStep(s, m.dh, dhKeys) EXCEPT !.skipped = t]
      BY DEF Ratcheted
<1>2. /\ s.root \in RootKey /\ s.self \in Nat /\ m.dh \in Nat /\ m.pn \in Nat
      /\ \A dh \in s.peer : dh \in Nat
      /\ \A c \in s.receiving : c \in ChainKey
      BY DEF Session, Message
<1>3. /\ received \in RootKey /\ Len(received) = Len(s.root) + 1
      /\ Len(s.root) \in Nat
      BY <1>2 DEF RootKey, DhOutput
<1>4. next \in RootKey /\ Len(next) = Len(s.root) + 2
      BY <1>2, <1>3 DEF RootKey, DhOutput
<1>5. \A e \in Rest(s, m) : \E c \in s.receiving :
        /\ e \in Entry /\ e.key.root = c.root /\ c.index <= e.key.index
        /\ \E dh \in s.peer :
             e = [dh |-> dh, n |-> e.key.index, key |-> e.key, old |-> FALSE]
      BY <1>2, SkippedKeys DEF Rest
<1>6. t \subseteq s.skipped \cup Rest(s, m) BY StoreManyBound
<1>7. t \subseteq Entry BY <1>5, <1>6 DEF Session
<1>8. ASSUME s.sending # {} PROVE (CHOOSE c \in s.sending : TRUE).index \in Nat
      BY <1>8 DEF Session, ChainKey
<1>9. /\ u \in Session /\ u.root = next /\ u.skipped = t
      /\ u.receiving = {[root |-> received, index |-> 0]}
      /\ u.sending = {[root |-> next, index |-> 0]} /\ u.peer = {m.dh}
  <2> DEFINE n == IF s.sending = {} THEN 0 ELSE (CHOOSE c \in s.sending : TRUE).index
  <2>1. n \in Nat BY <1>8
  <2>2. u = [s EXCEPT !.root = next, !.self = dhKeys, !.peer = {m.dh},
               !.receiving = {[root |-> received, index |-> 0]},
               !.sending = {[root |-> next, index |-> 0]},
               !.pn = n, !.skipped = t]
        BY <1>1 DEF RatchetStep, Session
  <2>3. [root |-> received, index |-> 0] \in ChainKey
        /\ [root |-> next, index |-> 0] \in ChainKey
        BY <1>3, <1>4 DEF ChainKey
  <2> HIDE DEF n, next, received
  <2> QED BY <2>1, <2>2, <2>3, <1>2, <1>4, <1>7 DEF Session
<1> HIDE DEF next, received
<1>10. \A e \in t : Len(e.key.root) < Len(s.root)
       BY <1>5, <1>6 DEF Shape
<1>11. \A e \in t : Len(e.key.root) \in Nat
       BY <1>7 DEF Entry, ChainKey, RootKey
<1>12. Shape(u)
  <2>1. \A e \in t : e.key.root # received BY <1>3, <1>10, <1>11
  <2>2. ASSUME NEW e \in t, NEW f \in t, e.key = f.key PROVE e = f
    <3>1. CASE e \in s.skipped /\ f \in s.skipped BY <2>2, <3>1 DEF Shape
    <3>2. CASE e \in Rest(s, m) /\ f \in Rest(s, m)
          BY <2>2, <3>2, <1>5 DEF Shape
    <3>3. ASSUME NEW x \in s.skipped, NEW y \in Rest(s, m)
          PROVE  x.key # y.key
      <4>1. PICK c \in s.receiving : y.key.root = c.root /\ c.index <= y.key.index
            BY <1>5
      <4>2. x.key.root = c.root => x.key.index < c.index BY DEF Shape
      <4>3. x.key.index \in Nat /\ c.index \in Nat BY DEF Session, Entry, ChainKey
      <4> QED BY <4>1, <4>2, <4>3
    <3> QED BY <2>2, <3>1, <3>2, <3>3, <1>6
  <2> QED BY <1>3, <1>4, <1>9, <1>10, <1>11, <2>1, <2>2 DEF Shape
<1>13. Recedes(s, u)
  <2> SUFFICES ASSUME NEW k \in ChainKey, Derivable(u, k)
               PROVE  Derivable(s, k) \/ Len(k.root) > Len(s.root)
      BY <1>3, <1>4, <1>9 DEF Recedes
  <2>1. CASE \E e \in u.skipped : e.key = k
    <3>1. PICK e \in t : e.key = k BY <2>1, <1>9
    <3> QED BY <3>1, <1>5, <1>6 DEF Derivable
  <2>2. CASE \E d \in u.sending \cup u.receiving : d.root = k.root
        BY <2>2, <1>3, <1>4, <1>9
  <2> QED BY <2>1, <2>2 DEF Derivable
<1> QED BY <1>9, <1>12, <1>13

LEMMA RecedesTransitive ==
  ASSUME NEW s \in Session, NEW t \in Session, NEW u \in Session,
         Recedes(s, t), Recedes(t, u)
  PROVE  Recedes(s, u)
<1>1. Len(s.root) \in Nat /\ Len(t.root) \in Nat /\ Len(u.root) \in Nat
      BY DEF Session, RootKey
<1>2. \A k \in ChainKey : Len(k.root) \in Nat BY DEF ChainKey, RootKey
<1> QED BY <1>1, <1>2 DEF Recedes

LEMMA RecedesReflexive == \A s \in Session : Recedes(s, s)
BY DEF Recedes, Session, RootKey

LEMMA GivenUpForGood ==
  ASSUME NEW s \in Session, NEW t \in Session, Recedes(s, t),
         NEW k \in ChainKey, GivenUp(s, k)
  PROVE  GivenUp(t, k)
<1>1. Len(s.root) \in Nat /\ Len(t.root) \in Nat /\ Len(k.root) \in Nat
      BY DEF Session, RootKey, ChainKey
<1> QED BY <1>1 DEF Recedes, GivenUp

-----------------------------------------------------------------------------
(* The invariant.                                                          *)

\* One session p moves from session[p] to u, and opens at most message m,
\* whose key it could derive or first met in this step.
LEMMA Receive ==
  ASSUME IInv, TypeOK', NEW p \in Party, NEW u \in Session,
         session' = [session EXCEPT ![p] = u], Shape(u), Recedes(session[p], u),
         sent' = sent, NEW m \in sent, m.from # p, NEW ok \in BOOLEAN,
         Opens(m, ok),
         ok => /\ GivenUp(u, m.key)
               /\ \/ Derivable(session[p], m.key)
                  \/ Len(m.key.root) > Len(session[p].root)
  PROVE  IInv'
<1>1. \A x \in sent : x.key \in ChainKey /\ x.from \in Party /\ Len(x.key.root) \in Nat
      BY DEF IInv, TypeOK, Message, ChainKey, RootKey
<1>2. opened \subseteq sent BY DEF IInv, TypeOK
<1>3. \A q \in Party : /\ session[q] \in Session /\ Len(session[q].root) \in Nat
                       /\ session'[q] = IF q = p THEN u ELSE session[q]
      BY DEF IInv, TypeOK, Session, RootKey
<1>4. \A q \in Party, k \in ChainKey : GivenUp(session[q], k) => GivenUp(session'[q], k)
      BY <1>3, GivenUpForGood
<1>5. \A q \in Party : Shape(session'[q]) BY <1>3 DEF IInv
<1>6. \A x \in sent' : GivenUp(session'[x.from], x.key)
      BY <1>1, <1>4 DEF IInv
<1>7. m \in opened => ~ok
  <2> SUFFICES ASSUME m \in opened, ok PROVE FALSE OBVIOUS
  <2>1. GivenUp(session[p], m.key) BY DEF IInv
  <2> QED BY <2>1, <1>1, <1>3 DEF GivenUp
<1>8. ASSUME ok, NEW q \in Party PROVE GivenUp(session'[q], m.key)
  <2>1. CASE q = p BY <2>1, <1>3, <1>8
  <2>2. CASE q # p
    <3>1. q = m.from BY <2>2, <1>1 DEF Party
    <3> QED BY <3>1, <1>6
  <2> QED BY <2>1, <2>2
<1>9. \A x \in opened', q \in Party : GivenUp(session'[q], x.key)
      BY <1>1, <1>2, <1>4, <1>8 DEF IInv, Opens
<1>10. reopened' = {} BY <1>7 DEF IInv, Opens
<1> QED BY <1>5, <1>6, <1>9, <1>10 DEF IInv

\* The part of decrypt that works on the receiving chain is such a move.
LEMMA FromChainMoves ==
  ASSUME IInv, NEW p \in Party, NEW m \in sent, NEW owed,
         NEW s \in Session, Shape(s), Recedes(session[p], s),
         FromChain(p, m, s, owed)
  PROVE  /\ \E u \in Session, ok \in BOOLEAN :
              /\ session' = [session EXCEPT ![p] = u]
              /\ Shape(u) /\ Recedes(session[p], u) /\ Opens(m, ok)
              /\ ok => /\ GivenUp(u, m.key)
                       /\ \/ Derivable(session[p], m.key)
                          \/ Len(m.key.root) > Len(session[p].root)
         /\ forgotten' \subseteq sent
<1>0. m \in Message /\ session[p] \in Session /\ forgotten \subseteq sent
      BY DEF IInv, TypeOK
<1>1. PICK c \in s.receiving :
        IF Gap(c, m.n) > MaxSkip \/ m.n < c.index
        THEN /\ session' = [session EXCEPT ![p] = s]
             /\ Opens(m, FALSE)
             /\ forgotten' = forgotten \cup Dropped(owed, s.skipped)
        ELSE LET at  == [c EXCEPT !.index = m.n]
                 new == Skipped(m.dh, c, m.n)
             IN \E t \in StoreMany(s.skipped, new) :
                  /\ session' = [session EXCEPT ![p] = [s EXCEPT
                       !.receiving = {Advanced(at)}, !.skipped = t,
                       !.state = IF at = m.key THEN "Active" ELSE @]]
                  /\ Opens(m, at = m.key)
                  /\ forgotten' = forgotten \cup Dropped(owed \cup new, t)
      BY DEF FromChain
<1>2. CASE Gap(c, m.n) > MaxSkip \/ m.n < c.index
  BY <1>0, <1>1, <1>2 DEF Dropped
<1>3. CASE ~(Gap(c, m.n) > MaxSkip \/ m.n < c.index)
  <2> DEFINE at == [c EXCEPT !.index = m.n]
  <2>1. PICK t \in StoreMany(s.skipped, Skipped(m.dh, c, m.n)) :
          /\ session' = [session EXCEPT ![p] = [s EXCEPT
               !.receiving = {Advanced(at)}, !.skipped = t,
               !.state = IF at = m.key THEN "Active" ELSE @]]
          /\ Opens(m, at = m.key)
          /\ forgotten' = forgotten \cup Dropped(owed \cup Skipped(m.dh, c, m.n), t)
        BY <1>1, <1>3
  <2> DEFINE st == IF at = m.key THEN "Active" ELSE s.state
             u == [s EXCEPT !.receiving = {Advanced(at)}, !.skipped = t, !.state = st]
  <2>2. st \in {"ReadyToSend", "WaitingForReply", "Active"} BY DEF Session
  <2>3. session' = [session EXCEPT ![p] = u] BY <2>1
  <2> HIDE DEF st
  <2>4. /\ u \in Session /\ Shape(u) /\ Recedes(s, u)
        /\ at \in ChainKey /\ GivenUp(u, at) /\ Derivable(s, at)
        BY <1>0, <1>3, <2>2, ChainStep
  <2> HIDE DEF u, at
  <2>5. Recedes(session[p], u) BY <1>0, <2>4, RecedesTransitive
  <2>6. Derivable(session[p], at) \/ Len(at.root) > Len(session[p].root)
        BY <2>4 DEF Recedes
  <2>7. forgotten' \subseteq sent BY <1>0, <2>1 DEF Dropped
  <2> QED BY <2>1, <2>3, <2>4, <2>5, <2>6, <2>7
<1> QED BY <1>2, <1>3

LEMMA InitIInv == Init => IInv
<1> SUFFICES ASSUME Init PROVE IInv OBVIOUS
<1> DEFINE r == <<{0, 1}>>
<1>1. r \in RootKey /\ Len(r) = 1 BY DEF RootKey, DhOutput
<1>2. <<>> \in RootKey BY DEF RootKey
<1>3. [root |-> r, index |-> 0] \in ChainKey BY <1>1 DEF ChainKey
<1>4. InitSender \in Session BY <1>1, <1>3 DEF InitSender, Session
<1>5. InitReceiver \in Session BY <1>2 DEF InitReceiver, Session
<1>6. session \in [Party -> Session] BY <1>4, <1>5 DEF Init
<1>7. TypeOK BY <1>6 DEF TypeOK, Init, Party
<1>8. \A p \in Party : Shape(session[p])
  <2>1. Shape(InitSender) BY DEF Shape, InitSender
  <2>2. Shape(InitReceiver) BY DEF Shape, InitReceiver
  <2> QED BY <2>1, <2>2 DEF Init
<1> QED BY <1>7, <1>8 DEF IInv, Init

\* Encrypting gives up the key of the message that is sent.
LEMMA EncryptStep ==
  ASSUME IInv, NEW p \in Party, Encrypt(p)
  PROVE  IInv'
<1>1. PICK c \in session[p].sending :
        /\ sent' = sent \cup {[from |-> p, dh |-> session[p].self,
                               pn |-> session[p].pn, n |-> c.index, key |-> c]}
        /\ session' = [session EXCEPT ![p].sending = {Advanced(c)},
                                      ![p].state = "Active"]
      BY DEF Encrypt
<1> DEFINE s == session[p]
           u == [s EXCEPT !.sending = {Advanced(c)}, !.state = "Active"]
           m == [from |-> p, dh |-> s.self, pn |-> s.pn, n |-> c.index, key |-> c]
<1>2. s \in Session /\ c \in ChainKey /\ c.index \in Nat /\ c.root = s.root
      /\ Len(s.root) \in Nat
      BY DEF IInv, TypeOK, Session, ChainKey, Shape, RootKey
<1>3. Advanced(c) \in ChainKey /\ Advanced(c).root = c.root
      /\ Advanced(c).index = c.index + 1
      BY <1>2 DEF ChainKey, Advanced
<1>4. /\ u \in Session /\ u.root = s.root /\ u.sending = {Advanced(c)}
      /\ u.receiving = s.receiving /\ u.skipped = s.skipped /\ u.peer = s.peer
      BY <1>2, <1>3 DEF Session
<1>5. m \in Message BY <1>2 DEF Message, Session
<1>6. session' = [session EXCEPT ![p] = u] BY <1>1
<1>7. sent' = sent \cup {m} BY <1>1
<1>8. m.from = p /\ m.key = c OBVIOUS
<1>9. Shape(s) BY DEF IInv
<1> HIDE DEF s, u, m
<1>10. TypeOK' BY <1>4, <1>5, <1>6, <1>7 DEF IInv, TypeOK, Encrypt, hist
<1>11. Shape(u) BY <1>2, <1>3, <1>4, <1>9 DEF Shape
<1>12. Recedes(s, u)
  <2> SUFFICES ASSUME NEW k \in ChainKey, Derivable(u, k) PROVE Derivable(s, k)
      BY <1>2, <1>4 DEF Recedes
  <2>1. k.index \in Nat BY DEF ChainKey
  <2>2. CASE \E e \in u.skipped : e.key = k BY <2>2, <1>4 DEF Derivable
  <2>3. CASE \E d \in u.receiving : d.root = k.root /\ d.index <= k.index
        BY <2>3, <1>4 DEF Derivable
  <2>4. CASE \E d \in u.sending : d.root = k.root /\ d.index <= k.index
    <3>1. c.root = k.root /\ c.index <= k.index BY <2>1, <2>4, <1>2, <1>3, <1>4
    <3> QED BY <3>1, <1>1 DEF Derivable, s
  <2> QED BY <2>2, <2>3, <2>4 DEF Derivable
<1>13. GivenUp(u, c)
  <2>1. \A e \in u.skipped : e.key # c BY <1>2, <1>4, <1>9 DEF Shape
  <2>2. \A d \in u.receiving : d.root # c.root BY <1>2, <1>4, <1>9 DEF Shape
  <2>3. \A d \in u.sending : ~(d.index <= c.index) BY <1>2, <1>3, <1>4
  <2> QED BY <2>1, <2>2, <2>3, <1>2, <1>4 DEF GivenUp, Derivable
<1>14. \A q \in Party : session[q] \in Session /\ session'[q] = IF q = p THEN u ELSE session[q]
      BY <1>6 DEF IInv, TypeOK
<1>15. \A q \in Party, k \in ChainKey : GivenUp(session[q], k) => GivenUp(session'[q], k)
      BY <1>4, <1>12, <1>14, GivenUpForGood DEF s
<1>16. \A x \in sent : x.key \in ChainKey /\ x.from \in Party
      BY DEF IInv, TypeOK, Message
<1>17. \A x \in sent' : GivenUp(session'[x.from], x.key)
      BY <1>7, <1>8, <1>13, <1>14, <1>15, <1>16 DEF IInv
<1>18. opened \subseteq sent BY DEF IInv, TypeOK
<1>19. \A x \in opened', q \in Party : GivenUp(session'[q], x.key)
      BY <1>15, <1>16, <1>18 DEF IInv, Encrypt, hist
<1> QED BY <1>10, <1>11, <1>14, <1>17, <1>19 DEF IInv, Encrypt, hist

\* Dropping or ageing stored keys.
LEMMA StoreStep ==
  ASSUME NEW s \in Session, Shape(s), NEW store \in SUBSET Entry,
         \A e \in store : \E f \in s.skipped : f.key = e.key,
         \A e, f \in store : e.key = f.key => e = f,
         NEW u, u = [s EXCEPT !.skipped = store]
  PROVE  u \in Session /\ Shape(u) /\ Recedes(s, u)
<1>1. /\ u \in Session /\ u.root = s.root /\ u.sending = s.sending
      /\ u.receiving = s.receiving /\ u.skipped = store /\ u.peer = s.peer
      BY DEF Session
<1>2. Shape(u) BY <1>1 DEF Shape
<1>3. Len(s.root) \in Nat BY DEF Session, RootKey
<1>4. ASSUME NEW k \in ChainKey, Derivable(u, k) PROVE Derivable(s, k)
      BY <1>1, <1>4 DEF Derivable
<1> QED BY <1>1, <1>2, <1>3, <1>4 DEF Recedes

\* What the actions of decrypt share.
LEMMA DecryptStep ==
  ASSUME IInv, NEW p \in Party, NEW m \in sent, m.from # p,
         DecryptSkipped(p, m) \/ DecryptChain(p, m) \/ DecryptRatchet(p, m)
           \/ DecryptRefused(p, m)
  PROVE  IInv'
<1>0. /\ m \in Message /\ m.dh \in Nat /\ session[p] \in Session /\ Shape(session[p])
      /\ dhKeys \in Nat /\ m.key \in ChainKey /\ Recedes(session[p], session[p])
      BY RecedesReflexive DEF IInv, TypeOK, Message
<1>1. ASSUME NEW u \in Session, NEW ok \in BOOLEAN, Opens(m, ok), Arrives(p, m),
             session' = [session EXCEPT ![p] = u],
             dhKeys' \in Nat, forgotten' \subseteq sent,
             seen' \in [Party -> SUBSET Nat], stepsBack' \subseteq stepsBack \cup {m}
      PROVE  TypeOK'
  <2>1. session' \in [Party -> Session] BY <1>1 DEF IInv, TypeOK
  <2>2. /\ sent' \subseteq Message /\ arrived' \subseteq sent'
        /\ opened' \subseteq arrived' /\ reopened' \subseteq opened'
        BY <1>1 DEF IInv, TypeOK, Arrives, Opens
  <2>3. stepsBack' \subseteq arrived' /\ forgotten' \subseteq sent'
        BY <1>1 DEF IInv, TypeOK, Arrives
  <2> QED BY <1>1, <2>1, <2>2, <2>3 DEF TypeOK
<1>2. CASE DecryptSkipped(p, m)
  <2>1. PICK e \in session[p].skipped :
          /\ session' = [session EXCEPT ![p].skipped = @ \ {e}]
          /\ Opens(m, e.key = m.key)
        BY <1>2 DEF DecryptSkipped
  <2> DEFINE u == [session[p] EXCEPT !.skipped = @ \ {e}]
             ok == e.key = m.key
  <2>2. session' = [session EXCEPT ![p] = u] BY <2>1
  <2>3. session[p].skipped \ {e} \in SUBSET Entry BY <1>0 DEF Session
  <2>4. u \in Session /\ Shape(u) /\ Recedes(session[p], u)
    <3> DEFINE store == session[p].skipped \ {e}
    <3>1. /\ \A f \in store : \E g \in session[p].skipped : g.key = f.key
          /\ \A f, g \in store : f.key = g.key => f = g
          BY <1>0 DEF Shape
    <3>2. u = [session[p] EXCEPT !.skipped = store] OBVIOUS
    <3> HIDE DEF store, u
    <3> QED BY <1>0, <2>3, <3>1, <3>2, StoreStep DEF store
  <2>5. ASSUME ok
        PROVE  GivenUp(u, m.key) /\ Derivable(session[p], m.key)
    <3>1. e.key = m.key /\ Len(e.key.root) < Len(session[p].root)
          BY <2>5, <1>0 DEF Shape
    <3>2. /\ u.root = session[p].root /\ u.skipped = session[p].skipped \ {e}
          /\ u.sending = session[p].sending /\ u.receiving = session[p].receiving
          BY <1>0 DEF Session
    <3>3. \A f \in u.skipped : f.key # m.key BY <3>1, <3>2, <1>0 DEF Shape
    <3>4. Len(session[p].root) \in Nat /\ Len(m.key.root) \in Nat /\ m.key.index \in Nat
          BY <1>0 DEF Session, RootKey, ChainKey
    <3>5. \A d \in u.sending : d.root # m.key.root
          BY <3>1, <3>2, <3>4, <1>0 DEF Shape
    <3>6. \A d \in u.receiving : ~(d.root = m.key.root /\ d.index <= m.key.index)
      <4> SUFFICES ASSUME NEW d \in session[p].receiving, d.root = m.key.root
                   PROVE  ~(d.index <= m.key.index)
          BY <3>2
      <4>1. m.key.index < d.index BY <3>1, <1>0 DEF Shape
      <4>2. d.index \in Nat BY <1>0 DEF Session, ChainKey
      <4> QED BY <4>1, <4>2, <3>4
    <3>7. Derivable(session[p], m.key) BY <3>1 DEF Derivable
    <3> QED BY <3>1, <3>2, <3>3, <3>4, <3>5, <3>6, <3>7 DEF GivenUp, Derivable
  <2>6. TypeOK'
    <3>1. /\ Arrives(p, m) /\ dhKeys' \in Nat /\ forgotten' \subseteq sent
          /\ seen' \in [Party -> SUBSET Nat] /\ stepsBack' \subseteq stepsBack \cup {m}
          BY <1>2 DEF DecryptSkipped, IInv, TypeOK
    <3> QED BY <3>1, <2>1, <2>2, <2>4, <1>1
  <2>7. sent' = sent BY <1>2 DEF DecryptSkipped, Arrives
  <2> HIDE DEF u
  <2> QED BY <2>1, <2>2, <2>4, <2>5, <2>6, <2>7, Receive
<1>3. ASSUME NEW s \in Session, Shape(s), Recedes(session[p], s), NEW owed,
             FromChain(p, m, s, owed), Arrives(p, m), dhKeys' \in Nat,
             seen' \in [Party -> SUBSET Nat], stepsBack' \subseteq stepsBack \cup {m}
      PROVE  IInv'
  <2>1. /\ forgotten' \subseteq sent
        /\ \E u \in Session, ok \in BOOLEAN :
              /\ session' = [session EXCEPT ![p] = u]
              /\ Shape(u) /\ Recedes(session[p], u) /\ Opens(m, ok)
              /\ ok => /\ GivenUp(u, m.key)
                       /\ \/ Derivable(session[p], m.key)
                          \/ Len(m.key.root) > Len(session[p].root)
        BY <1>3, FromChainMoves
  <2>2. PICK u \in Session, ok \in BOOLEAN :
              /\ session' = [session EXCEPT ![p] = u]
              /\ Shape(u) /\ Recedes(session[p], u) /\ Opens(m, ok)
              /\ ok => /\ GivenUp(u, m.key)
                       /\ \/ Derivable(session[p], m.key)
                          \/ Len(m.key.root) > Len(session[p].root)
        BY <2>1
  <2>3. TypeOK' BY <1>1, <1>3, <2>1, <2>2
  <2>4. sent' = sent BY <1>3 DEF Arrives
  <2> QED BY <2>2, <2>3, <2>4, Receive
<1>4. CASE DecryptChain(p, m)
  <2>1. /\ FromChain(p, m, session[p], session[p].skipped) /\ Arrives(p, m)
        /\ dhKeys' \in Nat /\ seen' \in [Party -> SUBSET Nat]
        /\ stepsBack' \subseteq stepsBack \cup {m}
        BY <1>4 DEF DecryptChain, IInv, TypeOK
  <2> QED BY <2>1, <1>0, <1>3
<1>5. CASE DecryptRatchet(p, m)
  <2>1. PICK s \in Ratcheted(session[p], m) :
          FromChain(p, m, s, session[p].skipped \cup Rest(session[p], m))
        BY <1>5 DEF DecryptRatchet
  <2>2. s \in Session /\ Shape(s) /\ Recedes(session[p], s)
        BY <1>0, RatchetLemma
  <2>3. /\ Arrives(p, m) /\ dhKeys' \in Nat /\ seen' \in [Party -> SUBSET Nat]
        /\ stepsBack' \subseteq stepsBack \cup {m}
        BY <1>0, <1>5 DEF DecryptRatchet, IInv, TypeOK
  <2> QED BY <2>1, <2>2, <2>3, <1>3
<1>6. CASE DecryptRefused(p, m)
  <2>1. arrived' = arrived \cup {m} /\ sent' = sent
        BY <1>6 DEF DecryptRefused, Arrives
  <2>2. TypeOK' BY <1>6, <2>1 DEF DecryptRefused, IInv, TypeOK
  <2> QED BY <1>6, <2>1, <2>2 DEF DecryptRefused, IInv
<1> QED BY <1>2, <1>4, <1>5, <1>6

\* Every session receding, with nothing sent or opened, keeps the invariant.
LEMMA QuietStep ==
  ASSUME IInv, TypeOK', sent' = sent, opened' = opened, reopened' = reopened,
         \A q \in Party : Shape(session'[q]) /\ Recedes(session[q], session'[q])
  PROVE  IInv'
<1>1. \A q \in Party : session[q] \in Session /\ session'[q] \in Session
      BY DEF IInv, TypeOK
<1>2. \A q \in Party, k \in ChainKey : GivenUp(session[q], k) => GivenUp(session'[q], k)
      BY <1>1, GivenUpForGood
<1>3. \A x \in sent : x.key \in ChainKey /\ x.from \in Party
      BY DEF IInv, TypeOK, Message
<1>4. opened \subseteq sent BY DEF IInv, TypeOK
<1> QED BY <1>2, <1>3, <1>4 DEF IInv

LEMMA IInvStep == IInv /\ [Next]_vars => IInv'
<1> SUFFICES ASSUME IInv, [Next]_vars PROVE IInv' OBVIOUS
<1>0. \A q \in Party : session[q] \in Session /\ Shape(session[q])
      BY DEF IInv, TypeOK
<1>1. ASSUME NEW p \in Party, CleanupExpiredKeys(p) PROVE IInv'
  <2> DEFINE live == {e \in session[p].skipped : ~e.old}
             u == [session[p] EXCEPT !.skipped = live]
  <2>1. live \in SUBSET Entry BY <1>0 DEF Session
  <2>2. \A f, g \in live : f.key = g.key => f = g BY <1>0 DEF Shape
  <2>3. u \in Session /\ Shape(u) /\ Recedes(session[p], u)
        BY <1>0, <2>1, <2>2, StoreStep
  <2>4. session' = [session EXCEPT ![p] = u] BY <1>1 DEF CleanupExpiredKeys
  <2>5. forgotten' \subseteq sent
        BY <1>1 DEF CleanupExpiredKeys, Dropped, IInv, TypeOK
  <2> HIDE DEF u, live
  <2>6. TypeOK' BY <1>1, <2>3, <2>4, <2>5 DEF CleanupExpiredKeys, IInv, TypeOK
  <2>7. \A q \in Party : session'[q] = IF q = p THEN u ELSE session[q]
        BY <2>4 DEF IInv, TypeOK
  <2> QED BY <1>0, <1>1, <2>3, <2>6, <2>7, QuietStep, RecedesReflexive
          DEF CleanupExpiredKeys
<1>2. ASSUME Age PROVE IInv'
  <2> DEFINE aged(q) == {[e EXCEPT !.old = TRUE] : e \in session[q].skipped}
  <2>1. ASSUME NEW q \in Party
        PROVE  /\ session'[q] \in Session /\ Shape(session'[q])
               /\ Recedes(session[q], session'[q])
    <3>0. session[q].skipped \subseteq Entry BY <1>0 DEF Session
    <3>1. ASSUME NEW e \in session[q].skipped
          PROVE  e \in Entry /\ [e EXCEPT !.old = TRUE] \in Entry
                   /\ [e EXCEPT !.old = TRUE].key = e.key
          BY <3>0 DEF Entry
    <3>2. aged(q) \in SUBSET Entry BY <3>1
    <3>3. \A e \in aged(q) : \E f \in session[q].skipped : f.key = e.key BY <3>1
    <3>4. ASSUME NEW e \in aged(q), NEW f \in aged(q), e.key = f.key PROVE e = f
      <4>1. PICK a \in session[q].skipped : e = [a EXCEPT !.old = TRUE] OBVIOUS
      <4>2. PICK b \in session[q].skipped : f = [b EXCEPT !.old = TRUE] OBVIOUS
      <4>3. a.key = b.key BY <3>1, <3>4, <4>1, <4>2
      <4>4. a = b BY <1>0, <4>3 DEF Shape
      <4> QED BY <4>1, <4>2, <4>4
    <3>5. session'[q] = [session[q] EXCEPT !.skipped = aged(q)] BY <1>2 DEF Age
    <3> HIDE DEF aged
    <3> QED BY <1>0, <3>2, <3>3, <3>4, <3>5, StoreStep
  <2>2. session' \in [Party -> Session]
    <3>1. session' = [q \in Party |-> session'[q]] BY <1>2 DEF Age
    <3> QED BY <3>1, <2>1
  <2>3. TypeOK' BY <1>2, <2>2 DEF Age, hist, IInv, TypeOK
  <2> QED BY <1>2, <2>1, <2>3, QuietStep DEF Age, hist
<1>3. CASE UNCHANGED vars
  BY <1>3 DEF vars, hist, IInv, TypeOK, GivenUp, Derivable, Shape
<1> QED BY <1>1, <1>2, <1>3, EncryptStep, DecryptStep DEF Next

\* The types of both sessions and of the network are kept.
THEOREM TypeCorrect == Spec => []TypeOK
<1>1. Init => IInv BY InitIInv
<1>2. IInv /\ [Next]_vars => IInv' BY IInvStep
<1>3. IInv => TypeOK BY DEF IInv
<1> QED BY <1>1, <1>2, <1>3, PTL DEF Spec

\* Forward secrecy: neither session can derive the key of a message that was
\* decrypted, and no message is decrypted twice, whatever the network does and
\* however many keys may be skipped or stored.
THEOREM ForwardSecrecyHolds == Spec => []ForwardSecrecy
<1>1. Init => IInv BY InitIInv
<1>2. IInv /\ [Next]_vars => IInv' BY IInvStep
<1>3. IInv => ForwardSecrecy BY DEF IInv, ForwardSecrecy, GivenUp
<1> QED BY <1>1, <1>2, <1>3, PTL DEF Spec

-----------------------------------------------------------------------------
(* While no session has stepped back the two sessions correspond.           *)

\* DH keys are drawn once, and only drawn keys are in use.
Drawn ==
  /\ session[Alice].self # session[Bob].self
  /\ \A m \in sent : m.dh < dhKeys
  /\ \A p \in Party : /\ session[p].self < dhKeys
                      /\ \A d \in seen[p] : d < dhKeys
                      /\ \A d \in session[p].peer : d < dhKeys
                      /\ \A e \in session[p].skipped : e.dh < dhKeys

\* A message is identified by its DH key and its number, which is its place in
\* the chain; those with the present key are of the present sending chain.
Numbered ==
  /\ \A m \in sent : m.key.index = m.n
  /\ \A m, x \in sent : m.dh = x.dh /\ m.n = x.n => m = x
  /\ \A p \in Party :
       /\ \A c, d \in session[p].sending : c = d
       /\ \A e \in session[p].skipped : e.key.index = e.n
       /\ IsFiniteSet(session[p].skipped)
       /\ \A m \in sent : m.dh = session[p].self =>
            /\ m.from = p /\ m.pn = session[p].pn /\ m.key.root = session[p].root
            /\ \E c \in session[p].sending : m.n < c.index

\* The chain of q that goes with DH key dh starts from root.
IsChain(q, dh, root) ==
  /\ dh = session[q].self => root = session[q].root
  /\ \A m \in sent : m.from = q /\ m.dh = dh => m.key.root = root

\* What p has of q's chains, stored or to come, is theirs.
Agree(p, q) ==
  /\ \A e \in session[p].skipped : IsChain(q, e.dh, e.key.root)
  /\ \A c \in session[p].receiving, d \in session[p].peer :
       d \in seen[p] /\ IsChain(q, d, c.root)

\* Session p was given m, has its key or will come to it, or dropped the key.
Provided(p, m) ==
  \/ m \in arrived \cup forgotten
  \/ ~NotStored(session[p], m)
  \/ m.dh \in session[p].peer /\ \E c \in session[p].receiving : c.index <= m.n

AllProvided(p) == \A m \in sent : m.from # p /\ m.dh \in seen[p] => Provided(p, m)

\* q has made the last ratchet step, on p's present key: q's root has one output
\* more, p has yet to see q's key, and has seen all q's others.
Ahead(q, p) ==
  /\ session[q].peer = {session[p].self}
  /\ session[q].root = Append(session[p].root, {session[q].self, session[p].self})
  /\ session[q].self \notin seen[p] \cup session[p].peer
  /\ \A m \in sent : m.from = q => m.dh = session[q].self \/ m.dh \in seen[p]
  /\ \A m \in sent : m.from = p => m.dh \in seen[q]
  /\ session[p].sending # {} => session[p].self \in seen[q]
  /\ \A m \in sent : m.from = q /\ m.dh \in session[p].peer => m.n < session[q].pn

\* A receiving chain for q's present key is not ahead of q's sending chain.
Within(p, q) ==
  session[q].self \in seen[p] =>
    /\ session[p].receiving # {}
    /\ \A c \in session[p].receiving, d \in session[q].sending : c.index <= d.index

Linked ==
  /\ Drawn /\ Numbered
  /\ \A p \in Party : Agree(p, Peer(p)) /\ AllProvided(p) /\ Within(p, Peer(p))
  /\ \E q \in Party : Ahead(q, Peer(q))

\* The invariant.
Corr == IInv /\ (stepsBack = {} => Linked)

\* Session u has the root and the keys of s, and a store and a receiving chain
\* that come from those of s.
Kin(s, u) ==
  /\ u.root = s.root /\ u.self = s.self /\ u.peer = s.peer
  /\ u.sending = s.sending /\ u.pn = s.pn
  /\ \A c \in u.receiving : \E d \in s.receiving : c.root = d.root
  /\ \A e \in u.skipped :
       \/ \E f \in s.skipped : e.dh = f.dh /\ e.n = f.n /\ e.key = f.key
       \/ \E d \in s.peer, c \in s.receiving :
            e.dh = d /\ e.key.root = c.root /\ e.key.index = e.n
  /\ IsFiniteSet(s.skipped) => IsFiniteSet(u.skipped)

\* There are two parties.
LEMMA Peers ==
  /\ \A p \in Party : Peer(p) \in Party /\ Peer(p) # p /\ Peer(Peer(p)) = p
  /\ \A p, q \in Party : p = q \/ q = Peer(p)
BY RatchetAssumption DEF Party, Peer

\* A step that leaves roots, keys and messages alone keeps the sessions linked.
LEMMA KinStep ==
  ASSUME IInv, Linked, UNCHANGED <<dhKeys, sent, seen>>,
         \A p \in Party : /\ Kin(session[p], session'[p])
                          /\ AllProvided(p)' /\ Within(p, Peer(p))'
  PROVE  Linked'
<1>1. Drawn'
  BY DEF Linked, Drawn, Kin, Party
<1>2. Numbered'
  BY DEF Linked, Numbered, Kin
<1>3. ASSUME NEW p \in Party, NEW q \in Party, Agree(p, q) PROVE Agree(p, q)'
  <2>1. \A d, r : IsChain(q, d, r) => IsChain(q, d, r)'
    BY DEF IsChain, Kin
  <2>2. Kin(session[p], session'[p]) OBVIOUS
  <2> HIDE DEF IsChain
  <2> QED BY <1>3, <2>1, <2>2 DEF Agree, Kin
<1>4. ASSUME NEW p \in Party, NEW q \in Party, Ahead(q, p) PROVE Ahead(q, p)'
  BY <1>4 DEF Ahead, Kin
<1> QED BY <1>1, <1>2, <1>3, <1>4, Peers DEF Linked

\* The entries that skip_to files are as many as the indexes it passes.
LEMMA SkippedFinite ==
  ASSUME NEW dh, NEW c \in ChainKey, NEW n \in Nat
  PROVE  IsFiniteSet(Skipped(dh, c, n))
<1>1. IsFiniteSet(c.index .. n - 1) BY FS_Interval DEF ChainKey
<1> DEFINE E(i) == [dh |-> dh, n |-> i, key |-> [c EXCEPT !.index = i], old |-> FALSE]
           f == [i \in c.index .. n - 1 |-> E(i)]
<1>2. Skipped(dh, c, n) = {E(i) : i \in c.index .. n - 1} BY DEF Skipped
<1>3. f \in Surjection(c.index .. n - 1, Skipped(dh, c, n))
  <2> HIDE DEF E
  <2>1. f \in [c.index .. n - 1 -> Skipped(dh, c, n)] BY <1>2
  <2>2. \A e \in Skipped(dh, c, n) : \E i \in c.index .. n - 1 : f[i] = e BY <1>2
  <2> QED BY <2>1, <2>2 DEF Surjection
<1> HIDE DEF f, E
<1> QED BY <1>1, <1>3, FS_Surjection

\* Every index from the chain's up to n has its entry.
LEMMA SkippedHas ==
  ASSUME NEW dh \in Nat, NEW c \in ChainKey, NEW n \in Nat, NEW i \in Nat,
         c.index <= i, i < n
  PROVE  \E e \in Skipped(dh, c, n) : e.dh = dh /\ e.n = i
<1> DEFINE e == [dh |-> dh, n |-> i, key |-> [c EXCEPT !.index = i], old |-> FALSE]
<1>1. c.index \in Nat BY DEF ChainKey
<1>2. i \in c.index .. n - 1 BY <1>1
<1>3. e \in Skipped(dh, c, n) BY <1>2, Zenon DEF Skipped
<1> QED BY <1>3

\* What is owed is in the store or its message is forgotten.
LEMMA DroppedCovers ==
  ASSUME NEW owed, NEW u, NEW x \in sent,
         \E e \in owed : e.dh = x.dh /\ e.n = x.n
  PROVE  x \in Dropped(owed, u.skipped) \/ ~NotStored(u, x)
BY DEF Dropped, NotStored

\* What the part of decrypt on the receiving chain leaves: every key owed and
\* every key passed over is stored or its message forgotten, and the message
\* opens if it is of the chain and within reach.
LEMMA FromChainLeaves ==
  ASSUME IInv, NEW p \in Party, NEW m \in sent, NEW owed,
         NEW s \in Session, Shape(s), s.peer = {m.dh},
         FromChain(p, m, s, owed)
  PROVE  \E u \in Session :
           /\ session' = [session EXCEPT ![p] = u]
           /\ Kin(s, u)
           /\ forgotten \subseteq forgotten'
           /\ \A x \in sent : (\E e \in owed : e.dh = x.dh /\ e.n = x.n)
                                => x \in forgotten' \/ ~NotStored(u, x)
           /\ \A x \in sent, c \in s.receiving :
                x.dh = m.dh /\ c.index <= x.n =>
                  \/ x \in forgotten' \/ ~NotStored(u, x) \/ x.n = m.n
                  \/ \E d \in u.receiving : d.index <= x.n
           /\ s.receiving # {} => u.receiving # {}
           /\ \A d \in u.receiving : d \in s.receiving \/ d.index = m.n + 1
           /\ \A c \in s.receiving :
                ~(Gap(c, m.n) > MaxSkip) /\ c.index <= m.n /\ c.root = m.key.root
                  /\ m.key.index = m.n => m \in opened'
<1>0. /\ m \in Message /\ m.dh \in Nat /\ m.n \in Nat /\ m.key \in ChainKey
      /\ \A x \in sent : x.n \in Nat /\ x.dh \in Nat
      BY DEF IInv, TypeOK, Message
<1>1. PICK c \in s.receiving :
        IF Gap(c, m.n) > MaxSkip \/ m.n < c.index
        THEN /\ session' = [session EXCEPT ![p] = s]
             /\ Opens(m, FALSE)
             /\ forgotten' = forgotten \cup Dropped(owed, s.skipped)
        ELSE LET at  == [c EXCEPT !.index = m.n]
                 new == Skipped(m.dh, c, m.n)
             IN \E t \in StoreMany(s.skipped, new) :
                  /\ session' = [session EXCEPT ![p] = [s EXCEPT
                       !.receiving = {Advanced(at)}, !.skipped = t,
                       !.state = IF at = m.key THEN "Active" ELSE @]]
                  /\ Opens(m, at = m.key)
                  /\ forgotten' = forgotten \cup Dropped(owed \cup new, t)
      BY DEF FromChain
<1>2. c \in ChainKey /\ c.index \in Nat /\ \A d \in s.receiving : d = c
      BY DEF Session, ChainKey, Shape
<1>3. CASE Gap(c, m.n) > MaxSkip \/ m.n < c.index
  <2>1. /\ session' = [session EXCEPT ![p] = s]
        /\ forgotten' = forgotten \cup Dropped(owed, s.skipped)
        BY <1>1, <1>3
  <2>2. Kin(s, s) BY DEF Kin
  <2>3. \A x \in sent : (\E e \in owed : e.dh = x.dh /\ e.n = x.n)
                         => x \in forgotten' \/ ~NotStored(s, x)
        BY <2>1, DroppedCovers
  <2>4. ~(~(Gap(c, m.n) > MaxSkip) /\ c.index <= m.n) BY <1>0, <1>2, <1>3
  <2>5. /\ forgotten \subseteq forgotten'
        /\ \A x \in sent, b \in s.receiving : b.index <= x.n =>
             \E d \in s.receiving : d.index <= x.n
        BY <2>1
  <2> QED BY <1>2, <2>1, <2>2, <2>3, <2>4, <2>5
<1>4. CASE ~(Gap(c, m.n) > MaxSkip \/ m.n < c.index)
  <2> DEFINE at == [c EXCEPT !.index = m.n]
             new == Skipped(m.dh, c, m.n)
  <2>1. PICK t \in StoreMany(s.skipped, new) :
          /\ session' = [session EXCEPT ![p] = [s EXCEPT
               !.receiving = {Advanced(at)}, !.skipped = t,
               !.state = IF at = m.key THEN "Active" ELSE @]]
          /\ Opens(m, at = m.key)
          /\ forgotten' = forgotten \cup Dropped(owed \cup new, t)
        BY <1>1, <1>4
  <2> DEFINE st == IF at = m.key THEN "Active" ELSE s.state
             u == [s EXCEPT !.receiving = {Advanced(at)}, !.skipped = t, !.state = st]
  <2>2. st \in {"ReadyToSend", "WaitingForReply", "Active"} BY DEF Session
  <2>3. session' = [session EXCEPT ![p] = u] BY <2>1
  <2> HIDE DEF st
  <2>4. u \in Session BY <1>0, <1>4, <2>2, ChainStep
  <2>5. /\ u.root = s.root /\ u.self = s.self /\ u.peer = s.peer
        /\ u.sending = s.sending /\ u.pn = s.pn
        /\ u.receiving = {Advanced(at)} /\ u.skipped = t
        BY DEF Session
  <2>6. /\ at.root = c.root /\ at.index = m.n
        /\ Advanced(at).root = c.root /\ Advanced(at).index = m.n + 1
        BY <1>0, <1>2 DEF ChainKey, Advanced
  <2>7. t \subseteq s.skipped \cup new BY StoreManyBound
  <2>8. \A e \in new : e.dh = m.dh /\ e.key.root = c.root /\ e.key.index = e.n
    <3> SUFFICES ASSUME NEW e \in new
                 PROVE  e.dh = m.dh /\ e.key.root = c.root /\ e.key.index = e.n
        OBVIOUS
    <3>1. PICK i \in c.index .. m.n - 1 :
            e = [dh |-> m.dh, n |-> i, key |-> [c EXCEPT !.index = i], old |-> FALSE]
          BY DEF Skipped
    <3> QED BY <1>2, <3>1 DEF ChainKey
  <2>9. IsFiniteSet(s.skipped) => IsFiniteSet(t)
    <3> SUFFICES ASSUME IsFiniteSet(s.skipped) PROVE IsFiniteSet(t) OBVIOUS
    <3>1. IsFiniteSet(new) BY <1>0, <1>2, SkippedFinite
    <3>2. IsFiniteSet(s.skipped \cup new) BY <3>1, FS_Union
    <3> QED BY <2>7, <3>2, FS_Subset
  <2> HIDE DEF u, new, at
  <2>10. Kin(s, u) BY <1>1, <2>5, <2>6, <2>7, <2>8, <2>9 DEF Kin
  <2>11. forgotten' = forgotten \cup Dropped(owed \cup new, u.skipped) BY <2>1, <2>5
  <2>12. \A x \in sent : (\E e \in owed \cup new : e.dh = x.dh /\ e.n = x.n)
                         => x \in forgotten' \/ ~NotStored(u, x)
    <3> DEFINE all == owed \cup new
    <3>1. \A x \in sent : (\E e \in all : e.dh = x.dh /\ e.n = x.n)
                         => x \in Dropped(all, u.skipped) \/ ~NotStored(u, x)
      <4> HIDE DEF all
      <4> QED BY DroppedCovers
    <3> QED BY <2>11, <3>1
  <2>13. ASSUME NEW x \in sent, x.dh = m.dh, c.index <= x.n
         PROVE  \/ x \in forgotten' \/ ~NotStored(u, x) \/ x.n = m.n
                \/ \E d \in u.receiving : d.index <= x.n
    <3>1. CASE x.n < m.n
      <4>1. \E e \in new : e.dh = m.dh /\ e.n = x.n
            BY <1>0, <1>2, <2>13, <3>1, SkippedHas DEF new
      <4> QED BY <2>12, <2>13, <4>1
    <3>2. CASE x.n > m.n
      <4>1. Advanced(at).index <= x.n BY <1>0, <2>6, <3>2
      <4> QED BY <2>5, <4>1
    <3> QED BY <1>0, <3>1, <3>2
  <2>14. ASSUME c.root = m.key.root, m.key.index = m.n PROVE m \in opened'
    <3>1. at = m.key BY <1>0, <1>2, <2>14 DEF ChainKey, at
    <3> QED BY <2>1, <3>1 DEF Opens
  <2>15. forgotten \subseteq forgotten' BY <2>11
  <2>16. u.receiving # {} /\ \A d \in u.receiving : d.index = m.n + 1 BY <2>5, <2>6
  <2> QED BY <1>2, <2>3, <2>4, <2>10, <2>12, <2>13, <2>14, <2>15, <2>16
<1> QED BY <1>3, <1>4

\* The initiator has made the first step, on the responder's signed pre-key.
LEMMA LinkedInit == Init => Linked
<1> SUFFICES ASSUME Init PROVE Linked OBVIOUS
<1>0. /\ session[Alice] = InitSender /\ session[Bob] = InitReceiver
      /\ Peer(Alice) = Bob /\ Peer(Bob) = Alice /\ sent = {} /\ dhKeys = 2
      /\ \A p \in Party : seen[p] = {} /\ (p = Alice \/ p = Bob)
      BY RatchetAssumption DEF Init, Party, Peer
<1>1. /\ InitSender.self = 1 /\ InitSender.peer = {0} /\ InitSender.skipped = {}
      /\ InitSender.receiving = {} /\ InitSender.root = <<{0, 1}>>
      /\ \A c, d \in InitSender.sending : c = d
      BY DEF InitSender
<1>2. /\ InitReceiver.self = 0 /\ InitReceiver.peer = {} /\ InitReceiver.skipped = {}
      /\ InitReceiver.receiving = {} /\ InitReceiver.root = <<>>
      /\ InitReceiver.sending = {}
      BY DEF InitReceiver
<1>3. Drawn BY <1>0, <1>1, <1>2 DEF Drawn
<1>4. Numbered BY <1>0, <1>1, <1>2, FS_EmptySet DEF Numbered
<1>5. \A p \in Party : Agree(p, Peer(p)) /\ AllProvided(p) /\ Within(p, Peer(p))
      BY <1>0, <1>1, <1>2 DEF Agree, AllProvided, Within
<1>6. Append(<<>>, {1, 0}) = <<{0, 1}>>
  <2>1. {1, 0} = {0, 1} OBVIOUS
  <2> QED BY <2>1
<1>7. Alice \in Party /\ seen[Bob] = {} BY <1>0 DEF Party
<1>8. Ahead(Alice, Bob) BY <1>0, <1>1, <1>2, <1>6, <1>7 DEF Ahead
<1> QED BY <1>0, <1>3, <1>4, <1>5, <1>7, <1>8 DEF Linked

\* Encrypting extends the present sending chain.
LEMMA LinkedEncrypt ==
  ASSUME IInv, Linked, NEW p \in Party, Encrypt(p)
  PROVE  Linked'
<1>1. PICK c \in session[p].sending :
        /\ sent' = sent \cup {[from |-> p, dh |-> session[p].self,
                               pn |-> session[p].pn, n |-> c.index, key |-> c]}
        /\ session' = [session EXCEPT ![p].sending = {Advanced(c)},
                                      ![p].state = "Active"]
      BY DEF Encrypt
<1> DEFINE s == session[p]
           u == session'[p]
<1>2. /\ s \in Session /\ c \in ChainKey /\ c.index \in Nat /\ c.root = s.root
      /\ \A d \in s.sending : d = c
      BY DEF IInv, TypeOK, Session, ChainKey, Shape, Linked, Numbered
<1>3. Advanced(c) \in ChainKey /\ Advanced(c).root = c.root
      /\ Advanced(c).index = c.index + 1
      BY <1>2 DEF ChainKey, Advanced
<1>4. /\ u.root = s.root /\ u.sending = {Advanced(c)} /\ u.self = s.self
      /\ u.receiving = s.receiving /\ u.skipped = s.skipped /\ u.peer = s.peer
      /\ u.pn = s.pn
      BY <1>1, <1>2 DEF IInv, TypeOK, Session
<1>5. \A q \in Party : q # p => session'[q] = session[q] BY <1>1 DEF IInv, TypeOK
<1>6. PICK m :
      /\ m.from = p /\ m.dh = s.self /\ m.pn = s.pn /\ m.n = c.index /\ m.key = c
      /\ sent' = sent \cup {m}
  <2> DEFINE x == [from |-> p, dh |-> s.self, pn |-> s.pn, n |-> c.index, key |-> c]
  <2>1. /\ x.from = p /\ x.dh = s.self /\ x.pn = s.pn /\ x.n = c.index /\ x.key = c
        /\ sent' = sent \cup {x}
        BY <1>1
  <2> HIDE DEF x
  <2> QED BY <2>1
<1>7. UNCHANGED <<dhKeys, arrived, forgotten, seen>> BY DEF Encrypt, hist
<1> HIDE DEF s, u
<1>8. /\ \A q \in Party : /\ session'[q].root = session[q].root
                           /\ session'[q].self = session[q].self
                           /\ session'[q].peer = session[q].peer
                           /\ session'[q].pn = session[q].pn
                           /\ session'[q].receiving = session[q].receiving
                           /\ session'[q].skipped = session[q].skipped
      BY <1>4, <1>5 DEF s, u
<1>9. Drawn' BY <1>6, <1>7, <1>8 DEF Linked, Drawn, s, Party
<1>10. ASSUME NEW q \in Party, q # p PROVE session[q].self # s.self
       BY <1>10 DEF Linked, Drawn, s, Party
<1>11. \A x \in sent : x.dh = s.self => x.n < c.index /\ x.n \in Nat
       BY <1>2 DEF Linked, Numbered, s, IInv, TypeOK, Message
<1>12. Numbered'
  <2>1. \A x, y \in sent' : x.dh = y.dh /\ x.n = y.n => x = y
        BY <1>2, <1>6, <1>11 DEF Linked, Numbered
  <2>2. \A x \in sent' : x.key.index = x.n BY <1>6 DEF Linked, Numbered
  <2>3. ASSUME NEW q \in Party
        PROVE  /\ \A a, b \in session'[q].sending : a = b
               /\ \A x \in sent' : x.dh = session'[q].self =>
                    /\ x.from = q /\ x.pn = session'[q].pn
                    /\ x.key.root = session'[q].root
                    /\ \E d \in session'[q].sending : x.n < d.index
    <3>1. CASE q = p
      <4>1. session'[q] = u /\ session[q] = s BY <3>1 DEF u, s
      <4>2. \A x \in sent' : x.dh = s.self => x.n < Advanced(c).index
            BY <1>2, <1>3, <1>6, <1>11
      <4>3. \A x \in sent' : x.dh = s.self =>
              x.from = p /\ x.pn = s.pn /\ x.key.root = s.root
            BY <1>2, <1>6 DEF Linked, Numbered, s
      <4> QED BY <3>1, <4>1, <4>2, <4>3, <1>4
    <3>2. CASE q # p
      <4>1. m.dh # session[q].self BY <1>6, <1>10, <3>2
      <4> QED BY <1>5, <1>6, <3>2, <4>1 DEF Linked, Numbered
    <3> QED BY <3>1, <3>2
  <2>4. \A q \in Party : /\ \A e \in session'[q].skipped : e.key.index = e.n
                         /\ IsFiniteSet(session'[q].skipped)
        BY <1>8 DEF Linked, Numbered
  <2> QED BY <2>1, <2>2, <2>3, <2>4 DEF Numbered
<1>13. ASSUME NEW q \in Party, NEW r \in Party, Agree(q, r) PROVE Agree(q, r)'
  <2>1. \A d, root : IsChain(r, d, root) => IsChain(r, d, root)'
    <3> SUFFICES ASSUME NEW d, NEW root, IsChain(r, d, root) PROVE IsChain(r, d, root)'
        OBVIOUS
    <3>1. CASE r = p BY <1>2, <1>6, <1>8, <3>1 DEF IsChain, s
    <3>2. CASE r # p BY <1>6, <1>8, <3>2 DEF IsChain
    <3> QED BY <3>1, <3>2
  <2> HIDE DEF IsChain
  <2> QED BY <1>7, <1>8, <1>13, <2>1 DEF Agree
<1>14. \A q \in Party : seen'[q] = seen[q] BY <1>7
<1>15. \A x : x \in arrived' \cup forgotten' <=> x \in arrived \cup forgotten BY <1>7
<1>16. PICK a \in Party : Ahead(a, Peer(a)) BY DEF Linked
<1>17. ASSUME p # a PROVE s.self \in seen[a]
  <2>1. p = Peer(a) BY <1>17, Peers
  <2>2. session[p].sending # {} BY <1>1
  <2> QED BY <1>16, <2>1, <2>2 DEF Ahead, s
<1>18. Ahead(a, Peer(a))'
  <2> DEFINE b == Peer(a)
  <2>1. b \in Party /\ a # b /\ Ahead(a, b) /\ (p = a \/ p = b) BY <1>16, Peers
  <2> HIDE DEF b
  <2>2. \A x \in sent' : x.from = a => x.dh = session[a].self \/ x.dh \in seen[b]
        BY <1>6, <2>1 DEF Ahead, s
  <2>3. \A x \in sent' : x.from = b => x.dh \in seen[a]
        BY <1>6, <1>17, <2>1 DEF Ahead
  <2>4. session'[b].sending # {} => session[b].self \in seen[a]
    <3>1. CASE p = b BY <1>17, <2>1, <3>1 DEF s
    <3>2. CASE p # b BY <1>5, <2>1, <3>2 DEF Ahead
    <3> QED BY <3>1, <3>2
  <2>5. \A x \in sent' : x.from = a /\ x.dh \in session[b].peer => x.n < session[a].pn
    <3>1. CASE p = a
      <4>1. session[a].self \notin session[b].peer BY <2>1 DEF Ahead
      <4> QED BY <1>6, <2>1, <3>1, <4>1 DEF Ahead, s
    <3>2. CASE p # a BY <1>6, <2>1, <3>2 DEF Ahead
    <3> QED BY <3>1, <3>2
  <2>6. Ahead(a, b)'
    <3>1. /\ session'[a].peer = {session'[b].self}
          /\ session'[a].root = Append(session'[b].root, {session'[a].self, session'[b].self})
          /\ session'[a].self \notin seen'[b] \cup session'[b].peer
          BY <1>8, <1>14, <2>1 DEF Ahead
    <3> QED BY <1>8, <1>14, <2>1, <2>2, <2>3, <2>4, <2>5, <3>1 DEF Ahead
  <2> QED BY <2>6 DEF b
<1>19. ASSUME NEW q \in Party PROVE Within(q, Peer(q))'
  <2> DEFINE r == Peer(q)
  <2>1. r \in Party /\ Within(q, r) BY Peers DEF Linked
  <2> HIDE DEF r
  <2>2. \A d \in session'[r].sending : \E e \in session[r].sending :
          e.index \in Nat /\ (d.index = e.index \/ d.index = e.index + 1)
    <3>1. CASE r = p BY <1>1, <1>2, <1>3, <1>4, <3>1 DEF u
    <3>2. CASE r # p
      <4>1. \A e \in session[r].sending : e.index \in Nat
            BY <2>1 DEF IInv, TypeOK, Session, ChainKey
      <4> QED BY <1>5, <2>1, <3>2, <4>1
    <3> QED BY <3>1, <3>2
  <2>3. \A b \in session[q].receiving : b.index \in Nat
        BY DEF IInv, TypeOK, Session, ChainKey
  <2>4. Within(q, r)' BY <1>8, <1>14, <2>1, <2>2, <2>3 DEF Within
  <2> QED BY <2>4 DEF r
<1>20. ASSUME NEW q \in Party PROVE AllProvided(q)'
  <2>1. ASSUME NEW x \in sent, x.from # q, x.dh \in seen[q] PROVE Provided(q, x)'
    <3>1. Provided(q, x) BY <2>1 DEF Linked, AllProvided
    <3> QED BY <1>8, <1>15, <3>1 DEF Provided, NotStored
  <2>2. ASSUME m.from # q, m.dh \in seen[q] PROVE Provided(q, m)'
    <3>1. p # q /\ p = Peer(q) BY <1>6, <2>2, Peers
    <3>2. a = q
      <4> SUFFICES ASSUME a # q PROVE FALSE OBVIOUS
      <4>1. a = p /\ Peer(a) = q BY <3>1, Peers
      <4> QED BY <1>6, <1>16, <2>2, <4>1 DEF Ahead, s
    <3>3. session[q].peer = {s.self} BY <1>16, <3>1, <3>2 DEF Ahead, s
    <3>4. Within(q, p) BY <3>1 DEF Linked
    <3>5. \E d \in session[q].receiving : d.index <= c.index
          BY <1>1, <1>6, <2>2, <3>4 DEF Within, s
    <3> QED BY <1>6, <1>8, <3>3, <3>5 DEF Provided
  <2> QED BY <1>6, <1>14, <2>1, <2>2 DEF AllProvided
<1> QED BY <1>9, <1>12, <1>13, <1>16, <1>18, <1>19, <1>20, Peers DEF Linked

\* Whoever has seen the other's present key made the last ratchet step, and a
\* key it has not seen is the present key of the other, who made it.
LEMMA WhoIsAhead ==
  ASSUME Linked, NEW p \in Party, NEW q, q = Peer(p)
  PROVE  /\ session[q].self \in seen[p] => Ahead(p, q)
         /\ \A m \in sent : m.from = q /\ m.dh \notin seen[p] =>
              Ahead(q, p) /\ m.dh = session[q].self
<1>1. PICK a \in Party : Ahead(a, Peer(a)) BY DEF Linked
<1>2. (a = p /\ Peer(a) = q) \/ (a = q /\ Peer(a) = p) BY Peers
<1> QED BY <1>1, <1>2 DEF Ahead

\* What was provided to a session that does not move stays provided.
LEMMA ProvidedStays ==
  ASSUME Linked, NEW q \in Party, session'[q] = session[q], sent' = sent,
         seen'[q] = seen[q], arrived \subseteq arrived', forgotten \subseteq forgotten'
  PROVE  AllProvided(q)'
BY DEF Linked, AllProvided, Provided, NotStored

\* Advancing the receiving chain provides every key that it passes over.
LEMMA LinkedChain ==
  ASSUME IInv, Linked, NEW p \in Party, NEW m \in sent, m.from # p, DecryptChain(p, m)
  PROVE  Linked'
<1> DEFINE s == session[p]
           q == Peer(p)
<1>0. /\ q \in Party /\ q # p /\ Peer(q) = p /\ m.from = q
      /\ \A r \in Party : r = p \/ r = q
      /\ m \in Message /\ s \in Session /\ Shape(s) /\ s.peer = {m.dh}
      BY Peers DEF IInv, TypeOK, Message, DecryptChain, NeedsRatchet
<1>1. /\ FromChain(p, m, s, s.skipped)
      /\ arrived' = arrived \cup {m} /\ sent' = sent /\ UNCHANGED <<dhKeys, seen>>
      BY DEF DecryptChain, Arrives
<1> HIDE DEF q
<1>2. PICK u \in Session :
        /\ session' = [session EXCEPT ![p] = u]
        /\ Kin(s, u)
        /\ forgotten \subseteq forgotten'
        /\ \A x \in sent : (\E e \in s.skipped : e.dh = x.dh /\ e.n = x.n)
                             => x \in forgotten' \/ ~NotStored(u, x)
        /\ \A x \in sent, c \in s.receiving :
             x.dh = m.dh /\ c.index <= x.n =>
               \/ x \in forgotten' \/ ~NotStored(u, x) \/ x.n = m.n
               \/ \E d \in u.receiving : d.index <= x.n
        /\ s.receiving # {} => u.receiving # {}
        /\ \A d \in u.receiving : d \in s.receiving \/ d.index = m.n + 1
  BY <1>0, <1>1, FromChainLeaves
<1>3. session'[p] = u /\ session'[q] = session[q]
      BY <1>0, <1>2 DEF IInv, TypeOK
<1>4. u.peer = s.peer BY <1>2 DEF Kin
<1>5. AllProvided(q)' BY <1>0, <1>1, <1>2, <1>3, ProvidedStays
<1>6. ASSUME NEW x \in sent, x.from # p, x.dh \in seen[p] PROVE Provided(p, x)'
  <2>1. Provided(p, x) BY <1>6 DEF Linked, AllProvided
  <2>2. CASE x \in arrived \cup forgotten BY <1>1, <1>2, <2>2 DEF Provided
  <2>3. CASE ~NotStored(s, x)
    <3>1. x \in forgotten' \/ ~NotStored(u, x) BY <1>2, <2>3 DEF NotStored
    <3> QED BY <1>3, <3>1 DEF Provided, NotStored
  <2>4. CASE x.dh \in s.peer /\ \E c \in s.receiving : c.index <= x.n
    <3>1. x.dh = m.dh /\ x.dh \in u.peer BY <1>0, <1>4, <2>4
    <3>2. \/ x \in forgotten' \/ ~NotStored(u, x) \/ x.n = m.n
          \/ \E d \in u.receiving : d.index <= x.n
          BY <1>2, <2>4, <3>1
    <3>3. x.n = m.n => x \in arrived' BY <1>1, <3>1 DEF Linked, Numbered
    <3> QED BY <1>3, <3>1, <3>2, <3>3 DEF Provided, NotStored
  <2> QED BY <2>1, <2>2, <2>3, <2>4 DEF Provided
<1>7. AllProvided(p)' BY <1>1, <1>6 DEF AllProvided
<1>8. Within(p, q)'
  <2> SUFFICES ASSUME session[q].self \in seen[p]
               PROVE  /\ u.receiving # {}
                      /\ \A c \in u.receiving, d \in session[q].sending : c.index <= d.index
      BY <1>1, <1>3 DEF Within
  <2>1. Within(p, q) BY <1>0 DEF Linked, q
  <2>2. m.dh = session[q].self
    <3>1. Ahead(p, q) BY WhoIsAhead DEF q
    <3> QED BY <1>0, <3>1 DEF Ahead
  <2>3. \A d \in session[q].sending : m.n < d.index /\ d.index \in Nat
    <3>1. \E d \in session[q].sending : m.n < d.index
          BY <1>0, <2>2 DEF Linked, Numbered
    <3>2. \A c, d \in session[q].sending : c = d BY <1>0 DEF Linked, Numbered
    <3> QED BY <1>0, <3>1, <3>2 DEF IInv, TypeOK, Session, ChainKey
  <2>4. m.n \in Nat BY <1>0 DEF Message
  <2> QED BY <1>2, <2>1, <2>3, <2>4 DEF Within
<1>9. Within(q, p)'
  <2>1. Within(q, p) BY <1>0 DEF Linked
  <2>2. u.self = s.self /\ u.sending = s.sending BY <1>2 DEF Kin
  <2> QED BY <1>1, <1>3, <2>1, <2>2 DEF Within
<1>10. Kin(session[q], session[q]) BY DEF Kin
<1>11. \A r \in Party : /\ Kin(session[r], session'[r])
                        /\ AllProvided(r)' /\ Within(r, Peer(r))'
  <2>1. Kin(session[p], session'[p]) /\ AllProvided(p)' /\ Within(p, Peer(p))'
        BY <1>2, <1>3, <1>7, <1>8 DEF q
  <2>2. Kin(session[q], session'[q]) /\ AllProvided(q)' /\ Within(q, Peer(q))'
        BY <1>0, <1>3, <1>5, <1>9, <1>10
  <2> QED BY <1>0, <2>1, <2>2
<1> QED BY <1>1, <1>11, KinStep

\* Taking a stored key out, or a step that only drops or ages stored keys.
LEMMA LinkedStore ==
  ASSUME IInv, Linked, UNCHANGED <<dhKeys, sent, seen>>,
         arrived \subseteq arrived', forgotten \subseteq forgotten',
         \A p \in Party :
           /\ Kin(session[p], session'[p])
           /\ session'[p].receiving = session[p].receiving
           /\ \A x \in sent : ~NotStored(session[p], x) /\ x.from # p =>
                x \in arrived' \cup forgotten' \/ ~NotStored(session'[p], x)
  PROVE  Linked'
<1>1. ASSUME NEW p \in Party PROVE AllProvided(p)'
  <2>1. session'[p].receiving = session[p].receiving /\ session'[p].peer = session[p].peer
        BY DEF Kin
  <2>2. ASSUME NEW x \in sent, x.from # p, x.dh \in seen[p] PROVE Provided(p, x)'
    <3>1. Provided(p, x) BY <2>2 DEF Linked, AllProvided
    <3>2. CASE ~NotStored(session[p], x)
      <4>1. x \in arrived' \cup forgotten' \/ ~NotStored(session'[p], x) BY <2>2, <3>2
      <4> QED BY <4>1 DEF Provided, NotStored
    <3> QED BY <2>1, <3>1, <3>2 DEF Provided
  <2> QED BY <2>2 DEF AllProvided
<1>2. ASSUME NEW p \in Party PROVE Within(p, Peer(p))'
  <2> DEFINE q == Peer(p)
  <2>1. q \in Party /\ Within(p, q) BY Peers DEF Linked
  <2> HIDE DEF q
  <2>2. session'[p].receiving = session[p].receiving
        /\ session'[q].self = session[q].self /\ session'[q].sending = session[q].sending
        BY <2>1 DEF Kin
  <2>3. Within(p, q)' BY <2>1, <2>2 DEF Within
  <2> QED BY <2>3 DEF q
<1> QED BY <1>1, <1>2, KinStep

\* The keys the present chain owes are of that chain, and finitely many.
LEMMA RestKeys ==
  ASSUME NEW s \in Session, Shape(s), NEW m \in Message
  PROVE  /\ \A e \in Rest(s, m) : \E d \in s.peer, c \in s.receiving :
              e.dh = d /\ e.key.root = c.root /\ e.key.index = e.n
         /\ IsFiniteSet(Rest(s, m))
<1>1. m.pn \in Nat /\ s.peer \subseteq Nat /\ s.receiving \subseteq ChainKey
      BY DEF Session, Message
<1>2. ASSUME NEW e \in Rest(s, m)
      PROVE  \E d \in s.peer, c \in s.receiving :
               e.dh = d /\ e.key.root = c.root /\ e.key.index = e.n
  <2>1. PICK d \in s.peer, c \in s.receiving : e \in Skipped(d, c, m.pn)
        BY <1>2 DEF Rest
  <2>2. PICK i \in c.index .. m.pn - 1 :
          e = [dh |-> d, n |-> i, key |-> [c EXCEPT !.index = i], old |-> FALSE]
        BY <2>1 DEF Skipped
  <2>3. c \in ChainKey BY <1>1
  <2>4. e.dh = d /\ e.key.root = c.root /\ e.key.index = e.n
        BY <2>2, <2>3 DEF ChainKey
  <2> QED BY <2>4
<1>3. CASE s.peer = {} \/ s.receiving = {}
  <2>1. Rest(s, m) = {} BY <1>3 DEF Rest
  <2> QED BY <1>2, <2>1, FS_EmptySet
<1>4. ASSUME NEW d \in s.peer, NEW c \in s.receiving PROVE IsFiniteSet(Rest(s, m))
  <2>1. s.peer = {d} /\ s.receiving = {c} BY <1>4 DEF Shape
  <2>2. Rest(s, m) = Skipped(d, c, m.pn) BY <2>1 DEF Rest
  <2>3. IsFiniteSet(Skipped(d, c, m.pn)) BY <1>1, SkippedFinite
  <2> QED BY <2>2, <2>3
<1> QED BY <1>2, <1>3, <1>4

\* The session a ratchet step leaves.
LEMMA RatchetLeaves ==
  ASSUME NEW s \in Session, Shape(s), NEW m \in Message, dhKeys \in Nat,
         NEW u \in Ratcheted(s, m)
  PROVE  LET received == Append(s.root, {s.self, m.dh})
             next == Append(received, {dhKeys, m.dh})
         IN /\ u.root = next /\ u.self = dhKeys /\ u.peer = {m.dh}
            /\ u.receiving = {[root |-> received, index |-> 0]}
            /\ u.sending = {[root |-> next, index |-> 0]}
            /\ \A c \in s.sending : (\A d \in s.sending : d = c) => u.pn = c.index
            /\ u.skipped \subseteq s.skipped \cup Rest(s, m)
            /\ IsFiniteSet(s.skipped) => IsFiniteSet(u.skipped)
<1> DEFINE received == Append(s.root, {s.self, m.dh})
           next == Append(received, {dhKeys, m.dh})
<1>1. PICK t \in StoreMany(s.skipped, Rest(s, m)) :
        u = [RatchetStep(s, m.dh, dhKeys) EXCEPT !.skipped = t]
      BY DEF Ratcheted
<1>2. t \subseteq s.skipped \cup Rest(s, m) BY StoreManyBound
<1>3. IsFiniteSet(s.skipped) => IsFiniteSet(t)
  <2> SUFFICES ASSUME IsFiniteSet(s.skipped) PROVE IsFiniteSet(t) OBVIOUS
  <2>1. IsFiniteSet(s.skipped \cup Rest(s, m)) BY RestKeys, FS_Union
  <2> QED BY <1>2, <2>1, FS_Subset
<1> DEFINE n == IF s.sending = {} THEN 0 ELSE (CHOOSE c \in s.sending : TRUE).index
<1>4. u = [s EXCEPT !.root = next, !.self = dhKeys, !.peer = {m.dh},
             !.receiving = {[root |-> received, index |-> 0]},
             !.sending = {[root |-> next, index |-> 0]},
             !.pn = n, !.skipped = t]
      BY <1>1 DEF RatchetStep, Session
<1>5. \A c \in s.sending : (\A d \in s.sending : d = c) => n = c.index OBVIOUS
<1> HIDE DEF n, next, received
<1>6. /\ u.root = next /\ u.self = dhKeys /\ u.peer = {m.dh}
      /\ u.receiving = {[root |-> received, index |-> 0]}
      /\ u.sending = {[root |-> next, index |-> 0]} /\ u.pn = n /\ u.skipped = t
      BY <1>4 DEF Session
<1> QED BY <1>2, <1>3, <1>5, <1>6 DEF next, received

\* Keys the present receiving chain owes, up to where the peer left it, are kept
\* or their messages forgotten; the new chain is the peer's.
LEMMA LinkedRatchet ==
  ASSUME IInv, Linked, NEW p \in Party, NEW m \in sent, m.from # p,
         DecryptRatchet(p, m), m.dh \notin seen[p]
  PROVE  Linked'
<1> DEFINE r == session[p]
           q == Peer(p)
           b == session[q]
           owed == r.skipped \cup Rest(r, m)
<1>0. /\ q \in Party /\ q # p /\ Peer(q) = p /\ m.from = q
      /\ \A x \in Party : x = p \/ x = q
      /\ m \in Message /\ r \in Session /\ Shape(r) /\ dhKeys \in Nat
      BY Peers DEF IInv, TypeOK, Message
<1>1. /\ arrived' = arrived \cup {m} /\ sent' = sent /\ dhKeys' = dhKeys + 1
      /\ seen' = [seen EXCEPT ![p] = @ \cup {m.dh}]
      /\ \E s \in Ratcheted(r, m) : FromChain(p, m, s, owed)
      BY DEF DecryptRatchet, Arrives
<1>2. PICK s \in Ratcheted(r, m) : FromChain(p, m, s, owed) BY <1>1
<1>3. s \in Session /\ Shape(s) BY <1>0, RatchetLemma
<1>4. Ahead(q, p) /\ m.dh = b.self BY <1>0, WhoIsAhead
<1> HIDE DEF q, owed
<1>5. /\ s.self = dhKeys /\ s.peer = {b.self} /\ s.root = Append(b.root, {dhKeys, b.self})
      /\ s.receiving = {[root |-> b.root, index |-> 0]}
      /\ s.sending = {[root |-> s.root, index |-> 0]}
      /\ \A c \in r.sending : (\A d \in r.sending : d = c) => s.pn = c.index
      /\ s.skipped \subseteq r.skipped \cup Rest(r, m)
      /\ IsFiniteSet(r.skipped) => IsFiniteSet(s.skipped)
  <2> DEFINE received == Append(r.root, {r.self, m.dh})
  <2>1. received = b.root
    <3>1. {r.self, m.dh} = {b.self, r.self} BY <1>4
    <3> QED BY <1>4, <3>1 DEF Ahead
  <2>2. /\ s.root = Append(received, {dhKeys, m.dh}) /\ s.self = dhKeys /\ s.peer = {m.dh}
        /\ s.receiving = {[root |-> received, index |-> 0]}
        /\ s.sending = {[root |-> Append(received, {dhKeys, m.dh}), index |-> 0]}
        /\ \A c \in r.sending : (\A d \in r.sending : d = c) => s.pn = c.index
        /\ s.skipped \subseteq r.skipped \cup Rest(r, m)
        /\ IsFiniteSet(r.skipped) => IsFiniteSet(s.skipped)
        BY <1>0, <1>2, RatchetLeaves
  <2> HIDE DEF received
  <2> QED BY <1>4, <2>1, <2>2
<1>6. PICK u \in Session :
        /\ session' = [session EXCEPT ![p] = u]
        /\ Kin(s, u)
        /\ forgotten \subseteq forgotten'
        /\ \A x \in sent : (\E e \in owed : e.dh = x.dh /\ e.n = x.n)
                             => x \in forgotten' \/ ~NotStored(u, x)
        /\ \A x \in sent, c \in s.receiving :
             x.dh = m.dh /\ c.index <= x.n =>
               \/ x \in forgotten' \/ ~NotStored(u, x) \/ x.n = m.n
               \/ \E d \in u.receiving : d.index <= x.n
        /\ s.receiving # {} => u.receiving # {}
        /\ \A d \in u.receiving : d \in s.receiving \/ d.index = m.n + 1
  <2>1. s.peer = {m.dh} BY <1>4, <1>5
  <2> QED BY <1>2, <1>3, <2>1, FromChainLeaves
<1>7. session'[p] = u /\ session'[q] = b BY <1>0, <1>6 DEF IInv, TypeOK
<1>8. /\ u.self = dhKeys /\ u.peer = {b.self} /\ u.root = Append(b.root, {dhKeys, b.self})
      /\ u.sending = {[root |-> u.root, index |-> 0]} /\ u.pn = s.pn
      /\ \A c \in u.receiving : c.root = b.root
      BY <1>5, <1>6 DEF Kin
<1>9. /\ seen'[q] = seen[q] /\ seen'[p] = seen[p] \cup {b.self}
      BY <1>0, <1>1, <1>4 DEF IInv, TypeOK
\* Where the entries of the new store come from.
<1>10. ASSUME NEW e \in u.skipped
       PROVE  \/ \E f \in r.skipped : e.dh = f.dh /\ e.n = f.n /\ e.key = f.key
              \/ \E d \in r.peer, c \in r.receiving :
                   e.dh = d /\ e.key.root = c.root /\ e.key.index = e.n
              \/ e.dh = b.self /\ e.key.root = b.root /\ e.key.index = e.n
  <2>1. CASE \E f \in s.skipped : e.dh = f.dh /\ e.n = f.n /\ e.key = f.key
    <3>1. PICK f \in s.skipped : e.dh = f.dh /\ e.n = f.n /\ e.key = f.key BY <2>1
    <3>2. CASE f \in r.skipped BY <3>1, <3>2
    <3>3. CASE f \in Rest(r, m)
      <4>1. \E d \in r.peer, c \in r.receiving :
              f.dh = d /\ f.key.root = c.root /\ f.key.index = f.n
            BY <1>0, <3>3, RestKeys
      <4> QED BY <3>1, <4>1
    <3> QED BY <1>5, <3>2, <3>3
  <2>2. CASE \E d \in s.peer, c \in s.receiving :
               e.dh = d /\ e.key.root = c.root /\ e.key.index = e.n
        BY <1>5, <2>2
  <2> QED BY <1>6, <2>1, <2>2 DEF Kin
<1>11. b.self < dhKeys /\ b.self \in Nat BY <1>0 DEF Linked, Drawn, IInv, TypeOK, Session
<1>12. /\ \A x \in sent : x.dh < dhKeys /\ x.dh \in Nat
       /\ \A d \in seen[p] \cup seen[q] \cup r.peer \cup b.peer : d < dhKeys /\ d \in Nat
       /\ \A e \in r.skipped \cup b.skipped : e.dh < dhKeys /\ e.dh \in Nat
       BY <1>0 DEF Linked, Drawn, IInv, TypeOK, Session, Message, Entry
<1>13. Drawn'
  <2>1. \A e \in u.skipped : e.dh < dhKeys /\ e.dh \in Nat BY <1>10, <1>11, <1>12
  <2>2. ASSUME NEW x \in Party
        PROVE  /\ session'[x].self < dhKeys'
               /\ \A d \in seen'[x] : d < dhKeys'
               /\ \A d \in session'[x].peer : d < dhKeys'
               /\ \A e \in session'[x].skipped : e.dh < dhKeys'
    <3>1. CASE x = p BY <1>0, <1>1, <1>7, <1>8, <1>9, <1>11, <1>12, <2>1, <3>1
    <3>2. CASE x = q BY <1>0, <1>1, <1>7, <1>9, <1>11, <1>12, <3>2
    <3> QED BY <1>0, <3>1, <3>2
  <2>3. \A x \in sent' : x.dh < dhKeys' BY <1>0, <1>1, <1>12
  <2>4. session'[Alice].self # session'[Bob].self
    <3>1. session'[p].self # session'[q].self BY <1>0, <1>7, <1>8, <1>11
    <3> QED BY <1>0, <3>1 DEF Party
  <2> QED BY <2>2, <2>3, <2>4 DEF Drawn
<1>14. Numbered'
  <2>1. ASSUME NEW x \in Party
        PROVE  /\ \A c, d \in session'[x].sending : c = d
               /\ \A e \in session'[x].skipped : e.key.index = e.n
               /\ IsFiniteSet(session'[x].skipped)
               /\ \A y \in sent' : y.dh = session'[x].self =>
                    /\ y.from = x /\ y.pn = session'[x].pn
                    /\ y.key.root = session'[x].root
                    /\ \E c \in session'[x].sending : y.n < c.index
    <3>1. CASE x = p
      <4>1. \A y \in sent' : y.dh # u.self BY <1>0, <1>1, <1>8, <1>12
      <4>2. \A e \in u.skipped : e.key.index = e.n BY <1>10 DEF Linked, Numbered
      <4>3. IsFiniteSet(u.skipped) BY <1>5, <1>6 DEF Linked, Numbered, Kin
      <4> QED BY <1>7, <1>8, <3>1, <4>1, <4>2, <4>3
    <3>2. CASE x = q BY <1>1, <1>7, <3>2 DEF Linked, Numbered
    <3> QED BY <1>0, <3>1, <3>2
  <2>2. /\ \A y \in sent' : y.key.index = y.n
        /\ \A y, z \in sent' : y.dh = z.dh /\ y.n = z.n => y = z
        BY <1>1 DEF Linked, Numbered
  <2> QED BY <2>1, <2>2 DEF Numbered
<1>15. Agree(p, q)'
  <2>1. \A d, root : IsChain(q, d, root) => IsChain(q, d, root)'
        BY <1>1, <1>7 DEF IsChain
  <2>2. IsChain(q, b.self, b.root) BY <1>0 DEF IsChain, Linked, Numbered
  <2>3. Agree(p, q) BY DEF Linked, q
  <2> HIDE DEF IsChain
  <2>4. \A e \in u.skipped : IsChain(q, e.dh, e.key.root)
        BY <1>10, <2>2, <2>3 DEF Agree
  <2>5. \A c \in u.receiving, d \in u.peer :
          d \in seen'[p] /\ IsChain(q, d, c.root)
        BY <1>8, <1>9, <2>2
  <2> QED BY <1>7, <2>1, <2>4, <2>5 DEF Agree
<1>16. Agree(q, p)'
  <2>1. \A d \in Nat : \A root : d < dhKeys /\ IsChain(p, d, root) => IsChain(p, d, root)'
        BY <1>0, <1>1, <1>7, <1>8 DEF IsChain
  <2>2. Agree(q, p) BY <1>0 DEF Linked
  <2> HIDE DEF IsChain
  <2> QED BY <1>7, <1>9, <1>12, <2>1, <2>2 DEF Agree
<1>17. AllProvided(q)' BY <1>0, <1>1, <1>6, <1>7, <1>9, ProvidedStays
<1>18. ASSUME NEW x \in sent, x.from # p, x.dh \in seen[p] \cup {b.self}
       PROVE  Provided(p, x)'
  <2>0. x \in Message /\ x.n \in Nat /\ x.from = q
        BY <1>0, <1>18 DEF IInv, TypeOK, Message
  <2>1. CASE x.dh = b.self
    <3>1. PICK c \in s.receiving : c.index = 0 BY <1>5
    <3>2. \/ x \in forgotten' \/ ~NotStored(u, x) \/ x.n = m.n
          \/ \E d \in u.receiving : d.index <= x.n
          BY <1>4, <1>6, <2>0, <2>1, <3>1
    <3>3. x.n = m.n => x \in arrived' BY <1>1, <1>4, <2>1 DEF Linked, Numbered
    <3> QED BY <1>7, <1>8, <2>1, <3>2, <3>3 DEF Provided, NotStored
  <2>2. CASE x.dh \in seen[p]
    <3>1. Provided(p, x) BY <1>18, <2>2 DEF Linked, AllProvided
    <3>2. CASE x \in arrived \cup forgotten BY <1>1, <1>6, <3>2 DEF Provided
    <3>3. ASSUME \E e \in owed : e.dh = x.dh /\ e.n = x.n PROVE Provided(p, x)'
      <4>1. x \in forgotten' \/ ~NotStored(u, x) BY <1>6, <3>3
      <4> QED BY <1>7, <4>1 DEF Provided, NotStored
    <3>4. CASE ~NotStored(r, x) BY <3>3, <3>4 DEF NotStored, owed
    <3>5. CASE x.dh \in r.peer /\ \E c \in r.receiving : c.index <= x.n
      <4>1. PICK c \in r.receiving : c.index <= x.n BY <3>5
      <4>2. x.n < m.pn
        <5>1. x.n < b.pn BY <1>4, <2>0, <3>5 DEF Ahead
        <5>2. m.pn = b.pn BY <1>0, <1>4 DEF Linked, Numbered
        <5> QED BY <5>1, <5>2
      <4>3. x.dh \in Nat /\ c \in ChainKey /\ m.pn \in Nat
            BY <1>0, <2>0 DEF Message, Session
      <4>4. \E e \in Skipped(x.dh, c, m.pn) : e.dh = x.dh /\ e.n = x.n
            BY <2>0, <4>1, <4>2, <4>3, SkippedHas
      <4>5. Skipped(x.dh, c, m.pn) \subseteq owed BY <3>5 DEF Rest, owed
      <4> QED BY <3>3, <4>4, <4>5
    <3> QED BY <3>1, <3>2, <3>4, <3>5 DEF Provided
  <2> QED BY <1>18, <2>1, <2>2
<1>19. AllProvided(p)' BY <1>1, <1>9, <1>18 DEF AllProvided
<1>20. Within(p, q)'
  <2>1. \A d \in b.sending : m.n < d.index /\ d.index \in Nat
    <3>1. \E d \in b.sending : m.n < d.index BY <1>0, <1>4 DEF Linked, Numbered
    <3>2. \A c, d \in b.sending : c = d BY <1>0 DEF Linked, Numbered
    <3> QED BY <1>0, <3>1, <3>2 DEF IInv, TypeOK, Session, ChainKey
  <2>2. m.n \in Nat BY <1>0 DEF Message
  <2>3. \A c \in u.receiving : c.index = 0 \/ c.index = m.n + 1 BY <1>5, <1>6
  <2>4. u.receiving # {} BY <1>5, <1>6
  <2> QED BY <1>7, <2>1, <2>2, <2>3, <2>4 DEF Within
<1>21. Within(q, p)' BY <1>0, <1>7, <1>8, <1>9, <1>12 DEF Within
<1>22. Ahead(p, q)'
  <2>1. /\ session'[p].peer = {session'[q].self}
        /\ session'[p].root = Append(session'[q].root, {session'[p].self, session'[q].self})
        BY <1>7, <1>8
  <2>2. dhKeys \notin seen[q] \cup b.peer BY <1>0, <1>12
  <2>3. \A x \in sent : x.from = p => x.dh \in seen[q] BY <1>4 DEF Ahead
  <2>4. \A x \in sent : x.from = q => x.dh \in seen'[p] BY <1>4, <1>9 DEF Ahead
  <2>5. \A x \in sent : x.from = p /\ x.dh \in b.peer => x.n < u.pn
    <3> SUFFICES ASSUME NEW x \in sent, x.from = p, x.dh \in b.peer PROVE x.n < u.pn
        OBVIOUS
    <3>1. x.dh = r.self BY <1>4 DEF Ahead
    <3>2. PICK c \in r.sending : x.n < c.index BY <3>1 DEF Linked, Numbered
    <3>3. \A d \in r.sending : d = c BY DEF Linked, Numbered
    <3> QED BY <1>5, <1>8, <3>2, <3>3
  <2> QED BY <1>1, <1>7, <1>8, <1>9, <2>1, <2>2, <2>3, <2>4, <2>5 DEF Ahead
<1>23. \A x \in Party : (Agree(x, Peer(x)) /\ AllProvided(x) /\ Within(x, Peer(x)))'
  <2>1. (Agree(p, Peer(p)) /\ AllProvided(p) /\ Within(p, Peer(p)))'
        BY <1>15, <1>19, <1>20 DEF q
  <2>2. (Agree(q, Peer(q)) /\ AllProvided(q) /\ Within(q, Peer(q)))'
        BY <1>0, <1>16, <1>17, <1>21
  <2> QED BY <1>0, <2>1, <2>2
<1>24. \E x \in Party : Ahead(x, Peer(x))' BY <1>22 DEF q
<1> QED BY <1>13, <1>14, <1>23, <1>24 DEF Linked

\* Steps that touch the store of one session and nothing else of the sessions.
LEMMA LinkedQuiet ==
  ASSUME IInv, Linked, NEW p \in Party,
         \/ \E m \in sent : DecryptSkipped(p, m) \/ DecryptRefused(p, m)
         \/ CleanupExpiredKeys(p)
  PROVE  Linked'
<1>0. \A q \in Party : session[q] \in Session BY DEF IInv, TypeOK
<1>1. \A q \in Party : Kin(session[q], session[q]) BY DEF Kin
<1>2. ASSUME NEW t, t \subseteq session[p].skipped,
             session' = [session EXCEPT ![p].skipped = t],
             UNCHANGED <<dhKeys, sent, seen>>,
             arrived \subseteq arrived', forgotten \subseteq forgotten',
             \A x \in sent, e \in session[p].skipped \ t :
               e.dh = x.dh /\ e.n = x.n => x \in arrived' \cup forgotten'
      PROVE  Linked'
  <2>1. /\ session'[p].root = session[p].root /\ session'[p].self = session[p].self
        /\ session'[p].peer = session[p].peer /\ session'[p].pn = session[p].pn
        /\ session'[p].sending = session[p].sending
        /\ session'[p].receiving = session[p].receiving /\ session'[p].skipped = t
        BY <1>0, <1>2 DEF IInv, TypeOK, Session
  <2>2. IsFiniteSet(session[p].skipped) => IsFiniteSet(t) BY <1>2, FS_Subset
  <2>3. Kin(session[p], session'[p]) BY <1>2, <2>1, <2>2 DEF Kin
  <2>4. \A x \in sent : ~NotStored(session[p], x) =>
          x \in arrived' \cup forgotten' \/ ~NotStored(session'[p], x)
        BY <1>2, <2>1 DEF NotStored
  <2>5. \A q \in Party : q # p => session'[q] = session[q] BY <1>2 DEF IInv, TypeOK
  <2>6. \A q \in Party :
          /\ Kin(session[q], session'[q])
          /\ session'[q].receiving = session[q].receiving
          /\ \A x \in sent : ~NotStored(session[q], x) /\ x.from # q =>
               x \in arrived' \cup forgotten' \/ ~NotStored(session'[q], x)
    <3> TAKE q \in Party
    <3>1. CASE q = p BY <2>1, <2>3, <2>4, <3>1
    <3>2. CASE q # p
      <4>1. session'[q] = session[q] BY <2>5, <3>2
      <4> QED BY <1>1, <4>1
    <3> QED BY <3>1, <3>2
  <2> QED BY <1>2, <2>6, LinkedStore
<1>3. ASSUME NEW m \in sent, DecryptSkipped(p, m) PROVE Linked'
  <2>1. PICK e \in session[p].skipped :
          /\ e.dh = m.dh /\ e.n = m.n
          /\ session' = [session EXCEPT ![p].skipped = @ \ {e}]
        BY <1>3 DEF DecryptSkipped
  <2> DEFINE t == session[p].skipped \ {e}
  <2>2. session' = [session EXCEPT ![p].skipped = t] BY <2>1
  <2>3. UNCHANGED <<dhKeys, sent, forgotten, seen>> /\ arrived' = arrived \cup {m}
        BY <1>3 DEF DecryptSkipped, Arrives
  <2>4. \A x \in sent : e.dh = x.dh /\ e.n = x.n => x = m
    <3>1. e.dh = m.dh /\ e.n = m.n BY <2>1
    <3>2. \A x, y \in sent : x.dh = y.dh /\ x.n = y.n => x = y BY DEF Linked, Numbered
    <3> QED BY <3>1, <3>2
  <2>5. \A x \in sent, f \in session[p].skipped \ t :
          f.dh = x.dh /\ f.n = x.n => x \in arrived' \cup forgotten'
        BY <2>3, <2>4
  <2> HIDE DEF t
  <2>6. t \subseteq session[p].skipped BY DEF t
  <2> QED BY <1>2, <2>2, <2>3, <2>5, <2>6
<1>4. ASSUME NEW m \in sent, DecryptRefused(p, m) PROVE Linked'
  <2>1. UNCHANGED <<session, dhKeys, sent, forgotten, seen>> /\ arrived' = arrived \cup {m}
        BY <1>4 DEF DecryptRefused, Arrives
  <2> QED BY <1>1, <2>1, LinkedStore
<1>5. CASE CleanupExpiredKeys(p)
  <2> DEFINE live == {e \in session[p].skipped : ~e.old}
  <2>1. /\ session' = [session EXCEPT ![p].skipped = live]
        /\ forgotten' = forgotten \cup Dropped(session[p].skipped, live)
        /\ UNCHANGED <<dhKeys, sent, arrived, seen>>
        BY <1>5 DEF CleanupExpiredKeys
  <2>2. live \subseteq session[p].skipped OBVIOUS
  <2> HIDE DEF live
  <2>3. \A x \in sent, f \in session[p].skipped \ live :
          f.dh = x.dh /\ f.n = x.n => x \in arrived' \cup forgotten'
        BY <2>1 DEF Dropped
  <2> QED BY <1>2, <2>1, <2>2, <2>3
<1> QED BY <1>3, <1>4, <1>5

\* Ageing changes neither the keys stored nor their number.
LEMMA LinkedAge ==
  ASSUME IInv, Linked, Age
  PROVE  Linked'
<1>0. \A q \in Party : session[q] \in Session BY DEF IInv, TypeOK
<1>1. UNCHANGED <<dhKeys, sent, arrived, forgotten, seen>> BY DEF Age, hist
<1>2. ASSUME NEW q \in Party
      PROVE  /\ Kin(session[q], session'[q])
             /\ session'[q].receiving = session[q].receiving
             /\ \A x \in sent : ~NotStored(session[q], x) => ~NotStored(session'[q], x)
  <2> DEFINE S == session[q].skipped
             old(e) == [e EXCEPT !.old = TRUE]
             aged == {old(e) : e \in S}
  <2>1. session'[q] = [session[q] EXCEPT !.skipped = aged] BY DEF Age
  <2>2. ASSUME NEW e \in S
        PROVE  old(e).dh = e.dh /\ old(e).n = e.n /\ old(e).key = e.key
        BY <1>0 DEF Session, Entry
  <2>3. IsFiniteSet(S) => IsFiniteSet(aged)
    <3> SUFFICES ASSUME IsFiniteSet(S) PROVE IsFiniteSet(aged) OBVIOUS
    <3> DEFINE f == [e \in S |-> old(e)]
    <3> HIDE DEF S, old
    <3>1. f \in Surjection(S, aged) BY DEF Surjection
    <3> HIDE DEF f, aged
    <3> QED BY <3>1, FS_Surjection
  <2> HIDE DEF old
  <2>4. /\ \A e \in aged : \E g \in S : e.dh = g.dh /\ e.n = g.n /\ e.key = g.key
        /\ \A g \in S : \E e \in aged : e.dh = g.dh /\ e.n = g.n
        BY <2>2
  <2> HIDE DEF aged
  <2>5. LET u == session'[q] IN
        /\ u.root = session[q].root /\ u.self = session[q].self
        /\ u.peer = session[q].peer /\ u.pn = session[q].pn
        /\ u.sending = session[q].sending
        /\ u.receiving = session[q].receiving /\ u.skipped = aged
        BY <1>0, <2>1 DEF Session
  <2>6. Kin(session[q], session'[q]) BY <2>3, <2>4, <2>5 DEF Kin
  <2>7. \A x \in sent : ~NotStored(session[q], x) => ~NotStored(session'[q], x)
        BY <2>4, <2>5 DEF NotStored
  <2> QED BY <2>5, <2>6, <2>7
<1> QED BY <1>1, <1>2, LinkedStore

\* Corr is inductive.
LEMMA CorrStep == Corr /\ [Next]_vars => Corr'
<1> SUFFICES ASSUME Corr, [Next]_vars, stepsBack' = {} PROVE Linked'
    BY IInvStep DEF Corr
<1>1. ASSUME NEW p \in Party, NEW m \in sent, DecryptRatchet(p, m)
      PROVE  stepsBack = {} /\ m.dh \notin seen[p]
      BY <1>1 DEF DecryptRatchet
<1>2. stepsBack = {}
  <2>1. CASE UNCHANGED vars BY <2>1 DEF vars, hist
  <2>2. ASSUME NEW p \in Party,
               \/ Encrypt(p) \/ CleanupExpiredKeys(p) \/ Age
               \/ \E m \in sent : DecryptSkipped(p, m) \/ DecryptChain(p, m)
                                  \/ DecryptRefused(p, m)
        PROVE  stepsBack = {}
        BY <2>2 DEF Encrypt, CleanupExpiredKeys, Age, DecryptSkipped, DecryptChain,
                    DecryptRefused, hist
  <2>3. Alice \in Party BY DEF Party
  <2> QED BY <1>1, <2>1, <2>2, <2>3 DEF Next
<1>3. IInv /\ Linked BY <1>2 DEF Corr
<1>4. CASE UNCHANGED vars
  <2>1. UNCHANGED <<session, dhKeys, sent, arrived, forgotten, seen>> BY <1>4 DEF vars, hist
  <2>2. \A q \in Party : Kin(session[q], session[q]) BY DEF Kin
  <2> QED BY <1>3, <2>1, <2>2, LinkedStore
<1> QED BY <1>1, <1>3, <1>4, LinkedEncrypt, LinkedQuiet, LinkedChain, LinkedRatchet,
           LinkedAge DEF Next

LEMMA CorrInit == Init => Corr
BY InitIInv, LinkedInit DEF Corr

-----------------------------------------------------------------------------
(* The store never refuses: there are always entries to evict.              *)

\* A finite set has subsets of every size up to its own.
LEMMA SubsetOfSize ==
  ASSUME NEW S, IsFiniteSet(S), NEW k \in Nat, k <= Cardinality(S)
  PROVE  \E T \in SUBSET S : IsFiniteSet(T) /\ Cardinality(T) = k
<1>1. Cardinality(S) \in Nat /\ ExistsBijection(1 .. Cardinality(S), S)
      BY FS_CardinalityType
<1>2. PICK f \in Bijection(1 .. Cardinality(S), S) : TRUE BY <1>1 DEF ExistsBijection
<1> DEFINE n == Cardinality(S)
           T == {f[i] : i \in 1 .. k}
           g == [i \in 1 .. k |-> f[i]]
<1>3. /\ f \in [1 .. n -> S] /\ \A i, j \in 1 .. n : f[i] = f[j] => i = j
      BY <1>2 DEF Bijection, Injection, IsInjective
<1>4. 1 .. k \subseteq 1 .. n BY <1>1
<1> HIDE DEF n
<1>5. T \in SUBSET S BY <1>3, <1>4
<1>6. g \in Bijection(1 .. k, T)
      BY <1>3, <1>4 DEF Bijection, Injection, Surjection, IsInjective
<1>7. ExistsBijection(1 .. k, T) BY <1>6 DEF ExistsBijection
<1>8. IsFiniteSet(1 .. k) /\ Cardinality(1 .. k) = k BY FS_Interval
<1> HIDE DEF T
<1>9. IsFiniteSet(T) /\ Cardinality(T) = k BY <1>7, <1>8, FS_Bijection
<1> QED BY <1>5, <1>9

\* evict_oldest finds as many entries as it drops, the old ones first.
LEMMA OldestLeaves ==
  ASSUME NEW all, IsFiniteSet(all), NEW k \in Nat, k <= Cardinality(all)
  PROVE  \E o \in kSubset(k, all) : \A x \in o, y \in all \ o : y.old => x.old
<1> DEFINE aged == {e \in all : e.old}
           rest == all \ aged
<1>2. SUFFICES \E o \in SUBSET all : /\ Cardinality(o) = k
                                     /\ \A x \in o, y \in all \ o : y.old => x.old
  BY DEF kSubset
<1>3. Cardinality(all) \in Nat BY FS_CardinalityType
<1>5. aged \in SUBSET all /\ rest \in SUBSET all OBVIOUS
<1>6. IsFiniteSet(aged) /\ IsFiniteSet(rest) BY <1>5, FS_Subset
<1>7. Cardinality(aged) \in Nat /\ Cardinality(rest) \in Nat BY <1>6, FS_CardinalityType
<1>8. CASE k <= Cardinality(aged)
  <2>1. PICK o \in SUBSET aged : Cardinality(o) = k BY <1>6, <1>8, SubsetOfSize
  <2>2. \A e \in o : e.old BY <2>1
  <2> QED BY <1>5, <2>1, <2>2
<1>9. CASE k > Cardinality(aged)
  <2>1. aged \cup rest = all /\ aged \cap rest = {} OBVIOUS
  <2>2. Cardinality(all) = Cardinality(aged) + Cardinality(rest)
    <3> HIDE DEF rest, aged
    <3>1. Cardinality(aged \cap rest) = 0 BY <2>1, FS_EmptySet
    <3>2. Cardinality(aged \cup rest)
            = Cardinality(aged) + Cardinality(rest) - Cardinality(aged \cap rest)
          BY <1>6, FS_Union
    <3>3. Cardinality(aged \cup rest) = Cardinality(all) BY <2>1
    <3> QED BY <1>7, <3>1, <3>2, <3>3
  <2>3. k - Cardinality(aged) \in Nat /\ k - Cardinality(aged) <= Cardinality(rest)
        BY <1>3, <1>7, <1>9, <2>2
  <2>4. PICK t \in SUBSET rest : IsFiniteSet(t) /\ Cardinality(t) = k - Cardinality(aged)
        BY <1>6, <2>3, SubsetOfSize
  <2>5. aged \cap t = {} /\ aged \cup t \in SUBSET all BY <1>5, <2>1, <2>4
  <2>6. Cardinality(aged \cup t) = k
    <3> HIDE DEF rest, aged
    <3>1. Cardinality(aged \cap t) = 0 BY <2>5, FS_EmptySet
    <3>2. Cardinality(aged \cup t)
            = Cardinality(aged) + Cardinality(t) - Cardinality(aged \cap t)
          BY <1>6, <2>4, FS_Union
    <3> QED BY <1>7, <2>4, <3>1, <3>2
  <2>7. \A f \in all \ (aged \cup t) : ~f.old OBVIOUS
  <2> QED BY <2>5, <2>6, <2>7
<1> QED BY <1>7, <1>8, <1>9

\* A full store has the entries that make room for another.
LEMMA StoreLeaves ==
  ASSUME NEW store, IsFiniteSet(store), NEW e
  PROVE  \E t \in Store(store, e) : t \subseteq store \cup {e}
<1> DEFINE oldest == {o \in kSubset(Evicted, store) :
                        \A x \in o, y \in store \ o : y.old => x.old}
           outs == IF Cardinality(store) >= MaxStored THEN oldest ELSE {{}}
           left(o) == {f \in store \ o : <<f.dh, f.n>> # <<e.dh, e.n>>} \cup {e}
<1>1. \E o : o \in outs
  <2>1. CASE Cardinality(store) >= MaxStored
    <3>1. Evicted \in Nat /\ Evicted <= Cardinality(store)
          BY <2>1, RatchetAssumption, FS_CardinalityType
    <3>2. \E o \in kSubset(Evicted, store) : \A x \in o, y \in store \ o : y.old => x.old
          BY <3>1, OldestLeaves
    <3> QED BY <2>1, <3>2
  <2> QED BY <2>1
<1>2. Store(store, e) = {left(o) : o \in outs} BY DEF Store
<1>3. PICK o : o \in outs BY <1>1
<1>4. left(o) \subseteq store \cup {e} OBVIOUS
<1> HIDE DEF outs, left
<1> QED BY <1>2, <1>3, <1>4

\* A non-empty set of naturals has a least element.
LEMMA LeastOf ==
  ASSUME NEW T \in SUBSET Nat, T # {}
  PROVE  \E x \in T : \A y \in T : x <= y
<1>1. PICK R : R = OpToRel(<, Nat) OBVIOUS
<1>2. \A x, y \in Nat : y < x => <<y, x>> \in R BY <1>1 DEF OpToRel
<1>3. IsWellFoundedOn(R, Nat) BY <1>1, NatLessThanWellFounded
<1>4. PICK x \in T : \A y \in T : ~(<<y, x>> \in R) BY <1>3, WFMin
<1>5. \A y \in T : ~(y < x) BY <1>2, <1>4
<1>6. \A y \in T : x <= y BY <1>5
<1> QED BY <1>6

\* A run of store, over the indices of the new entries, is one of store_many.
LEMMA StoreManyRuns ==
  ASSUME NEW store, NEW new, new # {},
         NEW f, Min({e.n : e \in new}) = f, NEW l, Max({e.n : e \in new}) = l,
         NEW a \in [f - 1 .. l -> SUBSET (store \cup new)],
         a[f - 1] = store, a[l] \in SUBSET (store \cup new),
         \A i \in f .. l : \E e \in new : e.n = i /\ a[i] \in Store(a[i - 1], e)
  PROVE  a[l] \in StoreMany(store, new)
BY DEF StoreMany

\* So does store_many, for keys with consecutive indices.
LEMMA StoreManyLeaves ==
  ASSUME NEW store, NEW new, IsFiniteSet(store), IsFiniteSet(new),
         NEW first \in Nat, NEW last \in Int, {e.n : e \in new} = first .. last
  PROVE  StoreMany(store, new) # {}
<1> DEFINE stores == SUBSET (store \cup new)
           Run(a, k) == /\ a \in [first - 1 .. first - 1 + k -> stores]
                        /\ a[first - 1] = store
                        /\ \A i \in first .. first - 1 + k : \E e \in new :
                             e.n = i /\ a[i] \in Store(a[i - 1], e)
<1>1. CASE new = {} BY <1>1 DEF StoreMany
<1>2. CASE new # {}
  <2>1. first <= last
    <3>1. PICK e : e \in new BY <1>2
    <3>2. e.n \in first .. last BY <3>1
    <3> QED BY <3>2
  <2>2. Min({e.n : e \in new}) = first /\ Max({e.n : e \in new}) = last
    <3>1. Min(first .. last) = first BY <2>1 DEF Min
    <3>2. Max(first .. last) = last BY <2>1 DEF Max
    <3> QED BY <3>1, <3>2
  <2> DEFINE T == {k \in Nat : k <= last - first + 1 /\ ~\E a : Run(a, k)}
  <2>3. \E a : Run(a, 0)
    <3> DEFINE a == [i \in first - 1 .. first - 1 |-> store]
    <3>1. a \in [first - 1 .. first - 1 + 0 -> stores] /\ a[first - 1] = store OBVIOUS
    <3>2. \A i \in first .. first - 1 + 0 : FALSE OBVIOUS
    <3> HIDE DEF a, stores
    <3>3. Run(a, 0) BY <3>1, <3>2
    <3> QED BY <3>3
  <2>4. ASSUME NEW k \in Nat, k < last - first + 1, NEW a, Run(a, k)
        PROVE  \E b : Run(b, k + 1)
    <3>1. PICK e \in new : e.n = first + k
      <4>1. first + k \in first .. last BY <2>4
      <4> QED BY <4>1
    <3>2. a[first - 1 + k] \in stores
      <4>1. first - 1 + k \in first - 1 .. first - 1 + k BY <2>4
      <4> QED BY <2>4, <4>1
    <3>3. IsFiniteSet(a[first - 1 + k])
      <4>1. IsFiniteSet(store \cup new) BY FS_Union
      <4> QED BY <3>2, <4>1, FS_Subset
    <3>4. PICK t \in Store(a[first - 1 + k], e) : t \subseteq a[first - 1 + k] \cup {e}
          BY <3>3, StoreLeaves
    <3>5. t \in stores BY <3>1, <3>2, <3>4
    <3> HIDE DEF stores
    <3> DEFINE b == [i \in first - 1 .. first - 1 + (k + 1) |-> IF i = first + k THEN t ELSE a[i]]
    <3>6. b \in [first - 1 .. first - 1 + (k + 1) -> stores] BY <2>4, <3>5
    <3>7. \A i \in first - 1 .. first - 1 + k : b[i] = a[i] BY <2>4
    <3>8. b[first + k] = t BY <2>4
    <3> HIDE DEF b
    <3>9. b[first - 1] = store BY <2>4, <3>7
    <3>10. ASSUME NEW i \in first .. first - 1 + (k + 1)
           PROVE  \E f \in new : f.n = i /\ b[i] \in Store(b[i - 1], f)
      <4>1. CASE i = first + k
        <5>1. b[i] = t /\ b[i - 1] = a[first - 1 + k] BY <2>4, <3>7, <3>8, <4>1
        <5> QED BY <3>1, <3>4, <4>1, <5>1
      <4>2. CASE i # first + k
        <5>1. i \in first .. first - 1 + k /\ i - 1 \in first - 1 .. first - 1 + k BY <2>4, <4>2
        <5>2. b[i] = a[i] /\ b[i - 1] = a[i - 1] BY <3>7, <5>1
        <5> QED BY <2>4, <5>1, <5>2
      <4> QED BY <4>1, <4>2
    <3>11. Run(b, k + 1) BY <3>6, <3>9, <3>10
    <3> QED BY <3>11
  <2> HIDE DEF Run
  <2>5. T = {}
    <3> SUFFICES ASSUME T # {} PROVE FALSE OBVIOUS
    <3>1. PICK k \in T : \A j \in T : k <= j BY LeastOf
    <3>2. k # 0 BY <2>3, <3>1
    <3>3. k - 1 \in Nat /\ k - 1 < last - first + 1 /\ k - 1 \notin T BY <3>1, <3>2
    <3>4. \E a : Run(a, k - 1) BY <3>3
    <3>5. \E b : Run(b, (k - 1) + 1) BY <2>4, <3>3, <3>4
    <3>6. (k - 1) + 1 = k BY <3>1
    <3> QED BY <3>1, <3>5, <3>6
  <2>6. PICK a : Run(a, last - first + 1)
    <3>1. last - first + 1 \in Nat BY <2>1
    <3> QED BY <2>5, <3>1
  <2>7. first - 1 + (last - first + 1) = last BY <2>1
  <2>8. /\ a \in [first - 1 .. last -> stores] /\ a[first - 1] = store
        /\ \A i \in first .. last : \E e \in new : e.n = i /\ a[i] \in Store(a[i - 1], e)
        BY <2>6, <2>7 DEF Run
  <2>9. a[last] \in stores
    <3>1. last \in first - 1 .. last BY <2>1
    <3> QED BY <2>8, <3>1
  <2>10. a[last] \in StoreMany(store, new)
    BY <1>2, <2>2, <2>8, <2>9, StoreManyRuns
  <2> QED BY <2>10
<1> QED BY <1>1, <1>2

\* The keys a ratchet step files have consecutive indices.
LEMMA RestNumbers ==
  ASSUME NEW s \in Session, Shape(s), NEW m \in Message
  PROVE  \E first \in Nat, last \in Int : {e.n : e \in Rest(s, m)} = first .. last
<1>1. CASE s.peer = {} \/ s.receiving = {}
  <2>1. Rest(s, m) = {} BY <1>1 DEF Rest
  <2>2. {e.n : e \in Rest(s, m)} = 0 .. 0 - 1 BY <2>1
  <2>3. 0 \in Nat /\ 0 - 1 \in Int OBVIOUS
  <2> QED BY <2>2, <2>3
<1>2. ASSUME NEW d \in s.peer, NEW c \in s.receiving
      PROVE  \E first \in Nat, last \in Int : {e.n : e \in Rest(s, m)} = first .. last
  <2>1. m.pn \in Nat /\ c \in ChainKey /\ c.index \in Nat
        BY DEF Session, Message, ChainKey
  <2>2. s.peer = {d} /\ s.receiving = {c} BY DEF Shape
  <2>3. Rest(s, m) = Skipped(d, c, m.pn) BY <2>2 DEF Rest
  <2>4. Rest(s, m) = {[dh |-> d, n |-> i, key |-> [c EXCEPT !.index = i], old |-> FALSE] :
                        i \in c.index .. m.pn - 1}
        BY <2>3 DEF Skipped
  <2>5. \A e \in Rest(s, m) : e.n \in c.index .. m.pn - 1 BY <2>4
  <2>6. ASSUME NEW i \in c.index .. m.pn - 1 PROVE \E e \in Rest(s, m) : e.n = i
    <3>1. PICK e : e = [dh |-> d, n |-> i, key |-> [c EXCEPT !.index = i], old |-> FALSE]
          OBVIOUS
    <3>2. e \in Rest(s, m) BY <2>4, <3>1
    <3>3. e.n = i BY <3>1
    <3> QED BY <3>2, <3>3
  <2>7. {e.n : e \in Rest(s, m)} = c.index .. m.pn - 1 BY <2>5, <2>6
  <2>8. m.pn - 1 \in Int BY <2>1
  <2> QED BY <2>1, <2>7, <2>8
<1> QED BY <1>1, <1>2

-----------------------------------------------------------------------------
(* The theorems.                                                            *)

\* The first time a session ratchets back to a key it has left, it is on a
\* message it was given before or whose stored key it dropped.
THEOREM StepsBackAlwaysRepeats == Spec => StepsBackAreRepeats
<1>1. ASSUME Corr, [Next]_vars, stepsBack = {}
      PROVE  stepsBack' \subseteq arrived \cup forgotten
  <2>0. IInv /\ Linked BY <1>1 DEF Corr
  <2>1. CASE UNCHANGED vars BY <1>1, <2>1 DEF vars, hist
  <2>2. ASSUME NEW p \in Party,
               \/ Encrypt(p) \/ CleanupExpiredKeys(p) \/ Age
               \/ \E m \in sent : DecryptSkipped(p, m) \/ DecryptChain(p, m)
                                  \/ DecryptRefused(p, m)
        PROVE  stepsBack' = {}
        BY <1>1, <2>2 DEF Encrypt, CleanupExpiredKeys, Age, DecryptSkipped, DecryptChain,
                          DecryptRefused, hist
  <2>3. ASSUME NEW p \in Party, NEW m \in sent, m.from # p, DecryptRatchet(p, m),
               m.dh \in seen[p]
        PROVE  m \in arrived \cup forgotten
    <3>1. Provided(p, m) BY <2>0, <2>3 DEF Linked, AllProvided
    <3>2. NotStored(session[p], m) /\ session[p].peer # {m.dh}
          BY <2>3 DEF DecryptRatchet, NeedsRatchet
    <3>3. \A c, d \in session[p].peer : c = d BY <2>0 DEF IInv, Shape
    <3>4. m.dh \notin session[p].peer BY <3>2, <3>3
    <3> QED BY <3>1, <3>2, <3>4 DEF Provided
  <2>4. ASSUME NEW p \in Party, NEW m \in sent, m.from # p, DecryptRatchet(p, m)
        PROVE  stepsBack' \subseteq arrived \cup forgotten
    <3>1. stepsBack' = IF m.dh \in seen[p] THEN stepsBack \cup {m} ELSE stepsBack
          BY <2>4 DEF DecryptRatchet
    <3> QED BY <1>1, <2>3, <2>4, <3>1
  <2>5. Alice \in Party BY DEF Party
  <2> QED BY <1>1, <2>1, <2>2, <2>4, <2>5 DEF Next
<1>2. Corr /\ [Next]_vars => [stepsBack = {} => stepsBack' \subseteq arrived \cup forgotten]_vars
      BY <1>1
<1> QED BY <1>2, CorrInit, CorrStep, PTL DEF Spec, StepsBackAreRepeats

\* What a delivery that cannot be refused by the limits opens.
LEMMA DeliveryOpens ==
  ASSUME IInv, Linked, NEW p \in Party, NEW m \in sent, m.from # p,
         m \notin arrived, m \notin forgotten, ~TooFar(session[p], m), stepsBack' = {},
         \/ DecryptSkipped(p, m) \/ DecryptChain(p, m)
         \/ DecryptRatchet(p, m) \/ DecryptRefused(p, m)
  PROVE  m \in opened'
<1> DEFINE r == session[p]
           q == Peer(p)
<1>0. /\ q \in Party /\ m.from = q /\ m \in Message /\ m.n \in Nat /\ m.pn \in Nat
      /\ m.key.index = m.n /\ r \in Session /\ Shape(r) /\ dhKeys \in Nat
      /\ MaxSkip \in Nat
  <2>1. q \in Party /\ m.from = q BY Peers DEF IInv, TypeOK, Message
  <2> QED BY <2>1, RatchetAssumption DEF IInv, TypeOK, Message, Linked, Numbered
<1>1. Agree(p, q) BY DEF Linked
<1>2. CASE DecryptSkipped(p, m)
  <2>1. PICK e \in r.skipped : e.dh = m.dh /\ e.n = m.n /\ Opens(m, e.key = m.key)
        BY <1>2 DEF DecryptSkipped
  <2>2. m.key.root = e.key.root BY <1>0, <1>1, <2>1 DEF Agree, IsChain
  <2>3. m.key.index = e.key.index BY <1>0, <2>1 DEF Linked, Numbered
  <2>4. m.key \in ChainKey /\ e.key \in ChainKey BY <1>0 DEF Message, Session, Entry
  <2>5. m.key = e.key BY <2>2, <2>3, <2>4 DEF ChainKey
  <2> QED BY <2>1, <2>5 DEF Opens
<1>3. CASE DecryptChain(p, m)
  <2>1. r.peer = {m.dh} /\ NotStored(r, m) /\ r.receiving # {}
        BY <1>3 DEF DecryptChain, NeedsRatchet
  <2>2. PICK c \in r.receiving : TRUE BY <2>1
  <2>3. c \in ChainKey /\ c.index \in Nat /\ \A d \in r.receiving : d = c
        BY <1>0 DEF Session, ChainKey, Shape
  <2>4. m.dh \in seen[p] /\ c.root = m.key.root BY <1>0, <1>1, <2>1 DEF Agree, IsChain
  <2>5. c.index <= m.n
    <3>1. Provided(p, m) BY <2>4 DEF Linked, AllProvided
    <3>2. \E d \in r.receiving : d.index <= m.n BY <2>1, <3>1 DEF Provided
    <3> QED BY <2>3, <3>2
  <2>6. ~(Gap(c, m.n) > MaxSkip) BY <2>1 DEF TooFar, NeedsRatchet
  <2>7. FromChain(p, m, r, r.skipped) BY <1>3 DEF DecryptChain
  <2>8. \A d \in r.receiving :
          ~(Gap(d, m.n) > MaxSkip) /\ d.index <= m.n /\ d.root = m.key.root
            /\ m.key.index = m.n => m \in opened'
    <3> HIDE DEF r
    <3> QED BY <1>0, <2>1, <2>7, FromChainLeaves
  <2> QED BY <1>0, <2>4, <2>5, <2>6, <2>8
<1>4. CASE DecryptRatchet(p, m)
  <2>1. m.dh \notin seen[p] BY <1>4 DEF DecryptRatchet
  <2>2. Ahead(q, p) /\ m.dh = session[q].self BY <1>0, <2>1, WhoIsAhead
  <2>3. m.key.root = session[q].root BY <1>0, <2>2 DEF Linked, Numbered
  <2> DEFINE owed == r.skipped \cup Rest(r, m)
  <2>4. PICK s \in Ratcheted(r, m) : FromChain(p, m, s, owed)
        BY <1>4 DEF DecryptRatchet
  <2>5. s \in Session /\ Shape(s) BY <1>0, RatchetLemma
  <2>6. /\ s.peer = {m.dh}
        /\ s.receiving = {[root |-> Append(r.root, {r.self, m.dh}), index |-> 0]}
    <3> DEFINE received == Append(r.root, {r.self, m.dh})
    <3>1. /\ s.root = Append(received, {dhKeys, m.dh}) /\ s.self = dhKeys /\ s.peer = {m.dh}
          /\ s.receiving = {[root |-> received, index |-> 0]}
          /\ s.sending = {[root |-> Append(received, {dhKeys, m.dh}), index |-> 0]}
          /\ \A c \in r.sending : (\A d \in r.sending : d = c) => s.pn = c.index
          /\ s.skipped \subseteq r.skipped \cup Rest(r, m)
          /\ IsFiniteSet(r.skipped) => IsFiniteSet(s.skipped)
          BY <1>0, <2>4, RatchetLeaves
    <3> QED BY <3>1
  <2>7. Append(r.root, {r.self, m.dh}) = m.key.root
    <3>1. {r.self, m.dh} = {session[q].self, r.self} BY <2>2
    <3> QED BY <2>2, <2>3, <3>1 DEF Ahead
  <2>8. PICK c \in s.receiving : c.index = 0 /\ c.root = m.key.root BY <2>6, <2>7
  <2>9. r.peer # {m.dh} BY <1>4 DEF DecryptRatchet, NeedsRatchet
  <2>10. ~(m.n > MaxSkip) BY <2>9 DEF TooFar, NeedsRatchet
  <2>11. ~(Gap(c, m.n) > MaxSkip) /\ c.index <= m.n BY <1>0, <2>8, <2>10 DEF Gap
  <2>12. \A d \in s.receiving :
           ~(Gap(d, m.n) > MaxSkip) /\ d.index <= m.n /\ d.root = m.key.root
             /\ m.key.index = m.n => m \in opened'
    <3> HIDE DEF owed
    <3> QED BY <2>4, <2>5, <2>6, FromChainLeaves
  <2> QED BY <1>0, <2>8, <2>11, <2>12
<1>5. CASE DecryptRefused(p, m)
  <2>1. Ratcheted(r, m) = {} /\ r.peer # {m.dh} BY <1>5 DEF DecryptRefused, NeedsRatchet
  <2>2. ~\E c \in r.receiving : Gap(c, m.pn) > MaxSkip BY <2>1 DEF TooFar, NeedsRatchet
  <2>3. IsFiniteSet(r.skipped) /\ IsFiniteSet(Rest(r, m))
        BY <1>0, RestKeys DEF Linked, Numbered
  <2>4. PICK t : t \in StoreMany(r.skipped, Rest(r, m))
    <3>1. PICK first \in Nat, last \in Int : {e.n : e \in Rest(r, m)} = first .. last
          BY <1>0, RestNumbers
    <3> QED BY <2>3, <3>1, StoreManyLeaves
  <2>5. [RatchetStep(r, m.dh, dhKeys) EXCEPT !.skipped = t] \in Ratcheted(r, m)
        BY <2>2, <2>4 DEF Ratcheted
  <2> QED BY <2>1, <2>5
<1> QED BY <1>2, <1>3, <1>4, <1>5

\* Out-of-order messages can be decrypted: until some session has been taken
\* back to an old ratchet key, the first delivery of a message within max_skip
\* opens it unless its stored key was dropped, for any number of messages and
\* chains and whatever the order they arrive in.
THEOREM FirstDeliveryAlwaysOpens == Spec => FirstDeliveryOpens
<1>1. ASSUME Corr, Next, NEW m \in arrived' \ arrived, stepsBack' = {},
             ~TooFar(session[Peer(m.from)], m), m \notin forgotten
      PROVE  m \in opened'
  <2>1. ASSUME NEW p \in Party, Encrypt(p) \/ CleanupExpiredKeys(p) \/ Age
        PROVE  FALSE
        BY <1>1, <2>1 DEF Encrypt, CleanupExpiredKeys, Age, hist
  <2>2. ASSUME NEW p \in Party, NEW x \in sent, x.from # p,
               \/ DecryptSkipped(p, x) \/ DecryptChain(p, x)
               \/ DecryptRatchet(p, x) \/ DecryptRefused(p, x)
        PROVE  m \in opened'
    <3>1. arrived' = arrived \cup {x}
          BY <2>2 DEF DecryptSkipped, DecryptChain, DecryptRatchet, DecryptRefused, Arrives
    <3>2. m = x BY <1>1, <3>1
    <3>3. stepsBack = {}
          BY <1>1, <2>2 DEF DecryptSkipped, DecryptChain, DecryptRatchet, DecryptRefused
    <3>4. IInv /\ Linked BY <1>1, <3>3 DEF Corr
    <3>5. m.from \in Party BY <2>2, <3>2, <3>4 DEF IInv, TypeOK, Message
    <3>6. p = Peer(m.from) BY <2>2, <3>2, <3>5, Peers
    <3> QED BY <1>1, <2>2, <3>2, <3>4, <3>6, DeliveryOpens
  <2>3. Alice \in Party BY DEF Party
  <2> QED BY <1>1, <2>1, <2>2, <2>3 DEF Next
<1>2. Corr /\ [Next]_vars =>
        [\A m \in arrived' \ arrived :
           \/ m \in opened'
           \/ stepsBack' # {}
           \/ TooFar(session[Peer(m.from)], m)
           \/ m \in forgotten]_vars
      BY <1>1
<1> QED BY <1>2, CorrInit, CorrStep, PTL DEF Spec, FirstDeliveryOpens
=============================================================================

---------------------------- MODULE PubSubProofs ----------------------------
(***************************************************************************)
(* Theorems about PubSub, for any nodes, channels and publishers and any   *)
(* number of messages: whoever a dispatch finds can be called, a node that *)
(* has been destroyed is in no list, and a subscriber is handed every      *)
(* message once and in order.                                              *)
(*                                                                         *)
(* The shared mutex makes the two tables of a subscription one (Tables):   *)
(* they disagree only about the channel the writer of the lock is adding,  *)
(* and no dispatch is on its way while there is a writer (Lock).  As the   *)
(* lists do not change during a dispatch either, the loop meets each of    *)
(* their entries once (Streams).                                           *)
(***************************************************************************)
EXTENDS PubSub, TLAPS

\* Who owns the lock.
Lock ==
  /\ \A p \in Publishers : channel[p] # NoChannel <=> p \in readers
  /\ \A p \in Publishers : channel[p] # NoChannel => position[p] >= 1
  /\ \A n \in Nodes : adding[n] # NoChannel => writer = n

\* The list of a channel and the tables of its subscribers.
Tables ==
  /\ \A n \in Nodes, ch \in Channels : n \in Subscribers(ch) =>
       /\ life[n] # "gone"
       /\ adding[n] = ch \/ (ch \in callbacks[n] /\ ch \in ToSet(subscribed[n]))
  /\ \A n \in Nodes, ch \in Channels : life[n] = "alive" /\ ch \in callbacks[n] => n \in Subscribers(ch)
  /\ \A n \in Nodes : adding[n] # NoChannel =>
       /\ life[n] = "alive"
       /\ n \in Subscribers(adding[n]) /\ adding[n] \notin callbacks[n]

\* What a node has been handed: nothing before its subscription, since then every message.
Stream(n, ch, p) ==
  /\ life[n] = "alive" /\ ch \notin callbacks[n] => inbox[n][ch][p] = <<>>
  /\ n \in Subscribers(ch) /\ ch \in callbacks[n] =>
       /\ since[n][ch][p] <= Reached(p, n, ch)
       /\ runnerUp[n] =>
            inbox[n][ch][p] = [i \in 1 .. Reached(p, n, ch) - since[n][ch][p] |-> since[n][ch][p] + i]
Streams == \A n \in Nodes, ch \in Channels, p \in Publishers : Stream(n, ch, p)

IInv == TypeOK /\ Lock /\ Tables /\ Streams

-----------------------------------------------------------------------------
(* Putting two sequences behind one another.                               *)
LEMMA ConcatFacts ==
  ASSUME NEW S, NEW a \in Seq(S), NEW b \in Seq(S)
  PROVE  /\ a \o b \in Seq(S) /\ Len(a \o b) = Len(a) + Len(b)
         /\ \A k \in 1 .. Len(a) : (a \o b)[k] = a[k]
         /\ \A k \in Len(a) + 1 .. Len(a) + Len(b) : (a \o b)[k] = b[k - Len(a)]
OBVIOUS

(* Removing one entry of a list leaves the others in their order.          *)
LEMMA RemoveFacts ==
  ASSUME NEW S, NEW s \in Seq(S), NEW i \in 1 .. Len(s)
  PROVE  LET r == RemoveAt(s, i) IN
           /\ r \in Seq(S) /\ Len(r) = Len(s) - 1
           /\ \A k \in 1 .. i - 1 : r[k] = s[k]
           /\ \A k \in i .. Len(s) - 1 : r[k] = s[k + 1]
<1> DEFINE a == SubSeq(s, 1, i - 1)
           b == SubSeq(s, i + 1, Len(s))
<1>1. a \in Seq(S) /\ Len(a) = i - 1 /\ \A k \in 1 .. i - 1 : a[k] = s[k]
  OBVIOUS
<1>2. b \in Seq(S) /\ Len(b) = Len(s) - i /\ \A k \in 1 .. Len(s) - i : b[k] = s[k + i]
  OBVIOUS
<1>3. RemoveAt(s, i) = a \o b
  BY DEF RemoveAt
<1> HIDE DEF a, b
<1>4. /\ a \o b \in Seq(S) /\ Len(a \o b) = Len(s) - 1
      /\ \A k \in 1 .. i - 1 : (a \o b)[k] = a[k]
      /\ \A k \in i .. Len(s) - 1 : (a \o b)[k] = b[k - (i - 1)]
  BY <1>1, <1>2, ConcatFacts
<1>5. \A k \in i .. Len(s) - 1 : b[k - (i - 1)] = s[k + 1]
  <2> SUFFICES ASSUME NEW k \in i .. Len(s) - 1 PROVE b[k - (i - 1)] = s[k + 1]
    OBVIOUS
  <2>1. k - (i - 1) \in 1 .. Len(s) - i /\ (k - (i - 1)) + i = k + 1
    OBVIOUS
  <2> QED BY <1>2, <2>1
<1> QED BY <1>1, <1>3, <1>4, <1>5

(* Erasing a node from a list without duplicates: it is gone, the others   *)
(* are there, and no duplicate is made.                                    *)
LEMMA EraseFacts ==
  ASSUME NEW list \in Seq(Nodes), NEW n \in Nodes, IsInjective(list)
  PROVE  /\ Erase(list, n) \in Seq(Nodes)
         /\ IsInjective(Erase(list, n))
         /\ ToSet(Erase(list, n)) = ToSet(list) \ {n}
<1>1. CASE n \notin ToSet(list)
  BY <1>1 DEF Erase
<1>2. CASE n \in ToSet(list)
  <2> DEFINE i == CHOOSE x \in 1 .. Len(list) : list[x] = n
             r == RemoveAt(list, i)
  <2>1. i \in 1 .. Len(list) /\ list[i] = n
    BY <1>2 DEF ToSet
  <2>2. Erase(list, n) = r
    BY <1>2 DEF Erase
  <2> HIDE DEF i
  <2>3. /\ r \in Seq(Nodes) /\ Len(r) = Len(list) - 1
        /\ \A k \in 1 .. i - 1 : r[k] = list[k]
        /\ \A k \in i .. Len(list) - 1 : r[k] = list[k + 1]
    BY <2>1, RemoveFacts
  <2> HIDE DEF r
  <2>4. DOMAIN r = 1 .. Len(list) - 1 /\ DOMAIN list = 1 .. Len(list) /\ Len(list) \in Nat
    BY <2>3
  <2>5. \A k \in DOMAIN r : \E x \in DOMAIN list : /\ r[k] = list[x] /\ x # i
                                                   /\ x = k \/ x = k + 1
                                                   /\ x < i <=> k < i
                                                   /\ x = IF k < i THEN k ELSE k + 1
    BY <2>1, <2>3, <2>4
  <2>6. \A k, l \in DOMAIN r : r[k] = r[l] => k = l
    BY <2>1, <2>4, <2>5 DEF IsInjective
  <2>7. n \notin ToSet(r)
    BY <2>1, <2>4, <2>5 DEF IsInjective, ToSet
  <2>8. \A m \in ToSet(r) : m \in ToSet(list)
    BY <2>5 DEF ToSet
  <2>9. ASSUME NEW m \in ToSet(list), m # n PROVE m \in ToSet(r)
    <3>1. PICK x \in 1 .. Len(list) : list[x] = m /\ x # i
      BY <2>1, <2>4, <2>9 DEF ToSet
    <3>2. CASE x < i
      <4>1. x \in 1 .. i - 1 /\ x \in DOMAIN r /\ r[x] = m
        BY <2>1, <2>3, <2>4, <3>1, <3>2
      <4> QED BY <4>1 DEF ToSet
    <3>3. CASE x > i
      <4>1. x - 1 \in i .. Len(list) - 1 /\ x - 1 \in DOMAIN r /\ r[x - 1] = m
        BY <2>1, <2>3, <2>4, <3>1, <3>3
      <4> QED BY <4>1 DEF ToSet
    <3> QED BY <2>1, <3>1, <3>2, <3>3
  <2> QED BY <2>2, <2>3, <2>6, <2>7, <2>8, <2>9 DEF IsInjective
<1> QED BY <1>1, <1>2

(* A subscriber that is new to a list is put at its end.                   *)
LEMMA AppendFacts ==
  ASSUME NEW list \in Seq(Nodes), NEW n \in Nodes, IsInjective(list), n \notin ToSet(list)
  PROVE  /\ Append(list, n) \in Seq(Nodes)
         /\ IsInjective(Append(list, n))
         /\ ToSet(Append(list, n)) = ToSet(list) \union {n}
<1> DEFINE r == Append(list, n)
<1>1. /\ r \in Seq(Nodes) /\ Len(r) = Len(list) + 1 /\ Len(list) \in Nat
      /\ \A k \in 1 .. Len(list) : r[k] = list[k]
      /\ r[Len(list) + 1] = n
  OBVIOUS
<1> HIDE DEF r
<1>2. DOMAIN r = 1 .. Len(list) + 1 /\ DOMAIN list = 1 .. Len(list)
  BY <1>1
<1>3. \A k \in 1 .. Len(list) : list[k] # n
  BY <1>2 DEF ToSet
<1>4. IsInjective(r)
  BY <1>1, <1>2, <1>3 DEF IsInjective
<1>5. ToSet(r) = ToSet(list) \union {n}
  BY <1>1, <1>2 DEF ToSet
<1> QED BY <1>1, <1>4, <1>5 DEF r

(* A channel that is added to those of a node.                             *)
LEMMA AddedFacts ==
  ASSUME NEW S, NEW s \in Seq(S), NEW x \in S
  PROVE  Append(s, x) \in Seq(S) /\ ToSet(Append(s, x)) = ToSet(s) \union {x}
<1> DEFINE r == Append(s, x)
<1>1. /\ r \in Seq(S) /\ Len(r) = Len(s) + 1 /\ Len(s) \in Nat
      /\ \A k \in 1 .. Len(s) : r[k] = s[k]
      /\ r[Len(s) + 1] = x
  OBVIOUS
<1> HIDE DEF r
<1>2. DOMAIN r = 1 .. Len(s) + 1 /\ DOMAIN s = 1 .. Len(s)
  BY <1>1
<1>3. ToSet(r) = ToSet(s) \union {x}
  BY <1>1, <1>2 DEF ToSet
<1> QED BY <1>1, <1>3 DEF r

(* The next number at the end of consecutive ones.                         *)
LEMMA NextNumber ==
  ASSUME NEW a \in Nat, NEW k \in Nat
  PROVE  Append([i \in 1 .. k |-> a + i], a + k + 1) = [i \in 1 .. k + 1 |-> a + i]
<1> DEFINE s == [i \in 1 .. k |-> a + i]
           t == [i \in 1 .. k + 1 |-> a + i]
<1>1. s \in Seq(Nat) /\ Len(s) = k /\ t \in Seq(Nat) /\ Len(t) = k + 1
  OBVIOUS
<1>2. Append(s, a + k + 1) \in Seq(Nat) /\ Len(Append(s, a + k + 1)) = k + 1
  BY <1>1
<1>3. \A i \in 1 .. k + 1 : Append(s, a + k + 1)[i] = t[i]
  BY <1>1
<1> QED BY <1>1, <1>2, <1>3

(* The channels that remain when the first has been dealt with.            *)
LEMMA TailFacts ==
  ASSUME NEW S, NEW s \in Seq(S), s # <<>>
  PROVE  /\ Head(s) \in S /\ Tail(s) \in Seq(S)
         /\ \A x \in ToSet(s) : x = Head(s) \/ x \in ToSet(Tail(s))
<1>1. /\ Tail(s) \in Seq(S) /\ Len(Tail(s)) = Len(s) - 1 /\ Len(s) \in Nat \ {0} /\ Head(s) = s[1] /\ Head(s) \in S
      /\ \A k \in 1 .. Len(s) - 1 : Tail(s)[k] = s[k + 1]
  OBVIOUS
<1>2. DOMAIN s = 1 .. Len(s) /\ DOMAIN Tail(s) = 1 .. Len(s) - 1
  BY <1>1
<1>3. ASSUME NEW k \in 1 .. Len(s), k # 1 PROVE s[k] \in ToSet(Tail(s))
  <2>1. k - 1 \in DOMAIN Tail(s) /\ Tail(s)[k - 1] = s[k]
    BY <1>1, <1>2, <1>3
  <2> QED BY <2>1 DEF ToSet
<1> QED BY <1>1, <1>2, <1>3 DEF ToSet

-----------------------------------------------------------------------------
(* The two steps that change a list.                                       *)
LEMMA SubscribeFacts ==
  ASSUME TypeOK, NEW n \in Nodes, NEW ch \in Channels, BeginSubscribe(n, ch)
  PROVE  /\ subList' \in [Channels -> Seq(Nodes)]
         /\ \A c \in Channels : IsInjective(subList'[c])
         /\ Subscribers(ch)' = Subscribers(ch) \union {n}
         /\ \A c \in Channels \ {ch} : Subscribers(c)' = Subscribers(c)
<1>1. subList[ch] \in Seq(Nodes) /\ IsInjective(subList[ch]) /\ n \notin ToSet(subList[ch])
  BY DEF TypeOK, BeginSubscribe, Subscribers
<1>2. subList' = [subList EXCEPT ![ch] = Append(subList[ch], n)]
  BY DEF BeginSubscribe
<1>3. subList' \in [Channels -> Seq(Nodes)] /\ subList'[ch] = Append(subList[ch], n)
  BY <1>1, <1>2, AppendFacts DEF TypeOK
<1>4. \A c \in Channels \ {ch} : subList'[c] = subList[c]
  BY <1>2 DEF TypeOK
<1>5. ASSUME NEW c \in Channels PROVE IsInjective(subList'[c])
  <2>1. CASE c = ch
    <3>1. IsInjective(Append(subList[ch], n))
      BY <1>1, AppendFacts
    <3> QED BY <1>3, <2>1, <3>1
  <2>2. CASE c # ch
    <3>1. subList'[c] = subList[c] /\ IsInjective(subList[c])
      BY <1>4, <2>2 DEF TypeOK
    <3> QED BY <3>1
  <2> QED BY <2>1, <2>2
<1>6. Subscribers(ch)' = Subscribers(ch) \union {n}
  BY <1>1, <1>3, AppendFacts DEF Subscribers
<1>7. ASSUME NEW c \in Channels \ {ch} PROVE Subscribers(c)' = Subscribers(c)
  BY <1>4 DEF Subscribers
<1> QED BY <1>3, <1>5, <1>6, <1>7

\* The other one: ~CRNode takes the node off the next list.
LEMMA UnsubscribeFacts ==
  ASSUME TypeOK, NEW n \in Nodes, UnsubscribeNext(n)
  PROVE  /\ subList' \in [Channels -> Seq(Nodes)]
         /\ \A c \in Channels : IsInjective(subList'[c])
         /\ subscribed[n] \in Seq(Channels) /\ subscribed[n] # <<>>
         /\ \A c \in Channels, m \in Nodes :
              m \in Subscribers(c)' <=> m \in Subscribers(c) /\ ~(m = n /\ c = Head(subscribed[n]))
<1>0. subscribed[n] \in Seq(Channels) /\ subscribed[n] # <<>>
  BY DEF TypeOK, UnsubscribeNext
<1>1. PICK ch \in Channels : ch = Head(subscribed[n])
  BY <1>0, TailFacts
<1>2. subList[ch] \in Seq(Nodes) /\ IsInjective(subList[ch])
  BY DEF TypeOK
<1>3. subList' = [subList EXCEPT ![ch] = Erase(subList[ch], n)]
  BY <1>1 DEF UnsubscribeNext
<1>4. subList' \in [Channels -> Seq(Nodes)] /\ subList'[ch] = Erase(subList[ch], n)
  BY <1>2, <1>3, EraseFacts DEF TypeOK
<1>5. \A c \in Channels \ {ch} : subList'[c] = subList[c]
  BY <1>3 DEF TypeOK
<1>6. \A c \in Channels : IsInjective(subList'[c])
  BY <1>2, <1>4, <1>5, EraseFacts DEF TypeOK
<1>7. \A m : m \in Subscribers(ch)' <=> m \in Subscribers(ch) /\ m # n
  BY <1>2, <1>4, EraseFacts DEF Subscribers
<1>8. \A c \in Channels \ {ch} : Subscribers(c)' = Subscribers(c)
  BY <1>5 DEF Subscribers
<1>9. ASSUME NEW c \in Channels, NEW m \in Nodes
      PROVE  m \in Subscribers(c)' <=> m \in Subscribers(c) /\ ~(m = n /\ c = ch)
  BY <1>7, <1>8
<1> QED BY <1>0, <1>1, <1>4, <1>6, <1>9

(* What a delivery leaves alone.                                           *)
LEMMA DeliverFrame ==
  ASSUME NEW p, Deliver(p)
  PROVE  /\ channel[p] # NoChannel /\ position[p] <= Len(subList[channel[p]])
         /\ position' = [position EXCEPT ![p] = position[p] + 1]
         /\ UNCHANGED <<subList, callbacks, subscribed, can_subscribe, life, runnerUp, adding>>
         /\ UNCHANGED <<readers, writer, channel, sent, since>>
BY DEF Deliver, nodeVars, lockVars

(* Of the typing of the inboxes: an entry, and the change of an entry.     *)
LEMMA InboxType ==
  ASSUME TypeOK, NEW n \in Nodes, NEW ch \in Channels, NEW p \in Publishers
  PROVE  inbox[n][ch][p] \in Seq(Nat)
<1>1. inbox[n] \in [Channels -> [Publishers -> Seq(Nat)]]
  BY DEF TypeOK
<1>2. inbox[n][ch] \in [Publishers -> Seq(Nat)]
  BY <1>1
<1> QED BY <1>2

\* The change of an entry of a function of three arguments.
LEMMA InboxUpdate ==
  ASSUME NEW A, NEW B, NEW C, NEW S, NEW f \in [A -> [B -> [C -> S]]],
         NEW a \in A, NEW b \in B, NEW c \in C, NEW q \in S
  PROVE  [f EXCEPT ![a][b][c] = q] \in [A -> [B -> [C -> S]]]
<1>1. f[a] \in [B -> [C -> S]] /\ f[a][b] \in [C -> S]
  OBVIOUS
<1>2. [f[a][b] EXCEPT ![c] = q] \in [C -> S]
  BY <1>1
<1>3. [f[a] EXCEPT ![b][c] = q] \in [B -> [C -> S]]
  BY <1>1, <1>2
<1> QED BY <1>3

(* Every variable keeps its type.                                          *)
LEMMA TypeStep == IInv /\ [Next]_vars => TypeOK'
<1> SUFFICES ASSUME IInv, [Next]_vars
             PROVE  TypeOK'
  OBVIOUS
<1> USE PubSubAssumption DEF TypeOK, IInv, nodeVars, pubVars, lockVars
<1>1. ASSUME NEW p \in Publishers, NEW ch \in Channels, BeginDispatch(p, ch) PROVE TypeOK'
  BY <1>1 DEF BeginDispatch, CanRead
<1>2. ASSUME NEW p \in Publishers, Deliver(p) PROVE TypeOK'
  <2>1. PICK ch \in Channels : ch = channel[p]
    BY <1>2 DEF Deliver
  <2>2. position[p] \in 1 .. Len(subList[ch]) /\ subList[ch] \in Seq(Nodes)
    BY <1>2, <2>1, DeliverFrame DEF Lock
  <2>3. PICK n \in Nodes : n = subList[ch][position[p]]
    BY <2>2
  <2>4. sent[p][ch] \in Nat /\ inbox[n][ch][p] \in Seq(Nat)
    BY InboxType
  <2>5. PICK q \in Seq(Nat) : q = Append(inbox[n][ch][p], sent[p][ch])
    <3>1. Append(inbox[n][ch][p], sent[p][ch]) \in Seq(Nat)
      BY ONLY <2>4, AddedFacts
    <3> QED BY ONLY <3>1
  <2>6. inbox' = inbox \/ inbox' = [inbox EXCEPT ![n][ch][p] = q]
    BY <1>2, <2>1, <2>3, <2>5 DEF Deliver
  <2>7. inbox' \in [Nodes -> [Channels -> [Publishers -> Seq(Nat)]]]
    <3>1. inbox \in [Nodes -> [Channels -> [Publishers -> Seq(Nat)]]]
      OBVIOUS
    <3>2. [inbox EXCEPT ![n][ch][p] = q] \in [Nodes -> [Channels -> [Publishers -> Seq(Nat)]]]
      BY ONLY <2>5, <3>1, InboxUpdate
    <3> QED BY ONLY <2>6, <3>1, <3>2
  <2>8. /\ position' = [position EXCEPT ![p] = position[p] + 1]
        /\ UNCHANGED <<subList, callbacks, subscribed, can_subscribe, life, runnerUp, adding>>
        /\ UNCHANGED <<readers, writer, channel, sent, since>>
    BY <1>2, DeliverFrame
  <2>9. position' \in [Publishers -> Nat]
    BY ONLY TypeOK, <2>8 DEF TypeOK
  <2> QED BY ONLY TypeOK, <2>7, <2>8, <2>9 DEF TypeOK
<1>3. ASSUME NEW p \in Publishers, EndDispatch(p) PROVE TypeOK'
  BY <1>3 DEF EndDispatch
<1>4. ASSUME NEW n \in Nodes, NEW ch \in Channels, BeginSubscribe(n, ch) PROVE TypeOK'
  BY <1>4, SubscribeFacts DEF BeginSubscribe, CanWrite
<1>5. ASSUME NEW n \in Nodes, EndSubscribe(n) PROVE TypeOK'
  <2>1. PICK ch \in Channels : ch = adding[n]
    BY <1>5 DEF EndSubscribe
  <2>2. Append(subscribed[n], ch) \in Seq(Channels)
    OBVIOUS
  <2>3. [p \in Publishers |-> sent[p][ch]] \in [Publishers -> Nat]
    OBVIOUS
  <2> QED BY <1>5, <2>1, <2>2, <2>3 DEF EndSubscribe
<1>6. ASSUME NEW n \in Nodes, BeginDestroy(n) \/ EndDestroy(n) \/ ExpireRunner(n) PROVE TypeOK'
  BY <1>6 DEF BeginDestroy, EndDestroy, ExpireRunner
<1>7. ASSUME NEW n \in Nodes, UnsubscribeNext(n) PROVE TypeOK'
  <2>1. Tail(subscribed[n]) \in Seq(Channels)
    BY <1>7, UnsubscribeFacts, TailFacts
  <2> QED BY <1>7, <2>1, UnsubscribeFacts DEF UnsubscribeNext
<1>8. CASE UNCHANGED vars
  BY <1>8 DEF vars
<1> QED
  BY <1>1, <1>2, <1>3, <1>4, <1>5, <1>6, <1>7, <1>8 DEF Next, DispatchStep, DestroyStep

(* A dispatch owns the lock shared, a subscription exclusively.            *)
LEMMA LockStep == IInv /\ [Next]_vars => Lock'
<1> SUFFICES ASSUME IInv, [Next]_vars
             PROVE  Lock'
  OBVIOUS
<1> USE PubSubAssumption DEF TypeOK, IInv, Lock, nodeVars, pubVars, lockVars
<1>1. ASSUME NEW p \in Publishers, NEW ch \in Channels, BeginDispatch(p, ch) PROVE Lock'
  BY <1>1 DEF BeginDispatch
<1>2. ASSUME NEW p \in Publishers, Deliver(p) \/ EndDispatch(p) PROVE Lock'
  <2>1. CASE Deliver(p)
    <3>1. position' = [position EXCEPT ![p] = position[p] + 1] /\ UNCHANGED <<adding, readers, writer, channel>>
      BY <2>1, DeliverFrame
    <3> QED BY ONLY IInv, <3>1 DEF IInv, TypeOK, Lock
  <2>2. CASE EndDispatch(p)
    BY <2>2 DEF EndDispatch
  <2> QED BY <1>2, <2>1, <2>2
<1>3. ASSUME NEW n \in Nodes, NEW ch \in Channels, BeginSubscribe(n, ch) PROVE Lock'
  BY <1>3 DEF BeginSubscribe, CanWrite
<1>4. ASSUME NEW n \in Nodes, EndSubscribe(n) PROVE Lock'
  BY <1>4 DEF EndSubscribe
<1>5. ASSUME NEW n \in Nodes, BeginDestroy(n) \/ EndDestroy(n) \/ ExpireRunner(n) \/ UnsubscribeNext(n) PROVE Lock'
  BY <1>5 DEF BeginDestroy, EndDestroy, ExpireRunner, UnsubscribeNext
<1>6. CASE UNCHANGED vars
  BY <1>6 DEF vars
<1> QED
  BY <1>1, <1>2, <1>3, <1>4, <1>5, <1>6 DEF Next, DispatchStep, DestroyStep

(* The two tables change under one lock.                                   *)
LEMMA TablesStep == IInv /\ [Next]_vars => Tables'
<1> SUFFICES ASSUME IInv, [Next]_vars
             PROVE  Tables'
  OBVIOUS
<1> USE PubSubAssumption DEF TypeOK, IInv, Lock, Tables, nodeVars, pubVars, lockVars
<1>0. UNCHANGED subList => \A ch : Subscribers(ch)' = Subscribers(ch)
  BY DEF Subscribers
<1>1. ASSUME NEW p \in Publishers, NEW ch \in Channels, BeginDispatch(p, ch) PROVE Tables'
  BY <1>0, <1>1 DEF BeginDispatch
<1>2. ASSUME NEW p \in Publishers, Deliver(p) \/ EndDispatch(p) PROVE Tables'
  <2>1. UNCHANGED <<subList, nodeVars>>
    BY <1>2, DeliverFrame DEF EndDispatch
  <2> QED BY <1>0, <2>1
<1>3. ASSUME NEW n \in Nodes, NEW ch \in Channels, BeginSubscribe(n, ch) PROVE Tables'
  <2>1. /\ life[n] = "alive" /\ adding[n] = NoChannel /\ n \notin Subscribers(ch)
        /\ adding' = [adding EXCEPT ![n] = ch]
        /\ UNCHANGED <<callbacks, subscribed, life>>
    BY <1>3 DEF BeginSubscribe
  <2>2. \A c \in Channels, m \in Nodes : m \in Subscribers(c)' <=> m \in Subscribers(c) \/ (m = n /\ c = ch)
    BY <1>3, SubscribeFacts
  <2>3. ch \notin callbacks[n]
    BY <2>1
  <2> QED BY <2>1, <2>2, <2>3
<1>4. ASSUME NEW n \in Nodes, EndSubscribe(n) PROVE Tables'
  <2>1. PICK ch \in Channels : ch = adding[n]
    BY <1>4 DEF EndSubscribe
  <2>2. ToSet(Append(subscribed[n], ch)) = ToSet(subscribed[n]) \union {ch}
    BY ONLY TypeOK, AddedFacts DEF TypeOK
  <2> QED BY <1>0, <1>4, <2>1, <2>2 DEF EndSubscribe
<1>5. ASSUME NEW n \in Nodes, BeginDestroy(n) \/ ExpireRunner(n) PROVE Tables'
  BY <1>0, <1>5 DEF BeginDestroy, ExpireRunner
<1>6. ASSUME NEW n \in Nodes, EndDestroy(n) PROVE Tables'
  <2>1. ToSet(subscribed[n]) = {}
    BY <1>6 DEF EndDestroy, ToSet
  <2>2. \A ch \in Channels : n \notin Subscribers(ch)
    <3>1. adding[n] = NoChannel
      BY <1>6 DEF EndDestroy
    <3> QED BY ONLY <2>1, <3>1, Tables, PubSubAssumption DEF Tables
  <2>3. /\ life' = [life EXCEPT ![n] = "gone"] /\ callbacks' = [callbacks EXCEPT ![n] = {}]
        /\ life[n] = "dying" /\ UNCHANGED <<subList, subscribed, adding>>
    BY <1>6 DEF EndDestroy
  <2> QED BY <1>0, <2>2, <2>3
<1>7. ASSUME NEW n \in Nodes, UnsubscribeNext(n) PROVE Tables'
  <2>1. \A ch \in ToSet(subscribed[n]) : ch = Head(subscribed[n]) \/ ch \in ToSet(Tail(subscribed[n]))
    BY <1>7, UnsubscribeFacts, TailFacts
  <2>2. \A c \in Channels, m \in Nodes :
          m \in Subscribers(c)' <=> m \in Subscribers(c) /\ ~(m = n /\ c = Head(subscribed[n]))
    BY <1>7, UnsubscribeFacts
  <2>3. /\ life[n] = "dying" /\ subscribed' = [subscribed EXCEPT ![n] = Tail(subscribed[n])]
        /\ UNCHANGED <<callbacks, life, adding>>
    BY <1>7 DEF UnsubscribeNext
  <2>4. \A m \in Nodes, c \in Channels : c \in ToSet(subscribed[m]) =>
          c \in ToSet(subscribed'[m]) \/ (m = n /\ c = Head(subscribed[n]))
    BY <2>1, <2>3
  <2> QED BY <2>2, <2>3, <2>4
<1>8. CASE UNCHANGED vars
  BY <1>0, <1>8 DEF vars
<1> QED
  BY <1>1, <1>2, <1>3, <1>4, <1>5, <1>6, <1>7, <1>8 DEF Next, DispatchStep, DestroyStep

(* A publisher that is not dispatching has reached everybody.              *)
LEMMA IdleReached ==
  ASSUME TypeOK, NEW p \in Publishers, NEW n \in Nodes, NEW ch \in Channels, channel[p] = NoChannel
  PROVE  Reached(p, n, ch) = sent[p][ch]
BY PubSubAssumption DEF TypeOK, Reached

(* Nobody is dispatching while the lock is free of readers.                *)
LEMMA NoReaders ==
  ASSUME Lock, readers = {}, NEW p \in Publishers
  PROVE  channel[p] = NoChannel
BY DEF Lock

(* A delivery continues the stream of the subscriber it is for, and leaves *)
(* those of the others alone.                                              *)
LEMMA StreamDeliver ==
  ASSUME IInv, NEW p \in Publishers, Deliver(p),
         NEW m \in Nodes, NEW c \in Channels, NEW q \in Publishers
  PROVE  Stream(m, c, q)'
<1> USE DEF IInv
<1>1. PICK ch \in Channels : ch = channel[p]
  BY DEF Deliver, TypeOK
<1>2. PICK k \in Nat : k = position[p]
  BY DEF TypeOK
<1>3. k \in 1 .. Len(subList[ch]) /\ subList[ch] \in Seq(Nodes)
  BY <1>1, <1>2, DeliverFrame DEF Lock, TypeOK
<1>4. PICK n \in Nodes : n = subList[ch][k]
  BY <1>3
<1>5. /\ position' = [position EXCEPT ![p] = k + 1]
      /\ UNCHANGED <<subList, callbacks, life, runnerUp, channel, sent, since>>
  BY <1>2, DeliverFrame
<1>6. PICK a \in Seq(Nat) : a = Append(inbox[n][ch][p], sent[p][ch])
  <2>1. inbox[n][ch][p] \in Seq(Nat) /\ sent[p][ch] \in Nat
    BY InboxType DEF TypeOK
  <2>2. Append(inbox[n][ch][p], sent[p][ch]) \in Seq(Nat)
    BY ONLY <2>1, AddedFacts
  <2> QED BY ONLY <2>2
<1>7. inbox' = IF ch \in callbacks[n] /\ runnerUp[n] THEN [inbox EXCEPT ![n][ch][p] = a] ELSE inbox
  BY <1>1, <1>2, <1>4, <1>6 DEF Deliver
<1>8. inbox'[m][c][q] = IF ch \in callbacks[n] /\ runnerUp[n] /\ m = n /\ c = ch /\ q = p THEN a ELSE inbox[m][c][q]
  <2>1. inbox \in [Nodes -> [Channels -> [Publishers -> Seq(Nat)]]]
    BY DEF TypeOK
  <2>2. [inbox EXCEPT ![n][ch][p] = a][m][c][q] = IF m = n /\ c = ch /\ q = p THEN a ELSE inbox[m][c][q]
    <3>1. DOMAIN inbox = Nodes /\ DOMAIN inbox[n] = Channels /\ DOMAIN inbox[n][ch] = Publishers
      BY ONLY <1>1, <1>4, <2>1
    <3>2. [inbox EXCEPT ![n][ch][p] = a][m] = IF m = n THEN [inbox[n] EXCEPT ![ch][p] = a] ELSE inbox[m]
      BY ONLY <3>1
    <3>3. [inbox[n] EXCEPT ![ch][p] = a][c] = IF c = ch THEN [inbox[n][ch] EXCEPT ![p] = a] ELSE inbox[n][c]
      BY ONLY <3>1
    <3>4. [inbox[n][ch] EXCEPT ![p] = a][q] = IF q = p THEN a ELSE inbox[n][ch][q]
      BY ONLY <3>1
    <3> QED BY ONLY <3>2, <3>3, <3>4
  <2> QED BY ONLY <1>7, <2>2
<1>9. m \in Subscribers(c)' <=> m \in Subscribers(c)
  BY <1>5 DEF Subscribers
<1>10. sent[q][c] \in Nat /\ since[m][c][q] \in Nat
  BY DEF TypeOK
<1>11. Stream(m, c, q)
  BY DEF Streams
<1>12. CASE m = n /\ c = ch /\ q = p
  <2>1. Reached(q, m, c) = sent[q][c] - 1
    <3>1. \A i \in 1 .. k - 1 : subList[ch][i] # n
      <4>1. IsInjective(subList[ch]) /\ DOMAIN subList[ch] = 1 .. Len(subList[ch])
        BY <1>3 DEF TypeOK
      <4>2. Len(subList[ch]) \in Nat
        BY ONLY <1>3
      <4> QED BY ONLY <1>2, <1>3, <1>4, <4>1, <4>2 DEF IsInjective
    <3> QED BY <1>1, <1>2, <1>12, <3>1 DEF Reached
  <2>2. Reached(q, m, c)' = sent[q][c]
    <3>1. position'[p] - 1 = k
      BY <1>5 DEF TypeOK
    <3>2. k \in 1 .. k /\ subList[ch][k] = n
      BY <1>3, <1>4
    <3> QED BY <1>5, <1>12, <3>1, <3>2 DEF Reached
  <2>3. CASE c \in callbacks[m] /\ runnerUp[m] /\ m \in Subscribers(c)
    <3>1. since[m][c][q] <= sent[q][c] - 1
      BY <1>11, <2>1, <2>3 DEF Stream
    <3>2. PICK d \in Nat : d = sent[q][c] - 1 - since[m][c][q] /\ sent[q][c] = since[m][c][q] + d + 1
      <4>1. PICK x \in Nat, y \in Nat : x = sent[q][c] /\ y = since[m][c][q]
        BY ONLY <1>10
      <4>2. y <= x - 1
        BY ONLY <3>1, <4>1
      <4>3. x - 1 - y \in Nat /\ x = y + (x - 1 - y) + 1
        BY ONLY <4>2
      <4> QED BY ONLY <4>1, <4>3
    <3>3. inbox[m][c][q] = [i \in 1 .. d |-> since[m][c][q] + i]
      BY <1>11, <2>1, <2>3, <3>2 DEF Stream
    <3>4. sent[q][c] = since[m][c][q] + d + 1
      BY <3>2
    <3>5. a = [i \in 1 .. d + 1 |-> since[m][c][q] + i]
      BY <1>6, <1>10, <1>12, <3>3, <3>4, NextNumber
    <3>6. inbox'[m][c][q] = a
      BY <1>8, <1>12, <2>3
    <3>7. d + 1 = sent[q][c] - since[m][c][q]
      BY ONLY <1>10, <3>2
    <3> QED BY ONLY <1>5, <1>10, <2>2, <2>3, <3>1, <3>5, <3>6, <3>7 DEF Stream
  <2>4. CASE ~(c \in callbacks[m] /\ runnerUp[m] /\ m \in Subscribers(c))
    <3>1. m \in Subscribers(c)
      BY <1>3, <1>4, <1>12 DEF Subscribers, ToSet
    <3>2. inbox'[m][c][q] = inbox[m][c][q]
      BY <1>8, <1>12, <2>4, <3>1
    <3> QED BY ONLY <1>5, <1>10, <1>11, <2>1, <2>2, <2>4, <3>1, <3>2 DEF Stream
  <2> QED BY <2>3, <2>4
<1>13. CASE ~(m = n /\ c = ch /\ q = p)
  <2>1. Reached(q, m, c)' = Reached(q, m, c)
    <3>1. CASE q # p
      <4>1. position'[q] = position[q]
        BY <1>5, <3>1 DEF TypeOK
      <4> QED BY <1>5, <4>1 DEF Reached
    <3>2. CASE q = p /\ c # ch
      BY <1>1, <1>5, <3>2 DEF Reached
    <3>3. CASE q = p /\ c = ch /\ m # n
      <4>1. position[q] - 1 = k - 1 /\ position'[q] - 1 = k
        BY <1>2, <1>5, <3>3 DEF TypeOK
      <4>2. (\A i \in 1 .. k : subList[c][i] # m) <=> (\A i \in 1 .. k - 1 : subList[c][i] # m)
        <5>1. \A i \in 1 .. k : i \in 1 .. k - 1 \/ i = k
          BY <1>3
        <5> QED BY <1>4, <3>3, <5>1
      <4> QED BY <1>5, <4>1, <4>2 DEF Reached
    <3> QED BY <1>13, <3>1, <3>2, <3>3
  <2>2. inbox'[m][c][q] = inbox[m][c][q]
    BY <1>8, <1>13
  <2> QED BY ONLY <1>5, <1>9, <1>11, <2>1, <2>2 DEF Stream
<1> QED BY <1>12, <1>13

(* What a node has been handed, in every step.                             *)
LEMMA StreamsStep == IInv /\ [Next]_vars => Streams'
<1> SUFFICES ASSUME IInv, [Next]_vars, NEW m \in Nodes, NEW c \in Channels, NEW q \in Publishers
             PROVE  Stream(m, c, q)'
  BY DEF Streams
<1> USE DEF IInv
<1>1. Stream(m, c, q)
  BY DEF Streams
<1>2. ASSUME m \in Subscribers(c)' => m \in Subscribers(c),
             c \in callbacks'[m] => c \in callbacks[m],
             life'[m] = "alive" => life[m] = "alive" /\ (c \in callbacks[m] => c \in callbacks'[m]),
             runnerUp'[m] => runnerUp[m],
             UNCHANGED <<since, inbox>>,
             m \in Subscribers(c) => Reached(q, m, c)' = Reached(q, m, c)
      PROVE  Stream(m, c, q)'
  BY ONLY <1>1, <1>2 DEF Stream
<1>3. UNCHANGED subList => Subscribers(c)' = Subscribers(c)
  BY DEF Subscribers
<1>4. UNCHANGED <<subList, channel, position, sent>> => Reached(q, m, c)' = Reached(q, m, c)
  BY DEF Reached
<1>5. readers = {} /\ UNCHANGED <<channel, sent>> =>
        Reached(q, m, c) = sent[q][c] /\ Reached(q, m, c)' = sent[q][c]
  <2> SUFFICES ASSUME readers = {}, UNCHANGED <<channel, sent>>
               PROVE  Reached(q, m, c) = sent[q][c] /\ Reached(q, m, c)' = sent[q][c]
    OBVIOUS
  <2>1. channel[q] = NoChannel
    BY NoReaders
  <2> QED BY <2>1, PubSubAssumption DEF Reached
<1>6. ASSUME NEW p \in Publishers, NEW ch \in Channels, BeginDispatch(p, ch) PROVE Stream(m, c, q)'
  <2>1. /\ channel[p] = NoChannel
        /\ channel' = [channel EXCEPT ![p] = ch] /\ position' = [position EXCEPT ![p] = 1]
        /\ sent' = [sent EXCEPT ![p][ch] = sent[p][ch] + 1]
        /\ UNCHANGED <<subList, callbacks, life, runnerUp, since, inbox>>
    BY <1>6 DEF BeginDispatch, nodeVars
  <2>2. Reached(q, m, c)' = Reached(q, m, c)
    <3>1. CASE q # p
      <4>1. channel'[q] = channel[q] /\ position'[q] = position[q] /\ sent'[q][c] = sent[q][c]
        BY <2>1, <3>1 DEF TypeOK
      <4> QED BY <2>1, <4>1 DEF Reached
    <3>2. CASE q = p
      <4>1. Reached(q, m, c) = sent[q][c]
        BY <2>1, <3>2, IdleReached
      <4>2. channel'[q] = ch /\ position'[q] = 1
        BY <2>1, <3>2 DEF TypeOK
      <4>3. sent'[q][c] = IF c = ch THEN sent[q][c] + 1 ELSE sent[q][c]
        BY <2>1, <3>2 DEF TypeOK
      <4>4. sent[q][c] \in Nat
        BY DEF TypeOK
      <4> QED BY ONLY <4>1, <4>2, <4>3, <4>4 DEF Reached
    <3> QED BY <3>1, <3>2
  <2> QED BY <1>2, <1>3, <2>1, <2>2
<1>7. ASSUME NEW p \in Publishers, Deliver(p) PROVE Stream(m, c, q)'
  BY <1>7, StreamDeliver
<1>8. ASSUME NEW p \in Publishers, EndDispatch(p) PROVE Stream(m, c, q)'
  <2>1. /\ channel' = [channel EXCEPT ![p] = NoChannel] /\ position' = [position EXCEPT ![p] = 0]
        /\ position[p] > Len(subList[channel[p]])
        /\ UNCHANGED <<subList, callbacks, life, runnerUp, sent, since, inbox>>
    BY <1>8 DEF EndDispatch, nodeVars
  <2>2. m \in Subscribers(c) => Reached(q, m, c)' = Reached(q, m, c)
    <3>1. CASE q # p
      <4>1. channel'[q] = channel[q] /\ position'[q] = position[q]
        BY <2>1, <3>1 DEF TypeOK
      <4> QED BY <2>1, <4>1 DEF Reached
    <3>2. CASE q = p
      <4> SUFFICES ASSUME m \in Subscribers(c) PROVE Reached(q, m, c)' = Reached(q, m, c)
        OBVIOUS
      <4>0. PICK s \in Seq(Nodes) : s = subList[c] /\ m \in {s[i] : i \in DOMAIN s}
        BY DEF Subscribers, ToSet, TypeOK
      <4>1. PICK i \in 1 .. Len(subList[c]) : subList[c][i] = m
        BY ONLY <4>0
      <4>2. Reached(q, m, c) = sent[q][c]
        <5>1. channel[q] = c => i \in 1 .. position[q] - 1
          BY <2>1, <3>2, <4>1 DEF TypeOK
        <5> QED BY <4>1, <5>1 DEF Reached
      <4>3. channel'[q] = NoChannel
        BY <2>1, <3>2 DEF TypeOK
      <4> QED BY <2>1, <4>2, <4>3, PubSubAssumption DEF Reached
    <3> QED BY <3>1, <3>2
  <2> QED BY <1>2, <1>3, <2>1, <2>2
<1>9. ASSUME NEW n \in Nodes, NEW ch \in Channels, BeginSubscribe(n, ch) PROVE Stream(m, c, q)'
  <2>1. /\ life[n] = "alive" /\ readers = {} /\ n \notin Subscribers(ch)
        /\ UNCHANGED <<callbacks, life, runnerUp, channel, sent, since, inbox>>
    BY <1>9 DEF BeginSubscribe, CanWrite, pubVars
  <2>2. Reached(q, m, c)' = Reached(q, m, c)
    BY <1>5, <2>1
  <2>3. CASE m = n /\ c = ch
    <3>1. c \notin callbacks[m]
      BY <2>1, <2>3 DEF Tables
    <3> QED BY ONLY <1>1, <2>1, <3>1 DEF Stream
  <2>4. CASE ~(m = n /\ c = ch)
    <3>1. m \in Subscribers(c)' => m \in Subscribers(c)
      BY <1>9, <2>4, SubscribeFacts
    <3> QED BY <1>2, <2>1, <2>2, <3>1
  <2> QED BY <2>3, <2>4
<1>10. ASSUME NEW n \in Nodes, EndSubscribe(n) PROVE Stream(m, c, q)'
  <2>1. PICK ch \in Channels : ch = adding[n]
    BY <1>10 DEF EndSubscribe, TypeOK
  <2>2. /\ callbacks' = [callbacks EXCEPT ![n] = callbacks[n] \union {ch}]
        /\ since' = [since EXCEPT ![n][ch] = [p \in Publishers |-> sent[p][ch]]]
        /\ UNCHANGED <<subList, life, runnerUp, channel, position, sent, inbox>>
    BY <1>10, <2>1 DEF EndSubscribe, pubVars
  <2>3. adding[n] # NoChannel
    BY <1>10 DEF EndSubscribe
  <2>4. readers = {}
    <3>1. writer = n
      BY <2>3 DEF Lock
    <3> QED BY <3>1, PubSubAssumption DEF TypeOK
  <2>5. Reached(q, m, c) = sent[q][c] /\ Reached(q, m, c)' = sent[q][c]
    BY <1>5, <2>2, <2>4
  <2>6. CASE m = n /\ c = ch
    <3>1. inbox[m][c][q] = <<>>
      BY <1>1, <2>1, <2>3, <2>6 DEF Stream, Tables
    <3>2. since'[m][c][q] = sent[q][c]
      BY <2>2, <2>6 DEF TypeOK
    <3>3. sent[q][c] \in Nat
      BY DEF TypeOK
    <3>4. [i \in 1 .. sent[q][c] - sent[q][c] |-> sent[q][c] + i] = <<>>
      <4>1. 1 .. sent[q][c] - sent[q][c] = {}
        BY <3>3
      <4> QED BY <4>1
    <3> QED BY ONLY <2>2, <2>5, <3>1, <3>2, <3>3, <3>4 DEF Stream
  <2>7. CASE ~(m = n /\ c = ch)
    <3>1. since'[m][c][q] = since[m][c][q]
      BY <2>2, <2>7 DEF TypeOK
    <3>2. c \in callbacks'[m] <=> c \in callbacks[m]
      BY <2>2, <2>7 DEF TypeOK
    <3>3. Subscribers(c)' = Subscribers(c)
      BY <1>3, <2>2
    <3> QED BY ONLY <1>1, <2>2, <2>5, <3>1, <3>2, <3>3 DEF Stream
  <2> QED BY <2>6, <2>7
<1>11. ASSUME NEW n \in Nodes, BeginDestroy(n) PROVE Stream(m, c, q)'
  <2>1. /\ life' = [life EXCEPT ![n] = "dying"]
        /\ UNCHANGED <<subList, callbacks, runnerUp, channel, position, sent, since, inbox>>
    BY <1>11 DEF BeginDestroy, pubVars
  <2>2. life'[m] = "alive" => life[m] = "alive"
    BY <2>1 DEF TypeOK
  <2> QED BY <1>2, <1>3, <1>4, <2>1, <2>2
<1>12. ASSUME NEW n \in Nodes, UnsubscribeNext(n) PROVE Stream(m, c, q)'
  <2>1. readers = {} /\ UNCHANGED <<callbacks, life, runnerUp, channel, sent, since, inbox>>
    BY <1>12 DEF UnsubscribeNext, CanWrite, pubVars
  <2>2. m \in Subscribers(c)' => m \in Subscribers(c)
    BY <1>12, UnsubscribeFacts
  <2> QED BY <1>2, <1>5, <2>1, <2>2
<1>13. ASSUME NEW n \in Nodes, EndDestroy(n) PROVE Stream(m, c, q)'
  <2>1. /\ life' = [life EXCEPT ![n] = "gone"] /\ callbacks' = [callbacks EXCEPT ![n] = {}]
        /\ UNCHANGED <<subList, runnerUp, channel, position, sent, since, inbox>>
    BY <1>13 DEF EndDestroy, pubVars
  <2>2. /\ life'[m] = "alive" => life[m] = "alive" /\ callbacks'[m] = callbacks[m]
        /\ c \in callbacks'[m] => c \in callbacks[m]
    BY <2>1 DEF TypeOK
  <2> QED BY <1>2, <1>3, <1>4, <2>1, <2>2
<1>14. ASSUME NEW n \in Nodes, ExpireRunner(n) PROVE Stream(m, c, q)'
  <2>1. /\ runnerUp' = [runnerUp EXCEPT ![n] = FALSE]
        /\ UNCHANGED <<subList, callbacks, life, channel, position, sent, since, inbox>>
    BY <1>14 DEF ExpireRunner, pubVars
  <2>2. runnerUp'[m] => runnerUp[m]
    BY <2>1 DEF TypeOK
  <2> QED BY <1>2, <1>3, <1>4, <2>1, <2>2
<1>15. CASE UNCHANGED vars
  BY <1>2, <1>3, <1>4, <1>15 DEF vars, nodeVars, pubVars
<1> QED
  BY <1>6, <1>7, <1>8, <1>9, <1>10, <1>11, <1>12, <1>13, <1>14, <1>15 DEF Next, DispatchStep, DestroyStep

-----------------------------------------------------------------------------
(* The invariant holds at first.                                           *)
LEMMA InitInv == Init => IInv
<1> SUFFICES ASSUME Init PROVE IInv
  OBVIOUS
<1> USE PubSubAssumption DEF Init
<1>1. <<>> \in Seq(Nodes) /\ <<>> \in Seq(Channels) /\ <<>> \in Seq(Nat) /\ IsInjective(<<>>) /\ ToSet(<<>>) = {}
  BY DEF IsInjective, ToSet
<1>2. \A ch \in Channels : Subscribers(ch) = {}
  BY <1>1 DEF Subscribers
<1>3. TypeOK
  <2>1. inbox \in [Nodes -> [Channels -> [Publishers -> Seq(Nat)]]]
    BY <1>1
  <2>2. since \in [Nodes -> [Channels -> [Publishers -> Nat]]] /\ sent \in [Publishers -> [Channels -> Nat]]
    OBVIOUS
  <2> QED BY <1>1, <2>1, <2>2 DEF TypeOK
<1>4. Lock
  BY DEF Lock
<1>5. Tables
  BY <1>2 DEF Tables
<1>6. Streams
  BY <1>2 DEF Streams, Stream
<1> QED BY <1>3, <1>4, <1>5, <1>6 DEF IInv

\* The invariant is inductive: TypeOK, Lock, Tables and Streams hold in every reachable
\* state of the subscription map and its nodes.
THEOREM Invariance == Spec => []IInv
<1>1. IInv /\ [Next]_vars => IInv'
  BY TypeStep, LockStep, TablesStep, StreamsStep DEF IInv
<1> QED BY InitInv, <1>1, PTL DEF Spec

\* Whoever Dispatch finds in the list of its channel has not been destroyed and has its
\* callback (message.cc:80, node.cc:62-67).
THEOREM AlwaysCallable == Spec => []TargetsCallable
<1>1. IInv => TargetsCallable
  <2> SUFFICES ASSUME IInv, NEW p \in Publishers, channel[p] # NoChannel,
                      NEW n \in Subscribers(channel[p])
               PROVE  life[n] # "gone" /\ channel[p] \in callbacks[n]
    BY DEF TargetsCallable
  <2>1. PICK ch \in Channels : ch = channel[p]
    BY DEF IInv, TypeOK
  <2>2. p \in readers
    BY DEF IInv, Lock
  <2>3. n \in Nodes
    BY <2>1 DEF IInv, TypeOK, Subscribers, ToSet
  <2>4. adding[n] = NoChannel
    BY <2>2, <2>3, PubSubAssumption DEF IInv, Lock, TypeOK
  <2> QED BY <2>1, <2>3, <2>4, PubSubAssumption DEF IInv, Tables
<1> QED BY Invariance, <1>1, PTL

\* A node that has been destroyed is in no list (~CRNode, node.cc:24-28).
THEOREM GoneForgotten == Spec => []GoneIsForgotten
<1>1. IInv => GoneIsForgotten
  BY DEF IInv, Tables, GoneIsForgotten
<1> QED BY Invariance, <1>1, PTL

\* A subscriber with a runner is handed every message of every publisher from its
\* subscription on, once and in order (Dispatch, message.cc:70-81).
THEOREM EachOnce == Spec => []NoGapNoDuplicate
<1>1. IInv => NoGapNoDuplicate
  BY DEF IInv, Streams, Stream, NoGapNoDuplicate
<1> QED BY Invariance, <1>1, PTL
=============================================================================

------------------------------- MODULE PubSub -------------------------------
(***************************************************************************)
(* Publishing and subscribing: the SubscriptionMap of src/msg/message.cc   *)
(* and the CRNode of src/msg/node.cc.                                      *)
(*                                                                         *)
(* Publishers dispatch messages under the read lock of one global          *)
(* shared_mutex, walking over the list of subscribers and handing each a   *)
(* job; nodes subscribe, and are destroyed, under its write lock.          *)
(* Publishers may be many at a time.  What becomes of a job handed to the  *)
(* runner is the matter of Strand.tla and JobRunner.tla.                   *)
(***************************************************************************)
EXTENDS Naturals, Sequences, SequencesExt

CONSTANTS
  Nodes, Channels, Publishers,
  Nobody,       \* the writer of a lock that no writer owns
  NoChannel,
  MaxMessages   \* bound: messages each publisher publishes on each channel

ASSUME PubSubAssumption ==
  /\ Nobody \notin Nodes /\ NoChannel \notin Channels
  /\ MaxMessages \in [Publishers -> [Channels -> Nat]]

VARIABLES
  subList,     \* sub_list_ of each channel
  callbacks,   \* callbacks_ of each node: the channels with an entry
  subscribed,  \* subscribed_ of each node
  can_subscribe, \* can_subscribe_ of each node: it was made with a runner
  life,        \* alive, in ~CRNode, or gone
  runnerUp,    \* runner_weak_.lock() of the node succeeds
  readers,     \* SubscriptionMutex: the publishers that own it shared
  writer,      \* SubscriptionMutex: the node for which it is owned exclusively
  adding,      \* the channel a node is being subscribed to, or NoChannel
  channel,     \* the channel a publisher dispatches on, or NoChannel
  position,    \* the place in sub_list_ its loop has reached
  sent,        \* history: messages each publisher has begun to publish, by channel
  since,       \* history: sent when the node was subscribed to the channel
  inbox        \* history: messages handed to the runner for a node, by channel and publisher

nodeVars == <<callbacks, subscribed, can_subscribe, life, runnerUp, adding>>
pubVars  == <<channel, position, sent>>
lockVars == <<readers, writer>>
vars == <<subList, nodeVars, lockVars, pubVars, since, inbox>>

Init ==
  /\ subList = [ch \in Channels |-> <<>>]
  /\ callbacks = [n \in Nodes |-> {}]
  /\ subscribed = [n \in Nodes |-> <<>>]
  /\ life = [n \in Nodes |-> "alive"]
  /\ can_subscribe \in [Nodes -> BOOLEAN]
  /\ runnerUp = can_subscribe
  /\ readers = {} /\ writer = Nobody
  /\ adding = [n \in Nodes |-> NoChannel]
  /\ channel = [p \in Publishers |-> NoChannel]
  /\ position = [p \in Publishers |-> 0]
  /\ sent = [p \in Publishers |-> [ch \in Channels |-> 0]]
  /\ since = [n \in Nodes |-> [ch \in Channels |-> [p \in Publishers |-> 0]]]
  /\ inbox = [n \in Nodes |-> [ch \in Channels |-> [p \in Publishers |-> <<>>]]]

CanRead == writer = Nobody

CanWrite == writer = Nobody /\ readers = {}

Subscribers(ch) == ToSet(subList[ch])

\* std::erase of a node that has one entry at most (TypeOK): Subscribe refuses a second.
Erase(list, n) ==
  IF n \in ToSet(list)
    THEN RemoveAt(list, CHOOSE i \in 1 .. Len(list) : list[i] = n)
    ELSE list

-----------------------------------------------------------------------------
(* Publish: SetChannelSubId and Dispatch.                                  *)

BeginDispatch(p, ch) ==
  /\ channel[p] = NoChannel /\ sent[p][ch] < MaxMessages[p][ch]
  /\ CanRead
  /\ readers' = readers \union {p}
  /\ channel' = [channel EXCEPT ![p] = ch]
  /\ position' = [position EXCEPT ![p] = 1]
  /\ sent' = [sent EXCEPT ![p][ch] = @ + 1]
  /\ UNCHANGED <<subList, nodeVars, writer, since, inbox>>

\* AddMessageToRunner on the next subscriber: it needs the node's callback and the
\* node's runner; a failure is logged and the loop goes on.
Deliver(p) ==
  /\ channel[p] # NoChannel /\ position[p] <= Len(subList[channel[p]])
  /\ LET ch == channel[p]
         n  == subList[ch][position[p]]
     IN  inbox' = IF ch \in callbacks[n] /\ runnerUp[n]
                    THEN [inbox EXCEPT ![n][ch][p] = Append(@, sent[p][ch])]
                    ELSE inbox
  /\ position' = [position EXCEPT ![p] = @ + 1]
  /\ UNCHANGED <<subList, nodeVars, lockVars, channel, sent, since>>

EndDispatch(p) ==
  /\ channel[p] # NoChannel /\ position[p] > Len(subList[channel[p]])
  /\ readers' = readers \ {p}
  /\ channel' = [channel EXCEPT ![p] = NoChannel]
  /\ position' = [position EXCEPT ![p] = 0]
  /\ UNCHANGED <<subList, nodeVars, writer, sent, since, inbox>>

-----------------------------------------------------------------------------
(* CRNode::SubscribeImpl: the lock is held over both tables.               *)

\* Mutation: the lock is released between the two tables.
BeginSubscribe_TwoSections(n, ch) ==
  /\ life[n] = "alive" /\ adding[n] = NoChannel
  /\ CanWrite /\ can_subscribe[n]
  /\ n \notin Subscribers(ch)
  /\ subList' = [subList EXCEPT ![ch] = Append(@, n)]
  /\ adding' = [adding EXCEPT ![n] = ch]
  /\ UNCHANGED <<callbacks, subscribed, can_subscribe, life, runnerUp, lockVars, pubVars, since, inbox>>

\* A node that was made without a runner must not subscribe: the CHECK ends the process.  SubscribeUnsafe
\* refuses a channel the node is subscribed to already.
BeginSubscribe(n, ch) ==
  /\ life[n] = "alive" /\ adding[n] = NoChannel
  /\ CanWrite /\ can_subscribe[n]
  /\ n \notin Subscribers(ch)
  /\ writer' = n
  /\ subList' = [subList EXCEPT ![ch] = Append(@, n)]
  /\ adding' = [adding EXCEPT ![n] = ch]
  /\ UNCHANGED <<callbacks, subscribed, can_subscribe, life, runnerUp, readers, pubVars, since, inbox>>

EndSubscribe(n) ==
  /\ adding[n] # NoChannel
  /\ subscribed' = [subscribed EXCEPT ![n] = Append(@, adding[n])]
  /\ callbacks' = [callbacks EXCEPT ![n] = @ \union {adding[n]}]
  /\ since' = [since EXCEPT ![n][adding[n]] = [p \in Publishers |-> sent[p][adding[n]]]]
  /\ adding' = [adding EXCEPT ![n] = NoChannel]
  /\ writer' = Nobody
  /\ UNCHANGED <<subList, can_subscribe, life, runnerUp, readers, pubVars, inbox>>

-----------------------------------------------------------------------------
(* ~CRNode: one Unsubscribe, with a write lock of its own, per channel.    *)

BeginDestroy(n) ==
  /\ life[n] = "alive" /\ adding[n] = NoChannel
  /\ life' = [life EXCEPT ![n] = "dying"]
  /\ UNCHANGED <<subList, callbacks, subscribed, can_subscribe, runnerUp, adding, lockVars, pubVars, since, inbox>>

\* Mutation: the lock is not asked for.
UnsubscribeNext_Unlocked(n) ==
  /\ life[n] = "dying" /\ subscribed[n] # <<>>
  /\ subList' = [subList EXCEPT ![Head(subscribed[n])] = Erase(@, n)]
  /\ subscribed' = [subscribed EXCEPT ![n] = Tail(@)]
  /\ UNCHANGED <<callbacks, can_subscribe, life, runnerUp, adding, lockVars, pubVars, since, inbox>>

\* Mutation: the lock is left locked.
UnsubscribeNext_KeepsLock(n) ==
  /\ life[n] = "dying" /\ subscribed[n] # <<>>
  /\ CanWrite
  /\ subList' = [subList EXCEPT ![Head(subscribed[n])] = Erase(@, n)]
  /\ subscribed' = [subscribed EXCEPT ![n] = Tail(@)]
  /\ writer' = n
  /\ UNCHANGED <<callbacks, can_subscribe, life, runnerUp, adding, readers, pubVars, since, inbox>>

UnsubscribeNext(n) ==
  /\ life[n] = "dying" /\ subscribed[n] # <<>>
  /\ CanWrite
  /\ subList' = [subList EXCEPT ![Head(subscribed[n])] = Erase(@, n)]
  /\ subscribed' = [subscribed EXCEPT ![n] = Tail(@)]
  /\ UNCHANGED <<callbacks, can_subscribe, life, runnerUp, adding, lockVars, pubVars, since, inbox>>

\* Mutation: a single channel is unsubscribed.
EndDestroy_AfterOne(n) ==
  /\ life[n] = "dying" /\ Len(subscribed[n]) <= 1
  /\ life' = [life EXCEPT ![n] = "gone"]
  /\ callbacks' = [callbacks EXCEPT ![n] = {}]
  /\ UNCHANGED <<subList, subscribed, can_subscribe, runnerUp, adding, lockVars, pubVars, since, inbox>>

\* The members of the node, callbacks_ among them, are destroyed.
EndDestroy(n) ==
  /\ life[n] = "dying" /\ subscribed[n] = <<>>
  /\ life' = [life EXCEPT ![n] = "gone"]
  /\ callbacks' = [callbacks EXCEPT ![n] = {}]
  /\ UNCHANGED <<subList, subscribed, can_subscribe, runnerUp, adding, lockVars, pubVars, since, inbox>>

\* The last shared_ptr to the node's runner goes away.
ExpireRunner(n) ==
  /\ runnerUp[n]
  /\ runnerUp' = [runnerUp EXCEPT ![n] = FALSE]
  /\ UNCHANGED <<subList, callbacks, subscribed, can_subscribe, life, adding, lockVars, pubVars, since, inbox>>

-----------------------------------------------------------------------------
DispatchStep(p) == Deliver(p) \/ EndDispatch(p)
DestroyStep(n)  == UnsubscribeNext(n) \/ EndDestroy(n)

Next ==
  \/ \E p \in Publishers : DispatchStep(p) \/ \E ch \in Channels : BeginDispatch(p, ch)
  \/ \E n \in Nodes : \/ EndSubscribe(n) \/ BeginDestroy(n) \/ DestroyStep(n) \/ ExpireRunner(n)
                      \/ \E ch \in Channels : BeginSubscribe(n, ch)

Spec == Init /\ [][Next]_vars

(* A thread inside Dispatch, SubscribeImpl or ~CRNode is scheduled.  The   *)
(* bound on the messages makes weak fairness enough for the write lock:    *)
(* std::shared_mutex itself may let readers overtake a writer for ever.    *)
Fairness ==
  /\ \A p \in Publishers : WF_vars(DispatchStep(p))
  /\ \A n \in Nodes : WF_vars(EndSubscribe(n)) /\ WF_vars(DestroyStep(n))

FairSpec == Spec /\ Fairness

-----------------------------------------------------------------------------
(* Properties.                                                             *)

\* Every variable has its type, a node has one entry in a list at most, and the lock is
\* never shared and exclusive at a time.
TypeOK ==
  /\ subList \in [Channels -> Seq(Nodes)]
  /\ \A ch \in Channels : IsInjective(subList[ch])
  /\ callbacks \in [Nodes -> SUBSET Channels]
  /\ subscribed \in [Nodes -> Seq(Channels)]
  /\ can_subscribe \in [Nodes -> BOOLEAN]
  /\ life \in [Nodes -> {"alive", "dying", "gone"}]
  /\ runnerUp \in [Nodes -> BOOLEAN]
  /\ readers \subseteq Publishers
  /\ writer \in Nodes \union {Nobody}
  /\ writer # Nobody => readers = {}
  /\ adding \in [Nodes -> Channels \union {NoChannel}]
  /\ channel \in [Publishers -> Channels \union {NoChannel}]
  /\ position \in [Publishers -> Nat]
  /\ sent \in [Publishers -> [Channels -> Nat]]
  /\ since \in [Nodes -> [Channels -> [Publishers -> Nat]]]
  /\ inbox \in [Nodes -> [Channels -> [Publishers -> Seq(Nat)]]]

\* Whoever a dispatch finds in the list of its channel can be called: the node has not
\* been destroyed, and its callback is there (node.cc:62-67 logs an error otherwise).
\* The list and the table of callbacks belong to two objects.
TargetsCallable ==
  \A p \in Publishers : channel[p] # NoChannel =>
    \A n \in Subscribers(channel[p]) : life[n] # "gone" /\ channel[p] \in callbacks[n]

\* A node that has been destroyed is in no list, however many channels it had and
\* whatever was dispatched while it unsubscribed from them one by one.
GoneIsForgotten ==
  TypeOK /\ \A n \in Nodes, ch \in Channels : life[n] = "gone" => n \notin Subscribers(ch)

\* From the moment of its subscription a node with a runner is handed every message
\* of every publisher of the channel, once and in the publisher's order, even when it
\* subscribes in the middle of publishing or the runner of another subscriber is
\* gone (tests/node_test.cc:348-372).
Reached(p, n, ch) ==
  IF channel[p] = ch /\ \A i \in 1 .. position[p] - 1 : subList[ch][i] # n
    THEN sent[p][ch] - 1 ELSE sent[p][ch]
NoGapNoDuplicate ==
  \A n \in Nodes, ch \in Channels, p \in Publishers :
    n \in Subscribers(ch) /\ ch \in callbacks[n] /\ runnerUp[n] =>
      inbox[n][ch][p]
        = [i \in 1 .. Reached(p, n, ch) - since[n][ch][p] |-> since[n][ch][p] + i]

\* Destruction of a node ends although it needs the write lock once per channel.
DestructionEnds == \A n \in Nodes : life[n] = "dying" ~> life[n] = "gone"
=============================================================================

---------------------------- MODULE PubSubBroker ----------------------------
(***************************************************************************)
(* The message broker (Broker/): the subscription, queue and broker        *)
(* dictionaries and the topic tree, shared by                              *)
(*   - one task per subscriber connection, in BrokerControllerSubscription,*)
(*   - one task per publisher connection, in BrokerControllerPublisher,    *)
(*   - one listener task per Broker object, which drains a channel.        *)
(* The dictionaries are ConcurrentDictionaries: each access is one step,   *)
(* and the steps of all tasks interleave.                                  *)
(*                                                                         *)
(* A channel is named by the subscriber whose Subscribe created it, a      *)
(* listener by the subscriber whose Listen started it.                     *)
(***************************************************************************)
EXTENDS TopicPatterns, FiniteSets

CONSTANTS
    Subscribers,    \* subscriber connections: each sends one Subscribe
    Publishers,     \* publisher connections
    QueueNames,
    QueueOf,        \* QueueOf[s], PatternOf[s], TypeOf[s]: the queue name, the
    PatternOf,      \* routing pattern and the contract that s subscribes with
    TypeOf,
    Publications,   \* the [key, contract] pairs that publishers publish
    Quota,          \* bound: Quota[p] publications of p
    Leaving,        \* the subscribers for which Unsubscribe is called
    Retracted,      \* the routing keys for which UnAdvertise is called
    None

ASSUME BrokerAssumption ==
    /\ QueueOf \in [Subscribers -> QueueNames]
    /\ PatternOf \in [Subscribers -> Seq(STRING)]
    /\ TypeOf \in [Subscribers -> STRING]
    /\ Publications \subseteq [key : Seq(STRING), contract : STRING]
    /\ Quota \in [Publishers -> Nat]
    /\ Leaving \subseteq Subscribers
    /\ Retracted \subseteq Seq(STRING)
    /\ None \notin Subscribers

VARIABLES
    topics,     \* the topic tree
    subs,       \* subs[q]: the subscriber whose subscription is stored, or None
    queues,     \* queues[q]: the channel stored under the name q, or None
    brokers,    \* the queue names with a Broker
    log,        \* log[c]: everything ever written to the channel c
    taken,      \* taken[c]: how much of it has been read
    connected,  \* the subscribers whose connection is up
    answering,  \* the subscribers whose SubscriberReceiveOrchestrator answers pushes
    delivered,  \* delivered[s]: what s has been pushed
    subPc,      \* where the task of a subscriber connection is
    lsnPc,      \* where a listener task is
    endpoint,   \* endpoint[l]: the subscriber a listener pushes to
    source,     \* source[l]: the channel a listener reads
    hand,       \* hand[l]: the place in log[source[l]] of what l took last
    pubPc,      \* where the task of a publisher connection is
    current,    \* current[p]: the publication p has last sent
    unseen,     \* unseen[p]: the queue names GetQueues has still to look at
    matched,    \* matched[p]: the queues the publication has still to be added to
    target,     \* target[p]: the queue AddPublication has looked up
    due         \* history: the subscribers ready when the publication came in

routeVars == <<subs, queues, brokers>>
channelVars == <<log, taken>>
subVars == <<subPc, connected, answering>>
lsnVars == <<lsnPc, endpoint, source, hand, delivered>>
pubVars == <<pubPc, current, unseen, matched, target, due>>
vars == <<topics, routeVars, channelVars, subVars, lsnVars, pubVars>>

\* A publication as the broker receives it: the nr-th of its connection.
Message ==
    UNION {{[from |-> p, nr |-> n, key |-> m.key, contract |-> m.contract] :
               n \in 1 .. Quota[p], m \in Publications} : p \in Publishers}

NoMessage(p) == [from |-> p, nr |-> 0, key |-> Root, contract |-> ""]

Init ==
    /\ topics = {}
    /\ subs = [q \in QueueNames |-> None]
    /\ queues = [q \in QueueNames |-> None]
    /\ brokers = {}
    /\ log = [c \in Subscribers |-> << >>]
    /\ taken = [c \in Subscribers |-> 0]
    /\ connected = Subscribers
    /\ answering = Subscribers
    /\ delivered = [s \in Subscribers |-> << >>]
    /\ subPc = [s \in Subscribers |-> "new"]
    /\ lsnPc = [l \in Subscribers |-> "none"]
    /\ endpoint = [l \in Subscribers |-> None]
    /\ source = [l \in Subscribers |-> None]
    /\ hand = [l \in Subscribers |-> 0]
    /\ pubPc = [p \in Publishers |-> "idle"]
    /\ current = [p \in Publishers |-> NoMessage(p)]
    /\ unseen = [p \in Publishers |-> {}]
    /\ matched = [p \in Publishers |-> {}]
    /\ target = [p \in Publishers |-> None]
    /\ due = [p \in Publishers |-> {}]

-----------------------------------------------------------------------------
(* A subscriber connection: AddSubscription, then AssignBroker.            *)

Become(s, from, to) == subPc[s] = from /\ subPc' = [subPc EXCEPT ![s] = to]

\* TryAdd: an entry that is there stays.
TryAdd(dictionary, q, value) ==
    IF dictionary[q] = None THEN [dictionary EXCEPT ![q] = value] ELSE dictionary

\* Mutant: the queue is not created before the Broker listens.
AddSubscriptionOnly(s) ==
    /\ Become(s, "new", "assign")
    /\ subs' = TryAdd(subs, QueueOf[s], s)
    /\ UNCHANGED <<topics, queues, brokers, channelVars, connected, answering, lsnVars, pubVars>>

AddSubscription(s) ==
    /\ Become(s, "new", "addQueue")
    /\ subs' = TryAdd(subs, QueueOf[s], s)
    /\ UNCHANGED <<topics, queues, brokers, channelVars, connected, answering, lsnVars, pubVars>>

AddQueue(s) ==
    /\ Become(s, "addQueue", "assign")
    /\ queues' = TryAdd(queues, QueueOf[s], s)
    /\ UNCHANGED <<topics, subs, brokers, channelVars, connected, answering, lsnVars, pubVars>>

\* AssignBroker returns when the name already has a Broker.
FindBroker(s) ==
    /\ Become(s, "assign", IF QueueOf[s] \in brokers THEN "ready" ELSE "start")
    /\ UNCHANGED <<topics, routeVars, channelVars, connected, answering, lsnVars, pubVars>>

\* The Broker is added, and its Listen started whether or not TryAdd added it.
StartBroker(s) ==
    /\ Become(s, "start", "ready")
    /\ brokers' = brokers \cup {QueueOf[s]}
    /\ lsnPc' = [lsnPc EXCEPT ![s] = "started"]
    /\ UNCHANGED <<topics, subs, queues, channelVars, connected, answering, endpoint,
                   source, hand, delivered, pubVars>>

\* RemoveSubscription, which no controller calls: the Broker stays.
RemoveSubscription(s) ==
    /\ s \in Leaving
    /\ Become(s, "ready", "removeQueue")
    /\ subs' = [subs EXCEPT ![QueueOf[s]] = None]
    /\ UNCHANGED <<topics, queues, brokers, channelVars, connected, answering, lsnVars, pubVars>>

RemoveQueue(s) ==
    /\ Become(s, "removeQueue", "left")
    /\ queues' = [queues EXCEPT ![QueueOf[s]] = None]
    /\ UNCHANGED <<topics, subs, brokers, channelVars, connected, answering, lsnVars, pubVars>>

\* The connection of a subscriber is lost; the broker is not told.
Disconnect(s) ==
    /\ s \in connected
    /\ connected' = connected \ {s}
    /\ UNCHANGED <<topics, routeVars, channelVars, subPc, answering, lsnVars, pubVars>>

-----------------------------------------------------------------------------
(* A listener: Broker.Listen looks up the subscription and the channel,    *)
(* BrokerChannelListener.Listen pushes one publication after another.      *)

Turn(l, from, to) == lsnPc[l] = from /\ lsnPc' = [lsnPc EXCEPT ![l] = to]

ListenerFindSubscription(l) ==
    /\ endpoint' = [endpoint EXCEPT ![l] = subs[QueueOf[l]]]
    /\ Turn(l, "started", IF endpoint'[l] = None THEN "ended" ELSE "subscribed")
    /\ UNCHANGED <<topics, routeVars, channelVars, subVars, source, hand, delivered,
                   pubVars>>

ListenerFindChannel(l) ==
    /\ source' = [source EXCEPT ![l] = queues[QueueOf[l]]]
    /\ Turn(l, "subscribed", IF source'[l] = None THEN "ended" ELSE "reading")
    /\ UNCHANGED <<topics, routeVars, channelVars, subVars, endpoint, hand, delivered,
                   pubVars>>

\* Mutant: the publication is taken without waiting until there is one.
ListenerTakeAtOnce(l) ==
    /\ Turn(l, "reading", "pushing")
    /\ taken' = [taken EXCEPT ![source[l]] = @ + 1]
    /\ hand' = [hand EXCEPT ![l] = taken'[source[l]]]
    /\ UNCHANGED <<topics, routeVars, log, subVars, endpoint, source, delivered, pubVars>>

\* The publication leaves the channel before it is pushed.
ListenerTake(l) ==
    /\ Turn(l, "reading", "pushing")
    /\ taken[source[l]] < Len(log[source[l]])
    /\ taken' = [taken EXCEPT ![source[l]] = @ + 1]
    /\ hand' = [hand EXCEPT ![l] = taken'[source[l]]]
    /\ UNCHANGED <<topics, routeVars, log, subVars, endpoint, source, delivered, pubVars>>

InHand(l) == log[source[l]][hand[l]]

Deliver(l) == delivered' = [delivered EXCEPT ![endpoint[l]] = Append(@, InHand(l))]

\* Mutant: the next publication is taken although this one was not pushed.
ListenerSkip(l) ==
    /\ Turn(l, "pushing", "reading")
    /\ UNCHANGED <<topics, routeVars, channelVars, subVars, endpoint, source, hand,
                   delivered, pubVars>>

\* Mutant: the listener returns after one publication.
ListenerPushOnce(l) ==
    /\ Turn(l, "pushing", "ended")
    /\ endpoint[l] \in connected \cap answering
    /\ Deliver(l)
    /\ UNCHANGED <<topics, routeVars, channelVars, subVars, endpoint, source, hand, pubVars>>

\* Push succeeds: the subscriber has acknowledged.
ListenerPush(l) ==
    /\ Turn(l, "pushing", "reading")
    /\ endpoint[l] \in connected \cap answering
    /\ Deliver(l)
    /\ UNCHANGED <<topics, routeVars, channelVars, subVars, endpoint, source, hand, pubVars>>

\* Push fails on a lost connection, before or after the subscriber has got the
\* publication, and the listener returns: what it has in hand is not put back.
ListenerPushFails(l) ==
    /\ Turn(l, "pushing", "ended")
    /\ endpoint[l] \notin connected
    /\ (endpoint[l] \in answering /\ Deliver(l)) \/ UNCHANGED delivered
    /\ UNCHANGED <<topics, routeVars, channelVars, subVars, endpoint, source, hand, pubVars>>

\* Push is never answered on a connection that is up, and waits for ever: the
\* push came in one read with the answer to Subscribe and was lost with it, or
\* the payload could not be deserialised, or the controller threw, and the
\* subscriber has left its loop with the socket open.
ListenerPushUnanswered(l) ==
    /\ Turn(l, "pushing", "waiting")
    /\ endpoint[l] \in connected \cap answering
    /\ answering' = answering \ {endpoint[l]}
    /\ Deliver(l) \/ UNCHANGED delivered
    /\ UNCHANGED <<topics, routeVars, channelVars, subPc, connected, endpoint, source, hand,
                   pubVars>>

-----------------------------------------------------------------------------
(* A publisher connection: Advertise, GetQueues, AddPublication per queue. *)

Go(p, from, to) == pubPc[p] = from /\ pubPc' = [pubPc EXCEPT ![p] = to]

\* A publication comes in and its routing key is advertised.
Advertise(p) ==
    /\ Go(p, "idle", "routing")
    /\ current[p].nr < Quota[p]
    /\ \E m \in Publications :
          /\ current' = [current EXCEPT ![p] =
                [from |-> p, nr |-> @.nr + 1, key |-> m.key, contract |-> m.contract]]
          /\ topics' = AddTopicNodes(topics, m.key)
    /\ unseen' = [unseen EXCEPT ![p] = QueueNames]
    /\ due' = [due EXCEPT ![p] = {s \in Subscribers \ Leaving : subPc[s] = "ready"}]
    /\ UNCHANGED <<routeVars, channelVars, subVars, lsnVars, matched, target>>

\* The pattern of the subscription stored under q leads to the routing key.
Routed(p, q) ==
    /\ subs[q] # None
    /\ current[p].key \in GetTopicNodes(topics, PatternOf[subs[q]])

\* GetQueues enumerates a dictionary that others change meanwhile: every entry
\* is looked at once, at a time of its own.
GetQueue(p, q) ==
    /\ Go(p, "routing", IF unseen[p] = {q} THEN "adding" ELSE "routing")
    /\ q \in unseen[p]
    /\ unseen' = [unseen EXCEPT ![p] = @ \ {q}]
    /\ matched' = [matched EXCEPT ![p] = IF Routed(p, q) THEN @ \cup {q} ELSE @]
    /\ UNCHANGED <<topics, routeVars, channelVars, subVars, lsnVars, current, target, due>>

\* Mutant: the contract is not looked at.
AcceptedAnyContract(p, q) == subs[q] # None

Accepted(p, q) == subs[q] # None /\ TypeOf[subs[q]] = current[p].contract

\* AddPublication: no subscription or another contract, and the queue is left out.
CheckContract(p, q) ==
    /\ q \in matched[p]
    /\ Go(p, "adding", IF Accepted(p, q) THEN "writing" ELSE "adding")
    /\ matched' = [matched EXCEPT ![p] = @ \ {q}]
    /\ target' = [target EXCEPT ![p] = IF Accepted(p, q) THEN q ELSE None]
    /\ UNCHANGED <<topics, routeVars, channelVars, subVars, lsnVars, current, unseen, due>>

\* No channel under the name, and the publication is dropped.  A channel that
\* is taken out after it was looked up is still written to; that is the same as
\* writing to it before, so the lookup and TryWrite are one step.
Write(p) ==
    /\ Go(p, "writing", "adding")
    /\ log' = IF queues[target[p]] = None THEN log
              ELSE [log EXCEPT ![queues[target[p]]] = Append(@, current[p])]
    /\ target' = [target EXCEPT ![p] = None]
    /\ UNCHANGED <<topics, routeVars, taken, subVars, lsnVars, current, unseen, matched,
                   due>>

\* Mutant: the publisher is acked before every queue has been served.
FinishEarly(p) ==
    /\ Go(p, "adding", "idle")
    /\ matched' = [matched EXCEPT ![p] = {}]
    /\ UNCHANGED <<topics, routeVars, channelVars, subVars, lsnVars, current, unseen, target,
                   due>>

\* Every queue has been served: the controller returns and the publisher is acked.
Finish(p) ==
    /\ Go(p, "adding", "idle")
    /\ matched[p] = {}
    /\ UNCHANGED <<topics, routeVars, channelVars, subVars, lsnVars, current, unseen, matched,
                   target, due>>

\* UnAdvertise, which no controller calls.
UnAdvertise(k) ==
    /\ topics' = RemoveTopicNodes(topics, k)
    /\ UNCHANGED <<routeVars, channelVars, subVars, lsnVars, pubVars>>

-----------------------------------------------------------------------------

Subscribe(s) == AddSubscription(s) \/ AddQueue(s) \/ FindBroker(s) \/ StartBroker(s)

Unsubscribe(s) == RemoveSubscription(s) \/ RemoveQueue(s)

ListenerRuns(l) ==
    \/ ListenerFindSubscription(l) \/ ListenerFindChannel(l)
    \/ ListenerTake(l) \/ ListenerPush(l)

Route(p) ==
    \/ \E q \in QueueNames : GetQueue(p, q) \/ CheckContract(p, q)
    \/ Write(p) \/ Finish(p)

ListenerStops(l) == ListenerPushFails(l) \/ ListenerPushUnanswered(l)

Next ==
    \/ \E s \in Subscribers : Subscribe(s) \/ Unsubscribe(s) \/ Disconnect(s)
                             \/ ListenerRuns(s) \/ ListenerStops(s)
    \/ \E p \in Publishers : Advertise(p) \/ Route(p)
    \/ \E k \in Retracted : UnAdvertise(k)

Spec == Init /\ [][Next]_vars

\* Every task that has begun is run on by the thread pool.  Nothing makes a
\* publisher publish, a subscriber come or a connection drop.  Push returns for a
\* subscriber that is connected and answers; on a lost connection, or once the
\* subscriber has stopped answering, it need not ever return: nothing completes
\* the channel that the answer is awaited on.
FairSpec ==
    /\ Spec
    /\ \A s \in Subscribers :
          /\ WF_vars(subPc[s] # "new" /\ Subscribe(s))
          /\ WF_vars(ListenerRuns(s))
    /\ \A p \in Publishers : WF_vars(Route(p))

-----------------------------------------------------------------------------
(* Properties.                                                             *)

TypeOK ==
    /\ topics \subseteq UNION {Prefixes(m.key) : m \in Publications}
    /\ subs \in [QueueNames -> Subscribers \cup {None}]
    /\ queues \in [QueueNames -> Subscribers \cup {None}]
    /\ brokers \subseteq QueueNames
    /\ log \in [Subscribers -> Seq(Message)]
    /\ taken \in [Subscribers -> Nat]
    /\ \A c \in Subscribers : taken[c] <= Len(log[c])
    /\ connected \subseteq Subscribers
    /\ answering \subseteq Subscribers
    /\ delivered \in [Subscribers -> Seq(Message)]
    /\ subPc \in [Subscribers ->
                    {"new", "addQueue", "assign", "start", "ready", "removeQueue", "left"}]
    /\ lsnPc \in [Subscribers ->
                    {"none", "started", "subscribed", "reading", "pushing", "waiting", "ended"}]
    /\ endpoint \in [Subscribers -> Subscribers \cup {None}]
    /\ source \in [Subscribers -> Subscribers \cup {None}]
    /\ hand \in [Subscribers -> Nat]
    /\ pubPc \in [Publishers -> {"idle", "routing", "adding", "writing"}]
    /\ current \in [Publishers -> Message \cup {NoMessage(p) : p \in Publishers}]
    /\ unseen \in [Publishers -> SUBSET QueueNames]
    /\ matched \in [Publishers -> SUBSET QueueNames]
    /\ target \in [Publishers -> QueueNames \cup {None}]
    /\ due \in [Publishers -> SUBSET Subscribers]

Wanted(s, m) == m.contract = TypeOf[s] /\ Matches(PatternOf[s], m.key)

\* No two subscribers share a queue name: the clients put a fresh Guid in it.
DistinctQueues == \A s, r \in Subscribers : QueueOf[s] = QueueOf[r] => s = r

\* A subscriber is pushed only publications of its contract and its pattern,
\* although GetQueues, AddPublication and the listener each look the
\* subscription up anew while others subscribe.
RoutedAsSubscribed ==
    \A s \in Subscribers :
        \A i \in 1 .. Len(delivered[s]) : Wanted(s, delivered[s][i])

\* A publication that comes in after a subscriber's Subscribe has returned is
\* in the subscriber's channel when the publisher is acknowledged, whatever other
\* publishers and subscribers do, unless its own topic is taken away meanwhile.
NoMissedSubscriber ==
    \A p \in Publishers : pubPc[p] = "idle" /\ current[p].key \notin Retracted =>
        \A s \in due[p] :
            LET c == queues[QueueOf[s]]
            IN  subs[QueueOf[s]] = s /\ Wanted(s, current[p]) =>
                    \E i \in 1 .. Len(log[c]) : log[c][i] = current[p]

\* A listener returns only because its subscriber is gone: started by a Subscribe
\* handler, it always finds the subscription and the channel.  (One whose push is
\* never answered does not return.)
ListenerEndsWithSubscriber ==
    \A l \in Subscribers :
        lsnPc[l] = "ended" => endpoint[l] \in Subscribers \ connected

\* AssignBroker's check means that one listener at most reads a channel.
OneListenerPerQueue ==
    \A l, m \in Subscribers :
        /\ {lsnPc[l], lsnPc[m]} \subseteq {"reading", "pushing"}
        /\ source[l] = source[m]
        => l = m

\* With queue names of their own, the subscribers get gap-free feeds in order.
Feed == INSTANCE SubscriberFeed WITH accepted <- log, Messages <- Message
ImplementsFeed == Feed!Spec

\* A publication in the channel of a subscriber that stays connected, and goes on
\* answering, is pushed.  Without the second proviso the code does not keep it: a
\* push that is never answered holds up its queue for good.
EventuallyDelivered ==
    \A s \in Subscribers, m \in Message :
        (\E i \in 1 .. Len(log[s]) : log[s][i] = m)
            ~> \/ s \notin connected \cap answering
               \/ \E i \in 1 .. Len(delivered[s]) : delivered[s][i] = m

=============================================================================

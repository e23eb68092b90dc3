------------------------- MODULE PubSubBrokerProofs -------------------------
(* Proofs about PubSubBroker.                                              *)
EXTENDS PubSubBroker, TLAPS

\* Strengthening of TypeOK: a task that is under way has something in hand.
UnderWay ==
    /\ \A p \in Publishers : pubPc[p] # "idle" => current[p] \in Message
    /\ \A l \in Subscribers : lsnPc[l] \in {"reading", "pushing"} => source[l] \in Subscribers
    /\ \A l \in Subscribers :
          lsnPc[l] = "pushing" => hand[l] \in 1 .. Len(log[source[l]])

TypeInv == TypeOK /\ UnderWay

-----------------------------------------------------------------------------

\* What the broker makes of the n-th publication of p is a Message.
LEMMA NewMessage ==
    ASSUME NEW p \in Publishers, NEW n \in 1 .. Quota[p], NEW m \in Publications
    PROVE  [from |-> p, nr |-> n, key |-> m.key, contract |-> m.contract] \in Message
<1> DEFINE Of(r) == {[from |-> r, nr |-> k, key |-> j.key, contract |-> j.contract] :
                         k \in 1 .. Quota[r], j \in Publications}
<1>1. [from |-> p, nr |-> n, key |-> m.key, contract |-> m.contract] \in Of(p)
  OBVIOUS
<1>2. Message = UNION {Of(r) : r \in Publishers}
  BY DEF Message
<1> QED BY <1>1, <1>2

\* The place of a publication among those of its connection is a number.
LEMMA MessageNumber ==
    ASSUME NEW m \in Message \cup {NoMessage(r) : r \in Publishers}
    PROVE  m.nr \in Nat
<1>1. ASSUME NEW r \in Publishers, NEW n \in 1 .. Quota[r] PROVE n \in Nat
  BY BrokerAssumption
<1>2. CASE m \in Message
  BY <1>1, <1>2 DEF Message
<1>3. CASE m \in {NoMessage(r) : r \in Publishers}
  <2>1. PICK r \in Publishers : m = NoMessage(r) BY <1>3
  <2> QED BY <2>1 DEF NoMessage
<1> QED BY <1>2, <1>3

\* An append to one of some sequences leaves what was in them in its place.
LEMMA AppendAt ==
    ASSUME NEW S, NEW T, NEW f \in [S -> Seq(T)], NEW x, NEW e \in T,
           NEW g, g = [f EXCEPT ![x] = Append(@, e)]
    PROVE  /\ g \in [S -> Seq(T)]
           /\ \A y \in S : \A i \in 1 .. Len(f[y]) : i \in 1 .. Len(g[y]) /\ g[y][i] = f[y][i]
           /\ \A y \in S : \A i \in 1 .. Len(g[y]) : i \in 1 .. Len(f[y]) \/ (y = x /\ g[y][i] = e)
<1>1. \A y \in S : g[y] = IF y = x THEN Append(f[y], e) ELSE f[y]
  OBVIOUS
<1>2. \A q \in Seq(T) : /\ Append(q, e) \in Seq(T)
                        /\ Len(Append(q, e)) = Len(q) + 1
                        /\ Len(q) \in Nat
                        /\ \A i \in 1 .. Len(q) : Append(q, e)[i] = q[i]
                        /\ Append(q, e)[Len(q) + 1] = e
  OBVIOUS
<1>3. g \in [S -> Seq(T)]
  BY <1>1, <1>2
<1> QED BY <1>1, <1>2, <1>3

LEMMA AppendType ==
    ASSUME NEW S, NEW T, NEW f \in [S -> Seq(T)], NEW x, NEW e \in T
    PROVE  [f EXCEPT ![x] = Append(@, e)] \in [S -> Seq(T)]
BY AppendAt

\* A removal adds no topic.
LEMMA RemovalShrinks ==
    ASSUME NEW tree, NEW path
    PROVE  RemoveTopicNodes(tree, path) \subseteq tree
BY DEF RemoveTopicNodes

LEMMA InitTypeInv == Init => TypeInv
BY BrokerAssumption DEF Init, TypeInv, TypeOK, UnderWay

LEMMA SubscribeTypeInv ==
    ASSUME TypeInv, NEW s \in Subscribers, Subscribe(s) \/ Unsubscribe(s) \/ Disconnect(s)
    PROVE  TypeInv'
<1> USE BrokerAssumption DEF TypeInv, TypeOK, UnderWay, Become, TryAdd, channelVars, lsnVars, pubVars,
        routeVars, subVars
<1>1. CASE AddSubscription(s) BY <1>1 DEF AddSubscription
<1>2. CASE AddQueue(s) BY <1>2 DEF AddQueue
<1>3. CASE FindBroker(s) BY <1>3 DEF FindBroker
<1>4. CASE StartBroker(s) BY <1>4 DEF StartBroker
<1>5. CASE RemoveSubscription(s) BY <1>5 DEF RemoveSubscription
<1>6. CASE RemoveQueue(s) BY <1>6 DEF RemoveQueue
<1>7. CASE Disconnect(s) BY <1>7 DEF Disconnect
<1> QED BY <1>1, <1>2, <1>3, <1>4, <1>5, <1>6, <1>7 DEF Subscribe, Unsubscribe

LEMMA ListenerTypeInv ==
    ASSUME TypeInv, NEW l \in Subscribers, ListenerRuns(l) \/ ListenerStops(l)
    PROVE  TypeInv'
<1> USE BrokerAssumption DEF TypeInv, TypeOK, UnderWay, Turn, channelVars, pubVars, routeVars,
        subVars
<1>1. CASE ListenerFindSubscription(l) BY <1>1 DEF ListenerFindSubscription
<1>2. CASE ListenerFindChannel(l)
  <2>1. UnderWay' BY <1>2 DEF ListenerFindChannel
  <2> QED BY <1>2, <2>1 DEF ListenerFindChannel
<1>3. CASE ListenerTake(l)
  <2>1. source[l] \in Subscribers BY <1>3 DEF ListenerTake
  <2>2. /\ taken' \in [Subscribers -> Nat] /\ hand' \in [Subscribers -> Nat]
        /\ \A c \in Subscribers : taken'[c] <= Len(log[c])
    BY <1>3, <2>1 DEF ListenerTake
  <2>3. hand'[l] \in 1 .. Len(log[source[l]]) BY <1>3, <2>1 DEF ListenerTake
  <2> QED BY <1>3, <2>1, <2>2, <2>3 DEF ListenerTake
<1>4. ASSUME lsnPc[l] = "pushing", Deliver(l)
      PROVE  delivered' \in [Subscribers -> Seq(Message)]
  <2>1. InHand(l) \in Message BY <1>4 DEF InHand
  <2>2. delivered' = [delivered EXCEPT ![endpoint[l]] = Append(@, InHand(l))]
    BY <1>4 DEF Deliver
  <2>3. delivered \in [Subscribers -> Seq(Message)]
    OBVIOUS
  <2> HIDE DEF TypeInv, TypeOK, UnderWay
  <2> QED BY <2>1, <2>2, <2>3, AppendType, ZenonT(20)
<1>5. CASE ListenerPush(l) BY <1>4, <1>5 DEF ListenerPush
<1>6. CASE ListenerPushFails(l) BY <1>4, <1>6 DEF ListenerPushFails
<1>7. CASE ListenerPushUnanswered(l) BY <1>4, <1>7 DEF ListenerPushUnanswered
<1> QED BY <1>1, <1>2, <1>3, <1>5, <1>6, <1>7 DEF ListenerRuns, ListenerStops

LEMMA AdvertiseTypeInv ==
    ASSUME TypeInv, NEW p \in Publishers, Advertise(p)
    PROVE  TypeInv'
<1> USE BrokerAssumption DEF TypeInv, TypeOK, UnderWay, channelVars, routeVars, subVars, lsnVars
<1>1. PICK m \in Publications :
         /\ current' = [current EXCEPT ![p] =
               [from |-> p, nr |-> @.nr + 1, key |-> m.key, contract |-> m.contract]]
         /\ topics' = AddTopicNodes(topics, m.key)
  BY DEF Advertise
<1>2. current[p].nr + 1 \in 1 .. Quota[p]
  <2>1. current[p].nr \in Nat BY MessageNumber
  <2>2. current[p].nr < Quota[p] /\ Quota[p] \in Nat BY DEF Advertise
  <2> QED BY <2>1, <2>2
<1>3. /\ current'[p] \in Message
      /\ \A r \in Publishers \ {p} : current'[r] = current[r]
  <2> DEFINE new == [from |-> p, nr |-> current[p].nr + 1, key |-> m.key,
                     contract |-> m.contract]
  <2>1. new \in Message BY <1>2, NewMessage
  <2>2. current' = [current EXCEPT ![p] = new] BY <1>1
  <2> HIDE DEF new
  <2> QED BY <2>1, <2>2
<1>4. topics' \subseteq UNION {Prefixes(k.key) : k \in Publications}
  BY <1>1 DEF AddTopicNodes
<1> QED BY <1>3, <1>4 DEF Advertise, Go

LEMMA RouteTypeInv ==
    ASSUME TypeInv, NEW p \in Publishers, Route(p)
    PROVE  TypeInv'
<1> USE BrokerAssumption DEF TypeInv, TypeOK, UnderWay, Go, channelVars, routeVars, subVars, lsnVars
<1>1. ASSUME NEW q \in QueueNames, GetQueue(p, q) PROVE TypeInv'
  BY <1>1 DEF GetQueue
<1>2. ASSUME NEW q \in QueueNames, CheckContract(p, q) PROVE TypeInv'
  BY <1>2 DEF CheckContract
<1>3. CASE Write(p)
  <2>1. current[p] \in Message BY <1>3 DEF Write
  <2>2. /\ log' \in [Subscribers -> Seq(Message)]
        /\ \A c \in Subscribers : \A i \in 1 .. Len(log[c]) : i \in 1 .. Len(log'[c])
        /\ \A c \in Subscribers : Len(log[c]) <= Len(log'[c])
    <3>1. CASE queues[target[p]] = None BY <1>3, <3>1 DEF Write
    <3>2. CASE log' = [log EXCEPT ![queues[target[p]]] = Append(@, current[p])]
      <4>1. log \in [Subscribers -> Seq(Message)] OBVIOUS
      <4>2. ASSUME NEW c PROVE [log EXCEPT ![c] = Append(@, current[p])]
                                   \in [Subscribers -> Seq(Message)]
        BY ONLY <2>1, <4>1, AppendAt
      <4>3. \A c \in Subscribers : \A i \in 1 .. Len(log[c]) : i \in 1 .. Len(log'[c])
        BY ONLY <2>1, <3>2, <4>1, AppendAt
      <4>4. \A c \in Subscribers : Len(log[c]) \in Nat /\ Len(log'[c]) \in Nat
        BY <3>2, <4>1, <4>2
      <4>5. \A c \in Subscribers : Len(log[c]) <= Len(log'[c])
        <5> SUFFICES ASSUME NEW c \in Subscribers, Len(log[c]) # 0
                     PROVE  Len(log[c]) <= Len(log'[c])
          BY <4>4
        <5> QED BY ONLY <4>3, <4>4, Len(log[c]) # 0
      <4> QED BY <3>2, <4>2, <4>3, <4>5
    <3> QED BY <1>3, <3>1, <3>2 DEF Write
  <2>3. \A l \in Subscribers :
           lsnPc[l] = "pushing" => hand[l] \in 1 .. Len(log'[source[l]])
    BY <2>2
  <2>4. \A c \in Subscribers : taken[c] <= Len(log'[c])
    <3>1. \A c \in Subscribers : /\ Len(log[c]) \in Nat /\ Len(log'[c]) \in Nat
                                /\ taken[c] \in Nat /\ taken[c] <= Len(log[c])
      BY <2>2
    <3> QED BY ONLY <2>2, <3>1
  <2> QED BY <1>3, <2>2, <2>3, <2>4 DEF Write
<1>4. CASE Finish(p) BY <1>4 DEF Finish
<1> QED BY <1>1, <1>2, <1>3, <1>4 DEF Route

LEMMA NextTypeInv == TypeInv /\ [Next]_vars => TypeInv'
<1> SUFFICES ASSUME TypeInv, [Next]_vars PROVE TypeInv'
  OBVIOUS
<1>1. ASSUME NEW k \in Retracted, UnAdvertise(k) PROVE TypeInv'
  <2>1. topics' \subseteq topics BY <1>1, RemovalShrinks DEF UnAdvertise
  <2> QED BY <1>1, <2>1 DEF TypeInv, TypeOK, UnderWay, UnAdvertise, routeVars, channelVars,
                            subVars, lsnVars, pubVars
<1>2. CASE UNCHANGED vars
  BY <1>2 DEF TypeInv, TypeOK, UnderWay, vars, routeVars, channelVars, subVars, lsnVars, pubVars
<1> QED
  BY <1>1, <1>2, SubscribeTypeInv, ListenerTypeInv, AdvertiseTypeInv, RouteTypeInv DEF Next

\* Whatever the connections do, and in whichever order, the state of the broker
\* has its type: a dictionary names subscribers only, a channel holds messages
\* of the publishers, a listener reads a channel there is.
THEOREM TypeCorrect == Spec => []TypeOK
<1>1. Spec => []TypeInv
  BY InitTypeInv, NextTypeInv, PTL DEF Spec
<1> QED BY <1>1, PTL DEF TypeInv

-----------------------------------------------------------------------------

\* s is the one subscriber that the queue name q is served for: the one of that
\* name, or the one whose subscription is stored when names are shared.
Served(q, s) ==
    /\ s \in Subscribers
    /\ QueueOf[s] = q
    /\ DistinctQueues \/ subs[q] = s

\* Strengthening of RoutedAsSubscribed: everything that is on its way to a queue
\* name is what the subscriber served under that name wants.
SubscriptionsOwn == \A q \in QueueNames : subs[q] # None => Served(q, subs[q])

ChannelsOwn == \A q \in QueueNames : queues[q] # None => QueueOf[queues[q]] = q

LogWanted ==
    \A c \in Subscribers : \A i \in 1 .. Len(log[c]) :
        \E s \in Subscribers : Served(QueueOf[c], s) /\ Wanted(s, log[c][i])

MatchedWanted ==
    \A p \in Publishers :
        /\ pubPc[p] = "idle" => matched[p] = {}
        /\ \A q \in matched[p] :
              \E s \in Subscribers : Served(q, s) /\ Matches(PatternOf[s], current[p].key)

WriteWanted ==
    \A p \in Publishers : pubPc[p] = "writing" =>
        /\ target[p] \in QueueNames
        /\ \E s \in Subscribers : Served(target[p], s) /\ Wanted(s, current[p])

ListenersOwn ==
    \A l \in Subscribers :
        /\ lsnPc[l] \in {"subscribed", "reading", "pushing"} => Served(QueueOf[l], endpoint[l])
        /\ lsnPc[l] \in {"reading", "pushing"} => QueueOf[source[l]] = QueueOf[l]

RoutingInv ==
    /\ TypeInv
    /\ SubscriptionsOwn
    /\ ChannelsOwn
    /\ LogWanted
    /\ MatchedWanted
    /\ WriteWanted
    /\ ListenersOwn
    /\ RoutedAsSubscribed

\* Subscriptions are not taken away from names that are shared.
NamesKept == DistinctQueues \/ Leaving = {}

-----------------------------------------------------------------------------

LEMMA ServedOnce ==
    ASSUME NEW q, NEW s, NEW r, Served(q, s), Served(q, r)
    PROVE  s = r
BY DEF Served, DistinctQueues

LEMMA InitRoutingInv == Init => RoutingInv
<1> SUFFICES ASSUME Init PROVE RoutingInv
  OBVIOUS
<1>1. TypeInv BY InitTypeInv
<1>2. LogWanted BY DEF Init, LogWanted
<1>3. RoutedAsSubscribed BY DEF Init, RoutedAsSubscribed
<1> QED
  BY <1>1, <1>2, <1>3 DEF RoutingInv, Init, SubscriptionsOwn, ChannelsOwn, MatchedWanted, WriteWanted,
     ListenersOwn

\* No step takes a queue name from the subscriber it is served for.
LEMMA ServedStays ==
    ASSUME NamesKept, TypeInv, [Next]_vars,
           NEW q \in QueueNames, NEW s \in Subscribers, Served(q, s)
    PROVE  Served(q, s)'
<1> USE BrokerAssumption DEF TypeInv, TypeOK
<1>1. SUFFICES ASSUME subs[q] = s, ~ DistinctQueues PROVE subs'[q] = s
  BY DEF Served, DistinctQueues
<1>2. CASE \E r \in Subscribers : AddSubscription(r)
  BY <1>1, <1>2 DEF AddSubscription, TryAdd
<1>3. ASSUME NEW r \in Subscribers, RemoveSubscription(r) PROVE FALSE
  BY <1>1, <1>3 DEF RemoveSubscription, NamesKept
<1>4. CASE UNCHANGED subs
  BY <1>1, <1>4
<1>5. ASSUME Next PROVE \/ UNCHANGED subs
                        \/ \E r \in Subscribers : AddSubscription(r) \/ RemoveSubscription(r)
  BY <1>5 DEF Next, Subscribe, Unsubscribe, Disconnect, ListenerRuns, ListenerStops,
     ListenerPushFails, ListenerPushUnanswered, Advertise, Route, UnAdvertise, AddQueue, FindBroker,
     StartBroker, RemoveQueue, ListenerFindSubscription, ListenerFindChannel, ListenerTake,
     ListenerPush, GetQueue, CheckContract, Write, Finish, routeVars
<1> QED BY <1>2, <1>3, <1>4, <1>5 DEF vars, routeVars

\* What holds of a queue name while its subscriber is served goes on holding.
LEMMA WantedStays ==
    ASSUME NamesKept, TypeInv, [Next]_vars
    PROVE  /\ \A q \in QueueNames : \A m :
                 (\E s \in Subscribers : Served(q, s) /\ Wanted(s, m))
                     => \E s \in Subscribers : Served(q, s)' /\ Wanted(s, m)
           /\ \A q \in QueueNames : \A k :
                 (\E s \in Subscribers : Served(q, s) /\ Matches(PatternOf[s], k))
                     => \E s \in Subscribers : Served(q, s)' /\ Matches(PatternOf[s], k)
BY ServedStays

\* The steps of a subscriber's connection.
LEMMA SubscribeRouting ==
    ASSUME NamesKept, RoutingInv, Next, NEW s \in Subscribers,
           Subscribe(s) \/ Unsubscribe(s) \/ Disconnect(s)
    PROVE  RoutingInv'
<1> USE BrokerAssumption
<1>1. TypeInv /\ TypeInv'
  BY NextTypeInv DEF RoutingInv
<1>2. UNCHANGED <<log, pubVars, endpoint, source, hand, delivered>>
  BY DEF Subscribe, Unsubscribe, Disconnect, AddSubscription, AddQueue, FindBroker, StartBroker,
     RemoveSubscription, RemoveQueue, lsnVars, channelVars
<1>3. SubscriptionsOwn'
  <2> SUFFICES ASSUME NEW q \in QueueNames, NEW e, e = subs'[q], e # None
               PROVE  Served(q, e)'
    BY DEF SubscriptionsOwn, Served
  <2>1. CASE subs[q] = e
    <3>1. Served(q, e) BY <2>1 DEF RoutingInv, SubscriptionsOwn
    <3> QED BY <1>1, <3>1, ServedStays DEF Served
  <2>2. CASE e = s /\ q = QueueOf[s]
    BY <2>2 DEF Served
  <2>3. \/ UNCHANGED subs \/ subs' = TryAdd(subs, QueueOf[s], s)
        \/ subs' = [subs EXCEPT ![QueueOf[s]] = None]
    BY DEF Subscribe, Unsubscribe, Disconnect, AddSubscription, AddQueue, FindBroker, StartBroker,
       RemoveSubscription, RemoveQueue, routeVars
  <2>4. subs \in [QueueNames -> Subscribers \cup {None}] /\ QueueOf[s] \in QueueNames
    BY <1>1 DEF TypeInv, TypeOK
  <2> QED BY <2>1, <2>2, <2>3, <2>4 DEF TryAdd
<1>4. ChannelsOwn'
  <2>1. \/ UNCHANGED queues \/ queues' = TryAdd(queues, QueueOf[s], s)
        \/ queues' = [queues EXCEPT ![QueueOf[s]] = None]
    BY DEF Subscribe, Unsubscribe, Disconnect, AddSubscription, AddQueue, FindBroker, StartBroker,
       RemoveSubscription, RemoveQueue, routeVars
  <2>2. queues \in [QueueNames -> Subscribers \cup {None}] /\ QueueOf[s] \in QueueNames
    BY <1>1 DEF TypeInv, TypeOK
  <2> QED BY <2>1, <2>2 DEF RoutingInv, ChannelsOwn, TryAdd
<1>5. LogWanted'
  BY <1>1, <1>2, WantedStays DEF RoutingInv, LogWanted
<1>6. MatchedWanted'
  BY <1>1, <1>2, WantedStays DEF RoutingInv, MatchedWanted, pubVars, TypeInv, TypeOK
<1>7. WriteWanted'
  BY <1>1, <1>2, WantedStays DEF RoutingInv, WriteWanted, pubVars
<1>8. ListenersOwn'
  <2>1. lsnPc \in [Subscribers -> {"none", "started", "subscribed", "reading", "pushing", "waiting", "ended"}]
    BY <1>1 DEF TypeInv, TypeOK
  <2>2. UNCHANGED lsnPc \/ lsnPc' = [lsnPc EXCEPT ![s] = "started"]
    BY DEF Subscribe, Unsubscribe, Disconnect, AddSubscription, AddQueue, FindBroker, StartBroker,
       RemoveSubscription, RemoveQueue, lsnVars
  <2>3. \A l \in Subscribers : lsnPc'[l] \in {"subscribed", "reading", "pushing"} => lsnPc'[l] = lsnPc[l]
    BY <2>1, <2>2
  <2>4. \A l \in Subscribers : Served(QueueOf[l], endpoint[l]) => Served(QueueOf[l], endpoint[l])'
    BY <1>1, <1>2, ServedStays DEF Served
  <2> QED BY <1>2, <2>3, <2>4 DEF RoutingInv, ListenersOwn
<1>9. RoutedAsSubscribed'
  BY <1>2 DEF RoutingInv, RoutedAsSubscribed
<1> QED BY <1>1, <1>3, <1>4, <1>5, <1>6, <1>7, <1>8, <1>9 DEF RoutingInv

\* The steps of a listener.
LEMMA ListenerRouting ==
    ASSUME NamesKept, RoutingInv, Next, NEW l \in Subscribers,
           ListenerRuns(l) \/ ListenerStops(l)
    PROVE  RoutingInv'
<1> USE BrokerAssumption
<1>1. TypeInv /\ TypeInv'
  BY NextTypeInv DEF RoutingInv
<1>2. UNCHANGED <<log, pubVars, routeVars>>
  BY DEF ListenerRuns, ListenerFindSubscription, ListenerFindChannel, ListenerTake, ListenerPush,
     ListenerStops, ListenerPushFails, ListenerPushUnanswered, channelVars
<1>3. SubscriptionsOwn' /\ ChannelsOwn'
  BY <1>2 DEF RoutingInv, SubscriptionsOwn, ChannelsOwn, routeVars, Served
<1>4. LogWanted'
  BY <1>2 DEF RoutingInv, LogWanted, routeVars, Served
<1>5. MatchedWanted' /\ WriteWanted'
  BY <1>2 DEF RoutingInv, MatchedWanted, WriteWanted, routeVars, pubVars, Served
<1>6. ListenersOwn'
  <2>1. /\ lsnPc \in [Subscribers ->
                        {"none", "started", "subscribed", "reading", "pushing", "waiting", "ended"}]
        /\ endpoint \in [Subscribers -> Subscribers \cup {None}]
        /\ source \in [Subscribers -> Subscribers \cup {None}]
        /\ QueueOf[l] \in QueueNames
    BY <1>1 DEF TypeInv, TypeOK
  <2>2. CASE ListenerFindSubscription(l)
    <3>1. endpoint'[l] # None => Served(QueueOf[l], endpoint'[l])
      BY <2>1, <2>2 DEF ListenerFindSubscription, RoutingInv, SubscriptionsOwn
    <3> QED
      BY <1>2, <2>1, <2>2, <3>1
      DEF ListenerFindSubscription, Turn, RoutingInv, ListenersOwn, Served, routeVars
  <2>3. CASE ListenerFindChannel(l)
    <3>1. source'[l] # None => QueueOf[source'[l]] = QueueOf[l]
      BY <2>1, <2>3 DEF ListenerFindChannel, RoutingInv, ChannelsOwn
    <3> QED
      BY <1>2, <2>1, <2>3, <3>1
      DEF ListenerFindChannel, Turn, RoutingInv, ListenersOwn, Served, routeVars
  <2>4. CASE ListenerTake(l) \/ ListenerPush(l) \/ ListenerStops(l)
    <3>1. UNCHANGED <<endpoint, source>>
      BY <2>4 DEF ListenerTake, ListenerPush, ListenerStops, ListenerPushFails,
         ListenerPushUnanswered
    <3>2. \A x \in Subscribers :
             /\ lsnPc'[x] \in {"reading", "pushing"} => lsnPc[x] \in {"reading", "pushing"}
             /\ lsnPc'[x] = "subscribed" => lsnPc[x] = "subscribed"
      BY <2>1, <2>4 DEF ListenerTake, ListenerPush, ListenerStops, ListenerPushFails,
         ListenerPushUnanswered, Turn
    <3> QED BY <1>2, <3>1, <3>2 DEF RoutingInv, ListenersOwn, Served, routeVars
  <2> QED BY <2>2, <2>3, <2>4 DEF ListenerRuns
<1>7. RoutedAsSubscribed'
  <2>1. CASE UNCHANGED delivered
    BY <2>1 DEF RoutingInv, RoutedAsSubscribed
  <2>2. CASE lsnPc[l] = "pushing" /\ Deliver(l)
    <3>1. /\ source[l] \in Subscribers
          /\ QueueOf[source[l]] = QueueOf[l]
          /\ hand[l] \in 1 .. Len(log[source[l]])
          /\ Served(QueueOf[l], endpoint[l])
      BY <2>2 DEF RoutingInv, TypeInv, UnderWay, ListenersOwn
    <3>2. PICK s \in Subscribers : Served(QueueOf[l], s) /\ Wanted(s, InHand(l))
      BY <3>1 DEF RoutingInv, LogWanted, InHand
    <3>3. Wanted(endpoint[l], InHand(l))
      BY <3>1, <3>2, ServedOnce
    <3>4. InHand(l) \in Message /\ delivered \in [Subscribers -> Seq(Message)]
      <4>1. /\ log \in [Subscribers -> Seq(Message)]
            /\ delivered \in [Subscribers -> Seq(Message)]
        BY <1>1 DEF TypeInv, TypeOK
      <4> QED BY <3>1, <4>1 DEF InHand
    <3>5. \A y \in Subscribers : \A i \in 1 .. Len(delivered'[y]) :
             \/ i \in 1 .. Len(delivered[y]) /\ delivered'[y][i] = delivered[y][i]
             \/ y = endpoint[l] /\ delivered'[y][i] = InHand(l)
      BY <2>2, <3>4, AppendAt DEF Deliver
    <3> QED BY <3>3, <3>5 DEF RoutingInv, RoutedAsSubscribed
  <2>3. UNCHANGED delivered \/ (lsnPc[l] = "pushing" /\ Deliver(l))
    BY DEF ListenerRuns, ListenerFindSubscription, ListenerFindChannel, ListenerTake, ListenerPush,
       ListenerStops, ListenerPushFails, ListenerPushUnanswered, Turn
  <2> QED BY <2>1, <2>2, <2>3
<1> QED BY <1>1, <1>3, <1>4, <1>5, <1>6, <1>7 DEF RoutingInv

\* The steps of a publisher's connection, and UnAdvertise.
LEMMA PublisherRouting ==
    ASSUME NamesKept, RoutingInv, Next,
           \/ \E p \in Publishers : Advertise(p) \/ Route(p)
           \/ \E k \in Retracted : UnAdvertise(k)
    PROVE  RoutingInv'
<1> USE BrokerAssumption
<1>1. TypeInv /\ TypeInv'
  BY NextTypeInv DEF RoutingInv
<1>2. UNCHANGED <<subs, queues, lsnPc, endpoint, source, delivered>>
  BY DEF Advertise, Route, GetQueue, CheckContract, Write, Finish, UnAdvertise, routeVars, lsnVars
<1>3. \A q, e : Served(q, e)' <=> Served(q, e)
  BY <1>2 DEF Served
<1>4. SubscriptionsOwn' /\ ChannelsOwn' /\ ListenersOwn' /\ RoutedAsSubscribed'
  BY <1>2 DEF RoutingInv, SubscriptionsOwn, ChannelsOwn, ListenersOwn, RoutedAsSubscribed, Served
<1>5. /\ pubPc \in [Publishers -> {"idle", "routing", "adding", "writing"}]
      /\ matched \in [Publishers -> SUBSET QueueNames]
      /\ target \in [Publishers -> QueueNames \cup {None}]
      /\ current \in [Publishers -> Message \cup {NoMessage(p) : p \in Publishers}]
      /\ log \in [Subscribers -> Seq(Message)]
  BY <1>1 DEF TypeInv, TypeOK
<1>6. ASSUME NEW k \in Retracted, UnAdvertise(k) PROVE RoutingInv'
  <2>1. UNCHANGED <<log, matched, pubPc, current, target>>
    BY <1>6 DEF UnAdvertise, channelVars, pubVars
  <2>2. LogWanted' /\ MatchedWanted' /\ WriteWanted'
    BY <1>2, <2>1 DEF RoutingInv, LogWanted, MatchedWanted, WriteWanted, Served
  <2> QED BY <1>1, <1>4, <2>2 DEF RoutingInv
<1>7. ASSUME NEW p \in Publishers, Advertise(p) PROVE RoutingInv'
  <2>1. UNCHANGED <<log, matched, target>> /\ pubPc[p] = "idle" /\ pubPc'[p] = "routing"
        /\ \A r \in Publishers \ {p} : pubPc'[r] = pubPc[r] /\ current'[r] = current[r]
    BY <1>5, <1>7 DEF Advertise, Go, channelVars
  <2>2. LogWanted'
    BY <1>2, <2>1 DEF RoutingInv, LogWanted, Served
  <2>3. MatchedWanted'
    BY <1>3, <2>1 DEF RoutingInv, MatchedWanted
  <2>4. WriteWanted'
    BY <1>2, <2>1 DEF RoutingInv, WriteWanted, Served
  <2> QED BY <1>1, <1>4, <2>2, <2>3, <2>4 DEF RoutingInv
<1>8. ASSUME NEW p \in Publishers, NEW q \in QueueNames, GetQueue(p, q) PROVE RoutingInv'
  <2>1. UNCHANGED <<log, current, target>> /\ pubPc'[p] \in {"routing", "adding"}
        /\ \A r \in Publishers \ {p} : pubPc'[r] = pubPc[r] /\ matched'[r] = matched[r]
    BY <1>5, <1>8 DEF GetQueue, Go, channelVars
  <2>2. LogWanted' /\ WriteWanted'
    BY <1>2, <2>1 DEF RoutingInv, LogWanted, WriteWanted, Served
  <2>3. Routed(p, q) => \E s \in Subscribers : Served(q, s) /\ Matches(PatternOf[s], current[p].key)
    BY DEF Routed, RoutingInv, SubscriptionsOwn, GetTopicNodes, Served
  <2>4. MatchedWanted'
    <3>1. \A e \in matched'[p] :
             \E s \in Subscribers : Served(e, s) /\ Matches(PatternOf[s], current[p].key)
      <4>1. CASE Routed(p, q)
        <5>1. matched'[p] = matched[p] \cup {q} BY <1>5, <1>8, <4>1 DEF GetQueue
        <5> QED BY <2>3, <4>1, <5>1 DEF RoutingInv, MatchedWanted
      <4>2. CASE ~ Routed(p, q)
        <5>1. matched'[p] = matched[p] BY <1>5, <1>8, <4>2 DEF GetQueue
        <5> QED BY <5>1 DEF RoutingInv, MatchedWanted
      <4> QED BY <4>1, <4>2
    <3> QED BY <1>3, <2>1, <3>1 DEF RoutingInv, MatchedWanted
  <2> QED BY <1>1, <1>4, <2>2, <2>4 DEF RoutingInv
<1>9. ASSUME NEW p \in Publishers, NEW q \in QueueNames, CheckContract(p, q) PROVE RoutingInv'
  <2>1. /\ UNCHANGED <<log, current>> /\ q \in matched[p]
        /\ pubPc'[p] = IF Accepted(p, q) THEN "writing" ELSE "adding"
        /\ target'[p] = IF Accepted(p, q) THEN q ELSE None
        /\ matched'[p] = matched[p] \ {q}
        /\ \A r \in Publishers \ {p} : /\ pubPc'[r] = pubPc[r]
                                       /\ matched'[r] = matched[r]
                                       /\ target'[r] = target[r]
    BY <1>5, <1>9 DEF CheckContract, Go, channelVars
  <2>2. LogWanted'
    BY <1>2, <2>1 DEF RoutingInv, LogWanted, Served
  <2>3. MatchedWanted'
    BY <1>3, <2>1 DEF RoutingInv, MatchedWanted
  <2>4. Accepted(p, q) => \E s \in Subscribers : Served(q, s) /\ Wanted(s, current[p])
    <3>1. PICK s \in Subscribers : Served(q, s) /\ Matches(PatternOf[s], current[p].key)
      BY <2>1 DEF RoutingInv, MatchedWanted
    <3>2. subs[q] # None => subs[q] = s
      BY <3>1, ServedOnce DEF RoutingInv, SubscriptionsOwn
    <3> QED BY <3>1, <3>2 DEF Accepted, Wanted
  <2>5. WriteWanted'
    BY <1>2, <2>1, <2>4 DEF RoutingInv, WriteWanted, Served
  <2> QED BY <1>1, <1>4, <2>2, <2>3, <2>5 DEF RoutingInv
<1>10. ASSUME NEW p \in Publishers, Write(p) PROVE RoutingInv'
  <2>1. /\ UNCHANGED <<current, matched>>
        /\ pubPc[p] = "writing" /\ pubPc'[p] = "adding"
        /\ \A r \in Publishers \ {p} : pubPc'[r] = pubPc[r] /\ target'[r] = target[r]
    BY <1>5, <1>10 DEF Write, Go
  <2>2. MatchedWanted'
    BY <1>3, <2>1 DEF RoutingInv, MatchedWanted
  <2>4. WriteWanted'
    BY <1>2, <2>1 DEF RoutingInv, WriteWanted, Served
  <2>3. LogWanted'
    <3>1. CASE log' = log
      BY <1>2, <3>1 DEF RoutingInv, LogWanted, Served
    <3>2. CASE /\ queues[target[p]] # None
               /\ log' = [log EXCEPT ![queues[target[p]]] = Append(@, current[p])]
      <4> DEFINE c == queues[target[p]]
      <4>1. /\ target[p] \in QueueNames
            /\ \E s \in Subscribers : Served(target[p], s) /\ Wanted(s, current[p])
            /\ QueueOf[c] = target[p]
        BY <2>1, <3>2 DEF RoutingInv, WriteWanted, ChannelsOwn
      <4>2. current[p] \in Message
        BY <1>1, <2>1 DEF TypeInv, UnderWay
      <4>3. \A y \in Subscribers : \A i \in 1 .. Len(log'[y]) :
               \/ i \in 1 .. Len(log[y]) /\ log'[y][i] = log[y][i]
               \/ y = c /\ log'[y][i] = current[p]
        BY <1>5, <3>2, <4>2, AppendAt
      <4> HIDE DEF c
      <4> QED BY <1>3, <4>1, <4>3 DEF RoutingInv, LogWanted
    <3> QED BY <1>10, <3>1, <3>2 DEF Write
  <2> QED BY <1>1, <1>4, <2>2, <2>3, <2>4 DEF RoutingInv
<1>11. ASSUME NEW p \in Publishers, Finish(p) PROVE RoutingInv'
  <2>1. UNCHANGED <<log, current, matched, target>> /\ matched[p] = {} /\ pubPc'[p] = "idle"
        /\ \A r \in Publishers \ {p} : pubPc'[r] = pubPc[r]
    BY <1>5, <1>11 DEF Finish, Go, channelVars
  <2>2. LogWanted' /\ WriteWanted'
    BY <1>2, <2>1 DEF RoutingInv, LogWanted, WriteWanted, Served
  <2>3. MatchedWanted'
    BY <1>3, <2>1 DEF RoutingInv, MatchedWanted
  <2> QED BY <1>1, <1>4, <2>2, <2>3 DEF RoutingInv
<1> QED BY <1>6, <1>7, <1>8, <1>9, <1>10, <1>11 DEF Route

LEMMA NextRoutingInv ==
    ASSUME NamesKept
    PROVE  RoutingInv /\ [Next]_vars => RoutingInv'
<1> SUFFICES ASSUME RoutingInv, [Next]_vars PROVE RoutingInv'
  OBVIOUS
<1>1. CASE UNCHANGED vars
  <2>1. TypeInv' BY NextTypeInv DEF RoutingInv
  <2> QED BY <1>1, <2>1
          DEF RoutingInv, SubscriptionsOwn, ChannelsOwn, LogWanted, MatchedWanted, WriteWanted,
              ListenersOwn, RoutedAsSubscribed, Served, vars, routeVars, channelVars, subVars,
              lsnVars, pubVars
<1>2. CASE Next
  BY <1>2, SubscribeRouting, ListenerRouting, PublisherRouting DEF Next
<1> QED BY <1>1, <1>2

\* However many connections there are and however their steps interleave with
\* those of the publishers and the listeners, no subscriber is pushed what it
\* has not subscribed to; provided the subscribers of a shared queue name do not
\* unsubscribe, which no controller lets them do.
THEOREM RoutingCorrect ==
    ASSUME NamesKept
    PROVE  Spec => []RoutedAsSubscribed
<1>1. RoutingInv /\ [Next]_vars => RoutingInv'
  BY NextRoutingInv
<1>2. RoutingInv => RoutedAsSubscribed
  BY DEF RoutingInv
<1> QED BY InitRoutingInv, <1>1, <1>2, PTL DEF Spec

-----------------------------------------------------------------------------
(* A publication is routed to all who wait for it.                         *)

\* Who stays has its subscription and its channel, from its Subscribe on.
StayersStored ==
    /\ \A r \in Subscribers : subPc[r] \in {"removeQueue", "left"} => r \in Leaving
    /\ \A s \in Subscribers \ Leaving :
          /\ subPc[s] # "new" => subs[QueueOf[s]] # None
          /\ subPc[s] \notin {"new", "addQueue"} => queues[QueueOf[s]] # None

\* Who waits for a publication has subscribed, and stays.
DueStay ==
    \A p \in Publishers : \A s \in due[p] :
        s \in Subscribers \ Leaving /\ subPc[s] = "ready"

\* GetQueues has looked at all it looks at; the topic it looks for is there.
RoutingKeyThere ==
    \A p \in Publishers :
        /\ pubPc[p] # "routing" => unseen[p] = {}
        /\ pubPc[p] = "routing" => current[p].key \in topics \cup {Root}

InLog(m, c) == \E i \in 1 .. Len(log[c]) : log[c][i] = m

\* p has still to look at the queue name q, or to add to it, or to write to it.
StillToServe(p, q) ==
    \/ q \in unseen[p] \cup matched[p]
    \/ pubPc[p] = "writing" /\ q = target[p]

\* A publication is in the channel of who waits for it, or on its way there.
DueServed ==
    \A p \in Publishers : \A s \in due[p] :
        subs[QueueOf[s]] = s /\ Wanted(s, current[p]) =>
            StillToServe(p, QueueOf[s]) \/ InLog(current[p], queues[QueueOf[s]])

MissedInv ==
    /\ RoutingInv
    /\ StayersStored
    /\ DueStay
    /\ RoutingKeyThere
    /\ DueServed

LEMMA InitMissedInv == Init => MissedInv
<1> SUFFICES ASSUME Init PROVE MissedInv
  OBVIOUS
<1>1. StayersStored /\ DueStay BY BrokerAssumption DEF Init, StayersStored, DueStay
<1>2. RoutingKeyThere /\ DueServed BY DEF Init, RoutingKeyThere, DueServed
<1> QED BY <1>1, <1>2, InitRoutingInv DEF MissedInv

\* At the acknowledgement nothing is on its way any more.
LEMMA MissedInvSuffices == MissedInv => NoMissedSubscriber
<1> SUFFICES ASSUME MissedInv, NEW p \in Publishers, pubPc[p] = "idle", NEW s \in due[p],
                    subs[QueueOf[s]] = s, Wanted(s, current[p])
             PROVE  InLog(current[p], queues[QueueOf[s]])
  BY DEF NoMissedSubscriber, InLog
<1>1. unseen[p] = {} /\ matched[p] = {}
  BY DEF MissedInv, RoutingKeyThere, RoutingInv, MatchedWanted
<1> QED BY <1>1 DEF MissedInv, DueServed, StillToServe

\* The steps of the subscribers leave what is stored for those who stay.
LEMMA SubscribeMissed ==
    ASSUME NamesKept, MissedInv, RoutingInv', NEW s \in Subscribers,
           Subscribe(s) \/ Unsubscribe(s) \/ Disconnect(s)
    PROVE  MissedInv'
<1> USE BrokerAssumption
<1>1. /\ subs \in [QueueNames -> Subscribers \cup {None}]
      /\ queues \in [QueueNames -> Subscribers \cup {None}]
      /\ subPc \in [Subscribers ->
                      {"new", "addQueue", "assign", "start", "ready", "removeQueue", "left"}]
      /\ due \in [Publishers -> SUBSET Subscribers]
  BY DEF MissedInv, RoutingInv, TypeInv, TypeOK
<1>2. StayersStored /\ DueStay /\ RoutingKeyThere /\ DueServed
  BY DEF MissedInv
<1>3. UNCHANGED <<topics, log, pubVars>>
  BY DEF Subscribe, Unsubscribe, Disconnect, AddSubscription, AddQueue, FindBroker, StartBroker,
     RemoveSubscription, RemoveQueue, channelVars
<1>4. /\ \A r \in Subscribers \ {s} : subPc'[r] = subPc[r]
      /\ subPc'[s] \in {"removeQueue", "left"} => s \in Leaving
      /\ s \notin Leaving /\ subPc[s] = "ready" => subPc'[s] = "ready"
      /\ s \notin Leaving /\ subPc'[s] # "new" => subs'[QueueOf[s]] # None
      /\ s \notin Leaving /\ subPc'[s] \notin {"new", "addQueue"} => queues'[QueueOf[s]] # None
  <2> USE <1>1, <1>2 DEF Become, TryAdd, StayersStored
  <2>1. CASE AddSubscription(s) BY <2>1 DEF AddSubscription
  <2>2. CASE AddQueue(s) BY <2>2 DEF AddQueue
  <2>3. CASE FindBroker(s) BY <2>3 DEF FindBroker, routeVars
  <2>4. CASE StartBroker(s) BY <2>4 DEF StartBroker
  <2>5. CASE RemoveSubscription(s) BY <2>5 DEF RemoveSubscription
  <2>6. CASE RemoveQueue(s) BY <2>6 DEF RemoveQueue
  <2>7. CASE Disconnect(s) BY <2>7 DEF Disconnect, routeVars
  <2> QED BY <2>1, <2>2, <2>3, <2>4, <2>5, <2>6, <2>7 DEF Subscribe, Unsubscribe
<1>5. ASSUME NEW r \in Subscribers \ Leaving
      PROVE  /\ subs[QueueOf[r]] # None => subs'[QueueOf[r]] = subs[QueueOf[r]]
             /\ queues[QueueOf[r]] # None => queues'[QueueOf[r]] = queues[QueueOf[r]]
  <2>1. s \in Leaving => QueueOf[s] # QueueOf[r]
    BY <1>5 DEF NamesKept, DistinctQueues
  <2>2. /\ \/ UNCHANGED subs \/ subs' = TryAdd(subs, QueueOf[s], s)
           \/ s \in Leaving /\ subs' = [subs EXCEPT ![QueueOf[s]] = None]
        /\ \/ UNCHANGED queues \/ queues' = TryAdd(queues, QueueOf[s], s)
           \/ s \in Leaving /\ queues' = [queues EXCEPT ![QueueOf[s]] = None]
    BY <1>2 DEF Subscribe, Unsubscribe, Disconnect, AddSubscription, AddQueue, FindBroker,
       StartBroker, RemoveSubscription, RemoveQueue, routeVars, Become, StayersStored
  <2> QED BY <1>1, <2>1, <2>2 DEF TryAdd
<1>6. StayersStored'
  BY <1>1, <1>2, <1>4, <1>5 DEF StayersStored
<1>7. DueStay'
  BY <1>1, <1>2, <1>3, <1>4 DEF DueStay, pubVars
<1>8. RoutingKeyThere'
  BY <1>2, <1>3 DEF RoutingKeyThere, pubVars
<1>9. DueServed'
  <2> SUFFICES ASSUME NEW p \in Publishers, NEW r \in due[p], subs'[QueueOf[r]] = r,
                      Wanted(r, current[p])
               PROVE  StillToServe(p, QueueOf[r]) \/ InLog(current[p], queues'[QueueOf[r]])
    BY <1>3 DEF DueServed, StillToServe, InLog, pubVars
  <2>1. r \in Subscribers \ Leaving /\ subPc[r] = "ready"
    BY <1>2 DEF DueStay
  <2>2. subs[QueueOf[r]] # None /\ queues[QueueOf[r]] # None
    BY <1>2, <2>1 DEF StayersStored
  <2>3. subs[QueueOf[r]] = r /\ queues'[QueueOf[r]] = queues[QueueOf[r]]
    BY <1>5, <2>1, <2>2
  <2> QED BY <1>2, <2>3 DEF DueServed
<1> QED BY <1>6, <1>7, <1>8, <1>9 DEF MissedInv

\* The steps of the listeners change nothing of it.
LEMMA ListenerMissed ==
    ASSUME MissedInv, RoutingInv', NEW l \in Subscribers, ListenerRuns(l) \/ ListenerStops(l)
    PROVE  MissedInv'
<1>1. UNCHANGED <<topics, routeVars, log, subPc, pubVars>>
  BY DEF ListenerRuns, ListenerFindSubscription, ListenerFindChannel, ListenerTake, ListenerPush,
     ListenerStops, ListenerPushFails, ListenerPushUnanswered, channelVars, subVars
<1> QED BY <1>1 DEF MissedInv, StayersStored, DueStay, RoutingKeyThere, DueServed, StillToServe,
                    InLog, routeVars, pubVars

\* An advertised path is a node of the tree, the root being one always.
LEMMA AdvertisedThere ==
    ASSUME NEW tree, NEW path \in Seq(STRING)
    PROVE  path \in AddTopicNodes(tree, path) \cup {Root}
<1>1. CASE Len(path) = 0
  <2>1. path = << >> BY <1>1
  <2> QED BY <2>1 DEF Root
<1>2. CASE Len(path) # 0
  <2>1. Len(path) \in 1 .. Len(path) BY <1>2
  <2>2. path = SubSeq(path, 1, Len(path)) OBVIOUS
  <2> QED BY <2>1, <2>2 DEF AddTopicNodes, Prefixes
<1> QED BY <1>1, <1>2

\* A publication comes in: every queue has still to be looked at.
LEMMA AdvertiseMissed ==
    ASSUME MissedInv, RoutingInv', NEW p \in Publishers, Advertise(p)
    PROVE  MissedInv'
<1> USE BrokerAssumption
<1>1. /\ pubPc \in [Publishers -> {"idle", "routing", "adding", "writing"}]
      /\ current \in [Publishers -> Message \cup {NoMessage(r) : r \in Publishers}]
      /\ unseen \in [Publishers -> SUBSET QueueNames]
      /\ due \in [Publishers -> SUBSET Subscribers]
  BY DEF MissedInv, RoutingInv, TypeInv, TypeOK
<1>2. StayersStored /\ DueStay /\ RoutingKeyThere /\ DueServed
  BY DEF MissedInv
<1>3. UNCHANGED <<subs, queues, subPc, log, matched, target>>
  BY DEF Advertise, routeVars, subVars, channelVars
<1>4. PICK m \in Publications :
         /\ current' = [current EXCEPT ![p] =
               [from |-> p, nr |-> @.nr + 1, key |-> m.key, contract |-> m.contract]]
         /\ topics' = AddTopicNodes(topics, m.key)
  BY DEF Advertise
<1>5. /\ pubPc'[p] = "routing"
      /\ current'[p].key = m.key
      /\ unseen'[p] = QueueNames
      /\ due'[p] = {s \in Subscribers \ Leaving : subPc[s] = "ready"}
      /\ \A r \in Publishers \ {p} : /\ current'[r] = current[r]
                                     /\ pubPc'[r] = pubPc[r]
                                     /\ unseen'[r] = unseen[r]
                                     /\ due'[r] = due[r]
  BY <1>1, <1>4 DEF Advertise, Go
<1>6. StayersStored' BY <1>2, <1>3 DEF StayersStored
<1>7. DueStay'
  <2> SUFFICES ASSUME NEW r \in Publishers, NEW s \in due'[r]
               PROVE  s \in Subscribers \ Leaving /\ subPc[s] = "ready"
    BY <1>3 DEF DueStay
  <2>1. CASE r = p BY <1>5, <2>1
  <2>2. CASE r # p BY <1>2, <1>5, <2>2 DEF DueStay
  <2> QED BY <2>1, <2>2
<1>8. RoutingKeyThere'
  <2>1. m.key \in Seq(STRING) OBVIOUS
  <2>2. m.key \in topics' \cup {Root} BY <1>4, <2>1, AdvertisedThere
  <2>3. topics \subseteq topics' BY <1>4 DEF AddTopicNodes
  <2> QED BY <1>2, <1>5, <2>2, <2>3 DEF RoutingKeyThere
<1>9. DueServed'
  <2> SUFFICES ASSUME NEW r \in Publishers, NEW s \in due'[r], subs[QueueOf[s]] = s,
                      Wanted(s, current'[r])
               PROVE  StillToServe(r, QueueOf[s])' \/ InLog(current'[r], queues[QueueOf[s]])
    BY <1>3 DEF DueServed, InLog
  <2>1. CASE r = p
    <3>1. QueueOf[s] \in unseen'[p] BY <1>5, <2>1
    <3> QED BY <2>1, <3>1 DEF StillToServe
  <2>2. CASE r # p
    <3>1. StillToServe(r, QueueOf[s]) \/ InLog(current[r], queues[QueueOf[s]])
      BY <1>2, <1>5, <2>2 DEF DueServed
    <3> QED BY <1>3, <1>5, <2>2, <3>1 DEF StillToServe
  <2> QED BY <2>1, <2>2
<1> QED BY <1>6, <1>7, <1>8, <1>9 DEF MissedInv

\* The steps that serve the queues: whom one of them stops serving did not wait
\* for the publication, or has it.
LEMMA RouteMissed ==
    ASSUME MissedInv, RoutingInv', NEW p \in Publishers, Route(p)
    PROVE  MissedInv'
<1> USE BrokerAssumption
<1>1. /\ pubPc \in [Publishers -> {"idle", "routing", "adding", "writing"}]
      /\ unseen \in [Publishers -> SUBSET QueueNames]
      /\ matched \in [Publishers -> SUBSET QueueNames]
      /\ target \in [Publishers -> QueueNames \cup {None}]
      /\ current \in [Publishers -> Message \cup {NoMessage(r) : r \in Publishers}]
      /\ queues \in [QueueNames -> Subscribers \cup {None}]
      /\ log \in [Subscribers -> Seq(Message)]
  BY DEF MissedInv, RoutingInv, TypeInv, TypeOK
<1>2. StayersStored /\ DueStay /\ RoutingKeyThere /\ DueServed
  BY DEF MissedInv
<1>3. UNCHANGED <<topics, subs, queues, subPc, current, due>>
  BY DEF Route, GetQueue, CheckContract, Write, Finish, routeVars, subVars
<1>4. \A r \in Publishers \ {p} : /\ pubPc'[r] = pubPc[r]
                                  /\ unseen'[r] = unseen[r]
                                  /\ matched'[r] = matched[r]
                                  /\ target'[r] = target[r]
  BY <1>1 DEF Route, GetQueue, CheckContract, Write, Finish, Go
<1>5. StayersStored' /\ DueStay'
  BY <1>2, <1>3 DEF StayersStored, DueStay
<1>6. RoutingKeyThere'
  <2>1. pubPc'[p] # "routing" => unseen'[p] = {}
    BY <1>1, <1>2 DEF Route, GetQueue, CheckContract, Write, Finish, Go, RoutingKeyThere
  <2>2. pubPc'[p] = "routing" => pubPc[p] = "routing"
    BY <1>1 DEF Route, GetQueue, CheckContract, Write, Finish, Go
  <2> QED BY <1>2, <1>3, <1>4, <2>1, <2>2 DEF RoutingKeyThere
<1>7. \A y \in Subscribers : \A i \in 1 .. Len(log[y]) :
         i \in 1 .. Len(log'[y]) /\ log'[y][i] = log[y][i]
  <2>1. CASE UNCHANGED log BY <2>1
  <2>2. CASE /\ pubPc[p] = "writing"
             /\ log' = [log EXCEPT ![queues[target[p]]] = Append(@, current[p])]
    <3>1. current[p] \in Message BY <2>2 DEF MissedInv, RoutingInv, TypeInv, UnderWay
    <3> QED BY <1>1, <2>2, <3>1, AppendAt
  <2> QED BY <2>1, <2>2 DEF Route, GetQueue, CheckContract, Write, Finish, Go, channelVars
<1>8. ASSUME NEW s \in due[p], subs[QueueOf[s]] = s, Wanted(s, current[p]),
             StillToServe(p, QueueOf[s])
      PROVE  StillToServe(p, QueueOf[s])' \/ InLog(current[p], queues[QueueOf[s]])'
  <2>1. /\ s \in Subscribers /\ s # None
        /\ queues[QueueOf[s]] \in Subscribers
    BY <1>1, <1>2 DEF DueStay, StayersStored
  <2>2. ASSUME NEW q \in QueueNames, GetQueue(p, q) PROVE StillToServe(p, QueueOf[s])'
    <3>1. Routed(p, QueueOf[s])
      BY <1>2, <1>8, <2>1, <2>2
      DEF Routed, GetQueue, Go, GetTopicNodes, Wanted, RoutingKeyThere
    <3>2. /\ unseen'[p] = unseen[p] \ {q}
          /\ matched'[p] = IF Routed(p, q) THEN matched[p] \cup {q} ELSE matched[p]
          /\ pubPc[p] = "routing"
      BY <1>1, <2>2 DEF GetQueue, Go
    <3> QED BY <1>8, <3>1, <3>2 DEF StillToServe
  <2>3. ASSUME NEW q \in QueueNames, CheckContract(p, q) PROVE StillToServe(p, QueueOf[s])'
    <3>1. Accepted(p, QueueOf[s])
      BY <1>8, <2>1 DEF Accepted, Wanted
    <3>2. /\ unseen'[p] = unseen[p]
          /\ matched'[p] = matched[p] \ {q}
          /\ pubPc[p] = "adding"
          /\ Accepted(p, q) => pubPc'[p] = "writing" /\ target'[p] = q
      BY <1>1, <2>3 DEF CheckContract, Go
    <3> QED BY <1>8, <3>1, <3>2 DEF StillToServe
  <2>4. CASE Write(p)
    <3>1. /\ UNCHANGED <<unseen, matched>> /\ pubPc[p] = "writing"
          /\ log' = IF queues[target[p]] = None THEN log
                    ELSE [log EXCEPT ![queues[target[p]]] = Append(@, current[p])]
      BY <2>4 DEF Write, Go
    <3>2. CASE QueueOf[s] = target[p]
      <4> DEFINE c == queues[QueueOf[s]]
      <4>1. c # None /\ log' = [log EXCEPT ![c] = Append(log[c], current[p])]
        BY <2>1, <3>1, <3>2
      <4>2. current[p] \in Message BY <3>1 DEF MissedInv, RoutingInv, TypeInv, UnderWay
      <4>3. log'[c] = Append(log[c], current[p]) /\ log[c] \in Seq(Message)
        BY <1>1, <2>1, <4>1
      <4>4. Len(log[c]) + 1 \in 1 .. Len(log'[c]) /\ log'[c][Len(log[c]) + 1] = current[p]
        <5> HIDE DEF c
        <5> QED BY <4>2, <4>3
      <4> QED BY <1>3, <4>4 DEF InLog
    <3>3. CASE QueueOf[s] # target[p]
      BY <1>8, <3>1, <3>3 DEF StillToServe
    <3> QED BY <3>2, <3>3
  <2>5. CASE Finish(p)
    <3>1. UNCHANGED <<unseen, matched>> /\ pubPc[p] = "adding"
      BY <2>5 DEF Finish, Go
    <3> QED BY <1>8, <3>1 DEF StillToServe
  <2> QED BY <2>2, <2>3, <2>4, <2>5 DEF Route
<1>9. DueServed'
  <2> SUFFICES ASSUME NEW r \in Publishers, NEW s \in due[r], subs[QueueOf[s]] = s,
                      Wanted(s, current[r])
               PROVE  StillToServe(r, QueueOf[s])' \/ InLog(current[r], queues[QueueOf[s]])'
    BY <1>3 DEF DueServed, InLog
  <2>1. queues[QueueOf[s]] \in Subscribers
    BY <1>1, <1>2 DEF DueStay, StayersStored
  <2>2. StillToServe(r, QueueOf[s]) \/ InLog(current[r], queues[QueueOf[s]])
    BY <1>2 DEF DueServed
  <2>3. CASE InLog(current[r], queues[QueueOf[s]])
    <3>1. PICK i \in 1 .. Len(log[queues[QueueOf[s]]]) : log[queues[QueueOf[s]]][i] = current[r]
      BY <2>3 DEF InLog
    <3>2. /\ i \in 1 .. Len(log'[queues[QueueOf[s]]])
          /\ log'[queues[QueueOf[s]]][i] = current[r]
      BY <1>7, <2>1, <3>1
    <3> QED BY <1>3, <3>2 DEF InLog
  <2>4. CASE r # p /\ StillToServe(r, QueueOf[s])
    BY <1>4, <2>4 DEF StillToServe
  <2>5. CASE r = p /\ StillToServe(r, QueueOf[s])
    BY <1>8, <2>5
  <2> QED BY <2>2, <2>3, <2>4, <2>5
<1> QED BY <1>5, <1>6, <1>9 DEF MissedInv

\* No subscriber that has subscribed, and stays, is left out of a publication it
\* wants, whatever comes in meanwhile: the publisher is acknowledged only when
\* it is in the channel.  Topics are not unadvertised, and the subscribers of a
\* shared name do not unsubscribe; no controller lets a client do either.
THEOREM NoneMissed ==
    ASSUME NamesKept, Retracted = {}
    PROVE  Spec => []NoMissedSubscriber
<1>1. MissedInv /\ [Next]_vars => MissedInv'
  <2> SUFFICES ASSUME MissedInv, [Next]_vars PROVE MissedInv'
    OBVIOUS
  <2>1. RoutingInv' BY NextRoutingInv DEF MissedInv
  <2>2. CASE UNCHANGED vars
    BY <2>1, <2>2 DEF MissedInv, StayersStored, DueStay, RoutingKeyThere, DueServed, StillToServe,
       InLog, vars, routeVars, channelVars, subVars, pubVars
  <2> QED BY <2>1, <2>2, SubscribeMissed, ListenerMissed, AdvertiseMissed, RouteMissed DEF Next
<1> QED BY InitMissedInv, MissedInvSuffices, <1>1, PTL DEF Spec

-----------------------------------------------------------------------------
(* No listener ends early.                                                 *)

\* A subscriber that has been through AddSubscription finds a subscription
\* under its name, one that has been through AddQueue a channel; none leaves.
EntriesThere ==
    \A s \in Subscribers :
        /\ subPc[s] # "new" => subs[QueueOf[s]] # None
        /\ subPc[s] \notin {"new", "addQueue"} => queues[QueueOf[s]] # None
        /\ subPc[s] \notin {"removeQueue", "left"}

\* A listener is started last, and knows its subscriber before it ends.
ListenersLast ==
    \A l \in Subscribers :
        /\ lsnPc[l] # "none" => subPc[l] = "ready"
        /\ lsnPc[l] \in {"subscribed", "reading", "pushing", "ended"} => endpoint[l] # None

ListenerInv ==
    /\ TypeInv
    /\ EntriesThere
    /\ ListenersLast
    /\ ListenerEndsWithSubscriber

LEMMA InitListenerInv == Init => ListenerInv
<1> SUFFICES ASSUME Init PROVE ListenerInv
  OBVIOUS
<1>1. EntriesThere BY BrokerAssumption DEF Init, EntriesThere
<1>2. ListenersLast /\ ListenerEndsWithSubscriber
  BY DEF Init, ListenersLast, ListenerEndsWithSubscriber
<1> QED BY <1>1, <1>2, InitTypeInv DEF ListenerInv

LEMMA SubscribeListenerInv ==
    ASSUME Leaving = {}, ListenerInv, TypeInv', NEW s \in Subscribers,
           Subscribe(s) \/ Unsubscribe(s) \/ Disconnect(s)
    PROVE  ListenerInv'
<1> USE BrokerAssumption
<1>1. /\ subs \in [QueueNames -> Subscribers \cup {None}]
      /\ queues \in [QueueNames -> Subscribers \cup {None}]
      /\ subPc \in [Subscribers ->
                      {"new", "addQueue", "assign", "start", "ready", "removeQueue", "left"}]
      /\ lsnPc \in [Subscribers ->
                      {"none", "started", "subscribed", "reading", "pushing", "waiting", "ended"}]
      /\ QueueOf \in [Subscribers -> QueueNames]
      /\ None \notin Subscribers
  BY DEF ListenerInv, TypeInv, TypeOK
<1>2. EntriesThere /\ ListenersLast /\ ListenerEndsWithSubscriber
  BY DEF ListenerInv
<1>3. ~ RemoveSubscription(s) /\ ~ RemoveQueue(s)
  BY <1>2 DEF RemoveSubscription, RemoveQueue, Become, EntriesThere
<1>4. /\ UNCHANGED endpoint
      /\ connected' \subseteq connected
      /\ \A l \in Subscribers :
            /\ l # s => subPc'[l] = subPc[l] /\ lsnPc'[l] = lsnPc[l]
            /\ lsnPc'[l] # lsnPc[l] => lsnPc'[l] = "started"
      /\ \A q \in QueueNames :
            /\ subs[q] # None => subs'[q] # None
            /\ queues[q] # None => queues'[q] # None
      /\ lsnPc'[s] # "none" => subPc'[s] = "ready"
      /\ subPc'[s] \notin {"removeQueue", "left"}
      /\ subPc'[s] # "new" => subs'[QueueOf[s]] # None
      /\ subPc'[s] \notin {"new", "addQueue"} => queues'[QueueOf[s]] # None
  <2> USE <1>1, <1>2 DEF Become, TryAdd, EntriesThere, ListenersLast
  <2>1. CASE AddSubscription(s) BY <2>1 DEF AddSubscription, lsnVars
  <2>2. CASE AddQueue(s) BY <2>2 DEF AddQueue, lsnVars
  <2>3. CASE FindBroker(s) BY <2>3 DEF FindBroker, lsnVars, routeVars
  <2>4. CASE StartBroker(s) BY <2>4 DEF StartBroker
  <2>5. CASE Disconnect(s) BY <2>5 DEF Disconnect, lsnVars, routeVars
  <2> QED BY <1>3, <2>1, <2>2, <2>3, <2>4, <2>5 DEF Subscribe, Unsubscribe
<1>5. EntriesThere' BY <1>1, <1>2, <1>4 DEF EntriesThere
<1>6. ListenersLast' BY <1>1, <1>2, <1>4 DEF ListenersLast
<1>7. ListenerEndsWithSubscriber' BY <1>1, <1>2, <1>4 DEF ListenerEndsWithSubscriber
<1> QED BY <1>5, <1>6, <1>7 DEF ListenerInv

LEMMA RunListenerInv ==
    ASSUME ListenerInv, TypeInv', NEW l \in Subscribers, ListenerRuns(l) \/ ListenerStops(l)
    PROVE  ListenerInv'
<1> USE BrokerAssumption
<1>1. /\ subs \in [QueueNames -> Subscribers \cup {None}]
      /\ queues \in [QueueNames -> Subscribers \cup {None}]
      /\ endpoint \in [Subscribers -> Subscribers \cup {None}]
      /\ source \in [Subscribers -> Subscribers \cup {None}]
      /\ lsnPc \in [Subscribers ->
                      {"none", "started", "subscribed", "reading", "pushing", "waiting", "ended"}]
      /\ QueueOf \in [Subscribers -> QueueNames]
      /\ None \notin Subscribers
  BY DEF ListenerInv, TypeInv, TypeOK
<1>2. EntriesThere /\ ListenersLast /\ ListenerEndsWithSubscriber
  BY DEF ListenerInv
<1>3. UNCHANGED <<subPc, subs, queues, connected>>
  BY DEF ListenerRuns, ListenerFindSubscription, ListenerFindChannel, ListenerTake, ListenerPush,
     ListenerStops, ListenerPushFails, ListenerPushUnanswered, routeVars, subVars
<1>4. /\ \A k \in Subscribers \ {l} : lsnPc'[k] = lsnPc[k] /\ endpoint'[k] = endpoint[k]
      /\ lsnPc[l] # "none"
      /\ endpoint'[l] # None
      /\ lsnPc'[l] = "ended" => endpoint'[l] \in Subscribers \ connected
  <2>1. CASE ListenerFindSubscription(l)
    <3>1. lsnPc[l] = "started" /\ subs[QueueOf[l]] # None
      BY <1>1, <1>2, <2>1 DEF ListenerFindSubscription, Turn, EntriesThere, ListenersLast
    <3> QED BY <1>1, <2>1, <3>1 DEF ListenerFindSubscription, Turn
  <2>2. CASE ListenerFindChannel(l)
    <3>1. lsnPc[l] = "subscribed" /\ queues[QueueOf[l]] # None /\ endpoint[l] # None
      BY <1>1, <1>2, <2>2 DEF ListenerFindChannel, Turn, EntriesThere, ListenersLast
    <3> QED BY <1>1, <2>2, <3>1 DEF ListenerFindChannel, Turn
  <2>3. CASE ListenerTake(l) \/ ListenerPush(l) \/ ListenerStops(l)
    <3>1. UNCHANGED endpoint
      BY <2>3 DEF ListenerTake, ListenerPush, ListenerStops, ListenerPushFails,
         ListenerPushUnanswered
    <3>2. /\ lsnPc[l] \in {"reading", "pushing"}
          /\ \E to : lsnPc' = [lsnPc EXCEPT ![l] = to]
          /\ lsnPc'[l] = "ended" => endpoint[l] \notin connected
      BY <1>1, <2>3 DEF ListenerTake, ListenerPush, ListenerStops, ListenerPushFails,
         ListenerPushUnanswered, Turn
    <3> QED BY <1>1, <1>2, <3>1, <3>2 DEF ListenersLast
  <2> QED BY <2>1, <2>2, <2>3 DEF ListenerRuns
<1>5. EntriesThere' BY <1>2, <1>3 DEF EntriesThere
<1>6. ListenersLast' BY <1>2, <1>3, <1>4 DEF ListenersLast
<1>7. ListenerEndsWithSubscriber' BY <1>2, <1>3, <1>4 DEF ListenerEndsWithSubscriber
<1> QED BY <1>5, <1>6, <1>7 DEF ListenerInv

LEMMA NextListenerInv ==
    ASSUME Leaving = {}
    PROVE  ListenerInv /\ [Next]_vars => ListenerInv'
<1> SUFFICES ASSUME ListenerInv, [Next]_vars PROVE ListenerInv'
  OBVIOUS
<1>1. TypeInv' BY NextTypeInv DEF ListenerInv
<1>2. CASE UNCHANGED <<subs, queues, subPc, lsnPc, endpoint, connected>>
  BY <1>1, <1>2 DEF ListenerInv, EntriesThere, ListenersLast, ListenerEndsWithSubscriber
<1>3. ASSUME NEW p \in Publishers, Advertise(p) \/ Route(p)
      PROVE  UNCHANGED <<subs, queues, subPc, lsnPc, endpoint, connected>>
  BY <1>3 DEF Advertise, Route, GetQueue, CheckContract, Write, Finish, routeVars, subVars, lsnVars
<1>4. ASSUME NEW k \in Retracted, UnAdvertise(k)
      PROVE  UNCHANGED <<subs, queues, subPc, lsnPc, endpoint, connected>>
  BY <1>4 DEF UnAdvertise, routeVars, subVars, lsnVars
<1>5. CASE UNCHANGED vars
  BY <1>2, <1>5 DEF vars, routeVars, subVars, lsnVars
<1> QED BY <1>1, <1>2, <1>3, <1>4, <1>5, SubscribeListenerInv, RunListenerInv DEF Next

\* When nobody unsubscribes, which no controller lets a client do, a listener
\* returns for one reason only: the connection of its subscriber is gone.
THEOREM ListenersCorrect ==
    ASSUME Leaving = {}
    PROVE  Spec => []ListenerEndsWithSubscriber
<1>1. ListenerInv /\ [Next]_vars => ListenerInv'
  BY NextListenerInv
<1>2. ListenerInv => ListenerEndsWithSubscriber
  BY DEF ListenerInv
<1> QED BY InitListenerInv, <1>1, <1>2, PTL DEF Spec

-----------------------------------------------------------------------------
(* The broker implements SubscriberFeed.                                   *)

\* A listener pushes to its own subscriber what it takes from the channel of
\* its own, in the order in which it lies there.
ListenersInOrder ==
    \A l \in Subscribers :
        /\ lsnPc[l] # "none" => subPc[l] \in {"ready", "removeQueue", "left"}
        /\ lsnPc[l] \in {"subscribed", "reading", "pushing"} => endpoint[l] = l
        /\ lsnPc[l] \in {"reading", "pushing"} => source[l] = l
        /\ lsnPc[l] \in {"none", "started", "subscribed"} =>
              taken[l] = 0 /\ delivered[l] = << >>
        /\ lsnPc[l] = "reading" => taken[l] = Len(delivered[l])
        /\ lsnPc[l] = "pushing" => hand[l] = taken[l] /\ taken[l] = Len(delivered[l]) + 1

\* What GetQueues has still to look at, what it has found and the queue that is
\* being written to are apart from one another.
QueuesApart ==
    \A p \in Publishers :
        /\ current[p].from = p
        /\ pubPc[p] # "routing" => unseen[p] = {}
        /\ unseen[p] \cap matched[p] = {}
        /\ pubPc[p] = "writing" => target[p] \notin matched[p]

\* The queue name q may still get the publication that p has last sent.
Pending(p, q) ==
    \/ q \in unseen[p] \cup matched[p]
    \/ pubPc[p] = "writing" /\ q = target[p]

\* A channel holds nothing later than its publisher's last publication, and not
\* that one either while the queue may still get it.
LogInOrder ==
    \A c \in Subscribers : \A i \in 1 .. Len(log[c]) : \A p \in Publishers :
        log[c][i].from = p =>
            /\ log[c][i].nr <= current[p].nr
            /\ Pending(p, QueueOf[c]) => log[c][i].nr < current[p].nr

FeedInv ==
    /\ RoutingInv
    /\ ListenersInOrder
    /\ QueuesApart
    /\ LogInOrder

LEMMA InitFeedInv == Init => FeedInv
<1> SUFFICES ASSUME Init PROVE FeedInv
  OBVIOUS
<1>1. ListenersInOrder BY DEF Init, ListenersInOrder
<1>2. QueuesApart BY DEF Init, QueuesApart, NoMessage
<1>3. LogInOrder BY DEF Init, LogInOrder
<1> QED BY <1>1, <1>2, <1>3, InitRoutingInv DEF FeedInv

\* With names of their own, what is stored under a subscriber's name is its own.
LEMMA OwnEntries ==
    ASSUME DistinctQueues, RoutingInv, NEW s \in Subscribers
    PROVE  /\ subs[QueueOf[s]] \in {s, None}
           /\ queues[QueueOf[s]] \in {s, None}
<1>1. /\ subs \in [QueueNames -> Subscribers \cup {None}]
      /\ queues \in [QueueNames -> Subscribers \cup {None}]
      /\ QueueOf \in [Subscribers -> QueueNames]
  BY BrokerAssumption DEF RoutingInv, TypeInv, TypeOK
<1> QED BY <1>1 DEF RoutingInv, SubscriptionsOwn, ChannelsOwn, Served, DistinctQueues

LEMMA SubscribeInOrder ==
    ASSUME FeedInv, NEW s \in Subscribers, Subscribe(s) \/ Unsubscribe(s) \/ Disconnect(s)
    PROVE  ListenersInOrder' /\ UNCHANGED <<log, delivered, pubVars>>
<1>1. /\ subPc \in [Subscribers ->
                      {"new", "addQueue", "assign", "start", "ready", "removeQueue", "left"}]
      /\ lsnPc \in [Subscribers ->
                      {"none", "started", "subscribed", "reading", "pushing", "waiting", "ended"}]
  BY DEF FeedInv, RoutingInv, TypeInv, TypeOK
<1>2. UNCHANGED <<log, taken, delivered, endpoint, source, hand, pubVars>>
  BY DEF Subscribe, Unsubscribe, Disconnect, AddSubscription, AddQueue, FindBroker, StartBroker,
     RemoveSubscription, RemoveQueue, lsnVars, channelVars
<1>3. \/ UNCHANGED lsnPc
      \/ lsnPc' = [lsnPc EXCEPT ![s] = "started"] /\ subPc[s] = "start"
  BY DEF Subscribe, Unsubscribe, Disconnect, AddSubscription, AddQueue, FindBroker, StartBroker,
     RemoveSubscription, RemoveQueue, lsnVars, Become
<1>4. /\ \A l \in Subscribers \ {s} : subPc'[l] = subPc[l]
      /\ subPc[s] \in {"ready", "removeQueue", "left"} =>
            subPc'[s] \in {"ready", "removeQueue", "left"}
      /\ subPc[s] = "start" => subPc'[s] \in {"start", "ready"}
      /\ lsnPc'[s] = "started" /\ lsnPc[s] # "started" => subPc'[s] = "ready"
  BY <1>1 DEF Subscribe, Unsubscribe, Disconnect, AddSubscription, AddQueue, FindBroker,
     StartBroker, RemoveSubscription, RemoveQueue, lsnVars, Become
<1>5. ListenersInOrder BY DEF FeedInv
<1> QED BY <1>1, <1>2, <1>3, <1>4, <1>5 DEF ListenersInOrder

LEMMA ListenerInOrder ==
    ASSUME DistinctQueues, FeedInv, NEW l \in Subscribers,
           ListenerRuns(l) \/ ListenerStops(l)
    PROVE  /\ ListenersInOrder'
           /\ UNCHANGED <<log, pubVars>>
           /\ UNCHANGED delivered \/ Feed!Deliver(l)
<1>1. /\ lsnPc \in [Subscribers ->
                      {"none", "started", "subscribed", "reading", "pushing", "waiting", "ended"}]
      /\ endpoint \in [Subscribers -> Subscribers \cup {None}]
      /\ source \in [Subscribers -> Subscribers \cup {None}]
      /\ taken \in [Subscribers -> Nat]
      /\ hand \in [Subscribers -> Nat]
      /\ log \in [Subscribers -> Seq(Message)]
      /\ delivered \in [Subscribers -> Seq(Message)]
  BY DEF FeedInv, RoutingInv, TypeInv, TypeOK
<1>2. ListenersInOrder BY DEF FeedInv
<1>3. UNCHANGED <<log, pubVars, subPc>>
  BY DEF ListenerRuns, ListenerFindSubscription, ListenerFindChannel, ListenerTake, ListenerPush,
     ListenerStops, ListenerPushFails, ListenerPushUnanswered, channelVars, subVars
<1>4. CASE ListenerFindSubscription(l)
  <2>1. UNCHANGED <<taken, delivered, source, hand>> /\ lsnPc[l] = "started"
    BY <1>4 DEF ListenerFindSubscription, Turn, channelVars
  <2>2. /\ lsnPc'[l] \in {"subscribed", "ended"}
        /\ lsnPc'[l] = "subscribed" => endpoint'[l] = l
        /\ \A k \in Subscribers \ {l} : lsnPc'[k] = lsnPc[k] /\ endpoint'[k] = endpoint[k]
    <3>1. subs[QueueOf[l]] \in {l, None} BY OwnEntries DEF FeedInv
    <3> QED BY <1>1, <1>4, <3>1 DEF ListenerFindSubscription, Turn
  <2> QED BY <1>1, <1>2, <1>3, <2>1, <2>2 DEF ListenersInOrder
<1>5. CASE ListenerFindChannel(l)
  <2>1. UNCHANGED <<taken, delivered, endpoint, hand>> /\ lsnPc[l] = "subscribed"
    BY <1>5 DEF ListenerFindChannel, Turn, channelVars
  <2>2. /\ lsnPc'[l] \in {"reading", "ended"}
        /\ lsnPc'[l] = "reading" => source'[l] = l
        /\ \A k \in Subscribers \ {l} : lsnPc'[k] = lsnPc[k] /\ source'[k] = source[k]
    <3>1. queues[QueueOf[l]] \in {l, None} BY OwnEntries DEF FeedInv
    <3> QED BY <1>1, <1>5, <3>1 DEF ListenerFindChannel, Turn
  <2>3. taken[l] = 0 /\ delivered[l] = << >> /\ endpoint[l] = l /\ Len(delivered[l]) = 0
    <3>1. taken[l] = 0 /\ delivered[l] = << >> /\ endpoint[l] = l
      BY <1>2, <2>1 DEF ListenersInOrder
    <3> QED BY <3>1
  <2> QED BY <1>1, <1>2, <1>3, <2>1, <2>2, <2>3 DEF ListenersInOrder
<1>6. CASE ListenerTake(l)
  <2>1. /\ UNCHANGED <<delivered, endpoint, source>>
        /\ lsnPc[l] = "reading" /\ lsnPc' = [lsnPc EXCEPT ![l] = "pushing"]
    BY <1>6 DEF ListenerTake, Turn
  <2>2. source[l] = l /\ endpoint[l] = l /\ taken[l] = Len(delivered[l])
    BY <1>2, <2>1 DEF ListenersInOrder
  <2>3. /\ taken' = [taken EXCEPT ![l] = taken[l] + 1]
        /\ hand' = [hand EXCEPT ![l] = taken[l] + 1]
    BY <1>1, <1>6, <2>2 DEF ListenerTake
  <2> QED BY <1>1, <1>2, <1>3, <2>1, <2>2, <2>3 DEF ListenersInOrder
<1>7. CASE ListenerPush(l) \/ ListenerStops(l)
  <2>1. /\ UNCHANGED <<endpoint, source, taken, hand>>
        /\ lsnPc[l] = "pushing"
        /\ ListenerPush(l) => lsnPc' = [lsnPc EXCEPT ![l] = "reading"]
        /\ ListenerStops(l) => \E to \in {"waiting", "ended"} : lsnPc' = [lsnPc EXCEPT ![l] = to]
    BY <1>7 DEF ListenerPush, ListenerStops, ListenerPushFails, ListenerPushUnanswered, Turn,
       channelVars
  <2>2. /\ source[l] = l /\ endpoint[l] = l
        /\ hand[l] = taken[l] /\ taken[l] = Len(delivered[l]) + 1
    BY <1>2, <2>1 DEF ListenersInOrder
  <2>3. hand[l] \in 1 .. Len(log[l])
    BY <2>1, <2>2 DEF FeedInv, RoutingInv, TypeInv, UnderWay
  <2>4. ASSUME Deliver(l)
        PROVE  /\ Feed!Deliver(l)
               /\ Len(delivered'[l]) = Len(delivered[l]) + 1
               /\ \A k \in Subscribers \ {l} : delivered'[k] = delivered[k]
    <3>1. delivered' = [delivered EXCEPT ![l] = Append(delivered[l], log[l][Len(delivered[l]) + 1])]
      BY <2>2, <2>4 DEF Deliver, InHand
    <3>2. log[l][Len(delivered[l]) + 1] \in Message
      BY <1>1, <2>2, <2>3
    <3>3. Len(delivered[l]) < Len(log[l])
      BY <1>1, <2>2, <2>3
    <3>4. Feed!Deliver(l)
      BY <1>3, <3>1, <3>3 DEF Feed!Deliver
    <3> QED BY <1>1, <3>1, <3>2, <3>4
  <2>5. CASE ListenerPush(l)
    <3>1. Deliver(l) BY <2>5 DEF ListenerPush
    <3>2. ListenersInOrder'
      BY <1>1, <1>2, <1>3, <2>1, <2>2, <2>4, <2>5, <3>1 DEF ListenersInOrder
    <3> QED BY <1>3, <2>4, <3>1, <3>2
  <2>6. CASE ListenerStops(l)
    <3>1. Deliver(l) \/ UNCHANGED delivered
      BY <2>6 DEF ListenerStops, ListenerPushFails, ListenerPushUnanswered
    <3>2. \A k \in Subscribers \ {l} : delivered'[k] = delivered[k]
      BY <2>4, <3>1
    <3>3. ListenersInOrder'
      BY <1>1, <1>2, <1>3, <2>1, <2>2, <2>6, <3>2 DEF ListenersInOrder
    <3> QED BY <1>3, <2>4, <3>1, <3>3
  <2> QED BY <1>7, <2>5, <2>6
<1> QED BY <1>3, <1>4, <1>5, <1>6, <1>7
        DEF ListenerRuns, ListenerFindSubscription, ListenerFindChannel, ListenerTake

\* A publication comes in: it is later than whatever is in the channels.
LEMMA AdvertiseInOrder ==
    ASSUME FeedInv, NEW p \in Publishers, Advertise(p)
    PROVE  QueuesApart' /\ LogInOrder'
<1>1. /\ pubPc \in [Publishers -> {"idle", "routing", "adding", "writing"}]
      /\ current \in [Publishers -> Message \cup {NoMessage(r) : r \in Publishers}]
      /\ unseen \in [Publishers -> SUBSET QueueNames]
      /\ log \in [Subscribers -> Seq(Message)]
  BY DEF FeedInv, RoutingInv, TypeInv, TypeOK
<1>2. QueuesApart /\ LogInOrder /\ matched[p] = {}
  BY DEF FeedInv, RoutingInv, MatchedWanted, Advertise, Go
<1>3. UNCHANGED <<log, matched, target>>
  BY DEF Advertise, channelVars
<1>4. /\ current'[p].from = p
      /\ current'[p].nr = current[p].nr + 1
      /\ pubPc'[p] = "routing"
      /\ \A r \in Publishers \ {p} : /\ current'[r] = current[r]
                                     /\ pubPc'[r] = pubPc[r]
                                     /\ unseen'[r] = unseen[r]
  BY <1>1 DEF Advertise, Go
<1>5. QueuesApart'
  BY <1>2, <1>3, <1>4 DEF QueuesApart
<1>6. LogInOrder'
  <2> SUFFICES ASSUME NEW c \in Subscribers, NEW i \in 1 .. Len(log[c]), NEW r \in Publishers,
                      log[c][i].from = r
               PROVE  /\ log[c][i].nr <= current'[r].nr
                      /\ Pending(r, QueueOf[c])' => log[c][i].nr < current'[r].nr
    BY <1>3 DEF LogInOrder
  <2>1. /\ log[c][i].nr <= current[r].nr
        /\ Pending(r, QueueOf[c]) => log[c][i].nr < current[r].nr
    BY <1>2 DEF LogInOrder
  <2>2. log[c][i].nr \in Nat /\ current[r].nr \in Nat
    BY <1>1, MessageNumber
  <2>3. CASE r = p
    BY <1>4, <2>1, <2>2, <2>3
  <2>4. CASE r # p
    BY <1>3, <1>4, <2>1, <2>4 DEF Pending
  <2> QED BY <2>3, <2>4
<1> QED BY <1>5, <1>6

\* The steps of a publisher that write nothing: no queue becomes pending.
LEMMA RouteInOrder ==
    ASSUME FeedInv, NEW p \in Publishers,
           Finish(p) \/ \E q \in QueueNames : GetQueue(p, q) \/ CheckContract(p, q)
    PROVE  QueuesApart' /\ LogInOrder' /\ UNCHANGED log
<1>1. /\ pubPc \in [Publishers -> {"idle", "routing", "adding", "writing"}]
      /\ unseen \in [Publishers -> SUBSET QueueNames]
      /\ matched \in [Publishers -> SUBSET QueueNames]
      /\ target \in [Publishers -> QueueNames \cup {None}]
  BY DEF FeedInv, RoutingInv, TypeInv, TypeOK
<1>2. QueuesApart /\ LogInOrder
  BY DEF FeedInv
<1>3. UNCHANGED <<log, current>>
  BY DEF Finish, GetQueue, CheckContract, channelVars
<1>4. \A r \in Publishers \ {p} : /\ pubPc'[r] = pubPc[r]
                                  /\ unseen'[r] = unseen[r]
                                  /\ matched'[r] = matched[r]
                                  /\ target'[r] = target[r]
  BY <1>1 DEF Finish, GetQueue, CheckContract, Go
<1> DEFINE Apart == /\ pubPc'[p] # "routing" => unseen'[p] = {}
                    /\ unseen'[p] \cap matched'[p] = {}
                    /\ pubPc'[p] = "writing" => target'[p] \notin matched'[p]
                    /\ \A q : Pending(p, q)' => Pending(p, q)
<1>5. Apart
  <2>1. ASSUME NEW q \in QueueNames, GetQueue(p, q) PROVE Apart
    <3>1. /\ unseen'[p] = unseen[p] \ {q} /\ q \in unseen[p]
          /\ matched'[p] = matched[p] \/ matched'[p] = matched[p] \cup {q}
          /\ pubPc'[p] \in {"routing", "adding"}
          /\ pubPc'[p] = "adding" => unseen[p] = {q}
      BY <1>1, <2>1 DEF GetQueue, Go
    <3> QED BY <1>2, <3>1 DEF QueuesApart, Pending
  <2>2. ASSUME NEW q \in QueueNames, CheckContract(p, q) PROVE Apart
    <3>1. /\ unseen'[p] = unseen[p] /\ q \in matched[p]
          /\ matched'[p] = matched[p] \ {q}
          /\ pubPc[p] = "adding" /\ pubPc'[p] \in {"adding", "writing"}
          /\ pubPc'[p] = "writing" => target'[p] = q
      BY <1>1, <2>2 DEF CheckContract, Go
    <3> QED BY <1>2, <3>1 DEF QueuesApart, Pending
  <2>3. ASSUME Finish(p) PROVE Apart
    <3>1. /\ UNCHANGED <<unseen, matched>> /\ pubPc[p] = "adding" /\ pubPc'[p] = "idle"
      BY <1>1, <2>3 DEF Finish, Go
    <3> QED BY <1>2, <3>1 DEF QueuesApart, Pending
  <2> QED BY <2>1, <2>2, <2>3
<1>6. QueuesApart'
  BY <1>2, <1>3, <1>4, <1>5 DEF QueuesApart
<1>7. \A r \in Publishers : \A q : Pending(r, q)' => Pending(r, q)
  BY <1>4, <1>5 DEF Pending
<1>8. LogInOrder'
  BY <1>2, <1>3, <1>7 DEF LogInOrder
<1> QED BY <1>3, <1>6, <1>8

\* A write is an Accept of the feed, or nothing when the channel is gone.
LEMMA WriteInOrder ==
    ASSUME DistinctQueues, FeedInv, NEW p \in Publishers, Write(p)
    PROVE  /\ QueuesApart' /\ LogInOrder'
           /\ UNCHANGED delivered
           /\ UNCHANGED log \/ \E c \in Subscribers : Feed!Accept(c)
<1>1. /\ pubPc \in [Publishers -> {"idle", "routing", "adding", "writing"}]
      /\ queues \in [QueueNames -> Subscribers \cup {None}]
      /\ current \in [Publishers -> Message \cup {NoMessage(r) : r \in Publishers}]
      /\ log \in [Subscribers -> Seq(Message)]
  BY DEF FeedInv, RoutingInv, TypeInv, TypeOK
<1>2. QueuesApart /\ LogInOrder
  BY DEF FeedInv
<1>3. /\ UNCHANGED <<current, unseen, matched, delivered>>
      /\ pubPc[p] = "writing" /\ pubPc'[p] = "adding"
      /\ \A r \in Publishers \ {p} : pubPc'[r] = pubPc[r] /\ target'[r] = target[r]
  <2>1. target \in [Publishers -> QueueNames \cup {None}]
    BY DEF FeedInv, RoutingInv, TypeInv, TypeOK
  <2> QED BY <1>1, <2>1 DEF Write, Go, lsnVars
<1>4. QueuesApart'
  BY <1>2, <1>3 DEF QueuesApart
<1>5. /\ \A r \in Publishers : \A q : Pending(r, q)' => Pending(r, q)
      /\ \A q : q = target[p] => ~ Pending(p, q)'
  BY <1>2, <1>3 DEF QueuesApart, Pending
<1>6. CASE UNCHANGED log
  <2>1. LogInOrder' BY <1>2, <1>3, <1>5, <1>6 DEF LogInOrder
  <2> QED BY <1>3, <1>4, <1>6, <2>1
<1>7. ASSUME NEW c, c = queues[target[p]], c # None,
             log' = [log EXCEPT ![c] = Append(@, current[p])]
      PROVE  LogInOrder' /\ \E s \in Subscribers : Feed!Accept(s)
  <2>1. /\ c \in Subscribers
        /\ QueueOf[c] = target[p]
        /\ Wanted(c, current[p])
    <3>1. /\ target[p] \in QueueNames
          /\ \E s \in Subscribers : Served(target[p], s) /\ Wanted(s, current[p])
      BY <1>3 DEF FeedInv, RoutingInv, WriteWanted
    <3>2. c \in Subscribers /\ QueueOf[c] = target[p]
      BY <1>1, <1>7, <3>1 DEF FeedInv, RoutingInv, ChannelsOwn
    <3> QED BY <3>1, <3>2 DEF Served, DistinctQueues
  <2>2. current[p] \in Message /\ current[p].from = p
    BY <1>2, <1>3 DEF FeedInv, RoutingInv, TypeInv, UnderWay, QueuesApart
  <2>3. \A i \in 1 .. Len(log[c]) :
           log[c][i].from = current[p].from => log[c][i].nr < current[p].nr
    <3>1. Pending(p, QueueOf[c]) BY <1>3, <2>1 DEF Pending
    <3> QED BY <1>2, <2>1, <2>2, <3>1 DEF LogInOrder
  <2>4. Feed!Accept(c)
    BY <1>3, <1>7, <2>1, <2>2, <2>3, Zenon DEF Feed!Accept
  <2>5. \A y \in Subscribers : \A i \in 1 .. Len(log'[y]) :
           \/ i \in 1 .. Len(log[y]) /\ log'[y][i] = log[y][i]
           \/ y = c /\ log'[y][i] = current[p]
    BY <1>1, <1>7, <2>2, AppendAt
  <2>6. LogInOrder'
    <3> SUFFICES ASSUME NEW y \in Subscribers, NEW i \in 1 .. Len(log'[y]), NEW r \in Publishers,
                        log'[y][i].from = r
                 PROVE  /\ log'[y][i].nr <= current[r].nr
                        /\ Pending(r, QueueOf[y])' => log'[y][i].nr < current[r].nr
      BY <1>3 DEF LogInOrder
    <3>1. CASE i \in 1 .. Len(log[y]) /\ log'[y][i] = log[y][i]
      BY <1>2, <1>5, <3>1 DEF LogInOrder
    <3>2. CASE y = c /\ log'[y][i] = current[p]
      <4>1. r = p BY <2>2, <3>2
      <4>2. current[p].nr \in Nat BY <1>1, MessageNumber
      <4>3. ~ Pending(r, QueueOf[y])' BY <1>5, <2>1, <3>2, <4>1
      <4> QED BY <3>2, <4>1, <4>2, <4>3
    <3> QED BY <2>5, <3>1, <3>2
  <2> QED BY <2>1, <2>4, <2>6
<1> QED BY <1>3, <1>4, <1>6, <1>7 DEF Write

LEMMA NextFeedInv ==
    ASSUME DistinctQueues
    PROVE  FeedInv /\ [Next]_vars => FeedInv' /\ [Feed!Next]_(Feed!vars)
<1> SUFFICES ASSUME FeedInv, [Next]_vars PROVE FeedInv' /\ [Feed!Next]_(Feed!vars)
  OBVIOUS
<1>1. RoutingInv'
  BY NextRoutingInv DEF FeedInv, NamesKept
<1>2. ASSUME UNCHANGED <<log, pubVars>> PROVE QueuesApart' /\ LogInOrder'
  BY <1>2 DEF FeedInv, QueuesApart, LogInOrder, Pending, pubVars
<1>3. ASSUME UNCHANGED <<subPc, lsnVars, taken>> PROVE ListenersInOrder'
  BY <1>3 DEF FeedInv, ListenersInOrder, lsnVars
<1>4. CASE UNCHANGED vars
  BY <1>1, <1>2, <1>3, <1>4 DEF FeedInv, vars, Feed!vars, channelVars, subVars, lsnVars
<1>5. ASSUME NEW s \in Subscribers, Subscribe(s) \/ Unsubscribe(s) \/ Disconnect(s)
      PROVE  FeedInv' /\ [Feed!Next]_(Feed!vars)
  BY <1>1, <1>2, <1>5, SubscribeInOrder DEF FeedInv, Feed!vars
<1>6. ASSUME NEW l \in Subscribers, ListenerRuns(l) \/ ListenerStops(l)
      PROVE  FeedInv' /\ [Feed!Next]_(Feed!vars)
  BY <1>1, <1>2, <1>6, ListenerInOrder DEF FeedInv, Feed!vars, Feed!Next
<1>7. ASSUME NEW p \in Publishers, Advertise(p) \/ Route(p)
      PROVE  FeedInv' /\ [Feed!Next]_(Feed!vars)
  <2>1. UNCHANGED <<subPc, lsnVars, taken, delivered>>
    BY <1>7 DEF Advertise, Route, GetQueue, CheckContract, Write, Finish, subVars, channelVars,
       lsnVars
  <2>2. CASE Advertise(p)
    <3>1. UNCHANGED log BY <2>2 DEF Advertise, channelVars
    <3> QED BY <1>1, <1>3, <2>1, <2>2, <3>1, AdvertiseInOrder DEF FeedInv, Feed!vars
  <2>3. CASE Write(p)
    BY <1>1, <1>3, <2>1, <2>3, WriteInOrder DEF FeedInv, Feed!vars, Feed!Next
  <2>4. CASE Finish(p) \/ \E q \in QueueNames : GetQueue(p, q) \/ CheckContract(p, q)
    BY <1>1, <1>3, <2>1, <2>4, RouteInOrder DEF FeedInv, Feed!vars
  <2> QED BY <1>7, <2>2, <2>3, <2>4 DEF Route
<1>8. ASSUME NEW k \in Retracted, UnAdvertise(k)
      PROVE  FeedInv' /\ [Feed!Next]_(Feed!vars)
  BY <1>1, <1>2, <1>3, <1>8 DEF UnAdvertise, FeedInv, Feed!vars, channelVars, subVars, lsnVars
<1> QED BY <1>4, <1>5, <1>6, <1>7, <1>8 DEF Next

\* With a queue name of its own, every subscriber gets what SubscriberFeed
\* promises, for any number of publishers and subscribers: the publications it
\* wants, each publisher's in order, without a gap, a repetition or an overtaking.
THEOREM FeedCorrect ==
    ASSUME DistinctQueues
    PROVE  Spec => ImplementsFeed
<1>1. Init => Feed!Init
  BY DEF Init, Feed!Init
<1>2. FeedInv /\ [Next]_vars => FeedInv' /\ [Feed!Next]_(Feed!vars)
  BY NextFeedInv
<1> QED BY InitFeedInv, <1>1, <1>2, PTL DEF Spec, ImplementsFeed, Feed!Spec

=============================================================================

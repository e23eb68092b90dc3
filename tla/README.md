# A verification of the LOG721 laboratories

TLA+ modules of the broker (`src/Broker`), the MapReduce nodes (`src/Node`), the
transport they share (`src/SmallTransitNuget`), the contracts
(`src/studentNumberContract`) with the scripts that use them (`src/web3*`), and the
form validation of the subscriber's web page, the TLC
configurations that check them, and theorems proved with TLAPS. Paths in this file
are relative to `src/`.

Contents: [the system](#the-system) · [modules](#modules) ·
[runs](#runs) · [fairness](#fairness) · [proofs](#proofs) ·
[what was found](#what-was-found) · [what is not modelled](#what-is-not-modelled) ·
[plan](#plan)

## The system

The repository holds three laboratories of a course on distributed systems.

| component | state it keeps | operations | talks to |
|---|---|---|---|
| **Topic tree** `Broker/Entities/TopicNode.cs`, `ConcurrentTopicNode.cs` | a tree of routing key segments, a reader-writer lock | add, remove (only a leaf, pruning upwards), look up a pattern with `*` and `#` | called by the broker from every connection |
| **Broker core** `Broker/Application`, `Broker/Controlleur` | four concurrent dictionaries (subscriptions, queues, brokers, topics), a channel per queue | subscribe, assign a broker, advertise, find the queues, add a publication, listen and push, unsubscribe, unadvertise | subscribers and publishers over SmallTransit |
| **MapReduce nodes** `Node/` | a distributed store of spaces, groups and flags (package SyncStore); an iteration counter | Input, Map, MapFinished, Shuffle, Reduce, ReduceFinished handlers | each other, by publications through the broker |
| **Contract** `studentNumberContract/contracts/BrokerPubSub.sol` | per topic: publishers, subscribers, balances, inboxes | advertise, subscribe, publish, unsubscribe | web3 clients |
| **web3 scripts** `web3/src/tache_6.js`, `web3Pub/src/pub.js`, `web3Sub/src/sub.js`, `studentNumberContract/migrations` | a number on a chain; where each script is | deploy; estimate, send, await the receipt, read back; listen to events, advertise | the chain (Ganache, external) through Web3.js |
| **Form validation** `Subscriber/Subscriber/wwwroot/lib/jquery-validation-unobtrusive` and what it drives of `jquery-validation` | rules parsed, errors found, messages shown, requests under way | parse attributes, check a field, submit, reset, take an answer of the server | the user, and a server that checks values |
| **SmallTransit** `SmallTransitNuget/` | a state machine per connection side, tunnels over TCP, a byte codec | send, subscribe, push, receive; encode and decode | broker, nodes and sample hosts all use it |
| **Domain.Caching** `Node/Domain.Caching` | an event-sourced cache with undo | add, remove, save, undo | nobody: SyncStore took its place |

How they interact. A node publishes a command or an event; SmallTransit carries it to
`BrokerControllerPublisher`, which advertises its routing key, asks the topic tree which
subscriptions match, and writes it into their channels. One listener task per queue takes
it out and pushes it to the connection of the subscribed node, whose controller runs the
handler, which publishes in its turn. The contracts meet only the web3 scripts; the form
validation runs in a browser and meets nothing of the rest.

What is hard in it:

* *Broker core.* Each dictionary is concurrent, but no operation is one access: check and
  add (`BrokerService.AssignBroker`), enumerate and look up again (`GetQueues`,
  `AddPublication`), add here and then there (`AddSubscription`), take and then push
  (`BrokerChannelListener.Listen`). Correct when no subscriber gets what it did not ask for,
  none that is ready is passed over, each gets a feed without gaps or repetitions, and no
  listener stops while its subscriber is there.
* *Topic tree.* Lookups of many nodes run among changes. Correct when each call takes effect
  at one instant, the pruning neither cuts off a branch nor leaves a dead one, and no path
  leaves the lock held.
* *Nodes.* Two phases per iteration are kept apart only by counting flags in a shared store;
  attempts fail and are retried; messages are lost without anyone being told; the trigger
  can be posted twice. Correct when what is displayed is a sequential K-means.
* *Contract.* Accounts may be in an array several times, entries are moved by deletions, and
  a balance outlives the subscription. Correct when money and entries add up.
* *SmallTransit.* Each end runs a state machine of its own, no frame says which request it
  answers, TCP cuts the bytes anywhere, connections end without one end knowing. Correct
  when the two machines stay in step, a call that returns success was handled by the other
  end's controller, and calls return. Its codec writes a header of lengths and parses
  whatever has arrived, once per chunk. Correct when the messages come out as they went in.
* *web3 scripts.* The gas is estimated by one call and used by the next, the number is read
  back by a third, and each call catches its own errors. Correct when a script that is told
  of success then reads its own number or a later one.
* *Form validation.* One event handler runs at a time, but the server answers later: after
  the user has edited, reset or submitted the form. Correct when what is shown is what the
  validator holds, and what is posted meets the rules.

`PROJECT.json` lists each hazard at its line with the properties that watch it.

## Modules

### Topic tree: `TopicPatterns`, `TopicTree`, `TopicDirectory`

`TopicPatterns` has the paths, what a pattern matches, and what the three operations compute
as a whole. A tree is the set of the paths of its nodes. `TopicTree` is the code: threads
invoke a call, enter the lock (`EnterWriteLock`, `EnterReadLock`), walk a layer per step
(`AddNode`, `RemoveDescend`, `RemoveLeaf`, `Prune`, `MatchLayer`) and leave (`ExitLock`).
`TopicDirectory` is what callers rely on: a set of topics whose calls happen at one instant.
`Linearizable` is the refinement, with the tree of the last writer to leave as the
directory's topics.

Two peculiarities of the code that the model keeps. Removing `a/b` also drops a node `a` that
was advertised in its own right, because a node does not know whether it was. And a segment
may be empty: a routing key that begins with `/` gives the root a child whose path is the
root's own, a lookup of `#` then adds one key to a dictionary twice, and the exception leaves
the read lock held (`pc = "threw"`); the runs use no such key.

### Broker core: `PubSubBroker`, `SubscriberFeed`

One action per dictionary access of each task: the handler of a subscriber connection
(`AddSubscription`, `AddQueue`, `FindBroker`, `StartBroker`), the listener
(`ListenerFindSubscription`, `ListenerFindChannel`, `ListenerTake`, `ListenerPush`,
`ListenerPushFails`, `ListenerPushUnanswered`), the handler of a publisher connection
(`Advertise`, `GetQueue` per entry, `CheckContract`, `Write`, `Finish`). `RemoveSubscription`, `RemoveQueue` and
`UnAdvertise` have code but no controller calls them; the constants `Leaving` and `Retracted`
say for whom they happen. Here a call of the topic tree is one step, which `Linearizable`
justifies. A channel keeps everything ever written (`log`) and how much was
read (`taken`); it is named by the subscriber whose `TryAdd` put it there. `due` is a history
variable for `NoMissedSubscriber`.

A failed push has two outcomes, because the connection may drop before or after the
subscriber has the publication. It ends the listener, and nothing is put back. A `Broker` is
never taken out of its dictionary.

A push on a connection that is up need not be answered either
(`ListenerPushUnanswered`): it came in one read with the answer to Subscribe and was lost
with it, or the subscriber could not deserialise it, or its controller threw; in the last two
cases `SubscriberReceiveOrchestrator` leaves its loop, `SubscriptionController` logs that, and
the socket stays open. The broker's listener then waits for ever, in `waiting`, and the
subscriber is no longer among those that are `answering`.

`SubscriberFeed` is what a subscriber is promised: what it is pushed is always a prefix of
what was queued for it, which is wanted and in each publisher's order. `ImplementsFeed` is
the refinement, when queue names are distinct (the clients draw a Guid for each).

### Nodes: `Clustering`, `KMeans`, `MapReduce`

`Clustering` has the closest group and the barycentre, on exact fractions where the code has
doubles. `KMeans` is the sequential algorithm. `MapReduce` has one queue per routing key,
and a handler per queue split at each store access and each publication: map master
(`HandleInput`, `SendChunk`, `HandleMapFinished`, `CountMapFinished`, `PublishShuffle`,
`HandleShuffle`, `SendGroup`), map worker (`HandleMap`, `MapFails`, `SaveMapped`,
`PublishMapFinished`), reduce worker (`HandleReduce`, `SaveReduced`,
`PublishReduceFinished`), reduce master (`ReceiveResult`, `CountResults`,
`ResetReduceFlags`, `IncrementIteration`, `Decide`). `Lose` drops any message: the publisher
ignores the Result of `Publish`. SyncStore is not in the repository; what a handler saves,
every later query sees.

`close` stands for the deltas stored with the groups: the groups whose delta is at most
`EPSILON`. A remainder of the spaces divided by the map workers is mapped by nobody, and then
each reduce worker stops in `threw` on a space without a group, where the code throws a
`NullReferenceException`; the runs divide evenly, as the deployed configuration does.
The static `_iteration` is never set back, so a second computation goes on counting.

### SmallTransit: `ProtoSession`, `Handover`

`ProtoSession` is one connection with both of its ends, in one of its three uses (`kind`).

| in the model | in the code |
|---|---|
| `link`, `cancelled` | the TCP connection; the `CancellationTokenSource` of each `TcpBridge` |
| `sent`, `delivered`, `chunks` | what an end was sent; how much its bridge has read; the chunks in its read shore |
| `taken`, `parsed` | what a task has taken out of the read shore and how much of that `TryParseMessage` has consumed: the difference is `_bytesStorage` or `bytesArray` |
| `sendState`, `receiveState` | the states of `Sending` and `Receiving`; tables give the request of a state, what it accepts, and the next state |
| `SendRequest`, `AwaitMore`, `ReceiveAnswer` | `SendingOrchestrator`: prime, then the caller's message, each with a wait for a valid answer |
| `ReceiveMore`, `ReceiveBroken`, `ReceiveRequest`, `ControllerReturns`, `ControllerThrows`, `AnswerClient` | the `Execute` loop of the three receive orchestrators |
| `Publish`, `Send`, `Push`, `CallRefused`, `BeginListen`, `SubscribeFails` | the use cases and the broker's handle on its subscriber |
| `Connect`, `Deliver`, `Drop`, `Notice` | the network stream cache and the bridge; the host and TCP as far as the code sees them |

A frame is two halves, and a chunk any number of halves: it can end within a frame, hold
one, or hold the end of one and some of the next. What the code does with bytes it reads out
of place is a choice (`ReceiveBroken`): the parser takes them for an incomplete frame, or
fails. One caller at a time uses a connection: only the listener of its queue pushes to a
subscriber, and each message is dispatched in a scope of its own (`ControllerDispatcher`)
with clients and connections of its own, whose publications the handler awaits one by one.
`AsExpected` says that no peer ever answers with something else than what the sender
expects; so `HandleFailure`, `Nack`, `Close` and the states they lead to are not reached,
and are left out.

`Handover` is what callers of `Publish`, `Send` and `Push` are promised: the message of a
call is handed to the controller at most once and in order, and before a success is
returned. `ImplementsHandover` is the refinement. It is what `PubSubBroker` builds on, where
a push is one step (`ListenerPush`) that happened if the listener goes on, and may or may
not have happened if it fails (`ListenerPushFails`) or is never answered
(`ListenerPushUnanswered`, which is where `CallReturns` excepts the coalesced push and the
stopped receiver).

### SmallTransit's codec: `ProtoTransit`

What a frame of `ProtoSession` is made of. Two tables hold the layout: the properties of
each type in the order of the body (`Properties`), and the order and size of their header
items (`HeaderItem`); the code has them in classes that it finds by reflection.
`HeaderBytes`, `BodyBytes` and `ToBytes` encode (`FourBytes` are what `BitConverter` makes
of an int, of which `ToBytes` drops the zeros of the highest places), `TryParseMessage` and `InitializeFrom`
decode, with the two ways the code fails: not enough bytes yet, and an exception. `Send`
puts a message on the wire; `Read` takes a chunk and parses *once*, as every loop of the
receivers does, keeping the reminder. A length that needs more bytes than its header item
has is written into the next item (`Fits`), or throws (`Encodable`).

### Contract: `MessageBroker`

One action per transaction; a reverted transaction is no step. Money is counted in fees.
`joined`, `left` and `seen` are history variables. `subscriberToIpMapping` is only written.

### web3 scripts: `Web3Scripts`

One action per `await`: `Load`, `EstimateGas`, `Send`, `Receipt`, `SetFails` (the catch),
`GetStudentNumber` for any number of runs of `tache_6.js`; the migrations; and the shorter
`pub.js` and `sub.js`, which make a contract of a contract in place of its interface
(`MakeContract` may crash), listen, and, in `pub.js`, call a name that is not declared
(`AdvertiseFails`). The chain is external: `Mine` mines one transaction of the pool, and
`Cost` says what storing a number needs. `basis` and `outcome` are history variables.

### Form validation: `UnobtrusiveValidation`

A value is the length of a text. `Rules` is what the adapters length, required and remote
make of a field's attributes, `Verdict` what a check of it finds, `Ask` the requests that a
check sends, `Shown` what `onError` and `onSuccess` do to the containers of messages. The
actions are the event handlers: `ParseElement`, `Parse`, `Type`, `CheckField` (a field is
left, or a key released), `Submit`, `SubmitUnchecked` (before there is a validator),
`SubmitCancelled` (by a button with the class `cancel` or a `formnovalidate`, which posts the
form as it is, no rule in force), `Accept`, `AcceptLast` and `Refuse` (an answer of the server; the last one a submission
waits for), `RequestFails`, `Reset`, and `Load` for the page that a posted form leads to.
`edited` is a history variable: the user has changed the form since it was submitted.

### Others

`MC*` give values to constants; `*Proofs` hold the theorems. Definitions commented
`Mutant:` are plausible bugs of the definition that follows them; they are used by no
specification, only put in its place to see that a property notices.

## Runs

| run | instance | checks | bounds |
|---|---|---|---|
| `topic_tree` | two threads, three keys (a stem, a branch, a deeper branch), patterns of every kind | `TypeOK`, `PrefixClosed`, `LeavesWereAdded`, `ReadersSeeCommitted`, `Linearizable`, `EveryCallReturns` | four calls in all: add, add, remove and a lookup among them |
| `broker` | two subscribers, a publisher; connections may be lost, pushes go unanswered | `TypeOK`, `NoMissedSubscriber`, `ListenerEndsWithSubscriber`, `ImplementsFeed`, `EventuallyDelivered` | two publications |
| `broker_leave` | two publishers; a subscriber may unsubscribe, a topic may be unadvertised | `RoutedAsSubscribed`, `NoMissedSubscriber`, `ImplementsFeed` | one publication each |
| `broker_race` | two subscribers of different contracts under one queue name | `OneListenerPerQueue`, violated | |
| `map_reduce` | two map and two reduce workers, four spaces, three groups | `TypeOK`, `PhasesApart`, `ImplementsKMeans`, `EventuallyEnds` | a lost message, two failed attempts, one retry |
| `map_reduce_triggers` | two spaces, two groups | `NoReducerThrows` | two triggers, a lost message, a worker given up |
| `map_reduce_iterations` | as `map_reduce`, `NbOfIteration = 3` | `RunsNbOfIterations`, violated | |
| `contract` | three accounts, one topic | `TypeOK`, `FeesBalance`, `EntriesCount`, `SoleEntryReceives`, `OnlySubscribersPay` | three messages, two subscriptions each, deposits of two fees |
| `session` | one connection in each of its three uses; it may be lost, a controller may throw | `TypeOK`, `AsExpected`, `ImplementsHandover`, `CallReturns`, `SubscriptionStarts` | three calls |
| `codec` | messages of every layout, one with a name too long for its header item, one with a payload whose length takes two bytes | `TypeOK`, `DecodedAsSent`, `NoneLeftOver` | bytes of 12 values, three messages, one or two under way, chunks of 1, 4 and 64 bytes |
| `web3` | three runs, two of which set the same number; publisher and subscriber | `TypeOK`, `ReadsOwnWrite`, `RevertedOnlyWhenOvertaken` | |
| `validation` | two fields: one required and bounded, one that the server checks | `TypeOK`, `ContainersAgree`, `PostedMeets`, `SubmissionAnswered` | three changes of a value per page |

Why these are enough to be worth something. Each race of the broker is between two tasks of
a kind (two subscribers, two publishers) or of two kinds, and every pair is in some run; two
publications show order, gaps and repetitions. The data of `map_reduce` needs five
iterations, in which spaces change group, two groups tie for a space, and one ends up empty;
a fault can hit any iteration. With two or more entries per account, the array of the
contract has duplicates before, at and behind the place of a deletion, and the deposit runs
out while a loop is serving the duplicates. Three calls on a connection are the handshake
and first message, the second one in the state that the first left, and a third after that
one's chunks were cut in a different way. A byte of twelve values is enough for every type's
number and every header's length, and makes the lengths that need two of them short; chunks
of one byte cut everywhere, those of 64 hold two messages and more. Of three scripts one can
be between its estimate and its transaction while the two others change the number and
change it back. Three changes let the user enter a value, have it asked for, change it under
way and change it back. All bounds are constants, listed in each module.

`CHECK_DEADLOCK FALSE` is in every configuration but `validation`, where a page can always be
worked on: publishers, threads and scripts may have nothing more to do, a computation ends,
and the bounds run out.

Scope of the claims. `ImplementsFeed` needs distinct queue names. `NoMissedSubscriber`
speaks of subscribers whose `Subscribe` had returned when the publication came in, that
never unsubscribe, and topics that are not unadvertised. `CallReturns` excepts a lost
connection, a stopped receiver and the coalesced push described below. `PhasesApart` and
`ImplementsKMeans` are for one trigger: a second one during a computation shares its flags,
and they fail. `EventuallyEnds` excepts a lost message, as nobody sends it again, and a map
worker that gave up after its retries; a push to a node that is never answered counts as a
lost message there, it and all behind it in its queue. `EventuallyDelivered` excepts a
subscriber whose connection is lost and one that no longer answers pushes, for the reasons
that `CallReturns` excepts. `DecodedAsSent` needs lengths that fit their header
items. `PostedMeets` speaks of the fields whose rules the validator has, which are not all
(see below), and of none when the form is posted by a button that cancels validation; `SubmissionAnswered` excepts a form that the user changes meanwhile and a
request that fails. No property speaks of what comes of a name that does not fit its header
item, or of a submission whose request has failed: the hazards say so.

## Fairness

* `TopicTree!FairSpec`: weak fairness of each thread's step. A thread of the pool that can
  go on does; one blocked at the lock is not enabled. `ReaderWriterLockSlim` is not assumed
  to be strongly fair: the calls are finite in number, so no thread is overtaken for ever.
* `PubSubBroker!FairSpec`: weak fairness of each started task: a `Subscribe` under way, a
  listener, a routing under way. Nothing obliges anybody to connect, to publish or to drop a
  connection, and `ListenerPushFails` is not fair: a push on a lost connection may hang. On
  a connection that is up, `Push` is assumed to return for a subscriber that is `answering`
  only; `ListenerPushUnanswered`, by which it stops doing so, is not fair and may come at any
  push.
* `MapReduce!FairSpec`: weak fairness of each handler's steps, which includes taking the
  next message. That the broker delivers it is `EventuallyDelivered`, with its exceptions,
  which are losses here (`Lose`). `MapFails`, `Lose` and `PostInput` are not fair.
* `UnobtrusiveValidation!FairSpec`: weak fairness of each answer: a server that is up
  answers. Nothing obliges the user to do anything, and `RequestFails` is not fair.
* `ProtoSession!FairSpec`: weak fairness of `Connect` (`GetOrAdd` tries again until it has a
  connection), of `Deliver` (the bridge reads what has arrived), and of the sender's and
  receiver's task at each end. Nobody has to call; `Drop` and `Notice` are not fair, because
  the end of a stream reads as zero bytes and tells the client nothing.

## Proofs

Assumptions are those named in the modules (`TopicTreeAssumption`, `BrokerAssumption`,
`ContractAssumption`, `ScriptsAssumption`, `FormAssumption`, `ClusteringAssumption`,
`MapReduceAssumption`, `SessionAssumption`, `ProtoTransitAssumption`): sets of any size, any
keys, patterns, quotas, deposits, numbers, attributes and data; for the codec, any messages
whose properties are bytes, none of them empty and none longer than four bytes can say, and
a byte of at least eleven values. Each theorem is the usual argument: an inductive invariant holds
at first and is kept by every step, with a lemma per kind of step, and implies the property.

`TopicTreeProofs`, from one invariant, `TreeInv`:

* `TreeTyped`, `TreeConnected` (`PrefixClosed`), `NoDeadBranch` (`LeavesWereAdded`),
  `ReadersUndisturbed` (`ReadersSeeCommitted`), and
* `CallsLinearizable`: `Spec => Linearizable`, the refinement of `TopicDirectory`.

`TreeInv` says of a walk under way what it has done so far, in terms of the tree `committed`
that the last writer left: an addition has added the prefixes before its layer (`AddInv`), a
removal has cut the dead part of its path down to its layer (`RemoveInv`, `Dead`), a lookup
has found the nodes that match so many segments (`GetInv`, `Reached`). `LockInv` makes each
walk the only one that can disturb this. The lemmas on paths (`AddedLayer`, `PrunedLayer`,
`PrunedEnds`, `ReachedLayer`, `ReachedAll`) carry one layer to the next, and the last one to
what the operation computes as a whole.

`PubSubBrokerProofs`:

* `TypeCorrect`: `Spec => []TypeOK`. `TypeOK` is not inductive: that a push appends a
  message needs the publication in hand to be in the log, and that `Write` does needs the
  current publication to be a real one and not `NoMessage`. `TypeInv` adds `UnderWay`, which
  says both for the tasks that are at these places. That no more is taken than was queued is
  a conjunct of `TypeOK` itself. One lemma per kind of task.
* `RoutingCorrect`: `NamesKept` implies `Spec => []RoutedAsSubscribed`. What is pushed was
  wanted because everything in a channel is wanted by each subscriber that the channel's
  queue serves. `RoutingInv` carries this back to the subscription: `Served` says which
  subscriber a queue name is for (the one stored, or the only one of that name), and the
  conjuncts `SubscriptionsOwn`, `ChannelsOwn`, `MatchedWanted`, `WriteWanted`, `LogWanted`
  and `ListenersOwn` say that every look at the dictionaries by a task under way agrees with
  it. The heart is that `Served` is stable and functional, although the dictionaries change
  between two looks. `NamesKept` is needed: with a shared name *and* an unsubscription,
  another subscription can come in between, and what was queued for one contract is pushed
  to the other; TLC finds that in seconds.

* `ListenersCorrect`: `Leaving = {}` implies `Spec => []ListenerEndsWithSubscriber`. What a
  listener looks up is there because it is started last (`EntriesThere`, `ListenersLast`).
* `FeedCorrect`: `DistinctQueues` implies `Spec => ImplementsFeed`. `FeedInv` adds to the
  routing invariant that a listener has pushed what it has taken (`ListenersInOrder`), that a
  channel serves one subscriber (`QueuesApart`), and that a publication is not yet in a
  channel it is still to be written to, and later than all of its publisher's there
  (`LogInOrder`).

* `NoneMissed`: `NamesKept` and no topic unadvertised imply `Spec => []NoMissedSubscriber`.
  `MissedInv` follows a publication to those who wait for it: `DueServed` says that their
  queue is still to be looked at, found but not written, or has the publication; it needs
  that they stay stored (`StayersStored`) and that the topic stays in the tree while
  `GetQueues` looks for it (`RoutingKeyThere`).

`Web3ScriptsProofs`, from `ScriptsInv`:

* `ScriptsTyped`, `OwnWriteRead` (`ReadsOwnWrite`), `OvertakenOnly`
  (`RevertedOnlyWhenOvertaken`). `NumberIsLast` ties the number to the last transaction that
  took effect; `GasSuffices` says that an estimate stays good until another takes effect.

`ProtoSessionProofs`, from `Inv`, for each of the three uses of a connection, any number of
calls, any cutting of the stream, with and without losses and exceptions of controllers:

* `TypeCorrect` (`TypeOK`, which also says that nothing is parsed before it was taken, or
  taken before it was delivered), `FitTogether` (`AsExpected`), and
* `HandoverCorrect`: `Spec => ImplementsHandover`, the refinement of `Handover`.

No frame says which request it answers, so the argument is that of a stop-and-wait protocol:
between the end that asks and its peer one frame at most is not parsed, and the states of the
two tasks say which. `Exchange` lists where an exchange can be: nothing is on the way
(`Resting`), the request is (`Asked`), the controller has it (`Handling`), it threw
(`Failed`), the answer is on the way (`Answered`). `Subscribing`, `Welcomed` and `Missed` do
the same for the beginning of a subscription, the one place where two frames can be under
way: there the broker may push before the subscriber has read that it is subscribed, which
is the coalesced push below. `Streams` orders what was sent, read, taken and parsed;
`Counted` ties the calls to what the controller was handed, which is the refinement.

`ProtoTransitProofs`:

* `Parses` and `Waits`: what begins with the bytes of a message whose lengths fit is parsed
  as that message and the rest is left; a part of them is neither a message nor an error.
* `TypeCorrect` (`TypeOK`), also when lengths do not fit and the stream is misread.
* `ReadAsWritten` (`DecodedAsSent`) and `ParsedWithLastByte` (`NoneLeftOver`).

`FromBytesToInt` is the inverse of `FourBytes` below the fourth power of the base (`Digits`,
`BytesToNumber`). The items of a header are apart (`OffsetsApart`), so a length that fits is
written by one property only and read back (`ItemBytes`, `LengthRead`), and then each
property is found where it was put (`BytesOf`, `BeginAtRead`). `DecodedAsSent` is not
inductive; `Stream` is: there are cuts of the bytes in storage and on the wire such that the
pieces are the bytes of the messages under way, in order (`Cuts`). Reading moves the border
between storage and wire and may take the first piece off.

`MapReduceProofs`, from `PhaseInv`, when the trigger is posted once (`MaxTriggers <= 1`):

* `PhasesSeparate` (`PhasesApart`), and
* `ComputesKMeans`: `Spec => ImplementsKMeans`, the refinement of `KMeans`, when iterations go
  on until no group moves (`NbOfIteration < 0`).

`PhaseInv` says that the nodes are in one of six phases: `Still`, `Asking`, `Mapping`,
`Shuffling`, `ReducingPhase`, `Deciding`. What makes it inductive is that within a phase each
chunk, or group, is in one place at most (`OnePlacePerChunk`, `OnePlacePerGroup`): still to
be sent, queued, in a handler, announced, or counted. So when as many are counted as there
are, nothing of the phase is left anywhere, and a lost message or a handler that has given up
leaves it incomplete for ever instead of ending it early. `MapperRight`, `GroupRight` and
`ReducerRight` say what is computed on the way in terms of what was displayed last. A
remainder that no map worker gets needs no assumption: its spaces stay without a group, so no
reduce worker gets as far as a result. The arithmetic (`Closest`, `Average`) is not opened
for these two.

For any number of triggers, where computations share the stores and phases overlap:

* `StateTyped` (`TypeOK`), from `TypeInv`. That the centres are pairs of numbers with a
  positive denominator needs what a sum of numbers is (`SumType`), and that an attempt counts
  no further than it may be retried needs `AttemptRight`.
* `ReducersGoOn` (`NoReducerThrows`), from `SavedInv`: once a computation asks for the
  shuffle, every space has a group, and it never loses it, whichever computation gave it. It
  supposes that the spaces divide evenly among the map workers
  (`Len(Values) = NbMappers * ChunkSize`), and fails without it, as said above.

`MessageBrokerProofs`, from `MessagesInv`:

* `TypeCorrect`: no balance goes below zero, whatever the duplicates (`ServedBounds`), and
  `DeleteFromArray` gives a sequence of accounts (`DeleteType`).
* `FeesCorrect`: `TypeOK /\ FeesBalance` is inductive: a publication takes from the balance
  as many fees as it appends messages (`InboxGrows`).
* `EntriesCorrect` (`EntriesCount`): the entries of an account are counted as the places that
  hold it (`PlacesCounted`), and `DeleteFromArray` takes away one of them, though it moves
  another entry (`DeleteOccurrences`). That the first place exists is the least number
  principle (`LeastNumber`), from the well-foundedness of `<`.
* `PayersCorrect` (`OnlySubscribersPay`): an account without entries is served nothing.
* `ReceivesCorrect` (`SoleEntryReceives`): who has one entry and can pay is served once.
  `SeenBefore` says that what was seen had been published.

`UnobtrusiveValidationProofs`, from `ValidationInv`:

* `ValidationTyped` (`TypeOK`), `ContainersCorrect` (`ContainersAgree`), `PostedCorrect`
  (`PostedMeets`). `LastCheckHeld` says that what the last check found is what the validator
  holds; `AnswersTrue` that an answer still under way is about the value asked for last,
  unless the form was reset, and that a value held for good was not refused. `ValidMeets` is
  about the adapters: a value that passes the rules they make meets the attributes.

Two kinds of recursion are met. A sum over any number of spaces is reasoned about by
induction over numbers, which follows from the well-foundedness of `<` when the formula is
put as a set of numbers (`NumberInduction` in `MapReduceProofs`). A sum or a concatenation
over the properties of a message has three terms at most, and is written out: it is shown
that a function satisfies the recursive equation of the library's fold, and that every such
function has the value written (`AddingExists`, `AddingValue`, `FlattenOf`).

Model-checked only: liveness under fairness (`EveryCallReturns`, `EventuallyDelivered`,
`EventuallyEnds`, `CallReturns`, `SubscriptionStarts`, `SubmissionAnswered`), which TLAPS
does not reach; and the two runs that find a violation. Every invariant and every refinement
that a run checks is also a theorem.

Attempts at a proof changed the models in two places. `AnswerClient` of `ProtoSession` chose
its next state by a `CASE` whose guards could hold together, where the code has an order; it
is now nested conditions. In `ProtoTransit` the order of the header and the bytes of a number
were computed with operators that have no definition for the prover (`SortSeq`, `^`); they
are now the arrangement whose orders increase, and four divisions, as `BitConverter` does.

## What was found

* `Broker/Application/BrokerService.cs:33`: two connections with one queue name both get past
  the check commented "Already contains broker", and both start a listener on one channel
  (`broker_race`).
* `Node/Application.Commands.Reducer/Event/ResultService.cs:70`: `NB_OF_ITERATION = n` runs
  `max(1, n - 1)` iterations where the read-me announces n (`map_reduce_iterations`).

More goes wrong in the code that contradicts no document, or nothing that a run can show. It
is what the properties except, and would not hold without. In `CallReturns`, and in
`EventuallyDelivered` for the queue of the subscriber:

* `ReceiveSubscriber.cs:53`: when the acknowledgement of Subscribe and the first Push are
  read in one chunk, the bytes of the push stay in the tunnel that waited for the
  acknowledgement, and the orchestrator that listens begins with an empty array
  (`BeginListen`, `skipped`). The push is never handled, and the broker's listener waits for
  its answer for ever.
* `ChannelTunnel.cs:39`: the wait for an answer has neither a token nor a time limit. A call
  on a connection that is lost, or whose receiver has stopped on an exception, never
  returns. A subscriber whose controller throws once keeps its connection open and gets
  nothing more.

In `DecodedAsSent`:

* `ProtoHeader.cs:50`: the length of a name of 256 bytes or more takes two bytes where its
  header item has one. The second goes into the next item, which is written over it, and the
  receiver reads a message that is cut differently; in the last item it throws.
* `ByteExtensions.cs:20` promises a byte for 0, but `ToBytes(0)` throws before it. An empty
  property is refused earlier, so no message gets there.

In `PostedMeets` and `SubmissionAnswered`:

* `jquery.validate.unobtrusive.js:158`: `validate()` on a form that has a validator drops the
  options, so an element parsed later gets no rules, whether it is attached
  again or not, as the comment of `parseElement` (line 181) advises.
* `jquery.validate.js:1108`: when the last answer comes and another field is then found
  invalid, `formSubmitted` stays set, and a later check that ends with an answer posts the
  form that nobody has submitted again (`PostedMeets` holds all the same).
* `jquery.validate.js:1529`: a request that fails calls nobody, and the submission waits.

And `pub.js:66` calls `studentContract`, which it never declares: it advertises nothing.

## What is not modelled

* The debug triggers Map and Reduce of `TriggerController`, which start a handler out of its
  place.
* SyncStore, external; configuration (`truffle-config.js` among it), CSV reading, dependency
  injection, sample hosts: input and output only. `site.js` is a comment.
* Of SmallTransit: several callers of one connection
  at once (a host that shares a `PublishClient` could do that), how many
  subscriptions the subscription job starts at once, and the closing states that `AsExpected`
  shows to be unreachable.
* Of the form validation: the other adapters (equalto, regex, password, range and the like),
  which make rules of the same kind; the rest of jquery-validation, a library; layout.
* Domain.Caching: dead code, nothing registers it.

## Plan

Done in this order, the most important first: topic tree, broker core with its abstract
specification, nodes with theirs, contract, type and routing theorems, fee theorem, the
session of SmallTransit with its abstract specification; then the web3 scripts, form
validation, the codec, and the theorems of the topic tree, the feed, the missed subscriber,
the scripts, the contract, form validation and the nodes' K-means; then the theorems of the
session and its refinement, of the codec, and of the nodes under any number of triggers.

What is left of the model: `ProtoSession` with two callers of one connection (`PublishClient`
takes no lock, and a web request's scope may publish twice at once).

What is left of the proofs: the codec where lengths do not fit, about which only the types
are proved; and the refinements composed, that `Handover` justifies the one step that a push
is in `PubSubBroker`, which the two modules now say in words.

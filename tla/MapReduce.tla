----------------------------- MODULE MapReduce ------------------------------
(***************************************************************************)
(* The nodes of the second laboratory (Node/): map workers, reduce workers *)
(* and their two masters compute a K-means, each handling the messages of  *)
(* the queues it is subscribed to.  A queue is served by one connection,   *)
(* so its messages are handled one after another; the queues of all nodes, *)
(* and the several queues of a master, are handled at the same time.       *)
(*                                                                         *)
(* The nodes share the stores of the SyncStore package, which is not in    *)
(* the repository: what a handler saves, every later query sees.           *)
(***************************************************************************)
EXTENDS Clustering

CONSTANTS
    NbMappers,      \* the keys of MAP_ROUTING_KEYS
    NbReducers,     \* the keys of REDUCE_ROUTING_KEYS
    NbOfIteration,  \* as configured; below 0: until no group moves
    RetryCount,     \* how often MapHandler retries (5)
    MaxTriggers,    \* bound: how often the Input trigger is posted
    MaxFailures,    \* bound: how many attempts of map handlers fail
    MaxLost         \* bound: how many messages are lost

ASSUME MapReduceAssumption ==
    /\ {NbMappers, NbReducers} \subseteq Nat \ {0}
    /\ NbOfIteration \in Int
    /\ {RetryCount, MaxTriggers, MaxFailures, MaxLost} \subseteq Nat

Mappers == 1 .. NbMappers
Reducers == 1 .. NbReducers

\* The queues, named after what their routing keys are for.
Input == <<"input", 0>>
MapFinished == <<"mapFinished", 0>>
Shuffle == <<"shuffle", 0>>
ReduceFinished == <<"reduceFinished", 0>>
Map(m) == <<"map", m>>
Reduce(r) == <<"reduce", r>>

Queues ==
    {Input, MapFinished, Shuffle, ReduceFinished}
        \cup {Map(m) : m \in Mappers} \cup {Reduce(r) : r \in Reducers}

VARIABLES
    centres,    \* the store of groups: their barycentres, << >> before any
    assigned,   \* the store of spaces: the group of each, or 0
    mapDone,    \* the map workers whose MapFinishedBool is set
    reduceDone, \* the groups whose ReduceFinishedBool is set
    close,      \* the groups whose stored delta is at most EPSILON
    iteration,  \* ResultService._iteration
    displayed,  \* the barycentres that DisplayResults has shown last
    ended,      \* the last decision was that there are no more iterations
    queue,      \* queue[k]: the messages waiting in a queue
    pc,         \* pc[k]: where the handler of the messages of the queue is
    next,       \* next[k]: the chunk or group a loop is to send next
    chosen,     \* chosen[m]: the groups a map handler has chosen for its spaces
    tries,      \* tries[m]: how many attempts have failed
    fresh,      \* fresh[r]: what a reduce handler has computed
    triggers, failures, lost    \* counted for the bounds

storeVars == <<centres, assigned, mapDone, reduceDone, close>>
resultVars == <<iteration, displayed, ended>>
localVars == <<next, chosen, tries, fresh>>
boundVars == <<triggers, failures, lost>>
vars == <<storeVars, resultVars, queue, pc, localVars, boundVars>>

Unassigned == [s \in Spaces |-> 0]

StartCentres == [g \in Groups |-> Whole(Start[g])]

\* The groups that a map handler finds to be the closest.
Choose(spaces) == [s \in spaces |-> Closest(centres, s)]

Init ==
    /\ centres = << >>
    /\ assigned = << >>
    /\ mapDone = {}
    /\ reduceDone = {}
    /\ close = {}
    /\ iteration = 1
    /\ displayed = StartCentres
    /\ ended = FALSE
    /\ queue = [k \in Queues |-> << >>]
    /\ pc = [k \in Queues |-> "idle"]
    /\ next = [k \in {Input, Shuffle} |-> 1]
    /\ chosen = [m \in Mappers |-> Choose({})]
    /\ tries = [m \in Mappers |-> 0]
    /\ fresh = [r \in Reducers |-> [group |-> 1, centre |-> Whole(0), close |-> FALSE]]
    /\ triggers = 0
    /\ failures = 0
    /\ lost = 0

-----------------------------------------------------------------------------
(* Messages.                                                               *)

Go(k, from, to) == pc[k] = from /\ pc' = [pc EXCEPT ![k] = to]

\* A handler is given the first message of its queue.
Take(k, to) ==
    /\ Go(k, "idle", to)
    /\ queue[k] # << >>
    /\ queue' = [queue EXCEPT ![k] = Tail(@)]

Publish(k, m) == queue' = [queue EXCEPT ![k] = Append(@, m)]

\* The Input trigger.
PostInput ==
    /\ triggers < MaxTriggers
    /\ triggers' = triggers + 1
    /\ Publish(Input, 0)
    /\ UNCHANGED <<storeVars, resultVars, pc, localVars, failures, lost>>

\* A message does not arrive: SmallTransitPublisher drops the error; or its push
\* is never answered (ListenerPushUnanswered of PubSubBroker), and then those
\* behind it in the queue do not arrive either.
Lose(k) ==
    /\ lost < MaxLost
    /\ lost' = lost + 1
    /\ queue[k] # << >>
    /\ queue' = [queue EXCEPT ![k] = Tail(@)]
    /\ UNCHANGED <<storeVars, resultVars, pc, localVars, triggers, failures>>

-----------------------------------------------------------------------------
(* The map master's InputHandler.                                          *)

\* The stores are filled from the files when they are empty.
HandleInput ==
    /\ Take(Input, "sending")
    /\ centres' = IF centres = << >> THEN StartCentres ELSE centres
    /\ assigned' = IF centres = << >> THEN Unassigned ELSE assigned
    /\ next' = [next EXCEPT ![Input] = 1]
    /\ UNCHANGED <<mapDone, reduceDone, close, resultVars, chosen, tries, fresh, boundVars>>

ChunkSize == Len(Values) \div NbMappers

\* Mutant: the last space of a chunk is left out.
ChunkShort(i) == (i - 1) * ChunkSize + 1 .. i * ChunkSize - 1

\* The spaces of the i-th map worker; what the division leaves over has none.
Chunk(i) == (i - 1) * ChunkSize + 1 .. i * ChunkSize

SendChunk ==
    /\ Go(Input, "sending", IF next[Input] = NbMappers THEN "idle" ELSE "sending")
    /\ Publish(Map(next[Input]), Chunk(next[Input]))
    /\ next' = [next EXCEPT ![Input] = @ + 1]
    /\ UNCHANGED <<storeVars, resultVars, chosen, tries, fresh, boundVars>>

-----------------------------------------------------------------------------
(* A map worker's MapHandler.                                              *)

HandleMap(m) ==
    /\ Take(Map(m), "saving")
    /\ chosen' = [chosen EXCEPT ![m] = Choose(Head(queue[Map(m)]))]
    /\ tries' = [tries EXCEPT ![m] = 0]
    /\ UNCHANGED <<storeVars, resultVars, next, fresh, boundVars>>

\* An attempt fails, its changes are undone and it is made again, or given up.
MapFails(m) ==
    /\ failures < MaxFailures
    /\ failures' = failures + 1
    /\ Go(Map(m), "saving", IF tries[m] < RetryCount THEN "saving" ELSE "threw")
    /\ tries' = [tries EXCEPT ![m] = @ + 1]
    /\ chosen' = [chosen EXCEPT ![m] = Choose(DOMAIN @)]
    /\ UNCHANGED <<storeVars, resultVars, queue, next, fresh, triggers, lost>>

SaveMapped(m) ==
    /\ Go(Map(m), "saving", "publishing")
    /\ assigned' = [s \in Spaces |->
            IF s \in DOMAIN chosen[m] THEN chosen[m][s] ELSE assigned[s]]
    /\ UNCHANGED <<centres, mapDone, reduceDone, close, resultVars, queue, localVars, boundVars>>

\* Mutant: the end is not announced once an attempt has failed.
PublishMapFinishedUntried(m) ==
    /\ Go(Map(m), "publishing", "idle")
    /\ IF tries[m] = 0 THEN Publish(MapFinished, m) ELSE UNCHANGED queue
    /\ UNCHANGED <<storeVars, resultVars, localVars, boundVars>>

PublishMapFinished(m) ==
    /\ Go(Map(m), "publishing", "idle")
    /\ Publish(MapFinished, m)
    /\ UNCHANGED <<storeVars, resultVars, localVars, boundVars>>

-----------------------------------------------------------------------------
(* The map master's MapFinishedEventHandler and ShuffleHandler.            *)

HandleMapFinished ==
    /\ Take(MapFinished, "counting")
    /\ mapDone' = mapDone \cup {Head(queue[MapFinished])}
    /\ UNCHANGED <<centres, assigned, reduceDone, close, resultVars, localVars, boundVars>>

\* Mutant: one map worker is not waited for.
AllMappedButOne == Cardinality(mapDone) >= NbMappers - 1

AllMapped == Cardinality(mapDone) = NbMappers

CountMapFinished ==
    /\ Go(MapFinished, "counting", IF AllMapped THEN "publishing" ELSE "idle")
    /\ mapDone' = IF AllMapped THEN {} ELSE mapDone
    /\ UNCHANGED <<centres, assigned, reduceDone, close, resultVars, queue, localVars, boundVars>>

PublishShuffle ==
    /\ Go(MapFinished, "publishing", "idle")
    /\ Publish(Shuffle, 0)
    /\ UNCHANGED <<storeVars, resultVars, localVars, boundVars>>

HandleShuffle ==
    /\ Take(Shuffle, "sending")
    /\ next' = [next EXCEPT ![Shuffle] = 1]
    /\ UNCHANGED <<storeVars, resultVars, chosen, tries, fresh, boundVars>>

\* RoundRobinAttributionStrategy: the reduce workers in turn.
Attributed(g) == ((g - 1) % NbReducers) + 1

SendGroup ==
    /\ Go(Shuffle, "sending", IF next[Shuffle] = Len(centres) THEN "idle" ELSE "sending")
    /\ Publish(Reduce(Attributed(next[Shuffle])), next[Shuffle])
    /\ next' = [next EXCEPT ![Shuffle] = @ + 1]
    /\ UNCHANGED <<storeVars, resultVars, chosen, tries, fresh, boundVars>>

-----------------------------------------------------------------------------
(* A reduce worker's ReduceHandler.                                        *)

\* A space without a group ends the handler with an exception.
HandleReduce(r) ==
    /\ Take(Reduce(r), IF \E s \in DOMAIN assigned : assigned[s] = 0 THEN "threw" ELSE "saving")
    /\ LET g == Head(queue[Reduce(r)])
           centre == Average({s \in Spaces : assigned[s] = g})
       IN  fresh' = [fresh EXCEPT ![r] =
                [group |-> g, centre |-> centre, close |-> UnderEpsilon(centre, centres[g])]]
    /\ UNCHANGED <<storeVars, resultVars, next, chosen, tries, boundVars>>

SaveReduced(r) ==
    /\ Go(Reduce(r), "saving", "publishing")
    /\ centres' = [centres EXCEPT ![fresh[r].group] = fresh[r].centre]
    /\ UNCHANGED <<assigned, mapDone, reduceDone, close, resultVars, queue, localVars, boundVars>>

PublishReduceFinished(r) ==
    /\ Go(Reduce(r), "publishing", "idle")
    /\ Publish(ReduceFinished, [group |-> fresh[r].group, close |-> fresh[r].close])
    /\ UNCHANGED <<storeVars, resultVars, localVars, boundVars>>

-----------------------------------------------------------------------------
(* The reduce master's ReduceFinishedEventHandler and ResultService.       *)

ReceiveResult ==
    /\ Take(ReduceFinished, "collecting")
    /\ LET result == Head(queue[ReduceFinished])
       IN  /\ reduceDone' = reduceDone \cup {result.group}
           /\ close' = IF result.close THEN close \cup {result.group}
                       ELSE close \ {result.group}
    /\ UNCHANGED <<centres, assigned, mapDone, resultVars, localVars, boundVars>>

\* Mutant: the first result is taken for the last.
AnyResult == reduceDone # {}

HasFinishedCollectedResults == Cardinality(reduceDone) = Len(centres)

CountResults ==
    /\ Go(ReduceFinished, "collecting",
          IF HasFinishedCollectedResults THEN "resetting" ELSE "idle")
    /\ UNCHANGED <<storeVars, resultVars, queue, localVars, boundVars>>

\* IncrementIteration: the flags of the groups, then those of the map workers.
ResetReduceFlags ==
    /\ Go(ReduceFinished, "resetting", "incrementing")
    /\ reduceDone' = {}
    /\ UNCHANGED <<centres, assigned, mapDone, close, resultVars, queue, localVars, boundVars>>

IncrementIteration ==
    /\ Go(ReduceFinished, "incrementing", "deciding")
    /\ mapDone' = {}
    /\ iteration' = iteration + 1
    /\ UNCHANGED <<centres, assigned, reduceDone, close, displayed, ended, queue, localVars,
                   boundVars>>

HasMoreIterations ==
    IF NbOfIteration >= 0 THEN iteration < NbOfIteration
    ELSE Cardinality(close) # Len(centres)

\* The results are displayed, and the next iteration is asked for.
Decide ==
    /\ Go(ReduceFinished, "deciding", "idle")
    /\ displayed' = centres
    /\ ended' = ~HasMoreIterations
    /\ IF HasMoreIterations THEN Publish(Input, 0) ELSE UNCHANGED queue
    /\ UNCHANGED <<storeVars, iteration, localVars, boundVars>>

-----------------------------------------------------------------------------

InputSteps == HandleInput \/ SendChunk
MapSteps(m) == HandleMap(m) \/ SaveMapped(m) \/ PublishMapFinished(m)
MapFinishedSteps == HandleMapFinished \/ CountMapFinished \/ PublishShuffle
ShuffleSteps == HandleShuffle \/ SendGroup
ReduceSteps(r) == HandleReduce(r) \/ SaveReduced(r) \/ PublishReduceFinished(r)
ReduceFinishedSteps ==
    ReceiveResult \/ CountResults \/ ResetReduceFlags \/ IncrementIteration \/ Decide

Next ==
    \/ PostInput
    \/ \E k \in Queues : Lose(k)
    \/ InputSteps \/ MapFinishedSteps \/ ShuffleSteps \/ ReduceFinishedSteps
    \/ \E m \in Mappers : MapSteps(m) \/ MapFails(m)
    \/ \E r \in Reducers : ReduceSteps(r)

Spec == Init /\ [][Next]_vars

\* A node goes on with a handler it has begun, and is pushed the messages that
\* are queued for it, as long as none is lost: a push that is never answered is
\* a loss.  Nobody has to post the trigger.
FairSpec ==
    /\ Spec
    /\ WF_vars(InputSteps) /\ WF_vars(MapFinishedSteps)
    /\ WF_vars(ShuffleSteps) /\ WF_vars(ReduceFinishedSteps)
    /\ \A m \in Mappers : WF_vars(MapSteps(m))
    /\ \A r \in Reducers : WF_vars(ReduceSteps(r))

-----------------------------------------------------------------------------
(* Properties.                                                             *)

Centre == [sum : Nat, count : Nat \ {0}]

TypeOK ==
    /\ centres = << >> \/ centres \in [Groups -> Centre]
    /\ assigned = << >> \/ assigned \in [Spaces -> Groups \cup {0}]
    /\ mapDone \subseteq Mappers
    /\ reduceDone \cup close \subseteq Groups
    /\ iteration \in Nat \ {0}
    /\ displayed \in [Groups -> Centre]
    /\ ended \in BOOLEAN
    /\ DOMAIN queue = Queues
    /\ \A k \in Queues : pc[k] \in {"idle", "sending", "saving", "publishing", "counting",
                                    "collecting", "resetting", "incrementing", "deciding",
                                    "threw"}
    /\ next \in [{Input, Shuffle} -> Nat]
    /\ \A m \in Mappers : \E spaces \in SUBSET Spaces : chosen[m] \in [spaces -> Groups]
    /\ tries \in [Mappers -> 0 .. RetryCount + 1]
    /\ fresh \in [Reducers -> [group : Groups, centre : Centre, close : BOOLEAN]]

\* What the reduce master displays are the results of a K-means, iteration by
\* iteration, and it ends when that has converged: no map worker has worked
\* with a mixture of old and new barycentres, no group was averaged over
\* spaces not yet assigned, and no group counted twice or with an old delta.
Sequential == INSTANCE KMeans WITH centres <- displayed
ImplementsKMeans == Sequential!Spec

Busy(k) == queue[k] # << >> \/ pc[k] = "saving"

\* No space is waiting to be assigned while a group is waiting to be averaged.
PhasesApart ==
    ~ \E m \in Mappers, r \in Reducers : Busy(Map(m)) /\ Busy(Reduce(r))

\* No reduce worker stops on a space without a group, however many iterations
\* are asked for at the same time.
NoReducerThrows == \A r \in Reducers : pc[Reduce(r)] # "threw"

\* A triggered computation comes to its end, unless a message is lost (with its
\* publication, or in a push that is never answered) or a map worker has used up
\* its retries.
EventuallyEnds ==
    triggers > 0 ~> ended \/ lost > 0 \/ \E m \in Mappers : pc[Map(m)] = "threw"

\* NB_OF_ITERATION is the number of iterations.
RunsNbOfIterations == ended => iteration - 1 = NbOfIteration

=============================================================================

--------------------------- MODULE MapReduceProofs ---------------------------
(***************************************************************************)
(* Proofs about MapReduce.  A computation goes through phases: it is asked *)
(* for, spaces are mapped, the shuffle is asked for, groups are reduced,   *)
(* the end is decided.  Within a phase every map worker's chunk, or every  *)
(* group, is in one place at most: still to be sent, in a queue, in a      *)
(* handler, announced, or counted.  So when all are counted nothing of the *)
(* phase is left anywhere, whatever was lost or retried.                   *)
(*                                                                         *)
(* The last two parts hold for any number of computations at a time: every *)
(* variable has its type, and, where the spaces are dealt out evenly, no   *)
(* reduce worker meets a space without a group.                            *)
(***************************************************************************)
EXTENDS MapReduce, FiniteSetTheorems, WellFoundedInduction, TLAPS

Holds(q, x) == \E i \in 1 .. Len(q) : q[i] = x

Once(q) == \A i, j \in 1 .. Len(q) : q[i] = q[j] => i = j

\* The domains of the functions that are changed place by place.
Shape ==
    /\ DOMAIN queue = Queues /\ DOMAIN pc = Queues
    /\ DOMAIN next = {Input, Shuffle}
    /\ DOMAIN chosen = Mappers
    /\ DOMAIN fresh = Reducers

-----------------------------------------------------------------------------
(* What the nodes compute in an iteration, from what was displayed last.   *)

Moved(g) == Average({s \in Spaces : Closest(displayed, s) = g})

MovedLittle(g) == UnderEpsilon(Moved(g), displayed[g])

Result(g) == [group |-> g, centre |-> Moved(g), close |-> MovedLittle(g)]

Announcement(g) == [group |-> g, close |-> MovedLittle(g)]

\* The stores have been filled; spaces that no map worker gets have no group.
Prepared ==
    /\ centres = [g \in Groups |-> centres[g]]
    /\ Len(centres) = Len(Start) /\ centres # << >>
    /\ DOMAIN assigned = Spaces
    /\ \A s \in Spaces : (\A m \in Mappers : s \notin Chunk(m)) => assigned[s] = 0

\* Between two iterations, or before the first one.
AtRest ==
    \/ centres = << >> /\ displayed = StartCentres
    \/ Prepared /\ centres = displayed

ClosestOf(m) == [s \in Chunk(m) |-> Closest(displayed, s)]

MappedBy(m) == \A s \in Chunk(m) \cap Spaces : assigned[s] = Closest(displayed, s)

-----------------------------------------------------------------------------
(* Where the chunk of a map worker is.                                     *)

ToMap(m) == pc[Input] = "sending" /\ next[Input] <= m

Waiting(m) == ToMap(m) \/ queue[Map(m)] # << >>

Worked(m) == Waiting(m) \/ pc[Map(m)] # "idle"

OnePlacePerChunk(m) ==
    /\ ToMap(m) => queue[Map(m)] = << >>
    /\ Waiting(m) => pc[Map(m)] = "idle"
    /\ Worked(m) => ~Holds(queue[MapFinished], m)
    /\ Worked(m) \/ Holds(queue[MapFinished], m) => m \notin mapDone

MapperRight(m) ==
    /\ queue[Map(m)] \in {<< >>, <<Chunk(m)>>}
    /\ pc[Map(m)] \in {"idle", "saving", "publishing", "threw"}
    /\ pc[Map(m)] = "saving" => chosen[m] = ClosestOf(m)
    /\ pc[Map(m)] = "publishing" \/ Holds(queue[MapFinished], m) \/ m \in mapDone
           => MappedBy(m)

-----------------------------------------------------------------------------
(* Where a group is.                                                       *)

ToReduce(g) == pc[Shuffle] = "sending" /\ next[Shuffle] <= g

ToAverage(g) == ToReduce(g) \/ Holds(queue[Reduce(Attributed(g))], g)

Reducing(g) ==
    pc[Reduce(Attributed(g))] # "idle" /\ fresh[Attributed(g)].group = g

Announced(g) == Holds(queue[ReduceFinished], Announcement(g))

OnePlacePerGroup(g) ==
    /\ ToReduce(g) => ~Holds(queue[Reduce(Attributed(g))], g)
    /\ ToAverage(g) => ~Reducing(g)
    /\ ToAverage(g) \/ Reducing(g) => ~Announced(g)
    /\ ToAverage(g) \/ Reducing(g) \/ Announced(g) => g \notin reduceDone

GroupRight(g) ==
    /\ ToAverage(g) => centres[g] = displayed[g]
    /\ Reducing(g) /\ pc[Reduce(Attributed(g))] = "publishing" => centres[g] = Moved(g)
    /\ Announced(g) \/ g \in reduceDone => centres[g] = Moved(g)
    /\ g \in reduceDone => (g \in close <=> MovedLittle(g))

ReducerRight(r) ==
    /\ queue[Reduce(r)] \in Seq({g \in Groups : Attributed(g) = r})
    /\ Once(queue[Reduce(r)])
    /\ pc[Reduce(r)] \in {"idle", "saving", "publishing", "threw"}
    /\ pc[Reduce(r)] # "idle" => fresh[r].group \in Groups /\ Attributed(fresh[r].group) = r
    /\ pc[Reduce(r)] \in {"saving", "publishing"} => fresh[r] = Result(fresh[r].group)

-----------------------------------------------------------------------------
(* The phases.                                                             *)

Idle(k) == queue[k] = << >> /\ pc[k] = "idle"

MapIdle == \A m \in Mappers : Idle(Map(m))

MapFinishedIdle == Idle(MapFinished) /\ mapDone = {}

ReduceIdle == \A r \in Reducers : Idle(Reduce(r))

ReduceFinishedIdle == Idle(ReduceFinished) /\ reduceDone = {}

\* Nothing is asked for, or what was has been lost, or all has ended.
Still ==
    Idle(Input) /\ MapIdle /\ MapFinishedIdle /\ Idle(Shuffle) /\ ReduceIdle /\ ReduceFinishedIdle

Asking ==
    /\ pc[Input] = "idle" /\ queue[Input] # << >> /\ Tail(queue[Input]) = << >>
    /\ MapIdle /\ MapFinishedIdle /\ Idle(Shuffle) /\ ReduceIdle /\ ReduceFinishedIdle
    /\ ~ended /\ AtRest

Mapping ==
    /\ queue[Input] = << >>
    /\ pc[Input] \in {"idle", "sending"}
    /\ pc[Input] = "sending" => next[Input] \in Mappers
    /\ queue[MapFinished] \in Seq(Mappers) /\ Once(queue[MapFinished])
    /\ pc[MapFinished] \in {"idle", "counting"}
    /\ mapDone \subseteq Mappers
    /\ \A m \in Mappers : OnePlacePerChunk(m) /\ MapperRight(m)
    /\ Idle(Shuffle) /\ ReduceIdle /\ ReduceFinishedIdle
    /\ ~ended /\ Prepared /\ centres = displayed

Shuffling ==
    /\ Idle(Input) /\ MapIdle /\ mapDone = {} /\ queue[MapFinished] = << >>
    /\ pc[Shuffle] = "idle"
    /\ \/ pc[MapFinished] = "publishing" /\ queue[Shuffle] = << >>
       \/ pc[MapFinished] = "idle" /\ queue[Shuffle] # << >> /\ Tail(queue[Shuffle]) = << >>
    /\ ReduceIdle /\ ReduceFinishedIdle
    /\ ~ended /\ Prepared /\ centres = displayed
    /\ \A m \in Mappers : MappedBy(m)

ReducingPhase ==
    /\ Idle(Input) /\ MapIdle /\ MapFinishedIdle
    /\ queue[Shuffle] = << >>
    /\ pc[Shuffle] \in {"idle", "sending"}
    /\ pc[Shuffle] = "sending" => next[Shuffle] \in Groups
    /\ queue[ReduceFinished] \in Seq({Announcement(g) : g \in Groups})
    /\ Once(queue[ReduceFinished])
    /\ pc[ReduceFinished] \in {"idle", "collecting"}
    /\ reduceDone \subseteq Groups /\ close \subseteq Groups
    /\ \A r \in Reducers : ReducerRight(r)
    /\ \A g \in Groups : OnePlacePerGroup(g) /\ GroupRight(g)
    /\ ~ended /\ Prepared
    /\ \A m \in Mappers : MappedBy(m)

Deciding ==
    /\ Idle(Input) /\ MapIdle /\ MapFinishedIdle /\ Idle(Shuffle) /\ ReduceIdle
    /\ queue[ReduceFinished] = << >>
    /\ pc[ReduceFinished] \in {"resetting", "incrementing", "deciding"}
    /\ pc[ReduceFinished] # "resetting" => reduceDone = {}
    /\ ~ended /\ Prepared
    /\ centres = [g \in Groups |-> Moved(g)]
    /\ close \subseteq Groups
    /\ \A g \in Groups : g \in close <=> MovedLittle(g)

\* With one trigger the phases follow one another.  (close is what an earlier
\* iteration found, or nothing, until a group is counted.)
PhaseInv ==
    /\ Shape
    /\ close \subseteq Groups
    /\ triggers \in Nat
    /\ triggers = 0 => Still /\ ~ended /\ centres = << >> /\ displayed = StartCentres
    /\ Still \/ Asking \/ Mapping \/ Shuffling \/ ReducingPhase \/ Deciding

-----------------------------------------------------------------------------
(* Queues and handlers.                                                    *)

LEMMA QueueNames ==
    /\ {Input, MapFinished, Shuffle, ReduceFinished} \subseteq Queues
    /\ \A m \in Mappers : Map(m) \in Queues
    /\ \A r \in Reducers : Reduce(r) \in Queues
    /\ Input # MapFinished /\ Input # Shuffle /\ Input # ReduceFinished
    /\ MapFinished # Shuffle /\ MapFinished # ReduceFinished /\ Shuffle # ReduceFinished
    /\ \A m \in Mappers : Map(m) \notin {Input, MapFinished, Shuffle, ReduceFinished}
    /\ \A r \in Reducers : Reduce(r) \notin {Input, MapFinished, Shuffle, ReduceFinished}
    /\ \A m \in Mappers, r \in Reducers : Map(m) # Reduce(r)
    /\ \A m, n \in Mappers : Map(m) = Map(n) => m = n
    /\ \A r, s \in Reducers : Reduce(r) = Reduce(s) => r = s
BY DEF Queues, Input, MapFinished, Shuffle, ReduceFinished, Map, Reduce

LEMMA QueueCases ==
    ASSUME NEW k \in Queues
    PROVE  \/ k = Input \/ k = MapFinished \/ k = Shuffle \/ k = ReduceFinished
           \/ \E m \in Mappers : k = Map(m)
           \/ \E r \in Reducers : k = Reduce(r)
BY DEF Queues

LEMMA Gone ==
    ASSUME Shape, NEW k \in Queues, NEW from, NEW to, Go(k, from, to)
    PROVE  /\ pc[k] = from /\ pc'[k] = to
           /\ \A j \in Queues : j # k => pc'[j] = pc[j]
           /\ DOMAIN pc' = Queues
BY DEF Shape, Go

LEMMA Taken ==
    ASSUME Shape, NEW k \in Queues, NEW to, Take(k, to)
    PROVE  /\ pc[k] = "idle" /\ pc'[k] = to
           /\ queue[k] # << >> /\ queue'[k] = Tail(queue[k])
           /\ \A j \in Queues : j # k => pc'[j] = pc[j] /\ queue'[j] = queue[j]
           /\ DOMAIN pc' = Queues /\ DOMAIN queue' = Queues
BY DEF Shape, Go, Take

LEMMA Published ==
    ASSUME Shape, NEW k \in Queues, NEW x, Publish(k, x)
    PROVE  /\ queue'[k] = Append(queue[k], x)
           /\ \A j \in Queues : j # k => queue'[j] = queue[j]
           /\ DOMAIN queue' = Queues
BY DEF Shape, Publish

LEMMA AppendHolds ==
    ASSUME NEW S, NEW q \in Seq(S), NEW x \in S
    PROVE  /\ Append(q, x) \in Seq(S) /\ Append(q, x) # << >>
           /\ \A y : Holds(Append(q, x), y) <=> Holds(q, y) \/ y = x
           /\ Once(q) /\ ~Holds(q, x) => Once(Append(q, x))
<1>1. /\ Append(q, x) \in Seq(S) /\ Len(Append(q, x)) = Len(q) + 1 /\ Len(q) \in Nat
      /\ \A i \in 1 .. Len(q) : Append(q, x)[i] = q[i]
      /\ Append(q, x)[Len(q) + 1] = x
  OBVIOUS
<1>2. \A i \in 1 .. Len(q) + 1 : i = Len(q) + 1 \/ i \in 1 .. Len(q) BY <1>1
<1>3. Append(q, x) # << >> BY <1>1
<1>4. \A y : Holds(Append(q, x), y) <=> Holds(q, y) \/ y = x
  BY <1>1, <1>2 DEF Holds
<1>5. Once(q) /\ ~Holds(q, x) => Once(Append(q, x))
  BY <1>1, <1>2 DEF Holds, Once
<1> QED BY <1>1, <1>3, <1>4, <1>5

LEMMA TailHolds ==
    ASSUME NEW S, NEW q \in Seq(S), q # << >>
    PROVE  /\ Tail(q) \in Seq(S) /\ Head(q) \in S
           /\ Holds(q, Head(q))
           /\ \A y : Holds(Tail(q), y) => Holds(q, y)
           /\ Once(q) => Once(Tail(q)) /\ ~Holds(Tail(q), Head(q))
<1>1. /\ Len(q) \in Nat /\ Len(q) # 0 /\ Len(Tail(q)) = Len(q) - 1
      /\ Tail(q) \in Seq(S) /\ Head(q) = q[1] /\ Head(q) \in S
      /\ \A i \in 1 .. Len(q) - 1 : Tail(q)[i] = q[i + 1]
  OBVIOUS
<1>2. \A i \in 1 .. Len(q) - 1 : i + 1 \in 1 .. Len(q) /\ i + 1 # 1 BY <1>1
<1>3. 1 \in 1 .. Len(q) BY <1>1
<1>4. Holds(q, Head(q)) BY <1>1, <1>3 DEF Holds
<1>5. \A y : Holds(Tail(q), y) => Holds(q, y) BY <1>1, <1>2 DEF Holds
<1>6. Once(q) => ~Holds(Tail(q), Head(q)) BY <1>1, <1>2, <1>3 DEF Holds, Once
<1>7. Once(q) => Once(Tail(q)) BY <1>1, <1>2 DEF Once
<1> QED BY <1>1, <1>4, <1>5, <1>6, <1>7

LEMMA OneMessage ==
    ASSUME NEW x
    PROVE  Head(<<x>>) = x /\ Tail(<<x>>) = << >> /\ <<x>> # << >>
OBVIOUS

LEMMA EmptyHolds ==
    /\ \A x : ~Holds(<< >>, x)
    /\ Once(<< >>)
    /\ \A S : << >> \in Seq(S)
BY DEF Holds, Once

LEMMA StartLength ==
    ASSUME NEW c, c = [g \in Groups |-> c[g]]
    PROVE  Len(c) = Len(Start) /\ c # << >>
<1>1. Len(Start) \in Nat /\ Len(Start) # 0 BY ClusteringAssumption
<1>2. c \in Seq({c[g] : g \in Groups}) BY <1>1 DEF Groups
<1>3. DOMAIN c = 1 .. Len(c) /\ Len(c) \in Nat BY <1>2
<1>4. DOMAIN c = 1 .. Len(Start) BY DEF Groups
<1>5. Len(c) = Len(Start) BY <1>1, <1>3, <1>4
<1> QED BY <1>1, <1>5

LEMMA AttributedReducer ==
    ASSUME NEW g \in Groups
    PROVE  Attributed(g) \in Reducers
<1>1. g \in Int /\ NbReducers \in Nat \ {0}
  BY MapReduceAssumption DEF Groups
<1>2. (g - 1) % NbReducers \in 0 .. NbReducers - 1 BY <1>1
<1> QED BY <1>1, <1>2 DEF Attributed, Reducers

LEMMA AllCounted ==
    ASSUME NEW n \in Nat, NEW S, S \subseteq 1 .. n
    PROVE  Cardinality(S) = n <=> S = 1 .. n
<1>1. IsFiniteSet(1 .. n) /\ Cardinality(1 .. n) = n BY FS_Interval
<1> QED BY <1>1, FS_Subset

-----------------------------------------------------------------------------
(* Asking and mapping.                                                     *)

LEMMA InitPhaseInv == Init => PhaseInv
<1> SUFFICES ASSUME Init PROVE PhaseInv
  OBVIOUS
<1>1. Shape BY DEF Init, Shape
<1>2. \A k \in Queues : Idle(k) BY DEF Init, Idle
<1>3. Still
  BY <1>2, QueueNames
  DEF Init, Still, MapIdle, MapFinishedIdle, ReduceIdle, ReduceFinishedIdle
<1> QED BY <1>1, <1>3 DEF Init, PhaseInv

LEMMA PostInputKeeps ==
    ASSUME MaxTriggers <= 1, PhaseInv, PostInput
    PROVE  PhaseInv'
<1>1. triggers = 0 /\ triggers' \in Nat /\ triggers' # 0
  BY MapReduceAssumption DEF PhaseInv, PostInput
<1>2. Still /\ ~ended /\ centres = << >> /\ displayed = StartCentres
  BY <1>1 DEF PhaseInv
<1>3. Shape' BY DEF PhaseInv, PostInput, Publish, Shape, localVars
<1>4. /\ queue'[Input] = Append(queue[Input], 0)
      /\ \A j \in Queues : j # Input => queue'[j] = queue[j]
  BY Published, QueueNames DEF PhaseInv, PostInput
<1>5. queue'[Input] # << >> /\ Tail(queue'[Input]) = << >>
  BY <1>2, <1>4 DEF Still, Idle
<1>6. Asking'
  BY <1>2, <1>4, <1>5, QueueNames
  DEF PostInput, storeVars, resultVars, StartCentres, Still, Idle, MapIdle, MapFinishedIdle,
      ReduceIdle, ReduceFinishedIdle, Asking, AtRest
<1> QED BY <1>1, <1>3, <1>6 DEF PhaseInv, PostInput, storeVars

LEMMA HandleInputMaps ==
    ASSUME Shape, Asking, HandleInput
    PROVE  Mapping'
<1>1. /\ pc'[Input] = "sending" /\ queue'[Input] = << >>
      /\ \A j \in Queues : j # Input => pc'[j] = pc[j] /\ queue'[j] = queue[j]
  BY Taken, QueueNames DEF Asking, HandleInput
<1>2. next'[Input] = 1 /\ 1 \in Mappers
  BY MapReduceAssumption DEF HandleInput, Shape, Mappers
<1>3. Idle(Shuffle)' /\ ReduceIdle' /\ ReduceFinishedIdle' /\ MapIdle' /\ MapFinishedIdle'
  BY <1>1, QueueNames
  DEF Asking, HandleInput, Idle, MapIdle, MapFinishedIdle, ReduceIdle, ReduceFinishedIdle
<1>4. Prepared' /\ centres' = displayed'
  <2>1. CASE centres = << >>
    <3>1. StartCentres = [g \in Groups |-> StartCentres[g]] BY DEF StartCentres
    <3>2. Len(StartCentres) = Len(Start) /\ StartCentres # << >> BY <3>1, StartLength
    <3>3. displayed = StartCentres BY <2>1 DEF Asking, AtRest, Prepared
    <3>4. centres' = StartCentres /\ assigned' = Unassigned /\ displayed' = displayed
      BY <2>1 DEF HandleInput, resultVars
    <3>5. Prepared' BY <3>1, <3>2, <3>4 DEF Prepared, Unassigned
    <3> QED BY <3>3, <3>4, <3>5
  <2>2. CASE centres # << >>
    BY <2>2 DEF Asking, AtRest, HandleInput, resultVars, Prepared, Chunk, ChunkSize, Mappers,
                Spaces, Groups
  <2> QED BY <2>1, <2>2
<1>5. ASSUME NEW m \in Mappers PROVE (OnePlacePerChunk(m) /\ MapperRight(m))'
  BY <1>3, EmptyHolds
  DEF MapIdle, MapFinishedIdle, Idle, OnePlacePerChunk, MapperRight, Worked, Waiting
<1>6. queue'[MapFinished] = << >> /\ pc'[MapFinished] = "idle" /\ mapDone' = {}
  BY <1>3 DEF MapFinishedIdle, Idle
<1> QED
  BY <1>1, <1>2, <1>3, <1>4, <1>5, <1>6, EmptyHolds DEF Mapping, Asking, HandleInput, resultVars

LEMMA SameChunks ==
    ASSUME UNCHANGED displayed, NEW m
    PROVE  /\ Chunk(m)' = Chunk(m)
           /\ ClosestOf(m)' = ClosestOf(m)
           /\ UNCHANGED assigned => (MappedBy(m)' <=> MappedBy(m))
BY DEF Chunk, ChunkSize, ClosestOf, MappedBy, Spaces

LEMMA SendChunkMaps ==
    ASSUME Shape, Mapping, SendChunk
    PROVE  Mapping'
<1> DEFINE n == next[Input]
<1>1. n \in Mappers /\ pc[Input] = "sending" /\ next'[Input] = n + 1
  BY Gone, QueueNames DEF SendChunk, Mapping, Shape
<1>2. /\ pc'[Input] = IF n = NbMappers THEN "idle" ELSE "sending"
      /\ \A j \in Queues : j # Input => pc'[j] = pc[j]
  BY Gone, QueueNames DEF SendChunk
<1>3. /\ queue'[Map(n)] = Append(queue[Map(n)], Chunk(n))
      /\ \A j \in Queues : j # Map(n) => queue'[j] = queue[j]
  BY <1>1, Published, QueueNames DEF SendChunk
<1>4. ToMap(n) BY <1>1 DEF ToMap, Mappers
<1>5. queue[Map(n)] = << >> BY <1>1, <1>4 DEF Mapping, OnePlacePerChunk
<1>6. queue'[Map(n)] = <<Chunk(n)>> /\ queue'[Map(n)] # << >> BY <1>3, <1>5
<1>7. pc'[Input] = "sending" => next'[Input] \in Mappers
  BY <1>1, <1>2, MapReduceAssumption DEF Mappers
<1>8. \A m \in Mappers : ToMap(m)' => ToMap(m) /\ m # n
  BY <1>1, <1>2 DEF ToMap, Mappers
<1>9. \A m \in Mappers : pc'[Map(m)] = pc[Map(m)] BY <1>2, QueueNames
<1>10. queue'[MapFinished] = queue[MapFinished] /\ pc'[MapFinished] = pc[MapFinished]
       /\ mapDone' = mapDone /\ queue'[Input] = queue[Input]
  BY <1>1, <1>2, <1>3, QueueNames DEF SendChunk, storeVars
<1>11. \A m \in Mappers : m # n => queue'[Map(m)] = queue[Map(m)]
  BY <1>1, <1>3, QueueNames
<1>12. UNCHANGED <<centres, assigned, chosen, displayed, ended, reduceDone>>
  BY DEF SendChunk, storeVars, resultVars
<1>13. ASSUME NEW m \in Mappers PROVE OnePlacePerChunk(m)'
  <2>1. OnePlacePerChunk(m) BY DEF Mapping
  <2>2. CASE m = n
    BY <1>1, <1>4, <1>8, <1>9, <1>10, <2>1, <2>2 DEF OnePlacePerChunk, Worked, Waiting
  <2>3. CASE m # n
    BY <1>8, <1>9, <1>10, <1>11, <2>1, <2>3 DEF OnePlacePerChunk, Worked, Waiting
  <2> QED BY <2>2, <2>3
<1>14. ASSUME NEW m \in Mappers PROVE MapperRight(m)'
  <2>1. MapperRight(m) /\ Chunk(m)' = Chunk(m) BY DEF Mapping, Chunk, ChunkSize
  <2>2. MappedBy(m)' <=> MappedBy(m) BY <1>12, SameChunks
  <2>3. queue'[Map(m)] \in {<< >>, <<Chunk(m)>>}
    BY <1>6, <1>11, <2>1 DEF MapperRight
  <2>4. ClosestOf(m)' = ClosestOf(m) BY <1>12, SameChunks
  <2> QED BY <1>9, <1>10, <1>12, <2>1, <2>2, <2>3, <2>4 DEF MapperRight
<1>15. Idle(Shuffle)' /\ ReduceIdle' /\ ReduceFinishedIdle'
  BY <1>1, <1>2, <1>3, <1>12, QueueNames
  DEF Mapping, Idle, ReduceIdle, ReduceFinishedIdle
<1>16. Prepared' /\ centres' = displayed'
  BY <1>12 DEF Mapping, Prepared, Chunk, ChunkSize
<1> QED
  BY <1>2, <1>7, <1>10, <1>12, <1>13, <1>14, <1>15, <1>16 DEF Mapping

\* What the map phase says of the rest is kept by a step that only concerns the
\* map workers and the queue of their announcements.
LEMMA RestOfMapping ==
    ASSUME Mapping, UNCHANGED <<centres, displayed, ended, reduceDone>>,
           \A k \in {Shuffle, ReduceFinished} \cup {Reduce(r) : r \in Reducers} :
               queue'[k] = queue[k] /\ pc'[k] = pc[k],
           Prepared'
    PROVE  /\ Idle(Shuffle)' /\ ReduceIdle' /\ ReduceFinishedIdle'
           /\ ~ended' /\ Prepared' /\ centres' = displayed'
BY DEF Mapping, Idle, ReduceIdle, ReduceFinishedIdle

LEMMA MapperMaps ==
    ASSUME Shape, Mapping, NEW n \in Mappers, HandleMap(n) \/ MapFails(n)
    PROVE  Mapping'
<1>1. OnePlacePerChunk(n) /\ MapperRight(n) BY DEF Mapping
<1>2. /\ UNCHANGED <<centres, assigned, displayed, ended, reduceDone, mapDone, next>>
      /\ Prepared'
  BY DEF HandleMap, MapFails, storeVars, resultVars, Mapping, Prepared, Chunk, ChunkSize
<1>3. \A j \in Queues : j # Map(n) => pc'[j] = pc[j] /\ queue'[j] = queue[j]
  BY Taken, Gone, QueueNames DEF HandleMap, MapFails
<1>4. /\ Worked(n) /\ Worked(n)' /\ ~ToMap(n) /\ pc'[Map(n)] \in {"saving", "threw"}
      /\ queue'[Map(n)] = << >>
  <2>1. CASE HandleMap(n)
    <3>0. queue[Map(n)] # << >> /\ queue'[Map(n)] = Tail(queue[Map(n)]) /\ pc'[Map(n)] = "saving"
      BY <2>1, Taken, QueueNames DEF HandleMap
    <3>1. queue[Map(n)] = <<Chunk(n)>> /\ queue'[Map(n)] = << >>
      BY <1>1, <3>0, OneMessage DEF MapperRight
    <3>2. Worked(n) /\ ~ToMap(n)
      BY <1>1, <3>0 DEF OnePlacePerChunk, Worked, Waiting
    <3> QED BY <3>0, <3>1, <3>2 DEF Worked
  <2>2. CASE MapFails(n)
    <3>1. pc[Map(n)] = "saving" /\ pc'[Map(n)] \in {"saving", "threw"} /\ queue' = queue
      BY <2>2, Gone, QueueNames DEF MapFails
    <3> QED BY <1>1, <3>1 DEF OnePlacePerChunk, Worked, Waiting
  <2> QED BY <2>1, <2>2
<1>5. chosen'[n] = ClosestOf(n)
  <2>1. CASE HandleMap(n)
    <3>1. Head(queue[Map(n)]) = Chunk(n)
      BY <1>1, <2>1, Taken, QueueNames DEF HandleMap, MapperRight
    <3> QED BY <2>1, <3>1 DEF HandleMap, Shape, Choose, Mapping, ClosestOf
  <2>2. CASE MapFails(n)
    <3>1. chosen[n] = ClosestOf(n)
      BY <1>1, <2>2, Gone, QueueNames DEF MapFails, MapperRight
    <3>2. DOMAIN chosen[n] = Chunk(n) BY <3>1 DEF ClosestOf
    <3> QED BY <2>2, <3>2 DEF MapFails, Shape, Choose, Mapping, ClosestOf
  <2> QED BY <2>1, <2>2
<1>6. \A m \in Mappers : m # n => chosen'[m] = chosen[m]
  BY DEF HandleMap, MapFails, Shape
<1>7. /\ \A k \in {Input, MapFinished} : queue'[k] = queue[k] /\ pc'[k] = pc[k]
      /\ \A m \in Mappers : m # n => queue'[Map(m)] = queue[Map(m)] /\ pc'[Map(m)] = pc[Map(m)]
      /\ \A m \in Mappers : ToMap(m)' <=> ToMap(m)
  BY <1>2, <1>3, QueueNames DEF ToMap
<1>8. ASSUME NEW m \in Mappers PROVE (OnePlacePerChunk(m) /\ MapperRight(m))'
  <2>1. OnePlacePerChunk(m) /\ MapperRight(m) BY DEF Mapping
  <2>2. (MappedBy(m)' <=> MappedBy(m)) /\ ClosestOf(m)' = ClosestOf(m) /\ Chunk(m)' = Chunk(m)
    BY <1>2, SameChunks
  <2>3. CASE m = n
    BY <1>2, <1>4, <1>5, <1>7, <2>1, <2>2, <2>3
    DEF OnePlacePerChunk, MapperRight, Worked, Waiting
  <2>4. CASE m # n
    BY <1>2, <1>6, <1>7, <2>1, <2>2, <2>4
    DEF OnePlacePerChunk, MapperRight, Worked, Waiting
  <2> QED BY <2>3, <2>4
<1>9. Idle(Shuffle)' /\ ReduceIdle' /\ ReduceFinishedIdle' /\ ~ended' /\ centres' = displayed'
  BY <1>2, <1>3, QueueNames, RestOfMapping
<1> QED BY <1>2, <1>7, <1>8, <1>9 DEF Mapping

LEMMA SaveMappedMaps ==
    ASSUME Shape, Mapping, NEW n \in Mappers, SaveMapped(n)
    PROVE  Mapping'
<1>1. OnePlacePerChunk(n) /\ MapperRight(n) BY DEF Mapping
<1>2. UNCHANGED <<centres, displayed, ended, reduceDone, mapDone, next, chosen, queue>>
  BY DEF SaveMapped, resultVars, localVars
<1>3. /\ pc[Map(n)] = "saving" /\ pc'[Map(n)] = "publishing"
      /\ \A j \in Queues : j # Map(n) => pc'[j] = pc[j]
  BY Gone, QueueNames DEF SaveMapped
<1>4. \A s \in Spaces : assigned'[s] = IF s \in Chunk(n) THEN Closest(displayed, s)
                                      ELSE assigned[s]
  BY <1>1, <1>3 DEF SaveMapped, MapperRight, ClosestOf
<1>5. Prepared'
  BY <1>2, <1>4 DEF SaveMapped, Mapping, Prepared, Chunk, ChunkSize
<1>6. /\ MappedBy(n)'
      /\ \A m \in Mappers : MappedBy(m) => MappedBy(m)'
  BY <1>2, <1>4 DEF MappedBy, Chunk, ChunkSize, Closest, Nearer
<1>7. \A m \in Mappers : (ToMap(m)' <=> ToMap(m)) /\ (m # n => pc'[Map(m)] = pc[Map(m)])
  BY <1>2, <1>3, QueueNames DEF ToMap
<1>8. ASSUME NEW m \in Mappers PROVE (OnePlacePerChunk(m) /\ MapperRight(m))'
  <2>1. /\ OnePlacePerChunk(m) /\ MapperRight(m) /\ Chunk(m)' = Chunk(m)
        /\ ClosestOf(m)' = ClosestOf(m)
    BY <1>2, SameChunks DEF Mapping
  <2>2. CASE m = n
    BY <1>2, <1>3, <1>6, <1>7, <2>1, <2>2
    DEF OnePlacePerChunk, MapperRight, Worked, Waiting
  <2>3. CASE m # n
    BY <1>2, <1>6, <1>7, <2>1, <2>3
    DEF OnePlacePerChunk, MapperRight, Worked, Waiting
  <2> QED BY <2>2, <2>3
<1>9. Idle(Shuffle)' /\ ReduceIdle' /\ ReduceFinishedIdle' /\ ~ended' /\ centres' = displayed'
  BY <1>2, <1>3, <1>5, QueueNames, RestOfMapping
<1> QED BY <1>2, <1>3, <1>5, <1>8, <1>9, QueueNames DEF Mapping

LEMMA PublishMapFinishedMaps ==
    ASSUME Shape, Mapping, NEW n \in Mappers, PublishMapFinished(n)
    PROVE  Mapping'
<1>1. OnePlacePerChunk(n) /\ MapperRight(n) BY DEF Mapping
<1>2. UNCHANGED <<centres, assigned, displayed, ended, reduceDone, mapDone, next, chosen>>
  BY DEF PublishMapFinished, storeVars, resultVars, localVars
<1>3. /\ pc[Map(n)] = "publishing" /\ pc'[Map(n)] = "idle"
      /\ \A j \in Queues : j # Map(n) => pc'[j] = pc[j]
  BY Gone, QueueNames DEF PublishMapFinished
<1>4. /\ queue'[MapFinished] = Append(queue[MapFinished], n)
      /\ \A j \in Queues : j # MapFinished => queue'[j] = queue[j]
  BY Published, QueueNames DEF PublishMapFinished
<1>5. Worked(n) /\ ~Waiting(n) BY <1>1, <1>3 DEF Worked, OnePlacePerChunk
<1>6. /\ queue'[MapFinished] \in Seq(Mappers) /\ Once(queue'[MapFinished])
      /\ \A m : Holds(queue'[MapFinished], m) <=> Holds(queue[MapFinished], m) \/ m = n
  BY <1>1, <1>4, <1>5, AppendHolds DEF Mapping, OnePlacePerChunk
<1>7. Prepared' BY <1>2 DEF Mapping, Prepared, Chunk, ChunkSize
<1>8. \A m \in Mappers : /\ ToMap(m)' <=> ToMap(m)
                         /\ m # n => pc'[Map(m)] = pc[Map(m)]
                         /\ queue'[Map(m)] = queue[Map(m)]
                         /\ MappedBy(m)' <=> MappedBy(m)
                         /\ ClosestOf(m)' = ClosestOf(m) /\ Chunk(m)' = Chunk(m)
  BY <1>2, <1>3, <1>4, QueueNames, SameChunks DEF ToMap
<1>9. ASSUME NEW m \in Mappers PROVE (OnePlacePerChunk(m) /\ MapperRight(m))'
  <2>1. OnePlacePerChunk(m) /\ MapperRight(m) BY DEF Mapping
  <2>2. Holds(queue[MapFinished], m)' <=> Holds(queue[MapFinished], m) \/ m = n BY <1>6
  <2>3. OnePlacePerChunk(m)'
    BY <1>2, <1>3, <1>5, <1>8, <2>1, <2>2 DEF OnePlacePerChunk, Worked, Waiting
  <2>4. MapperRight(m)'
    BY <1>2, <1>3, <1>8, <2>1, <2>2 DEF MapperRight
  <2> QED BY <2>3, <2>4
<1>10. Idle(Shuffle)' /\ ReduceIdle' /\ ReduceFinishedIdle' /\ ~ended' /\ centres' = displayed'
  BY <1>2, <1>3, <1>4, <1>7, QueueNames, RestOfMapping
<1> QED BY <1>2, <1>3, <1>4, <1>6, <1>7, <1>9, <1>10, QueueNames DEF Mapping

LEMMA HandleMapFinishedMaps ==
    ASSUME Shape, Mapping, HandleMapFinished
    PROVE  Mapping'
<1> DEFINE q == queue[MapFinished]
           n == Head(q)
<1>1. UNCHANGED <<centres, assigned, displayed, ended, reduceDone, next, chosen>>
  BY DEF HandleMapFinished, resultVars, localVars
<1>2. /\ q # << >> /\ queue'[MapFinished] = Tail(q) /\ pc'[MapFinished] = "counting"
      /\ \A j \in Queues : j # MapFinished => pc'[j] = pc[j] /\ queue'[j] = queue[j]
      /\ mapDone' = mapDone \cup {n}
  BY Taken, QueueNames DEF HandleMapFinished
<1>3. /\ n \in Mappers /\ Holds(q, n)
      /\ Tail(q) \in Seq(Mappers) /\ Once(Tail(q))
      /\ \A m : Holds(Tail(q), m) => Holds(q, m) /\ m # n
  BY <1>2, TailHolds DEF Mapping
<1>4. Prepared' BY <1>1 DEF Mapping, Prepared, Chunk, ChunkSize
<1>5. \A m \in Mappers : /\ ToMap(m)' <=> ToMap(m)
                         /\ pc'[Map(m)] = pc[Map(m)] /\ queue'[Map(m)] = queue[Map(m)]
                         /\ MappedBy(m)' <=> MappedBy(m)
                         /\ ClosestOf(m)' = ClosestOf(m) /\ Chunk(m)' = Chunk(m)
  BY <1>1, <1>2, QueueNames, SameChunks DEF ToMap
<1>6. ASSUME NEW m \in Mappers PROVE (OnePlacePerChunk(m) /\ MapperRight(m))'
  <2>1. OnePlacePerChunk(m) /\ MapperRight(m) BY DEF Mapping
  <2>2. Worked(m)' <=> Worked(m) BY <1>5 DEF Worked, Waiting
  <2>3. Holds(queue[MapFinished], m)' <=> Holds(Tail(q), m) BY <1>2
  <2>4. OnePlacePerChunk(m)'
    BY <1>2, <1>3, <1>5, <2>1, <2>2, <2>3 DEF OnePlacePerChunk, Waiting
  <2>5. MapperRight(m)'
    BY <1>1, <1>2, <1>3, <1>5, <2>1, <2>3 DEF MapperRight
  <2> QED BY <2>4, <2>5
<1>7. Idle(Shuffle)' /\ ReduceIdle' /\ ReduceFinishedIdle' /\ ~ended' /\ centres' = displayed'
  BY <1>1, <1>2, <1>4, QueueNames, RestOfMapping
<1> QED BY <1>1, <1>2, <1>3, <1>4, <1>6, <1>7, QueueNames DEF Mapping

LEMMA CountMapFinishedCounts ==
    ASSUME Shape, Mapping, CountMapFinished
    PROVE  Mapping' \/ Shuffling'
<1>1. UNCHANGED <<centres, assigned, displayed, ended, reduceDone, next, chosen, queue>>
  BY DEF CountMapFinished, resultVars, localVars
<1>2. /\ pc[MapFinished] = "counting"
      /\ pc'[MapFinished] = IF AllMapped THEN "publishing" ELSE "idle"
      /\ \A j \in Queues : j # MapFinished => pc'[j] = pc[j]
  BY Gone, QueueNames DEF CountMapFinished
<1>3. Prepared' BY <1>1 DEF Mapping, Prepared, Chunk, ChunkSize
<1>4. Idle(Shuffle)' /\ ReduceIdle' /\ ReduceFinishedIdle' /\ ~ended' /\ centres' = displayed'
  BY <1>1, <1>2, <1>3, QueueNames, RestOfMapping
<1>5. \A m \in Mappers : /\ ToMap(m)' <=> ToMap(m)
                         /\ pc'[Map(m)] = pc[Map(m)]
                         /\ MappedBy(m)' <=> MappedBy(m)
                         /\ ClosestOf(m)' = ClosestOf(m) /\ Chunk(m)' = Chunk(m)
  BY <1>1, <1>2, QueueNames, SameChunks DEF ToMap
<1>6. CASE ~AllMapped
  <2>1. mapDone' = mapDone BY <1>6 DEF CountMapFinished
  <2>2. ASSUME NEW m \in Mappers PROVE (OnePlacePerChunk(m) /\ MapperRight(m))'
    <3>1. OnePlacePerChunk(m) /\ MapperRight(m) BY DEF Mapping
    <3> QED BY <1>1, <1>5, <2>1, <3>1 DEF OnePlacePerChunk, MapperRight, Worked, Waiting
  <2> QED BY <1>1, <1>2, <1>3, <1>4, <1>6, <2>1, <2>2, QueueNames DEF Mapping
<1>7. CASE AllMapped
  <2>1. mapDone = Mappers
    BY <1>7, AllCounted, MapReduceAssumption DEF AllMapped, Mappers, Mapping
  <2>2. \A m \in Mappers : ~Worked(m) /\ ~Holds(queue[MapFinished], m) /\ MappedBy(m)
    BY <2>1 DEF Mapping, OnePlacePerChunk, MapperRight
  <2>3. pc[Input] = "idle"
    <3>1. pc[Input] = "sending" => ToMap(next[Input]) /\ next[Input] \in Mappers
      BY DEF Mapping, ToMap, Mappers
    <3> QED BY <2>2, <3>1 DEF Worked, Waiting, Mapping
  <2>4. queue[MapFinished] = << >>
    BY <2>2, TailHolds DEF Mapping
  <2>5. MapIdle' BY <1>1, <1>5, <2>2 DEF MapIdle, Idle, Worked, Waiting
  <2>6. mapDone' = {} BY <1>7 DEF CountMapFinished
  <2>7. Idle(Input)' /\ queue'[MapFinished] = << >> /\ pc'[MapFinished] = "publishing"
    BY <1>1, <1>2, <1>7, <2>3, <2>4, QueueNames DEF Idle, Mapping
  <2> QED BY <1>3, <1>4, <1>5, <2>2, <2>5, <2>6, <2>7 DEF Shuffling, Idle
<1> QED BY <1>6, <1>7

-----------------------------------------------------------------------------
(* Shuffling.                                                              *)

LEMMA PublishShuffleShuffles ==
    ASSUME Shape, Shuffling, PublishShuffle
    PROVE  Shuffling'
<1>1. UNCHANGED <<centres, assigned, displayed, ended, reduceDone, mapDone>>
  BY DEF PublishShuffle, storeVars, resultVars
<1>2. /\ pc[MapFinished] = "publishing" /\ pc'[MapFinished] = "idle"
      /\ \A j \in Queues : j # MapFinished => pc'[j] = pc[j]
  BY Gone, QueueNames DEF PublishShuffle
<1>3. /\ queue'[Shuffle] = Append(queue[Shuffle], 0)
      /\ \A j \in Queues : j # Shuffle => queue'[j] = queue[j]
  BY Published, QueueNames DEF PublishShuffle
<1>4. queue[Shuffle] = << >> BY <1>2 DEF Shuffling
<1>5. queue'[Shuffle] # << >> /\ Tail(queue'[Shuffle]) = << >>
  BY <1>3, <1>4
<1>6. Idle(Input)' /\ MapIdle' /\ ReduceIdle' /\ ReduceFinishedIdle'
  BY <1>1, <1>2, <1>3, QueueNames DEF Shuffling, Idle, MapIdle, ReduceIdle, ReduceFinishedIdle
<1>7. Prepared' /\ \A m \in Mappers : MappedBy(m)'
  BY <1>1, SameChunks DEF Shuffling, Prepared
<1> QED BY <1>1, <1>2, <1>3, <1>5, <1>6, <1>7, QueueNames DEF Shuffling

\* No group is anywhere yet.
LEMMA HandleShuffleReduces ==
    ASSUME Shape, close \subseteq Groups, Shuffling, HandleShuffle
    PROVE  ReducingPhase'
<1>1. UNCHANGED <<centres, assigned, displayed, ended, reduceDone, mapDone, close, fresh>>
  BY DEF HandleShuffle, storeVars, resultVars
<1>2. /\ queue[Shuffle] # << >> /\ queue'[Shuffle] = Tail(queue[Shuffle])
      /\ pc'[Shuffle] = "sending"
      /\ \A j \in Queues : j # Shuffle => pc'[j] = pc[j] /\ queue'[j] = queue[j]
  BY Taken, QueueNames DEF HandleShuffle
<1>3. queue'[Shuffle] = << >> /\ pc[MapFinished] = "idle"
  BY <1>2 DEF Shuffling
<1>4. next'[Shuffle] = 1 /\ 1 \in Groups
  BY ClusteringAssumption DEF HandleShuffle, Shape, Groups
<1>5. Idle(Input)' /\ MapIdle' /\ MapFinishedIdle' /\ ReduceIdle' /\ ReduceFinishedIdle'
  BY <1>1, <1>2, <1>3, QueueNames
  DEF Shuffling, Idle, MapIdle, MapFinishedIdle, ReduceIdle, ReduceFinishedIdle
<1>6. Prepared' /\ \A m \in Mappers : MappedBy(m)'
  BY <1>1, SameChunks DEF Shuffling, Prepared
<1>7. ASSUME NEW r \in Reducers PROVE ReducerRight(r)'
  BY <1>5, EmptyHolds DEF ReduceIdle, Idle, ReducerRight
<1>8. ASSUME NEW g \in Groups PROVE (OnePlacePerGroup(g) /\ GroupRight(g))'
  <2>1. Idle(Reduce(Attributed(g)))' BY <1>5, AttributedReducer DEF ReduceIdle
  <2>2. ~Holds(queue[Reduce(Attributed(g))], g)' /\ ~Reducing(g)'
    BY <2>1, EmptyHolds DEF Idle, Reducing
  <2>3. ~Announced(g)' /\ g \notin reduceDone'
    BY <1>5, EmptyHolds DEF ReduceFinishedIdle, Idle, Announced
  <2>4. centres'[g] = displayed'[g] BY <1>1 DEF Shuffling
  <2> QED BY <2>2, <2>3, <2>4 DEF OnePlacePerGroup, GroupRight, ToAverage
<1>9. queue'[ReduceFinished] = << >> /\ pc'[ReduceFinished] = "idle" /\ reduceDone' = {}
  BY <1>5 DEF ReduceFinishedIdle, Idle
<1> QED BY <1>1, <1>2, <1>3, <1>4, <1>5, <1>6, <1>7, <1>8, <1>9, EmptyHolds
        DEF ReducingPhase, Shuffling

-----------------------------------------------------------------------------
(* Reducing.                                                               *)

\* A step that leaves what was displayed is about the same results.
LEMMA SameResults ==
    ASSUME UNCHANGED displayed, NEW g
    PROVE  /\ Moved(g)' = Moved(g)
           /\ MovedLittle(g)' <=> MovedLittle(g)
           /\ Result(g)' = Result(g)
           /\ Announcement(g)' = Announcement(g)
           /\ Attributed(g)' = Attributed(g)
BY DEF Moved, MovedLittle, Result, Announcement, Attributed, Spaces

\* What the reduce phase says of the rest.
RestOfReducing ==
    /\ Idle(Input) /\ MapIdle /\ MapFinishedIdle
    /\ ~ended /\ Prepared
    /\ \A m \in Mappers : MappedBy(m)

LEMMA RestOfReducingKept ==
    ASSUME ReducingPhase, UNCHANGED <<assigned, displayed, ended, mapDone>>,
           centres' = [g \in Groups |-> centres'[g]], Len(centres') = Len(Start), centres' # << >>,
           \A k \in {Input, MapFinished} \cup {Map(m) : m \in Mappers} :
               queue'[k] = queue[k] /\ pc'[k] = pc[k]
    PROVE  RestOfReducing'
<1>1. Prepared' BY DEF ReducingPhase, Prepared, Chunk, ChunkSize
<1>2. \A m \in Mappers : MappedBy(m)' BY SameChunks DEF ReducingPhase
<1> QED BY <1>1, <1>2 DEF ReducingPhase, RestOfReducing, Idle, MapIdle, MapFinishedIdle

LEMMA SendGroupReduces ==
    ASSUME Shape, ReducingPhase, SendGroup
    PROVE  ReducingPhase'
<1> DEFINE n == next[Shuffle]
           k == Reduce(Attributed(n))
<1>1. n \in Groups /\ pc[Shuffle] = "sending" /\ next'[Shuffle] = n + 1
  BY Gone, QueueNames DEF SendGroup, ReducingPhase, Shape
<1>2. /\ pc'[Shuffle] = IF n = Len(Start) THEN "idle" ELSE "sending"
      /\ \A j \in Queues : j # Shuffle => pc'[j] = pc[j]
  BY Gone, QueueNames DEF SendGroup, ReducingPhase, Prepared
<1>3. Attributed(n) \in Reducers /\ k \in Queues BY <1>1, AttributedReducer, QueueNames
<1>4. /\ queue'[k] = Append(queue[k], n)
      /\ \A j \in Queues : j # k => queue'[j] = queue[j]
  BY <1>3, Published DEF SendGroup
<1>5. UNCHANGED <<centres, assigned, displayed, ended, reduceDone, mapDone, close, fresh>>
  BY DEF SendGroup, storeVars, resultVars
<1>6. ToReduce(n) BY <1>1 DEF ToReduce, Groups
<1>7. ~Holds(queue[k], n) BY <1>1, <1>6 DEF ReducingPhase, OnePlacePerGroup
<1>8. ReducerRight(Attributed(n)) BY <1>3 DEF ReducingPhase
<1>9. /\ queue'[k] \in Seq({g \in Groups : Attributed(g) = Attributed(n)}) /\ Once(queue'[k])
      /\ \A g : Holds(queue'[k], g) <=> Holds(queue[k], g) \/ g = n
  BY <1>1, <1>4, <1>7, <1>8, AppendHolds DEF ReducerRight
<1>10. \A g \in Groups : ToReduce(g)' => ToReduce(g) /\ g # n
  BY <1>1, <1>2 DEF ToReduce, Groups
<1>11. pc'[Shuffle] = "sending" => next'[Shuffle] \in Groups
  BY <1>1, <1>2 DEF Groups
<1>12. RestOfReducing'
  BY <1>2, <1>3, <1>4, <1>5, QueueNames, RestOfReducingKept DEF ReducingPhase, Prepared
<1>13. ASSUME NEW r \in Reducers PROVE ReducerRight(r)'
  <2>1. ReducerRight(r) BY DEF ReducingPhase
  <2>2. pc'[Reduce(r)] = pc[Reduce(r)] BY <1>2, QueueNames
  <2>3. /\ queue'[Reduce(r)] \in Seq({g \in Groups : Attributed(g) = r})
        /\ Once(queue'[Reduce(r)])
    <3>1. CASE r = Attributed(n) BY <1>9, <3>1
    <3>2. CASE r # Attributed(n) BY <1>3, <1>4, <2>1, <3>2, QueueNames DEF ReducerRight
    <3> QED BY <3>1, <3>2
  <2>4. Result(fresh[r].group)' = Result(fresh[r].group) BY <1>5, SameResults
  <2> QED BY <1>5, <2>1, <2>2, <2>3, <2>4 DEF ReducerRight
<1>14. ASSUME NEW g \in Groups PROVE (OnePlacePerGroup(g) /\ GroupRight(g))'
  <2>1. OnePlacePerGroup(g) /\ GroupRight(g) BY DEF ReducingPhase
  <2>2. Attributed(g) \in Reducers BY AttributedReducer
  <2>3. Holds(queue[Reduce(Attributed(g))], g)' => Holds(queue[Reduce(Attributed(g))], g) \/ g = n
    <3>1. CASE Attributed(g) = Attributed(n) BY <1>9, <3>1
    <3>2. CASE Attributed(g) # Attributed(n)
      BY <1>3, <1>4, <2>2, <3>2, QueueNames
    <3> QED BY <3>1, <3>2
  <2>4. ToAverage(g)' => ToAverage(g)
    BY <1>6, <1>10, <2>3 DEF ToAverage
  <2>5. /\ Reducing(g)' <=> Reducing(g)
        /\ Announced(g)' <=> Announced(g)
        /\ pc'[Reduce(Attributed(g))] = pc[Reduce(Attributed(g))]
    BY <1>2, <1>3, <1>4, <1>5, <2>2, QueueNames, SameResults DEF Reducing, Announced
  <2>6. OnePlacePerGroup(g)'
    BY <1>5, <1>10, <2>1, <2>3, <2>4, <2>5 DEF OnePlacePerGroup
  <2>7. GroupRight(g)'
    BY <1>5, <2>1, <2>4, <2>5, SameResults DEF GroupRight
  <2> QED BY <2>6, <2>7
<1>15. {Announcement(g) : g \in Groups}' = {Announcement(g) : g \in Groups}
  BY <1>5, SameResults
<1>16. /\ queue'[Shuffle] = << >> /\ pc'[Shuffle] \in {"idle", "sending"}
       /\ queue'[ReduceFinished] = queue[ReduceFinished]
       /\ pc'[ReduceFinished] = pc[ReduceFinished]
  BY <1>2, <1>3, <1>4, QueueNames DEF ReducingPhase
<1> QED BY <1>5, <1>11, <1>12, <1>13, <1>14, <1>15, <1>16 DEF ReducingPhase, RestOfReducing

\* A worker that does not throw has found every space assigned: none is left over.
LEMMA HandleReduceReduces ==
    ASSUME Shape, ReducingPhase, NEW r \in Reducers, HandleReduce(r)
    PROVE  ReducingPhase'
<1> DEFINE q == queue[Reduce(r)]
           n == Head(q)
           average == Average({s \in Spaces : assigned[s] = n})
<1>1. UNCHANGED <<centres, assigned, displayed, ended, reduceDone, mapDone, close, next>>
  BY DEF HandleReduce, storeVars, resultVars
<1>2. /\ pc[Reduce(r)] = "idle" /\ q # << >> /\ queue'[Reduce(r)] = Tail(q)
      /\ pc'[Reduce(r)] = IF \E s \in DOMAIN assigned : assigned[s] = 0 THEN "threw" ELSE "saving"
      /\ \A j \in Queues : j # Reduce(r) => pc'[j] = pc[j] /\ queue'[j] = queue[j]
  BY Taken, QueueNames DEF HandleReduce
<1>3. /\ fresh'[r] = [group |-> n, centre |-> average, close |-> UnderEpsilon(average, centres[n])]
      /\ \A p \in Reducers : p # r => fresh'[p] = fresh[p]
  BY DEF HandleReduce, Shape
<1>4. ReducerRight(r) BY DEF ReducingPhase
<1>5. /\ n \in Groups /\ Attributed(n) = r /\ Holds(q, n)
      /\ Tail(q) \in Seq({g \in Groups : Attributed(g) = r}) /\ Once(Tail(q))
      /\ \A g : Holds(Tail(q), g) => Holds(q, g) /\ g # n
  BY <1>2, <1>4, TailHolds DEF ReducerRight
<1>6. ToAverage(n) BY <1>5 DEF ToAverage
<1>7. OnePlacePerGroup(n) /\ centres[n] = displayed[n]
  BY <1>5, <1>6 DEF ReducingPhase, GroupRight
<1>8. pc'[Reduce(r)] = "saving" => fresh'[r] = Result(n)
  <2>1. SUFFICES ASSUME pc'[Reduce(r)] = "saving" PROVE fresh'[r] = Result(n)
    OBVIOUS
  <2>2. \A s \in Spaces : assigned[s] # 0 BY <1>2, <2>1 DEF ReducingPhase, Prepared
  <2>3. \A s \in Spaces : \E m \in Mappers : s \in Chunk(m)
    BY <2>2 DEF ReducingPhase, Prepared
  <2>4. \A s \in Spaces : assigned[s] = Closest(displayed, s)
    BY <2>3 DEF ReducingPhase, MappedBy
  <2>5. {s \in Spaces : assigned[s] = n} = {s \in Spaces : Closest(displayed, s) = n}
    BY <2>4
  <2>6. average = Moved(n) BY <2>5 DEF Moved
  <2> QED BY <1>3, <1>7, <2>6 DEF Result, MovedLittle
<1>9. RestOfReducing'
  BY <1>1, <1>2, QueueNames, RestOfReducingKept DEF ReducingPhase, Prepared
<1>10. ASSUME NEW p \in Reducers PROVE ReducerRight(p)'
  <2>1. ReducerRight(p) BY DEF ReducingPhase
  <2>2. \A g : Result(g)' = Result(g) BY <1>1, SameResults
  <2>3. CASE p = r
    <3>1. fresh'[r].group = n BY <1>3
    <3>2. pc'[Reduce(r)] = "saving" => fresh'[r] = Result(fresh[r].group)'
      BY <1>8, <2>2, <3>1
    <3>3. pc'[Reduce(r)] \in {"saving", "threw"} BY <1>2
    <3> QED BY <1>2, <1>5, <2>3, <3>1, <3>2, <3>3 DEF ReducerRight
  <2>4. CASE p # r
    <3>1. queue'[Reduce(p)] = queue[Reduce(p)] /\ pc'[Reduce(p)] = pc[Reduce(p)]
          /\ fresh'[p] = fresh[p]
      BY <1>2, <1>3, <2>4, QueueNames
    <3> QED BY <2>1, <2>2, <3>1 DEF ReducerRight
  <2> QED BY <2>3, <2>4
<1>11. ASSUME NEW g \in Groups PROVE (OnePlacePerGroup(g) /\ GroupRight(g))'
  <2>1. OnePlacePerGroup(g) /\ GroupRight(g) BY DEF ReducingPhase
  <2>2. Attributed(g) \in Reducers BY AttributedReducer
  <2>3. /\ ToReduce(g)' <=> ToReduce(g)
        /\ Announced(g)' <=> Announced(g)
    BY <1>1, <1>2, QueueNames, SameResults DEF ToReduce, Announced
  <2>4. CASE g = n
    <3>1. ~ToAverage(g)' /\ pc'[Reduce(Attributed(g))] # "publishing"
      BY <1>2, <1>5, <1>7, <2>3, <2>4 DEF ToAverage, OnePlacePerGroup
    <3> QED BY <1>1, <1>6, <2>1, <2>3, <2>4, <3>1, SameResults
            DEF OnePlacePerGroup, GroupRight, ToAverage
  <2>5. CASE g # n
    <3>1. /\ Holds(queue[Reduce(Attributed(g))], g)' => Holds(queue[Reduce(Attributed(g))], g)
          /\ Reducing(g)' => Reducing(g) /\ pc'[Reduce(Attributed(g))] = pc[Reduce(Attributed(g))]
      <4>1. CASE Attributed(g) = r
        BY <1>2, <1>3, <1>5, <2>5, <4>1 DEF Reducing
      <4>2. CASE Attributed(g) # r
        BY <1>2, <1>3, <2>2, <4>2, QueueNames DEF Reducing
      <4> QED BY <4>1, <4>2
    <3>2. OnePlacePerGroup(g)'
      BY <1>1, <2>1, <2>3, <3>1 DEF OnePlacePerGroup, ToAverage
    <3>3. GroupRight(g)'
      BY <1>1, <2>1, <2>3, <3>1, SameResults DEF GroupRight, ToAverage
    <3> QED BY <3>2, <3>3
  <2> QED BY <2>4, <2>5
<1>12. {Announcement(g) : g \in Groups}' = {Announcement(g) : g \in Groups}
  BY <1>1, SameResults
<1> QED BY <1>1, <1>2, <1>9, <1>10, <1>11, <1>12, QueueNames DEF ReducingPhase, RestOfReducing

LEMMA SaveReducedReduces ==
    ASSUME Shape, ReducingPhase, NEW r \in Reducers, SaveReduced(r)
    PROVE  ReducingPhase'
<1> DEFINE n == fresh[r].group
<1>1. UNCHANGED <<assigned, displayed, ended, reduceDone, mapDone, close, next, fresh, queue>>
  BY DEF SaveReduced, resultVars, localVars
<1>2. /\ pc[Reduce(r)] = "saving" /\ pc'[Reduce(r)] = "publishing"
      /\ \A j \in Queues : j # Reduce(r) => pc'[j] = pc[j]
  BY Gone, QueueNames DEF SaveReduced
<1>3. ReducerRight(r) BY DEF ReducingPhase
<1>4. n \in Groups /\ Attributed(n) = r /\ fresh[r] = Result(n)
  BY <1>2, <1>3 DEF ReducerRight
<1>5. Reducing(n) BY <1>2, <1>4 DEF Reducing
<1>6. /\ DOMAIN centres' = Groups /\ centres' = [g \in Groups |-> centres'[g]]
      /\ centres'[n] = Moved(n)
      /\ \A g \in Groups : g # n => centres'[g] = centres[g]
  <2>1. DOMAIN centres = Groups BY DEF ReducingPhase, Prepared
  <2>2. centres' = [centres EXCEPT ![n] = fresh[r].centre] BY DEF SaveReduced
  <2>3. fresh[r].centre = Moved(n)
    <3>1. \A g : Result(g).centre = Moved(g) BY DEF Result
    <3> QED BY <1>4, <3>1
  <2> QED BY <1>4, <2>1, <2>2, <2>3
<1>7. RestOfReducing'
  BY <1>1, <1>2, <1>6, StartLength, QueueNames, RestOfReducingKept
<1>8. ASSUME NEW p \in Reducers PROVE ReducerRight(p)'
  <2>1. ReducerRight(p) BY DEF ReducingPhase
  <2>2. \A g : Result(g)' = Result(g) BY <1>1, SameResults
  <2>3. p # r => pc'[Reduce(p)] = pc[Reduce(p)] BY <1>2, QueueNames
  <2> QED BY <1>1, <1>2, <2>1, <2>2, <2>3 DEF ReducerRight
<1>9. ASSUME NEW g \in Groups PROVE (OnePlacePerGroup(g) /\ GroupRight(g))'
  <2>1. OnePlacePerGroup(g) /\ GroupRight(g) BY DEF ReducingPhase
  <2>2. Attributed(g) \in Reducers BY AttributedReducer
  <2>3. /\ ToReduce(g)' <=> ToReduce(g)
        /\ Announced(g)' <=> Announced(g)
        /\ ToAverage(g)' <=> ToAverage(g)
        /\ Reducing(g)' <=> Reducing(g)
        /\ Holds(queue[Reduce(Attributed(g))], g)' <=> Holds(queue[Reduce(Attributed(g))], g)
    BY <1>1, <1>2, <2>2, QueueNames, SameResults
    DEF ToReduce, Announced, ToAverage, Reducing
  <2>4. OnePlacePerGroup(g)' BY <1>1, <2>1, <2>3 DEF OnePlacePerGroup
  <2>5. CASE g = n
    <3>1. ~ToAverage(g) BY <1>5, <2>1, <2>5 DEF OnePlacePerGroup
    <3>2. centres'[g] = Moved(g)' BY <1>1, <1>6, <2>5, SameResults
    <3>3. g \in reduceDone => (g \in close <=> MovedLittle(g)) BY <2>1 DEF GroupRight
    <3> QED BY <1>1, <2>3, <2>4, <3>1, <3>2, <3>3, SameResults DEF GroupRight
  <2>6. CASE g # n
    <3>1. Reducing(g) => pc'[Reduce(Attributed(g))] = pc[Reduce(Attributed(g))]
      BY <1>2, <2>2, <2>6, QueueNames DEF Reducing
    <3>2. centres'[g] = centres[g] BY <1>6, <2>6
    <3>3. GroupRight(g)' BY <1>1, <2>1, <2>3, <3>1, <3>2, SameResults DEF GroupRight
    <3> QED BY <2>4, <3>3
  <2> QED BY <2>5, <2>6
<1>10. {Announcement(g) : g \in Groups}' = {Announcement(g) : g \in Groups}
  BY <1>1, SameResults
<1> QED BY <1>1, <1>2, <1>7, <1>8, <1>9, <1>10, QueueNames DEF ReducingPhase, RestOfReducing

LEMMA PublishReduceFinishedReduces ==
    ASSUME Shape, ReducingPhase, NEW r \in Reducers, PublishReduceFinished(r)
    PROVE  ReducingPhase'
<1> DEFINE n == fresh[r].group
           q == queue[ReduceFinished]
<1>1. UNCHANGED <<centres, assigned, displayed, ended, reduceDone, mapDone, close, next, fresh>>
  BY DEF PublishReduceFinished, storeVars, resultVars, localVars
<1>2. /\ pc[Reduce(r)] = "publishing" /\ pc'[Reduce(r)] = "idle"
      /\ \A j \in Queues : j # Reduce(r) => pc'[j] = pc[j]
  BY Gone, QueueNames DEF PublishReduceFinished
<1>3. ReducerRight(r) BY DEF ReducingPhase
<1>4. n \in Groups /\ Attributed(n) = r /\ fresh[r] = Result(n)
  BY <1>2, <1>3 DEF ReducerRight
<1>5. /\ queue'[ReduceFinished] = Append(q, Announcement(n))
      /\ \A j \in Queues : j # ReduceFinished => queue'[j] = queue[j]
  <2>1. [group |-> fresh[r].group, close |-> fresh[r].close] = Announcement(n)
    BY <1>4 DEF Result, Announcement
  <2> QED BY <2>1, Published, QueueNames DEF PublishReduceFinished
<1>6. Reducing(n) BY <1>2, <1>4 DEF Reducing
<1>7. OnePlacePerGroup(n) /\ GroupRight(n) BY <1>4 DEF ReducingPhase
<1>8. /\ queue'[ReduceFinished] \in Seq({Announcement(g) : g \in Groups})
      /\ Once(queue'[ReduceFinished])
      /\ \A x : Holds(queue'[ReduceFinished], x) <=> Holds(q, x) \/ x = Announcement(n)
  <2>1. ~Holds(q, Announcement(n)) BY <1>6, <1>7 DEF OnePlacePerGroup, Announced
  <2>2. Announcement(n) \in {Announcement(g) : g \in Groups} BY <1>4
  <2> QED BY <1>5, <2>1, <2>2, AppendHolds DEF ReducingPhase
<1>9. RestOfReducing'
  BY <1>1, <1>2, <1>5, QueueNames, RestOfReducingKept DEF ReducingPhase, Prepared
<1>10. ASSUME NEW p \in Reducers PROVE ReducerRight(p)'
  <2>1. ReducerRight(p) BY DEF ReducingPhase
  <2>2. \A g : Result(g)' = Result(g) BY <1>1, SameResults
  <2>3. /\ p # r => pc'[Reduce(p)] = pc[Reduce(p)]
        /\ queue'[Reduce(p)] = queue[Reduce(p)]
    BY <1>2, <1>5, QueueNames
  <2> QED BY <1>1, <1>2, <2>1, <2>2, <2>3 DEF ReducerRight
<1>11. ASSUME NEW g \in Groups PROVE (OnePlacePerGroup(g) /\ GroupRight(g))'
  <2>1. OnePlacePerGroup(g) /\ GroupRight(g) BY DEF ReducingPhase
  <2>2. Attributed(g) \in Reducers BY AttributedReducer
  <2>3. Announcement(g) = Announcement(n) => g = n BY DEF Announcement
  <2>4. /\ ToReduce(g)' <=> ToReduce(g)
        /\ Announced(g)' <=> Announced(g) \/ g = n
        /\ ToAverage(g)' <=> ToAverage(g)
        /\ Holds(queue[Reduce(Attributed(g))], g)' <=> Holds(queue[Reduce(Attributed(g))], g)
    BY <1>1, <1>2, <1>5, <1>8, <2>2, <2>3, QueueNames, SameResults
    DEF ToReduce, Announced, ToAverage
  <2>5. CASE g = n
    <3>1. ~Reducing(g)' BY <1>2, <1>4, <2>5 DEF Reducing
    <3>2. ~ToAverage(g) /\ g \notin reduceDone /\ centres[g] = Moved(g)
      BY <1>2, <1>4, <1>6, <1>7, <2>5 DEF OnePlacePerGroup, GroupRight
    <3> QED BY <1>1, <2>4, <3>1, <3>2, SameResults DEF OnePlacePerGroup, GroupRight, ToAverage
  <2>6. CASE g # n
    <3>1. /\ Reducing(g)' <=> Reducing(g)
          /\ Reducing(g) => pc'[Reduce(Attributed(g))] = pc[Reduce(Attributed(g))]
      BY <1>1, <1>2, <2>2, <2>6, QueueNames DEF Reducing
    <3>2. OnePlacePerGroup(g)' BY <1>1, <2>1, <2>4, <2>6, <3>1 DEF OnePlacePerGroup
    <3>3. GroupRight(g)' BY <1>1, <2>1, <2>4, <2>6, <3>1, SameResults DEF GroupRight
    <3> QED BY <3>2, <3>3
  <2> QED BY <2>5, <2>6
<1>12. {Announcement(g) : g \in Groups}' = {Announcement(g) : g \in Groups}
  BY <1>1, SameResults
<1> QED BY <1>1, <1>2, <1>5, <1>8, <1>9, <1>10, <1>11, <1>12, QueueNames
        DEF ReducingPhase, RestOfReducing

LEMMA ReceiveResultReduces ==
    ASSUME Shape, ReducingPhase, ReceiveResult
    PROVE  ReducingPhase'
<1> DEFINE q == queue[ReduceFinished]
<1>1. UNCHANGED <<centres, assigned, displayed, ended, mapDone, next, fresh>>
  BY DEF ReceiveResult, resultVars, localVars
<1>2. /\ q # << >> /\ queue'[ReduceFinished] = Tail(q) /\ pc'[ReduceFinished] = "collecting"
      /\ \A j \in Queues : j # ReduceFinished => pc'[j] = pc[j] /\ queue'[j] = queue[j]
  BY Taken, QueueNames DEF ReceiveResult
<1>3. /\ Head(q) \in {Announcement(g) : g \in Groups} /\ Holds(q, Head(q))
      /\ Tail(q) \in Seq({Announcement(g) : g \in Groups}) /\ Once(Tail(q))
      /\ \A x : Holds(Tail(q), x) => Holds(q, x) /\ x # Head(q)
  BY <1>2, TailHolds DEF ReducingPhase
<1>4. PICK n \in Groups : Head(q) = Announcement(n) BY <1>3
<1>5. Announced(n) BY <1>3, <1>4 DEF Announced
<1>6. /\ reduceDone' = reduceDone \cup {n}
      /\ close' = IF MovedLittle(n) THEN close \cup {n} ELSE close \ {n}
  BY <1>4 DEF ReceiveResult, Announcement
<1>7. RestOfReducing'
  BY <1>1, <1>2, QueueNames, RestOfReducingKept DEF ReducingPhase, Prepared
<1>8. ASSUME NEW p \in Reducers PROVE ReducerRight(p)'
  <2>1. ReducerRight(p) BY DEF ReducingPhase
  <2>2. \A g : Result(g)' = Result(g) BY <1>1, SameResults
  <2>3. pc'[Reduce(p)] = pc[Reduce(p)] /\ queue'[Reduce(p)] = queue[Reduce(p)]
    BY <1>2, QueueNames
  <2> QED BY <1>1, <2>1, <2>2, <2>3 DEF ReducerRight
<1>9. ASSUME NEW g \in Groups PROVE (OnePlacePerGroup(g) /\ GroupRight(g))'
  <2>1. OnePlacePerGroup(g) /\ GroupRight(g) BY DEF ReducingPhase
  <2>2. Attributed(g) \in Reducers BY AttributedReducer
  <2>3. /\ ToReduce(g)' <=> ToReduce(g)
        /\ Announced(g)' => Announced(g) /\ g # n
        /\ ToAverage(g)' <=> ToAverage(g)
        /\ Reducing(g)' <=> Reducing(g)
        /\ Holds(queue[Reduce(Attributed(g))], g)' <=> Holds(queue[Reduce(Attributed(g))], g)
        /\ pc'[Reduce(Attributed(g))] = pc[Reduce(Attributed(g))]
    BY <1>1, <1>2, <1>3, <1>4, <2>2, QueueNames, SameResults
    DEF ToReduce, Announced, ToAverage, Reducing
  <2>4. OnePlacePerGroup(g)'
    BY <1>5, <1>6, <2>1, <2>3 DEF OnePlacePerGroup
  <2>5. (g \in reduceDone => (g \in close <=> MovedLittle(g)))'
    BY <1>1, <1>6, <2>1, SameResults DEF GroupRight
  <2>6. GroupRight(g)'
    BY <1>1, <1>5, <1>6, <2>1, <2>3, <2>5, SameResults DEF GroupRight
  <2> QED BY <2>4, <2>6
<1>10. {Announcement(g) : g \in Groups}' = {Announcement(g) : g \in Groups}
  BY <1>1, SameResults
<1>11. reduceDone' \subseteq Groups /\ close' \subseteq Groups
  BY <1>6 DEF ReducingPhase
<1> QED BY <1>1, <1>2, <1>3, <1>7, <1>8, <1>9, <1>10, <1>11, QueueNames
        DEF ReducingPhase, RestOfReducing

LEMMA CountResultsCounts ==
    ASSUME Shape, ReducingPhase, CountResults
    PROVE  ReducingPhase' \/ Deciding'
<1>1. UNCHANGED <<centres, assigned, displayed, ended, reduceDone, mapDone, close, next, fresh,
                  queue>>
  BY DEF CountResults, storeVars, resultVars, localVars
<1>2. /\ pc[ReduceFinished] = "collecting"
      /\ pc'[ReduceFinished] = IF HasFinishedCollectedResults THEN "resetting" ELSE "idle"
      /\ \A j \in Queues : j # ReduceFinished => pc'[j] = pc[j]
  BY Gone, QueueNames DEF CountResults
<1>3. RestOfReducing'
  BY <1>1, <1>2, QueueNames, RestOfReducingKept DEF ReducingPhase, Prepared
<1>4. CASE ~HasFinishedCollectedResults
  <2>1. ASSUME NEW p \in Reducers PROVE ReducerRight(p)'
    <3>1. ReducerRight(p) BY DEF ReducingPhase
    <3>2. \A g : Result(g)' = Result(g) BY <1>1, SameResults
    <3>3. pc'[Reduce(p)] = pc[Reduce(p)] BY <1>2, QueueNames
    <3> QED BY <1>1, <3>1, <3>2, <3>3 DEF ReducerRight
  <2>2. ASSUME NEW g \in Groups PROVE (OnePlacePerGroup(g) /\ GroupRight(g))'
    <3>1. OnePlacePerGroup(g) /\ GroupRight(g) BY DEF ReducingPhase
    <3>2. Attributed(g) \in Reducers BY AttributedReducer
    <3>3. /\ ToReduce(g)' <=> ToReduce(g)
          /\ Announced(g)' <=> Announced(g)
          /\ ToAverage(g)' <=> ToAverage(g)
          /\ Reducing(g)' <=> Reducing(g)
          /\ Holds(queue[Reduce(Attributed(g))], g)' <=> Holds(queue[Reduce(Attributed(g))], g)
          /\ pc'[Reduce(Attributed(g))] = pc[Reduce(Attributed(g))]
      BY <1>1, <1>2, <3>2, QueueNames, SameResults
      DEF ToReduce, Announced, ToAverage, Reducing
    <3> QED BY <1>1, <3>1, <3>3, SameResults DEF OnePlacePerGroup, GroupRight
  <2>3. {Announcement(g) : g \in Groups}' = {Announcement(g) : g \in Groups}
    BY <1>1, SameResults
  <2> QED BY <1>1, <1>2, <1>3, <1>4, <2>1, <2>2, <2>3, QueueNames DEF ReducingPhase, RestOfReducing
<1>5. CASE HasFinishedCollectedResults
  <2>1. reduceDone = Groups
    <3>1. Cardinality(reduceDone) = Len(Start) /\ Len(Start) \in Nat
      BY <1>5, ClusteringAssumption DEF HasFinishedCollectedResults, ReducingPhase, Prepared
    <3> QED BY <3>1, AllCounted DEF ReducingPhase, Groups
  <2>2. \A g \in Groups : /\ ~ToAverage(g) /\ ~Reducing(g) /\ ~Announced(g)
                          /\ centres[g] = Moved(g) /\ (g \in close <=> MovedLittle(g))
    BY <2>1 DEF ReducingPhase, OnePlacePerGroup, GroupRight
  <2>3. pc[Shuffle] = "idle"
    <3>1. pc[Shuffle] = "sending" => ToReduce(next[Shuffle]) /\ next[Shuffle] \in Groups
      BY DEF ReducingPhase, ToReduce, Groups
    <3> QED BY <2>2, <3>1 DEF ToAverage, ReducingPhase
  <2>4. ASSUME NEW r \in Reducers PROVE Idle(Reduce(r))
    <3>1. ReducerRight(r) BY DEF ReducingPhase
    <3>2. queue[Reduce(r)] = << >>
      <4>1. SUFFICES ASSUME queue[Reduce(r)] # << >> PROVE FALSE
        OBVIOUS
      <4>2. PICK g \in {g \in Groups : Attributed(g) = r} : Holds(queue[Reduce(r)], g)
        BY <3>1, <4>1, TailHolds DEF ReducerRight
      <4> QED BY <2>2, <4>2 DEF ToAverage
    <3>3. pc[Reduce(r)] = "idle"
      BY <2>2, <3>1 DEF ReducerRight, Reducing
    <3> QED BY <3>2, <3>3 DEF Idle
  <2>5. queue[ReduceFinished] = << >>
    <3>1. SUFFICES ASSUME queue[ReduceFinished] # << >> PROVE FALSE
      OBVIOUS
    <3>2. PICK g \in Groups : Holds(queue[ReduceFinished], Announcement(g))
      BY <3>1, TailHolds DEF ReducingPhase
    <3> QED BY <2>2, <3>2 DEF Announced
  <2>6. ReduceIdle' BY <1>1, <1>2, <2>4, QueueNames DEF ReduceIdle, Idle
  <2>7. Idle(Shuffle)' BY <1>1, <1>2, <2>3, QueueNames DEF ReducingPhase, Idle
  <2>8. \A g \in Groups : Moved(g)' = Moved(g) /\ (MovedLittle(g)' <=> MovedLittle(g))
    BY <1>1, SameResults
  <2>9. centres' = [g \in Groups |-> Moved(g)]'
    <3>1. centres = [g \in Groups |-> centres[g]] BY DEF ReducingPhase, Prepared
    <3> QED BY <1>1, <2>2, <2>8, <3>1
  <2>10. \A g \in Groups : (g \in close <=> MovedLittle(g))' BY <1>1, <2>2, <2>8
  <2>11. close' \subseteq Groups BY <1>1 DEF ReducingPhase
  <2> QED BY <1>1, <1>2, <1>3, <1>5, <2>5, <2>6, <2>7, <2>9, <2>10, <2>11
          DEF Deciding, RestOfReducing
<1> QED BY <1>4, <1>5

-----------------------------------------------------------------------------
(* Deciding.                                                               *)

LEMMA ResetDecides ==
    ASSUME Shape, Deciding, ResetReduceFlags \/ IncrementIteration
    PROVE  Deciding'
<1>1. UNCHANGED <<centres, assigned, displayed, ended, close, queue>>
  BY DEF ResetReduceFlags, IncrementIteration, resultVars
<1>2. /\ pc'[ReduceFinished] \in {"incrementing", "deciding"}
      /\ \A j \in Queues : j # ReduceFinished => pc'[j] = pc[j]
  BY Gone, QueueNames DEF ResetReduceFlags, IncrementIteration
<1>3. reduceDone' = {} /\ mapDone' = {}
  <2>1. CASE ResetReduceFlags BY <2>1 DEF ResetReduceFlags, Deciding, MapFinishedIdle
  <2>2. CASE IncrementIteration
    <3>1. pc[ReduceFinished] = "incrementing" BY <2>2, Gone, QueueNames DEF IncrementIteration
    <3> QED BY <2>2, <3>1 DEF IncrementIteration, Deciding
  <2> QED BY <2>1, <2>2
<1>4. Idle(Input)' /\ MapIdle' /\ MapFinishedIdle' /\ Idle(Shuffle)' /\ ReduceIdle'
  BY <1>1, <1>2, <1>3, QueueNames DEF Deciding, Idle, MapIdle, MapFinishedIdle, ReduceIdle
<1>5. Prepared' BY <1>1 DEF Deciding, Prepared, Chunk, ChunkSize
<1>6. \A g \in Groups : Moved(g)' = Moved(g) /\ (MovedLittle(g)' <=> MovedLittle(g))
  BY <1>1, SameResults
<1>7. centres' = [g \in Groups |-> Moved(g)]' BY <1>1, <1>6 DEF Deciding
<1>8. \A g \in Groups : (g \in close <=> MovedLittle(g))' BY <1>1, <1>6 DEF Deciding
<1> QED BY <1>1, <1>2, <1>3, <1>4, <1>5, <1>7, <1>8 DEF Deciding

\* Another iteration is asked for, or nothing is left.
LEMMA DecideDecided ==
    ASSUME Shape, Deciding, Decide
    PROVE  (Asking \/ Still)'
<1>1. UNCHANGED <<centres, assigned, mapDone, reduceDone>> /\ displayed' = centres
  BY DEF Decide, storeVars
<1>2. /\ pc[ReduceFinished] = "deciding" /\ pc'[ReduceFinished] = "idle"
      /\ \A j \in Queues : j # ReduceFinished => pc'[j] = pc[j]
  BY Gone, QueueNames DEF Decide
<1>3. \A j \in Queues : j # Input => queue'[j] = queue[j]
  BY Published, QueueNames DEF Decide
<1>4. reduceDone' = {} BY <1>1, <1>2 DEF Deciding
<1>5. MapIdle' /\ MapFinishedIdle' /\ Idle(Shuffle)' /\ ReduceIdle' /\ ReduceFinishedIdle'
  BY <1>1, <1>2, <1>3, <1>4, QueueNames
  DEF Deciding, Idle, MapIdle, MapFinishedIdle, ReduceIdle, ReduceFinishedIdle
<1>6. pc'[Input] = "idle" /\ queue[Input] = << >>
  BY <1>2, QueueNames DEF Deciding, Idle
<1>7. CASE HasMoreIterations
  <2>1. queue'[Input] = Append(<< >>, 0)
    BY <1>6, <1>7, Published, QueueNames DEF Decide
  <2>2. queue'[Input] # << >> /\ Tail(queue'[Input]) = << >> BY <2>1
  <2>3. ~ended' BY <1>7 DEF Decide
  <2>4. AtRest' BY <1>1 DEF Deciding, AtRest, Prepared, Chunk, ChunkSize
  <2> QED BY <1>5, <1>6, <2>2, <2>3, <2>4 DEF Asking
<1>8. CASE ~HasMoreIterations
  <2>1. queue' = queue BY <1>8 DEF Decide
  <2> QED BY <1>5, <1>6, <2>1 DEF Still, Idle
<1> QED BY <1>7, <1>8

-----------------------------------------------------------------------------
(* A message is lost.                                                      *)

LEMMA LostMessage ==
    ASSUME Shape, NEW k \in Queues, Lose(k)
    PROVE  /\ queue[k] # << >> /\ queue'[k] = Tail(queue[k])
           /\ \A j \in Queues : j # k => queue'[j] = queue[j]
           /\ UNCHANGED <<centres, assigned, displayed, ended, reduceDone, mapDone, close, next,
                          fresh, chosen, pc, triggers>>
BY DEF Shape, Lose, storeVars, resultVars, localVars

LEMMA LoseAsked ==
    ASSUME Shape, Asking, NEW k \in Queues, Lose(k)
    PROVE  Still'
<1>1. k = Input
  BY LostMessage, QueueCases
  DEF Asking, Idle, MapIdle, MapFinishedIdle, ReduceIdle, ReduceFinishedIdle
<1> QED
  BY <1>1, LostMessage, QueueNames
  DEF Asking, Still, Idle, MapIdle, MapFinishedIdle, ReduceIdle, ReduceFinishedIdle

LEMMA LoseShuffle ==
    ASSUME Shape, Shuffling, NEW k \in Queues, Lose(k)
    PROVE  Still'
<1>1. k = Shuffle
  BY LostMessage, QueueCases DEF Shuffling, Idle, MapIdle, ReduceIdle, ReduceFinishedIdle
<1>2. pc[MapFinished] = "idle" /\ Tail(queue[Shuffle]) = << >>
  BY <1>1, LostMessage DEF Shuffling
<1> QED
  BY <1>1, <1>2, LostMessage, QueueNames
  DEF Shuffling, Still, Idle, MapIdle, MapFinishedIdle, ReduceIdle, ReduceFinishedIdle

LEMMA LoseMapped ==
    ASSUME Shape, Mapping, NEW k \in Queues, Lose(k)
    PROVE  Mapping'
<1>1. /\ queue[k] # << >> /\ queue'[k] = Tail(queue[k])
      /\ \A j \in Queues : j # k => queue'[j] = queue[j]
      /\ UNCHANGED <<centres, assigned, displayed, ended, reduceDone, mapDone, next, chosen, pc>>
  BY LostMessage
<1>2. k = MapFinished \/ \E m \in Mappers : k = Map(m)
  BY <1>1, QueueCases DEF Mapping, Idle, ReduceIdle, ReduceFinishedIdle
<1>3. /\ queue'[MapFinished] \in Seq(Mappers) /\ Once(queue'[MapFinished])
      /\ \A m : Holds(queue'[MapFinished], m) => Holds(queue[MapFinished], m)
  <2>1. queue[MapFinished] \in Seq(Mappers) /\ Once(queue[MapFinished]) BY DEF Mapping
  <2>2. CASE k = MapFinished
    <3>1. queue[MapFinished] # << >> /\ queue'[MapFinished] = Tail(queue[MapFinished])
      BY <1>1, <2>2
    <3> QED BY <2>1, <3>1, TailHolds
  <2>3. CASE k # MapFinished
    <3>1. queue'[MapFinished] = queue[MapFinished] BY <1>1, <2>3, QueueNames
    <3> QED BY <2>1, <3>1
  <2> QED BY <2>2, <2>3
<1>4. Prepared' BY <1>1 DEF Mapping, Prepared, Chunk, ChunkSize
<1>5. ASSUME NEW m \in Mappers PROVE (OnePlacePerChunk(m) /\ MapperRight(m))'
  <2>1. OnePlacePerChunk(m) /\ MapperRight(m) BY DEF Mapping
  <2>2. queue'[Map(m)] = queue[Map(m)] \/ queue'[Map(m)] = << >>
    <3>1. CASE k = Map(m)
      <4>1. queue[Map(m)] = <<Chunk(m)>> BY <1>1, <2>1, <3>1 DEF MapperRight
      <4> QED BY <1>1, <3>1, <4>1, OneMessage
    <3>2. CASE k # Map(m) BY <1>1, <3>2, QueueNames
    <3> QED BY <3>1, <3>2
  <2>3. /\ ToMap(m)' <=> ToMap(m)
        /\ MappedBy(m)' <=> MappedBy(m)
        /\ ClosestOf(m)' = ClosestOf(m) /\ Chunk(m)' = Chunk(m)
    BY <1>1, SameChunks DEF ToMap
  <2>4. (Waiting(m)' => Waiting(m)) /\ (Worked(m)' => Worked(m))
    BY <1>1, <2>2, <2>3 DEF Waiting, Worked
  <2>5. OnePlacePerChunk(m)'
    BY <1>1, <1>3, <2>1, <2>2, <2>3, <2>4 DEF OnePlacePerChunk
  <2>6. MapperRight(m)' BY <1>1, <1>3, <2>1, <2>2, <2>3 DEF MapperRight
  <2> QED BY <2>5, <2>6
<1>6. \A j \in Queues : j # MapFinished /\ (\A m \in Mappers : j # Map(m)) => queue'[j] = queue[j]
  BY <1>1, <1>2
<1>7. Idle(Shuffle)' /\ ReduceIdle' /\ ReduceFinishedIdle' /\ ~ended' /\ centres' = displayed'
  BY <1>1, <1>4, <1>6, QueueNames, RestOfMapping
<1> QED BY <1>1, <1>3, <1>4, <1>5, <1>6, <1>7, QueueNames DEF Mapping

LEMMA LoseReduced ==
    ASSUME Shape, ReducingPhase, NEW k \in Queues, Lose(k)
    PROVE  ReducingPhase'
<1>1. /\ queue[k] # << >> /\ queue'[k] = Tail(queue[k])
      /\ \A j \in Queues : j # k => queue'[j] = queue[j]
      /\ UNCHANGED <<centres, assigned, displayed, ended, reduceDone, mapDone, close, next, fresh,
                     pc>>
  BY LostMessage
<1>2. k = ReduceFinished \/ \E r \in Reducers : k = Reduce(r)
  BY <1>1, QueueCases DEF ReducingPhase, Idle, MapIdle, MapFinishedIdle
<1>3. /\ queue'[ReduceFinished] \in Seq({Announcement(g) : g \in Groups})
      /\ Once(queue'[ReduceFinished])
      /\ \A x : Holds(queue'[ReduceFinished], x) => Holds(queue[ReduceFinished], x)
  <2>1. /\ queue[ReduceFinished] \in Seq({Announcement(g) : g \in Groups})
        /\ Once(queue[ReduceFinished])
    BY DEF ReducingPhase
  <2>2. CASE k = ReduceFinished
    <3>1. queue[ReduceFinished] # << >> /\ queue'[ReduceFinished] = Tail(queue[ReduceFinished])
      BY <1>1, <2>2
    <3> QED BY <2>1, <3>1, TailHolds
  <2>3. CASE k # ReduceFinished
    <3>1. queue'[ReduceFinished] = queue[ReduceFinished] BY <1>1, <2>3, QueueNames
    <3> QED BY <2>1, <3>1
  <2> QED BY <2>2, <2>3
<1>4. ASSUME NEW r \in Reducers
      PROVE  /\ queue'[Reduce(r)] \in Seq({g \in Groups : Attributed(g) = r})
             /\ Once(queue'[Reduce(r)])
             /\ \A x : Holds(queue'[Reduce(r)], x) => Holds(queue[Reduce(r)], x)
  <2>1. queue[Reduce(r)] \in Seq({g \in Groups : Attributed(g) = r}) /\ Once(queue[Reduce(r)])
    BY DEF ReducingPhase, ReducerRight
  <2>2. CASE k = Reduce(r)
    <3>1. queue[Reduce(r)] # << >> /\ queue'[Reduce(r)] = Tail(queue[Reduce(r)]) BY <1>1, <2>2
    <3> QED BY <2>1, <3>1, TailHolds
  <2>3. CASE k # Reduce(r)
    <3>1. queue'[Reduce(r)] = queue[Reduce(r)] BY <1>1, <2>3, QueueNames
    <3> QED BY <2>1, <3>1
  <2> QED BY <2>2, <2>3
<1>5. \A j \in Queues : j # ReduceFinished /\ (\A r \in Reducers : j # Reduce(r))
                            => queue'[j] = queue[j]
  BY <1>1, <1>2
<1>6. RestOfReducing'
  BY <1>1, <1>5, QueueNames, RestOfReducingKept DEF ReducingPhase, Prepared
<1>7. ASSUME NEW r \in Reducers PROVE ReducerRight(r)'
  <2>1. ReducerRight(r) BY DEF ReducingPhase
  <2>2. \A g : Result(g)' = Result(g) BY <1>1, SameResults
  <2> QED BY <1>1, <1>4, <2>1, <2>2 DEF ReducerRight
<1>8. ASSUME NEW g \in Groups PROVE (OnePlacePerGroup(g) /\ GroupRight(g))'
  <2>1. OnePlacePerGroup(g) /\ GroupRight(g) BY DEF ReducingPhase
  <2>2. Attributed(g) \in Reducers BY AttributedReducer
  <2>3. /\ ToReduce(g)' <=> ToReduce(g)
        /\ Announced(g)' => Announced(g)
        /\ Reducing(g)' <=> Reducing(g)
        /\ Holds(queue[Reduce(Attributed(g))], g)' => Holds(queue[Reduce(Attributed(g))], g)
    BY <1>1, <1>3, <1>4, <2>2, SameResults DEF ToReduce, Announced, Reducing
  <2>4. ToAverage(g)' => ToAverage(g) BY <2>3 DEF ToAverage
  <2>5. OnePlacePerGroup(g)' BY <1>1, <2>1, <2>3, <2>4 DEF OnePlacePerGroup
  <2>6. GroupRight(g)' BY <1>1, <2>1, <2>3, <2>4, SameResults DEF GroupRight
  <2> QED BY <2>5, <2>6
<1>9. {Announcement(g) : g \in Groups}' = {Announcement(g) : g \in Groups}
  BY <1>1, SameResults
<1> QED BY <1>1, <1>3, <1>5, <1>6, <1>7, <1>8, <1>9, QueueNames DEF ReducingPhase, RestOfReducing

LEMMA LoseKeeps ==
    ASSUME PhaseInv, NEW k \in Queues, Lose(k)
    PROVE  PhaseInv'
<1>1. Shape' BY LostMessage DEF PhaseInv, Shape, Lose, localVars
<1>2. ~Still /\ ~Deciding
  BY LostMessage, QueueCases
  DEF PhaseInv, Still, Deciding, Idle, MapIdle, MapFinishedIdle, ReduceIdle, ReduceFinishedIdle
<1>3. triggers' # 0 /\ triggers' \in Nat /\ close' \subseteq Groups
  BY <1>2, LostMessage DEF PhaseInv
<1>4. (Still \/ Mapping \/ ReducingPhase)'
  BY <1>2, LoseAsked, LoseShuffle, LoseMapped, LoseReduced DEF PhaseInv
<1> QED BY <1>1, <1>3, <1>4 DEF PhaseInv

-----------------------------------------------------------------------------
(* Every step.                                                             *)

LEMMA StepShape ==
    ASSUME Shape, [Next]_vars
    PROVE  Shape'
<1>1. CASE UNCHANGED vars BY <1>1 DEF vars, localVars, Shape
<1>2. CASE PostInput BY <1>2 DEF PostInput, Publish, Shape, localVars
<1>3. CASE \E k \in Queues : Lose(k) BY <1>3 DEF Lose, Shape, localVars
<1>4. CASE InputSteps
  BY <1>4 DEF InputSteps, HandleInput, SendChunk, Take, Go, Publish, Shape
<1>5. CASE MapFinishedSteps
  BY <1>5 DEF MapFinishedSteps, HandleMapFinished, CountMapFinished, PublishShuffle, Take, Go,
              Publish, Shape, localVars
<1>6. CASE ShuffleSteps
  BY <1>6 DEF ShuffleSteps, HandleShuffle, SendGroup, Take, Go, Publish, Shape
<1>7. CASE ReduceFinishedSteps
  BY <1>7 DEF ReduceFinishedSteps, ReceiveResult, CountResults, ResetReduceFlags,
              IncrementIteration, Decide, Take, Go, Publish, Shape, localVars
<1>8. ASSUME NEW m \in Mappers, MapSteps(m) \/ MapFails(m) PROVE Shape'
  BY <1>8 DEF MapSteps, HandleMap, MapFails, SaveMapped, PublishMapFinished, Take, Go, Publish,
              Shape, localVars
<1>9. ASSUME NEW r \in Reducers, ReduceSteps(r) PROVE Shape'
  BY <1>9 DEF ReduceSteps, HandleReduce, SaveReduced, PublishReduceFinished, Take, Go, Publish,
              Shape, localVars
<1> QED BY <1>1, <1>2, <1>3, <1>4, <1>5, <1>6, <1>7, <1>8, <1>9 DEF Next

\* A handler that is at work, or has a message, says which phase it is.
LEMMA PhaseOfHandler ==
    ASSUME PhaseInv
    PROVE  /\ queue[Input] # << >> => Asking
           /\ pc[Input] = "sending" => Mapping
           /\ \A m \in Mappers : ~Idle(Map(m)) => Mapping
           /\ queue[MapFinished] # << >> \/ pc[MapFinished] = "counting" => Mapping
           /\ pc[MapFinished] = "publishing" \/ queue[Shuffle] # << >> => Shuffling
           /\ pc[Shuffle] = "sending" => ReducingPhase
           /\ \A r \in Reducers : ~Idle(Reduce(r)) => ReducingPhase
           /\ queue[ReduceFinished] # << >> \/ pc[ReduceFinished] = "collecting" => ReducingPhase
           /\ pc[ReduceFinished] \in {"resetting", "incrementing", "deciding"} => Deciding
BY DEF PhaseInv, Still, Asking, Mapping, Shuffling, ReducingPhase, Deciding, Idle, MapIdle,
       MapFinishedIdle, ReduceIdle, ReduceFinishedIdle

\* Once it has begun, a computation is never where no trigger was posted.
LEMMA BegunStaysBegun ==
    ASSUME PhaseInv, Shape', UNCHANGED triggers,
           Asking \/ Mapping \/ Shuffling \/ ReducingPhase \/ Deciding,
           (Still \/ Asking \/ Mapping \/ Shuffling \/ ReducingPhase \/ Deciding)',
           close' \subseteq Groups
    PROVE  PhaseInv'
<1>1. CASE triggers # 0 BY <1>1 DEF PhaseInv
<1>2. CASE triggers = 0
  <2>1. Still /\ centres = << >> BY <1>2 DEF PhaseInv
  <2>2. FALSE
    BY <2>1 DEF Still, Asking, Mapping, Shuffling, ReducingPhase, Deciding, Idle, Prepared
  <2> QED BY <2>2
<1> QED BY <1>1, <1>2

LEMMA NextPhaseInv ==
    ASSUME MaxTriggers <= 1
    PROVE  PhaseInv /\ [Next]_vars => PhaseInv'
<1> SUFFICES ASSUME PhaseInv, [Next]_vars PROVE PhaseInv'
  OBVIOUS
<1>1. Shape /\ Shape' /\ close \subseteq Groups BY StepShape DEF PhaseInv
<1>2. CASE UNCHANGED vars
  <2>1. UNCHANGED <<centres, assigned, mapDone, reduceDone, close, displayed, ended, queue, pc,
                    next, chosen, fresh, triggers>>
    BY <1>2 DEF vars, storeVars, resultVars, localVars, boundVars
  <2>2. Prepared' <=> Prepared BY <2>1 DEF Prepared, Chunk, ChunkSize
  <2>3. AtRest' <=> AtRest BY <2>1, <2>2 DEF AtRest
  <2>4. \A m \in Mappers : (MappedBy(m)' <=> MappedBy(m)) /\ ClosestOf(m)' = ClosestOf(m)
                           /\ Chunk(m)' = Chunk(m)
    BY <2>1, SameChunks
  <2>5. ASSUME NEW m \in Mappers
        PROVE  (OnePlacePerChunk(m) /\ MapperRight(m))' <=> OnePlacePerChunk(m) /\ MapperRight(m)
    BY <2>1, <2>4 DEF OnePlacePerChunk, MapperRight, Worked, Waiting, ToMap
  <2>6. \A g : Result(g)' = Result(g) /\ Announcement(g)' = Announcement(g) /\ Moved(g)' = Moved(g)
               /\ (MovedLittle(g)' <=> MovedLittle(g))
    BY <2>1, SameResults
  <2>7. ASSUME NEW r \in Reducers PROVE ReducerRight(r)' <=> ReducerRight(r)
    BY <2>1, <2>6 DEF ReducerRight
  <2>8. ASSUME NEW g \in Groups
        PROVE  (OnePlacePerGroup(g) /\ GroupRight(g))' <=> OnePlacePerGroup(g) /\ GroupRight(g)
    BY <2>1, <2>6 DEF OnePlacePerGroup, GroupRight, ToAverage, ToReduce, Reducing, Announced
  <2>9. {Announcement(g) : g \in Groups}' = {Announcement(g) : g \in Groups} BY <2>6
  <2>10. [g \in Groups |-> Moved(g)]' = [g \in Groups |-> Moved(g)] BY <2>6
  <2>11. /\ Still' <=> Still
         /\ Asking' <=> Asking
    BY <2>1, <2>3
    DEF Still, Asking, Idle, MapIdle, MapFinishedIdle, ReduceIdle, ReduceFinishedIdle
  <2>12. Mapping => Mapping'
    BY <2>1, <2>2, <2>5 DEF Mapping, Idle, ReduceIdle, ReduceFinishedIdle
  <2>13. Shuffling => Shuffling'
    BY <2>1, <2>2, <2>4 DEF Shuffling, Idle, MapIdle, ReduceIdle, ReduceFinishedIdle
  <2>14. ReducingPhase => ReducingPhase'
    BY <2>1, <2>2, <2>4, <2>7, <2>8, <2>9 DEF ReducingPhase, Idle, MapIdle, MapFinishedIdle
  <2>15. Deciding => Deciding'
    BY <2>1, <2>2, <2>6, <2>10 DEF Deciding, Idle, MapIdle, MapFinishedIdle, ReduceIdle
  <2> QED BY <1>1, <2>1, <2>11, <2>12, <2>13, <2>14, <2>15 DEF PhaseInv, StartCentres
<1>3. CASE PostInput BY <1>3, PostInputKeeps
<1>4. CASE \E k \in Queues : Lose(k) BY <1>4, LoseKeeps
<1>5. CASE InputSteps
  <2>1. triggers' = triggers /\ close' = close
    BY <1>5 DEF InputSteps, HandleInput, SendChunk, storeVars, boundVars
  <2>2. CASE HandleInput
    <3>1. Asking BY <2>2, Taken, QueueNames, PhaseOfHandler, <1>1 DEF HandleInput
    <3> QED BY <1>1, <2>1, <2>2, <3>1, HandleInputMaps, BegunStaysBegun
  <2>3. CASE SendChunk
    <3>1. Mapping BY <2>3, Gone, QueueNames, PhaseOfHandler, <1>1 DEF SendChunk
    <3> QED BY <1>1, <2>1, <2>3, <3>1, SendChunkMaps, BegunStaysBegun
  <2> QED BY <1>5, <2>2, <2>3 DEF InputSteps
<1>6. ASSUME NEW m \in Mappers, MapSteps(m) \/ MapFails(m) PROVE PhaseInv'
  <2>1. triggers' = triggers /\ close' = close
    BY <1>6 DEF MapSteps, HandleMap, MapFails, SaveMapped, PublishMapFinished, storeVars, boundVars
  <2>2. ~Idle(Map(m))
    BY <1>1, <1>6, Taken, Gone, QueueNames
    DEF MapSteps, HandleMap, MapFails, SaveMapped, PublishMapFinished, Idle
  <2>3. Mapping BY <2>2, PhaseOfHandler
  <2>4. Mapping'
    BY <1>1, <1>6, <2>3, MapperMaps, SaveMappedMaps, PublishMapFinishedMaps DEF MapSteps
  <2> QED BY <1>1, <2>1, <2>3, <2>4, BegunStaysBegun
<1>7. CASE MapFinishedSteps
  <2>1. triggers' = triggers /\ close' = close
    BY <1>7
    DEF MapFinishedSteps, HandleMapFinished, CountMapFinished, PublishShuffle, storeVars, boundVars
  <2>2. CASE HandleMapFinished
    <3>1. Mapping BY <2>2, Taken, QueueNames, PhaseOfHandler, <1>1 DEF HandleMapFinished
    <3> QED BY <1>1, <2>1, <2>2, <3>1, HandleMapFinishedMaps, BegunStaysBegun
  <2>3. CASE CountMapFinished
    <3>1. Mapping BY <2>3, Gone, QueueNames, PhaseOfHandler, <1>1 DEF CountMapFinished
    <3> QED BY <1>1, <2>1, <2>3, <3>1, CountMapFinishedCounts, BegunStaysBegun
  <2>4. CASE PublishShuffle
    <3>1. Shuffling BY <2>4, Gone, QueueNames, PhaseOfHandler, <1>1 DEF PublishShuffle
    <3> QED BY <1>1, <2>1, <2>4, <3>1, PublishShuffleShuffles, BegunStaysBegun
  <2> QED BY <1>7, <2>2, <2>3, <2>4 DEF MapFinishedSteps
<1>8. CASE ShuffleSteps
  <2>1. triggers' = triggers /\ close' = close
    BY <1>8 DEF ShuffleSteps, HandleShuffle, SendGroup, storeVars, boundVars
  <2>2. CASE HandleShuffle
    <3>1. Shuffling BY <2>2, Taken, QueueNames, PhaseOfHandler, <1>1 DEF HandleShuffle
    <3> QED BY <1>1, <2>1, <2>2, <3>1, HandleShuffleReduces, BegunStaysBegun
  <2>3. CASE SendGroup
    <3>1. ReducingPhase BY <2>3, Gone, QueueNames, PhaseOfHandler, <1>1 DEF SendGroup
    <3> QED BY <1>1, <2>1, <2>3, <3>1, SendGroupReduces, BegunStaysBegun
  <2> QED BY <1>8, <2>2, <2>3 DEF ShuffleSteps
<1>9. ASSUME NEW r \in Reducers, ReduceSteps(r) PROVE PhaseInv'
  <2>1. triggers' = triggers /\ close' = close
    BY <1>9
    DEF ReduceSteps, HandleReduce, SaveReduced, PublishReduceFinished, storeVars, boundVars
  <2>2. ~Idle(Reduce(r))
    BY <1>1, <1>9, Taken, Gone, QueueNames
    DEF ReduceSteps, HandleReduce, SaveReduced, PublishReduceFinished, Idle
  <2>3. ReducingPhase BY <2>2, PhaseOfHandler
  <2>4. ReducingPhase'
    BY <1>1, <1>9, <2>3, HandleReduceReduces, SaveReducedReduces, PublishReduceFinishedReduces
    DEF ReduceSteps
  <2> QED BY <1>1, <2>1, <2>3, <2>4, BegunStaysBegun
<1>10. CASE ReduceFinishedSteps
  <2>1. triggers' = triggers
    BY <1>10
    DEF ReduceFinishedSteps, ReceiveResult, CountResults, ResetReduceFlags, IncrementIteration,
        Decide, boundVars
  <2>2. CASE ReceiveResult
    <3>1. ReducingPhase BY <2>2, Taken, QueueNames, PhaseOfHandler, <1>1 DEF ReceiveResult
    <3>2. ReducingPhase' BY <1>1, <2>2, <3>1, ReceiveResultReduces
    <3>3. close' \subseteq Groups BY <3>2 DEF ReducingPhase
    <3> QED BY <1>1, <2>1, <3>1, <3>2, <3>3, BegunStaysBegun
  <2>3. CASE CountResults
    <3>1. ReducingPhase BY <2>3, Gone, QueueNames, PhaseOfHandler, <1>1 DEF CountResults
    <3>2. close' = close BY <2>3 DEF CountResults, storeVars
    <3> QED BY <1>1, <2>1, <2>3, <3>1, <3>2, CountResultsCounts, BegunStaysBegun
  <2>4. CASE ResetReduceFlags \/ IncrementIteration
    <3>1. Deciding
      BY <2>4, Gone, QueueNames, PhaseOfHandler, <1>1 DEF ResetReduceFlags, IncrementIteration
    <3>2. close' = close BY <2>4 DEF ResetReduceFlags, IncrementIteration
    <3> QED BY <1>1, <2>1, <2>4, <3>1, <3>2, ResetDecides, BegunStaysBegun
  <2>5. CASE Decide
    <3>1. Deciding BY <2>5, Gone, QueueNames, PhaseOfHandler, <1>1 DEF Decide
    <3>2. close' = close BY <2>5 DEF Decide, storeVars
    <3> QED BY <1>1, <2>1, <2>5, <3>1, <3>2, DecideDecided, BegunStaysBegun
  <2> QED BY <1>10, <2>2, <2>3, <2>4, <2>5 DEF ReduceFinishedSteps
<1> QED BY <1>2, <1>3, <1>4, <1>5, <1>6, <1>7, <1>8, <1>9, <1>10 DEF Next

\* With one trigger no map worker has a chunk while a reduce worker has a
\* group, for any number of workers, spaces and groups, and whatever is lost.
THEOREM PhasesSeparate ==
    ASSUME MaxTriggers <= 1
    PROVE  Spec => []PhasesApart
<1>1. PhaseInv /\ [Next]_vars => PhaseInv' BY NextPhaseInv
<1>2. PhaseInv => PhasesApart
  BY DEF PhaseInv, PhasesApart, Busy, Still, Asking, Mapping, Shuffling, ReducingPhase, Deciding,
         Idle, MapIdle, ReduceIdle
<1> QED BY InitPhaseInv, <1>1, <1>2, PTL DEF Spec

-----------------------------------------------------------------------------
(* The algorithm of KMeans is computed with the same arithmetic.           *)

LEMMA SameClosest ==
    ASSUME NEW c, NEW s
    PROVE  Sequential!Closest(c, s) = Closest(c, s)
BY DEF Sequential!Closest, Closest, Sequential!Nearer, Nearer, Sequential!Magnitude, Magnitude,
       Sequential!Groups, Groups

LEMMA SameAverage ==
    ASSUME NEW S
    PROVE  Sequential!Average(S) = Average(S)
BY DEF Sequential!Average, Average, Sequential!Whole, Whole, MapThenSumSet, MapThenFoldSet,
       Sequential!MapThenSumSet, Sequential!MapThenFoldSet, Cardinality, Sequential!Cardinality

\* Only the decision shows results and may end the computation; what it shows
\* is what KMeans computes from what was shown before.
LEMMA StepsIterate ==
    ASSUME NbOfIteration < 0, PhaseInv, [Next]_vars
    PROVE  [Sequential!Iterate]_<<displayed, ended>>
<1>1. Shape BY DEF PhaseInv
<1>2. CASE Decide
  <2>1. Deciding BY <1>1, <1>2, Gone, QueueNames, PhaseOfHandler DEF Decide
  <2>2. displayed' = [g \in Groups |-> Moved(g)] BY <1>2, <2>1 DEF Decide, Deciding
  <2>3. ASSUME NEW g \in Groups
        PROVE  Moved(g) = Sequential!Average(
                   {s \in Sequential!Spaces : Sequential!Closest(displayed, s) = g})
    <3>1. {s \in Sequential!Spaces : Sequential!Closest(displayed, s) = g}
              = {s \in Spaces : Closest(displayed, s) = g}
      BY SameClosest DEF Sequential!Spaces, Spaces
    <3> QED BY <3>1, SameAverage DEF Moved
  <2>4. ended' <=> Cardinality(close) = Len(Start)
    <3>1. HasMoreIterations <=> Cardinality(close) # Len(centres)
      BY MapReduceAssumption DEF HasMoreIterations
    <3>2. Len(centres) = Len(Start) BY <2>1 DEF Deciding, Prepared
    <3> QED BY <1>2, <3>1, <3>2 DEF Decide
  <2>5. Cardinality(close) = Len(Start) <=> close = Groups
    <3>1. Len(Start) \in Nat BY ClusteringAssumption
    <3> QED BY <2>1, <3>1, AllCounted DEF Deciding, Groups
  <2>6. close = Groups <=> \A g \in Groups : UnderEpsilon(displayed'[g], displayed[g])
    BY <2>1, <2>2 DEF Deciding, MovedLittle
  <2>7. \A a, b : Sequential!UnderEpsilon(a, b) <=> UnderEpsilon(a, b)
    BY DEF Sequential!UnderEpsilon, UnderEpsilon, Sequential!Magnitude, Magnitude
  <2>8. ended' \in BOOLEAN BY <1>2 DEF Decide
  <2>9. ended' = \A g \in Groups : UnderEpsilon(displayed'[g], displayed[g])
    BY <2>4, <2>5, <2>6, <2>8
  <2>10. ~ended BY <2>1 DEF Deciding
  <2> QED BY <2>2, <2>3, <2>7, <2>9, <2>10 DEF Sequential!Iterate, Sequential!Groups, Groups
<1>3. CASE ~Decide
  BY <1>3
  DEF Next, vars, storeVars, resultVars, PostInput, Lose, InputSteps, HandleInput, SendChunk,
      MapFinishedSteps, HandleMapFinished, CountMapFinished, PublishShuffle, ShuffleSteps,
      HandleShuffle, SendGroup, ReduceFinishedSteps, ReceiveResult, CountResults,
      ResetReduceFlags, IncrementIteration, MapSteps, HandleMap, SaveMapped, PublishMapFinished,
      MapFails, ReduceSteps, HandleReduce, SaveReduced, PublishReduceFinished
<1> QED BY <1>2, <1>3

\* What the reduce master displays is a run of K-means on one process, for any
\* data and any number of workers: no assignment is lost, late or made with a
\* mixture of old and new barycentres, though messages are lost and attempts
\* fail.
THEOREM ComputesKMeans ==
    ASSUME MaxTriggers <= 1, NbOfIteration < 0
    PROVE  Spec => ImplementsKMeans
<1>1. Init => Sequential!Init
  BY DEF Init, Sequential!Init, StartCentres, Sequential!Groups, Groups, Sequential!Whole, Whole
<1>2. PhaseInv /\ [Next]_vars => PhaseInv' BY NextPhaseInv
<1>3. PhaseInv /\ [Next]_vars => [Sequential!Iterate]_<<displayed, ended>> BY StepsIterate
<1> QED BY InitPhaseInv, <1>1, <1>2, <1>3, PTL DEF Spec, ImplementsKMeans, Sequential!Spec

-----------------------------------------------------------------------------
(* The arithmetic of Clustering: an average is a fraction, and a space has  *)
(* a closest group.                                                        *)

LEMMA LeastNumber ==
    ASSUME NEW S, S \subseteq Nat, S # {}
    PROVE  \E i \in S : \A j \in S : i <= j
<1> DEFINE R == OpToRel(<, Nat)
<1>1. IsWellFoundedOn(R, Nat) BY NatLessThanWellFounded
<1>2. \A i, j \in Nat : i < j => <<i, j>> \in R BY DEF OpToRel
<1> HIDE DEF R
<1>3. PICK i \in S : \A j \in S : <<j, i>> \notin R BY <1>1, WFMin
<1>4. ASSUME NEW j \in S PROVE i <= j
  <2>1. i \in Nat /\ j \in Nat OBVIOUS
  <2>2. ~(j < i) BY <1>2, <1>3, <2>1
  <2> QED BY <2>1, <2>2
<1> QED BY <1>4

\* Induction over the numbers, for the numbers of a set.
LEMMA NumberInduction ==
    ASSUME NEW G, 0 \in G, \A n \in Nat : n \in G => n + 1 \in G
    PROVE  Nat \subseteq G
<1> SUFFICES ASSUME Nat \ G # {} PROVE FALSE
  OBVIOUS
<1>1. PICK i \in Nat \ G : \A j \in Nat \ G : i <= j
  BY LeastNumber
<1>2. i - 1 \in Nat /\ i - 1 \notin Nat \ G
  BY <1>1
<1>3. (i - 1) + 1 \in G
  BY <1>2
<1> QED BY <1>1, <1>3

\* What the recursive function of MapThenSumSet has to satisfy.
Summing(h, S) ==
    h = [T \in SUBSET S |->
            IF T = {} THEN 0
            ELSE Values[CHOOSE x \in T : TRUE] + h[T \ {CHOOSE x \in T : TRUE}]]

LEMMA SumUnfolds ==
    ASSUME NEW S, \E h : Summing(h, S)
    PROVE  \E h : Summing(h, S) /\ MapThenSumSet(LAMBDA s : Values[s], S) = h[S]
BY DEF MapThenSumSet, MapThenFoldSet, Summing

LEMMA SumExists ==
    ASSUME NEW S, IsFiniteSet(S)
    PROVE  \E h : Summing(h, S)
<1> DEFINE First(T) == CHOOSE x \in T : TRUE
           Small(n) == {T \in SUBSET S : Cardinality(T) <= n}
           Sums(h, n) == h = [T \in Small(n) |->
                                IF T = {} THEN 0 ELSE Values[First(T)] + h[T \ {First(T)}]]
           G == {n \in Nat : \E h : Sums(h, n)}
<1>1. \A T \in SUBSET S : /\ IsFiniteSet(T) /\ Cardinality(T) \in Nat
                          /\ Cardinality(T) <= Cardinality(S)
                          /\ Cardinality(T) = 0 <=> T = {}
  BY FS_Subset, FS_CardinalityType, FS_EmptySet
<1>2. \A T \in SUBSET S : T # {} =>
        T \ {First(T)} \in SUBSET S /\ Cardinality(T \ {First(T)}) = Cardinality(T) - 1
  <2> SUFFICES ASSUME NEW T \in SUBSET S, T # {}
               PROVE  Cardinality(T \ {First(T)}) = Cardinality(T) - 1
    OBVIOUS
  <2>1. First(T) \in T
    OBVIOUS
  <2> QED BY <1>1, <2>1, FS_RemoveElement
<1> HIDE DEF First
<1>3. 0 \in G
  <2> DEFINE h == [T \in Small(0) |-> 0]
  <2>1. \A T \in Small(0) : T = {}
    BY <1>1
  <2>2. Sums(h, 0)
    BY <2>1
  <2> QED BY <2>2
<1>4. ASSUME NEW n \in Nat, n \in G PROVE n + 1 \in G
  <2>1. PICK h : Sums(h, n)
    BY <1>4
  <2> DEFINE Body(f, T) == IF T = {} THEN 0 ELSE Values[First(T)] + f[T \ {First(T)}]
             k == [T \in Small(n + 1) |-> Body(h, T)]
  <2>2. \A T \in Small(n) : T \in Small(n + 1) /\ k[T] = h[T]
    <3> SUFFICES ASSUME NEW T \in Small(n) PROVE T \in Small(n + 1) /\ k[T] = h[T]
      OBVIOUS
    <3>1. T \in Small(n + 1)
      BY <1>1
    <3>2. h[T] = Body(h, T)
      BY <2>1
    <3> QED BY <3>1, <3>2
  <2>3. \A T \in Small(n + 1) : T # {} => T \ {First(T)} \in Small(n)
    BY <1>1, <1>2
  <2>4. \A T \in Small(n + 1) : Body(h, T) = Body(k, T)
    <3> SUFFICES ASSUME NEW T \in Small(n + 1) PROVE Body(h, T) = Body(k, T)
      OBVIOUS
    <3>1. CASE T = {}
      BY <3>1
    <3>2. CASE T # {}
      <4>1. k[T \ {First(T)}] = h[T \ {First(T)}]
        BY <2>2, <2>3, <3>2
      <4> HIDE DEF k
      <4> QED BY <3>2, <4>1
    <3> QED BY <3>1, <3>2
  <2>5. Sums(k, n + 1)
    <3> HIDE DEF Small
    <3>1. k = [T \in Small(n + 1) |-> Body(h, T)]
      OBVIOUS
    <3> HIDE DEF k
    <3> QED BY <2>4, <3>1
  <2> HIDE DEF k, Sums
  <2> QED BY <2>5
<1>5. Cardinality(S) \in G
  BY <1>1, <1>3, <1>4, NumberInduction
<1>6. PICK h : Sums(h, Cardinality(S))
  BY <1>5
<1>7. Small(Cardinality(S)) = SUBSET S
  BY <1>1
<1> QED BY <1>6, <1>7 DEF Summing, First

\* A sum of numbers is a number.
LEMMA SumType ==
    ASSUME NEW S, IsFiniteSet(S), \A s \in S : Values[s] \in Nat
    PROVE  MapThenSumSet(LAMBDA s : Values[s], S) \in Nat
<1>1. PICK h : Summing(h, S) /\ MapThenSumSet(LAMBDA s : Values[s], S) = h[S]
  BY SumExists, SumUnfolds
<1> DEFINE First(T) == CHOOSE x \in T : TRUE
           G == {n \in Nat : \A T \in SUBSET S : Cardinality(T) = n => h[T] \in Nat}
<1>2. \A T \in SUBSET S : /\ IsFiniteSet(T) /\ Cardinality(T) \in Nat
                          /\ Cardinality(T) = 0 <=> T = {}
  BY FS_Subset, FS_CardinalityType, FS_EmptySet
<1>3. \A T \in SUBSET S :
        h[T] = IF T = {} THEN 0 ELSE Values[First(T)] + h[T \ {First(T)}]
  BY <1>1 DEF Summing
<1>4. 0 \in G
  BY <1>2, <1>3
<1>5. ASSUME NEW n \in Nat, n \in G PROVE n + 1 \in G
  <2> SUFFICES ASSUME NEW T \in SUBSET S, Cardinality(T) = n + 1 PROVE h[T] \in Nat
    OBVIOUS
  <2>1. T # {} /\ First(T) \in T
    BY <1>2
  <2>2. Cardinality(T \ {First(T)}) = n /\ T \ {First(T)} \in SUBSET S
    <3> HIDE DEF First
    <3>1. IsFiniteSet(T)
      BY <1>2
    <3>2. Cardinality(T \ {First(T)}) = Cardinality(T) - 1
      BY <2>1, <3>1, FS_RemoveElement
    <3> QED BY <3>2
  <2>3. h[T \ {First(T)}] \in Nat
    BY <1>5, <2>2
  <2>4. Values[First(T)] \in Nat
    BY <2>1
  <2> QED BY <1>3, <2>1, <2>3, <2>4
<1>6. Cardinality(S) \in G
  BY <1>2, <1>4, <1>5, NumberInduction
<1> QED BY <1>1, <1>6

LEMMA AverageType ==
    ASSUME NEW S \in SUBSET Spaces
    PROVE  Average(S) \in [sum : Nat, count : Nat \ {0}]
<1>1. IsFiniteSet(S)
  <2>1. Len(Values) \in Nat
    BY ClusteringAssumption
  <2>2. IsFiniteSet(Spaces)
    BY <2>1, FS_Interval DEF Spaces
  <2> QED BY <2>2, FS_Subset
<1>2. \A s \in S : Values[s] \in Nat
  BY ClusteringAssumption DEF Spaces
<1>3. MapThenSumSet(LAMBDA s : Values[s], S) \in Nat
  BY <1>1, <1>2, SumType
<1>4. Cardinality(S) \in Nat /\ (S # {} => Cardinality(S) # 0)
  BY <1>1, FS_CardinalityType, FS_EmptySet
<1> QED BY <1>3, <1>4 DEF Average, Whole

-----------------------------------------------------------------------------
(* There is a first of the closest groups. *)

LEMMA ProductGrows ==
    ASSUME NEW a \in Int, NEW b \in Int, NEW k \in Nat \ {0}
    PROVE  /\ a < b => a * k < b * k
           /\ a <= b => a * k <= b * k
<1>1. ASSUME NEW d \in Nat PROVE d * k >= 0 /\ (d > 0 => d * k > 0)
  OBVIOUS
<1>2. b * k = a * k + (b - a) * k /\ a * k \in Int /\ b * k \in Int /\ (b - a) * k \in Int
  OBVIOUS
<1>3. ASSUME a <= b PROVE (b - a) * k >= 0 /\ (b - a > 0 => (b - a) * k > 0)
  BY <1>1, <1>3
<1> QED BY <1>2, <1>3

LEMMA FractionsTransitive ==
    ASSUME NEW x \in Nat, NEW y \in Nat, NEW z \in Nat,
           NEW p \in Nat \ {0}, NEW q \in Nat \ {0}, NEW r \in Nat \ {0},
           z * q < y * r, y * p <= x * q
    PROVE  z * p < x * r
<1>1. (z * q) * p < (y * r) * p
  <2>1. z * q \in Int /\ y * r \in Int
    OBVIOUS
  <2> QED BY <2>1, ProductGrows
<1>2. (y * p) * r <= (x * q) * r
  <2>1. y * p \in Int /\ x * q \in Int
    OBVIOUS
  <2> QED BY <2>1, ProductGrows
<1>3. /\ (z * q) * p = (z * p) * q /\ (y * r) * p = (y * p) * r /\ (x * q) * r = (x * r) * q
      /\ z * p \in Int /\ x * r \in Int /\ (z * p) * q \in Int /\ (x * r) * q \in Int
      /\ (y * p) * r \in Int
  OBVIOUS
<1>4. (z * p) * q < (x * r) * q
  BY <1>1, <1>2, <1>3
<1>5. x * r <= z * p => (x * r) * q <= (z * p) * q
  BY <1>3, ProductGrows
<1> QED BY <1>3, <1>4, <1>5

LEMMA ClosestType ==
    ASSUME NEW c \in [Groups -> [sum : Nat, count : Nat \ {0}]], NEW s \in Spaces
    PROVE  Closest(c, s) \in Groups
<1> DEFINE v == Values[s]
           D(g) == Magnitude(c[g].sum - v * c[g].count)
           N(g) == c[g].count
           First(k, g) == \A h \in 1 .. k :
                             /\ ~Nearer(c[h], c[g], v)
                             /\ h < g => Nearer(c[g], c[h], v)
           G == {k \in Nat : k = 0 \/ k > Len(Start) \/ \E g \in 1 .. k : First(k, g)}
<1>1. v \in Nat /\ Len(Start) \in Nat /\ Len(Start) > 0 /\ Groups = 1 .. Len(Start)
  BY ClusteringAssumption DEF Spaces, Groups
<1>2. \A g \in Groups : D(g) \in Nat /\ N(g) \in Nat \ {0}
  <2> SUFFICES ASSUME NEW g \in Groups PROVE D(g) \in Nat /\ N(g) \in Nat \ {0}
    OBVIOUS
  <2>1. c[g].sum \in Nat /\ c[g].count \in Nat \ {0}
    OBVIOUS
  <2>2. v * c[g].count \in Int
    BY <1>1, <2>1
  <2>3. c[g].sum - v * c[g].count \in Int
    BY <2>1, <2>2
  <2> QED BY <2>1, <2>3 DEF Magnitude
<1>3. \A g, h \in Groups : Nearer(c[g], c[h], v) <=> D(g) * N(h) < D(h) * N(g)
  BY DEF Nearer
<1> HIDE DEF D, N
<1>4. \A g, h \in Groups : D(g) * N(h) \in Int
  BY <1>2
<1>5. ASSUME NEW a \in Groups, NEW b \in Groups, NEW d \in Groups,
             Nearer(c[a], c[b], v), ~Nearer(c[d], c[b], v)
      PROVE  Nearer(c[a], c[d], v)
  <2>1. D(a) * N(b) < D(b) * N(a) /\ D(b) * N(d) <= D(d) * N(b)
    BY <1>3, <1>4, <1>5
  <2>2. D(a) * N(d) < D(d) * N(a)
    BY <1>2, <2>1, FractionsTransitive
  <2> QED BY <1>3, <2>2
<1>6. \A a, b \in Groups : Nearer(c[a], c[b], v) => ~Nearer(c[b], c[a], v)
  BY <1>3, <1>4
<1> HIDE DEF v
<1>7. 0 \in G
  OBVIOUS
<1>8. ASSUME NEW k \in Nat, k \in G PROVE k + 1 \in G
  <2>1. CASE k = 0
    <3>1. CASE Len(Start) >= 1
      <4>1. 1 \in Groups
        BY <1>1
      <4>2. First(1, 1)
        BY <1>3, <1>4, <4>1
      <4> QED BY <2>1, <4>2
    <3> QED BY <1>1, <3>1
  <2>2. CASE k + 1 > Len(Start)
    BY <2>2
  <2>3. CASE k # 0 /\ k + 1 <= Len(Start)
    <3>1. PICK g \in 1 .. k : First(k, g)
      BY <1>1, <1>8, <2>3
    <3>2. g \in Groups /\ k + 1 \in Groups /\ 1 .. k \subseteq Groups
          /\ 1 .. k + 1 = (1 .. k) \cup {k + 1} /\ g < k + 1
      BY <1>1, <2>3
    <3>3. CASE Nearer(c[k + 1], c[g], v)
      <4>1. \A h \in 1 .. k : Nearer(c[k + 1], c[h], v)
        BY <1>5, <3>1, <3>2, <3>3
      <4>2. ~Nearer(c[k + 1], c[k + 1], v)
        BY <1>3, <1>4, <3>2
      <4>3. First(k + 1, k + 1)
        BY <1>6, <3>2, <4>1, <4>2
      <4> HIDE DEF First
      <4> QED BY <4>3
    <3>4. CASE ~Nearer(c[k + 1], c[g], v)
      <4>1. First(k + 1, g)
        BY <3>1, <3>2, <3>4
      <4>2. g \in 1 .. k + 1
        BY <3>2
      <4> HIDE DEF First
      <4> QED BY <4>1, <4>2
    <3> QED BY <3>3, <3>4
  <2> QED BY <1>1, <2>1, <2>2, <2>3
<1> HIDE DEF First
<1>9. Len(Start) \in G
  <2> HIDE DEF G
  <2> QED BY <1>1, <1>7, <1>8, NumberInduction
<1>10. PICK g \in Groups : First(Len(Start), g)
  BY <1>1, <1>9
<1>11. \E x \in Groups : \A h \in Groups :
          /\ ~Nearer(c[h], c[x], Values[s])
          /\ h < x => Nearer(c[x], c[h], Values[s])
  BY <1>1, <1>10 DEF First, v
<1> QED BY <1>11 DEF Closest

-----------------------------------------------------------------------------
(* The types, however many computations are under way.                     *)

\* The messages that a queue may hold.
Messages(k) ==
    IF k = MapFinished THEN Mappers
    ELSE IF k = ReduceFinished THEN [group : Groups, close : BOOLEAN]
    ELSE IF k[1] = "map" THEN {Chunk(k[2])}
    ELSE IF k[1] = "reduce" THEN Groups
    ELSE {0}

QueuesTyped == \A k \in Queues : queue[k] \in Seq(Messages(k))

\* Before the first message of Input the stores are empty and no other handler
\* has had anything to do.
Unfilled ==
    /\ centres = << >> /\ assigned = << >> /\ mapDone = {}
    /\ pc[Input] = "idle"
    /\ \A k \in Queues \ {Input} : Idle(k)

Filled == centres \in [Groups -> Centre] /\ assigned \in [Spaces -> Groups \cup {0}]

LoopsWithin ==
    /\ pc[Input] = "sending" => next[Input] \in Mappers
    /\ pc[Shuffle] = "sending" => next[Shuffle] \in Groups

\* What a map handler has chosen, before it is saved.
AttemptRight(m) ==
    pc[Map(m)] = "saving" => DOMAIN chosen[m] = Chunk(m) /\ tries[m] <= RetryCount

TypeInv ==
    /\ Shape /\ TypeOK /\ QueuesTyped
    /\ Unfilled \/ Filled
    /\ LoopsWithin
    /\ \A m \in Mappers : AttemptRight(m)

\* All spaces of a map worker have a group.
Saved(m) == \A s \in Chunk(m) : assigned[s] # 0

SaidSaved(m) == pc[Map(m)] = "publishing" \/ Holds(queue[MapFinished], m) \/ m \in mapDone

SaidAllSaved ==
    \/ pc[MapFinished] = "publishing" \/ queue[Shuffle] # << >> \/ pc[Shuffle] = "sending"
    \/ \E r \in Reducers : queue[Reduce(r)] # << >>

SavedInv ==
    /\ \A m \in Mappers : SaidSaved(m) => Saved(m)
    /\ SaidAllSaved => \A m \in Mappers : Saved(m)
    /\ NoReducerThrows

LEMMA MessagesOf ==
    /\ Messages(Input) = {0} /\ Messages(Shuffle) = {0}
    /\ Messages(MapFinished) = Mappers
    /\ Messages(ReduceFinished) = [group : Groups, close : BOOLEAN]
    /\ \A m \in Mappers : Messages(Map(m)) = {Chunk(m)}
    /\ \A r \in Reducers : Messages(Reduce(r)) = Groups
BY DEF Messages, Input, MapFinished, Shuffle, ReduceFinished, Map, Reduce

LEMMA SameMessages == \A k \in Queues : Messages(k)' = Messages(k)
BY DEF Messages, Chunk, ChunkSize, Mappers, Groups, MapFinished, ReduceFinished

LEMMA KeptTyped ==
    ASSUME QueuesTyped, UNCHANGED queue
    PROVE  QueuesTyped'
BY SameMessages DEF QueuesTyped

LEMMA LostTyped ==
    ASSUME Shape, QueuesTyped, NEW k \in Queues, queue[k] # << >>,
           queue' = [queue EXCEPT ![k] = Tail(@)]
    PROVE  QueuesTyped' /\ Head(queue[k]) \in Messages(k) /\ Holds(queue[k], Head(queue[k]))
<1>1. /\ queue[k] \in Seq(Messages(k)) /\ queue'[k] = Tail(queue[k])
      /\ \A j \in Queues : j # k => queue'[j] = queue[j]
  BY DEF Shape, QueuesTyped
<1>2. /\ Tail(queue[k]) \in Seq(Messages(k)) /\ Head(queue[k]) \in Messages(k)
      /\ Holds(queue[k], Head(queue[k]))
  BY <1>1, TailHolds
<1> QED BY <1>1, <1>2, SameMessages DEF QueuesTyped

LEMMA PublishedTyped ==
    ASSUME Shape, QueuesTyped, NEW k \in Queues, NEW x \in Messages(k), Publish(k, x)
    PROVE  /\ QueuesTyped'
           /\ queue'[k] # << >>
           /\ \A y : Holds(queue'[k], y) <=> Holds(queue[k], y) \/ y = x
<1>1. /\ queue[k] \in Seq(Messages(k)) /\ queue'[k] = Append(queue[k], x)
      /\ \A j \in Queues : j # k => queue'[j] = queue[j]
  BY Published DEF QueuesTyped
<1>2. /\ Append(queue[k], x) \in Seq(Messages(k)) /\ Append(queue[k], x) # << >>
      /\ \A y : Holds(Append(queue[k], x), y) <=> Holds(queue[k], y) \/ y = x
  BY <1>1, AppendHolds
<1> QED BY <1>1, <1>2, SameMessages DEF QueuesTyped

\* The chunk of a map worker is a part of the spaces.
LEMMA ChunkWithin ==
    ASSUME NEW m \in Mappers
    PROVE  Chunk(m) \subseteq Spaces
<1>1. Len(Values) \in Nat /\ NbMappers \in Nat \ {0} /\ m \in Int /\ 1 <= m /\ m <= NbMappers
  BY ClusteringAssumption, MapReduceAssumption DEF Mappers
<1>2. ChunkSize \in Nat /\ NbMappers * ChunkSize <= Len(Values)
  BY <1>1 DEF ChunkSize
<1> HIDE DEF ChunkSize
<1>3. /\ (m - 1) * ChunkSize >= 0 /\ m * ChunkSize <= NbMappers * ChunkSize
      /\ m * ChunkSize \in Int /\ (m - 1) * ChunkSize \in Int /\ NbMappers * ChunkSize \in Int
  <2>1. (m - 1) * ChunkSize >= 0 /\ (NbMappers - m) * ChunkSize >= 0
    BY <1>1, <1>2
  <2>2. (NbMappers - m) * ChunkSize = NbMappers * ChunkSize - m * ChunkSize
    BY <1>1, <1>2
  <2> QED BY <1>1, <1>2, <2>1, <2>2
<1> QED BY <1>1, <1>2, <1>3 DEF Chunk, Spaces

\* When the spaces can be dealt out evenly, every space is in a chunk.
LEMMA ChunksCover ==
    ASSUME Len(Values) = NbMappers * ChunkSize, NEW s \in Spaces
    PROVE  \E m \in Mappers : s \in Chunk(m)
<1>1. Len(Values) \in Nat /\ NbMappers \in Nat \ {0} /\ s \in Int /\ 1 <= s /\ s <= Len(Values)
  BY ClusteringAssumption, MapReduceAssumption DEF Spaces
<1>2. ChunkSize \in Nat
  BY <1>1 DEF ChunkSize
<1> HIDE DEF ChunkSize
<1> DEFINE G == {m \in Nat : s <= m * ChunkSize}
<1>3. NbMappers \in G
  BY <1>1
<1>4. PICK m \in G : \A n \in G : m <= n
  BY <1>3, LeastNumber
<1>5. m \in Nat /\ m <= NbMappers /\ s <= m * ChunkSize
  BY <1>3, <1>4
<1>6. m # 0
  BY <1>1, <1>2, <1>5
<1>7. m - 1 \in Nat /\ m - 1 \notin G
  BY <1>4, <1>5, <1>6
<1>8. (m - 1) * ChunkSize < s /\ (m - 1) * ChunkSize \in Int /\ m * ChunkSize \in Int
  BY <1>1, <1>2, <1>5, <1>7
<1>9. s \in Chunk(m)
  BY <1>1, <1>5, <1>8 DEF Chunk
<1> QED BY <1>1, <1>5, <1>6, <1>9 DEF Mappers

LEMMA FilledLength ==
    ASSUME Filled
    PROVE  centres # << >> /\ Len(centres) = Len(Start) /\ ~Unfilled
<1>1. centres = [g \in Groups |-> centres[g]] BY DEF Filled
<1> QED BY <1>1, StartLength DEF Unfilled

Stages ==
    {"idle", "sending", "saving", "publishing", "counting", "collecting", "resetting",
     "incrementing", "deciding", "threw"}

LEMMA StageTyped ==
    ASSUME Shape, TypeOK, NEW k \in Queues, NEW from, NEW to \in Stages, Go(k, from, to)
    PROVE  \A j \in Queues : pc'[j] \in Stages
<1>1. \A j \in Queues : pc[j] \in Stages
  BY DEF TypeOK, Stages
<1> QED BY <1>1, Gone

\* A handler that is at work, other than that of Input, has found the stores filled.
LEMMA AtWorkFilled ==
    ASSUME TypeInv, NEW k \in Queues,
           pc[k] # "idle" \/ (k # Input /\ queue[k] # << >>)
    PROVE  Filled
BY DEF TypeInv, Unfilled, Idle

LEMMA HandleInputTyped ==
    ASSUME TypeInv, HandleInput
    PROVE  TypeInv'
<1>1. /\ pc[Input] = "idle" /\ pc'[Input] = "sending"
      /\ \A k \in Queues : k # Input => pc'[k] = pc[k] /\ queue'[k] = queue[k]
      /\ Go(Input, "idle", "sending") /\ queue[Input] # << >>
      /\ queue' = [queue EXCEPT ![Input] = Tail(@)]
  BY Taken, QueueNames DEF TypeInv, HandleInput, Take
<1>2. Shape' /\ QueuesTyped'
  <2>1. Shape'
    BY StepShape DEF TypeInv, Next, InputSteps
  <2>2. QueuesTyped'
    BY <1>1, LostTyped, QueueNames DEF TypeInv
  <2> QED BY <2>1, <2>2
<1>3. Filled'
  <2>1. StartCentres \in [Groups -> Centre] /\ Unassigned \in [Spaces -> Groups \cup {0}]
    BY ClusteringAssumption DEF StartCentres, Unassigned, Centre, Whole, Groups
  <2>2. CASE Unfilled
    <3>1. centres' = StartCentres /\ assigned' = Unassigned
      BY <2>2 DEF HandleInput, Unfilled
    <3> QED BY <2>1, <3>1 DEF Filled
  <2>3. CASE Filled
    <3>1. centres' = centres /\ assigned' = assigned
      BY <2>3, FilledLength DEF HandleInput
    <3> QED BY <2>3, <3>1 DEF Filled
  <2> QED BY <2>2, <2>3 DEF TypeInv
<1>4. /\ next' \in [{Input, Shuffle} -> Nat] /\ next'[Input] \in Mappers
      /\ next'[Shuffle] = next[Shuffle]
  BY QueueNames, MapReduceAssumption DEF TypeInv, TypeOK, Shape, HandleInput, Mappers
<1>5. LoopsWithin'
  BY <1>1, <1>4, QueueNames DEF TypeInv, LoopsWithin
<1>6. ASSUME NEW m \in Mappers PROVE AttemptRight(m)'
  <2>1. pc'[Map(m)] = pc[Map(m)] /\ chosen' = chosen /\ tries' = tries
    BY <1>1, QueueNames DEF HandleInput
  <2> QED BY <2>1, SameChunks DEF TypeInv, AttemptRight
<1>7. TypeOK'
  <2>1. \A k \in Queues : pc'[k] \in Stages
    BY <1>1, StageTyped, QueueNames DEF TypeInv, Stages
  <2> QED BY <1>2, <1>3, <1>4, <2>1
    DEF TypeInv, TypeOK, Shape, Filled, HandleInput, resultVars, Stages
<1> QED BY <1>2, <1>3, <1>5, <1>6, <1>7 DEF TypeInv

LEMMA SameAttempt ==
    ASSUME TypeInv, NEW m \in Mappers, pc'[Map(m)] = pc[Map(m)], chosen'[m] = chosen[m],
           tries'[m] = tries[m]
    PROVE  AttemptRight(m)'
<1>1. Chunk(m)' = Chunk(m)
  BY DEF Chunk, ChunkSize
<1> QED BY <1>1 DEF TypeInv, AttemptRight

LEMMA PostInputTyped ==
    ASSUME TypeInv, PostInput
    PROVE  TypeInv'
<1>1. /\ UNCHANGED <<centres, assigned, mapDone, reduceDone, close, iteration, displayed, ended,
                     pc, next, chosen, tries, fresh>>
      /\ Publish(Input, 0)
  BY DEF PostInput, storeVars, resultVars, localVars
<1>2. Shape' /\ QueuesTyped'
  BY <1>1, StepShape, PublishedTyped, MessagesOf, QueueNames DEF TypeInv, Next
<1>3. \A k \in Queues : k # Input => queue'[k] = queue[k]
  BY <1>1, Published, QueueNames DEF TypeInv
<1>4. (Unfilled \/ Filled)'
  BY <1>1, <1>3 DEF TypeInv, Unfilled, Filled, Idle
<1>5. LoopsWithin' /\ \A m \in Mappers : AttemptRight(m)'
  BY <1>1, SameAttempt DEF TypeInv, LoopsWithin
<1>6. TypeOK'
  BY <1>1, <1>2, <1>4 DEF TypeInv, TypeOK, Shape, Unfilled, Filled
<1> QED BY <1>2, <1>4, <1>5, <1>6 DEF TypeInv

LEMMA LoseTyped ==
    ASSUME TypeInv, NEW k \in Queues, Lose(k)
    PROVE  TypeInv'
<1>1. /\ UNCHANGED <<centres, assigned, mapDone, reduceDone, close, iteration, displayed, ended,
                     pc, next, chosen, tries, fresh>>
      /\ queue[k] # << >> /\ queue' = [queue EXCEPT ![k] = Tail(@)]
  BY DEF Lose, storeVars, resultVars, localVars
<1>2. Shape' /\ QueuesTyped'
  BY <1>1, StepShape, LostTyped DEF TypeInv, Next
<1>3. \A j \in Queues : j # k => queue'[j] = queue[j]
  BY <1>1 DEF TypeInv, Shape
<1>4. (Unfilled \/ Filled)'
  BY <1>1, <1>3 DEF TypeInv, Unfilled, Filled, Idle
<1>5. LoopsWithin' /\ \A m \in Mappers : AttemptRight(m)'
  BY <1>1, SameAttempt DEF TypeInv, LoopsWithin
<1>6. TypeOK'
  BY <1>1, <1>2, <1>4 DEF TypeInv, TypeOK, Shape, Unfilled, Filled
<1> QED BY <1>2, <1>4, <1>5, <1>6 DEF TypeInv

LEMMA SendChunkTyped ==
    ASSUME TypeInv, SendChunk
    PROVE  TypeInv'
<1> DEFINE m == next[Input]
           to == IF m = NbMappers THEN "idle" ELSE "sending"
<1>1. /\ UNCHANGED <<centres, assigned, mapDone, reduceDone, close, iteration, displayed, ended,
                     chosen, tries, fresh>>
      /\ Go(Input, "sending", to) /\ Publish(Map(m), Chunk(m))
      /\ next' = [next EXCEPT ![Input] = @ + 1]
  BY DEF SendChunk, storeVars, resultVars
<1>2. /\ pc[Input] = "sending" /\ pc'[Input] = to
      /\ \A k \in Queues : k # Input => pc'[k] = pc[k]
  BY <1>1, Gone, QueueNames DEF TypeInv
<1>3. m \in Mappers /\ Map(m) \in Queues /\ Filled
  <2>1. m \in Mappers
    BY <1>2 DEF TypeInv, LoopsWithin
  <2>2. Filled
    BY <1>2, QueueNames, AtWorkFilled
  <2> QED BY <2>1, <2>2, QueueNames
<1>4. Shape' /\ QueuesTyped'
  <2>1. Shape'
    BY StepShape DEF TypeInv, Next, InputSteps
  <2>2. QueuesTyped'
    BY <1>1, <1>3, PublishedTyped, MessagesOf DEF TypeInv
  <2> QED BY <2>1, <2>2
<1>5. Filled'
  BY <1>1, <1>3 DEF Filled
<1>6. next' \in [{Input, Shuffle} -> Nat] /\ next'[Input] = m + 1 /\ next'[Shuffle] = next[Shuffle]
  BY <1>1, QueueNames DEF TypeInv, TypeOK
<1>7. LoopsWithin'
  <2>1. m # NbMappers => m + 1 \in Mappers
    BY <1>3, MapReduceAssumption DEF Mappers
  <2> QED BY <1>2, <1>6, <2>1, QueueNames DEF TypeInv, LoopsWithin
<1>8. \A n \in Mappers : AttemptRight(n)'
  BY <1>1, <1>2, QueueNames, SameAttempt
<1>9. TypeOK'
  <2>1. \A k \in Queues : pc'[k] \in Stages
    BY <1>1, StageTyped, QueueNames DEF TypeInv, Stages
  <2> QED BY <1>1, <1>4, <1>5, <1>6, <2>1 DEF TypeInv, TypeOK, Shape, Filled, Stages
<1> QED BY <1>4, <1>5, <1>7, <1>8, <1>9 DEF TypeInv

\* Every choice of a map handler is a group.
LEMMA ChoiceTyped ==
    ASSUME Filled, NEW S \in SUBSET Spaces
    PROVE  Choose(S) \in [S -> Groups]
<1>1. \A s \in S : Closest(centres, s) \in Groups
  BY ClosestType DEF Filled, Centre
<1> QED BY <1>1 DEF Choose

LEMMA HandleMapTyped ==
    ASSUME TypeInv, NEW m \in Mappers, HandleMap(m)
    PROVE  TypeInv'
<1>1. /\ UNCHANGED <<centres, assigned, mapDone, reduceDone, close, iteration, displayed, ended,
                     next, fresh>>
      /\ Go(Map(m), "idle", "saving") /\ queue[Map(m)] # << >>
      /\ queue' = [queue EXCEPT ![Map(m)] = Tail(@)]
      /\ chosen' = [chosen EXCEPT ![m] = Choose(Head(queue[Map(m)]))]
      /\ tries' = [tries EXCEPT ![m] = 0]
  BY DEF HandleMap, Take, storeVars, resultVars
<1>2. /\ pc'[Map(m)] = "saving"
      /\ \A k \in Queues : k # Map(m) => pc'[k] = pc[k]
  BY <1>1, Gone, QueueNames DEF TypeInv
<1>3. Filled /\ Filled'
  BY <1>1, QueueNames, AtWorkFilled DEF Filled
<1>4. Shape' /\ QueuesTyped' /\ Head(queue[Map(m)]) = Chunk(m)
  <2>1. Shape'
    BY StepShape DEF TypeInv, Next, MapSteps
  <2>2. QueuesTyped' /\ Head(queue[Map(m)]) \in Messages(Map(m))
    BY <1>1, LostTyped, QueueNames DEF TypeInv
  <2> QED BY <2>1, <2>2, MessagesOf
<1>5. Choose(Chunk(m)) \in [Chunk(m) -> Groups] /\ Chunk(m) \in SUBSET Spaces
  BY <1>3, ChunkWithin, ChoiceTyped
<1>6. /\ chosen'[m] = Choose(Chunk(m)) /\ tries'[m] = 0
      /\ \A n \in Mappers : n # m => chosen'[n] = chosen[n] /\ tries'[n] = tries[n]
      /\ tries' \in [Mappers -> 0 .. RetryCount + 1]
  BY <1>1, <1>4, MapReduceAssumption DEF TypeInv, TypeOK, Shape
<1>7. LoopsWithin'
  BY <1>1, <1>2, QueueNames DEF TypeInv, LoopsWithin
<1>8. ASSUME NEW n \in Mappers PROVE AttemptRight(n)'
  <2>1. CASE n # m
    BY <1>2, <1>6, <2>1, QueueNames, SameAttempt
  <2>2. CASE n = m
    <3>1. Chunk(m)' = Chunk(m)
      BY DEF Chunk, ChunkSize
    <3> QED BY <1>5, <1>6, <2>2, <3>1, MapReduceAssumption DEF AttemptRight
  <2> QED BY <2>1, <2>2
<1>9. TypeOK'
  <2>1. \A k \in Queues : pc'[k] \in Stages
    BY <1>1, StageTyped, QueueNames DEF TypeInv, Stages
  <2>2. \A n \in Mappers : \E spaces \in SUBSET Spaces : chosen'[n] \in [spaces -> Groups]
    BY <1>5, <1>6 DEF TypeInv, TypeOK
  <2> QED BY <1>1, <1>3, <1>4, <1>6, <2>1, <2>2 DEF TypeInv, TypeOK, Shape, Filled, Stages
<1> QED BY <1>3, <1>4, <1>7, <1>8, <1>9 DEF TypeInv

LEMMA MapFailsTyped ==
    ASSUME TypeInv, NEW m \in Mappers, MapFails(m)
    PROVE  TypeInv'
<1> DEFINE to == IF tries[m] < RetryCount THEN "saving" ELSE "threw"
<1>1. /\ UNCHANGED <<centres, assigned, mapDone, reduceDone, close, iteration, displayed, ended,
                     queue, next, fresh>>
      /\ Go(Map(m), "saving", to)
      /\ tries' = [tries EXCEPT ![m] = @ + 1]
      /\ chosen' = [chosen EXCEPT ![m] = Choose(DOMAIN @)]
  BY DEF MapFails, storeVars, resultVars
<1>2. /\ pc[Map(m)] = "saving" /\ pc'[Map(m)] = to
      /\ \A k \in Queues : k # Map(m) => pc'[k] = pc[k]
  BY <1>1, Gone, QueueNames DEF TypeInv
<1>3. Filled /\ Filled'
  BY <1>1, <1>2, QueueNames, AtWorkFilled DEF Filled
<1>4. Shape' /\ QueuesTyped'
  BY <1>1, StepShape, KeptTyped DEF TypeInv, Next
<1>5. /\ DOMAIN chosen[m] = Chunk(m) /\ tries[m] <= RetryCount
      /\ Choose(Chunk(m)) \in [Chunk(m) -> Groups] /\ Chunk(m) \in SUBSET Spaces
  BY <1>2, <1>3, ChunkWithin, ChoiceTyped DEF TypeInv, AttemptRight
<1>6. /\ chosen'[m] = Choose(Chunk(m)) /\ tries'[m] = tries[m] + 1
      /\ \A n \in Mappers : n # m => chosen'[n] = chosen[n] /\ tries'[n] = tries[n]
      /\ tries[m] \in Nat
      /\ tries' \in [Mappers -> 0 .. RetryCount + 1]
  BY <1>1, <1>5, MapReduceAssumption DEF TypeInv, TypeOK, Shape
<1>7. LoopsWithin'
  BY <1>1, <1>2, QueueNames DEF TypeInv, LoopsWithin
<1>8. ASSUME NEW n \in Mappers PROVE AttemptRight(n)'
  <2>1. CASE n # m
    BY <1>2, <1>6, <2>1, QueueNames, SameAttempt
  <2>2. CASE n = m
    <3>1. Chunk(m)' = Chunk(m)
      BY DEF Chunk, ChunkSize
    <3>2. pc'[Map(m)] = "saving" => tries'[m] <= RetryCount
      BY <1>2, <1>6, MapReduceAssumption
    <3> QED BY <1>5, <1>6, <2>2, <3>1, <3>2 DEF AttemptRight
  <2> QED BY <2>1, <2>2
<1>9. TypeOK'
  <2>1. \A k \in Queues : pc'[k] \in Stages
    BY <1>1, StageTyped, QueueNames DEF TypeInv, Stages
  <2>2. \A n \in Mappers : \E spaces \in SUBSET Spaces : chosen'[n] \in [spaces -> Groups]
    BY <1>5, <1>6 DEF TypeInv, TypeOK
  <2> QED BY <1>1, <1>3, <1>4, <1>6, <2>1, <2>2 DEF TypeInv, TypeOK, Shape, Filled, Stages
<1> QED BY <1>3, <1>4, <1>7, <1>8, <1>9 DEF TypeInv

LEMMA SaveMappedTyped ==
    ASSUME TypeInv, NEW m \in Mappers, SaveMapped(m)
    PROVE  TypeInv' /\ Saved(m)' /\ \A n \in Mappers : Saved(n) => Saved(n)'
<1>1. /\ UNCHANGED <<centres, mapDone, reduceDone, close, iteration, displayed, ended,
                     queue, next, chosen, tries, fresh>>
      /\ Go(Map(m), "saving", "publishing")
      /\ assigned' = [s \in Spaces |->
                         IF s \in DOMAIN chosen[m] THEN chosen[m][s] ELSE assigned[s]]
  BY DEF SaveMapped, resultVars, localVars
<1>2. /\ pc[Map(m)] = "saving" /\ pc'[Map(m)] = "publishing"
      /\ \A k \in Queues : k # Map(m) => pc'[k] = pc[k]
  BY <1>1, Gone, QueueNames DEF TypeInv
<1>3. Filled
  BY <1>1, <1>2, QueueNames, AtWorkFilled
<1>4. Shape' /\ QueuesTyped'
  BY <1>1, StepShape, KeptTyped DEF TypeInv, Next, MapSteps
<1>5. DOMAIN chosen[m] = Chunk(m) /\ \A s \in Chunk(m) : chosen[m][s] \in Groups
  BY <1>2 DEF TypeInv, TypeOK, AttemptRight
<1>6. Filled'
  BY <1>1, <1>3, <1>5 DEF Filled
<1>7. Saved(m)' /\ \A n \in Mappers : Saved(n) => Saved(n)'
  <2>1. \A n \in Mappers : Chunk(n)' = Chunk(n) /\ Chunk(n) \subseteq Spaces
    BY ChunkWithin DEF Chunk, ChunkSize
  <2>2. \A g \in Groups : g # 0
    BY DEF Groups
  <2>3. \A s \in Chunk(m) : assigned'[s] # 0
    BY <1>1, <1>5, <2>1, <2>2
  <2>4. \A s \in Spaces : assigned[s] # 0 => assigned'[s] # 0
    BY <1>1, <1>5, <2>2
  <2> QED BY <2>1, <2>3, <2>4 DEF Saved
<1>8. LoopsWithin' /\ \A n \in Mappers : n # m => AttemptRight(n)'
  BY <1>1, <1>2, QueueNames, SameAttempt DEF TypeInv, LoopsWithin
<1>9. AttemptRight(m)'
  BY <1>2 DEF AttemptRight
<1>10. TypeOK'
  <2>1. \A k \in Queues : pc'[k] \in Stages
    BY <1>1, StageTyped, QueueNames DEF TypeInv, Stages
  <2> QED BY <1>1, <1>4, <1>6, <2>1 DEF TypeInv, TypeOK, Shape, Filled, Stages
<1> QED BY <1>4, <1>6, <1>7, <1>8, <1>9, <1>10 DEF TypeInv

LEMMA PublishMapFinishedTyped ==
    ASSUME TypeInv, NEW m \in Mappers, PublishMapFinished(m)
    PROVE  TypeInv'
<1>1. /\ UNCHANGED <<centres, assigned, mapDone, reduceDone, close, iteration, displayed, ended,
                     next, chosen, tries, fresh>>
      /\ Go(Map(m), "publishing", "idle") /\ Publish(MapFinished, m)
  BY DEF PublishMapFinished, storeVars, resultVars, localVars
<1>2. /\ pc[Map(m)] = "publishing" /\ pc'[Map(m)] = "idle"
      /\ \A k \in Queues : k # Map(m) => pc'[k] = pc[k]
  BY <1>1, Gone, QueueNames DEF TypeInv
<1>3. Filled /\ Filled'
  BY <1>1, <1>2, QueueNames, AtWorkFilled DEF Filled
<1>4. Shape' /\ QueuesTyped'
  <2>1. Shape'
    BY StepShape DEF TypeInv, Next, MapSteps
  <2>2. QueuesTyped'
    BY <1>1, PublishedTyped, MessagesOf, QueueNames DEF TypeInv
  <2> QED BY <2>1, <2>2
<1>5. LoopsWithin' /\ \A n \in Mappers : n # m => AttemptRight(n)'
  BY <1>1, <1>2, QueueNames, SameAttempt DEF TypeInv, LoopsWithin
<1>6. AttemptRight(m)'
  BY <1>2 DEF AttemptRight
<1>7. TypeOK'
  <2>1. \A k \in Queues : pc'[k] \in Stages
    BY <1>1, StageTyped, QueueNames DEF TypeInv, Stages
  <2> QED BY <1>1, <1>3, <1>4, <2>1 DEF TypeInv, TypeOK, Shape, Filled, Stages
<1> QED BY <1>3, <1>4, <1>5, <1>6, <1>7 DEF TypeInv

LEMMA HandleMapFinishedTyped ==
    ASSUME TypeInv, HandleMapFinished
    PROVE  TypeInv'
<1>1. /\ UNCHANGED <<centres, assigned, reduceDone, close, iteration, displayed, ended,
                     next, chosen, tries, fresh>>
      /\ Go(MapFinished, "idle", "counting") /\ queue[MapFinished] # << >>
      /\ queue' = [queue EXCEPT ![MapFinished] = Tail(@)]
      /\ mapDone' = mapDone \cup {Head(queue[MapFinished])}
  BY DEF HandleMapFinished, Take, resultVars, localVars
<1>2. \A k \in Queues : k # MapFinished => pc'[k] = pc[k]
  BY <1>1, Gone, QueueNames DEF TypeInv
<1>3. Filled /\ Filled'
  BY <1>1, QueueNames, AtWorkFilled DEF Filled
<1>4. Shape' /\ QueuesTyped' /\ Head(queue[MapFinished]) \in Mappers
  <2>1. Shape'
    BY StepShape DEF TypeInv, Next, MapFinishedSteps
  <2>2. QueuesTyped' /\ Head(queue[MapFinished]) \in Messages(MapFinished)
    BY <1>1, LostTyped, QueueNames DEF TypeInv
  <2> QED BY <2>1, <2>2, MessagesOf
<1>5. LoopsWithin' /\ \A m \in Mappers : AttemptRight(m)'
  BY <1>1, <1>2, QueueNames, SameAttempt DEF TypeInv, LoopsWithin
<1>6. TypeOK'
  <2>1. \A k \in Queues : pc'[k] \in Stages
    BY <1>1, StageTyped, QueueNames DEF TypeInv, Stages
  <2> QED BY <1>1, <1>3, <1>4, <2>1 DEF TypeInv, TypeOK, Shape, Filled, Stages
<1> QED BY <1>3, <1>4, <1>5, <1>6 DEF TypeInv

LEMMA CountMapFinishedTyped ==
    ASSUME TypeInv, CountMapFinished
    PROVE  TypeInv'
<1> DEFINE to == IF AllMapped THEN "publishing" ELSE "idle"
<1>1. /\ UNCHANGED <<centres, assigned, reduceDone, close, iteration, displayed, ended,
                     queue, next, chosen, tries, fresh>>
      /\ Go(MapFinished, "counting", to) /\ mapDone' \subseteq mapDone
  BY DEF CountMapFinished, resultVars, localVars
<1>2. /\ pc[MapFinished] = "counting"
      /\ \A k \in Queues : k # MapFinished => pc'[k] = pc[k]
  BY <1>1, Gone, QueueNames DEF TypeInv
<1>3. Filled /\ Filled'
  BY <1>1, <1>2, QueueNames, AtWorkFilled DEF Filled
<1>4. Shape' /\ QueuesTyped'
  BY <1>1, StepShape, KeptTyped DEF TypeInv, Next, MapFinishedSteps
<1>5. LoopsWithin' /\ \A m \in Mappers : AttemptRight(m)'
  BY <1>1, <1>2, QueueNames, SameAttempt DEF TypeInv, LoopsWithin
<1>6. TypeOK'
  <2>1. \A k \in Queues : pc'[k] \in Stages
    BY <1>1, StageTyped, QueueNames DEF TypeInv, Stages
  <2> QED BY <1>1, <1>3, <1>4, <2>1 DEF TypeInv, TypeOK, Shape, Filled, Stages
<1> QED BY <1>3, <1>4, <1>5, <1>6 DEF TypeInv

LEMMA PublishShuffleTyped ==
    ASSUME TypeInv, PublishShuffle
    PROVE  TypeInv'
<1>1. /\ UNCHANGED <<centres, assigned, mapDone, reduceDone, close, iteration, displayed, ended,
                     next, chosen, tries, fresh>>
      /\ Go(MapFinished, "publishing", "idle") /\ Publish(Shuffle, 0)
  BY DEF PublishShuffle, storeVars, resultVars, localVars
<1>2. /\ pc[MapFinished] = "publishing"
      /\ \A k \in Queues : k # MapFinished => pc'[k] = pc[k]
  BY <1>1, Gone, QueueNames DEF TypeInv
<1>3. Filled /\ Filled'
  BY <1>1, <1>2, QueueNames, AtWorkFilled DEF Filled
<1>4. Shape' /\ QueuesTyped'
  <2>1. Shape'
    BY StepShape DEF TypeInv, Next, MapFinishedSteps
  <2>2. QueuesTyped'
    BY <1>1, PublishedTyped, MessagesOf, QueueNames DEF TypeInv
  <2> QED BY <2>1, <2>2
<1>5. LoopsWithin' /\ \A m \in Mappers : AttemptRight(m)'
  BY <1>1, <1>2, QueueNames, SameAttempt DEF TypeInv, LoopsWithin
<1>6. TypeOK'
  <2>1. \A k \in Queues : pc'[k] \in Stages
    BY <1>1, StageTyped, QueueNames DEF TypeInv, Stages
  <2> QED BY <1>1, <1>3, <1>4, <2>1 DEF TypeInv, TypeOK, Shape, Filled, Stages
<1> QED BY <1>3, <1>4, <1>5, <1>6 DEF TypeInv

LEMMA HandleShuffleTyped ==
    ASSUME TypeInv, HandleShuffle
    PROVE  TypeInv'
<1>1. /\ UNCHANGED <<centres, assigned, mapDone, reduceDone, close, iteration, displayed, ended,
                     chosen, tries, fresh>>
      /\ Go(Shuffle, "idle", "sending") /\ queue[Shuffle] # << >>
      /\ queue' = [queue EXCEPT ![Shuffle] = Tail(@)]
      /\ next' = [next EXCEPT ![Shuffle] = 1]
  BY DEF HandleShuffle, Take, storeVars, resultVars
<1>2. \A k \in Queues : k # Shuffle => pc'[k] = pc[k]
  BY <1>1, Gone, QueueNames DEF TypeInv
<1>3. Filled /\ Filled'
  BY <1>1, QueueNames, AtWorkFilled DEF Filled
<1>4. Shape' /\ QueuesTyped'
  <2>1. Shape'
    BY StepShape DEF TypeInv, Next, ShuffleSteps
  <2>2. QueuesTyped'
    BY <1>1, LostTyped, QueueNames DEF TypeInv
  <2> QED BY <2>1, <2>2
<1>5. /\ next' \in [{Input, Shuffle} -> Nat] /\ next'[Shuffle] \in Groups
      /\ next'[Input] = next[Input]
  BY <1>1, QueueNames, ClusteringAssumption DEF TypeInv, TypeOK, Groups
<1>6. LoopsWithin' /\ \A m \in Mappers : AttemptRight(m)'
  BY <1>1, <1>2, <1>5, QueueNames, SameAttempt DEF TypeInv, LoopsWithin
<1>7. TypeOK'
  <2>1. \A k \in Queues : pc'[k] \in Stages
    BY <1>1, StageTyped, QueueNames DEF TypeInv, Stages
  <2> QED BY <1>1, <1>3, <1>4, <1>5, <2>1 DEF TypeInv, TypeOK, Shape, Filled, Stages
<1> QED BY <1>3, <1>4, <1>6, <1>7 DEF TypeInv

LEMMA SendGroupTyped ==
    ASSUME TypeInv, SendGroup
    PROVE  TypeInv'
<1> DEFINE g == next[Shuffle]
           to == IF g = Len(centres) THEN "idle" ELSE "sending"
<1>1. /\ UNCHANGED <<centres, assigned, mapDone, reduceDone, close, iteration, displayed, ended,
                     chosen, tries, fresh>>
      /\ Go(Shuffle, "sending", to) /\ Publish(Reduce(Attributed(g)), g)
      /\ next' = [next EXCEPT ![Shuffle] = @ + 1]
  BY DEF SendGroup, storeVars, resultVars
<1>2. /\ pc[Shuffle] = "sending" /\ pc'[Shuffle] = to
      /\ \A k \in Queues : k # Shuffle => pc'[k] = pc[k]
  BY <1>1, Gone, QueueNames DEF TypeInv
<1>3. g \in Groups /\ Attributed(g) \in Reducers
  <2>1. g \in Groups
    BY <1>2 DEF TypeInv, LoopsWithin
  <2> QED BY <2>1, AttributedReducer
<1>4. Filled /\ Filled'
  BY <1>1, <1>2, QueueNames, AtWorkFilled DEF Filled
<1>5. Shape' /\ QueuesTyped'
  <2>1. Shape'
    BY StepShape DEF TypeInv, Next, ShuffleSteps
  <2>2. QueuesTyped'
    BY <1>1, <1>3, PublishedTyped, MessagesOf, QueueNames DEF TypeInv
  <2> QED BY <2>1, <2>2
<1>6. /\ next' \in [{Input, Shuffle} -> Nat] /\ next'[Shuffle] = g + 1
      /\ next'[Input] = next[Input]
  BY <1>1, QueueNames DEF TypeInv, TypeOK
<1>7. LoopsWithin'
  <2>1. g # Len(centres) => g + 1 \in Groups
    BY <1>3, <1>4, FilledLength, ClusteringAssumption DEF Groups
  <2> QED BY <1>2, <1>6, <2>1, QueueNames DEF TypeInv, LoopsWithin
<1>8. \A m \in Mappers : AttemptRight(m)'
  BY <1>1, <1>2, QueueNames, SameAttempt
<1>9. TypeOK'
  <2>1. \A k \in Queues : pc'[k] \in Stages
    BY <1>1, StageTyped, QueueNames DEF TypeInv, Stages
  <2> QED BY <1>1, <1>4, <1>5, <1>6, <2>1 DEF TypeInv, TypeOK, Shape, Filled, Stages
<1> QED BY <1>4, <1>5, <1>7, <1>8, <1>9 DEF TypeInv

LEMMA HandleReduceTyped ==
    ASSUME TypeInv, NEW r \in Reducers, HandleReduce(r)
    PROVE  TypeInv'
<1> DEFINE g == Head(queue[Reduce(r)])
           to == IF \E s \in DOMAIN assigned : assigned[s] = 0 THEN "threw" ELSE "saving"
           centre == Average({s \in Spaces : assigned[s] = g})
           result == [group |-> g, centre |-> centre, close |-> UnderEpsilon(centre, centres[g])]
<1>1. /\ UNCHANGED <<centres, assigned, mapDone, reduceDone, close, iteration, displayed, ended,
                     next, chosen, tries>>
      /\ Go(Reduce(r), "idle", to) /\ queue[Reduce(r)] # << >>
      /\ queue' = [queue EXCEPT ![Reduce(r)] = Tail(@)]
      /\ fresh' = [fresh EXCEPT ![r] = result]
  BY DEF HandleReduce, Take, storeVars, resultVars
<1>2. \A k \in Queues : k # Reduce(r) => pc'[k] = pc[k]
  BY <1>1, Gone, QueueNames DEF TypeInv
<1>3. Filled /\ Filled'
  BY <1>1, QueueNames, AtWorkFilled DEF Filled
<1>4. Shape' /\ QueuesTyped' /\ g \in Groups
  <2>1. Shape'
    BY StepShape DEF TypeInv, Next, ReduceSteps
  <2>2. QueuesTyped' /\ g \in Messages(Reduce(r))
    BY <1>1, LostTyped, QueueNames DEF TypeInv
  <2> QED BY <2>1, <2>2, MessagesOf
<1>5. result \in [group : Groups, centre : Centre, close : BOOLEAN]
  <2>1. centre \in Centre
    BY AverageType DEF Centre
  <2>2. UnderEpsilon(centre, centres[g]) \in BOOLEAN
    BY DEF UnderEpsilon
  <2> QED BY <1>4, <2>1, <2>2
<1>6. LoopsWithin' /\ \A m \in Mappers : AttemptRight(m)'
  BY <1>1, <1>2, QueueNames, SameAttempt DEF TypeInv, LoopsWithin
<1>7. TypeOK'
  <2>1. \A k \in Queues : pc'[k] \in Stages
    BY <1>1, StageTyped, QueueNames DEF TypeInv, Stages
  <2>2. fresh' \in [Reducers -> [group : Groups, centre : Centre, close : BOOLEAN]]
    BY <1>1, <1>5 DEF TypeInv, TypeOK
  <2> QED BY <1>1, <1>3, <1>4, <2>1, <2>2 DEF TypeInv, TypeOK, Shape, Filled, Stages
<1> QED BY <1>3, <1>4, <1>6, <1>7 DEF TypeInv

LEMMA SaveReducedTyped ==
    ASSUME TypeInv, NEW r \in Reducers, SaveReduced(r)
    PROVE  TypeInv'
<1>1. /\ UNCHANGED <<assigned, mapDone, reduceDone, close, iteration, displayed, ended, queue,
                     next, chosen, tries, fresh>>
      /\ Go(Reduce(r), "saving", "publishing")
      /\ centres' = [centres EXCEPT ![fresh[r].group] = fresh[r].centre]
  BY DEF SaveReduced, resultVars, localVars
<1>2. /\ pc[Reduce(r)] = "saving"
      /\ \A k \in Queues : k # Reduce(r) => pc'[k] = pc[k]
  BY <1>1, Gone, QueueNames DEF TypeInv
<1>3. Filled
  BY <1>2, QueueNames, AtWorkFilled
<1>4. Filled'
  <2>1. fresh[r].centre \in Centre
    BY DEF TypeInv, TypeOK
  <2> QED BY <1>1, <1>3, <2>1 DEF Filled
<1>5. Shape' /\ QueuesTyped'
  BY <1>1, StepShape, KeptTyped DEF TypeInv, Next, ReduceSteps
<1>6. LoopsWithin' /\ \A m \in Mappers : AttemptRight(m)'
  BY <1>1, <1>2, QueueNames, SameAttempt DEF TypeInv, LoopsWithin
<1>7. TypeOK'
  <2>1. \A k \in Queues : pc'[k] \in Stages
    BY <1>1, StageTyped, QueueNames DEF TypeInv, Stages
  <2> QED BY <1>1, <1>4, <1>5, <2>1 DEF TypeInv, TypeOK, Shape, Filled, Stages
<1> QED BY <1>4, <1>5, <1>6, <1>7 DEF TypeInv

LEMMA PublishReduceFinishedTyped ==
    ASSUME TypeInv, NEW r \in Reducers, PublishReduceFinished(r)
    PROVE  TypeInv'
<1> DEFINE result == [group |-> fresh[r].group, close |-> fresh[r].close]
<1>1. /\ UNCHANGED <<centres, assigned, mapDone, reduceDone, close, iteration, displayed, ended,
                     next, chosen, tries, fresh>>
      /\ Go(Reduce(r), "publishing", "idle") /\ Publish(ReduceFinished, result)
  BY DEF PublishReduceFinished, storeVars, resultVars, localVars
<1>2. /\ pc[Reduce(r)] = "publishing"
      /\ \A k \in Queues : k # Reduce(r) => pc'[k] = pc[k]
  BY <1>1, Gone, QueueNames DEF TypeInv
<1>3. Filled /\ Filled'
  BY <1>1, <1>2, QueueNames, AtWorkFilled DEF Filled
<1>4. Shape' /\ QueuesTyped'
  <2>1. Shape'
    BY StepShape DEF TypeInv, Next, ReduceSteps
  <2>2. result \in Messages(ReduceFinished)
    BY MessagesOf DEF TypeInv, TypeOK
  <2>3. QueuesTyped'
    BY <1>1, <2>2, PublishedTyped, QueueNames DEF TypeInv
  <2> QED BY <2>1, <2>3
<1>5. LoopsWithin' /\ \A m \in Mappers : AttemptRight(m)'
  BY <1>1, <1>2, QueueNames, SameAttempt DEF TypeInv, LoopsWithin
<1>6. TypeOK'
  <2>1. \A k \in Queues : pc'[k] \in Stages
    BY <1>1, StageTyped, QueueNames DEF TypeInv, Stages
  <2> QED BY <1>1, <1>3, <1>4, <2>1 DEF TypeInv, TypeOK, Shape, Filled, Stages
<1> QED BY <1>3, <1>4, <1>5, <1>6 DEF TypeInv

LEMMA ReceiveResultTyped ==
    ASSUME TypeInv, ReceiveResult
    PROVE  TypeInv'
<1> DEFINE result == Head(queue[ReduceFinished])
<1>1. /\ UNCHANGED <<centres, assigned, mapDone, iteration, displayed, ended, next, chosen,
                     tries, fresh>>
      /\ Go(ReduceFinished, "idle", "collecting") /\ queue[ReduceFinished] # << >>
      /\ queue' = [queue EXCEPT ![ReduceFinished] = Tail(@)]
      /\ reduceDone' = reduceDone \cup {result.group}
      /\ close' \subseteq close \cup {result.group}
  BY DEF ReceiveResult, Take, resultVars, localVars
<1>2. \A k \in Queues : k # ReduceFinished => pc'[k] = pc[k]
  BY <1>1, Gone, QueueNames DEF TypeInv
<1>3. Filled /\ Filled'
  BY <1>1, QueueNames, AtWorkFilled DEF Filled
<1>4. Shape' /\ QueuesTyped' /\ result.group \in Groups
  <2>1. Shape'
    BY StepShape DEF TypeInv, Next, ReduceFinishedSteps
  <2>2. QueuesTyped' /\ result \in Messages(ReduceFinished)
    BY <1>1, LostTyped, QueueNames DEF TypeInv
  <2>3. result \in [group : Groups, close : BOOLEAN]
    BY <2>2, MessagesOf
  <2>4. result.group \in Groups
    BY <2>3
  <2> QED BY <2>1, <2>2, <2>4
<1>5. LoopsWithin' /\ \A m \in Mappers : AttemptRight(m)'
  BY <1>1, <1>2, QueueNames, SameAttempt DEF TypeInv, LoopsWithin
<1>6. TypeOK'
  <2>1. \A k \in Queues : pc'[k] \in Stages
    BY <1>1, StageTyped, QueueNames DEF TypeInv, Stages
  <2>2. reduceDone' \cup close' \subseteq Groups
    BY <1>1, <1>4 DEF TypeInv, TypeOK
  <2> QED BY <1>1, <1>3, <1>4, <2>1, <2>2 DEF TypeInv, TypeOK, Shape, Filled, Stages
<1> QED BY <1>3, <1>4, <1>5, <1>6 DEF TypeInv

LEMMA CountResultsTyped ==
    ASSUME TypeInv, CountResults \/ ResetReduceFlags \/ IncrementIteration
    PROVE  TypeInv'
<1>1. /\ UNCHANGED <<centres, assigned, close, displayed, ended, queue, next, chosen, tries, fresh>>
      /\ \E from \in Stages \ {"idle"}, to \in Stages : Go(ReduceFinished, from, to)
      /\ mapDone' \subseteq mapDone /\ reduceDone' \subseteq reduceDone
      /\ iteration' = iteration \/ iteration' = iteration + 1
  BY DEF CountResults, ResetReduceFlags, IncrementIteration, storeVars, resultVars, localVars, Stages
<1>2. /\ pc[ReduceFinished] # "idle"
      /\ \A k \in Queues : k # ReduceFinished => pc'[k] = pc[k]
      /\ \A k \in Queues : pc'[k] \in Stages
  BY <1>1, Gone, StageTyped, QueueNames DEF TypeInv
<1>3. Filled /\ Filled'
  BY <1>1, <1>2, QueueNames, AtWorkFilled DEF Filled
<1>4. Shape' /\ QueuesTyped'
  BY <1>1, StepShape, KeptTyped DEF TypeInv, Next, ReduceFinishedSteps
<1>5. LoopsWithin' /\ \A m \in Mappers : AttemptRight(m)'
  BY <1>1, <1>2, QueueNames, SameAttempt DEF TypeInv, LoopsWithin
<1>6. TypeOK'
  BY <1>1, <1>2, <1>3, <1>4 DEF TypeInv, TypeOK, Shape, Filled, Stages
<1> QED BY <1>3, <1>4, <1>5, <1>6 DEF TypeInv

LEMMA DecideTyped ==
    ASSUME TypeInv, Decide
    PROVE  TypeInv'
<1>1. /\ UNCHANGED <<centres, assigned, mapDone, reduceDone, close, iteration, next, chosen,
                     tries, fresh>>
      /\ Go(ReduceFinished, "deciding", "idle")
      /\ displayed' = centres /\ ended' \in BOOLEAN
      /\ Publish(Input, 0) \/ UNCHANGED queue
  BY DEF Decide, storeVars, localVars
<1>2. /\ pc[ReduceFinished] = "deciding"
      /\ \A k \in Queues : k # ReduceFinished => pc'[k] = pc[k]
  BY <1>1, Gone, QueueNames DEF TypeInv
<1>3. Filled /\ Filled'
  BY <1>1, <1>2, QueueNames, AtWorkFilled DEF Filled
<1>4. Shape' /\ QueuesTyped'
  <2>1. Shape'
    BY StepShape DEF TypeInv, Next, ReduceFinishedSteps
  <2>2. QueuesTyped'
    BY <1>1, KeptTyped, PublishedTyped, MessagesOf, QueueNames DEF TypeInv
  <2> QED BY <2>1, <2>2
<1>5. LoopsWithin' /\ \A m \in Mappers : AttemptRight(m)'
  BY <1>1, <1>2, QueueNames, SameAttempt DEF TypeInv, LoopsWithin
<1>6. TypeOK'
  <2>1. \A k \in Queues : pc'[k] \in Stages
    BY <1>1, StageTyped, QueueNames DEF TypeInv, Stages
  <2> QED BY <1>1, <1>3, <1>4, <2>1 DEF TypeInv, TypeOK, Shape, Filled, Stages
<1> QED BY <1>3, <1>4, <1>5, <1>6 DEF TypeInv

LEMMA InitTyped == Init => TypeInv
<1> SUFFICES ASSUME Init PROVE TypeInv
  OBVIOUS
<1>1. Shape
  BY DEF Init, Shape
<1>2. QueuesTyped /\ Unfilled
  BY EmptyHolds, QueueNames DEF Init, QueuesTyped, Unfilled, Idle
<1>3. LoopsWithin /\ \A m \in Mappers : AttemptRight(m)
  BY QueueNames DEF Init, LoopsWithin, AttemptRight
<1>4. TypeOK
  <2>1. displayed \in [Groups -> Centre] /\ 1 \in Groups /\ Whole(0) \in Centre
    BY ClusteringAssumption DEF Init, StartCentres, Centre, Whole, Groups
  <2>2. \A m \in Mappers : \E spaces \in SUBSET Spaces : chosen[m] \in [spaces -> Groups]
    <3>1. Choose({}) \in [{} -> Groups]
      BY DEF Choose
    <3> QED BY <3>1 DEF Init
  <2>3. tries \in [Mappers -> 0 .. RetryCount + 1]
    BY MapReduceAssumption DEF Init
  <2>4. fresh \in [Reducers -> [group : Groups, centre : Centre, close : BOOLEAN]]
    BY <2>1 DEF Init
  <2>5. next \in [{Input, Shuffle} -> Nat]
    BY DEF Init
  <2>8. iteration \in Nat \ {0}
    BY DEF Init
  <2>9. ended \in BOOLEAN
    BY DEF Init
  <2>6. centres = << >> /\ assigned = << >> /\ mapDone = {} /\ reduceDone = {} /\ close = {}
    BY DEF Init
  <2>7. \A k \in Queues : pc[k] = "idle"
    BY DEF Init
  <2> QED BY <1>1, <2>1, <2>2, <2>3, <2>4, <2>5, <2>6, <2>7, <2>8, <2>9 DEF TypeOK, Shape
<1> QED BY <1>1, <1>2, <1>3, <1>4 DEF TypeInv

LEMMA NextTyped == TypeInv /\ [Next]_vars => TypeInv'
<1> SUFFICES ASSUME TypeInv, [Next]_vars PROVE TypeInv'
  OBVIOUS
<1>1. CASE UNCHANGED vars
  <2>1. /\ UNCHANGED <<centres, assigned, mapDone, reduceDone, close, iteration, displayed, ended,
                       pc, next, chosen, tries, fresh, queue>>
    BY <1>1 DEF vars, storeVars, resultVars, localVars
  <2>2. Shape' /\ QueuesTyped' /\ \A m \in Mappers : AttemptRight(m)'
    BY <2>1, StepShape, KeptTyped, SameAttempt DEF TypeInv
  <2>3. LoopsWithin' /\ TypeOK'
    BY <2>1 DEF TypeInv, LoopsWithin, TypeOK
  <2>4. (Unfilled \/ Filled)'
    BY <2>1 DEF TypeInv, Unfilled, Filled, Idle
  <2> QED BY <2>2, <2>3, <2>4 DEF TypeInv
<1>2. CASE PostInput
  BY <1>2, PostInputTyped
<1>3. CASE \E k \in Queues : Lose(k)
  BY <1>3, LoseTyped
<1>4. CASE InputSteps
  BY <1>4, HandleInputTyped, SendChunkTyped DEF InputSteps
<1>5. CASE MapFinishedSteps
  BY <1>5, HandleMapFinishedTyped, CountMapFinishedTyped, PublishShuffleTyped DEF MapFinishedSteps
<1>6. CASE ShuffleSteps
  BY <1>6, HandleShuffleTyped, SendGroupTyped DEF ShuffleSteps
<1>7. CASE ReduceFinishedSteps
  BY <1>7, ReceiveResultTyped, CountResultsTyped, DecideTyped DEF ReduceFinishedSteps
<1>8. ASSUME NEW m \in Mappers, MapSteps(m) \/ MapFails(m) PROVE TypeInv'
  BY <1>8, HandleMapTyped, MapFailsTyped, SaveMappedTyped, PublishMapFinishedTyped DEF MapSteps
<1>9. ASSUME NEW r \in Reducers, ReduceSteps(r) PROVE TypeInv'
  BY <1>9, HandleReduceTyped, SaveReducedTyped, PublishReduceFinishedTyped DEF ReduceSteps
<1> QED BY <1>1, <1>2, <1>3, <1>4, <1>5, <1>6, <1>7, <1>8, <1>9 DEF Next

\* Every variable has its type, for any data, numbers of workers, retries and
\* losses, and however often a computation is asked for while another is under
\* way.
THEOREM StateTyped == Spec => []TypeOK
<1>1. TypeInv => TypeOK
  BY DEF TypeInv
<1> QED BY InitTyped, NextTyped, <1>1, PTL DEF Spec

-----------------------------------------------------------------------------
(* When the spaces are dealt out evenly no reduce worker meets a space     *)
(* without a group.                                                        *)

LEMMA SavedStays ==
    ASSUME UNCHANGED assigned, NEW m
    PROVE  Saved(m)' <=> Saved(m)
BY DEF Saved, Chunk, ChunkSize

\* A step after which no more is said to be saved than before.
LEMMA NoMoreSaid ==
    ASSUME SavedInv, UNCHANGED assigned, mapDone' \subseteq mapDone,
           \A m \in Mappers : pc'[Map(m)] = "publishing" => pc[Map(m)] = "publishing",
           \A m \in Mappers : Holds(queue'[MapFinished], m) => Holds(queue[MapFinished], m),
           pc'[MapFinished] = "publishing" => pc[MapFinished] = "publishing",
           queue'[Shuffle] # << >> => queue[Shuffle] # << >>,
           pc'[Shuffle] = "sending" => pc[Shuffle] = "sending",
           \A r \in Reducers : queue'[Reduce(r)] # << >> => queue[Reduce(r)] # << >>,
           \A r \in Reducers : pc'[Reduce(r)] = "threw" => pc[Reduce(r)] = "threw"
    PROVE  SavedInv'
<1>1. \A m \in Mappers : SaidSaved(m)' => SaidSaved(m)
  BY DEF SaidSaved
<1>2. SaidAllSaved' => SaidAllSaved
  BY DEF SaidAllSaved
<1>3. NoReducerThrows'
  BY DEF SavedInv, NoReducerThrows
<1> QED BY <1>1, <1>2, <1>3, SavedStays DEF SavedInv

LEMMA HandleInputSaved ==
    ASSUME TypeInv, SavedInv, HandleInput
    PROVE  SavedInv'
<1>1. /\ pc'[Input] = "sending" /\ mapDone' = mapDone
      /\ \A k \in Queues : k # Input => pc'[k] = pc[k] /\ queue'[k] = queue[k]
  BY Taken, QueueNames DEF TypeInv, HandleInput
<1>2. CASE Filled
  <2>1. UNCHANGED assigned
    BY <1>2, FilledLength DEF HandleInput
  <2> QED BY <1>1, <2>1, QueueNames, NoMoreSaid
<1>3. CASE Unfilled
  <2>1. \A k \in Queues : k # Input => pc'[k] = "idle" /\ queue'[k] = << >>
    BY <1>1, <1>3 DEF Unfilled, Idle
  <2>2. \A m \in Mappers : ~SaidSaved(m)'
    BY <1>1, <1>3, <2>1, QueueNames, EmptyHolds DEF Unfilled, SaidSaved
  <2>3. ~SaidAllSaved'
    BY <2>1, QueueNames DEF SaidAllSaved
  <2>4. NoReducerThrows'
    BY <2>1, QueueNames DEF NoReducerThrows
  <2> QED BY <2>2, <2>3, <2>4 DEF SavedInv
<1> QED BY <1>2, <1>3 DEF TypeInv

LEMMA LoseSaved ==
    ASSUME TypeInv, SavedInv, NEW k \in Queues, Lose(k)
    PROVE  SavedInv'
<1>1. /\ UNCHANGED <<assigned, mapDone, pc>>
      /\ queue[k] # << >> /\ queue'[k] = Tail(queue[k])
      /\ \A j \in Queues : j # k => queue'[j] = queue[j]
      /\ queue[MapFinished] \in Seq(Mappers)
  BY MessagesOf, QueueNames DEF TypeInv, QueuesTyped, Shape, Lose, storeVars
<1>2. \A m \in Mappers : Holds(queue'[MapFinished], m) => Holds(queue[MapFinished], m)
  BY <1>1, QueueNames, TailHolds
<1>3. \A j \in Queues : queue'[j] # << >> => queue[j] # << >>
  BY <1>1
<1> QED BY <1>1, <1>2, <1>3, QueueNames, NoMoreSaid

LEMMA SendChunkSaved ==
    ASSUME TypeInv, SavedInv, SendChunk
    PROVE  SavedInv'
<1> DEFINE m == next[Input]
<1>1. /\ UNCHANGED <<assigned, mapDone>>
      /\ \A k \in Queues : k # Input => pc'[k] = pc[k]
      /\ pc[Input] = "sending"
  BY Gone, QueueNames DEF TypeInv, SendChunk, storeVars
<1>2. m \in Mappers
  BY <1>1 DEF TypeInv, LoopsWithin
<1>3. \A k \in Queues : k # Map(m) => queue'[k] = queue[k]
  BY <1>2, Published, QueueNames DEF TypeInv, SendChunk
<1> QED BY <1>1, <1>2, <1>3, QueueNames, NoMoreSaid

LEMMA MapperSaved ==
    ASSUME TypeInv, SavedInv, NEW m \in Mappers, HandleMap(m) \/ MapFails(m)
    PROVE  SavedInv'
<1>1. UNCHANGED <<assigned, mapDone>>
  BY DEF HandleMap, MapFails, storeVars
<1>2. /\ pc'[Map(m)] # "publishing"
      /\ \A k \in Queues : k # Map(m) => pc'[k] = pc[k] /\ queue'[k] = queue[k]
  BY Gone, Taken, QueueNames DEF TypeInv, HandleMap, MapFails
<1> QED BY <1>1, <1>2, QueueNames, NoMoreSaid

LEMMA SaveMappedSaved ==
    ASSUME TypeInv, SavedInv, NEW m \in Mappers, SaveMapped(m)
    PROVE  SavedInv'
<1>1. Saved(m)' /\ \A n \in Mappers : Saved(n) => Saved(n)'
  BY SaveMappedTyped
<1>2. /\ UNCHANGED <<mapDone, queue>>
      /\ \A k \in Queues : k # Map(m) => pc'[k] = pc[k]
  BY Gone, QueueNames DEF TypeInv, SaveMapped
<1>3. \A n \in Mappers : n # m /\ SaidSaved(n)' => SaidSaved(n)
  BY <1>2, QueueNames DEF SaidSaved
<1>4. SaidAllSaved' => SaidAllSaved
  BY <1>2, QueueNames DEF SaidAllSaved
<1>5. NoReducerThrows'
  BY <1>2, QueueNames DEF SavedInv, NoReducerThrows
<1> QED BY <1>1, <1>3, <1>4, <1>5 DEF SavedInv

LEMMA PublishMapFinishedSaved ==
    ASSUME TypeInv, SavedInv, NEW m \in Mappers, PublishMapFinished(m)
    PROVE  SavedInv'
<1>1. /\ UNCHANGED <<assigned, mapDone>> /\ pc[Map(m)] = "publishing" /\ pc'[Map(m)] = "idle"
      /\ \A k \in Queues : k # Map(m) => pc'[k] = pc[k]
  BY Gone, QueueNames DEF TypeInv, PublishMapFinished, storeVars
<1>2. /\ \A x : Holds(queue'[MapFinished], x) <=> Holds(queue[MapFinished], x) \/ x = m
      /\ \A k \in Queues : k # MapFinished => queue'[k] = queue[k]
  BY Published, PublishedTyped, MessagesOf, QueueNames DEF TypeInv, PublishMapFinished
<1>3. \A n \in Mappers : SaidSaved(n)' => SaidSaved(n)
  BY <1>1, <1>2, QueueNames DEF SaidSaved
<1>4. SaidAllSaved' => SaidAllSaved
  BY <1>1, <1>2, QueueNames DEF SaidAllSaved
<1>5. NoReducerThrows'
  BY <1>1, QueueNames DEF SavedInv, NoReducerThrows
<1> QED BY <1>1, <1>3, <1>4, <1>5, SavedStays DEF SavedInv

LEMMA HandleMapFinishedSaved ==
    ASSUME TypeInv, SavedInv, HandleMapFinished
    PROVE  SavedInv'
<1> DEFINE m == Head(queue[MapFinished])
<1>1. /\ UNCHANGED assigned /\ mapDone' = mapDone \cup {m} /\ pc'[MapFinished] = "counting"
      /\ queue[MapFinished] # << >> /\ queue'[MapFinished] = Tail(queue[MapFinished])
      /\ \A k \in Queues : k # MapFinished => pc'[k] = pc[k] /\ queue'[k] = queue[k]
  BY Taken, QueueNames DEF TypeInv, HandleMapFinished
<1>2. queue[MapFinished] \in Seq(Mappers)
  BY MessagesOf, QueueNames DEF TypeInv, QueuesTyped
<1>3. /\ m \in Mappers /\ Holds(queue[MapFinished], m)
      /\ \A x : Holds(queue'[MapFinished], x) => Holds(queue[MapFinished], x)
  BY <1>1, <1>2, TailHolds
<1>4. \A n \in Mappers : SaidSaved(n)' => SaidSaved(n)
  BY <1>1, <1>3, QueueNames DEF SaidSaved
<1>5. SaidAllSaved' => SaidAllSaved
  BY <1>1, QueueNames DEF SaidAllSaved
<1>6. NoReducerThrows'
  BY <1>1, QueueNames DEF SavedInv, NoReducerThrows
<1> QED BY <1>1, <1>4, <1>5, <1>6, SavedStays DEF SavedInv

LEMMA CountMapFinishedSaved ==
    ASSUME TypeInv, SavedInv, CountMapFinished
    PROVE  SavedInv'
<1>1. /\ UNCHANGED <<assigned, queue>> /\ mapDone' \subseteq mapDone
      /\ pc'[MapFinished] = "publishing" => AllMapped
      /\ \A k \in Queues : k # MapFinished => pc'[k] = pc[k]
  BY Gone, QueueNames DEF TypeInv, CountMapFinished
<1>2. AllMapped => \A m \in Mappers : Saved(m)
  <2>1. NbMappers \in Nat /\ mapDone \subseteq Mappers
    BY MapReduceAssumption DEF TypeInv, TypeOK
  <2>2. AllMapped => mapDone = Mappers
    BY <2>1, AllCounted DEF AllMapped, Mappers
  <2> QED BY <2>2 DEF SavedInv, SaidSaved
<1>3. \A m \in Mappers : SaidSaved(m)' => SaidSaved(m)
  BY <1>1, QueueNames DEF SaidSaved
<1>4. SaidAllSaved' => SaidAllSaved \/ AllMapped
  BY <1>1, QueueNames DEF SaidAllSaved
<1>5. NoReducerThrows'
  BY <1>1, QueueNames DEF SavedInv, NoReducerThrows
<1> QED BY <1>1, <1>2, <1>3, <1>4, <1>5, SavedStays DEF SavedInv

LEMMA ShufflingSaved ==
    ASSUME TypeInv, SavedInv, PublishShuffle \/ HandleShuffle \/ SendGroup
    PROVE  SavedInv'
<1>1. UNCHANGED <<assigned, mapDone>>
  BY DEF PublishShuffle, HandleShuffle, SendGroup, storeVars
<1>2. /\ \A m \in Mappers : pc'[Map(m)] = pc[Map(m)]
      /\ \A r \in Reducers : pc'[Reduce(r)] = pc[Reduce(r)]
  BY Gone, Taken, QueueNames DEF TypeInv, PublishShuffle, HandleShuffle, SendGroup
<1>3. queue'[MapFinished] = queue[MapFinished]
  <2>1. CASE PublishShuffle
    BY <2>1, Published, QueueNames DEF TypeInv, PublishShuffle
  <2>2. CASE HandleShuffle
    BY <2>2, Taken, QueueNames DEF TypeInv, HandleShuffle
  <2>3. CASE SendGroup
    <3>1. pc[Shuffle] = "sending"
      BY <2>3, Gone, QueueNames DEF TypeInv, SendGroup
    <3>2. next[Shuffle] \in Groups
      BY <3>1 DEF TypeInv, LoopsWithin
    <3>3. Attributed(next[Shuffle]) \in Reducers
      BY <3>2, AttributedReducer
    <3> QED BY <2>3, <3>3, Published, QueueNames DEF TypeInv, SendGroup
  <2> QED BY <2>1, <2>2, <2>3
<1>4. SaidAllSaved
  BY Gone, Taken, QueueNames DEF TypeInv, PublishShuffle, HandleShuffle, SendGroup, SaidAllSaved
<1>5. \A m \in Mappers : Saved(m)'
  BY <1>1, <1>4, SavedStays DEF SavedInv
<1>6. NoReducerThrows'
  BY <1>2 DEF SavedInv, NoReducerThrows
<1> QED BY <1>5, <1>6 DEF SavedInv

LEMMA HandleReduceSaved ==
    ASSUME Len(Values) = NbMappers * ChunkSize, TypeInv, SavedInv,
           NEW r \in Reducers, HandleReduce(r)
    PROVE  SavedInv'
<1>1. /\ UNCHANGED <<assigned, mapDone>> /\ queue[Reduce(r)] # << >>
      /\ \A k \in Queues : k # Reduce(r) => pc'[k] = pc[k] /\ queue'[k] = queue[k]
      /\ pc'[Reduce(r)] = "threw" => \E s \in DOMAIN assigned : assigned[s] = 0
      /\ pc'[Reduce(r)] \in {"threw", "saving"}
  BY Taken, QueueNames DEF TypeInv, HandleReduce, storeVars
<1>2. \A m \in Mappers : Saved(m)
  BY <1>1 DEF SavedInv, SaidAllSaved
<1>3. DOMAIN assigned = Spaces
  BY <1>1, AtWorkFilled, QueueNames DEF Filled
<1>4. pc'[Reduce(r)] # "threw"
  BY <1>1, <1>2, <1>3, ChunksCover DEF Saved
<1>5. \A q \in Reducers : pc'[Reduce(q)] # "threw"
  BY <1>1, <1>4, QueueNames DEF SavedInv, NoReducerThrows
<1>6. \A m \in Mappers : SaidSaved(m)' => SaidSaved(m)
  BY <1>1, QueueNames DEF SaidSaved
<1> QED BY <1>1, <1>2, <1>5, SavedStays DEF SavedInv, NoReducerThrows

LEMMA SaveReducedSaved ==
    ASSUME TypeInv, SavedInv, NEW r \in Reducers, SaveReduced(r) \/ PublishReduceFinished(r)
    PROVE  SavedInv'
<1>1. /\ UNCHANGED <<assigned, mapDone>>
      /\ \A k \in Queues : k # ReduceFinished => queue'[k] = queue[k]
  BY Published, QueueNames DEF TypeInv, SaveReduced, PublishReduceFinished, storeVars
<1>2. /\ pc'[Reduce(r)] # "threw"
      /\ \A k \in Queues : k # Reduce(r) => pc'[k] = pc[k]
  BY Gone, QueueNames DEF TypeInv, SaveReduced, PublishReduceFinished
<1> QED BY <1>1, <1>2, QueueNames, NoMoreSaid

LEMMA ResultsSaved ==
    ASSUME TypeInv, SavedInv, ReduceFinishedSteps
    PROVE  SavedInv'
<1>1. UNCHANGED assigned /\ mapDone' \subseteq mapDone
  BY DEF ReduceFinishedSteps, ReceiveResult, CountResults, ResetReduceFlags, IncrementIteration,
         Decide, storeVars
<1>2. \A k \in Queues : k # ReduceFinished => pc'[k] = pc[k]
  BY Gone, Taken, QueueNames
  DEF TypeInv, ReduceFinishedSteps, ReceiveResult, CountResults, ResetReduceFlags,
      IncrementIteration, Decide
<1>3. \A k \in Queues : k \notin {ReduceFinished, Input} => queue'[k] = queue[k]
  BY Published, Taken, QueueNames
  DEF TypeInv, ReduceFinishedSteps, ReceiveResult, CountResults, ResetReduceFlags,
      IncrementIteration, Decide
<1> QED BY <1>1, <1>2, <1>3, QueueNames, NoMoreSaid

LEMMA NextSaved ==
    ASSUME Len(Values) = NbMappers * ChunkSize
    PROVE  TypeInv /\ SavedInv /\ [Next]_vars => SavedInv'
<1> SUFFICES ASSUME TypeInv, SavedInv, [Next]_vars PROVE SavedInv'
  OBVIOUS
<1>1. CASE UNCHANGED vars
  BY <1>1, NoMoreSaid DEF vars, storeVars
<1>2. CASE PostInput
  <2>1. /\ UNCHANGED <<assigned, mapDone, pc>>
        /\ \A k \in Queues : k # Input => queue'[k] = queue[k]
    BY <1>2, Published, QueueNames DEF TypeInv, PostInput, storeVars
  <2> QED BY <2>1, QueueNames, NoMoreSaid
<1>3. CASE \E k \in Queues : Lose(k)
  BY <1>3, LoseSaved
<1>4. CASE InputSteps
  BY <1>4, HandleInputSaved, SendChunkSaved DEF InputSteps
<1>5. CASE MapFinishedSteps
  BY <1>5, HandleMapFinishedSaved, CountMapFinishedSaved, ShufflingSaved DEF MapFinishedSteps
<1>6. CASE ShuffleSteps
  BY <1>6, ShufflingSaved DEF ShuffleSteps
<1>7. CASE ReduceFinishedSteps
  BY <1>7, ResultsSaved
<1>8. ASSUME NEW m \in Mappers, MapSteps(m) \/ MapFails(m) PROVE SavedInv'
  BY <1>8, MapperSaved, SaveMappedSaved, PublishMapFinishedSaved DEF MapSteps
<1>9. ASSUME NEW r \in Reducers, ReduceSteps(r) PROVE SavedInv'
  BY <1>9, HandleReduceSaved, SaveReducedSaved DEF ReduceSteps
<1> QED BY <1>1, <1>2, <1>3, <1>4, <1>5, <1>6, <1>7, <1>8, <1>9 DEF Next

\* When the spaces can be dealt out evenly to the map workers, no reduce worker
\* stops on a space without a group, for any data and numbers of workers,
\* whatever is lost or retried, and however many computations are under way.
\* (The code rounds a chunk down, and the spaces left over never get a group.)
THEOREM ReducersGoOn ==
    ASSUME Len(Values) = NbMappers * ChunkSize
    PROVE  Spec => []NoReducerThrows
<1>1. Init => SavedInv
  <2> SUFFICES ASSUME Init PROVE SavedInv
    OBVIOUS
  <2>1. mapDone = {} /\ \A k \in Queues : queue[k] = << >> /\ pc[k] = "idle"
    BY DEF Init
  <2>2. \A m \in Mappers : ~SaidSaved(m)
    BY <2>1, QueueNames, EmptyHolds DEF SaidSaved
  <2>3. ~SaidAllSaved /\ NoReducerThrows
    BY <2>1, QueueNames DEF SaidAllSaved, NoReducerThrows
  <2> QED BY <2>2, <2>3 DEF SavedInv
<1>2. TypeInv /\ SavedInv /\ [Next]_vars => SavedInv'
  BY NextSaved
<1>3. SavedInv => NoReducerThrows
  BY DEF SavedInv
<1> QED BY InitTyped, NextTyped, <1>1, <1>2, <1>3, PTL DEF Spec

=============================================================================

----------------------------- MODULE TopicTree -----------------------------
(***************************************************************************)
(* The topic tree of the broker (Broker/Entities/TopicNode.cs) as its      *)
(* threads use it through ConcurrentTopicNode: every call enters the       *)
(* reader-writer lock, walks the tree one node at a time, and exits the    *)
(* lock.  The lock is what makes the walks of several threads atomic.      *)
(***************************************************************************)
EXTENDS TopicPatterns

CONSTANTS
    Threads,    \* threads that handle connections
    Keys,       \* the routing keys that are advertised or unadvertised
    Patterns,   \* the routing patterns that are looked up
    NoCall,     \* the thread is in no call
    MaxCalls    \* bound: how many calls all threads make together

Calls == [op : {"add", "remove"}, arg : Keys] \cup [op : {"get"}, arg : Patterns]

ASSUME TopicTreeAssumption ==
    /\ Keys \cup Patterns \subseteq Seq(STRING) \ {Root}
    /\ MaxCalls \in Nat
    /\ NoCall \notin Threads \cup Calls

VARIABLES
    tree,       \* the paths of the nodes below the root
    writer,     \* the thread in write mode, or NoCall
    readers,    \* the threads in read mode
    call,       \* call[t]: the operation t has invoked, or NoCall
    pc,         \* pc[t]: where in the call t is
    idx,        \* idx[t]: the layer of the path or pattern t has come to
    found,      \* found[t]: the nodes a lookup has reached
    ok,         \* ok[t]: what an addition or a removal will return
    answer,     \* answer[t]: what the last call of t returned
    committed,  \* history: the tree as the last writer to exit left it
    added,      \* history: the keys an addition was invoked for
    calls       \* how many calls have been made, for the bound

threadVars == <<call, pc, idx, found, ok, answer>>
lockVars == <<writer, readers>>
vars == <<tree, lockVars, threadVars, committed, added, calls>>

Init ==
    /\ tree = {}
    /\ writer = NoCall
    /\ readers = {}
    /\ call = [t \in Threads |-> NoCall]
    /\ pc = [t \in Threads |-> "idle"]
    /\ idx = [t \in Threads |-> 0]
    /\ found = [t \in Threads |-> {}]
    /\ ok = [t \in Threads |-> FALSE]
    /\ answer = [t \in Threads |-> [ok |-> FALSE, nodes |-> {}]]
    /\ committed = {}
    /\ added = {}
    /\ calls = 0

-----------------------------------------------------------------------------
(* Entering and leaving a call.                                            *)

Invoke(t) ==
    /\ pc[t] = "idle"
    /\ calls < MaxCalls
    /\ \E c \in Calls :
          /\ call' = [call EXCEPT ![t] = c]
          /\ added' = IF c.op = "add" THEN added \cup {c.arg} ELSE added
    /\ pc' = [pc EXCEPT ![t] = "entering"]
    /\ calls' = calls + 1
    /\ UNCHANGED <<tree, lockVars, idx, found, ok, answer, committed>>

BeginWrite(t) ==
    /\ pc[t] = "entering"
    /\ call[t].op \in {"add", "remove"}
    /\ writer = NoCall
    /\ writer' = t
    /\ pc' = [pc EXCEPT ![t] = "walking"]
    /\ idx' = [idx EXCEPT ![t] = 1]
    /\ ok' = [ok EXCEPT ![t] = FALSE]
    /\ UNCHANGED <<tree, readers, call, found, answer, committed, added, calls>>

\* Mutant: a writer does not wait for the readers.
EnterWriteLockAmongReaders(t) == BeginWrite(t)

EnterWriteLock(t) == BeginWrite(t) /\ readers = {}

BeginRead(t) ==
    /\ pc[t] = "entering"
    /\ call[t].op = "get"
    /\ readers' = readers \cup {t}
    /\ pc' = [pc EXCEPT ![t] = "walking"]
    /\ idx' = [idx EXCEPT ![t] = 1]
    /\ found' = [found EXCEPT ![t] = {Root}]
    /\ ok' = [ok EXCEPT ![t] = TRUE]
    /\ UNCHANGED <<tree, writer, call, answer, committed, added, calls>>

\* Mutant: a reader does not wait for the writer.
EnterReadLockDuringWrite(t) == BeginRead(t)

EnterReadLock(t) == BeginRead(t) /\ writer = NoCall

\* The lock is released and the call returns.
ExitLock(t) ==
    /\ pc[t] = "exiting"
    /\ writer' = IF writer = t THEN NoCall ELSE writer
    /\ readers' = readers \ {t}
    /\ committed' = tree
    /\ answer' = [answer EXCEPT ![t] =
                    [ok |-> ok[t],
                     nodes |-> IF call[t].op = "get" THEN found[t] ELSE {}]]
    /\ call' = [call EXCEPT ![t] = NoCall]
    /\ pc' = [pc EXCEPT ![t] = "idle"]
    /\ UNCHANGED <<tree, idx, found, ok, added, calls>>

-----------------------------------------------------------------------------
(* The walks.                                                              *)

At(t, op) == pc[t] = "walking" /\ call[t].op = op

IsLast(t) == idx[t] = Len(call[t].arg)

\* The node of the path of t's call down to the layer t has come to.
Node(t) == SubSeq(call[t].arg, 1, idx[t])

\* One layer of AddTopicNodes: the node is created if it is not there.
AddNode(t) ==
    /\ At(t, "add")
    /\ tree' = tree \cup {Node(t)}
    /\ ok' = [ok EXCEPT ![t] = Node(t) \notin tree]
    /\ IF IsLast(t)
       THEN pc' = [pc EXCEPT ![t] = "exiting"] /\ UNCHANGED idx
       ELSE idx' = [idx EXCEPT ![t] = @ + 1] /\ UNCHANGED pc
    /\ UNCHANGED <<lockVars, call, found, answer, committed, added, calls>>

\* Mutant: a removal that finds no such topic returns without exiting the lock.
RemoveDescendNoExit(t) ==
    /\ At(t, "remove")
    /\ ~IsLast(t)
    /\ IF Node(t) \in tree
       THEN idx' = [idx EXCEPT ![t] = @ + 1] /\ UNCHANGED pc
       ELSE pc' = [pc EXCEPT ![t] = "threw"] /\ UNCHANGED idx
    /\ UNCHANGED <<tree, lockVars, call, found, ok, answer, committed, added, calls>>

\* One layer down in RemoveTopicNodes, or there is no such topic.
RemoveDescend(t) ==
    /\ At(t, "remove")
    /\ ~IsLast(t)
    /\ IF Node(t) \in tree
       THEN idx' = [idx EXCEPT ![t] = @ + 1] /\ UNCHANGED pc
       ELSE pc' = [pc EXCEPT ![t] = "exiting"] /\ UNCHANGED idx
    /\ UNCHANGED <<tree, lockVars, call, found, ok, answer, committed, added, calls>>

\* Mutant: an inner node may be taken out.
RemovableInner(t) == Node(t) \in tree

\* The node t's removal has come to may be taken out: it is there, and a leaf.
Removable(t) == Node(t) \in tree /\ IsLeaf(tree, Node(t))

RemoveLeaf(t) ==
    /\ At(t, "remove")
    /\ IsLast(t)
    /\ IF Removable(t)
       THEN /\ tree' = tree \ {Node(t)}
            /\ ok' = [ok EXCEPT ![t] = TRUE]
            /\ idx' = [idx EXCEPT ![t] = @ - 1]
            /\ pc' = [pc EXCEPT ![t] = "pruning"]
       ELSE /\ pc' = [pc EXCEPT ![t] = "exiting"]
            /\ UNCHANGED <<tree, ok, idx>>
    /\ UNCHANGED <<lockVars, call, found, answer, committed, added, calls>>

\* Mutant: the loop steps over the root.
AboveRootBeyond(t) == idx[t] < 0

\* Mutant: the loop ends at the parent of the removed leaf.
AboveRootAtOnce(t) == TRUE

\* The loop has come to the root, which has no parent to be taken out of.
AboveRoot(t) == idx[t] = 0

\* The loop up the ancestors, which drops the ones left without children.
Prune(t) ==
    /\ pc[t] = "pruning"
    /\ IF ~AboveRoot(t)
       THEN /\ tree' = IF IsLeaf(tree, Node(t)) THEN tree \ {Node(t)} ELSE tree
            /\ idx' = [idx EXCEPT ![t] = @ - 1]
            /\ UNCHANGED pc
       ELSE /\ pc' = [pc EXCEPT ![t] = "exiting"]
            /\ UNCHANGED <<tree, idx>>
    /\ UNCHANGED <<lockVars, call, found, ok, answer, committed, added, calls>>

\* The nodes a lookup reaches from those it has, by one key of the pattern.
NextNodes(nodes, key) ==
    IF key = AllSubsequentLayersPattern
    THEN {n \in tree \cup {Root} : \E base \in nodes : IsBelow(base, n)}
    ELSE {n \in UNION {Children(tree, base) : base \in nodes} :
             LayerMatches(key, n[Len(n)])}

\* The path of a child of the root whose segment is empty is the root's own: a
\* result that lists both is a dictionary with a key added twice.
SamePathTwice(nodes) == {Root, <<"">>} \subseteq nodes

MatchLayer(t) ==
    /\ At(t, "get")
    /\ LET key == call[t].arg[idx[t]]
           nodes == NextNodes(found[t], key)
       IN  /\ found' = [found EXCEPT ![t] = nodes]
           /\ IF SamePathTwice(nodes)
              THEN pc' = [pc EXCEPT ![t] = "threw"] /\ UNCHANGED idx
              ELSE IF IsLast(t) \/ key = AllSubsequentLayersPattern
              THEN pc' = [pc EXCEPT ![t] = "exiting"] /\ UNCHANGED idx
              ELSE idx' = [idx EXCEPT ![t] = @ + 1] /\ UNCHANGED pc
    /\ UNCHANGED <<tree, lockVars, call, ok, answer, committed, added, calls>>

Step(t) ==
    \/ EnterWriteLock(t) \/ EnterReadLock(t) \/ ExitLock(t)
    \/ AddNode(t) \/ RemoveDescend(t) \/ RemoveLeaf(t) \/ Prune(t) \/ MatchLayer(t)

Next == \E t \in Threads : Invoke(t) \/ Step(t)

Spec == Init /\ [][Next]_vars

\* A thread of the pool that is not blocked by the lock goes on with its call.
FairSpec == Spec /\ \A t \in Threads : WF_vars(Step(t))

-----------------------------------------------------------------------------
(* Properties.                                                             *)

Paths == UNION {Prefixes(k) : k \in Keys}

TypeOK ==
    /\ tree \in SUBSET Paths
    /\ writer \in Threads \cup {NoCall}
    /\ readers \in SUBSET Threads
    /\ call \in [Threads -> Calls \cup {NoCall}]
    /\ pc \in [Threads -> {"idle", "entering", "walking", "pruning", "exiting", "threw"}]
    /\ idx \in [Threads -> Nat]
    /\ found \in [Threads -> SUBSET (Paths \cup {Root})]
    /\ ok \in [Threads -> BOOLEAN]
    /\ answer \in [Threads -> [ok : BOOLEAN, nodes : SUBSET (Paths \cup {Root})]]
    /\ committed \in SUBSET Paths
    /\ added \in SUBSET Keys
    /\ calls \in 0 .. MaxCalls

\* Every node hangs from a node of the tree, also while an addition or a
\* removal is half done: no step of RemoveTopicNodes cuts a branch off.
PrefixClosed == \A n \in tree : Len(n) > 1 => Parent(n) \in tree

\* Outside a writer's call every leaf is a key that was added: the loop that
\* ends RemoveTopicNodes leaves no dead ancestor behind, whichever keys were
\* added and removed before.
LeavesWereAdded ==
    writer = NoCall => \A n \in tree : IsLeaf(tree, n) => n \in added

\* No reader sees a writer's half-done walk (ConcurrentTopicNode's lock).
ReadersSeeCommitted == readers # {} => tree = committed

\* The calls of all threads behave as if each took effect at one instant: this
\* is what the controllers, which use the tree from every connection, rely on.
Directory == INSTANCE TopicDirectory WITH topics <- committed
Linearizable == Directory!Spec

\* Every call of the tree returns: no thread keeps the lock for ever.
EveryCallReturns == \A t \in Threads : pc[t] = "entering" ~> pc[t] = "idle"

=============================================================================

--------------------------- MODULE TopicDirectory ---------------------------
(***************************************************************************)
(* What ConcurrentTopicNode promises its callers: a set of topics on which *)
(* every call takes effect, and gets its answer, at one instant between    *)
(* its invocation and its return.                                          *)
(***************************************************************************)
EXTENDS TopicPatterns

CONSTANTS Threads, Keys, Patterns, NoCall

VARIABLES
    topics,     \* the paths of the advertised topics and of their ancestors
    call,       \* call[t]: the operation thread t has invoked, or NoCall
    answer      \* answer[t]: what the last call of t returned

vars == <<topics, call, answer>>

Calls == [op : {"add", "remove"}, arg : Keys] \cup [op : {"get"}, arg : Patterns]

Init ==
    /\ topics = {}
    /\ call = [t \in Threads |-> NoCall]
    /\ answer = [t \in Threads |-> [ok |-> FALSE, nodes |-> {}]]

Invoke(t) ==
    /\ call[t] = NoCall
    /\ \E c \in Calls : call' = [call EXCEPT ![t] = c]
    /\ UNCHANGED <<topics, answer>>

Return(t, ok, nodes) ==
    /\ call' = [call EXCEPT ![t] = NoCall]
    /\ answer' = [answer EXCEPT ![t] = [ok |-> ok, nodes |-> nodes]]

Add(t) ==
    /\ call[t] # NoCall
    /\ call[t].op = "add"
    /\ topics' = AddTopicNodes(topics, call[t].arg)
    /\ Return(t, call[t].arg \notin topics, {})

Remove(t) ==
    /\ call[t] # NoCall
    /\ call[t].op = "remove"
    /\ topics' = RemoveTopicNodes(topics, call[t].arg)
    /\ Return(t, call[t].arg \in topics /\ IsLeaf(topics, call[t].arg), {})

Get(t) ==
    /\ call[t] # NoCall
    /\ call[t].op = "get"
    /\ UNCHANGED topics
    /\ Return(t, TRUE, GetTopicNodes(topics, call[t].arg))

Next == \E t \in Threads : Invoke(t) \/ Add(t) \/ Remove(t) \/ Get(t)

Spec == Init /\ [][Next]_vars

=============================================================================

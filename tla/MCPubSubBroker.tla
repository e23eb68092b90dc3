--------------------------- MODULE MCPubSubBroker ---------------------------
(* Values for the constants of PubSubBroker.                               *)
EXTENDS PubSubBroker, TLC

CONSTANTS s1, s2, p1, p2

\* A stem and a branch of it, published under two contracts.
MCPublications ==
    {[key |-> <<"a", "b">>, contract |-> "Temp"],
     [key |-> <<"a">>, contract |-> "Temp"],
     [key |-> <<"a", "b">>, contract |-> "Wind"]}

\* Where there is more to interleave: less to publish.
TwoPublications ==
    {[key |-> <<"a", "b">>, contract |-> "Temp"], [key |-> <<"a">>, contract |-> "Temp"]}

\* One that is wanted, and one under another contract whose topic is taken away.
WantedAndRetracted ==
    {[key |-> <<"a", "b">>, contract |-> "Temp"], [key |-> <<"a", "c">>, contract |-> "Wind"]}

\* s1 wants the whole stem, s2 one layer of it.
MCPatternOf == s1 :> <<"a", "#">> @@ s2 :> <<"a", "*">>
MCTypeOf == [s \in Subscribers |-> "Temp"]
OwnTypeOf == s1 :> "Temp" @@ s2 :> "Wind"

\* A queue name each, as the clients choose them, or one name for both.
OwnQueues == s1 :> "q1" @@ s2 :> "q2"
SharedQueue == [s \in Subscribers |-> "q1"]

\* Two publications in a row, or one of each of two publishers.
TwoInARow == p1 :> 2
OneEach == p1 :> 1 @@ p2 :> 1

\* Publishers that publish equally much can be exchanged.
AnyPublisher == Permutations(Publishers)

\* The routing key whose topic is taken away.
MCRetracted == {<<"a", "c">>}

=============================================================================

---- MODULE MCProtoTransit ----
(* Messages of every layout; one has a name of as many bytes as a byte has  *)
(* values, one a payload whose length needs two bytes.                      *)
EXTENDS ProtoTransit

Long == [i \in 1 .. Base |-> i % 2]

MCMessages ==
    { [type |-> "Ack", property |-> [p \in {} |-> << >>]],
      [type |-> "Push", property |-> [Payload |-> <<0, 3>>]],
      [type |-> "Push", property |-> [Payload |-> Long]],
      [type |-> "Subscribe",
       property |-> [RoutingKey |-> <<1>>, PayloadType |-> <<2, 0>>, QueueName |-> <<5, 5, 5>>]],
      [type |-> "Publish",
       property |-> [RoutingKey |-> <<4, 1>>, PayloadType |-> <<2>>, Payload |-> <<7>>]],
      [type |-> "Publish",
       property |-> [RoutingKey |-> Long, PayloadType |-> <<2>>, Payload |-> <<7>>]],
      [type |-> "PayloadResponse",
       property |-> [Payload |-> <<1, 0, 2>>, PayloadType |-> <<9>>]] }

====

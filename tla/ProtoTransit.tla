---------------------------- MODULE ProtoTransit ----------------------------
(***************************************************************************)
(* The codec of SmallTransit: a message is a header (its length, the type, *)
(* the length of each property) and the bytes of its properties.  The      *)
(* frames of ProtoSession are such messages; here are their bytes, written *)
(* by one end, cut by TCP, and parsed once per chunk by the other.         *)
(***************************************************************************)
EXTENDS Integers, Sequences, SequencesExt

CONSTANTS
    Base,           \* the values of a byte: 256 in the code
    Messages,       \* the messages that are sent
    Windows,        \* how many messages may be under way; one of these
    ChunkSizes,     \* bound: the most that one read returns
    MaxMessages     \* bound: how many messages are sent

VARIABLES
    window,         \* chosen at the start
    sent,           \* the messages that have been written
    wire,           \* the bytes that have not been read
    storage,        \* the bytes read but not parsed: bytesArray, _bytesStorage
    decoded,        \* the messages that have been parsed
    failed          \* the parser has thrown

vars == <<window, sent, wire, storage, decoded, failed>>

-----------------------------------------------------------------------------
(* The layout of the messages.                                             *)

MessageTypesEnum == <<"Ack", "Nack", "HandShake", "Publish", "Push", "Subscribe",
                      "Unsubscribe", "Heartbeat", "Close", "Send", "PayloadResponse">>

MessageType(type) == (CHOOSE i \in DOMAIN MessageTypesEnum : MessageTypesEnum[i] = type) - 1

\* The properties of a message, in the order of the body.
Properties(type) ==
    CASE type = "Publish"         -> <<"RoutingKey", "PayloadType", "Payload">>
      [] type = "Subscribe"       -> <<"RoutingKey", "PayloadType", "QueueName">>
      [] type = "Send"            -> <<"SenderId", "PayloadType", "Payload">>
      [] type = "PayloadResponse" -> <<"Payload", "PayloadType">>
      [] type = "Push"            -> <<"Payload">>
      [] OTHER                    -> << >>

Bytes == 0 .. Base - 1

\* A message has all its properties; none is empty (it is refused before the header
\* is written), and four bytes can say how long each is.
IsMessage(m) ==
    /\ m = [type |-> m.type, property |-> m.property]
    /\ m.type \in ToSet(MessageTypesEnum)
    /\ m.property \in [ToSet(Properties(m.type)) -> Seq(Bytes) \ {<< >>}]
    /\ \A p \in DOMAIN m.property : Len(m.property[p]) < Base * Base * Base * Base

\* A byte can say each of the types, and the length of the longest header.
ASSUME ProtoTransitAssumption ==
    /\ Base \in Nat /\ Base > 10
    /\ Windows \cup ChunkSizes \subseteq Nat \ {0}
    /\ MaxMessages \in Nat
    /\ \A m \in Messages : IsMessage(m)

\* The header item of a property: its order in the header, its size in bytes.
HeaderItem(property) ==
    CASE property = "Payload"     -> [order |-> 5, size |-> 4]
      [] property = "QueueName"   -> [order |-> 5, size |-> 1]
      [] property = "PayloadType" -> [order |-> 4, size |-> 1]
      [] OTHER                    -> [order |-> 3, size |-> 1]

\* The properties in the order of the header.
Ordered(type) ==
    CHOOSE s \in [DOMAIN Properties(type) -> ToSet(Properties(type))] :
        \A i, j \in DOMAIN s : i < j => HeaderItem(s[i]).order < HeaderItem(s[j]).order

\* Where the item of the i-th of the ordered properties begins, from 0.
Offset(type, i) ==
    LET Add(n, p) == n + HeaderItem(p).size
    IN  FoldLeft(Add, 2, SubSeq(Ordered(type), 1, i - 1))

HeaderLength(type) == Offset(type, Len(Properties(type)) + 1)

-----------------------------------------------------------------------------
(* Encoding.                                                               *)

\* BitConverter.GetBytes: the four bytes of an int, little endian.
FourBytes(n) ==
    LET n1 == n \div Base
        n2 == n1 \div Base
        n3 == n2 \div Base
    IN  <<n % Base, n1 % Base, n2 % Base, n3 % Base>>

\* Mutant: a length is thought to be one byte.
ToOneByte(n) == <<n>>

\* Without the zeros of the highest places.  It throws on 0, which no serialised
\* property is long.
ToBytes(n) ==
    LET last == CHOOSE k \in 1 .. 4 :
                    FourBytes(n)[k] # 0 /\ \A j \in k + 1 .. 4 : FourBytes(n)[j] = 0
    IN  SubSeq(FourBytes(n), 1, last)

\* The lengths of the properties, in the order of the header.
Lengths(m) == [i \in DOMAIN Ordered(m.type) |-> ToBytes(Len(m.property[Ordered(m.type)[i]]))]

\* A length that needs more bytes than its item has goes into the next item, which
\* is written over it, or beyond the header, where the array throws.
Fits(m) == \A i \in DOMAIN Ordered(m.type) :
               Len(Lengths(m)[i]) <= HeaderItem(Ordered(m.type)[i]).size

Encodable(m) == \A i \in DOMAIN Ordered(m.type) :
                    Offset(m.type, i) + Len(Lengths(m)[i]) <= HeaderLength(m.type)

HeaderBytes(m) ==
    LET items == DOMAIN Ordered(m.type)
        writes(i, at) == at - Offset(m.type, i) \in DOMAIN Lengths(m)[i]
        byte(at) == IF \E i \in items : writes(i, at)
                    THEN LET i == CHOOSE i \in items :
                                      /\ writes(i, at)
                                      /\ \A j \in items : writes(j, at) => j <= i
                         IN  Lengths(m)[i][at - Offset(m.type, i)]
                    ELSE 0
    IN  [at \in 1 .. HeaderLength(m.type) |->
            CASE at = 1 -> HeaderLength(m.type)
              [] at = 2 -> MessageType(m.type)
              [] OTHER  -> byte(at)]

\* Mutant: the body in the order of the header.
BodyByOrder(m) ==
    FlattenSeq([i \in DOMAIN Ordered(m.type) |-> m.property[Ordered(m.type)[i]]])

BodyBytes(m) ==
    FlattenSeq([i \in DOMAIN Properties(m.type) |-> m.property[Properties(m.type)[i]]])

GetBytes(m) == HeaderBytes(m) \o BodyBytes(m)

-----------------------------------------------------------------------------
(* Decoding.                                                               *)

Incomplete == [is |-> "incomplete"]
Throws == [is |-> "throws"]

\* Padded to the four bytes of an int.
FromBytesToInt(bytes) ==
    LET byte(i) == IF i \in DOMAIN bytes THEN bytes[i] ELSE 0
    IN  byte(1) + Base * (byte(2) + Base * (byte(3) + Base * byte(4)))

\* The length of a property according to the header of a message.
LengthOf(bytes, type, property) ==
    LET i == CHOOSE i \in DOMAIN Ordered(type) : Ordered(type)[i] = property
        begin == Offset(type, i)
    IN  FromBytesToInt(SubSeq(bytes, begin + 1, begin + HeaderItem(property).size))

\* Where the i-th property begins: after the header, whose length is the first byte,
\* and the properties before it.
BeginAt(bytes, type, i) ==
    LET Add(n, p) == n + LengthOf(bytes, type, p)
    IN  FoldLeft(Add, bytes[1], SubSeq(Properties(type), 1, i - 1))

\* InitializeFrom, once the header is there.
InitializeFrom(bytes, type) ==
    LET props == Properties(type)
        end == BeginAt(bytes, type, Len(props) + 1)
        value(i) == SubSeq(bytes, BeginAt(bytes, type, i) + 1, BeginAt(bytes, type, i + 1))
        place(p) == CHOOSE i \in DOMAIN props : props[i] = p
    IN  CASE end > Len(bytes) -> Incomplete
          [] end <= Len(bytes) /\ \E i \in DOMAIN props : value(i) = << >> -> Throws
          [] OTHER -> [is |-> "parsed",
                       message |-> [type |-> type,
                                    property |-> [p \in ToSet(props) |-> value(place(p))]],
                       reminder |-> SubSeq(bytes, end + 1, Len(bytes))]

\* Mutant: a message that ends with the bytes is taken for an incomplete one.
TryParseLonger(bytes) ==
    IF Len(bytes) < 2 \/ Len(bytes) <= bytes[1] THEN Incomplete
    ELSE InitializeFrom(bytes, MessageTypesEnum[bytes[2] + 1])

TryParseMessage(bytes) ==
    CASE Len(bytes) < 2 -> Incomplete
      [] Len(bytes) >= 2 /\ Len(bytes) < bytes[1] -> Incomplete
      [] /\ Len(bytes) >= 2 /\ Len(bytes) >= bytes[1]
         /\ \/ bytes[2] + 1 \notin DOMAIN MessageTypesEnum
            \/ HeaderLength(MessageTypesEnum[bytes[2] + 1]) > Len(bytes) -> Throws
      [] OTHER -> InitializeFrom(bytes, MessageTypesEnum[bytes[2] + 1])

-----------------------------------------------------------------------------

Init ==
    /\ window \in Windows
    /\ sent = << >>
    /\ wire = << >>
    /\ storage = << >>
    /\ decoded = << >>
    /\ failed = FALSE

\* The sender writes a message.  One that cannot be encoded is not written.
Send(m) ==
    /\ Len(sent) < MaxMessages
    /\ Len(sent) - Len(decoded) < window
    /\ Encodable(m)
    /\ sent' = Append(sent, m)
    /\ wire' = wire \o GetBytes(m)
    /\ UNCHANGED <<window, storage, decoded, failed>>

\* The receiver reads a chunk, and parses what it has once.
Read(n) ==
    LET size == IF n < Len(wire) THEN n ELSE Len(wire)
        bytes == storage \o SubSeq(wire, 1, size)
        result == TryParseMessage(bytes)
    IN
    /\ ~failed
    /\ wire # << >>
    /\ wire' = SubSeq(wire, size + 1, Len(wire))
    /\ failed' = (result.is = "throws")
    /\ IF result.is = "parsed"
       THEN storage' = result.reminder /\ decoded' = Append(decoded, result.message)
       ELSE storage' = bytes /\ UNCHANGED decoded
    /\ UNCHANGED <<window, sent>>

Next == (\E m \in Messages : Send(m)) \/ (\E n \in ChunkSizes : Read(n))

Spec == Init /\ [][Next]_vars

-----------------------------------------------------------------------------

AllFit == \A i \in DOMAIN sent : Fits(sent[i])

\* Every variable has its type: what is on the wire and in the storage are bytes.
TypeOK ==
    /\ window \in Windows
    /\ \A i \in DOMAIN sent : sent[i] \in Messages
    /\ wire \in Seq(Bytes)
    /\ storage \in Seq(Bytes)
    /\ \A i \in DOMAIN decoded : decoded[i].type \in ToSet(MessageTypesEnum)
    /\ failed \in BOOLEAN

\* What the parser returns are the messages that were sent, in their order, each
\* property with its bytes, wherever TCP cuts the stream and however many messages
\* are under way, as long as every length fits its header item.
DecodedAsSent == AllFit => IsPrefix(decoded, sent) /\ ~failed

\* Between two ends that wait for each other (one message under way) nothing stays
\* in the storage: a message is parsed with its last byte.
NoneLeftOver ==
    window = 1 /\ AllFit /\ wire = << >> => decoded = sent /\ storage = << >>

=============================================================================

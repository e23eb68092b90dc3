-------------------------- MODULE ProtoTransitProofs --------------------------
(***************************************************************************)
(* That the codec of ProtoTransit gives back what it was given: for every  *)
(* base, every set of messages, every size of the chunks and every number  *)
(* of messages under way.  The argument:                                   *)
(*   - FourBytes and FromBytesToInt are inverse to each other below the    *)
(*     fourth power of the base, and ToBytes drops only zeros;             *)
(*   - the items of a header are apart (Offsets, OffsetsApart), so what    *)
(*     fits its item is read back from it (ItemBytes, LengthRead);         *)
(*   - with the lengths, each property is found where it was put           *)
(*     (BytesOf, BeginAtRead): what begins with the bytes of a message is  *)
(*     parsed as that message (Parses), a part of them is not (Waits);     *)
(*   - the bytes that are under way can be cut into those of the messages  *)
(*     that are (Stream), which sending and reading preserve.              *)
(* A message has three properties at most, so the sums of their lengths    *)
(* are written out (Partial) and shown to be what the folds of the model   *)
(* compute: a function that satisfies their recursive equation exists, and *)
(* every such function has these values.                                   *)
(***************************************************************************)
EXTENDS ProtoTransit, SequenceTheorems, TLAPS

-----------------------------------------------------------------------------
(* Numbers and their bytes.                                                *)

LEMMA BaseFacts == Base \in Nat /\ Base > 10 /\ Bytes = 0 .. Base - 1 /\ Bytes \subseteq Nat
BY ProtoTransitAssumption DEF Bytes

\* A number is its last digit and the rest.
LEMMA Divided ==
    ASSUME NEW n \in Nat
    PROVE  /\ n \div Base \in Nat /\ n % Base \in Bytes
           /\ n = (n % Base) + Base * (n \div Base)
BY BaseFacts

\* A common factor can be left out of an inequality.
LEMMA ProductLess ==
    ASSUME NEW a \in Nat, NEW b \in Nat, NEW k \in Nat \ {0}, k * a < k * b
    PROVE  a < b
<1> SUFFICES ASSUME b <= a PROVE FALSE
  OBVIOUS
<1>1. k * (a - b) >= 0
  OBVIOUS
<1>2. k * a = k * b + k * (a - b) /\ k * a \in Int /\ k * b \in Int
  OBVIOUS
<1> QED BY <1>1, <1>2

\* A quotient has a digit less.
LEMMA QuotientLess ==
    ASSUME NEW n \in Nat, NEW b \in Nat, n < Base * b
    PROVE  n \div Base < b
<1> DEFINE q == n \div Base
           r == n % Base
<1>0. q \in Nat /\ r \in Nat /\ n = r + Base * q /\ Base \in Nat \ {0}
  <2>1. q \in Nat /\ r \in Bytes /\ n = r + Base * q
    BY Divided
  <2> HIDE DEF q, r
  <2> QED BY <2>1, BaseFacts
<1> HIDE DEF q, r
<1>1. Base * q <= n /\ Base * q \in Nat /\ Base * b \in Nat
  BY <1>0
<1>2. Base * q < Base * b
  BY <1>1
<1>3. q < b
  BY <1>0, <1>2, ProductLess
<1> QED BY <1>3 DEF q

\* What a number of four digits is made of.
LEMMA Digits ==
    ASSUME NEW n \in Nat, n < Base * Base * Base * Base
    PROVE  /\ FourBytes(n) \in Seq(Bytes) /\ Len(FourBytes(n)) = 4
           /\ n = FourBytes(n)[1]
                  + Base * (FourBytes(n)[2] + Base * (FourBytes(n)[3] + Base * FourBytes(n)[4]))
           /\ n < Base => FourBytes(n)[1] = n
<1> DEFINE n1 == n \div Base
           n2 == n1 \div Base
           n3 == n2 \div Base
<1>1. n1 \in Nat /\ n % Base \in Bytes /\ n = (n % Base) + Base * n1
  BY Divided
<1>2. n2 \in Nat /\ n1 % Base \in Bytes /\ n1 = (n1 % Base) + Base * n2
  BY <1>1, Divided
<1>3. n3 \in Nat /\ n2 % Base \in Bytes /\ n2 = (n2 % Base) + Base * n3
  BY <1>2, Divided
<1>4. n3 < Base
  <2>1. /\ Base * Base * Base * Base = Base * (Base * Base * Base)
        /\ Base * Base * Base = Base * (Base * Base)
        /\ Base * Base \in Nat /\ Base * Base * Base \in Nat
    BY BaseFacts
  <2>2. n1 < Base * Base * Base
    BY <1>1, <2>1, QuotientLess
  <2>3. n2 < Base * Base
    <3>1. n1 < Base * (Base * Base)
      BY <2>1, <2>2
    <3> HIDE DEF n1
    <3> QED BY <1>1, <2>1, <3>1, QuotientLess
  <2> QED BY <1>3, <2>3, QuotientLess, BaseFacts
<1>5. n3 \in Bytes /\ n3 % Base = n3
  BY <1>3, <1>4, BaseFacts
<1>6. FourBytes(n) = <<n % Base, n1 % Base, n2 % Base, n3>>
  BY <1>5 DEF FourBytes
<1>7. n < Base => n % Base = n
  BY BaseFacts
<1> HIDE DEF n1, n2, n3
<1>8. FourBytes(n) \in Seq(Bytes) /\ Len(FourBytes(n)) = 4
  BY <1>1, <1>2, <1>3, <1>5, <1>6
<1> QED BY <1>1, <1>2, <1>3, <1>6, <1>7, <1>8

\* ToBytes drops the zeros of the highest places, and nothing else.
LEMMA NumberToBytes ==
    ASSUME NEW n \in Nat, n # 0, n < Base * Base * Base * Base
    PROVE  /\ ToBytes(n) \in Seq(Bytes) /\ Len(ToBytes(n)) \in 1 .. 4
           /\ \A j \in 1 .. Len(ToBytes(n)) : ToBytes(n)[j] = FourBytes(n)[j]
           /\ \A j \in 1 .. 4 : j > Len(ToBytes(n)) => FourBytes(n)[j] = 0
<1> DEFINE b == FourBytes(n)
           Highest(k) == b[k] # 0 /\ \A j \in k + 1 .. 4 : b[j] = 0
           last == CHOOSE k \in 1 .. 4 : Highest(k)
<1>1. /\ b \in Seq(Bytes) /\ Len(b) = 4
      /\ n = b[1] + Base * (b[2] + Base * (b[3] + Base * b[4]))
  BY Digits
<1>2. ToBytes(n) = SubSeq(b, 1, last)
  BY DEF ToBytes
<1> HIDE DEF b
<1>3. b[1] # 0 \/ b[2] # 0 \/ b[3] # 0 \/ b[4] # 0
  BY <1>1, BaseFacts
<1>4. \E k \in 1 .. 4 : Highest(k)
  <2>1. CASE b[4] # 0
    BY <2>1
  <2>2. CASE b[4] = 0 /\ b[3] # 0
    <3>1. \A j \in 3 + 1 .. 4 : j = 4
      OBVIOUS
    <3> QED BY <2>2, <3>1
  <2>3. CASE b[4] = 0 /\ b[3] = 0 /\ b[2] # 0
    <3>1. \A j \in 2 + 1 .. 4 : j = 3 \/ j = 4
      OBVIOUS
    <3> QED BY <2>3, <3>1
  <2>4. CASE b[4] = 0 /\ b[3] = 0 /\ b[2] = 0 /\ b[1] # 0
    <3>1. \A j \in 1 + 1 .. 4 : j = 2 \/ j = 3 \/ j = 4
      OBVIOUS
    <3> QED BY <2>4, <3>1
  <2> QED BY <1>3, <2>1, <2>2, <2>3, <2>4
<1>5. last \in 1 .. 4 /\ Highest(last)
  BY <1>4
<1> HIDE DEF last
<1>6. /\ SubSeq(b, 1, last) \in Seq(Bytes) /\ Len(SubSeq(b, 1, last)) = last
      /\ \A j \in 1 .. last : SubSeq(b, 1, last)[j] = b[j]
  <2>1. \A i \in 1 .. 4 : b[i] \in Bytes
    BY <1>1, LenProperties
  <2>2. \A i \in 1 .. last : b[i] \in Bytes
    BY <1>5, <2>1
  <2> QED BY <1>5, <2>2, SubSeqProperties
<1>7. \A j \in 1 .. 4 : j > last => b[j] = 0
  BY <1>5
<1> QED BY <1>2, <1>5, <1>6, <1>7 DEF b

\* FromBytesToInt gives back a number, with or without its highest zeros.
LEMMA BytesToNumber ==
    ASSUME NEW n \in Nat, n # 0, n < Base * Base * Base * Base,
           NEW b \in Seq(Bytes), Len(b) \in 1 .. 4, Len(ToBytes(n)) <= Len(b),
           \A j \in 1 .. Len(b) : b[j] = FourBytes(n)[j]
    PROVE  FromBytesToInt(b) = n
<1> DEFINE byte(i) == IF i \in DOMAIN b THEN b[i] ELSE 0
<1>1. \A j \in 1 .. 4 : j > Len(ToBytes(n)) => FourBytes(n)[j] = 0
  BY NumberToBytes
<1>2. \A i \in 1 .. 4 : byte(i) = FourBytes(n)[i]
  <2>1. DOMAIN b = 1 .. Len(b) /\ Len(b) \in Nat
    OBVIOUS
  <2>2. Len(ToBytes(n)) \in Nat
    BY NumberToBytes
  <2> QED BY <1>1, <2>1, <2>2
<1>3. byte(1) = FourBytes(n)[1] /\ byte(2) = FourBytes(n)[2]
      /\ byte(3) = FourBytes(n)[3] /\ byte(4) = FourBytes(n)[4]
  BY <1>2
<1>4. FromBytesToInt(b) = byte(1) + Base * (byte(2) + Base * (byte(3) + Base * byte(4)))
  BY DEF FromBytesToInt
<1> HIDE DEF byte
<1> QED BY <1>3, <1>4, Digits

\* Any bytes are read as a number.
LEMMA NumberRead ==
    ASSUME NEW b \in Seq(Bytes)
    PROVE  FromBytesToInt(b) \in Nat
<1> DEFINE byte(i) == IF i \in DOMAIN b THEN b[i] ELSE 0
<1>1. \A i \in 1 .. 4 : byte(i) \in Nat
  BY BaseFacts
<1>2. FromBytesToInt(b) = byte(1) + Base * (byte(2) + Base * (byte(3) + Base * byte(4)))
  BY DEF FromBytesToInt
<1> HIDE DEF byte
<1>3. Base * byte(4) \in Nat
  BY <1>1, BaseFacts
<1>4. Base * (byte(3) + Base * byte(4)) \in Nat
  BY <1>1, <1>3, BaseFacts
<1>5. Base * (byte(2) + Base * (byte(3) + Base * byte(4))) \in Nat
  BY <1>1, <1>4, BaseFacts
<1> QED BY <1>1, <1>2, <1>5

-----------------------------------------------------------------------------
(* The layouts.                                                            *)

LEMMA Items ==
    /\ HeaderItem("Payload") = [order |-> 5, size |-> 4]
    /\ HeaderItem("QueueName") = [order |-> 5, size |-> 1]
    /\ HeaderItem("PayloadType") = [order |-> 4, size |-> 1]
    /\ HeaderItem("RoutingKey") = [order |-> 3, size |-> 1]
    /\ HeaderItem("SenderId") = [order |-> 3, size |-> 1]
BY DEF HeaderItem

\* There are six lists of properties.
LEMMA PropertiesOf ==
    ASSUME NEW type
    PROVE  Properties(type) \in {<<"RoutingKey", "PayloadType", "Payload">>,
                                 <<"RoutingKey", "PayloadType", "QueueName">>,
                                 <<"SenderId", "PayloadType", "Payload">>,
                                 <<"Payload", "PayloadType">>, <<"Payload">>, << >>}
BY DEF Properties

\* The orders of the header items of a type differ, so there is one way to sort.
LEMMA OrderedOf ==
    /\ \A type : Properties(type) = << >> => Ordered(type) = << >>
    /\ \A type : Properties(type) = <<"Payload">> => Ordered(type) = <<"Payload">>
    /\ \A type : Properties(type) = <<"Payload", "PayloadType">>
                    => Ordered(type) = <<"PayloadType", "Payload">>
    /\ \A type, p, q : Properties(type) = <<p, "PayloadType", q>>
                    /\ p \in {"RoutingKey", "SenderId"} /\ q \in {"Payload", "QueueName"}
                    => Ordered(type) = Properties(type)
<1> DEFINE Sorted(s) == \A i, j \in DOMAIN s : i < j => HeaderItem(s[i]).order < HeaderItem(s[j]).order
           All(type) == [DOMAIN Properties(type) -> ToSet(Properties(type))]
<1>1. ASSUME NEW type, NEW o \in All(type), Sorted(o), \A s \in All(type) : Sorted(s) => s = o
      PROVE  Ordered(type) = o
  BY <1>1 DEF Ordered
<1>2. ASSUME NEW type, Properties(type) = << >> PROVE Ordered(type) = << >>
  <2>1. DOMAIN Properties(type) = {}
    BY <1>2
  <2>2. << >> \in All(type) /\ Sorted(<< >>) /\ \A s \in All(type) : s = << >>
    BY <2>1
  <2> QED BY <1>1, <2>2
<1>3. ASSUME NEW type, Properties(type) = <<"Payload">> PROVE Ordered(type) = <<"Payload">>
  <2>1. DOMAIN Properties(type) = {1} /\ ToSet(Properties(type)) = {"Payload"}
    BY <1>3 DEF ToSet
  <2>2. /\ <<"Payload">> \in All(type) /\ Sorted(<<"Payload">>)
        /\ \A s \in All(type) : s = <<"Payload">>
    BY <2>1
  <2> QED BY <1>1, <2>2
<1>4. ASSUME NEW type, Properties(type) = <<"Payload", "PayloadType">>
      PROVE  Ordered(type) = <<"PayloadType", "Payload">>
  <2> DEFINE o == <<"PayloadType", "Payload">>
  <2>1. DOMAIN Properties(type) = {1, 2} /\ ToSet(Properties(type)) = {"Payload", "PayloadType"}
    BY <1>4 DEF ToSet
  <2>2. o \in All(type) /\ Sorted(o)
    BY <2>1, Items
  <2>3. ASSUME NEW s \in All(type), Sorted(s) PROVE s = o
    <3>1. HeaderItem(s[1]).order < HeaderItem(s[2]).order
      BY <2>1, <2>3
    <3>2. s[1] \in {"Payload", "PayloadType"} /\ s[2] \in {"Payload", "PayloadType"}
      BY <2>1
    <3>3. s[1] = "PayloadType" /\ s[2] = "Payload"
      BY <3>1, <3>2, Items
    <3> QED BY <2>1, <3>3
  <2> HIDE DEF o
  <2>4. Ordered(type) = o
    BY <1>1, <2>2, <2>3
  <2> QED BY <2>4 DEF o
<1>5. ASSUME NEW type, NEW p \in {"RoutingKey", "SenderId"}, NEW q \in {"Payload", "QueueName"},
             Properties(type) = <<p, "PayloadType", q>>
      PROVE  Ordered(type) = Properties(type)
  <2> DEFINE o == <<p, "PayloadType", q>>
  <2>1. /\ DOMAIN Properties(type) = {1, 2, 3}
        /\ ToSet(Properties(type)) = {p, "PayloadType", q}
    BY <1>5 DEF ToSet
  <2>2. HeaderItem(p).order = 3 /\ HeaderItem("PayloadType").order = 4 /\ HeaderItem(q).order = 5
    BY Items
  <2>3. o \in All(type) /\ Sorted(o)
    BY <2>1, <2>2
  <2>4. ASSUME NEW s \in All(type), Sorted(s) PROVE s = o
    <3>1. /\ HeaderItem(s[1]).order < HeaderItem(s[2]).order
          /\ HeaderItem(s[2]).order < HeaderItem(s[3]).order
      BY <2>1, <2>4
    <3>2. /\ s[1] \in {p, "PayloadType", q} /\ s[2] \in {p, "PayloadType", q}
          /\ s[3] \in {p, "PayloadType", q}
      BY <2>1
    <3>3. s[1] = p /\ s[2] = "PayloadType" /\ s[3] = q
      BY <2>2, <3>1, <3>2
    <3> QED BY <2>1, <3>3
  <2> HIDE DEF o
  <2>5. Ordered(type) = o
    BY <1>1, <2>3, <2>4
  <2> QED BY <1>5, <2>5 DEF o
<1> QED BY <1>2, <1>3, <1>4, <1>5

-----------------------------------------------------------------------------
(* Sums over three properties at most.                                     *)

\* What the recursive function of a fold that adds satisfies.
Adding(h, base, w, n) ==
    h = [T \in SUBSET (1 .. n) |-> IF T = {} THEN base ELSE h[T \ {Max(T)}] + w[Max(T)]]

\* The first n of the numbers of w, added to the base.
Partial(base, w, n) ==
    CASE n = 0 -> base
      [] n = 1 -> base + w[1]
      [] n = 2 -> base + w[1] + w[2]
      [] n = 3 -> base + w[1] + w[2] + w[3]

\* The greatest of some of the first three numbers.
LEMMA MaxOf ==
    ASSUME NEW T, T \subseteq 1 .. 3, T # {}
    PROVE  Max(T) \in T /\ \A y \in T : y <= Max(T)
<1>1. \E x \in T : \A y \in T : x >= y
  <2>1. CASE 3 \in T
    BY <2>1
  <2>2. CASE 3 \notin T /\ 2 \in T
    <3>1. \A y \in T : y = 1 \/ y = 2
      BY <2>2
    <3> QED BY <2>2, <3>1
  <2>3. CASE 3 \notin T /\ 2 \notin T
    <3>1. PICK x \in T : TRUE
      OBVIOUS
    <3>2. \A y \in T : y = 1
      BY <2>3
    <3> QED BY <3>1, <3>2
  <2> QED BY <2>1, <2>2, <2>3
<1>2. Max(T) \in T /\ \A y \in T : Max(T) >= y
  BY <1>1 DEF Max
<1> QED BY <1>2

\* There is such a function: the sum over the members of the set.
LEMMA AddingExists ==
    ASSUME NEW base \in Nat, NEW n \in 0 .. 3, NEW w, \A i \in 1 .. n : w[i] \in Nat
    PROVE  \E h : Adding(h, base, w, n)
<1> DEFINE part(i, T) == IF i \in T THEN w[i] ELSE 0
           h == [T \in SUBSET (1 .. n) |-> base + part(1, T) + part(2, T) + part(3, T)]
<1>1. ASSUME NEW T \in SUBSET (1 .. n)
      PROVE  h[T] = IF T = {} THEN base ELSE h[T \ {Max(T)}] + w[Max(T)]
  <2>1. \A U \in SUBSET (1 .. n), i \in 1 .. 3 : part(i, U) \in Nat
    OBVIOUS
  <2>2. CASE T = {}
    BY <2>2
  <2>3. CASE T # {}
    <3>1. Max(T) \in T /\ Max(T) \in 1 .. 3 /\ Max(T) \in 1 .. n
      <4>1. T \subseteq 1 .. 3
        OBVIOUS
      <4>2. Max(T) \in T
        BY <2>3, <4>1, MaxOf
      <4> QED BY <4>1, <4>2
    <3> DEFINE U == T \ {Max(T)}
    <3>2. /\ \A i \in 1 .. 3 : i # Max(T) => part(i, U) = part(i, T)
          /\ part(Max(T), U) = 0 /\ part(Max(T), T) = w[Max(T)]
          /\ U \in SUBSET (1 .. n)
      BY <3>1
    <3>3. /\ h[T] = base + part(1, T) + part(2, T) + part(3, T)
          /\ h[U] = base + part(1, U) + part(2, U) + part(3, U)
      BY <3>2
    <3> HIDE DEF h, part, U
    <3>4. h[T] = h[U] + w[Max(T)]
      <4>1. CASE Max(T) = 1
        BY <2>1, <3>2, <3>3, <4>1
      <4>2. CASE Max(T) = 2
        BY <2>1, <3>2, <3>3, <4>2
      <4>3. CASE Max(T) = 3
        BY <2>1, <3>2, <3>3, <4>3
      <4> QED BY <3>1, <4>1, <4>2, <4>3
    <3> QED BY <2>3, <3>4 DEF U
  <2> QED BY <2>2, <2>3
<1>2. h = [T \in SUBSET (1 .. n) |-> h[T]]
  OBVIOUS
<1> HIDE DEF h
<1>3. Adding(h, base, w, n)
  BY <1>1, <1>2 DEF Adding
<1> QED BY <1>3

\* Every such function has the sum of the first n at 1 .. n.
LEMMA AddingValue ==
    ASSUME NEW base \in Nat, NEW n \in 0 .. 3, NEW w, \A i \in 1 .. n : w[i] \in Nat,
           NEW h, Adding(h, base, w, n)
    PROVE  h[1 .. n] = Partial(base, w, n)
<1>1. \A T \in SUBSET (1 .. n) :
        h[T] = IF T = {} THEN base ELSE h[T \ {Max(T)}] + w[Max(T)]
  BY DEF Adding
<1>2. ASSUME NEW k \in 1 .. n PROVE h[1 .. k] = h[1 .. (k - 1)] + w[k]
  <2>1. 1 .. k \in SUBSET (1 .. n) /\ 1 .. k # {} /\ 1 .. k \subseteq 1 .. 3 /\ k \in 1 .. k
    OBVIOUS
  <2>2. Max(1 .. k) \in 1 .. k /\ k <= Max(1 .. k)
    BY <2>1, MaxOf
  <2>3. Max(1 .. k) = k
    BY <2>2
  <2>4. (1 .. k) \ {k} = 1 .. (k - 1)
    OBVIOUS
  <2> QED BY <1>1, <2>1, <2>3, <2>4
<1>3. h[1 .. 0] = base
  <2>1. 1 .. 0 = {}
    OBVIOUS
  <2> QED BY <1>1, <2>1
<1>4. /\ n >= 1 => h[1 .. 1] = base + w[1]
      /\ n >= 2 => h[1 .. 2] = h[1 .. 1] + w[2]
      /\ n >= 3 => h[1 .. 3] = h[1 .. 2] + w[3]
  <2>1. (n >= 1 => 1 \in 1 .. n) /\ (n >= 2 => 2 \in 1 .. n) /\ (n >= 3 => 3 \in 1 .. n)
    OBVIOUS
  <2>2. 1 - 1 = 0 /\ 2 - 1 = 1 /\ 3 - 1 = 2
    OBVIOUS
  <2> QED BY <1>2, <1>3, <2>1, <2>2
<1>5. n = 0 \/ n = 1 \/ n = 2 \/ n = 3
  OBVIOUS
<1>6. CASE n = 0 BY <1>3, <1>6 DEF Partial
<1>7. CASE n = 1 BY <1>4, <1>7 DEF Partial
<1>8. CASE n = 2 BY <1>4, <1>8 DEF Partial
<1>9. CASE n = 3 BY <1>4, <1>9 DEF Partial
<1> QED BY <1>5, <1>6, <1>7, <1>8, <1>9

\* The sums, one by one.
LEMMA PartialAt ==
    ASSUME NEW base, NEW w
    PROVE  /\ Partial(base, w, 0) = base
           /\ Partial(base, w, 1) = base + w[1]
           /\ Partial(base, w, 2) = base + w[1] + w[2]
           /\ Partial(base, w, 3) = base + w[1] + w[2] + w[3]
<1>1. Partial(base, w, 0) = base
  BY DEF Partial
<1>2. Partial(base, w, 1) = base + w[1]
  BY DEF Partial
<1>3. Partial(base, w, 2) = base + w[1] + w[2]
  BY DEF Partial
<1>4. Partial(base, w, 3) = base + w[1] + w[2] + w[3]
  BY DEF Partial
<1> QED BY <1>1, <1>2, <1>3, <1>4

\* A sum grows by the next number.
LEMMA PartialNext ==
    ASSUME NEW base, NEW w, NEW n \in 1 .. 3
    PROVE  Partial(base, w, n) = Partial(base, w, n - 1) + w[n]
<1>1. 1 - 1 = 0 /\ 2 - 1 = 1 /\ 3 - 1 = 2
  OBVIOUS
<1>2. CASE n = 1 BY <1>1, <1>2, PartialAt
<1>3. CASE n = 2 BY <1>1, <1>3, PartialAt
<1>4. CASE n = 3 BY <1>1, <1>4, PartialAt
<1> QED BY <1>2, <1>3, <1>4

\* A sum depends on the numbers that it adds only.
LEMMA PartialSame ==
    ASSUME NEW base, NEW v, NEW w, NEW n \in 0 .. 3, \A j \in 1 .. n : v[j] = w[j]
    PROVE  Partial(base, v, n) = Partial(base, w, n)
<1>1. (n >= 1 => v[1] = w[1]) /\ (n >= 2 => v[2] = w[2]) /\ (n >= 3 => v[3] = w[3])
  <2>1. (n >= 1 => 1 \in 1 .. n) /\ (n >= 2 => 2 \in 1 .. n) /\ (n >= 3 => 3 \in 1 .. n)
    OBVIOUS
  <2> QED BY <2>1
<1>2. CASE n = 0 BY <1>2, PartialAt
<1>3. CASE n = 1 BY <1>1, <1>3, PartialAt
<1>4. CASE n = 2 BY <1>1, <1>4, PartialAt
<1>5. CASE n = 3 BY <1>1, <1>5, PartialAt
<1> QED BY <1>2, <1>3, <1>4, <1>5

\* The fold of Offset, and that of BeginAt.
AddingSizes(h, seq) ==
    h = [T \in SUBSET (DOMAIN seq) |->
            IF T = {} THEN 2 ELSE h[T \ {Max(T)}] + HeaderItem(seq[Max(T)]).size]

AddingLengths(h, bytes, type, seq) ==
    h = [T \in SUBSET (DOMAIN seq) |->
            IF T = {} THEN bytes[1]
            ELSE h[T \ {Max(T)}] + LengthOf(bytes, type, seq[Max(T)])]

\* Offset is the value of a function that satisfies the equation, if there is one.
LEMMA OffsetUnfolds ==
    ASSUME NEW type, NEW i, \E h : AddingSizes(h, SubSeq(Ordered(type), 1, i - 1))
    PROVE  \E h : /\ AddingSizes(h, SubSeq(Ordered(type), 1, i - 1))
                  /\ Offset(type, i) = h[DOMAIN SubSeq(Ordered(type), 1, i - 1)]
BY DEF Offset, FoldLeft, MapThenFoldSet, AddingSizes

\* So is BeginAt.
LEMMA BeginAtUnfolds ==
    ASSUME NEW bytes, NEW type, NEW i,
           \E h : AddingLengths(h, bytes, type, SubSeq(Properties(type), 1, i - 1))
    PROVE  \E h : /\ AddingLengths(h, bytes, type, SubSeq(Properties(type), 1, i - 1))
                  /\ BeginAt(bytes, type, i) = h[DOMAIN SubSeq(Properties(type), 1, i - 1)]
BY DEF BeginAt, FoldLeft, MapThenFoldSet, AddingLengths

\* The first elements of a sequence.
LEMMA FirstOnes ==
    ASSUME NEW S, NEW seq \in Seq(S), NEW i \in 1 .. Len(seq) + 1
    PROVE  /\ DOMAIN SubSeq(seq, 1, i - 1) = 1 .. i - 1
           /\ \A j \in 1 .. i - 1 : SubSeq(seq, 1, i - 1)[j] = seq[j]
<1>1. Len(seq) \in Nat /\ \A j \in 1 .. Len(seq) : seq[j] \in S
  BY LenProperties
<1>2. i - 1 \in 0 .. Len(seq) /\ \A j \in 1 .. i - 1 : seq[j] \in S
  BY <1>1
<1>3. /\ SubSeq(seq, 1, i - 1) \in Seq(S) /\ Len(SubSeq(seq, 1, i - 1)) = i - 1
      /\ \A j \in 1 .. i - 1 : SubSeq(seq, 1, i - 1)[j] = seq[j]
  BY <1>2, SubSeqProperties
<1> QED BY <1>3, LenProperties

\* An offset is 2 and the sizes of the items before it.
LEMMA OffsetValue ==
    ASSUME NEW type, NEW S, Ordered(type) \in Seq(S), Len(Ordered(type)) <= 3,
           NEW i \in 1 .. Len(Ordered(type)) + 1,
           \A j \in 1 .. Len(Ordered(type)) : HeaderItem(Ordered(type)[j]).size \in Nat
    PROVE  Offset(type, i)
               = Partial(2, [j \in 1 .. i - 1 |-> HeaderItem(Ordered(type)[j]).size], i - 1)
<1> DEFINE front == SubSeq(Ordered(type), 1, i - 1)
           n == i - 1
           w == [j \in 1 .. n |-> HeaderItem(Ordered(type)[j]).size]
<1>1. Len(Ordered(type)) \in Nat
  BY LenProperties
<1>2. n \in 0 .. 3 /\ \A j \in 1 .. n : j \in 1 .. Len(Ordered(type))
  BY <1>1
<1>3. DOMAIN front = 1 .. n /\ \A j \in 1 .. n : front[j] = Ordered(type)[j]
  BY FirstOnes
<1>4. \A j \in 1 .. n : w[j] \in Nat /\ w[j] = HeaderItem(front[j]).size
  BY <1>2, <1>3
<1> HIDE DEF front, w, n
<1>5. \A T \in SUBSET (1 .. n) : T # {} => Max(T) \in 1 .. n
  <2> SUFFICES ASSUME NEW T \in SUBSET (1 .. n), T # {} PROVE Max(T) \in 1 .. n
    OBVIOUS
  <2>1. T \subseteq 1 .. 3
    BY <1>2
  <2> QED BY <2>1, MaxOf
<1>6. ASSUME NEW h PROVE Adding(h, 2, w, n) <=> AddingSizes(h, front)
  BY <1>3, <1>4, <1>5 DEF Adding, AddingSizes
<1>7. \E h : AddingSizes(h, front)
  BY <1>2, <1>4, <1>6, AddingExists
<1>8. PICK h : AddingSizes(h, front) /\ Offset(type, i) = h[DOMAIN front]
  BY <1>7, OffsetUnfolds DEF front
<1>9. h[1 .. n] = Partial(2, w, n)
  <2>1. 2 \in Nat /\ Adding(h, 2, w, n)
    BY <1>6, <1>8
  <2> QED BY <1>2, <1>4, <2>1, AddingValue
<1> QED BY <1>3, <1>8, <1>9 DEF w, n

\* A property begins after the header and the lengths of those before it.
LEMMA BeginAtValue ==
    ASSUME NEW bytes, NEW type, NEW S, Properties(type) \in Seq(S), Len(Properties(type)) <= 3,
           NEW i \in 1 .. Len(Properties(type)) + 1,
           bytes[1] \in Nat,
           \A j \in 1 .. Len(Properties(type)) : LengthOf(bytes, type, Properties(type)[j]) \in Nat
    PROVE  BeginAt(bytes, type, i)
               = Partial(bytes[1],
                         [j \in 1 .. i - 1 |-> LengthOf(bytes, type, Properties(type)[j])], i - 1)
<1> DEFINE front == SubSeq(Properties(type), 1, i - 1)
           n == i - 1
           w == [j \in 1 .. n |-> LengthOf(bytes, type, Properties(type)[j])]
<1>1. Len(Properties(type)) \in Nat
  BY LenProperties
<1>2. n \in 0 .. 3 /\ \A j \in 1 .. n : j \in 1 .. Len(Properties(type))
  BY <1>1
<1>3. DOMAIN front = 1 .. n /\ \A j \in 1 .. n : front[j] = Properties(type)[j]
  BY FirstOnes
<1>4. \A j \in 1 .. n : w[j] \in Nat /\ w[j] = LengthOf(bytes, type, front[j])
  BY <1>2, <1>3
<1> HIDE DEF front, w, n
<1>5. \A T \in SUBSET (1 .. n) : T # {} => Max(T) \in 1 .. n
  <2> SUFFICES ASSUME NEW T \in SUBSET (1 .. n), T # {} PROVE Max(T) \in 1 .. n
    OBVIOUS
  <2>1. T \subseteq 1 .. 3
    BY <1>2
  <2> QED BY <2>1, MaxOf
<1>6. ASSUME NEW h PROVE Adding(h, bytes[1], w, n) <=> AddingLengths(h, bytes, type, front)
  BY <1>3, <1>4, <1>5 DEF Adding, AddingLengths
<1>7. \E h : AddingLengths(h, bytes, type, front)
  BY <1>2, <1>4, <1>6, AddingExists
<1>8. PICK h : AddingLengths(h, bytes, type, front) /\ BeginAt(bytes, type, i) = h[DOMAIN front]
  BY <1>7, BeginAtUnfolds DEF front
<1>9. h[1 .. n] = Partial(bytes[1], w, n)
  BY <1>2, <1>4, <1>6, <1>8, AddingValue
<1> QED BY <1>3, <1>8, <1>9 DEF w, n

Names == {"RoutingKey", "PayloadType", "Payload", "QueueName", "SenderId"}

Once(s) == \A i, j \in DOMAIN s : s[i] = s[j] => i = j

\* What the properties of a type, as they are in the header, have to do with what
\* they are in the body.
LEMMA Layouts ==
    ASSUME NEW type
    PROVE  /\ Properties(type) \in Seq(Names) /\ Ordered(type) \in Seq(Names)
           /\ Len(Properties(type)) \in 0 .. 3 /\ Len(Ordered(type)) = Len(Properties(type))
           /\ Once(Properties(type)) /\ Once(Ordered(type))
           /\ ToSet(Ordered(type)) = ToSet(Properties(type))
           /\ \A p \in ToSet(Properties(type)) : HeaderItem(p).size \in {1, 4}
           /\ \A i, j \in DOMAIN Ordered(type) :
                 HeaderItem(Ordered(type)[i]).size = 4 /\ HeaderItem(Ordered(type)[j]).size = 4
                     => i = j
<1>1. ASSUME NEW p, NEW q, p \in {"RoutingKey", "SenderId"}, q \in {"Payload", "QueueName"},
             Properties(type) = <<p, "PayloadType", q>>
      PROVE  Ordered(type) = Properties(type)
  BY <1>1, OrderedOf
<1>2. CASE Properties(type) = <<"RoutingKey", "PayloadType", "Payload">>
  <2>1. Ordered(type) = <<"RoutingKey", "PayloadType", "Payload">>
    BY <1>1, <1>2
  <2> QED BY <1>2, <2>1, Items DEF Names, Once, ToSet
<1>3. CASE Properties(type) = <<"RoutingKey", "PayloadType", "QueueName">>
  <2>1. Ordered(type) = <<"RoutingKey", "PayloadType", "QueueName">>
    BY <1>1, <1>3
  <2> QED BY <1>3, <2>1, Items DEF Names, Once, ToSet
<1>4. CASE Properties(type) = <<"SenderId", "PayloadType", "Payload">>
  <2>1. Ordered(type) = <<"SenderId", "PayloadType", "Payload">>
    BY <1>1, <1>4
  <2> QED BY <1>4, <2>1, Items DEF Names, Once, ToSet
<1>5. CASE Properties(type) = <<"Payload", "PayloadType">>
  <2>1. Ordered(type) = <<"PayloadType", "Payload">>
    BY <1>5, OrderedOf
  <2> QED BY <1>5, <2>1, Items DEF Names, Once, ToSet
<1>6. CASE Properties(type) = <<"Payload">>
  <2>1. Ordered(type) = <<"Payload">>
    BY <1>6, OrderedOf
  <2> QED BY <1>6, <2>1, Items DEF Names, Once, ToSet
<1>7. CASE Properties(type) = << >>
  <2>1. Ordered(type) = << >>
    BY <1>7, OrderedOf
  <2> QED BY <1>7, <2>1, Items DEF Names, Once, ToSet
<1> QED BY <1>2, <1>3, <1>4, <1>5, <1>6, <1>7, PropertiesOf

\* The items of a header follow one another.
LEMMA Offsets ==
    ASSUME NEW type
    PROVE  /\ Offset(type, 1) = 2
           /\ \A i \in DOMAIN Ordered(type) :
                 Offset(type, i + 1) = Offset(type, i) + HeaderItem(Ordered(type)[i]).size
           /\ \A i \in 1 .. Len(Ordered(type)) + 1 : Offset(type, i) \in 2 .. 8
           /\ HeaderLength(type) = Offset(type, Len(Ordered(type)) + 1)
           /\ HeaderLength(type) \in 2 .. 8
<1> DEFINE n == Len(Ordered(type))
           w == [j \in 1 .. n |-> HeaderItem(Ordered(type)[j]).size]
<1>1. /\ n \in 0 .. 3 /\ DOMAIN Ordered(type) = 1 .. n /\ Ordered(type) \in Seq(Names)
      /\ \A i \in 1 .. n : w[i] \in {1, 4}
      /\ \A i, j \in 1 .. n : w[i] = 4 /\ w[j] = 4 => i = j
  BY Layouts, LenProperties DEF ToSet
<1>2. \A i \in 1 .. n : w[i] = HeaderItem(Ordered(type)[i]).size
  OBVIOUS
<1>3. HeaderLength(type) = Offset(type, n + 1)
  BY Layouts DEF HeaderLength
<1> HIDE DEF w
<1>4. \A i \in 1 .. n + 1 : Offset(type, i) = Partial(2, w, i - 1)
  <2> SUFFICES ASSUME NEW i \in 1 .. n + 1 PROVE Offset(type, i) = Partial(2, w, i - 1)
    OBVIOUS
  <2> DEFINE v == [j \in 1 .. i - 1 |-> HeaderItem(Ordered(type)[j]).size]
  <2>1. \A j \in 1 .. n : HeaderItem(Ordered(type)[j]).size \in Nat
    BY <1>1, <1>2
  <2>2. Offset(type, i) = Partial(2, v, i - 1)
    <3>1. /\ Ordered(type) \in Seq(Names) /\ Len(Ordered(type)) <= 3
          /\ i \in 1 .. Len(Ordered(type)) + 1
          /\ \A j \in 1 .. Len(Ordered(type)) : HeaderItem(Ordered(type)[j]).size \in Nat
      BY <1>1, <2>1
    <3> HIDE DEF n
    <3> QED BY <3>1, OffsetValue DEF v
  <2>3. i - 1 \in 0 .. 3 /\ \A j \in 1 .. i - 1 : v[j] = w[j]
    BY <1>1, <1>2
  <2> HIDE DEF v
  <2>4. Partial(2, v, i - 1) = Partial(2, w, i - 1)
    BY <2>3, PartialSame
  <2> QED BY <2>2, <2>4
<1> HIDE DEF n
<1>5. \A i \in 1 .. n : Offset(type, i + 1) = Offset(type, i) + w[i]
  <2> SUFFICES ASSUME NEW i \in 1 .. n PROVE Offset(type, i + 1) = Offset(type, i) + w[i]
    OBVIOUS
  <2>1. i + 1 \in 1 .. n + 1 /\ i \in 1 .. n + 1 /\ (i + 1) - 1 = i /\ i \in 1 .. 3
    BY <1>1
  <2>2. Partial(2, w, i) = Partial(2, w, i - 1) + w[i]
    BY <2>1, PartialNext
  <2> QED BY <1>4, <2>1, <2>2
<1>6. Offset(type, 1) = 2
  <2>1. 1 \in 1 .. n + 1 /\ 1 - 1 = 0
    BY <1>1
  <2> QED BY <1>4, <2>1, PartialAt
<1>7. /\ n >= 1 => w[1] \in {1, 4}
      /\ n >= 2 => w[2] \in {1, 4} /\ (w[1] = 1 \/ w[2] = 1)
      /\ n >= 3 => w[3] \in {1, 4} /\ (w[1] = 1 \/ w[3] = 1) /\ (w[2] = 1 \/ w[3] = 1)
  <2>1. (n >= 1 => 1 \in 1 .. n) /\ (n >= 2 => 2 \in 1 .. n) /\ (n >= 3 => 3 \in 1 .. n)
    BY <1>1
  <2> QED BY <1>1, <2>1
<1>8. \A i \in 1 .. n + 1 : Offset(type, i) \in 2 .. 8
  <2>1. \A i \in 1 .. n + 1 :
           i - 1 = 0 \/ (i - 1 = 1 /\ n >= 1) \/ (i - 1 = 2 /\ n >= 2) \/ (i - 1 = 3 /\ n >= 3)
    BY <1>1
  <2>2. /\ Partial(2, w, 0) \in 2 .. 8
        /\ n >= 1 => Partial(2, w, 1) \in 2 .. 8
        /\ n >= 2 => Partial(2, w, 2) \in 2 .. 8
        /\ n >= 3 => Partial(2, w, 3) \in 2 .. 8
    <3>1. Partial(2, w, 0) \in 2 .. 8
      BY PartialAt
    <3>2. ASSUME n >= 1 PROVE 2 + w[1] \in 2 .. 8
      BY <1>7, <3>2
    <3>3. ASSUME n >= 2 PROVE 2 + w[1] + w[2] \in 2 .. 8
      BY <1>1, <1>7, <3>3
    <3>4. ASSUME n >= 3 PROVE 2 + w[1] + w[2] + w[3] \in 2 .. 8
      BY <1>1, <1>7, <3>4
    <3>5. /\ Partial(2, w, 1) = 2 + w[1] /\ Partial(2, w, 2) = 2 + w[1] + w[2]
          /\ Partial(2, w, 3) = 2 + w[1] + w[2] + w[3]
      BY PartialAt
    <3> QED BY <3>1, <3>2, <3>3, <3>4, <3>5
  <2> QED BY <1>4, <2>1, <2>2
<1>9. n + 1 \in 1 .. n + 1
  BY <1>1
<1> QED BY <1>1, <1>2, <1>3, <1>5, <1>6, <1>8, <1>9 DEF n

\* An item ends where the next one begins or before, and in the header.
LEMMA OffsetsApart ==
    ASSUME NEW type
    PROVE  /\ \A i, j \in DOMAIN Ordered(type) :
                 i < j => Offset(type, i) + HeaderItem(Ordered(type)[i]).size <= Offset(type, j)
           /\ \A i \in DOMAIN Ordered(type) :
                 Offset(type, i) + HeaderItem(Ordered(type)[i]).size <= HeaderLength(type)
<1> DEFINE n == Len(Ordered(type))
           o(i) == Offset(type, i)
           size(i) == HeaderItem(Ordered(type)[i]).size
<1>1. /\ n \in 0 .. 3 /\ DOMAIN Ordered(type) = 1 .. n
      /\ \A i \in 1 .. n : size(i) \in {1, 4}
  BY Layouts, LenProperties DEF ToSet
<1>2. /\ \A i \in 1 .. n : o(i + 1) = o(i) + size(i)
      /\ \A i \in 1 .. n + 1 : o(i) \in 2 .. 8
      /\ HeaderLength(type) = o(n + 1)
  BY <1>1, Offsets
<1> HIDE DEF n, o, size
<1>3. 1 + 1 = 2 /\ 2 + 1 = 3 /\ 3 + 1 = 4
  OBVIOUS
<1>4. \A i \in 1 .. n, j \in 1 .. n + 1 : i < j => o(i) + size(i) <= o(j)
  <2>1. CASE n = 0
    BY <2>1
  <2>2. CASE n = 1
    <3>1. 1 \in 1 .. n /\ 1 \in 1 .. n + 1 /\ 2 \in 1 .. n + 1
      BY <2>2
    <3>2. o(2) = o(1) + size(1)
      BY <1>2, <1>3, <3>1
    <3>3. \A i \in 1 .. n, j \in 1 .. n + 1 : i < j => i = 1 /\ j = 2
      BY <2>2
    <3>4. o(2) \in Nat /\ o(1) \in Nat
      BY <1>2, <3>1
    <3> QED BY <3>2, <3>3, <3>4
  <2>3. CASE n = 2
    <3>1. 1 \in 1 .. n /\ 2 \in 1 .. n /\ 1 \in 1 .. n + 1 /\ 2 \in 1 .. n + 1 /\ 3 \in 1 .. n + 1
      BY <2>3
    <3>2. /\ o(2) = o(1) + size(1) /\ o(3) = o(2) + size(2)
          /\ size(1) \in {1, 4} /\ size(2) \in {1, 4} /\ o(1) \in Nat
      BY <1>1, <1>2, <1>3, <3>1
    <3>3. \A i \in 1 .. n, j \in 1 .. n + 1 : i < j => (i = 1 \/ i = 2) /\ (j = 2 \/ j = 3)
      BY <2>3
    <3> QED BY <3>2, <3>3
  <2>4. CASE n = 3
    <3>1. /\ 1 \in 1 .. n /\ 2 \in 1 .. n /\ 3 \in 1 .. n /\ 1 \in 1 .. n + 1
      BY <2>4
    <3>2. /\ o(2) = o(1) + size(1) /\ o(3) = o(2) + size(2) /\ o(4) = o(3) + size(3)
          /\ size(1) \in {1, 4} /\ size(2) \in {1, 4} /\ size(3) \in {1, 4} /\ o(1) \in Nat
      BY <1>1, <1>2, <1>3, <3>1
    <3>3. \A i \in 1 .. n, j \in 1 .. n + 1 :
             i < j => (i = 1 \/ i = 2 \/ i = 3) /\ (j = 2 \/ j = 3 \/ j = 4)
      BY <2>4
    <3> QED BY <3>2, <3>3
  <2> QED BY <1>1, <2>1, <2>2, <2>3, <2>4
<1>5. \A i \in 1 .. n : i \in 1 .. n + 1 /\ n + 1 \in 1 .. n + 1 /\ i < n + 1
  BY <1>1
<1>6. \A i \in 1 .. n : o(i) + size(i) <= HeaderLength(type)
  BY <1>2, <1>4, <1>5
<1>7. \A i, j \in 1 .. n : i < j => o(i) + size(i) <= o(j)
  BY <1>4, <1>5
<1> QED BY <1>1, <1>6, <1>7 DEF o, size

-----------------------------------------------------------------------------
(* The header of a message.                                                *)

\* The length of the i-th property in the order of the header.
LengthAt(m, i) == Len(m.property[Ordered(m.type)[i]])

\* What a well formed message has.
LEMMA MessageFacts ==
    ASSUME NEW m, IsMessage(m)
    PROVE  /\ m = [type |-> m.type, property |-> m.property]
           /\ m.type \in ToSet(MessageTypesEnum)
           /\ m.property = [p \in ToSet(Properties(m.type)) |-> m.property[p]]
           /\ \A p \in ToSet(Properties(m.type)) :
                 /\ m.property[p] \in Seq(Bytes)
                 /\ Len(m.property[p]) \in Nat \ {0}
                 /\ Len(m.property[p]) < Base * Base * Base * Base
<1>1. ASSUME NEW p \in ToSet(Properties(m.type))
      PROVE  /\ m.property[p] \in Seq(Bytes)
             /\ Len(m.property[p]) \in Nat \ {0}
  <2>1. m.property[p] \in Seq(Bytes) /\ m.property[p] # << >>
    BY DEF IsMessage
  <2> QED BY <2>1, LenProperties, EmptySeq
<1>2. \A p \in ToSet(Properties(m.type)) : Len(m.property[p]) < Base * Base * Base * Base
  BY DEF IsMessage
<1>3. m.property = [p \in ToSet(Properties(m.type)) |-> m.property[p]]
  BY DEF IsMessage
<1> QED BY <1>1, <1>2, <1>3 DEF IsMessage

\* The lengths that go into the header.
LEMMA LengthsOf ==
    ASSUME NEW m, IsMessage(m)
    PROVE  /\ DOMAIN Lengths(m) = DOMAIN Ordered(m.type)
           /\ \A i \in DOMAIN Ordered(m.type) :
                 /\ LengthAt(m, i) \in Nat \ {0}
                 /\ LengthAt(m, i) < Base * Base * Base * Base
                 /\ Lengths(m)[i] = ToBytes(LengthAt(m, i))
                 /\ Lengths(m)[i] \in Seq(Bytes)
                 /\ Len(Lengths(m)[i]) \in 1 .. 4
                 /\ DOMAIN Lengths(m)[i] = 1 .. Len(Lengths(m)[i])
<1>1. \A i \in DOMAIN Ordered(m.type) : Ordered(m.type)[i] \in ToSet(Properties(m.type))
  BY Layouts DEF ToSet
<1>2. \A i \in DOMAIN Ordered(m.type) :
         LengthAt(m, i) \in Nat \ {0} /\ LengthAt(m, i) < Base * Base * Base * Base
  BY <1>1, MessageFacts DEF LengthAt
<1>3. /\ DOMAIN Lengths(m) = DOMAIN Ordered(m.type)
      /\ \A i \in DOMAIN Ordered(m.type) : Lengths(m)[i] = ToBytes(LengthAt(m, i))
  BY DEF Lengths, LengthAt
<1>4. \A i \in DOMAIN Ordered(m.type) :
         Lengths(m)[i] \in Seq(Bytes) /\ Len(Lengths(m)[i]) \in 1 .. 4
  BY <1>2, <1>3, NumberToBytes
<1>5. \A i \in DOMAIN Ordered(m.type) : DOMAIN Lengths(m)[i] = 1 .. Len(Lengths(m)[i])
  BY <1>4, LenProperties
<1> QED BY <1>2, <1>3, <1>4, <1>5

Writes(m, i, at) == at - Offset(m.type, i) \in DOMAIN Lengths(m)[i]

Writer(m, at) == CHOOSE i \in DOMAIN Ordered(m.type) :
                     /\ Writes(m, i, at)
                     /\ \A j \in DOMAIN Ordered(m.type) : Writes(m, j, at) => j <= i

\* The header, with a name for who writes a place.
LEMMA HeaderUnfolds ==
    ASSUME NEW m
    PROVE  HeaderBytes(m) = [at \in 1 .. HeaderLength(m.type) |->
              CASE at = 1 -> HeaderLength(m.type)
                [] at = 2 -> MessageType(m.type)
                [] OTHER  -> IF \E i \in DOMAIN Ordered(m.type) : Writes(m, i, at)
                             THEN Lengths(m)[Writer(m, at)][at - Offset(m.type, Writer(m, at))]
                             ELSE 0]
BY DEF HeaderBytes, Writes, Writer

\* One of the properties is the last that is written to a place.
LEMMA WriterOf ==
    ASSUME NEW m, NEW at, \E i \in DOMAIN Ordered(m.type) : Writes(m, i, at)
    PROVE  Writer(m, at) \in DOMAIN Ordered(m.type) /\ Writes(m, Writer(m, at), at)
<1> DEFINE T == {i \in DOMAIN Ordered(m.type) : Writes(m, i, at)}
<1>1. T # {} /\ T \subseteq 1 .. 3
  BY Layouts, LenProperties
<1>2. Max(T) \in T /\ \A y \in T : y <= Max(T)
  BY <1>1, MaxOf
<1>3. \E i \in DOMAIN Ordered(m.type) :
         /\ Writes(m, i, at)
         /\ \A j \in DOMAIN Ordered(m.type) : Writes(m, j, at) => j <= i
  BY <1>2
<1> QED BY <1>3 DEF Writer

\* The first byte is the length of the header, the second the type.
LEMMA HeaderOf ==
    ASSUME NEW m, IsMessage(m)
    PROVE  /\ HeaderBytes(m) \in Seq(Bytes) /\ Len(HeaderBytes(m)) = HeaderLength(m.type)
           /\ HeaderBytes(m)[1] = HeaderLength(m.type)
           /\ HeaderBytes(m)[2] + 1 \in DOMAIN MessageTypesEnum
           /\ MessageTypesEnum[HeaderBytes(m)[2] + 1] = m.type
<1> DEFINE n == HeaderLength(m.type)
           written(at) == Lengths(m)[Writer(m, at)][at - Offset(m.type, Writer(m, at))]
<1>1. n \in 2 .. 8
  BY Offsets
<1>2. \E i \in DOMAIN MessageTypesEnum : MessageTypesEnum[i] = m.type
  <2>1. m.type \in ToSet(MessageTypesEnum)
    BY MessageFacts
  <2> QED BY <2>1 DEF ToSet
<1>3. /\ MessageType(m.type) + 1 \in DOMAIN MessageTypesEnum
      /\ MessageTypesEnum[MessageType(m.type) + 1] = m.type
      /\ MessageType(m.type) \in 0 .. 10
  <2> DEFINE i == CHOOSE i \in DOMAIN MessageTypesEnum : MessageTypesEnum[i] = m.type
  <2>1. i \in DOMAIN MessageTypesEnum /\ MessageTypesEnum[i] = m.type
    BY <1>2
  <2>2. DOMAIN MessageTypesEnum = 1 .. 11
    BY DEF MessageTypesEnum
  <2>3. MessageType(m.type) = i - 1
    BY DEF MessageType
  <2> HIDE DEF i
  <2>4. i \in 1 .. 11 /\ (i - 1) + 1 = i /\ i - 1 \in 0 .. 10
    BY <2>1, <2>2
  <2> QED BY <2>1, <2>3, <2>4
<1>4. ASSUME NEW at \in 1 .. n, \E i \in DOMAIN Ordered(m.type) : Writes(m, i, at)
      PROVE  written(at) \in Bytes
  <2> DEFINE i == Writer(m, at)
  <2>1. i \in DOMAIN Ordered(m.type) /\ at - Offset(m.type, i) \in DOMAIN Lengths(m)[i]
    BY <1>4, WriterOf DEF Writes
  <2> HIDE DEF i
  <2>2. Lengths(m)[i] \in Seq(Bytes)
    BY <2>1, LengthsOf
  <2>3. Lengths(m)[i][at - Offset(m.type, i)] \in Bytes
    BY <2>1, <2>2
  <2> QED BY <2>3 DEF i
<1>5. n \in Bytes /\ MessageType(m.type) \in Bytes /\ 0 \in Bytes
  BY <1>1, <1>3, BaseFacts
<1>6. /\ HeaderBytes(m) = [at \in 1 .. n |-> HeaderBytes(m)[at]]
      /\ HeaderBytes(m)[1] = n /\ HeaderBytes(m)[2] = MessageType(m.type)
  BY <1>1, HeaderUnfolds
<1>7. ASSUME NEW at \in 1 .. n PROVE HeaderBytes(m)[at] \in Bytes
  <2>1. CASE at = 1 \/ at = 2
    BY <1>5, <1>6, <2>1
  <2>2. CASE at # 1 /\ at # 2
    <3>1. HeaderBytes(m)[at] = IF \E i \in DOMAIN Ordered(m.type) : Writes(m, i, at)
                               THEN written(at) ELSE 0
      BY <2>2, HeaderUnfolds
    <3> QED BY <1>4, <1>5, <3>1
  <2> QED BY <2>1, <2>2
<1>8. HeaderBytes(m) \in Seq(Bytes) /\ Len(HeaderBytes(m)) = n
  <2>1. n \in Nat /\ HeaderBytes(m) \in [1 .. n -> Bytes]
    BY <1>1, <1>6, <1>7
  <2> HIDE DEF n
  <2> QED BY <2>1
<1> QED BY <1>3, <1>6, <1>8

\* The bytes of each item are those of the length of its property.
LEMMA ItemBytes ==
    ASSUME NEW m, IsMessage(m), Fits(m),
           NEW i \in DOMAIN Ordered(m.type), NEW j \in 1 .. HeaderItem(Ordered(m.type)[i]).size
    PROVE  /\ Offset(m.type, i) + j \in 1 .. HeaderLength(m.type)
           /\ HeaderBytes(m)[Offset(m.type, i) + j] = FourBytes(LengthAt(m, i))[j]
<1> DEFINE at == Offset(m.type, i) + j
           size(k) == HeaderItem(Ordered(m.type)[k]).size
           begin(k) == Offset(m.type, k)
           len(k) == Len(Lengths(m)[k])
           items == DOMAIN Ordered(m.type)
<1>1. /\ items = 1 .. Len(Ordered(m.type)) /\ Len(Ordered(m.type)) \in 0 .. 3
      /\ \A k \in items : size(k) \in {1, 4}
  BY Layouts, LenProperties DEF ToSet
<1>2. \A k \in items : begin(k) \in 2 .. 8
  <2>1. \A k \in items : k \in 1 .. Len(Ordered(m.type)) + 1
    BY <1>1
  <2> QED BY <2>1, Offsets
<1>3. \A k \in items : len(k) \in 1 .. 4 /\ len(k) <= size(k) /\ DOMAIN Lengths(m)[k] = 1 .. len(k)
  BY LengthsOf DEF Fits
<1>4. /\ \A k, l \in items : k < l => begin(k) + size(k) <= begin(l)
      /\ begin(i) + size(i) <= HeaderLength(m.type)
  BY OffsetsApart
<1>5. \A k \in items : Writes(m, k, at) <=> at - begin(k) \in 1 .. len(k)
  BY <1>3 DEF Writes
<1>6. HeaderLength(m.type) \in 2 .. 8 /\ items \subseteq Nat
  BY <1>1, Offsets
<1>6a. i \in items /\ j \in 1 .. size(i) /\ at = begin(i) + j
  OBVIOUS
<1> HIDE DEF items, begin, len, size, at
<1>7. at \in 1 .. HeaderLength(m.type) /\ at # 1 /\ at # 2 /\ at - begin(i) = j
  <2>1. begin(i) \in 2 .. 8 /\ size(i) \in {1, 4}
    BY <1>1, <1>2, <1>6a
  <2>2. begin(i) + size(i) <= HeaderLength(m.type)
    BY <1>4
  <2> QED BY <1>6, <1>6a, <2>1, <2>2
<1>8. ASSUME NEW k \in items, Writes(m, k, at) PROVE k = i
  <2>1. at - begin(k) \in 1 .. len(k) /\ len(k) <= size(k) /\ size(k) \in {1, 4}
        /\ begin(k) \in 2 .. 8 /\ begin(i) \in 2 .. 8 /\ size(i) \in {1, 4} /\ len(k) \in 1 .. 4
    BY <1>1, <1>2, <1>3, <1>5, <1>8 DEF items
  <2>3. /\ at > begin(k) /\ at <= begin(k) + size(k)
        /\ at > begin(i) /\ at <= begin(i) + size(i)
    BY <1>6a, <2>1
  <2>4. ~(k < i)
    <3>1. k < i => begin(k) + size(k) <= begin(i)
      BY <1>4, <1>8, <1>6a
    <3> QED BY <2>1, <2>3, <3>1, <1>6a
  <2>5. ~(i < k)
    <3>1. i < k => begin(i) + size(i) <= begin(k)
      BY <1>4, <1>8, <1>6a
    <3> QED BY <2>1, <2>3, <3>1, <1>6a
  <2>6. k \in Nat /\ i \in Nat
    BY <1>6, <1>8, <1>6a
  <2> QED BY <2>4, <2>5, <2>6
<1>9. HeaderBytes(m)[at] = IF \E k \in items : Writes(m, k, at)
                          THEN Lengths(m)[Writer(m, at)][at - begin(Writer(m, at))]
                          ELSE 0
  BY <1>7, HeaderUnfolds DEF items, begin
<1>10. /\ LengthAt(m, i) \in Nat \ {0} /\ LengthAt(m, i) < Base * Base * Base * Base
       /\ Lengths(m)[i] = ToBytes(LengthAt(m, i))
  BY LengthsOf
<1>11. j \in 1 .. 4
  BY <1>1 DEF items, size
<1>12. ASSUME j <= len(i) PROVE HeaderBytes(m)[at] = FourBytes(LengthAt(m, i))[j]
  <2>1. Writes(m, i, at)
    BY <1>3, <1>5, <1>7, <1>11, <1>12 DEF items
  <2>2. \E k \in DOMAIN Ordered(m.type) : Writes(m, k, at)
    BY <2>1
  <2>3. Writer(m, at) = i
    BY <1>8, <2>2, WriterOf DEF items
  <2>4. HeaderBytes(m)[at] = Lengths(m)[i][j]
    BY <1>7, <1>9, <2>2, <2>3 DEF items
  <2>5. Lengths(m)[i][j] = FourBytes(LengthAt(m, i))[j]
    <3>1. j \in 1 .. Len(ToBytes(LengthAt(m, i)))
      BY <1>3, <1>10, <1>11, <1>12 DEF len, items
    <3> QED BY <1>10, <3>1, NumberToBytes
  <2> QED BY <1>7, <2>4, <2>5
<1>13. ASSUME j > len(i) PROVE HeaderBytes(m)[at] = FourBytes(LengthAt(m, i))[j]
  <2>1. ~Writes(m, i, at)
    BY <1>3, <1>5, <1>7, <1>11, <1>13 DEF items
  <2>2. HeaderBytes(m)[at] = 0
    BY <1>8, <1>9, <2>1
  <2>3. FourBytes(LengthAt(m, i))[j] = 0
    <3>1. j > Len(ToBytes(LengthAt(m, i)))
      BY <1>10, <1>13 DEF len
    <3> QED BY <1>10, <1>11, <3>1, NumberToBytes
  <2> QED BY <1>7, <2>2, <2>3
<1>14. len(i) \in 1 .. 4
  BY <1>3 DEF items
<1>15. HeaderBytes(m)[at] = FourBytes(LengthAt(m, i))[j]
  BY <1>11, <1>12, <1>13, <1>14
<1> QED BY <1>7, <1>15 DEF at

-----------------------------------------------------------------------------
(* The lengths that are read in a header.                                  *)

Place(type, p) == CHOOSE i \in DOMAIN Ordered(type) : Ordered(type)[i] = p

Item(bytes, type, p) ==
    SubSeq(bytes, Offset(type, Place(type, p)) + 1,
           Offset(type, Place(type, p)) + HeaderItem(p).size)

\* The length of a property is the number in its item.
LEMMA LengthUnfolds ==
    ASSUME NEW bytes, NEW type, NEW p
    PROVE  LengthOf(bytes, type, p) = FromBytesToInt(Item(bytes, type, p))
BY DEF LengthOf, Item, Place

\* Every property has a place in the header.
LEMMA PlaceOf ==
    ASSUME NEW type, NEW p \in ToSet(Properties(type))
    PROVE  /\ Place(type, p) \in DOMAIN Ordered(type)
           /\ Ordered(type)[Place(type, p)] = p
<1>1. p \in ToSet(Ordered(type))
  BY Layouts
<1>2. \E i \in DOMAIN Ordered(type) : Ordered(type)[i] = p
  BY <1>1 DEF ToSet
<1> QED BY <1>2 DEF Place

\* The item of a property is in the header.
LEMMA ItemOf ==
    ASSUME NEW bytes \in Seq(Bytes), NEW type, NEW p \in ToSet(Properties(type)),
           HeaderLength(type) <= Len(bytes)
    PROVE  /\ Item(bytes, type, p) \in Seq(Bytes)
           /\ Len(Item(bytes, type, p)) = HeaderItem(p).size
           /\ \A j \in 1 .. HeaderItem(p).size :
                 Item(bytes, type, p)[j] = bytes[Offset(type, Place(type, p)) + j]
<1> DEFINE b == Offset(type, Place(type, p))
           size == HeaderItem(p).size
           h == HeaderLength(type)
<1>1. size \in {1, 4}
  BY Layouts
<1>2. b \in 2 .. 8
  <2>1. Place(type, p) \in 1 .. Len(Ordered(type)) + 1
    BY PlaceOf, Layouts, LenProperties
  <2> QED BY <2>1, Offsets
<1>3. b + size <= h
  BY PlaceOf, OffsetsApart
<1>4. Len(bytes) \in Nat /\ h \in 2 .. 8 /\ h <= Len(bytes)
  BY Offsets, LenProperties
<1>5. Item(bytes, type, p) = SubSeq(bytes, b + 1, b + size)
  BY DEF Item
<1> HIDE DEF b, size, h
<1>6. \A k \in b + 1 .. b + size : bytes[k] \in Bytes
  <2> SUFFICES ASSUME NEW k \in b + 1 .. b + size PROVE bytes[k] \in Bytes
    OBVIOUS
  <2>1. k \in 1 .. Len(bytes)
    BY <1>1, <1>2, <1>3, <1>4
  <2> QED BY <2>1, ElementOfSeq
<1>7. b + 1 \in Int /\ b + size \in Int /\ b + 1 <= b + size /\ (b + size) - (b + 1) + 1 = size
  BY <1>1, <1>2
<1>8. /\ SubSeq(bytes, b + 1, b + size) \in Seq(Bytes)
      /\ Len(SubSeq(bytes, b + 1, b + size)) = size
      /\ \A j \in 1 .. size : SubSeq(bytes, b + 1, b + size)[j] = bytes[b + 1 + j - 1]
  BY <1>6, <1>7, SubSeqProperties
<1>9. \A j \in 1 .. size : b + 1 + j - 1 = b + j
  BY <1>1, <1>2
<1> QED BY <1>5, <1>8, <1>9 DEF b, size

\* A header that is there, of whatever bytes, has a number for each property.
LEMMA LengthTyped ==
    ASSUME NEW bytes \in Seq(Bytes), NEW type, NEW p \in ToSet(Properties(type)),
           HeaderLength(type) <= Len(bytes)
    PROVE  LengthOf(bytes, type, p) \in Nat
BY ItemOf, LengthUnfolds, NumberRead

\* What has the header of a message has the lengths of its properties.
HasHeader(bytes, m) ==
    /\ bytes \in Seq(Bytes)
    /\ HeaderLength(m.type) <= Len(bytes)
    /\ \A k \in 1 .. HeaderLength(m.type) : bytes[k] = HeaderBytes(m)[k]

LEMMA LengthRead ==
    ASSUME NEW m, IsMessage(m), Fits(m), NEW bytes, HasHeader(bytes, m),
           NEW p \in ToSet(Properties(m.type))
    PROVE  LengthOf(bytes, m.type, p) = Len(m.property[p])
<1> DEFINE i == Place(m.type, p)
           item == Item(bytes, m.type, p)
           n == Len(m.property[p])
<1>1. i \in DOMAIN Ordered(m.type) /\ Ordered(m.type)[i] = p
  BY PlaceOf
<1>2. n = LengthAt(m, i) /\ n \in Nat \ {0} /\ n < Base * Base * Base * Base
  BY <1>1, MessageFacts DEF LengthAt
<1>3. /\ item \in Seq(Bytes) /\ Len(item) = HeaderItem(p).size
      /\ \A j \in 1 .. HeaderItem(p).size : item[j] = bytes[Offset(m.type, i) + j]
  BY ItemOf DEF HasHeader
<1>4. ASSUME NEW j \in 1 .. HeaderItem(p).size
      PROVE  bytes[Offset(m.type, i) + j] = FourBytes(n)[j]
  <2>1. /\ Offset(m.type, i) + j \in 1 .. HeaderLength(m.type)
        /\ HeaderBytes(m)[Offset(m.type, i) + j] = FourBytes(LengthAt(m, i))[j]
    BY <1>1, ItemBytes
  <2> QED BY <1>2, <2>1 DEF HasHeader
<1>5. /\ Len(ToBytes(n)) <= HeaderItem(p).size
  BY <1>1, <1>2, LengthsOf DEF Fits
<1>6. HeaderItem(p).size \in 1 .. 4
  BY Layouts
<1> HIDE DEF i, item, n
<1>7. FromBytesToInt(item) = n
  BY <1>2, <1>3, <1>4, <1>5, <1>6, BytesToNumber
<1> QED BY <1>7, LengthUnfolds DEF item, n

-----------------------------------------------------------------------------
(* The body of a message.                                                  *)

\* The i-th of the properties in the order of the body.
ValueOf(m, i) == m.property[Properties(m.type)[i]]

\* Where the i-th property of a message ends.
EndOf(m, i) ==
    Partial(HeaderLength(m.type),
            [j \in 1 .. Len(Properties(m.type)) |-> Len(ValueOf(m, j))], i)

\* The properties of a message, by their place in the body.
LEMMA ValuesOf ==
    ASSUME NEW m, IsMessage(m)
    PROVE  /\ Len(Properties(m.type)) \in 0 .. 3
           /\ DOMAIN Properties(m.type) = 1 .. Len(Properties(m.type))
           /\ \A i \in 1 .. Len(Properties(m.type)) :
                 /\ Properties(m.type)[i] \in ToSet(Properties(m.type))
                 /\ ValueOf(m, i) \in Seq(Bytes)
                 /\ Len(ValueOf(m, i)) \in Nat \ {0}
<1>1. Len(Properties(m.type)) \in 0 .. 3 /\ DOMAIN Properties(m.type) = 1 .. Len(Properties(m.type))
  BY Layouts, LenProperties
<1>2. \A i \in 1 .. Len(Properties(m.type)) : Properties(m.type)[i] \in ToSet(Properties(m.type))
  BY <1>1 DEF ToSet
<1>3. \A p \in ToSet(Properties(m.type)) :
         m.property[p] \in Seq(Bytes) /\ Len(m.property[p]) \in Nat \ {0}
  BY MessageFacts
<1> QED BY <1>1, <1>2, <1>3 DEF ValueOf

\* The ends of the properties grow, from that of the header to that of the message.
LEMMA EndsOf ==
    ASSUME NEW m, IsMessage(m)
    PROVE  /\ EndOf(m, 0) = HeaderLength(m.type)
           /\ \A i \in 1 .. Len(Properties(m.type)) :
                 EndOf(m, i) = EndOf(m, i - 1) + Len(ValueOf(m, i))
           /\ \A i \in 0 .. Len(Properties(m.type)) :
                 /\ EndOf(m, i) \in Nat /\ EndOf(m, i) >= HeaderLength(m.type)
                 /\ EndOf(m, i) <= EndOf(m, Len(Properties(m.type)))
<1> DEFINE n == Len(Properties(m.type))
           w == [j \in 1 .. n |-> Len(ValueOf(m, j))]
           h == HeaderLength(m.type)
           e(i) == Partial(h, w, i)
<1>1. n \in 0 .. 3 /\ h \in 2 .. 8 /\ \A i \in 1 .. n : w[i] \in Nat \ {0}
  BY ValuesOf, Offsets
<1>2. \A i : EndOf(m, i) = e(i)
  BY DEF EndOf
<1>3. \A i \in 1 .. n : w[i] = Len(ValueOf(m, i))
  OBVIOUS
<1> HIDE DEF n, w, h
<1>4. e(0) = h
  BY PartialAt
<1>5. \A i \in 1 .. n : e(i) = e(i - 1) + w[i]
  <2>1. \A i \in 1 .. n : i \in 1 .. 3
    BY <1>1
  <2> QED BY <2>1, PartialNext
<1> HIDE DEF e
<1>6. \A i \in 0 .. n : e(i) \in Nat /\ e(i) >= h /\ e(i) <= e(n)
  <2>1. 1 - 1 = 0 /\ 2 - 1 = 1 /\ 3 - 1 = 2
    OBVIOUS
  <2>2. n >= 1 => e(1) = e(0) + w[1] /\ w[1] \in Nat
    <3>1. n >= 1 => 1 \in 1 .. n
      BY <1>1
    <3> QED BY <1>1, <1>5, <2>1, <3>1
  <2>3. n >= 2 => e(2) = e(1) + w[2] /\ w[2] \in Nat
    <3>1. n >= 2 => 2 \in 1 .. n
      BY <1>1
    <3> QED BY <1>1, <1>5, <2>1, <3>1
  <2>4. n >= 3 => e(3) = e(2) + w[3] /\ w[3] \in Nat
    <3>1. n >= 3 => 3 \in 1 .. n
      BY <1>1
    <3> QED BY <1>1, <1>5, <2>1, <3>1
  <2>5. h \in Nat
    BY <1>1
  <2>6. CASE n = 0
    <3>1. \A i \in 0 .. n : i = 0
      BY <2>6
    <3> QED BY <1>4, <2>5, <2>6, <3>1
  <2>7. CASE n = 1
    <3>1. \A i \in 0 .. n : i = 0 \/ i = 1
      BY <2>7
    <3> QED BY <1>4, <2>2, <2>5, <2>7, <3>1
  <2>8. CASE n = 2
    <3>1. \A i \in 0 .. n : i = 0 \/ i = 1 \/ i = 2
      BY <2>8
    <3> QED BY <1>4, <2>2, <2>3, <2>5, <2>8, <3>1
  <2>9. CASE n = 3
    <3>1. \A i \in 0 .. n : i = 0 \/ i = 1 \/ i = 2 \/ i = 3
      BY <2>9
    <3> QED BY <1>4, <2>2, <2>3, <2>4, <2>5, <2>9, <3>1
  <2> QED BY <1>1, <2>6, <2>7, <2>8, <2>9
<1> QED BY <1>2, <1>3, <1>4, <1>5, <1>6 DEF n, h

\* What the recursive function of FlattenSeq satisfies.
Joining(h, seqs) ==
    h = [i \in 1 .. Len(seqs) |-> IF i = 1 THEN seqs[i] ELSE h[i - 1] \o seqs[i]]

\* FlattenSeq is the value of a function that satisfies the equation, if there is one.
LEMMA FlattenUnfolds ==
    ASSUME NEW seqs, Len(seqs) # 0, \E h : Joining(h, seqs)
    PROVE  \E h : Joining(h, seqs) /\ FlattenSeq(seqs) = h[Len(seqs)]
BY DEF FlattenSeq, Joining

\* Up to three sequences, one after the other.
LEMMA FlattenOf ==
    ASSUME NEW seqs, Len(seqs) \in 0 .. 3
    PROVE  /\ Len(seqs) = 0 => FlattenSeq(seqs) = seqs
           /\ Len(seqs) = 1 => FlattenSeq(seqs) = seqs[1]
           /\ Len(seqs) = 2 => FlattenSeq(seqs) = seqs[1] \o seqs[2]
           /\ Len(seqs) = 3 => FlattenSeq(seqs) = (seqs[1] \o seqs[2]) \o seqs[3]
<1> DEFINE n == Len(seqs)
           j1 == seqs[1]
           j2 == j1 \o seqs[2]
           j3 == j2 \o seqs[3]
           h == [i \in 1 .. n |-> IF i = 1 THEN j1 ELSE IF i = 2 THEN j2 ELSE j3]
<1>1. n = 0 => FlattenSeq(seqs) = seqs
  BY DEF FlattenSeq
<1>2. 2 - 1 = 1 /\ 3 - 1 = 2 /\ 2 # 1 /\ 3 # 1
  OBVIOUS
<1>3. j1 = seqs[1] /\ j2 = j1 \o seqs[2] /\ j3 = j2 \o seqs[3]
  OBVIOUS
<1>4. n \in 0 .. 3
  OBVIOUS
<1> HIDE DEF n, j1, j2, j3
<1>5. \A i \in 1 .. n : (i = 1 \/ i = 2 \/ i = 3) /\ (i # 1 => i - 1 \in 1 .. n)
  BY <1>4
<1>5a. \A i \in 1 .. n : (i = 1 => h[i] = j1) /\ (i = 2 => h[i] = j2) /\ (i = 3 => h[i] = j3)
  BY <1>4
<1>6. ASSUME NEW i \in 1 .. n
      PROVE  h[i] = IF i = 1 THEN seqs[i] ELSE h[i - 1] \o seqs[i]
  <2> HIDE DEF h
  <2>1. CASE i = 1
    <3>1. h[i] = seqs[i]
      BY <1>3, <1>5a, <2>1
    <3> QED BY <2>1, <3>1
  <2>2. CASE i = 2
    <3>1. i - 1 = 1 /\ i - 1 \in 1 .. n /\ i # 1
      BY <1>2, <1>5, <2>2
    <3>2. h[i - 1] = j1 /\ h[i] = j2
      BY <1>5a, <2>2, <3>1
    <3>3. h[i] = h[i - 1] \o seqs[i]
      BY <1>3, <2>2, <3>2, Zenon
    <3> QED BY <3>1, <3>3, Zenon
  <2>3. CASE i = 3
    <3>1. i - 1 = 2 /\ i - 1 \in 1 .. n /\ i # 1
      BY <1>2, <1>5, <2>3
    <3>2. h[i - 1] = j2 /\ h[i] = j3
      BY <1>5a, <2>3, <3>1
    <3>3. h[i] = h[i - 1] \o seqs[i]
      BY <1>3, <2>3, <3>2, Zenon
    <3> QED BY <3>1, <3>3, Zenon
  <2> QED BY <1>5, <2>1, <2>2, <2>3
<1>7. h = [i \in 1 .. n |-> h[i]]
  OBVIOUS
<1> HIDE DEF h
<1>8. Joining(h, seqs)
  BY <1>6, <1>7 DEF Joining, n
<1>9. ASSUME NEW f, Joining(f, seqs), FlattenSeq(seqs) = f[n]
      PROVE  /\ n = 1 => FlattenSeq(seqs) = j1
             /\ n = 2 => FlattenSeq(seqs) = j2
             /\ n = 3 => FlattenSeq(seqs) = j3
  <2>1. \A i \in 1 .. n : f[i] = IF i = 1 THEN seqs[i] ELSE f[i - 1] \o seqs[i]
    BY <1>9 DEF Joining, n
  <2>2. /\ n >= 1 => 1 \in 1 .. n
        /\ n >= 2 => 1 \in 1 .. n /\ 2 \in 1 .. n
        /\ n >= 3 => 1 \in 1 .. n /\ 2 \in 1 .. n /\ 3 \in 1 .. n
    BY <1>4
  <2>3. n >= 1 => f[1] = j1
    BY <1>3, <2>1, <2>2
  <2>4. n >= 2 => f[2] = j2
    <3>1. n >= 2 => f[2] = f[1] \o seqs[2]
      BY <1>2, <2>1, <2>2, Zenon
    <3>2. n >= 2 => f[1] = j1
      BY <1>4, <2>3
    <3> QED BY <1>3, <3>1, <3>2, Zenon
  <2>5. n >= 3 => f[3] = j3
    <3>1. n >= 3 => f[3] = f[2] \o seqs[3]
      BY <1>2, <2>1, <2>2, Zenon
    <3>2. n >= 3 => f[2] = j2
      BY <1>4, <2>4
    <3> QED BY <1>3, <3>1, <3>2, Zenon
  <2> QED BY <1>4, <1>9, <2>3, <2>4, <2>5
<1>10. n # 0 => \E f : Joining(f, seqs) /\ FlattenSeq(seqs) = f[n]
  BY <1>8, FlattenUnfolds DEF n
<1>11. /\ n = 1 => FlattenSeq(seqs) = j1
       /\ n = 2 => FlattenSeq(seqs) = j2
       /\ n = 3 => FlattenSeq(seqs) = j3
  BY <1>9, <1>10
<1> QED BY <1>1, <1>3, <1>11 DEF n

LEMMA Associative ==
    \A s, t, u \in Seq(Bytes) : (s \o t) \o u = s \o (t \o u)
BY ConcatAssociative

LEMMA Joined ==
    ASSUME NEW S, NEW a \in Seq(S), NEW b \in Seq(S)
    PROVE  /\ a \o b \in Seq(S) /\ Len(a \o b) = Len(a) + Len(b)
           /\ \A k \in 1 .. Len(a) : (a \o b)[k] = a[k]
           /\ \A k \in 1 .. Len(b) : (a \o b)[Len(a) + k] = b[k]
<1>1. Len(a) \in Nat /\ Len(b) \in Nat
  BY LenProperties
<1>2. /\ \A k \in 1 .. Len(a) : k \in 1 .. Len(a) + Len(b) /\ k <= Len(a)
      /\ \A k \in 1 .. Len(b) :
            /\ Len(a) + k \in 1 .. Len(a) + Len(b)
            /\ ~(Len(a) + k <= Len(a)) /\ (Len(a) + k) - Len(a) = k
  BY <1>1
<1> QED BY <1>2, ConcatProperties

LEMMA JoinedBytes ==
    \A a, b \in Seq(Bytes) :
        /\ a \o b \in Seq(Bytes) /\ Len(a \o b) = Len(a) + Len(b)
        /\ \A k \in 1 .. Len(a) : (a \o b)[k] = a[k]
        /\ \A k \in 1 .. Len(b) : (a \o b)[Len(a) + k] = b[k]
BY Joined

\* The bytes of a message are its header and its properties, one after the other.
LEMMA BytesOf ==
    ASSUME NEW m, IsMessage(m)
    PROVE  /\ GetBytes(m) \in Seq(Bytes)
           /\ Len(GetBytes(m)) = EndOf(m, Len(Properties(m.type)))
           /\ \A k \in 1 .. HeaderLength(m.type) : GetBytes(m)[k] = HeaderBytes(m)[k]
           /\ \A i \in 1 .. Len(Properties(m.type)) : \A j \in 1 .. Len(ValueOf(m, i)) :
                 GetBytes(m)[EndOf(m, i - 1) + j] = ValueOf(m, i)[j]
<1> DEFINE n == Len(Properties(m.type))
           v == [i \in DOMAIN Properties(m.type) |-> m.property[Properties(m.type)[i]]]
           h == HeaderBytes(m)
           e(i) == EndOf(m, i)
           g1 == h \o v[1]
           g2 == g1 \o v[2]
           g3 == g2 \o v[3]
<1>1. /\ n \in 0 .. 3 /\ DOMAIN Properties(m.type) = 1 .. n
      /\ \A i \in 1 .. n : v[i] = ValueOf(m, i) /\ v[i] \in Seq(Bytes)
                          /\ Len(v[i]) = Len(ValueOf(m, i))
  BY ValuesOf DEF ValueOf
<1>2. Len(v) = n
  BY <1>1
<1>3. h \in Seq(Bytes) /\ Len(h) = HeaderLength(m.type)
  BY HeaderOf
<1>4. e(0) = Len(h) /\ \A i \in 1 .. n : e(i) = e(i - 1) + Len(v[i])
  BY <1>1, <1>3, EndsOf
<1>5. GetBytes(m) = h \o FlattenSeq(v)
  BY DEF GetBytes, BodyBytes
<1> DEFINE G(g, k) == /\ g \in Seq(Bytes) /\ Len(g) = e(k)
                      /\ \A l \in 1 .. Len(h) : g[l] = h[l]
                      /\ \A i \in 1 .. k : \A j \in 1 .. Len(v[i]) : g[e(i - 1) + j] = v[i][j]
<1>6. n = 0 => v = << >>
  BY <1>1
<1> HIDE DEF v, h, e, n
<1>7. /\ n = 0 => GetBytes(m) = h
      /\ n = 1 => GetBytes(m) = g1
      /\ n = 2 => GetBytes(m) = g2
      /\ n = 3 => GetBytes(m) = g3
  <2>1. (n >= 1 => 1 \in 1 .. n) /\ (n >= 2 => 2 \in 1 .. n) /\ (n >= 3 => 3 \in 1 .. n)
    BY <1>1
  <2>2. /\ n >= 1 => v[1] \in Seq(Bytes)
        /\ n >= 2 => v[2] \in Seq(Bytes)
        /\ n >= 3 => v[3] \in Seq(Bytes)
    BY <1>1, <2>1
  <2>3. /\ n = 0 => FlattenSeq(v) = v
        /\ n = 1 => FlattenSeq(v) = v[1]
        /\ n = 2 => FlattenSeq(v) = v[1] \o v[2]
        /\ n = 3 => FlattenSeq(v) = (v[1] \o v[2]) \o v[3]
    <3>1. Len(v) \in 0 .. 3
      BY <1>1, <1>2
    <3> QED BY <1>2, <3>1, FlattenOf
  <2>4. ASSUME n = 0 PROVE GetBytes(m) = h
    <3>1. h \o << >> = h
      BY <1>3, ConcatEmptySeq
    <3> QED BY <1>5, <1>6, <2>3, <2>4, <3>1
  <2>5. ASSUME n = 1 PROVE GetBytes(m) = g1
    BY <1>5, <2>3, <2>5
  <2>6. ASSUME n = 2 PROVE GetBytes(m) = g2
    <3>1. v[1] \in Seq(Bytes) /\ v[2] \in Seq(Bytes)
      BY <2>2, <2>6
    <3>2. (h \o v[1]) \o v[2] = h \o (v[1] \o v[2])
      BY <1>3, <3>1, Associative, Zenon
    <3> QED BY <1>5, <2>3, <2>6, <3>2
  <2>7. ASSUME n = 3 PROVE GetBytes(m) = g3
    <3>1. v[1] \in Seq(Bytes) /\ v[2] \in Seq(Bytes) /\ v[3] \in Seq(Bytes)
      BY <2>2, <2>7
    <3>2. v[1] \o v[2] \in Seq(Bytes)
      BY <3>1, ConcatProperties
    <3>3. (h \o (v[1] \o v[2])) \o v[3] = h \o ((v[1] \o v[2]) \o v[3])
      BY <1>3, <3>1, <3>2, Associative, Zenon
    <3>4. (h \o v[1]) \o v[2] = h \o (v[1] \o v[2])
      BY <1>3, <3>1, Associative, Zenon
    <3> QED BY <1>5, <2>3, <2>7, <3>3, <3>4
  <2> HIDE DEF g1, g2, g3
  <2> QED BY <2>4, <2>5, <2>6, <2>7
<1>8. G(h, 0)
  BY <1>3, <1>4
<1>9. ASSUME NEW k \in 1 .. n, NEW g, G(g, k - 1) PROVE G(g \o v[k], k)
  <2>1. v[k] \in Seq(Bytes) /\ g \in Seq(Bytes) /\ Len(g) = e(k - 1) /\ e(k) = e(k - 1) + Len(v[k])
    BY <1>1, <1>4, <1>9
  <2>2. /\ g \o v[k] \in Seq(Bytes) /\ Len(g \o v[k]) = e(k)
        /\ \A l \in 1 .. e(k - 1) : (g \o v[k])[l] = g[l]
        /\ \A l \in 1 .. Len(v[k]) : (g \o v[k])[e(k - 1) + l] = v[k][l]
    <3> HIDE DEF G
    <3>1. /\ g \o v[k] \in Seq(Bytes) /\ Len(g \o v[k]) = Len(g) + Len(v[k])
          /\ \A l \in 1 .. Len(g) : (g \o v[k])[l] = g[l]
          /\ \A l \in 1 .. Len(v[k]) : (g \o v[k])[Len(g) + l] = v[k][l]
      <4>1. v[k] \in Seq(Bytes) /\ g \in Seq(Bytes)
        BY <2>1
      <4> QED BY <4>1, JoinedBytes, Zenon
    <3> QED BY <2>1, <3>1
  <2>3. /\ \A i \in 0 .. n : e(i) \in Nat /\ e(i) >= Len(h)
        /\ \A i \in 1 .. n : Len(v[i]) \in Nat
    BY <1>1, <1>3, EndsOf, LenProperties DEF e, n
  <2>4. \A l \in 1 .. Len(h) : l \in 1 .. e(k - 1)
    <3>1. k - 1 \in 0 .. n
      BY <1>1
    <3>2. Len(h) \in Nat /\ e(k - 1) \in Nat /\ e(k - 1) >= Len(h)
      BY <1>3, <2>3, <3>1, LenProperties
    <3> QED BY <3>2
  <2>5. ASSUME NEW i \in 1 .. k - 1, NEW j \in 1 .. Len(v[i]) PROVE e(i - 1) + j \in 1 .. e(k - 1)
    <3>1. i \in 1 .. n /\ i - 1 \in 0 .. n /\ i \in 0 .. n /\ k - 1 \in 0 .. n
      BY <1>1
    <3>2. e(i) = e(i - 1) + Len(v[i]) /\ e(i) \in Nat /\ e(i - 1) \in Nat /\ Len(v[i]) \in Nat
      BY <1>4, <2>3, <3>1
    <3>3. e(i) <= e(k - 1)
      <4>1. /\ n >= 1 => e(1) = e(0) + Len(v[1])
            /\ n >= 2 => e(2) = e(1) + Len(v[2])
            /\ n >= 3 => e(3) = e(2) + Len(v[3])
        <5>1. (n >= 1 => 1 \in 1 .. n) /\ (n >= 2 => 2 \in 1 .. n) /\ (n >= 3 => 3 \in 1 .. n)
          BY <1>1
        <5>2. 1 - 1 = 0 /\ 2 - 1 = 1 /\ 3 - 1 = 2
          OBVIOUS
        <5> QED BY <1>4, <5>1, <5>2
      <4>2. (i = k - 1) \/ (k = 3 /\ i = 1)
        BY <1>1
      <4>3. CASE i = k - 1
        <5>1. e(i) <= e(i)
          BY <3>2
        <5> QED BY <4>3, <5>1
      <4>4. CASE k = 3 /\ i = 1
        <5>1. n >= 2 /\ 2 \in 1 .. n /\ 3 - 1 = 2
          BY <1>1, <4>4
        <5>2. e(2) = e(1) + Len(v[2]) /\ Len(v[2]) \in Nat /\ e(1) \in Nat
          BY <2>3, <3>2, <4>1, <4>4, <5>1
        <5>3. e(1) <= e(2)
          BY <5>2
        <5>4. k - 1 = 2 /\ i = 1
          BY <4>4
        <5> QED BY <5>3, <5>4
      <4> QED BY <4>2, <4>3, <4>4
    <3>4. e(k - 1) \in Nat
      BY <2>3, <3>1
    <3> QED BY <3>2, <3>3, <3>4
  <2>6. \A i \in 1 .. k : i \in 1 .. k - 1 \/ i = k
    BY <1>1
  <2> HIDE DEF g1, g2, g3
  <2> QED BY <1>9, <2>1, <2>2, <2>4, <2>5, <2>6
<1> HIDE DEF G
<1>10. G(GetBytes(m), n)
  <2>1. 1 - 1 = 0 /\ 2 - 1 = 1 /\ 3 - 1 = 2
    OBVIOUS
  <2>2. n >= 1 => G(g1, 1)
    <3>1. n >= 1 => 1 \in 1 .. n
      BY <1>1
    <3> QED BY <1>8, <1>9, <2>1, <3>1
  <2>3. n >= 2 => G(g2, 2)
    <3>1. n >= 2 => 2 \in 1 .. n /\ n >= 1
      BY <1>1
    <3> HIDE DEF g1
    <3> QED BY <1>9, <2>1, <2>2, <3>1 DEF g2
  <2>4. n >= 3 => G(g3, 3)
    <3>1. n >= 3 => 3 \in 1 .. n /\ n >= 2
      BY <1>1
    <3> HIDE DEF g2
    <3> QED BY <1>9, <2>1, <2>3, <3>1 DEF g3
  <2> HIDE DEF g1, g2, g3
  <2>5. CASE n = 0 BY <1>7, <1>8, <2>5
  <2>6. CASE n = 1 BY <1>7, <2>2, <2>6
  <2>7. CASE n = 2 BY <1>7, <2>3, <2>7
  <2>8. CASE n = 3 BY <1>7, <2>4, <2>8
  <2> QED BY <1>1, <2>5, <2>6, <2>7, <2>8
<1> QED BY <1>1, <1>3, <1>10 DEF G, e, n, h

-----------------------------------------------------------------------------
(* Parsing.                                                                *)

\* What has the header of a message has its properties where they are in its bytes.
LEMMA BeginAtRead ==
    ASSUME NEW m, IsMessage(m), Fits(m), NEW bytes, HasHeader(bytes, m),
           NEW i \in 1 .. Len(Properties(m.type)) + 1
    PROVE  BeginAt(bytes, m.type, i) = EndOf(m, i - 1)
<1> DEFINE n == Len(Properties(m.type))
           props == Properties(m.type)
           v == [j \in 1 .. i - 1 |-> LengthOf(bytes, m.type, props[j])]
           w == [j \in 1 .. n |-> Len(ValueOf(m, j))]
<1>1. /\ n \in 0 .. 3 /\ props \in Seq(Names)
      /\ \A j \in 1 .. n : props[j] \in ToSet(props) /\ Len(ValueOf(m, j)) \in Nat
  BY ValuesOf, Layouts
<1>2. \A j \in 1 .. n : LengthOf(bytes, m.type, props[j]) = Len(ValueOf(m, j))
  BY <1>1, LengthRead DEF ValueOf
<1>3. bytes[1] = HeaderLength(m.type) /\ bytes[1] \in Nat
  <2>1. HeaderLength(m.type) \in 2 .. 8 /\ HeaderBytes(m)[1] = HeaderLength(m.type)
    BY Offsets, HeaderOf
  <2> QED BY <2>1 DEF HasHeader
<1>4. BeginAt(bytes, m.type, i) = Partial(bytes[1], v, i - 1)
  <2>1. \A j \in 1 .. Len(Properties(m.type)) : LengthOf(bytes, m.type, Properties(m.type)[j]) \in Nat
    BY <1>1, <1>2
  <2>2. Len(Properties(m.type)) <= 3
    BY <1>1
  <2> QED BY <1>1, <1>3, <2>1, <2>2, BeginAtValue
<1>5. i - 1 \in 0 .. 3 /\ \A j \in 1 .. i - 1 : v[j] = w[j]
  BY <1>1, <1>2
<1>6. EndOf(m, i - 1) = Partial(HeaderLength(m.type), w, i - 1)
  BY DEF EndOf
<1> HIDE DEF v, w
<1>7. Partial(bytes[1], v, i - 1) = Partial(bytes[1], w, i - 1)
  BY <1>5, PartialSame
<1> QED BY <1>3, <1>4, <1>6, <1>7

EndIn(bytes, type) == BeginAt(bytes, type, Len(Properties(type)) + 1)

ValueIn(bytes, type, i) ==
    SubSeq(bytes, BeginAt(bytes, type, i) + 1, BeginAt(bytes, type, i + 1))

PlaceIn(type, p) == CHOOSE i \in DOMAIN Properties(type) : Properties(type)[i] = p

\* InitializeFrom, with names for what it computes.
LEMMA InitializeUnfolds ==
    ASSUME NEW bytes, NEW type
    PROVE  InitializeFrom(bytes, type) =
           CASE EndIn(bytes, type) > Len(bytes) -> Incomplete
             [] /\ EndIn(bytes, type) <= Len(bytes)
                /\ \E i \in DOMAIN Properties(type) : ValueIn(bytes, type, i) = << >> -> Throws
             [] OTHER -> [is |-> "parsed",
                          message |-> [type |-> type,
                                       property |-> [p \in ToSet(Properties(type)) |->
                                                        ValueIn(bytes, type, PlaceIn(type, p))]],
                          reminder |-> SubSeq(bytes, EndIn(bytes, type) + 1, Len(bytes))]
BY DEF InitializeFrom, EndIn, ValueIn, PlaceIn

\* Every property has a place in the body.
LEMMA PlaceInOf ==
    ASSUME NEW type, NEW p \in ToSet(Properties(type))
    PROVE  PlaceIn(type, p) \in DOMAIN Properties(type) /\ Properties(type)[PlaceIn(type, p)] = p
<1>1. \E i \in DOMAIN Properties(type) : Properties(type)[i] = p
  BY DEF ToSet
<1> QED BY <1>1 DEF PlaceIn

\* The cases of TryParseMessage.
LEMMA TryParseUnfolds ==
    ASSUME NEW bytes \in Seq(Bytes)
    PROVE  /\ Len(bytes) < 2 => TryParseMessage(bytes) = Incomplete
           /\ Len(bytes) >= 2 /\ Len(bytes) < bytes[1] => TryParseMessage(bytes) = Incomplete
           /\ /\ Len(bytes) >= 2 /\ Len(bytes) >= bytes[1]
              /\ bytes[2] + 1 \in DOMAIN MessageTypesEnum
              /\ HeaderLength(MessageTypesEnum[bytes[2] + 1]) <= Len(bytes)
              => TryParseMessage(bytes) = InitializeFrom(bytes, MessageTypesEnum[bytes[2] + 1])
           /\ \/ TryParseMessage(bytes) = Incomplete
              \/ TryParseMessage(bytes) = Throws
              \/ /\ bytes[2] + 1 \in DOMAIN MessageTypesEnum
                 /\ HeaderLength(MessageTypesEnum[bytes[2] + 1]) <= Len(bytes)
                 /\ bytes[1] \in Nat
                 /\ TryParseMessage(bytes) = InitializeFrom(bytes, MessageTypesEnum[bytes[2] + 1])
<1> DEFINE n == Len(bytes)
           t == bytes[2] + 1
           h == HeaderLength(MessageTypesEnum[t])
           init == InitializeFrom(bytes, MessageTypesEnum[t])
           a == n < 2
           b == n >= 2 /\ n < bytes[1]
           c == n >= 2 /\ n >= bytes[1] /\ (t \notin DOMAIN MessageTypesEnum \/ h > n)
<1>1. n \in Nat /\ h \in Nat
  BY Offsets, LenProperties
<1>2. n >= 2 => bytes[1] \in Nat
  <2>1. n >= 2 => 1 \in 1 .. n
    BY <1>1
  <2> QED BY <2>1, ElementOfSeq, BaseFacts
<1>3. TryParseMessage(bytes) = CASE a -> Incomplete [] b -> Incomplete [] c -> Throws [] OTHER -> init
  BY DEF TryParseMessage
<1> HIDE DEF n, t, h, init
<1>4. (a => ~b /\ ~c) /\ (b => ~a /\ ~c) /\ (c => ~a /\ ~b)
  BY <1>1, <1>2
<1>5. /\ n >= 2 /\ n >= bytes[1] /\ t \in DOMAIN MessageTypesEnum /\ h <= n => ~a /\ ~b /\ ~c
      /\ ~a /\ ~b /\ ~c => t \in DOMAIN MessageTypesEnum /\ h <= n /\ bytes[1] \in Nat
  BY <1>1, <1>2
<1>6. a => TryParseMessage(bytes) = Incomplete
  BY <1>3, <1>4
<1>7. b => TryParseMessage(bytes) = Incomplete
  BY <1>3, <1>4
<1>8. c => TryParseMessage(bytes) = Throws
  BY <1>3, <1>4
<1>9. ~a /\ ~b /\ ~c => TryParseMessage(bytes) = init
  BY <1>3
<1> QED BY <1>5, <1>6, <1>7, <1>8, <1>9 DEF n, t, h, init

\* With the header, the message can be looked for.
LEMMA TryParseWithHeader ==
    ASSUME NEW m, IsMessage(m), NEW bytes, HasHeader(bytes, m)
    PROVE  TryParseMessage(bytes) = InitializeFrom(bytes, m.type)
<1>1. /\ HeaderLength(m.type) \in 2 .. 8 /\ HeaderBytes(m)[1] = HeaderLength(m.type)
      /\ HeaderBytes(m)[2] + 1 \in DOMAIN MessageTypesEnum
      /\ MessageTypesEnum[HeaderBytes(m)[2] + 1] = m.type
  BY Offsets, HeaderOf
<1>2. /\ bytes \in Seq(Bytes) /\ Len(bytes) \in Nat
      /\ HeaderLength(m.type) <= Len(bytes)
      /\ \A k \in 1 .. HeaderLength(m.type) : bytes[k] = HeaderBytes(m)[k]
  BY LenProperties DEF HasHeader
<1>3. 1 \in 1 .. HeaderLength(m.type) /\ 2 \in 1 .. HeaderLength(m.type)
  BY <1>1
<1>4. bytes[1] = HeaderLength(m.type) /\ bytes[2] = HeaderBytes(m)[2]
  BY <1>1, <1>2, <1>3
<1>5. /\ Len(bytes) >= 2 /\ Len(bytes) >= bytes[1]
      /\ bytes[2] + 1 \in DOMAIN MessageTypesEnum
      /\ MessageTypesEnum[bytes[2] + 1] = m.type
      /\ HeaderLength(MessageTypesEnum[bytes[2] + 1]) <= Len(bytes)
  <2>1. Len(bytes) >= 2 /\ Len(bytes) >= bytes[1]
    BY <1>1, <1>2, <1>4
  <2> QED BY <1>1, <1>2, <1>4, <2>1
<1> QED BY <1>2, <1>5, TryParseUnfolds

\* The bytes of a message, whatever follows them, are parsed as that message, and
\* what follows is left.
THEOREM Parses ==
    ASSUME NEW m, IsMessage(m), Fits(m), NEW bytes \in Seq(Bytes),
           Len(GetBytes(m)) <= Len(bytes),
           \A k \in 1 .. Len(GetBytes(m)) : bytes[k] = GetBytes(m)[k]
    PROVE  TryParseMessage(bytes) =
               [is |-> "parsed", message |-> m,
                reminder |-> SubSeq(bytes, Len(GetBytes(m)) + 1, Len(bytes))]
<1> DEFINE n == Len(Properties(m.type))
           h == HeaderLength(m.type)
           g == GetBytes(m)
           e(i) == EndOf(m, i)
<1>1. /\ n \in 0 .. 3 /\ DOMAIN Properties(m.type) = 1 .. n /\ h \in 2 .. 8
      /\ Len(bytes) \in Nat
  BY ValuesOf, Offsets, LenProperties
<1>2. /\ g \in Seq(Bytes) /\ Len(g) = e(n) /\ \A k \in 1 .. h : g[k] = HeaderBytes(m)[k]
      /\ \A i \in 1 .. n : \A j \in 1 .. Len(ValueOf(m, i)) : g[e(i - 1) + j] = ValueOf(m, i)[j]
  BY BytesOf
<1>3. /\ \A i \in 1 .. n : e(i) = e(i - 1) + Len(ValueOf(m, i))
      /\ \A i \in 0 .. n : e(i) \in Nat /\ e(i) >= h /\ e(i) <= e(n)
  BY EndsOf
<1>4. \A i \in 1 .. n : ValueOf(m, i) \in Seq(Bytes) /\ Len(ValueOf(m, i)) \in Nat \ {0}
  BY ValuesOf
<1>5. e(n) \in Nat /\ h <= e(n) /\ e(n) <= Len(bytes) /\ \A k \in 1 .. e(n) : bytes[k] = g[k]
  <2>1. n \in 0 .. n
    BY <1>1
  <2> HIDE DEF e
  <2>2. e(n) \in Nat /\ e(n) >= h
    BY <1>3, <2>1
  <2> QED BY <1>1, <1>2, <2>2
<1>6. HasHeader(bytes, m)
  <2> HIDE DEF e, g
  <2>1. h <= Len(bytes) /\ \A k \in 1 .. h : k \in 1 .. e(n)
    BY <1>1, <1>5
  <2> QED BY <1>2, <1>5, <2>1 DEF HasHeader
<1>7. \A i \in 1 .. n + 1 : BeginAt(bytes, m.type, i) = e(i - 1)
  BY <1>6, BeginAtRead
<1>8. EndIn(bytes, m.type) = e(n)
  <2>1. n + 1 \in 1 .. n + 1 /\ (n + 1) - 1 = n
    BY <1>1
  <2> QED BY <1>7, <2>1 DEF EndIn
<1>9. ASSUME NEW i \in 1 .. n PROVE ValueIn(bytes, m.type, i) = ValueOf(m, i)
  <2> DEFINE a == e(i - 1)
             len == Len(ValueOf(m, i))
  <2>1. /\ i \in 1 .. n + 1 /\ i + 1 \in 1 .. n + 1 /\ (i + 1) - 1 = i
        /\ i - 1 \in 0 .. n /\ i \in 0 .. n
    BY <1>1
  <2>2. /\ ValueOf(m, i) \in Seq(Bytes) /\ len \in Nat \ {0}
        /\ a \in Nat /\ a + len = e(i) /\ e(i) <= e(n)
        /\ \A j \in 1 .. len : g[a + j] = ValueOf(m, i)[j]
    BY <1>2, <1>3, <1>4, <2>1
  <2>3. ValueIn(bytes, m.type, i) = SubSeq(bytes, a + 1, a + len)
    BY <1>7, <2>1, <2>2 DEF ValueIn
  <2> HIDE DEF a, len, e, g
  <2>4. \A j \in 1 .. len : a + j \in 1 .. e(n) /\ a + j \in 1 .. Len(bytes)
    BY <1>1, <1>5, <2>2
  <2>5. \A k \in a + 1 .. a + len : bytes[k] \in Bytes
    <3>1. \A k \in a + 1 .. a + len : k \in 1 .. Len(bytes)
      BY <1>1, <1>5, <2>2
    <3> QED BY <3>1, ElementOfSeq
  <2>6. a + 1 \in Int /\ a + len \in Int /\ a + 1 <= a + len /\ (a + len) - (a + 1) + 1 = len
    BY <2>2
  <2>7. /\ SubSeq(bytes, a + 1, a + len) \in Seq(Bytes)
        /\ Len(SubSeq(bytes, a + 1, a + len)) = len
        /\ \A j \in 1 .. len : SubSeq(bytes, a + 1, a + len)[j] = bytes[a + 1 + j - 1]
    BY <2>5, <2>6, SubSeqProperties
  <2>8. \A j \in 1 .. len : a + 1 + j - 1 = a + j
    BY <2>2
  <2>9. \A j \in 1 .. len : SubSeq(bytes, a + 1, a + len)[j] = ValueOf(m, i)[j]
    BY <1>5, <2>2, <2>4, <2>7, <2>8
  <2>10. SubSeq(bytes, a + 1, a + len) = ValueOf(m, i)
    BY <2>2, <2>7, <2>9, SeqEqual DEF len
  <2> QED BY <2>3, <2>10
<1>10. \A i \in DOMAIN Properties(m.type) : ValueIn(bytes, m.type, i) # << >>
  <2>1. \A i \in 1 .. n : ValueOf(m, i) # << >>
    BY <1>4, EmptySeq
  <2> QED BY <1>1, <1>9, <2>1
<1>11. \A p \in ToSet(Properties(m.type)) :
          ValueIn(bytes, m.type, PlaceIn(m.type, p)) = m.property[p]
  <2> SUFFICES ASSUME NEW p \in ToSet(Properties(m.type))
               PROVE  ValueIn(bytes, m.type, PlaceIn(m.type, p)) = m.property[p]
    OBVIOUS
  <2>1. PlaceIn(m.type, p) \in 1 .. n /\ Properties(m.type)[PlaceIn(m.type, p)] = p
    BY <1>1, PlaceInOf
  <2> QED BY <1>9, <2>1 DEF ValueOf
<1>12. [type |-> m.type,
        property |-> [p \in ToSet(Properties(m.type)) |->
                         ValueIn(bytes, m.type, PlaceIn(m.type, p))]] = m
  BY <1>11, MessageFacts
<1>13. ~(EndIn(bytes, m.type) > Len(bytes))
  BY <1>1, <1>5, <1>8
<1>14. InitializeFrom(bytes, m.type) =
         [is |-> "parsed", message |-> m, reminder |-> SubSeq(bytes, e(n) + 1, Len(bytes))]
  BY <1>8, <1>10, <1>12, <1>13, InitializeUnfolds
<1> QED BY <1>2, <1>6, <1>14, TryParseWithHeader

\* Less than the bytes of a message is incomplete.
THEOREM Waits ==
    ASSUME NEW m, IsMessage(m), Fits(m), NEW bytes \in Seq(Bytes),
           Len(bytes) < Len(GetBytes(m)),
           \A k \in 1 .. Len(bytes) : bytes[k] = GetBytes(m)[k]
    PROVE  TryParseMessage(bytes) = Incomplete
<1> DEFINE n == Len(Properties(m.type))
           h == HeaderLength(m.type)
           g == GetBytes(m)
<1>1. /\ n \in 0 .. 3 /\ h \in 2 .. 8 /\ Len(bytes) \in Nat
  BY ValuesOf, Offsets, LenProperties
<1>2. /\ g \in Seq(Bytes) /\ Len(g) = EndOf(m, n)
      /\ \A k \in 1 .. h : g[k] = HeaderBytes(m)[k]
  BY BytesOf
<1>3. HeaderBytes(m)[1] = h
  BY HeaderOf
<1>4. Len(g) \in Nat /\ h <= Len(g)
  <2>1. n \in 0 .. n
    BY <1>1
  <2> QED BY <1>2, <2>1, EndsOf
<1> HIDE DEF g, h, n
<1>5. CASE Len(bytes) < 2
  BY <1>5, TryParseUnfolds
<1>6. CASE Len(bytes) >= 2 /\ Len(bytes) < h
  <2>1. 1 \in 1 .. Len(bytes) /\ 1 \in 1 .. h
    BY <1>1, <1>6
  <2>2. bytes[1] = h
    BY <1>2, <1>3, <2>1 DEF g
  <2> QED BY <1>6, <2>2, TryParseUnfolds
<1>7. CASE Len(bytes) >= h
  <2>1. \A k \in 1 .. h : k \in 1 .. Len(bytes)
    BY <1>1, <1>7
  <2>2. HasHeader(bytes, m)
    BY <1>2, <1>7, <2>1 DEF HasHeader, g, h
  <2>3. n + 1 \in 1 .. n + 1 /\ (n + 1) - 1 = n
    BY <1>1
  <2>4. EndIn(bytes, m.type) = Len(g)
    BY <1>2, <2>2, <2>3, BeginAtRead DEF EndIn, n
  <2>5. EndIn(bytes, m.type) > Len(bytes) /\ ~(EndIn(bytes, m.type) <= Len(bytes))
    BY <1>1, <1>4, <2>4 DEF g
  <2>6. InitializeFrom(bytes, m.type) = Incomplete
    BY <2>5, InitializeUnfolds
  <2> QED BY <2>2, <2>6, TryParseWithHeader
<1> QED BY <1>1, <1>5, <1>6, <1>7

\* Whatever the bytes: a parsed message has a type, and what is left are bytes.
LEMMA ParseTyped ==
    ASSUME NEW bytes \in Seq(Bytes), TryParseMessage(bytes).is = "parsed"
    PROVE  /\ TryParseMessage(bytes).message.type \in ToSet(MessageTypesEnum)
           /\ TryParseMessage(bytes).reminder \in Seq(Bytes)
<1> DEFINE type == MessageTypesEnum[bytes[2] + 1]
           props == Properties(type)
<1>0. TryParseMessage(bytes) # Incomplete /\ TryParseMessage(bytes) # Throws
  BY DEF Incomplete, Throws
<1>1. /\ bytes[2] + 1 \in DOMAIN MessageTypesEnum /\ HeaderLength(type) <= Len(bytes)
      /\ bytes[1] \in Nat /\ TryParseMessage(bytes) = InitializeFrom(bytes, type)
  BY <1>0, TryParseUnfolds
<1>2. type \in ToSet(MessageTypesEnum)
  BY <1>1 DEF ToSet
<1> HIDE DEF type
<1>3. /\ Len(props) \in 0 .. 3 /\ props \in Seq(Names) /\ DOMAIN props = 1 .. Len(props)
  BY Layouts, LenProperties
<1>4. \A j \in 1 .. Len(props) : LengthOf(bytes, type, props[j]) \in Nat
  <2>1. \A j \in 1 .. Len(props) : props[j] \in ToSet(props)
    BY <1>3 DEF ToSet
  <2> QED BY <1>1, <2>1, LengthTyped
<1>5. EndIn(bytes, type) \in Nat
  <2> DEFINE k == Len(props)
             w == [j \in 1 .. k |-> LengthOf(bytes, type, props[j])]
  <2>1. k + 1 \in 1 .. k + 1 /\ (k + 1) - 1 = k /\ k <= 3
    BY <1>3
  <2>2. EndIn(bytes, type) = Partial(bytes[1], w, k)
    <3>1. BeginAt(bytes, type, k + 1)
            = Partial(bytes[1], [j \in 1 .. (k + 1) - 1 |-> LengthOf(bytes, type, props[j])], (k + 1) - 1)
      BY <1>1, <1>3, <1>4, <2>1, BeginAtValue
    <3> QED BY <2>1, <3>1 DEF EndIn
  <2>3. \A j \in 1 .. k : w[j] \in Nat
    BY <1>4
  <2>4. k \in 0 .. 3
    BY <1>3
  <2> HIDE DEF k, w
  <2>5. (k >= 1 => 1 \in 1 .. k) /\ (k >= 2 => 2 \in 1 .. k) /\ (k >= 3 => 3 \in 1 .. k)
    BY <2>4
  <2>6. CASE k = 0 BY <1>1, <2>2, <2>6, PartialAt
  <2>7. CASE k = 1 BY <1>1, <2>2, <2>3, <2>5, <2>7, PartialAt
  <2>8. CASE k = 2 BY <1>1, <2>2, <2>3, <2>5, <2>8, PartialAt
  <2>9. CASE k = 3 BY <1>1, <2>2, <2>3, <2>5, <2>9, PartialAt
  <2> QED BY <2>4, <2>6, <2>7, <2>8, <2>9
<1>6. SubSeq(bytes, EndIn(bytes, type) + 1, Len(bytes)) \in Seq(Bytes)
  <2>1. Len(bytes) \in Nat
    BY LenProperties
  <2>2. \A k \in EndIn(bytes, type) + 1 .. Len(bytes) : k \in 1 .. Len(bytes)
    BY <1>5, <2>1
  <2>3. \A k \in EndIn(bytes, type) + 1 .. Len(bytes) : bytes[k] \in Bytes
    BY <2>2, ElementOfSeq
  <2>4. EndIn(bytes, type) + 1 \in Int /\ Len(bytes) \in Int
    BY <1>5, <2>1
  <2> QED BY <2>3, <2>4, SubSeqProperties
<1>7. \/ InitializeFrom(bytes, type) = Incomplete
      \/ InitializeFrom(bytes, type) = Throws
      \/ /\ InitializeFrom(bytes, type).message.type = type
         /\ InitializeFrom(bytes, type).reminder = SubSeq(bytes, EndIn(bytes, type) + 1, Len(bytes))
  <2>1. CASE EndIn(bytes, type) > Len(bytes)
    <3>1. ~(EndIn(bytes, type) <= Len(bytes))
      BY <1>5, <2>1, LenProperties
    <3> QED BY <2>1, <3>1, InitializeUnfolds
  <2>2. CASE ~(EndIn(bytes, type) > Len(bytes))
    BY <2>2, InitializeUnfolds
  <2> QED BY <2>1, <2>2
<1> QED BY <1>0, <1>1, <1>2, <1>6, <1>7

-----------------------------------------------------------------------------
(* The types.                                                              *)

TypeInv ==
    /\ TypeOK
    /\ sent \in Seq(Messages)
    /\ decoded \in Seq(ToSet(decoded))

\* What a read takes and what it leaves.
Taken(n) == IF n < Len(wire) THEN n ELSE Len(wire)

Have(n) == storage \o SubSeq(wire, 1, Taken(n))

Left(n) == SubSeq(wire, Taken(n) + 1, Len(wire))

\* Read, with names for what it computes.
LEMMA ReadUnfolds ==
    ASSUME NEW n, Read(n)
    PROVE  /\ ~failed /\ wire # << >> /\ wire' = Left(n)
           /\ failed' = (TryParseMessage(Have(n)).is = "throws")
           /\ IF TryParseMessage(Have(n)).is = "parsed"
              THEN /\ storage' = TryParseMessage(Have(n)).reminder
                   /\ decoded' = Append(decoded, TryParseMessage(Have(n)).message)
              ELSE storage' = Have(n) /\ decoded' = decoded
           /\ window' = window /\ sent' = sent
BY DEF Read, Taken, Have, Left

\* A read takes something, and moves the border between storage and wire.
LEMMA ReadFacts ==
    ASSUME wire \in Seq(Bytes), storage \in Seq(Bytes), wire # << >>, NEW n \in ChunkSizes
    PROVE  /\ Taken(n) \in 1 .. Len(wire)
           /\ Have(n) \in Seq(Bytes) /\ Left(n) \in Seq(Bytes)
           /\ Len(Left(n)) = Len(wire) - Taken(n)
           /\ Have(n) \o Left(n) = storage \o wire
<1> DEFINE t == Taken(n)
           w == Len(wire)
           f == SubSeq(wire, 1, t)
<1>1. w \in Nat \ {0} /\ n \in Nat \ {0}
  BY ProtoTransitAssumption, LenProperties, EmptySeq
<1>2. t = IF n < w THEN n ELSE w
  BY DEF Taken
<1> HIDE DEF t, w
<1>3. t \in 1 .. w
  BY <1>1, <1>2
<1>4. f \o SubSeq(wire, t + 1, w) = SubSeq(wire, 1, w)
  <2>1. 1 \in 1 .. w + 1 /\ t \in 1 - 1 .. w /\ w \in t .. w
    BY <1>1, <1>3
  <2> QED BY <2>1, ConcatAdjacentSubSeq DEF w
<1>5. SubSeq(wire, 1, w) = wire
  BY SubSeqFull DEF w
<1>6. f \in Seq(Bytes)
  <2>1. \A i \in 1 .. t : i \in 1 .. w
    BY <1>1, <1>3
  <2>2. \A i \in 1 .. t : wire[i] \in Bytes
    BY <2>1, ElementOfSeq DEF w
  <2>3. 1 \in Int /\ t \in Int
    BY <1>3
  <2> QED BY <2>2, <2>3, SubSeqProperties
<1>7. /\ SubSeq(wire, t + 1, w) \in Seq(Bytes)
      /\ Len(SubSeq(wire, t + 1, w)) = w - t
  <2>1. \A i \in t + 1 .. w : i \in 1 .. w
    BY <1>1, <1>3
  <2>2. \A i \in t + 1 .. w : wire[i] \in Bytes
    BY <2>1, ElementOfSeq DEF w
  <2>3. t + 1 \in Int /\ w \in Int
    BY <1>1, <1>3
  <2>4. (IF t + 1 <= w THEN w - (t + 1) + 1 ELSE 0) = w - t
    BY <1>1, <1>3
  <2> QED BY <2>2, <2>3, <2>4, SubSeqProperties
<1>8. Have(n) = storage \o f /\ Left(n) = SubSeq(wire, t + 1, w)
  BY DEF Have, Left, t, w
<1> HIDE DEF f
<1>9. Have(n) \in Seq(Bytes)
  BY <1>6, <1>8, ConcatProperties
<1>10. Have(n) \o Left(n) = storage \o wire
  <2>1. (storage \o f) \o Left(n) = storage \o (f \o Left(n))
    <3>1. storage \in Seq(Bytes) /\ f \in Seq(Bytes) /\ Left(n) \in Seq(Bytes)
      BY <1>6, <1>7, <1>8
    <3> QED BY <3>1, Associative, Zenon
  <2> QED BY <1>4, <1>5, <1>8, <2>1
<1> QED BY <1>3, <1>7, <1>8, <1>9, <1>10 DEF t, w

\* A sequence that one element is appended to.
LEMMA Grown ==
    ASSUME NEW s, s \in Seq(ToSet(s)), NEW x
    PROVE  /\ Append(s, x) \in Seq(ToSet(Append(s, x)))
           /\ Len(Append(s, x)) = Len(s) + 1 /\ Len(s) \in Nat
           /\ \A i \in 1 .. Len(s) : Append(s, x)[i] = s[i]
           /\ Append(s, x)[Len(s) + 1] = x
           /\ DOMAIN Append(s, x) = 1 .. Len(s) + 1 /\ DOMAIN s = 1 .. Len(s)
<1> DEFINE S == ToSet(s) \cup {x}
           a == Append(s, x)
<1>1. s \in Seq(S) /\ x \in S
  BY SeqMonotonic
<1> HIDE DEF S
<1>2. /\ a \in Seq(S) /\ Len(a) = Len(s) + 1 /\ \A i \in 1 .. Len(s) : a[i] = s[i]
      /\ a[Len(s) + 1] = x
  BY <1>1, AppendProperties
<1>3. DOMAIN a = 1 .. Len(a) /\ DOMAIN s = 1 .. Len(s) /\ Len(s) \in Nat /\ Len(a) \in Nat
  BY <1>1, <1>2, LenProperties
<1> HIDE DEF a
<1>4. a \in Seq(ToSet(a))
  <2>1. \A i \in 1 .. Len(a) : a[i] \in ToSet(a)
    BY <1>3 DEF ToSet
  <2>2. a = [i \in 1 .. Len(a) |-> a[i]]
    BY <1>2, <1>3
  <2> QED BY <1>3, <2>1, <2>2, IsASeq
<1> QED BY <1>2, <1>3, <1>4 DEF a

\* The types hold at the start,
LEMMA InitTyped == Init => TypeInv
<1> SUFFICES ASSUME Init PROVE TypeInv
  OBVIOUS
<1>1. /\ window \in Windows /\ sent = << >> /\ wire = << >> /\ storage = << >>
      /\ decoded = << >> /\ failed = FALSE
  BY DEF Init
<1>2. \A S : << >> \in Seq(S)
  BY EmptySeq
<1>3. DOMAIN << >> = {}
  OBVIOUS
<1> QED BY <1>1, <1>2, <1>3 DEF TypeInv, TypeOK

\* a message that is written keeps them,
LEMMA SendTyped ==
    ASSUME TypeInv, NEW m \in Messages, Send(m)
    PROVE  TypeInv'
<1>1. /\ sent' = Append(sent, m) /\ wire' = wire \o GetBytes(m)
      /\ window' = window /\ storage' = storage /\ decoded' = decoded /\ failed' = failed
  BY DEF Send
<1>2. sent' \in Seq(Messages)
  BY <1>1, AppendProperties DEF TypeInv
<1>3. \A i \in DOMAIN sent' : sent'[i] \in Messages
  BY <1>2, LenProperties, ElementOfSeq
<1>4. wire' \in Seq(Bytes)
  <2>1. IsMessage(m)
    BY ProtoTransitAssumption
  <2>2. GetBytes(m) \in Seq(Bytes) /\ wire \in Seq(Bytes)
    BY <2>1, BytesOf DEF TypeInv, TypeOK
  <2> QED BY <1>1, <2>2, ConcatProperties
<1>5. decoded' \in Seq(ToSet(decoded)')
  BY <1>1 DEF TypeInv, ToSet
<1> QED BY <1>1, <1>2, <1>3, <1>4, <1>5 DEF TypeInv, TypeOK

\* so does a chunk that is read, whatever is parsed,
LEMMA ReadTyped ==
    ASSUME TypeInv, NEW n \in ChunkSizes, Read(n)
    PROVE  TypeInv'
<1> DEFINE result == TryParseMessage(Have(n))
<1>1. /\ wire # << >> /\ wire' = Left(n) /\ failed' \in BOOLEAN
      /\ window' = window /\ sent' = sent
      /\ IF result.is = "parsed"
         THEN storage' = result.reminder /\ decoded' = Append(decoded, result.message)
         ELSE storage' = Have(n) /\ decoded' = decoded
  BY ReadUnfolds
<1>2. /\ wire \in Seq(Bytes) /\ storage \in Seq(Bytes) /\ decoded \in Seq(ToSet(decoded))
      /\ \A i \in DOMAIN decoded : decoded[i].type \in ToSet(MessageTypesEnum)
      /\ window \in Windows /\ \A i \in DOMAIN sent : sent[i] \in Messages
      /\ sent \in Seq(Messages)
  BY DEF TypeInv, TypeOK
<1>3. Have(n) \in Seq(Bytes) /\ Left(n) \in Seq(Bytes)
  BY <1>1, <1>2, ReadFacts
<1>4. CASE result.is = "parsed"
  <2>1. storage' = result.reminder /\ decoded' = Append(decoded, result.message)
    BY <1>1, <1>4
  <2>2. result.message.type \in ToSet(MessageTypesEnum) /\ result.reminder \in Seq(Bytes)
    BY <1>3, <1>4, ParseTyped
  <2> HIDE DEF result
  <2>3. /\ decoded' \in Seq(ToSet(decoded'))
        /\ \A i \in DOMAIN decoded' : decoded'[i].type \in ToSet(MessageTypesEnum)
    <3>1. /\ decoded' \in Seq(ToSet(decoded')) /\ Len(decoded) \in Nat
          /\ \A i \in 1 .. Len(decoded) : decoded'[i] = decoded[i]
          /\ decoded'[Len(decoded) + 1] = result.message
          /\ DOMAIN decoded' = 1 .. Len(decoded) + 1 /\ DOMAIN decoded = 1 .. Len(decoded)
      BY <1>2, <2>1, Grown
    <3>2. \A i \in 1 .. Len(decoded) + 1 : i \in 1 .. Len(decoded) \/ i = Len(decoded) + 1
      BY <3>1
    <3> QED BY <1>2, <2>2, <3>1, <3>2
  <2> QED BY <1>1, <1>2, <1>3, <2>1, <2>2, <2>3 DEF TypeInv, TypeOK
<1>5. CASE result.is # "parsed"
  <2>1. storage' = Have(n) /\ decoded' = decoded
    BY <1>1, <1>5
  <2>2. decoded' \in Seq(ToSet(decoded'))
    BY <1>2, <2>1
  <2> QED BY <1>1, <1>2, <1>3, <2>1, <2>2 DEF TypeInv, TypeOK
<1> QED BY <1>4, <1>5

\* and thus they always hold.
LEMMA AlwaysTyped == Spec => []TypeInv
<1>1. TypeInv /\ [Next]_vars => TypeInv'
  <2> SUFFICES ASSUME TypeInv, [Next]_vars PROVE TypeInv'
    OBVIOUS
  <2>1. ASSUME NEW m \in Messages, Send(m) PROVE TypeInv'
    BY <2>1, SendTyped
  <2>2. ASSUME NEW n \in ChunkSizes, Read(n) PROVE TypeInv'
    BY <2>2, ReadTyped
  <2>3. ASSUME UNCHANGED vars PROVE TypeInv'
    <3>1. /\ window' = window /\ sent' = sent /\ wire' = wire /\ storage' = storage
          /\ decoded' = decoded /\ failed' = failed
      BY <2>3 DEF vars
    <3> QED BY <3>1 DEF TypeInv, TypeOK, ToSet
  <2> QED BY <2>1, <2>2, <2>3 DEF Next
<1> QED BY <1>1, InitTyped, PTL DEF Spec

\* Whatever is sent and however it is cut, the wire and the storage hold bytes and
\* every message that the parser returns has a type of the enumeration.
THEOREM TypeCorrect == Spec => []TypeOK
<1>1. TypeInv => TypeOK
  BY DEF TypeInv
<1> QED BY <1>1, AlwaysTyped, PTL

-----------------------------------------------------------------------------
(* The stream.                                                             *)

\* Where the messages that are under way end in the bytes that are.
Cuts(at, d, messages, stream) ==
    /\ at \in [d .. Len(messages) -> Nat]
    /\ at[d] = 0
    /\ at[Len(messages)] = Len(stream)
    /\ \A k, l \in d .. Len(messages) : k <= l => at[k] <= at[l]
    /\ \A k \in d + 1 .. Len(messages) :
          /\ at[k] = at[k - 1] + Len(GetBytes(messages[k]))
          /\ \A j \in 1 .. Len(GetBytes(messages[k])) :
                stream[at[k - 1] + j] = GetBytes(messages[k])[j]

Cut(at) == Cuts(at, Len(decoded), sent, storage \o wire)

Following ==
    /\ Len(decoded) <= Len(sent)
    /\ \A i \in 1 .. Len(decoded) : decoded[i] = sent[i]

\* The bytes under way are those of the messages that were sent and not yet parsed;
\* with a window of 1 there is one, and a part of it is to be read.
Stream ==
    /\ ~failed
    /\ Following
    /\ \E at : Cut(at)
    /\ window = 1 => Len(sent) <= Len(decoded) + 1
    /\ window = 1 /\ wire = << >> => decoded = sent /\ storage = << >>

StreamInv == TypeInv /\ (AllFit => Stream)

\* At the start nothing is under way.
LEMMA InitStream == Init => StreamInv
<1> SUFFICES ASSUME Init PROVE StreamInv
  OBVIOUS
<1>1. sent = << >> /\ wire = << >> /\ storage = << >> /\ decoded = << >> /\ failed = FALSE
  BY DEF Init
<1> DEFINE at == [k \in 0 .. 0 |-> 0]
<1>2. << >> \o << >> = << >> /\ Len(<< >>) = 0
  BY EmptySeq, ConcatEmptySeq
<1>3. Cut(at)
  <2>1. Len(storage \o wire) = 0 /\ Len(decoded) = 0 /\ Len(sent) = 0
    BY <1>1, <1>2
  <2>2. at \in [0 .. 0 -> Nat] /\ at[0] = 0
    OBVIOUS
  <2>3. \A k \in 0 .. 0 : at[k] = 0
    OBVIOUS
  <2>4. 0 + 1 .. 0 = {}
    OBVIOUS
  <2> HIDE DEF at
  <2>5. \A k, l \in 0 .. 0 : k <= l => at[k] <= at[l]
    BY <2>3
  <2> QED BY <2>1, <2>2, <2>4, <2>5 DEF Cut, Cuts
<1> HIDE DEF at
<1>4. Following /\ Len(sent) <= Len(decoded) + 1
  BY <1>1, <1>2 DEF Following
<1> QED BY <1>1, <1>3, <1>4, InitTyped DEF StreamInv, Stream

\* What is written goes to the end of the stream.
LEMMA SendStream ==
    ASSUME StreamInv, NEW m \in Messages, Send(m)
    PROVE  StreamInv'
<1>1. /\ sent' = Append(sent, m) /\ wire' = wire \o GetBytes(m)
      /\ Len(sent) - Len(decoded) < window
      /\ window' = window /\ storage' = storage /\ decoded' = decoded /\ failed' = failed
  BY DEF Send
<1>2. TypeInv'
  BY SendTyped DEF StreamInv
<1>3. /\ sent \in Seq(Messages) /\ wire \in Seq(Bytes) /\ storage \in Seq(Bytes)
      /\ Len(sent) \in Nat /\ Len(decoded) \in Nat /\ DOMAIN sent = 1 .. Len(sent)
      /\ decoded \in Seq(ToSet(decoded))
  BY LenProperties DEF StreamInv, TypeInv, TypeOK
<1>4. /\ sent' \in Seq(Messages) /\ Len(sent') = Len(sent) + 1
      /\ \A i \in 1 .. Len(sent) : sent'[i] = sent[i]
      /\ sent'[Len(sent) + 1] = m
      /\ DOMAIN sent' = 1 .. Len(sent) + 1
  <2>1. /\ sent' \in Seq(Messages) /\ Len(sent') = Len(sent) + 1
        /\ \A i \in 1 .. Len(sent) : sent'[i] = sent[i]
        /\ sent'[Len(sent) + 1] = m
    BY <1>1, <1>3, AppendProperties
  <2> QED BY <2>1, LenProperties
<1>5. GetBytes(m) \in Seq(Bytes) /\ Len(GetBytes(m)) \in Nat \ {0}
  <2>1. IsMessage(m)
    BY ProtoTransitAssumption
  <2>2. Len(Properties(m.type)) \in 0 .. Len(Properties(m.type))
    BY <2>1, ValuesOf
  <2>3. GetBytes(m) \in Seq(Bytes) /\ Len(GetBytes(m)) >= HeaderLength(m.type)
    BY <2>1, <2>2, BytesOf, EndsOf
  <2> QED BY <2>3, Offsets, LenProperties
<1> SUFFICES ASSUME AllFit' PROVE Stream'
  BY <1>2 DEF StreamInv
<1>6. AllFit
  <2>1. \A i \in DOMAIN sent' : Fits(sent'[i])
    BY DEF AllFit
  <2>2. \A i \in 1 .. Len(sent) : i \in 1 .. Len(sent) + 1
    BY <1>3
  <2> QED BY <1>3, <1>4, <2>1, <2>2 DEF AllFit
<1>7. Stream
  BY <1>6 DEF StreamInv
<1>8. PICK at : Cut(at)
  BY <1>7 DEF Stream
<1> DEFINE d == Len(decoded)
           s == Len(sent)
           g == GetBytes(m)
           stream == storage \o wire
           stream1 == stream \o g
<1>9. /\ stream \in Seq(Bytes) /\ Len(stream) \in Nat
      /\ stream1 = storage \o (wire \o g)
      /\ stream1 \in Seq(Bytes) /\ Len(stream1) = Len(stream) + Len(g)
      /\ \A k \in 1 .. Len(stream) : stream1[k] = stream[k]
      /\ \A k \in 1 .. Len(g) : stream1[Len(stream) + k] = g[k]
  <2>1. stream \in Seq(Bytes)
    BY <1>3, ConcatProperties
  <2>2. stream1 = storage \o (wire \o g)
    BY <1>3, <1>5, Associative, Zenon
  <2> HIDE DEF g, stream
  <2>3. /\ stream \o g \in Seq(Bytes) /\ Len(stream \o g) = Len(stream) + Len(g)
        /\ \A k \in 1 .. Len(stream) : (stream \o g)[k] = stream[k]
        /\ \A k \in 1 .. Len(g) : (stream \o g)[Len(stream) + k] = g[k]
    <3>1. g \in Seq(Bytes)
      BY <1>5 DEF g
    <3> QED BY <2>1, <3>1, JoinedBytes, Zenon
  <2> QED BY <2>1, <2>2, <2>3, LenProperties
<1>10. /\ at \in [d .. s -> Nat] /\ at[d] = 0 /\ at[s] = Len(stream)
       /\ \A k, l \in d .. s : k <= l => at[k] <= at[l]
       /\ \A k \in d + 1 .. s :
             /\ at[k] = at[k - 1] + Len(GetBytes(sent[k]))
             /\ \A j \in 1 .. Len(GetBytes(sent[k])) : stream[at[k - 1] + j] = GetBytes(sent[k])[j]
       /\ d <= s
  BY <1>7, <1>8 DEF Cut, Cuts, Stream, Following
<1>11. d \in Nat /\ s \in Nat /\ g \in Seq(Bytes) /\ Len(g) \in Nat \ {0}
  BY <1>3, <1>5
<1>12. storage' \o wire' = stream1 /\ Len(decoded') = d /\ Len(sent') = s + 1
  BY <1>1, <1>4, <1>9
<1> HIDE DEF d, s, g, stream, stream1
<1> PICK at1 : at1 = [k \in d .. s + 1 |-> IF k = s + 1 THEN Len(stream1) ELSE at[k]]
  OBVIOUS
<1>13. /\ at1[s + 1] = Len(stream1)
       /\ \A k \in d .. s : at1[k] = at[k] /\ at[k] \in Nat /\ at[k] <= Len(stream)
  <2>1. \A k \in d .. s : k # s + 1 /\ k \in d .. s + 1 /\ s \in d .. s /\ k <= s
    BY <1>10, <1>11
  <2>2. s + 1 \in d .. s + 1
    BY <1>10, <1>11
  <2> QED BY <1>10, <2>1, <2>2
<1>14. at1 \in [d .. s + 1 -> Nat]
  <2>1. \A k \in d .. s + 1 : k \in d .. s \/ k = s + 1
    BY <1>10, <1>11
  <2>2. \A k \in d .. s + 1 : at1[k] \in Nat
    BY <1>9, <1>13, <2>1, LenProperties
  <2> QED BY <2>2
<1>15. at1[d] = 0 /\ at1[s] = Len(stream)
  <2>1. d \in d .. s /\ s \in d .. s
    BY <1>10, <1>11
  <2> QED BY <1>10, <1>13, <2>1
<1>16. \A k, l \in d .. s + 1 : k <= l => at1[k] <= at1[l]
  <2> SUFFICES ASSUME NEW k \in d .. s + 1, NEW l \in d .. s + 1, k <= l PROVE at1[k] <= at1[l]
    OBVIOUS
  <2>1. CASE l \in d .. s
    <3>1. k \in d .. s
      BY <1>11, <2>1
    <3> QED BY <1>10, <1>13, <2>1, <3>1
  <2>2. CASE l = s + 1 /\ k \in d .. s
    <3>1. at1[k] \in Nat /\ at1[k] <= Len(stream) /\ at1[l] = Len(stream1)
      BY <1>13, <2>2
    <3> QED BY <1>9, <1>11, <3>1
  <2>3. CASE l = s + 1 /\ k = s + 1
    <3>1. at1[l] \in Nat
      BY <1>14
    <3> QED BY <2>3, <3>1
  <2>4. (l \in d .. s \/ l = s + 1) /\ (k \in d .. s \/ k = s + 1)
    BY <1>11
  <2> QED BY <2>1, <2>2, <2>3, <2>4
<1>17. ASSUME NEW k \in d + 1 .. s + 1
       PROVE  /\ at1[k] = at1[k - 1] + Len(GetBytes(sent'[k]))
              /\ \A j \in 1 .. Len(GetBytes(sent'[k])) :
                    stream1[at1[k - 1] + j] = GetBytes(sent'[k])[j]
  <2>1. CASE k = s + 1
    <3>1. sent'[k] = m /\ k - 1 = s
      BY <1>4, <1>11, <2>1 DEF s
    <3>2. GetBytes(sent'[k]) = g /\ at1[k] = Len(stream1) /\ at1[k - 1] = Len(stream)
      BY <1>13, <1>15, <2>1, <3>1 DEF g
    <3> QED BY <1>9, <3>2
  <2>2. CASE k \in d + 1 .. s
    <3>1. k \in 1 .. s /\ k \in d .. s /\ k - 1 \in d .. s
      BY <1>11, <2>2
    <3>2. sent'[k] = sent[k]
      BY <1>4, <3>1 DEF s
    <3>3. /\ at[k] = at[k - 1] + Len(GetBytes(sent[k]))
          /\ \A j \in 1 .. Len(GetBytes(sent[k])) : stream[at[k - 1] + j] = GetBytes(sent[k])[j]
      BY <1>10, <2>2
    <3>4. at1[k] = at[k] /\ at1[k - 1] = at[k - 1] /\ at[k] \in Nat /\ at[k - 1] \in Nat
          /\ at[k] <= Len(stream)
      BY <1>13, <3>1
    <3>5. Len(GetBytes(sent[k])) \in Nat
      <4>1. sent[k] \in Messages
        BY <1>3, <3>1, ElementOfSeq DEF s
      <4>2. GetBytes(sent[k]) \in Seq(Bytes)
        BY <4>1, ProtoTransitAssumption, BytesOf
      <4> QED BY <4>2, LenProperties
    <3>6. \A j \in 1 .. Len(GetBytes(sent[k])) : at[k - 1] + j \in 1 .. Len(stream)
      <4> DEFINE len == Len(GetBytes(sent[k]))
      <4>1. len \in Nat /\ at[k - 1] \in Nat /\ at[k - 1] + len <= Len(stream) /\ Len(stream) \in Nat
        BY <1>9, <3>3, <3>4, <3>5
      <4> HIDE DEF len
      <4>2. \A j \in 1 .. len : at[k - 1] + j \in 1 .. Len(stream)
        BY <4>1
      <4> QED BY <4>2 DEF len
    <3>7. \A j \in 1 .. Len(GetBytes(sent[k])) : stream1[at[k - 1] + j] = stream[at[k - 1] + j]
      BY <1>9, <3>6
    <3> QED BY <3>2, <3>3, <3>4, <3>7
  <2>3. k = s + 1 \/ k \in d + 1 .. s
    BY <1>11
  <2> QED BY <2>1, <2>2, <2>3
<1>18. Cut(at1)'
  <2>1. Cuts(at1, d, sent', stream1)
    BY <1>12, <1>13, <1>14, <1>15, <1>16, <1>17 DEF Cuts
  <2> QED BY <1>12, <2>1 DEF Cut
<1>19. Following'
  <2>1. Len(decoded') <= Len(sent')
    BY <1>10, <1>11, <1>12
  <2>2. \A i \in 1 .. d : decoded'[i] = sent'[i]
    <3>1. \A i \in 1 .. d : i \in 1 .. s
      BY <1>10, <1>11
    <3>2. \A i \in 1 .. d : decoded[i] = sent[i]
      BY <1>7 DEF Stream, Following, d
    <3> QED BY <1>1, <1>4, <3>1, <3>2 DEF s
  <2> QED BY <1>12, <2>1, <2>2 DEF Following
<1>20. wire' # << >>
  <2>1. Len(wire \o g) = Len(wire) + Len(g) /\ Len(wire) \in Nat
    BY <1>3, <1>11, ConcatProperties, LenProperties
  <2>2. Len(wire \o g) # 0
    BY <1>11, <2>1
  <2> QED BY <1>1, <2>2 DEF g
<1>21. window' = 1 => Len(sent') <= Len(decoded') + 1
  BY <1>1, <1>10, <1>11, <1>12 DEF d, s
<1> QED BY <1>1, <1>7, <1>18, <1>19, <1>20, <1>21 DEF Stream

\* What follows in a concatenation when the beginning of it is taken.
LEMMA Dropped ==
    ASSUME NEW a \in Seq(Bytes), NEW b \in Seq(Bytes), NEW n \in 0 .. Len(a)
    PROVE  /\ SubSeq(a, n + 1, Len(a)) \in Seq(Bytes)
           /\ Len(SubSeq(a, n + 1, Len(a))) = Len(a) - n
           /\ Len(SubSeq(a, n + 1, Len(a)) \o b) = Len(a \o b) - n
           /\ \A j \in 1 .. Len(a \o b) - n :
                 (SubSeq(a, n + 1, Len(a)) \o b)[j] = (a \o b)[n + j]
<1> DEFINE r == SubSeq(a, n + 1, Len(a))
           la == Len(a)
           lb == Len(b)
<1>1. la \in Nat /\ lb \in Nat /\ n \in 0 .. la
  BY LenProperties
<1>2. r = SubSeq(a, n + 1, la)
  OBVIOUS
<1>3. \A k \in 1 .. la : a[k] \in Bytes
  BY ElementOfSeq
<1> HIDE DEF r, la, lb
<1>4. /\ \A k \in n + 1 .. la : a[k] \in Bytes
      /\ n + 1 \in Int /\ la \in Int
      /\ (IF n + 1 <= la THEN la - (n + 1) + 1 ELSE 0) = la - n
      /\ la - (n + 1) + 1 = la - n
  BY <1>1, <1>3
<1>5. /\ r \in Seq(Bytes) /\ Len(r) = la - n
      /\ \A j \in 1 .. la - n : r[j] = a[n + 1 + j - 1]
  BY <1>2, <1>4, SubSeqProperties
<1>6. \A j \in 1 .. la - n : r[j] = a[n + j]
  <2>1. \A j \in 1 .. la - n : n + 1 + j - 1 = n + j
    BY <1>1
  <2> QED BY <1>5, <2>1
<1>7. /\ Len(r \o b) = Len(r) + lb
      /\ \A k \in 1 .. Len(r) : (r \o b)[k] = r[k]
      /\ \A k \in 1 .. lb : (r \o b)[Len(r) + k] = b[k]
  BY <1>5, JoinedBytes, Zenon DEF lb
<1>8. /\ Len(a \o b) = la + lb
      /\ \A k \in 1 .. la : (a \o b)[k] = a[k]
      /\ \A k \in 1 .. lb : (a \o b)[la + k] = b[k]
  BY JoinedBytes, Zenon DEF la, lb
<1>9. Len(r \o b) = Len(a \o b) - n
  BY <1>1, <1>5, <1>7, <1>8
<1>10. ASSUME NEW j \in 1 .. Len(a \o b) - n PROVE (r \o b)[j] = (a \o b)[n + j]
  <2>1. j \in Nat /\ j >= 1 /\ j <= la + lb - n
    BY <1>1, <1>8
  <2>2. CASE j <= la - n
    <3>1. j \in 1 .. la - n /\ n + j \in 1 .. la /\ j \in 1 .. Len(r)
      BY <1>1, <1>5, <2>1, <2>2
    <3>2. (r \o b)[j] = r[j] /\ r[j] = a[n + j]
      BY <1>6, <1>7, <3>1
    <3>3. (a \o b)[n + j] = a[n + j]
      BY <1>8, <3>1
    <3> QED BY <3>2, <3>3
  <2>3. CASE j > la - n
    <3> DEFINE k == j - (la - n)
    <3>1. k \in 1 .. lb /\ j = (la - n) + k /\ n + j = la + k
      BY <1>1, <2>1, <2>3
    <3> HIDE DEF k
    <3>2. (r \o b)[Len(r) + k] = b[k] /\ Len(r) + k = j
      BY <1>5, <1>7, <3>1
    <3>3. (a \o b)[la + k] = b[k]
      BY <1>8, <3>1
    <3> QED BY <3>1, <3>2, <3>3
  <2>4. j <= la - n \/ j > la - n
    BY <1>1, <2>1
  <2> QED BY <2>2, <2>3, <2>4, Zenon
<1> QED BY <1>5, <1>9, <1>10 DEF r, la

\* The first of the messages under way begins the stream.
LEMMA FirstUnderWay ==
    ASSUME TypeInv, AllFit, Stream, storage \o wire # << >>
    PROVE  /\ Len(decoded) \in Nat /\ Len(sent) \in Nat /\ Len(decoded) + 1 <= Len(sent)
           /\ sent[Len(decoded) + 1] \in Messages
           /\ IsMessage(sent[Len(decoded) + 1]) /\ Fits(sent[Len(decoded) + 1])
           /\ Len(GetBytes(sent[Len(decoded) + 1])) \in Nat
           /\ Len(GetBytes(sent[Len(decoded) + 1])) <= Len(storage \o wire)
           /\ \A j \in 1 .. Len(GetBytes(sent[Len(decoded) + 1])) :
                 (storage \o wire)[j] = GetBytes(sent[Len(decoded) + 1])[j]
           /\ Len(decoded) + 1 = Len(sent)
                 => Len(GetBytes(sent[Len(decoded) + 1])) = Len(storage \o wire)
<1> DEFINE d == Len(decoded)
           s == Len(sent)
           m == sent[d + 1]
           g == GetBytes(m)
           stream == storage \o wire
<1>1. d \in Nat /\ s \in Nat /\ sent \in Seq(Messages) /\ DOMAIN sent = 1 .. s
      /\ stream \in Seq(Bytes)
  BY LenProperties, ConcatProperties DEF TypeInv, TypeOK
<1>2. PICK at : Cut(at)
  BY DEF Stream
<1>3. /\ at \in [d .. s -> Nat] /\ at[d] = 0 /\ at[s] = Len(stream) /\ d <= s
      /\ \A k, l \in d .. s : k <= l => at[k] <= at[l]
      /\ \A k \in d + 1 .. s :
            /\ at[k] = at[k - 1] + Len(GetBytes(sent[k]))
            /\ \A j \in 1 .. Len(GetBytes(sent[k])) : stream[at[k - 1] + j] = GetBytes(sent[k])[j]
  BY <1>2 DEF Cut, Cuts, Stream, Following
<1>4. Len(stream) \in Nat \ {0}
  BY <1>1, EmptySeq, LenProperties
<1> HIDE DEF d, s, stream
<1>5. d # s
  BY <1>3, <1>4
<1>6. d + 1 <= s /\ d + 1 \in d + 1 .. s /\ d + 1 \in d .. s /\ s \in d .. s
      /\ (d + 1) - 1 = d /\ d + 1 \in 1 .. s
  <2>1. d \in Nat /\ s \in Nat /\ d <= s /\ d # s
    BY <1>1, <1>3, <1>5
  <2> QED BY <2>1
<1>7. m \in Messages
  BY <1>1, <1>6, ElementOfSeq DEF s
<1>8. IsMessage(m) /\ Fits(m)
  BY <1>1, <1>6, <1>7, ProtoTransitAssumption DEF AllFit
<1>9. g \in Seq(Bytes) /\ Len(g) \in Nat
  BY <1>8, BytesOf, LenProperties
<1> HIDE DEF m
<1>10. at[d + 1] = 0 + Len(g) /\ \A j \in 1 .. Len(g) : stream[0 + j] = g[j]
  BY <1>3, <1>6 DEF m
<1>11. Len(g) <= Len(stream) /\ \A j \in 1 .. Len(g) : stream[j] = g[j]
  <2>1. at[d + 1] <= at[s]
    BY <1>3, <1>6
  <2> HIDE DEF g
  <2>2. \A j \in 1 .. Len(g) : 0 + j = j
    BY <1>9
  <2> QED BY <1>3, <1>9, <1>10, <2>1, <2>2
<1>12. d + 1 = s => Len(g) = Len(stream)
  BY <1>3, <1>9, <1>10
<1> QED BY <1>1, <1>6, <1>7, <1>8, <1>9, <1>11, <1>12 DEF d, s, m, g, stream

\* A read of a part of the first message leaves the stream as it is.
LEMMA ReadPart ==
    ASSUME TypeInv, AllFit, Stream, NEW n \in ChunkSizes, Read(n),
           Len(Have(n)) < Len(GetBytes(sent[Len(decoded) + 1])), TypeInv'
    PROVE  Stream'
<1> DEFINE m == sent[Len(decoded) + 1]
<1>1. /\ wire \in Seq(Bytes) /\ storage \in Seq(Bytes) /\ wire # << >>
  BY ReadUnfolds DEF TypeInv, TypeOK
<1>2. /\ Have(n) \in Seq(Bytes) /\ Left(n) \in Seq(Bytes)
      /\ Have(n) \o Left(n) = storage \o wire
  BY <1>1, ReadFacts
<1>3. storage \o wire # << >>
  <2>1. Len(storage \o wire) = Len(storage) + Len(wire) /\ Len(wire) \in Nat \ {0}
        /\ Len(storage) \in Nat
    BY <1>1, ConcatProperties, EmptySeq, LenProperties
  <2> QED BY <2>1
<1>4. /\ IsMessage(m) /\ Fits(m) /\ Len(GetBytes(m)) \in Nat
      /\ Len(GetBytes(m)) <= Len(storage \o wire)
      /\ \A j \in 1 .. Len(GetBytes(m)) : (storage \o wire)[j] = GetBytes(m)[j]
      /\ Len(decoded) + 1 = Len(sent) => Len(GetBytes(m)) = Len(storage \o wire)
      /\ Len(decoded) + 1 <= Len(sent) /\ Len(decoded) \in Nat /\ Len(sent) \in Nat
  BY <1>3, FirstUnderWay
<1> HIDE DEF m
<1>5. \A k \in 1 .. Len(Have(n)) : Have(n)[k] = GetBytes(m)[k]
  <2>1. \A k \in 1 .. Len(Have(n)) : (Have(n) \o Left(n))[k] = Have(n)[k]
    BY <1>2, JoinedBytes, Zenon
  <2>2. Len(Have(n)) \in Nat /\ Len(Have(n)) < Len(GetBytes(m))
    BY <1>2, LenProperties DEF m
  <2>3. \A k \in 1 .. Len(Have(n)) : k \in 1 .. Len(GetBytes(m))
    BY <1>4, <2>2
  <2> QED BY <1>2, <1>4, <2>1, <2>3
<1>6. TryParseMessage(Have(n)) = Incomplete
  BY <1>2, <1>4, <1>5, Waits DEF m
<1>7. /\ wire' = Left(n) /\ storage' = Have(n) /\ decoded' = decoded /\ sent' = sent
      /\ window' = window /\ failed' = FALSE
  <2>1. TryParseMessage(Have(n)).is = "incomplete"
    BY <1>6 DEF Incomplete
  <2>2. TryParseMessage(Have(n)).is # "parsed" /\ TryParseMessage(Have(n)).is # "throws"
    BY <2>1
  <2> QED BY <2>2, ReadUnfolds
<1>8. storage' \o wire' = storage \o wire
  BY <1>2, <1>7
<1>9. (\E at : Cut(at))'
  <2>1. PICK at : Cut(at)
    BY DEF Stream
  <2>2. Cut(at)'
    BY <1>7, <1>8, <2>1, Zenon DEF Cut
  <2> QED BY <2>2
<1>10. Following'
  BY <1>7 DEF Stream, Following
<1>11. window' = 1 => Len(sent') <= Len(decoded') + 1
  BY <1>7 DEF Stream
<1>12. window' = 1 => wire' # << >>
  <2> SUFFICES ASSUME window = 1, wire' = << >> PROVE FALSE
    BY <1>7
  <2>1. Len(sent) <= Len(decoded) + 1
    BY DEF Stream
  <2>2. Len(GetBytes(m)) = Len(storage \o wire)
    BY <1>4, <2>1
  <2>3. Have(n) \o << >> = Have(n)
    BY <1>2, ConcatEmptySeq
  <2>4. Len(Have(n)) = Len(storage \o wire)
    BY <1>2, <1>7, <2>3
  <2>5. Len(Have(n)) < Len(GetBytes(m))
    BY DEF m
  <2> QED BY <1>4, <2>2, <2>4, <2>5
<1> QED BY <1>7, <1>9, <1>10, <1>11, <1>12 DEF Stream

\* A read with the end of the first message takes it from the stream.
LEMMA ReadWhole ==
    ASSUME TypeInv, AllFit, Stream, NEW n \in ChunkSizes, Read(n),
           Len(GetBytes(sent[Len(decoded) + 1])) <= Len(Have(n)), TypeInv'
    PROVE  Stream'
<1> DEFINE d == Len(decoded)
           s == Len(sent)
           m == sent[d + 1]
           g == GetBytes(m)
           stream == storage \o wire
           stream1 == storage' \o wire'
<1>1. /\ wire \in Seq(Bytes) /\ storage \in Seq(Bytes) /\ wire # << >>
  BY ReadUnfolds DEF TypeInv, TypeOK
<1>2. /\ Have(n) \in Seq(Bytes) /\ Left(n) \in Seq(Bytes)
      /\ Have(n) \o Left(n) = stream
  BY <1>1, ReadFacts
<1>3. stream # << >>
  <2>1. Len(storage \o wire) = Len(storage) + Len(wire) /\ Len(wire) \in Nat \ {0}
        /\ Len(storage) \in Nat
    BY <1>1, ConcatProperties, EmptySeq, LenProperties
  <2> QED BY <2>1
<1>4. /\ IsMessage(m) /\ Fits(m) /\ Len(g) \in Nat
      /\ Len(g) <= Len(stream)
      /\ \A j \in 1 .. Len(g) : stream[j] = g[j]
      /\ d + 1 = s => Len(g) = Len(stream)
      /\ d + 1 <= s /\ d \in Nat /\ s \in Nat
  BY <1>3, FirstUnderWay
<1>5. Len(g) <= Len(Have(n)) /\ Len(Have(n)) \in Nat
  BY <1>2, LenProperties
<1>6. \A k \in 1 .. Len(g) : Have(n)[k] = g[k]
  <2>1. \A k \in 1 .. Len(Have(n)) : (Have(n) \o Left(n))[k] = Have(n)[k]
    BY <1>2, JoinedBytes, Zenon
  <2> HIDE DEF g, stream
  <2>2. \A k \in 1 .. Len(g) : k \in 1 .. Len(Have(n))
    BY <1>4, <1>5
  <2> QED BY <1>2, <1>4, <2>1, <2>2
<1>7. TryParseMessage(Have(n)) =
        [is |-> "parsed", message |-> m, reminder |-> SubSeq(Have(n), Len(g) + 1, Len(Have(n)))]
  BY <1>2, <1>4, <1>5, <1>6, Parses
<1>8. /\ wire' = Left(n) /\ storage' = SubSeq(Have(n), Len(g) + 1, Len(Have(n)))
      /\ decoded' = Append(decoded, m) /\ sent' = sent
      /\ window' = window /\ failed' = FALSE
  <2> HIDE DEF m, g
  <2>1. /\ TryParseMessage(Have(n)).is = "parsed" /\ TryParseMessage(Have(n)).is # "throws"
        /\ TryParseMessage(Have(n)).message = m
        /\ TryParseMessage(Have(n)).reminder = SubSeq(Have(n), Len(g) + 1, Len(Have(n)))
    BY <1>7
  <2> QED BY <2>1, ReadUnfolds
<1>9. /\ Len(stream1) = Len(stream) - Len(g)
      /\ \A j \in 1 .. Len(stream) - Len(g) : stream1[j] = stream[Len(g) + j]
      /\ Len(storage') = Len(Have(n)) - Len(g)
  <2> HIDE DEF g
  <2> HIDE DEF stream
  <2>1. Len(g) \in 0 .. Len(Have(n))
    BY <1>4, <1>5
  <2> DEFINE r == SubSeq(Have(n), Len(g) + 1, Len(Have(n)))
  <2>2. /\ Len(r) = Len(Have(n)) - Len(g)
        /\ Len(r \o Left(n)) = Len(Have(n) \o Left(n)) - Len(g)
        /\ \A j \in 1 .. Len(Have(n) \o Left(n)) - Len(g) :
              (r \o Left(n))[j] = (Have(n) \o Left(n))[Len(g) + j]
    BY <1>2, <2>1, Dropped
  <2> HIDE DEF r
  <2>3. storage' = r /\ wire' = Left(n)
    BY <1>8 DEF r
  <2> QED BY <1>2, <2>2, <2>3, Zenon
<1>10. /\ Len(decoded') = d + 1 /\ \A i \in 1 .. d : decoded'[i] = decoded[i]
       /\ decoded'[d + 1] = m
  <2>1. decoded \in Seq(ToSet(decoded))
    BY DEF TypeInv
  <2> HIDE DEF m
  <2> QED BY <1>8, <2>1, Grown
<1>11. PICK at : Cut(at)
  BY DEF Stream
<1>12. /\ at \in [d .. s -> Nat] /\ at[d] = 0 /\ at[s] = Len(stream)
       /\ \A k, l \in d .. s : k <= l => at[k] <= at[l]
       /\ \A k \in d + 1 .. s :
             /\ at[k] = at[k - 1] + Len(GetBytes(sent[k]))
             /\ \A j \in 1 .. Len(GetBytes(sent[k])) : stream[at[k - 1] + j] = GetBytes(sent[k])[j]
  BY <1>11 DEF Cut, Cuts
<1>13. \A k \in d + 1 .. s : Len(GetBytes(sent[k])) \in Nat
  <2> SUFFICES ASSUME NEW k \in d + 1 .. s PROVE Len(GetBytes(sent[k])) \in Nat
    OBVIOUS
  <2>1. sent[k] \in Messages
    <3>1. sent \in Seq(Messages) /\ k \in 1 .. Len(sent)
      BY <1>4 DEF TypeInv
    <3> QED BY <3>1, ElementOfSeq
  <2>2. GetBytes(sent[k]) \in Seq(Bytes)
    BY <2>1, ProtoTransitAssumption, BytesOf
  <2> QED BY <2>2, LenProperties
<1>14. Following'
  <2>1. \A i \in 1 .. d : decoded[i] = sent[i]
    BY DEF Stream, Following
  <2>2. \A i \in 1 .. d + 1 : i \in 1 .. d \/ i = d + 1
    BY <1>4
  <2>3. \A i \in 1 .. d + 1 : decoded'[i] = sent[i]
    BY <1>10, <2>1, <2>2
  <2> QED BY <1>4, <1>8, <1>10, <2>3 DEF Following
<1>15. window' = 1 => Len(sent') <= Len(decoded') + 1
  BY <1>4, <1>8, <1>10 DEF Stream
<1>16. window' = 1 /\ wire' = << >> => decoded' = sent' /\ storage' = << >>
  <2> SUFFICES ASSUME window = 1, wire' = << >> PROVE decoded' = sent' /\ storage' = << >>
    BY <1>8
  <2>1. s <= d + 1
    BY DEF Stream
  <2>2. d + 1 = s /\ Len(g) = Len(stream)
    BY <1>4, <2>1
  <2>3. Have(n) \o << >> = Have(n)
    BY <1>2, ConcatEmptySeq
  <2>4. Len(Have(n)) = Len(g)
    BY <1>2, <1>8, <2>2, <2>3
  <2>5. storage' = << >>
    <3>1. Len(storage') = 0
      BY <1>4, <1>9, <2>4
    <3>2. storage' \in Seq(Bytes)
      BY DEF TypeInv, TypeOK
    <3> QED BY <3>1, <3>2, EmptySeq
  <2>6. decoded' = sent'
    <3>1. \A i \in 1 .. s : decoded'[i] = sent[i]
      BY <1>10, <1>14, <1>8, <2>2 DEF Following
    <3>2. sent \in Seq(Messages) /\ Len(decoded') = s /\ decoded' \in Seq(ToSet(decoded'))
      <4>1. (decoded \in Seq(ToSet(decoded)))'
        BY DEF TypeInv
      <4> QED BY <1>10, <2>2, <4>1 DEF TypeInv, ToSet
    <3>3. decoded' = [i \in 1 .. s |-> decoded'[i]] /\ sent = [i \in 1 .. s |-> sent[i]]
      BY <3>2
    <3>4. decoded' = sent
      BY <3>1, <3>3
    <3> QED BY <1>8, <3>4
  <2> QED BY <2>5, <2>6
<1> HIDE DEF d, s, g, stream, stream1
<1> PICK at1 : at1 = [k \in d + 1 .. s |-> at[k] - Len(g)]
  OBVIOUS
<1>17. at[d + 1] = Len(g)
  <2>1. d + 1 \in d + 1 .. s /\ (d + 1) - 1 = d
    BY <1>4
  <2>2. at[d + 1] = 0 + Len(g)
    BY <1>12, <2>1 DEF g
  <2> QED BY <1>4, <2>2
<1>18. \A k \in d + 1 .. s : /\ at[k] \in Nat /\ at[k] >= Len(g)
                            /\ at1[k] = at[k] - Len(g) /\ at1[k] \in Nat
  <2> SUFFICES ASSUME NEW k \in d + 1 .. s
               PROVE  at[k] \in Nat /\ at[k] >= Len(g)
                      /\ at1[k] = at[k] - Len(g) /\ at1[k] \in Nat
    OBVIOUS
  <2>1. d + 1 \in d .. s /\ k \in d .. s /\ d + 1 <= k
    BY <1>4
  <2>2. at[k] \in Nat /\ at[d + 1] <= at[k]
    BY <1>12, <2>1
  <2> QED BY <1>4, <1>17, <2>2
<1>19. at1 \in [d + 1 .. s -> Nat]
  BY <1>18
<1>20. at1[d + 1] = 0 /\ at1[s] = Len(stream1)
  <2>1. d + 1 \in d + 1 .. s /\ s \in d + 1 .. s
    BY <1>4
  <2>2. /\ at1[d + 1] = at[d + 1] - Len(g) /\ at1[s] = at[s] - Len(g)
        /\ at[d + 1] = Len(g) /\ at[s] = Len(stream) /\ Len(g) \in Nat
        /\ Len(stream1) = Len(stream) - Len(g)
    BY <1>4, <1>9, <1>12, <1>17, <1>18, <2>1
  <2> QED BY <2>2
<1>21. \A k, l \in d + 1 .. s : k <= l => at1[k] <= at1[l]
  <2> SUFFICES ASSUME NEW k \in d + 1 .. s, NEW l \in d + 1 .. s, k <= l PROVE at1[k] <= at1[l]
    OBVIOUS
  <2>1. k \in d .. s /\ l \in d .. s
    BY <1>4
  <2>2. at[k] <= at[l] /\ at[k] \in Nat /\ at[l] \in Nat
    BY <1>12, <1>18, <2>1
  <2> QED BY <1>4, <1>18, <2>2
<1>22. ASSUME NEW k \in d + 1 + 1 .. s
       PROVE  /\ at1[k] = at1[k - 1] + Len(GetBytes(sent[k]))
              /\ \A j \in 1 .. Len(GetBytes(sent[k])) : stream1[at1[k - 1] + j] = GetBytes(sent[k])[j]
  <2> DEFINE len == Len(GetBytes(sent[k]))
  <2>1. k \in d + 1 .. s /\ k - 1 \in d + 1 .. s /\ k \in d .. s /\ s \in d .. s /\ k <= s
    BY <1>4
  <2>2. len \in Nat /\ at[k] = at[k - 1] + len
        /\ \A j \in 1 .. len : stream[at[k - 1] + j] = GetBytes(sent[k])[j]
    BY <1>12, <1>13, <2>1
  <2>3. /\ at[k - 1] \in Nat /\ at[k - 1] >= Len(g) /\ at1[k - 1] = at[k - 1] - Len(g)
        /\ at[k] \in Nat /\ at1[k] = at[k] - Len(g) /\ at[k] <= Len(stream)
    BY <1>12, <1>18, <2>1
  <2> HIDE DEF len
  <2>3a. Len(g) \in Nat
    BY <1>4
  <2>4. at1[k] = at1[k - 1] + len
    BY <2>2, <2>3, <2>3a
  <2>5. ASSUME NEW j \in 1 .. len PROVE stream1[at1[k - 1] + j] = GetBytes(sent[k])[j]
    <3> DEFINE p == at1[k - 1] + j
    <3>1. p \in Nat /\ p >= 1 /\ Len(g) + p = at[k - 1] + j /\ Len(g) + p <= at[k]
      <4>1. at[k] = at[k - 1] + len /\ len \in Nat /\ j \in 1 .. len
        BY <2>2
      <4> DEFINE a == at[k - 1]
                 lg == Len(g)
      <4>2. a \in Nat /\ a >= lg /\ at1[k - 1] = a - lg /\ lg \in Nat /\ at[k] = a + len
        BY <2>3, <2>3a, <4>1
      <4> HIDE DEF a, lg
      <4>3. (a - lg) + j \in Nat /\ (a - lg) + j >= 1 /\ lg + ((a - lg) + j) = a + j
            /\ a + j <= a + len
        BY <4>1, <4>2
      <4>4. p = (a - lg) + j
        BY <4>2
      <4> QED BY <4>2, <4>3, <4>4 DEF a, lg
    <3> HIDE DEF p
    <3>2. Len(stream) \in Nat
      <4>1. stream \in Seq(Bytes)
        BY <1>1, ConcatProperties DEF stream
      <4> QED BY <4>1, LenProperties
    <3>3. p \in 1 .. Len(stream) - Len(g)
      BY <1>4, <2>3, <3>1, <3>2
    <3>4. stream1[p] = stream[Len(g) + p]
      BY <1>9, <3>3
    <3> QED BY <2>2, <3>1, <3>4 DEF p
  <2> QED BY <2>4, <2>5 DEF len
<1>23. Cut(at1)'
  <2>1. Len(decoded') = d + 1 /\ Len(sent') = s /\ sent' = sent /\ storage' \o wire' = stream1
    BY <1>8, <1>10 DEF s, stream1
  <2>2. Cuts(at1, d + 1, sent, stream1)
    BY <1>19, <1>20, <1>21, <1>22 DEF Cuts, s
  <2> QED BY <2>1, <2>2, Zenon DEF Cut
<1> QED BY <1>8, <1>14, <1>15, <1>16, <1>23 DEF Stream

\* Reading preserves the stream: the message is there, or it is not yet.
LEMMA ReadStream ==
    ASSUME StreamInv, NEW n \in ChunkSizes, Read(n)
    PROVE  StreamInv'
<1>1. TypeInv /\ TypeInv'
  BY ReadTyped DEF StreamInv
<1>2. AllFit' <=> AllFit
  BY ReadUnfolds DEF AllFit
<1>3. ASSUME AllFit PROVE Stream'
  <2>1. Stream
    BY <1>3 DEF StreamInv
  <2>2. CASE Len(Have(n)) < Len(GetBytes(sent[Len(decoded) + 1]))
    BY <1>1, <1>3, <2>1, <2>2, ReadPart
  <2>3. CASE Len(GetBytes(sent[Len(decoded) + 1])) <= Len(Have(n))
    BY <1>1, <1>3, <2>1, <2>3, ReadWhole
  <2>4. Len(Have(n)) \in Nat /\ Len(GetBytes(sent[Len(decoded) + 1])) \in Nat
    <3>1. wire \in Seq(Bytes) /\ storage \in Seq(Bytes) /\ wire # << >>
      BY <1>1, ReadUnfolds DEF TypeInv, TypeOK
    <3>2. storage \o wire # << >>
      <4>1. Len(storage \o wire) = Len(storage) + Len(wire) /\ Len(wire) \in Nat \ {0}
            /\ Len(storage) \in Nat
        BY <3>1, ConcatProperties, EmptySeq, LenProperties
      <4> QED BY <4>1
    <3>3. Have(n) \in Seq(Bytes)
      BY <3>1, ReadFacts
    <3> QED BY <1>1, <1>3, <2>1, <3>2, <3>3, FirstUnderWay, LenProperties
  <2> QED BY <2>2, <2>3, <2>4
<1> QED BY <1>1, <1>2, <1>3 DEF StreamInv

\* The stream can always be cut into the messages under way.
LEMMA AlwaysStream == Spec => []StreamInv
<1>1. StreamInv /\ [Next]_vars => StreamInv'
  <2> SUFFICES ASSUME StreamInv, [Next]_vars PROVE StreamInv'
    OBVIOUS
  <2>1. ASSUME NEW m \in Messages, Send(m) PROVE StreamInv'
    BY <2>1, SendStream
  <2>2. ASSUME NEW n \in ChunkSizes, Read(n) PROVE StreamInv'
    BY <2>2, ReadStream
  <2>3. ASSUME UNCHANGED vars PROVE StreamInv'
    <3>1. /\ window' = window /\ sent' = sent /\ wire' = wire /\ storage' = storage
          /\ decoded' = decoded /\ failed' = failed
      BY <2>3 DEF vars
    <3>2. TypeInv'
      BY <3>1 DEF StreamInv, TypeInv, TypeOK, ToSet
    <3>3. AllFit' => AllFit
      BY <3>1 DEF AllFit
    <3>4. \A at : Cut(at) => Cut(at)'
      BY <3>1, Zenon DEF Cut
    <3>5. Stream => Stream'
      <4>1. Following => Following'
        BY <3>1 DEF Following
      <4> HIDE DEF Following, Cut
      <4> QED BY <3>1, <3>4, <4>1 DEF Stream
    <3> QED BY <3>2, <3>3, <3>5 DEF StreamInv
  <2> QED BY <2>1, <2>2, <2>3 DEF Next
<1> QED BY <1>1, InitStream, PTL DEF Spec

\* As long as every length fits its header item, the parser returns the messages
\* that were sent, in their order and each with its bytes, and never throws: for any
\* messages, any sizes of the chunks and any number of messages under way.
THEOREM ReadAsWritten == Spec => []DecodedAsSent
<1>1. StreamInv => DecodedAsSent
  <2> SUFFICES ASSUME StreamInv, AllFit PROVE IsPrefix(decoded, sent) /\ ~failed
    BY DEF DecodedAsSent
  <2> DEFINE d == Len(decoded)
             S == ToSet(decoded) \cup Messages
  <2>1. /\ ~failed /\ d <= Len(sent) /\ \A i \in 1 .. d : decoded[i] = sent[i]
        /\ decoded \in Seq(ToSet(decoded)) /\ sent \in Seq(Messages)
    BY DEF StreamInv, Stream, Following, TypeInv
  <2>2. decoded \in Seq(S) /\ sent \in Seq(S)
    BY <2>1, SeqMonotonic
  <2> HIDE DEF S
  <2>3. d \in Nat /\ Len(sent) \in Nat
    BY <2>2, LenProperties
  <2>4. (\A i \in 1 .. d : decoded[i] \in S) /\ (\A i \in 1 .. d : sent[i] \in S)
    BY <2>1, <2>2, <2>3, ElementOfSeq
  <2> HIDE DEF d
  <2>5. 1 \in Int /\ d \in Int /\ d - 1 + 1 = d /\ \A i \in 1 .. d : 1 + i - 1 = i
    BY <2>3
  <2>6. /\ SubSeq(decoded, 1, d) \in Seq(S)
        /\ Len(SubSeq(decoded, 1, d)) = IF 1 <= d THEN d - 1 + 1 ELSE 0
        /\ \A i \in 1 .. d - 1 + 1 : SubSeq(decoded, 1, d)[i] = decoded[1 + i - 1]
    BY <2>4, <2>5, SubSeqProperties
  <2>7. /\ SubSeq(sent, 1, d) \in Seq(S)
        /\ Len(SubSeq(sent, 1, d)) = IF 1 <= d THEN d - 1 + 1 ELSE 0
        /\ \A i \in 1 .. d - 1 + 1 : SubSeq(sent, 1, d)[i] = sent[1 + i - 1]
    BY <2>4, <2>5, SubSeqProperties
  <2>8. Len(SubSeq(decoded, 1, d)) = d /\ Len(SubSeq(sent, 1, d)) = d
    BY <2>3, <2>6, <2>7
  <2>9. \A i \in 1 .. d : SubSeq(decoded, 1, d)[i] = SubSeq(sent, 1, d)[i]
    BY <2>1, <2>5, <2>6, <2>7
  <2>10. SubSeq(decoded, 1, d) = SubSeq(sent, 1, d)
    BY <2>6, <2>7, <2>8, <2>9, SeqEqual
  <2> QED BY <2>1, <2>10 DEF IsPrefix, d
<1> QED BY <1>1, AlwaysStream, PTL

\* Between ends that wait for each other, a message is parsed with its last byte.
THEOREM ParsedWithLastByte == Spec => []NoneLeftOver
<1>1. StreamInv => NoneLeftOver
  BY DEF StreamInv, Stream, NoneLeftOver
<1> QED BY <1>1, AlwaysStream, PTL

===============================================================================

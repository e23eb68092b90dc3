------------------------ MODULE MessageBrokerProofs -------------------------
(* Proofs about MessageBroker.                                             *)
EXTENDS MessageBroker, FiniteSetTheorems, SequenceTheorems, WellFoundedInduction, TLAPS

\* How often an account occurs in an array is a number.
LEMMA OccurrencesType ==
    ASSUME NEW array \in Seq(Accounts), NEW a
    PROVE  Occurrences(array, a) \in Nat
<1> DEFINE places == {i \in 1 .. Len(array) : array[i] = a}
<1>1. IsFiniteSet(1 .. Len(array)) BY FS_Interval
<1>2. IsFiniteSet(places) BY <1>1, FS_Subset
<1> QED BY <1>2, FS_CardinalityType DEF Occurrences

\* No account is charged more than it has.
LEMMA ServedBounds ==
    ASSUME TypeOK, NEW t \in Topics, NEW a \in Accounts
    PROVE  Served(t, a) \in 0 .. balance[t][a]
<1>1. subscribers[t] \in Seq(Accounts) /\ balance[t][a] \in Nat
  BY DEF TypeOK
<1>2. Occurrences(subscribers[t], a) \in Nat
  BY <1>1, OccurrencesType
<1> QED BY <1>1, <1>2 DEF Served

\* A message more, so many times, in an inbox.
LEMMA InboxGrows ==
    ASSUME NEW q \in Seq(Nat), NEW n \in Nat, NEW m \in Nat
    PROVE  /\ q \o [i \in 1 .. n |-> m] \in Seq(Nat)
           /\ Len(q \o [i \in 1 .. n |-> m]) = Len(q) + n
<1>1. [i \in 1 .. n |-> m] \in Seq(Nat) /\ Len([i \in 1 .. n |-> m]) = n
  OBVIOUS
<1> HIDE DEF Len
<1> QED BY <1>1

\* deleteFromArray leaves an array of accounts.
LEMMA DeleteType ==
    ASSUME NEW array \in Seq(Accounts), NEW a, Occurs(array, a)
    PROVE  DeleteFromArray(array, a) \in Seq(Accounts)
<1> DEFINE first == CHOOSE i \in 1 .. Len(array) :
                        array[i] = a /\ \A j \in 1 .. i - 1 : array[j] # a
           moved == [array EXCEPT ![first] = array[Len(array)]]
<1>1. Len(array) \in Nat \ {0} /\ array[Len(array)] \in Accounts
  BY DEF Occurs
<1>2. moved \in Seq(Accounts) /\ Len(moved) = Len(array)
  <2>1. CASE first \in 1 .. Len(array)
    <3> HIDE DEF first
    <3> QED BY <1>1, <2>1, ExceptSeq
  <2>2. CASE first \notin 1 .. Len(array)
    <3> HIDE DEF first
    <3>1. moved = array BY <2>2
    <3> QED BY <3>1
  <2> QED BY <2>1, <2>2
<1>3. SubSeq(moved, 1, Len(array) - 1) \in Seq(Accounts)
  BY <1>1, <1>2
<1> QED BY <1>3 DEF DeleteFromArray

-----------------------------------------------------------------------------

LEMMA InitTypeOK == Init => TypeOK
BY DEF Init, TypeOK

\* Every transaction keeps the state of its type.
LEMMA NextTypeOK == TypeOK /\ [Next]_vars => TypeOK'
<1> SUFFICES ASSUME TypeOK, [Next]_vars PROVE TypeOK'
  OBVIOUS
<1>1. CASE UNCHANGED vars
  BY <1>1 DEF vars, contractVars, TypeOK
<1>2. ASSUME NEW t \in Topics, NEW a \in Accounts, Advertise(t, a) PROVE TypeOK'
  BY <1>2 DEF Advertise, TypeOK
<1>3. ASSUME NEW t \in Topics, NEW a \in Accounts, NEW value, Subscribe(t, a, value) PROVE TypeOK'
  <2>1. /\ joined' \in [Topics -> [Accounts -> Nat]]
        /\ balance' \in [Topics -> [Accounts -> Nat]]
    BY <1>3, ContractAssumption DEF Subscribe, TypeOK
  <2>2. /\ seen' \in [Topics -> [Accounts -> Nat]]
        /\ subscribers' \in [Topics -> Seq(Accounts)]
    BY <1>3 DEF Subscribe, TypeOK
  <2> QED BY <1>3, <2>1, <2>2 DEF Subscribe, TypeOK
<1>4. ASSUME NEW t \in Topics, NEW a \in Accounts, Publish(t, a) PROVE TypeOK'
  <2>1. \A s \in Accounts : /\ balance[t][s] \in Nat
                            /\ Served(t, s) \in 0 .. balance[t][s]
                            /\ inbox[t][s] \in Seq(Nat)
    BY ServedBounds DEF TypeOK
  <2>2. [s \in Accounts |-> balance[t][s] - Served(t, s)] \in [Accounts -> Nat]
    BY <2>1
  <2>3. ASSUME NEW s \in Accounts
        PROVE  inbox[t][s] \o [i \in 1 .. Served(t, s) |-> messages[t] + 1] \in Seq(Nat)
    <3>1. Served(t, s) \in Nat BY <2>1
    <3>2. messages[t] + 1 \in Nat BY DEF TypeOK
    <3> QED BY <2>1, <3>1, <3>2, InboxGrows
  <2>4. inbox' \in [Topics -> [Accounts -> Seq(Nat)]]
    <3> DEFINE new == [s \in Accounts |->
                          inbox[t][s] \o [i \in 1 .. Served(t, s) |-> messages[t] + 1]]
    <3>1. new \in [Accounts -> Seq(Nat)] BY <2>3
    <3>2. inbox' = [inbox EXCEPT ![t] = new] BY <1>4 DEF Publish
    <3> HIDE DEF new
    <3> QED BY <3>1, <3>2 DEF TypeOK
  <2>5. balance' \in [Topics -> [Accounts -> Nat]]
    BY <1>4, <2>2 DEF Publish, TypeOK
  <2>6. messages' \in [Topics -> Nat]
    BY <1>4 DEF Publish, TypeOK
  <2>7. UNCHANGED <<named, publishers, subscribers, joined, left, seen>>
    BY <1>4 DEF Publish
  <2> QED BY <2>4, <2>5, <2>6, <2>7 DEF TypeOK
<1>5. ASSUME NEW t \in Topics, NEW a \in Accounts, Unsubscribe(t, a) PROVE TypeOK'
  <2>1. DeleteFromArray(subscribers[t], a) \in Seq(Accounts)
    BY <1>5, DeleteType DEF Unsubscribe, TypeOK
  <2> QED BY <1>5, <2>1 DEF Unsubscribe, TypeOK
<1> QED BY <1>1, <1>2, <1>3, <1>4, <1>5 DEF Next

\* Whatever transactions are made, and in whichever order, the state of the
\* contract has its type; no balance goes below zero.
THEOREM TypeCorrect == Spec => []TypeOK
BY InitTypeOK, NextTypeOK, PTL DEF Spec

-----------------------------------------------------------------------------

LEMMA InitFees == Init => FeesBalance
BY ContractAssumption DEF Init, FeesBalance

\* Every transaction keeps the account of the fees.
LEMMA NextFees == TypeOK /\ FeesBalance /\ [Next]_vars => FeesBalance'
<1> SUFFICES ASSUME TypeOK, FeesBalance, [Next]_vars,
                    NEW u \in Topics, NEW s \in Accounts
             PROVE  (Deposit * joined[u][s] = balance[u][s] + Len(inbox[u][s]))'
  BY DEF FeesBalance
<1> DEFINE paid == Deposit * joined[u][s]
<1>1. paid = balance[u][s] + Len(inbox[u][s])
  BY DEF FeesBalance
<1>2. /\ joined[u][s] \in Nat /\ balance[u][s] \in Nat
      /\ inbox[u][s] \in Seq(Nat) /\ Deposit \in Nat
  BY ContractAssumption DEF TypeOK
<1>3. CASE UNCHANGED <<joined, balance, inbox>>
  BY <1>1, <1>3
<1>4. ASSUME NEW t \in Topics, NEW a \in Accounts, NEW value, Subscribe(t, a, value)
      PROVE  (Deposit * joined[u][s] = balance[u][s] + Len(inbox[u][s]))'
  <2>1. CASE u = t /\ s = a
    <3>1. /\ joined'[u][s] = joined[u][s] + 1
          /\ balance'[u][s] = balance[u][s] + Deposit
          /\ inbox'[u][s] = inbox[u][s]
      BY <1>4, <2>1 DEF Subscribe, TypeOK
    <3>2. \A j \in Nat : Deposit * (j + 1) = Deposit * j + Deposit
      BY <1>2
    <3>3. Deposit * joined'[u][s] = paid + Deposit
      BY <1>2, <3>1, <3>2
    <3> DEFINE has == balance[u][s]
               got == Len(inbox[u][s])
    <3>4. paid \in Int /\ has \in Int /\ got \in Int /\ Deposit \in Int
      BY <1>2
    <3>5. paid = has + got BY <1>1
    <3>6. balance'[u][s] + Len(inbox'[u][s]) = has + Deposit + got
      BY <3>1
    <3> HIDE DEF paid, has, got
    <3>7. has + Deposit + got = paid + Deposit
      BY <3>4, <3>5
    <3> QED BY <3>3, <3>6, <3>7
  <2>2. CASE ~(u = t /\ s = a)
    <3>1. /\ joined'[u][s] = joined[u][s]
          /\ balance'[u][s] = balance[u][s]
          /\ inbox'[u][s] = inbox[u][s]
      BY <1>4, <2>2 DEF Subscribe, TypeOK
    <3> QED BY <1>1, <3>1
  <2> QED BY <2>1, <2>2
<1>5. ASSUME NEW t \in Topics, NEW a \in Accounts, Publish(t, a)
      PROVE  (Deposit * joined[u][s] = balance[u][s] + Len(inbox[u][s]))'
  <2>1. CASE u = t
    <3>1. Served(t, s) \in 0 .. balance[t][s]
      BY ServedBounds
    <3>2. /\ joined'[u][s] = joined[u][s]
          /\ balance'[u][s] = balance[u][s] - Served(t, s)
          /\ inbox'[u][s] = inbox[u][s] \o [i \in 1 .. Served(t, s) |-> messages[t] + 1]
      BY <1>5, <2>1 DEF Publish, TypeOK
    <3>3. Served(t, s) \in Nat /\ messages[t] + 1 \in Nat
      BY <1>2, <2>1, <3>1 DEF TypeOK
    <3>4. Len(inbox'[u][s]) = Len(inbox[u][s]) + Served(t, s)
      BY <1>2, <3>2, <3>3, InboxGrows
    <3>5. Len(inbox[u][s]) \in Nat
      BY <1>2
    <3> QED BY <1>1, <1>2, <3>2, <3>3, <3>4, <3>5
  <2>2. CASE u # t
    BY <1>1, <1>5, <2>2 DEF Publish, TypeOK
  <2> QED BY <2>1, <2>2
<1> QED BY <1>3, <1>4, <1>5 DEF Next, Advertise, Unsubscribe, vars, contractVars

\* The contract neither loses nor invents a fee, for any number of accounts,
\* topics, deposits, publications and departures.
THEOREM FeesCorrect == Spec => []FeesBalance
<1>1. TypeOK /\ FeesBalance /\ [Next]_vars => (TypeOK /\ FeesBalance)'
  BY NextTypeOK, NextFees
<1> QED BY InitTypeOK, InitFees, <1>1, PTL DEF Spec

-----------------------------------------------------------------------------
(* Entries of the arrays.                                                  *)

LEMMA LeastNumber ==
    ASSUME NEW S, S \subseteq Nat, S # {}
    PROVE  \E i \in S : \A j \in S : i <= j
<1> DEFINE R == OpToRel(<, Nat)
<1>1. IsWellFoundedOn(R, Nat) BY NatLessThanWellFounded
<1>2. \A i, j \in Nat : i < j => <<i, j>> \in R BY DEF OpToRel
<1> HIDE DEF R
<1>3. PICK i \in S : \A j \in S : <<j, i>> \notin R BY <1>1, WFMin
<1>4. ASSUME NEW j \in S PROVE i <= j
  <2>1. i \in Nat /\ j \in Nat OBVIOUS
  <2>2. ~(j < i) BY <1>2, <1>3, <2>1
  <2> QED BY <2>1, <2>2
<1> QED BY <1>4

Places(array, a) == {i \in 1 .. Len(array) : array[i] = a}

LEMMA PlacesCounted ==
    ASSUME NEW array \in Seq(Accounts), NEW a
    PROVE  /\ IsFiniteSet(Places(array, a))
           /\ Occurrences(array, a) = Cardinality(Places(array, a))
           /\ Occurrences(array, a) \in Nat
           /\ Occurrences(array, a) = 0 <=> ~Occurs(array, a)
<1>1. IsFiniteSet(1 .. Len(array)) BY FS_Interval
<1>2. IsFiniteSet(Places(array, a)) BY <1>1, FS_Subset DEF Places
<1>3. Occurrences(array, a) = Cardinality(Places(array, a)) BY DEF Occurrences, Places
<1>4. Places(array, a) = {} <=> ~Occurs(array, a) BY DEF Places, Occurs
<1> QED BY <1>2, <1>3, <1>4, FS_EmptySet, FS_CardinalityType

\* An entry more, at the end.
LEMMA AppendOccurrences ==
    ASSUME NEW array \in Seq(Accounts), NEW a \in Accounts, NEW b \in Accounts
    PROVE  Occurrences(Append(array, a), b) =
               IF b = a THEN Occurrences(array, b) + 1 ELSE Occurrences(array, b)
<1> DEFINE longer == Append(array, a)
           n == Len(array)
<1>1. /\ longer \in Seq(Accounts) /\ n \in Nat /\ Len(longer) = n + 1
      /\ longer[n + 1] = a /\ \A i \in 1 .. n : longer[i] = array[i]
  OBVIOUS
<1> HIDE DEF longer
<1>2. Places(longer, b) = IF b = a THEN Places(array, b) \cup {n + 1} ELSE Places(array, b)
  <2>1. 1 .. n + 1 = (1 .. n) \cup {n + 1} BY <1>1
  <2> HIDE DEF n
  <2> QED BY <1>1, <2>1 DEF Places, n
<1>3. n + 1 \notin Places(array, b) BY <1>1 DEF Places
<1>4. /\ IsFiniteSet(Places(array, b))
      /\ Occurrences(array, b) = Cardinality(Places(array, b))
      /\ Occurrences(longer, b) = Cardinality(Places(longer, b))
  BY <1>1, PlacesCounted
<1> HIDE DEF n
<1>5. CASE b = a
  <2>1. Cardinality(Places(longer, b)) = Cardinality(Places(array, b)) + 1
    BY <1>2, <1>3, <1>4, <1>5, FS_AddElement
  <2> QED BY <1>4, <1>5, <2>1 DEF longer
<1>6. CASE b # a BY <1>2, <1>4, <1>6 DEF longer
<1> QED BY <1>5, <1>6

\* deleteFromArray takes out one entry of the account, and none of another.
LEMMA DeleteOccurrences ==
    ASSUME NEW array \in Seq(Accounts), NEW a \in Accounts, NEW b \in Accounts,
           Occurs(array, a)
    PROVE  Occurrences(DeleteFromArray(array, a), b) =
               IF b = a THEN Occurrences(array, b) - 1 ELSE Occurrences(array, b)
<1> DEFINE n == Len(array)
           First(i) == array[i] = a /\ \A j \in 1 .. i - 1 : array[j] # a
           first == CHOOSE i \in 1 .. n : First(i)
           shorter == DeleteFromArray(array, a)
<1>1. n \in Nat /\ n >= 1 BY DEF Occurs
<1>2. \E i \in 1 .. n : First(i)
  <2>1. Places(array, a) # {} /\ Places(array, a) \subseteq Nat BY DEF Occurs, Places
  <2>2. PICK i \in Places(array, a) : \A j \in Places(array, a) : i <= j
    BY <2>1, LeastNumber
  <2>3. ASSUME NEW j \in 1 .. i - 1 PROVE array[j] # a
    BY <2>2, <2>3 DEF Places
  <2> QED BY <2>2, <2>3 DEF Places
<1>3. first \in 1 .. n /\ array[first] = a
  <2> HIDE DEF n
  <2> QED BY <1>2
<1>4. /\ Len(shorter) = n - 1
      /\ \A i \in 1 .. n - 1 : shorter[i] = IF i = first THEN array[n] ELSE array[i]
  <2> DEFINE moved == [array EXCEPT ![first] = array[n]]
  <2>1. shorter = SubSeq(moved, 1, n - 1) BY DEF DeleteFromArray
  <2> HIDE DEF first, shorter
  <2>2. /\ moved \in Seq(Accounts) /\ Len(moved) = n
        /\ \A i \in 1 .. n : moved[i] = IF i = first THEN array[n] ELSE array[i]
    BY <1>1, <1>3
  <2> HIDE DEF moved
  <2> QED BY <1>1, <2>1, <2>2
<1>5. shorter \in Seq(Accounts) BY DeleteType
<1>6. /\ \A x : x \in Places(array, b) <=> x \in 1 .. n /\ array[x] = b
      /\ \A x : x \in Places(shorter, b) <=> x \in 1 .. n - 1 /\ shorter[x] = b
      /\ 1 .. n = (1 .. n - 1) \cup {n} /\ n \notin 1 .. n - 1
  BY <1>1, <1>4 DEF Places
<1> HIDE DEF n, first, shorter
<1>7. CASE b = a
  <2>1. PICK x \in Places(array, b) : Places(shorter, b) = Places(array, b) \ {x}
    <3>1. CASE array[n] = a
      <4>1. n \in Places(array, b) BY <1>6, <1>7, <3>1
      <4>2. Places(shorter, b) = Places(array, b) \ {n}
        BY <1>3, <1>4, <1>6, <1>7, <3>1
      <4> QED BY <4>1, <4>2
    <3>2. CASE array[n] # a
      <4>1. first \in Places(array, b) BY <1>3, <1>6, <1>7
      <4>2. Places(shorter, b) = Places(array, b) \ {first}
        BY <1>3, <1>4, <1>6, <1>7, <3>2
      <4> QED BY <4>1, <4>2
    <3> QED BY <3>1, <3>2
  <2> QED BY <1>5, <1>7, <2>1, PlacesCounted, FS_RemoveElement DEF shorter
<1>8. CASE b # a /\ array[n] # b
  <2>1. Places(shorter, b) = Places(array, b)
    BY <1>3, <1>4, <1>6, <1>8
  <2> QED BY <1>5, <1>8, <2>1, PlacesCounted DEF shorter
<1>9. CASE b # a /\ array[n] = b
  <2>1. first \in 1 .. n - 1 /\ n \in Places(array, b) /\ first \notin Places(array, b)
    BY <1>3, <1>6, <1>9
  <2>2. Places(shorter, b) = (Places(array, b) \ {n}) \cup {first}
    BY <1>3, <1>4, <1>6, <1>9, <2>1
  <2>3. /\ IsFiniteSet(Places(array, b) \ {n})
        /\ Cardinality(Places(array, b) \ {n}) = Cardinality(Places(array, b)) - 1
    BY <2>1, PlacesCounted, FS_RemoveElement
  <2>4. Cardinality(Places(shorter, b)) = Cardinality(Places(array, b) \ {n}) + 1
    BY <2>1, <2>2, <2>3, FS_AddElement
  <2> QED BY <1>5, <1>9, <2>3, <2>4, PlacesCounted DEF shorter
<1> QED BY <1>7, <1>8, <1>9 DEF shorter

-----------------------------------------------------------------------------

LEMMA InitEntries == Init => EntriesCount
<1> SUFFICES ASSUME Init, NEW t \in Topics, NEW a \in Accounts
             PROVE  Occurrences(subscribers[t], a) + left[t][a] = joined[t][a]
  BY DEF EntriesCount
<1>1. subscribers[t] = << >> /\ left[t][a] = 0 /\ joined[t][a] = 0 BY DEF Init
<1>2. << >> \in Seq(Accounts) /\ ~Occurs(<< >>, a) BY DEF Occurs
<1>3. Occurrences(<< >>, a) = 0 BY <1>2, PlacesCounted
<1> QED BY <1>1, <1>3

\* Every transaction keeps the account of the entries.
LEMMA NextEntries == TypeOK /\ EntriesCount /\ [Next]_vars => EntriesCount'
<1> SUFFICES ASSUME TypeOK, EntriesCount, [Next]_vars,
                    NEW u \in Topics, NEW s \in Accounts
             PROVE  (Occurrences(subscribers[u], s) + left[u][s] = joined[u][s])'
  BY DEF EntriesCount
<1>1. /\ Occurrences(subscribers[u], s) + left[u][s] = joined[u][s]
      /\ subscribers[u] \in Seq(Accounts)
      /\ left[u][s] \in Nat /\ joined[u][s] \in Nat
  BY DEF EntriesCount, TypeOK
<1>2. Occurrences(subscribers[u], s) \in Nat BY <1>1, PlacesCounted
<1>3. CASE UNCHANGED <<subscribers, joined, left>>
  BY <1>1, <1>3
<1>4. ASSUME NEW t \in Topics, NEW a \in Accounts, NEW value, Subscribe(t, a, value)
      PROVE  (Occurrences(subscribers[u], s) + left[u][s] = joined[u][s])'
  <2>1. CASE u # t
    BY <1>1, <1>4, <2>1 DEF Subscribe, TypeOK
  <2>2. CASE u = t
    <3>1. /\ subscribers'[u] = Append(subscribers[u], a)
          /\ left'[u][s] = left[u][s]
          /\ joined'[u][s] = IF s = a THEN joined[u][s] + 1 ELSE joined[u][s]
      BY <1>4, <2>2 DEF Subscribe, TypeOK
    <3>2. Occurrences(subscribers'[u], s) =
             IF s = a THEN Occurrences(subscribers[u], s) + 1
                      ELSE Occurrences(subscribers[u], s)
      BY <1>1, <3>1, AppendOccurrences
    <3> QED BY <1>1, <1>2, <3>1, <3>2
  <2> QED BY <2>1, <2>2
<1>5. ASSUME NEW t \in Topics, NEW a \in Accounts, Unsubscribe(t, a)
      PROVE  (Occurrences(subscribers[u], s) + left[u][s] = joined[u][s])'
  <2>1. CASE u # t
    BY <1>1, <1>5, <2>1 DEF Unsubscribe, TypeOK
  <2>2. CASE u = t
    <3>1. /\ subscribers'[u] = DeleteFromArray(subscribers[u], a)
          /\ joined'[u][s] = joined[u][s]
          /\ left'[u][s] = IF s = a THEN left[u][s] + 1 ELSE left[u][s]
          /\ Occurs(subscribers[u], a)
      BY <1>5, <2>2 DEF Unsubscribe, TypeOK
    <3>2. Occurrences(subscribers'[u], s) =
             IF s = a THEN Occurrences(subscribers[u], s) - 1
                      ELSE Occurrences(subscribers[u], s)
      BY <1>1, <3>1, DeleteOccurrences
    <3>3. CASE s = a BY <1>1, <1>2, <3>1, <3>2, <3>3
    <3>4. CASE s # a BY <1>1, <3>1, <3>2, <3>4
    <3> QED BY <3>3, <3>4
  <2> QED BY <2>1, <2>2
<1> QED BY <1>3, <1>4, <1>5 DEF Next, Advertise, Publish, vars, contractVars

\* However the entries of the array were moved by deletions, everyone has as
\* many as it has made and not taken back.
THEOREM EntriesCorrect == Spec => []EntriesCount
<1>1. TypeOK /\ EntriesCount /\ [Next]_vars => (TypeOK /\ EntriesCount)'
  BY NextTypeOK, NextEntries
<1> QED BY InitTypeOK, InitEntries, <1>1, PTL DEF Spec

-----------------------------------------------------------------------------

\* What publish does to one account.
LEMMA PublishServes ==
    ASSUME TypeOK, NEW t \in Topics, NEW a \in Accounts, NEW s \in Accounts, Publish(t, a)
    PROVE  /\ balance'[t][s] = balance[t][s] - Served(t, s)
           /\ Served(t, s) = 0 => inbox'[t][s] = inbox[t][s]
           /\ Served(t, s) = 1 => inbox'[t][s] = Append(inbox[t][s], messages[t] + 1)
<1>1. /\ balance'[t][s] = balance[t][s] - Served(t, s)
      /\ inbox'[t][s] = inbox[t][s] \o [i \in 1 .. Served(t, s) |-> messages[t] + 1]
  BY DEF Publish, TypeOK
<1>2. inbox[t][s] \in Seq(Nat) /\ messages[t] + 1 \in Nat BY DEF TypeOK
<1>3. \A q \in Seq(Nat), m \in Nat : q \o [i \in 1 .. 0 |-> m] = q
  OBVIOUS
<1>4. \A q \in Seq(Nat), m \in Nat : q \o [i \in 1 .. 1 |-> m] = Append(q, m)
  OBVIOUS
<1> QED BY <1>1, <1>2, <1>3, <1>4

LEMMA NextPays ==
    ASSUME TypeOK, [Next]_vars, NEW u \in Topics, NEW s \in Accounts,
           ~Occurs(subscribers[u], s)
    PROVE  inbox'[u][s] = inbox[u][s] /\ balance'[u][s] >= balance[u][s]
<1>1. balance[u][s] \in Nat /\ subscribers[u] \in Seq(Accounts) BY DEF TypeOK
<1>2. CASE UNCHANGED <<inbox, balance>> BY <1>1, <1>2
<1>3. ASSUME NEW t \in Topics, NEW a \in Accounts, NEW value, Subscribe(t, a, value)
      PROVE  inbox'[u][s] = inbox[u][s] /\ balance'[u][s] >= balance[u][s]
  <2>1. balance'[u][s] = IF u = t /\ s = a THEN balance[u][s] + Deposit ELSE balance[u][s]
    BY <1>3 DEF Subscribe, TypeOK
  <2>2. inbox' = inbox BY <1>3 DEF Subscribe
  <2> QED BY <1>1, <2>1, <2>2, ContractAssumption
<1>4. ASSUME NEW t \in Topics, NEW a \in Accounts, Publish(t, a)
      PROVE  inbox'[u][s] = inbox[u][s] /\ balance'[u][s] >= balance[u][s]
  <2>1. CASE u # t BY <1>1, <1>4, <2>1 DEF Publish, TypeOK
  <2>2. CASE u = t
    <3>1. Served(t, s) = 0 BY <1>1, <2>2, PlacesCounted DEF Served
    <3> QED BY <1>1, <1>4, <2>2, <3>1, PublishServes
  <2> QED BY <2>1, <2>2
<1> QED BY <1>2, <1>3, <1>4 DEF Next, Advertise, Unsubscribe, vars, contractVars

\* No transaction, of anybody, charges an account that is not subscribed or
\* sends it anything, whatever balance its earlier subscriptions have left.
THEOREM PayersCorrect == Spec => OnlySubscribersPay
<1>1. TypeOK /\ [Next]_vars =>
         [\A t \in Topics, a \in Accounts :
             ~Occurs(subscribers[t], a) =>
                 inbox'[t][a] = inbox[t][a] /\ balance'[t][a] >= balance[t][a]]_vars
  BY NextPays
<1> QED BY <1>1, TypeCorrect, PTL DEF Spec, OnlySubscribersPay

-----------------------------------------------------------------------------

\* Nobody has seen a message that is still to come.
SeenBefore == \A t \in Topics, a \in Accounts : seen[t][a] <= messages[t]

MessagesInv ==
    /\ TypeOK
    /\ FeesBalance
    /\ EntriesCount
    /\ SeenBefore
    /\ SoleEntryReceives

\* The messages after the m-th up to the n-th.
Since(m, n) == [i \in 1 .. n - m |-> m + i]

LEMMA SinceGrows ==
    ASSUME NEW m \in Nat, NEW n \in Nat, m <= n
    PROVE  Append(Since(m, n), n + 1) = Since(m, n + 1)
BY DEF Since

LEMMA InitMessages == Init => MessagesInv
<1> SUFFICES ASSUME Init PROVE MessagesInv
  OBVIOUS
<1>1. SeenBefore BY DEF Init, SeenBefore
<1>2. SoleEntryReceives BY DEF Init, SoleEntryReceives
<1> QED BY <1>1, <1>2, InitTypeOK, InitFees, InitEntries DEF MessagesInv

LEMMA NextSeen == TypeOK /\ SeenBefore /\ [Next]_vars => SeenBefore'
<1> SUFFICES ASSUME TypeOK, SeenBefore, [Next]_vars, NEW u \in Topics, NEW s \in Accounts
             PROVE  seen'[u][s] <= messages'[u]
  BY DEF SeenBefore
<1>1. seen[u][s] \in Nat /\ messages[u] \in Nat /\ seen[u][s] <= messages[u]
  BY DEF TypeOK, SeenBefore
<1>2. CASE UNCHANGED <<seen, messages>> BY <1>1, <1>2
<1>3. ASSUME NEW t \in Topics, NEW a \in Accounts, NEW value, Subscribe(t, a, value)
      PROVE  seen'[u][s] <= messages'[u]
  BY <1>1, <1>3 DEF Subscribe, TypeOK
<1>4. ASSUME NEW t \in Topics, NEW a \in Accounts, Publish(t, a)
      PROVE  seen'[u][s] <= messages'[u]
  <2>1. messages'[u] = IF u = t THEN messages[u] + 1 ELSE messages[u]
    BY <1>4 DEF Publish, TypeOK
  <2>2. seen' = seen BY <1>4 DEF Publish
  <2> QED BY <1>1, <2>1, <2>2
<1> QED BY <1>2, <1>3, <1>4 DEF Next, Advertise, Unsubscribe, vars, contractVars

LEMMA NextReceives == MessagesInv /\ [Next]_vars => SoleEntryReceives'
<1> SUFFICES ASSUME MessagesInv, [Next]_vars, NEW u \in Topics, NEW s \in Accounts,
                    joined'[u][s] = 1, left'[u][s] = 0, balance'[u][s] > 0
             PROVE  inbox'[u][s] = Since(seen'[u][s], messages'[u])
  BY DEF SoleEntryReceives, Since
<1>1. /\ TypeOK
      /\ messages[u] \in Nat /\ seen[u][s] \in Nat /\ seen[u][s] <= messages[u]
      /\ balance[u][s] \in Nat /\ joined[u][s] \in Nat /\ left[u][s] \in Nat
      /\ inbox[u][s] \in Seq(Nat) /\ subscribers[u] \in Seq(Accounts)
  BY DEF MessagesInv, TypeOK, SeenBefore
<1>2. joined[u][s] = 1 /\ left[u][s] = 0 /\ balance[u][s] > 0 =>
         inbox[u][s] = Since(seen[u][s], messages[u])
  BY DEF MessagesInv, SoleEntryReceives, Since
<1>3. CASE UNCHANGED <<joined, balance, inbox, seen, messages>> /\ left'[u][s] >= left[u][s]
  BY <1>1, <1>2, <1>3
<1>4. ASSUME NEW t \in Topics, NEW a \in Accounts, NEW value, Subscribe(t, a, value)
      PROVE  inbox'[u][s] = Since(seen'[u][s], messages'[u])
  <2>1. CASE ~(u = t /\ s = a)
    <3>1. /\ joined'[u][s] = joined[u][s] /\ left'[u][s] = left[u][s]
          /\ balance'[u][s] = balance[u][s] /\ seen'[u][s] = seen[u][s]
          /\ inbox' = inbox /\ messages' = messages
      BY <1>1, <1>4, <2>1 DEF Subscribe, TypeOK
    <3> QED BY <1>2, <3>1
  <2>2. CASE u = t /\ s = a
    <3>1. /\ joined[u][s] = 0 /\ left[u][s] = 0
          /\ inbox' = inbox /\ messages' = messages
      BY <1>1, <1>4, <2>2 DEF Subscribe, TypeOK
    <3>2. inbox[u][s] = << >>
      <4>1. Deposit * joined[u][s] = balance[u][s] + Len(inbox[u][s])
        BY DEF MessagesInv, FeesBalance
      <4>2. Deposit * 0 = 0 BY ContractAssumption
      <4>3. Len(inbox[u][s]) \in Nat BY <1>1
      <4>4. Len(inbox[u][s]) = 0 BY <1>1, <3>1, <4>1, <4>2, <4>3
      <4> QED BY <1>1, <4>4
    <3>3. ~Occurs(subscribers[u], s)
      <4>1. Occurrences(subscribers[u], s) + left[u][s] = joined[u][s]
        BY DEF MessagesInv, EntriesCount
      <4> QED BY <1>1, <3>1, <4>1, PlacesCounted
    <3>4. seen'[u][s] = messages[u] BY <1>1, <1>4, <2>2, <3>3 DEF Subscribe, TypeOK
    <3>5. Since(messages[u], messages[u]) = << >> BY <1>1 DEF Since
    <3> QED BY <3>1, <3>2, <3>4, <3>5
  <2> QED BY <2>1, <2>2
<1>5. ASSUME NEW t \in Topics, NEW a \in Accounts, Publish(t, a)
      PROVE  inbox'[u][s] = Since(seen'[u][s], messages'[u])
  <2>1. CASE u # t
    <3>1. /\ joined' = joined /\ left' = left /\ seen' = seen
          /\ balance'[u][s] = balance[u][s] /\ inbox'[u][s] = inbox[u][s]
          /\ messages'[u] = messages[u]
      BY <1>1, <1>5, <2>1 DEF Publish, TypeOK
    <3> QED BY <1>2, <3>1
  <2>2. CASE u = t
    <3>1. /\ joined' = joined /\ left' = left /\ seen' = seen
          /\ messages'[u] = messages[u] + 1
          /\ Served(u, s) \in 0 .. balance[u][s]
          /\ balance'[u][s] = balance[u][s] - Served(u, s)
      BY <1>1, <1>5, <2>2, PublishServes, ServedBounds DEF Publish, TypeOK
    <3>2. balance[u][s] > 0 BY <1>1, <3>1
    <3>3. Served(u, s) = 1
      <4>1. Occurrences(subscribers[u], s) + left[u][s] = joined[u][s]
        BY DEF MessagesInv, EntriesCount
      <4>2. Occurrences(subscribers[u], s) = 1
        BY <1>1, <3>1, <4>1, PlacesCounted
      <4> QED BY <1>1, <3>2, <4>2 DEF Served
    <3>4. inbox'[u][s] = Append(inbox[u][s], messages[u] + 1)
      BY <1>1, <1>5, <2>2, <3>3, PublishServes
    <3>5. inbox[u][s] = Since(seen[u][s], messages[u]) BY <1>2, <3>1, <3>2
    <3> QED BY <1>1, <3>1, <3>4, <3>5, SinceGrows
  <2> QED BY <2>1, <2>2
<1>6. ASSUME NEW t \in Topics, NEW a \in Accounts, Unsubscribe(t, a)
      PROVE  inbox'[u][s] = Since(seen'[u][s], messages'[u])
  <2>1. left'[u][s] = IF u = t /\ s = a THEN left[u][s] + 1 ELSE left[u][s]
    <3>1. left' = [left EXCEPT ![t][a] = @ + 1] BY <1>6 DEF Unsubscribe
    <3>2. left \in [Topics -> [Accounts -> Nat]] BY <1>1 DEF TypeOK
    <3> QED BY <3>1, <3>2
  <2>2. UNCHANGED <<joined, balance, inbox, seen, messages>> BY <1>6 DEF Unsubscribe
  <2> QED BY <1>1, <1>3, <2>1, <2>2
<1> QED BY <1>1, <1>3, <1>4, <1>5, <1>6 DEF Next, Advertise, vars, contractVars

\* Who has one entry, and a balance left, has been sent every message since it
\* subscribed, whoever came, left or published meanwhile.
THEOREM ReceivesCorrect == Spec => []SoleEntryReceives
<1>1. MessagesInv /\ [Next]_vars => MessagesInv'
  BY NextTypeOK, NextFees, NextEntries, NextSeen, NextReceives DEF MessagesInv
<1>2. MessagesInv => SoleEntryReceives BY DEF MessagesInv
<1> QED BY InitMessages, <1>1, <1>2, PTL DEF Spec

=============================================================================

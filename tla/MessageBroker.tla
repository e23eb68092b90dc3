--------------------------- MODULE MessageBroker ---------------------------
(***************************************************************************)
(* The publish/subscribe contract of the third laboratory                  *)
(* (studentNumberContract/contracts/BrokerPubSub.sol).  A transaction is   *)
(* one step; a transaction whose require fails is reverted, and is no step *)
(* at all.  Money is counted in fees: the 0.005 ether of a delivery are 1, *)
(* the 0.5 ether of a deposit are Deposit (100).  The n-th message of a    *)
(* topic is the number n.                                                  *)
(***************************************************************************)
EXTENDS Integers, Sequences, FiniteSets

CONSTANTS
    Topics,
    Accounts,
    Deposit,        \* the deliveries that a deposit pays for
    MaxMessages,    \* bound: messages of a topic
    MaxAdvertised,  \* bound: calls of advertise for a topic
    MaxJoined       \* bound: calls of subscribe of an account for a topic

ASSUME ContractAssumption ==
    /\ Deposit \in Nat \ {0}
    /\ MaxMessages \in Nat
    /\ MaxAdvertised \in Nat
    /\ MaxJoined \in Nat

VARIABLES
    named,          \* the topics that have been given their name
    messages,       \* messages[t]: how many messages were published
    publishers,     \* publishers[t]: the array of the accounts that advertised
    subscribers,    \* subscribers[t]: the array of the accounts subscribed
    inbox,          \* inbox[t][a]: subscriberToMessages
    balance,        \* balance[t][a]: subscriberToBalance
    joined,         \* history: joined[t][a] calls of subscribe have succeeded
    left,           \* history: left[t][a] calls of unsubscribe have succeeded
    seen            \* history: seen[t][a] was the number of messages when a,
                    \* not subscribed, last subscribed

contractVars == <<named, messages, publishers, subscribers, inbox, balance>>
vars == <<contractVars, joined, left, seen>>

Occurs(array, a) == \E i \in 1 .. Len(array) : array[i] = a
Occurrences(array, a) == Cardinality({i \in 1 .. Len(array) : array[i] = a})

Init ==
    /\ named = {}
    /\ messages = [t \in Topics |-> 0]
    /\ publishers = [t \in Topics |-> << >>]
    /\ subscribers = [t \in Topics |-> << >>]
    /\ inbox = [t \in Topics |-> [a \in Accounts |-> << >>]]
    /\ balance = [t \in Topics |-> [a \in Accounts |-> 0]]
    /\ joined = [t \in Topics |-> [a \in Accounts |-> 0]]
    /\ left = [t \in Topics |-> [a \in Accounts |-> 0]]
    /\ seen = [t \in Topics |-> [a \in Accounts |-> 0]]

\* An account that advertises twice is in the array twice.
Advertise(t, a) ==
    /\ Len(publishers[t]) < MaxAdvertised
    /\ named' = named \cup {t}
    /\ publishers' = [publishers EXCEPT ![t] = Append(@, a)]
    /\ UNCHANGED <<messages, subscribers, inbox, balance, joined, left, seen>>

\* Mutant: a deposit replaces what is left of the one before.
SubscribeAnew(t, a, value) ==
    /\ joined[t][a] < MaxJoined
    /\ value = Deposit
    /\ subscribers' = [subscribers EXCEPT ![t] = Append(@, a)]
    /\ balance' = [balance EXCEPT ![t][a] = value]
    /\ joined' = [joined EXCEPT ![t][a] = @ + 1]
    /\ seen' = [seen EXCEPT ![t][a] =
                  IF Occurs(subscribers[t], a) THEN @ ELSE messages[t]]
    /\ UNCHANGED <<named, messages, publishers, inbox, left>>

\* An account that subscribes twice is in the array twice, and pays twice.
Subscribe(t, a, value) ==
    /\ joined[t][a] < MaxJoined
    /\ value = Deposit
    /\ subscribers' = [subscribers EXCEPT ![t] = Append(@, a)]
    /\ balance' = [balance EXCEPT ![t][a] = @ + value]
    /\ joined' = [joined EXCEPT ![t][a] = @ + 1]
    /\ seen' = [seen EXCEPT ![t][a] =
                  IF Occurs(subscribers[t], a) THEN @ ELSE messages[t]]
    /\ UNCHANGED <<named, messages, publishers, inbox, left>>

\* Mutant: the balance is compared once for all the entries of an account.
ServedUnchecked(t, a) ==
    IF balance[t][a] >= 1 THEN Occurrences(subscribers[t], a) ELSE 0

\* Mutant: who has a balance is served, subscribed or not.
ServedByBalance(t, a) == IF balance[t][a] >= 1 THEN 1 ELSE 0

\* How many entries of a the loop of publish serves: each while the balance
\* still pays for one.
Served(t, a) ==
    IF Occurrences(subscribers[t], a) <= balance[t][a]
    THEN Occurrences(subscribers[t], a)
    ELSE balance[t][a]

Publish(t, a) ==
    /\ Occurs(publishers[t], a)
    /\ messages[t] < MaxMessages
    /\ messages' = [messages EXCEPT ![t] = @ + 1]
    /\ balance' = [balance EXCEPT ![t] =
                     [s \in Accounts |-> @[s] - Served(t, s)]]
    /\ inbox' = [inbox EXCEPT ![t] =
                   [s \in Accounts |->
                       @[s] \o [i \in 1 .. Served(t, s) |-> messages[t] + 1]]]
    /\ UNCHANGED <<named, publishers, subscribers, joined, left, seen>>

\* Mutant: the last entry is popped, but is not kept in the freed place.
DeleteByPop(array, a) == SubSeq(array, 1, Len(array) - 1)

\* deleteFromArray: the last entry takes the place of the first one that is a.
DeleteFromArray(array, a) ==
    LET first == CHOOSE i \in 1 .. Len(array) :
                     array[i] = a /\ \A j \in 1 .. i - 1 : array[j] # a
    IN  SubSeq([array EXCEPT ![first] = array[Len(array)]], 1, Len(array) - 1)

\* The balance stays, and is there again when the account comes back.
Unsubscribe(t, a) ==
    /\ Occurs(subscribers[t], a)
    /\ subscribers' = [subscribers EXCEPT ![t] = DeleteFromArray(@, a)]
    /\ left' = [left EXCEPT ![t][a] = @ + 1]
    /\ UNCHANGED <<named, messages, publishers, inbox, balance, joined, seen>>

Next ==
    \E t \in Topics, a \in Accounts :
        \/ Advertise(t, a)
        \/ \E value \in {0, Deposit} : Subscribe(t, a, value)
        \/ Publish(t, a)
        \/ Unsubscribe(t, a)

Spec == Init /\ [][Next]_vars

-----------------------------------------------------------------------------
(* Properties.                                                             *)

TypeOK ==
    /\ named \in SUBSET Topics
    /\ messages \in [Topics -> Nat]
    /\ publishers \in [Topics -> Seq(Accounts)]
    /\ subscribers \in [Topics -> Seq(Accounts)]
    /\ inbox \in [Topics -> [Accounts -> Seq(Nat)]]
    /\ balance \in [Topics -> [Accounts -> Nat]]
    /\ joined \in [Topics -> [Accounts -> Nat]]
    /\ left \in [Topics -> [Accounts -> Nat]]
    /\ seen \in [Topics -> [Accounts -> Nat]]

\* No fee is lost and none is charged twice: what an account has paid in is its
\* balance and the deliveries made to it, over all subscriptions and departures.
FeesBalance ==
    \A t \in Topics, a \in Accounts :
        Deposit * joined[t][a] = balance[t][a] + Len(inbox[t][a])

\* deleteFromArray takes out one entry, of the caller: everyone else stays
\* subscribed as many times as before, wherever the entries were moved.
EntriesCount ==
    \A t \in Topics, a \in Accounts :
        Occurrences(subscribers[t], a) + left[t][a] = joined[t][a]

\* An account that has had one entry since it subscribed, and can still pay,
\* has received every message since, each once and in order.
SoleEntryReceives ==
    \A t \in Topics, a \in Accounts :
        joined[t][a] = 1 /\ left[t][a] = 0 /\ balance[t][a] > 0 =>
            inbox[t][a] = [i \in 1 .. messages[t] - seen[t][a] |-> seen[t][a] + i]

\* Who is not subscribed is neither charged nor sent anything.
OnlySubscribersPay ==
    [][\A t \in Topics, a \in Accounts :
          ~Occurs(subscribers[t], a) =>
              inbox'[t][a] = inbox[t][a] /\ balance'[t][a] >= balance[t][a]]_vars

=============================================================================

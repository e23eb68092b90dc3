----------------------------- MODULE Web3Scripts -----------------------------
(***************************************************************************)
(* The scripts of the third laboratory that use the contracts on a local   *)
(* chain (Ganache): web3/src/tache_6.js, any number of times and by        *)
(* several people, web3Pub/src/pub.js and web3Sub/src/sub.js, and the      *)
(* migrations that deploy the contracts.                                   *)
(*                                                                         *)
(* Everything a script asks of the chain is awaited: a call that is        *)
(* answered later, or fails.  External are the chain, which mines the      *)
(* transactions one at a time, and Web3.js.                                *)
(***************************************************************************)
EXTENDS Integers, Sequences

CONSTANTS
    Students,   \* runs of tache_6.js
    Number      \* Number[s]: the student number that the run s sets

ASSUME ScriptsAssumption ==
    /\ Number \in [Students -> Nat]
    /\ Students \cap {"pub", "sub"} = {}

VARIABLES
    migrated,   \* how many of the migrations have been run
    number,     \* StudentContract.studentNumber
    pool,       \* the runs whose transaction is submitted but not mined
    chain,      \* the transactions to StudentContract, as mined
    pc,         \* where a script is
    gas,        \* gas[s]: what s was told its transaction needs
    basis,      \* history: basis[s] transactions were mined at that time
    outcome,    \* outcome[s]: how setStudentNumber ended for s
    shown       \* shown[s]: the number that s has displayed, if any

chainVars == <<migrated, number, pool, chain>>
studentVars == <<gas, basis, outcome, shown>>
vars == <<chainVars, pc, studentVars>>

Scripts == Students \cup {"pub", "sub"}
Nothing == -1

\* The steps of main() of tache_6.js, and how a script ends.
Running == {"start", "estimate", "send", "wait", "get", "contract", "listen", "advertise"}
Ended == {"done", "crashed"}

Init ==
    /\ migrated = 0
    /\ number = 0
    /\ pool = {}
    /\ chain = << >>
    /\ pc = [s \in Scripts |-> "start"]
    /\ gas = [s \in Students |-> 0]
    /\ basis = [s \in Students |-> 0]
    /\ outcome = [s \in Students |-> "none"]
    /\ shown = [s \in Students |-> Nothing]

Goto(s, label) == pc' = [pc EXCEPT ![s] = label]
From(s, label) == pc[s] = label

-----------------------------------------------------------------------------
(* Migrations, in the order of their numbers.                              *)

DeployStudentContract ==
    /\ migrated = 0
    /\ migrated' = 1
    /\ UNCHANGED <<number, pool, chain, pc, studentVars>>

\* Mutant: the migrations run again each time.
DeployMessageBrokerAgain ==
    /\ migrated >= 1
    /\ migrated' = migrated + 1
    /\ UNCHANGED <<number, pool, chain, pc, studentVars>>

DeployMessageBroker ==
    /\ migrated = 1
    /\ migrated' = 2
    /\ UNCHANGED <<number, pool, chain, pc, studentVars>>

-----------------------------------------------------------------------------
(* The chain.                                                              *)

\* What setStudentNumber needs: a slot of the storage is set for the first time,
\* changed, or set to what it is.
Cost(old, new) == IF old = new THEN 1 ELSE IF old = 0 THEN 3 ELSE 2

\* A submitted transaction is mined; it is reverted when its gas runs out.
Mine(s) ==
    /\ s \in pool
    /\ pool' = pool \ {s}
    /\ LET ok == gas[s] >= Cost(number, Number[s]) IN
       /\ chain' = Append(chain, [from |-> s, value |-> Number[s], ok |-> ok])
       /\ number' = IF ok THEN Number[s] ELSE number
    /\ UNCHANGED <<migrated, pc, studentVars>>

-----------------------------------------------------------------------------
(* tache_6.js.                                                             *)

\* Environment, provider, contract: without the contract's file it crashes.
\* The address is known once the contract has been deployed.
Load(s) ==
    /\ From(s, "start")
    /\ migrated >= 1
    /\ \E label \in {"estimate", "crashed"} : Goto(s, label)
    /\ UNCHANGED <<chainVars, studentVars>>

\* The catch of setStudentNumber: the error is displayed, and main goes on.
SetFails(s) ==
    /\ pc[s] \in {"estimate", "send", "wait"}
    /\ outcome' = [outcome EXCEPT ![s] = "error"]
    /\ Goto(s, "get")
    /\ UNCHANGED <<chainVars, gas, basis, shown>>

\* Mutant: the gas of a transaction that changes nothing is asked for.
EstimateGasOfNothing(s) ==
    /\ From(s, "estimate")
    /\ gas' = [gas EXCEPT ![s] = Cost(number, number)]
    /\ basis' = [basis EXCEPT ![s] = Len(chain)]
    /\ Goto(s, "send")
    /\ UNCHANGED <<chainVars, outcome, shown>>

\* What the transaction would need if it were mined now.
EstimateGas(s) ==
    /\ From(s, "estimate")
    /\ gas' = [gas EXCEPT ![s] = Cost(number, Number[s])]
    /\ basis' = [basis EXCEPT ![s] = Len(chain)]
    /\ Goto(s, "send")
    /\ UNCHANGED <<chainVars, outcome, shown>>

\* Mutant: send is not awaited.
SendUnawaited(s) ==
    /\ From(s, "send")
    /\ pool' = pool \cup {s}
    /\ outcome' = [outcome EXCEPT ![s] = "hash"]
    /\ Goto(s, "get")
    /\ UNCHANGED <<migrated, number, chain, gas, basis, shown>>

Send(s) ==
    /\ From(s, "send")
    /\ pool' = pool \cup {s}
    /\ Goto(s, "wait")
    /\ UNCHANGED <<migrated, number, chain, studentVars>>

\* The receipt comes: the transaction's hash is displayed, or, when it was
\* reverted, the error.
Receipt(s) ==
    /\ From(s, "wait")
    /\ \E i \in 1 .. Len(chain) :
          /\ chain[i].from = s
          /\ outcome' = [outcome EXCEPT ![s] = IF chain[i].ok THEN "hash" ELSE "error"]
    /\ Goto(s, "get")
    /\ UNCHANGED <<chainVars, gas, basis, shown>>

\* getStudentNumber: the number is displayed, or the error of the call.
GetStudentNumber(s) ==
    /\ From(s, "get")
    /\ \E n \in {number, Nothing} : shown' = [shown EXCEPT ![s] = n]
    /\ Goto(s, "done")
    /\ UNCHANGED <<chainVars, gas, basis, outcome>>

-----------------------------------------------------------------------------
(* pub.js and sub.js.                                                      *)

LoadPublisher ==
    /\ From("pub", "start")
    /\ migrated = 2
    /\ \E label \in {"contract", "crashed"} : Goto("pub", label)
    /\ UNCHANGED <<chainVars, studentVars>>

LoadSubscriber ==
    /\ From("sub", "start")
    /\ migrated = 2
    /\ \E label \in {"contract", "crashed"} : Goto("sub", label)
    /\ UNCHANGED <<chainVars, studentVars>>

\* A contract made of a contract in place of its interface: Web3.js may refuse.
MakeContract(s) ==
    /\ From(s, "contract")
    /\ \E label \in {"listen", "crashed"} : Goto(s, label)
    /\ UNCHANGED <<chainVars, studentVars>>

\* The subscriptions to events.  An error is displayed by the callback; when there
\* is no such event, nothing catches the exception.
ListenAsPublisher ==
    /\ From("pub", "listen")
    /\ \E label \in {"advertise", "crashed"} : Goto("pub", label)
    /\ UNCHANGED <<chainVars, studentVars>>

ListenAsSubscriber ==
    /\ From("sub", "listen")
    /\ \E label \in Ended : Goto("sub", label)
    /\ UNCHANGED <<chainVars, studentVars>>

\* The name studentContract is not declared in pub.js: the ReferenceError is
\* caught and displayed, and nothing is sent.
AdvertiseFails ==
    /\ From("pub", "advertise")
    /\ Goto("pub", "done")
    /\ UNCHANGED <<chainVars, studentVars>>

-----------------------------------------------------------------------------

Student(s) ==
    \/ Load(s) \/ EstimateGas(s) \/ Send(s) \/ Receipt(s) \/ SetFails(s)
    \/ GetStudentNumber(s)

Publisher == LoadPublisher \/ MakeContract("pub") \/ ListenAsPublisher \/ AdvertiseFails
Subscriber == LoadSubscriber \/ MakeContract("sub") \/ ListenAsSubscriber

Next ==
    \/ DeployStudentContract \/ DeployMessageBroker
    \/ \E s \in Students : Mine(s) \/ Student(s)
    \/ Publisher \/ Subscriber

Spec == Init /\ [][Next]_vars

-----------------------------------------------------------------------------
(* Properties.                                                             *)

TypeOK ==
    /\ migrated \in 0 .. 2
    /\ number \in Nat
    /\ pool \subseteq Students
    /\ chain \in Seq([from : Students, value : Nat, ok : BOOLEAN])
    /\ pc \in [Scripts -> Running \cup Ended]
    /\ gas \in [Students -> 0 .. 3]
    /\ basis \in [Students -> Nat]
    /\ outcome \in [Students -> {"none", "hash", "error"}]
    /\ shown \in [Students -> Nat \cup {Nothing}]

\* A comment of tache_6.js warns that getStudentNumber may be done before the
\* number is set.  It is not: whoever was shown the hash of its transaction is
\* then shown the number it set, or one that another has set since.
ReadsOwnWrite ==
    \A s \in Students :
        outcome[s] = "hash" /\ shown[s] # Nothing =>
            \E i, j \in 1 .. Len(chain) :
                /\ chain[i].from = s /\ chain[i].ok
                /\ chain[j].value = shown[s] /\ chain[j].ok
                /\ i <= j

\* The gas is asked for first and used later.  It does not suffice only when
\* another's transaction has taken effect in between: nobody is refused who is
\* alone.
RevertedOnlyWhenOvertaken ==
    \A i \in 1 .. Len(chain) :
        ~chain[i].ok =>
            \E j \in basis[chain[i].from] + 1 .. i - 1 : chain[j].ok

=============================================================================

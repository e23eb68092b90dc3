-------------------------- MODULE Web3ScriptsProofs --------------------------
(* Proofs about Web3Scripts.                                               *)
EXTENDS Web3Scripts, TLAPS

Transactions == [from : Students, value : Nat, ok : BOOLEAN]

\* What a run has not come to is not on the chain, and not displayed.
NotYetSubmitted ==
    \A s \in Students : pc[s] \in {"start", "estimate", "send"} =>
        s \notin pool /\ \A i \in 1 .. Len(chain) : chain[i].from # s

NotYetShown == \A s \in Students : pc[s] # "done" => shown[s] = Nothing

\* Who was shown the hash of its transaction finds it on the chain.
HashMined ==
    \A s \in Students : outcome[s] = "hash" =>
        \E i \in 1 .. Len(chain) : chain[i].from = s /\ chain[i].ok

\* The number is that of the last transaction that was not reverted.
NumberIsLast ==
    \A i \in 1 .. Len(chain) : chain[i].ok =>
        \E j \in i .. Len(chain) : chain[j].ok /\ chain[j].value = number

\* Gas that was estimated suffices until a transaction takes effect.
GasSuffices ==
    \A s \in Students : pc[s] = "send" \/ s \in pool =>
        \/ gas[s] >= Cost(number, Number[s])
        \/ \E j \in basis[s] + 1 .. Len(chain) : chain[j].ok

BasisOnChain == \A s \in Students : basis[s] <= Len(chain)

ScriptsInv ==
    /\ TypeOK
    /\ BasisOnChain
    /\ NotYetSubmitted
    /\ NotYetShown
    /\ HashMined
    /\ NumberIsLast
    /\ GasSuffices
    /\ ReadsOwnWrite
    /\ RevertedOnlyWhenOvertaken

-----------------------------------------------------------------------------

LEMMA CostType == \A old, new : Cost(old, new) \in 0 .. 3
BY DEF Cost

LEMMA InitScriptsInv == Init => ScriptsInv
<1> SUFFICES ASSUME Init PROVE ScriptsInv
  OBVIOUS
<1> USE DEF Init
<1>1. TypeOK BY DEF TypeOK, Running
<1>2. NotYetSubmitted /\ NotYetShown BY DEF NotYetSubmitted, NotYetShown, Scripts
<1>3. HashMined /\ NumberIsLast BY DEF HashMined, NumberIsLast
<1>4. GasSuffices /\ BasisOnChain BY DEF GasSuffices, BasisOnChain, Scripts
<1>5. ReadsOwnWrite /\ RevertedOnlyWhenOvertaken BY DEF ReadsOwnWrite, RevertedOnlyWhenOvertaken
<1> QED BY <1>1, <1>2, <1>3, <1>4, <1>5 DEF ScriptsInv

\* A transaction is mined.
LEMMA MineScriptsInv ==
    ASSUME ScriptsInv, NEW s \in Students, Mine(s)
    PROVE  ScriptsInv'
<1> USE ScriptsAssumption
<1> DEFINE ok == gas[s] >= Cost(number, Number[s])
           entry == [from |-> s, value |-> Number[s], ok |-> ok]
<1>1. /\ number \in Nat /\ gas \in [Students -> 0 .. 3] /\ basis \in [Students -> Nat]
      /\ chain \in Seq(Transactions) /\ entry \in Transactions
      /\ chain' = Append(chain, entry)
      /\ number' = IF ok THEN Number[s] ELSE number
      /\ pool' = pool \ {s} /\ s \in pool
      /\ UNCHANGED <<migrated, pc, gas, basis, outcome, shown>>
  <2>1. entry \in Transactions BY DEF Transactions
  <2> QED BY <2>1 DEF ScriptsInv, TypeOK, Mine, studentVars, Transactions
<1> HIDE DEF ok
<1>2. /\ Len(chain) \in Nat
      /\ Len(chain') = Len(chain) + 1
      /\ \A i \in 1 .. Len(chain') : i \in 1 .. Len(chain) \/ i = Len(chain) + 1
      /\ \A i \in 1 .. Len(chain) : chain'[i] = chain[i] /\ chain[i].from \in Students
      /\ chain'[Len(chain) + 1].from = s
      /\ chain'[Len(chain) + 1].value = Number[s]
      /\ chain'[Len(chain) + 1].ok <=> ok
  <2>1. entry.from = s /\ entry.value = Number[s] /\ (entry.ok <=> ok)
    OBVIOUS
  <2> HIDE DEF entry
  <2>2. /\ Len(chain) \in Nat /\ Len(chain') = Len(chain) + 1
        /\ chain'[Len(chain) + 1] = entry
        /\ \A i \in 1 .. Len(chain) : chain'[i] = chain[i] /\ chain[i] \in Transactions
    BY <1>1
  <2> QED BY <2>1, <2>2 DEF Transactions
<1>3. TypeOK'
  <2>1. chain' \in Seq(Transactions)
    <3> HIDE DEF entry
    <3> QED BY <1>1
  <2> QED BY <1>1, <2>1 DEF ScriptsInv, TypeOK, Transactions
<1>4. NotYetSubmitted' /\ NotYetShown'
  BY <1>1, <1>2 DEF ScriptsInv, NotYetSubmitted, NotYetShown
<1>5. HashMined'
  BY <1>1, <1>2 DEF ScriptsInv, HashMined
<1>6. NumberIsLast'
  <2> SUFFICES ASSUME NEW i \in 1 .. Len(chain'), chain'[i].ok
               PROVE  \E j \in i .. Len(chain') : chain'[j].ok /\ chain'[j].value = number'
    BY DEF NumberIsLast
  <2>1. CASE ok
    BY <1>1, <1>2, <2>1
  <2>2. CASE ~ ok
    <3>1. i \in 1 .. Len(chain) /\ chain[i].ok BY <1>2, <2>2
    <3>2. PICK j \in i .. Len(chain) : chain[j].ok /\ chain[j].value = number
      BY <3>1 DEF ScriptsInv, NumberIsLast
    <3>3. j \in i .. Len(chain') /\ chain'[j] = chain[j] BY <1>2, <3>1, <3>2
    <3> QED BY <1>1, <2>2, <3>2, <3>3
  <2> QED BY <2>1, <2>2
<1>7. GasSuffices'
  <2> SUFFICES ASSUME NEW r \in Students, pc[r] = "send" \/ r \in pool
               PROVE  \/ gas[r] >= Cost(number', Number[r])
                      \/ \E j \in basis[r] + 1 .. Len(chain') : chain'[j].ok
    BY <1>1 DEF GasSuffices
  <2>1. basis[r] \in Nat /\ basis[r] <= Len(chain)
    BY <1>1 DEF ScriptsInv, BasisOnChain
  <2>2. CASE ok
    BY <1>2, <2>1, <2>2
  <2>3. CASE ~ ok /\ \E j \in basis[r] + 1 .. Len(chain) : chain[j].ok
    <3>1. PICK j \in basis[r] + 1 .. Len(chain) : chain[j].ok BY <2>3
    <3>2. j \in basis[r] + 1 .. Len(chain') /\ chain'[j] = chain[j] BY <1>2, <2>1, <3>1
    <3> QED BY <3>1, <3>2
  <2>4. CASE ~ ok /\ gas[r] >= Cost(number, Number[r])
    BY <1>1, <2>4
  <2> QED BY <2>2, <2>3, <2>4 DEF ScriptsInv, GasSuffices
<1>8. ReadsOwnWrite'
  <2> SUFFICES ASSUME NEW r \in Students, outcome[r] = "hash", shown[r] # Nothing
               PROVE  \E i, j \in 1 .. Len(chain') :
                          /\ chain'[i].from = r /\ chain'[i].ok
                          /\ chain'[j].value = shown[r] /\ chain'[j].ok
                          /\ i <= j
    BY <1>1 DEF ReadsOwnWrite
  <2>1. PICK i, j \in 1 .. Len(chain) : /\ chain[i].from = r /\ chain[i].ok
                                        /\ chain[j].value = shown[r] /\ chain[j].ok
                                        /\ i <= j
    BY DEF ScriptsInv, ReadsOwnWrite
  <2>2. i \in 1 .. Len(chain') /\ j \in 1 .. Len(chain') BY <1>2
  <2> QED BY <1>2, <2>1, <2>2
<1>9. RevertedOnlyWhenOvertaken'
  <2> SUFFICES ASSUME NEW i \in 1 .. Len(chain'), ~ chain'[i].ok
               PROVE  \E j \in basis[chain'[i].from] + 1 .. i - 1 : chain'[j].ok
    BY <1>1 DEF RevertedOnlyWhenOvertaken
  <2>1. CASE i \in 1 .. Len(chain)
    <3>1. chain'[i] = chain[i] /\ basis[chain[i].from] \in Nat BY <1>1, <1>2, <2>1
    <3>2. PICK j \in basis[chain[i].from] + 1 .. i - 1 : chain[j].ok
      BY <2>1, <3>1 DEF ScriptsInv, RevertedOnlyWhenOvertaken
    <3>3. chain'[j] = chain[j] BY <1>2, <2>1, <3>1
    <3> QED BY <3>1, <3>2, <3>3
  <2>2. CASE i = Len(chain) + 1
    <3>1. ~ ok /\ chain'[i].from = s BY <1>2, <2>2
    <3>2. PICK j \in basis[s] + 1 .. Len(chain) : chain[j].ok
      BY <1>1, <3>1 DEF ScriptsInv, GasSuffices, ok
    <3>3. chain'[j] = chain[j] /\ j \in basis[s] + 1 .. i - 1 BY <1>1, <1>2, <2>2
    <3> QED BY <3>1, <3>2, <3>3
  <2> QED BY <1>2, <2>1, <2>2
<1>10. BasisOnChain'
  BY <1>1, <1>2 DEF ScriptsInv, BasisOnChain
<1> QED BY <1>3, <1>4, <1>5, <1>6, <1>7, <1>8, <1>9, <1>10 DEF ScriptsInv

\* A step of a run of tache_6.js.
LEMMA StudentScriptsInv ==
    ASSUME ScriptsInv, NEW s \in Students, Student(s)
    PROVE  ScriptsInv'
<1> USE ScriptsAssumption DEF ScriptsInv, From, Goto
<1>1. /\ migrated \in 0 .. 2 /\ number \in Nat /\ pool \subseteq Students
      /\ chain \in Seq(Transactions)
      /\ pc \in [Scripts -> Running \cup Ended]
      /\ gas \in [Students -> 0 .. 3] /\ basis \in [Students -> Nat]
      /\ outcome \in [Students -> {"none", "hash", "error"}]
      /\ shown \in [Students -> Nat \cup {Nothing}]
      /\ s \in Scripts
  BY DEF TypeOK, Transactions, Scripts
<1>2. UNCHANGED <<migrated, number, chain>> /\ Len(chain) \in Nat
  BY <1>1 DEF Student, Load, EstimateGas, Send, Receipt, SetFails, GetStudentNumber, chainVars
<1>3. RevertedOnlyWhenOvertaken'
  <2>1. CASE UNCHANGED basis
    BY <1>2, <2>1 DEF RevertedOnlyWhenOvertaken
  <2>2. CASE EstimateGas(s)
    <3>1. \A i \in 1 .. Len(chain) : chain[i].from # s /\ chain[i].from \in Students
      <4>1. \A i \in 1 .. Len(chain) : chain[i] \in Transactions BY <1>1
      <4>2. pc[s] = "estimate" BY <2>2 DEF EstimateGas
      <4> QED BY <4>1, <4>2 DEF NotYetSubmitted, Transactions
    <3>2. \A r \in Students \ {s} : basis'[r] = basis[r]
      BY <1>1, <2>2 DEF EstimateGas
    <3> QED BY <1>2, <3>1, <3>2 DEF RevertedOnlyWhenOvertaken
  <2> QED BY <2>1, <2>2
          DEF Student, Load, Send, Receipt, SetFails, GetStudentNumber, studentVars
<1>4. NumberIsLast' /\ BasisOnChain'
  <2>1. UNCHANGED basis \/ basis' = [basis EXCEPT ![s] = Len(chain)]
    BY DEF Student, Load, EstimateGas, Send, Receipt, SetFails, GetStudentNumber, studentVars
  <2>2. BasisOnChain'
    <3> SUFFICES ASSUME NEW r \in Students PROVE basis'[r] <= Len(chain)
      BY <1>2 DEF BasisOnChain
    <3>1. basis[r] <= Len(chain) BY DEF BasisOnChain
    <3>2. basis'[r] \in {basis[r], Len(chain)} BY <1>1, <2>1
    <3>3. Len(chain) <= Len(chain) BY <1>2
    <3> QED BY <3>1, <3>2, <3>3
  <2>3. NumberIsLast' BY <1>2 DEF NumberIsLast
  <2> QED BY <2>2, <2>3
<1>5. CASE Load(s)
  <2>1. /\ UNCHANGED <<pool, gas, basis, outcome, shown>> /\ pc[s] = "start"
        /\ \E label \in {"estimate", "crashed"} : pc' = [pc EXCEPT ![s] = label]
    BY <1>5 DEF Load, chainVars, studentVars
  <2>2. TypeOK' BY <1>1, <1>2, <2>1 DEF TypeOK, Running, Ended, Transactions
  <2>3. HashMined' /\ ReadsOwnWrite' BY <1>2, <2>1 DEF HashMined, ReadsOwnWrite
  <2>4. NotYetSubmitted' /\ NotYetShown'
    BY <1>1, <1>2, <2>1 DEF NotYetSubmitted, NotYetShown
  <2>5. GasSuffices' BY <1>1, <1>2, <2>1 DEF GasSuffices
  <2> QED BY <1>3, <1>4, <2>2, <2>3, <2>4, <2>5
<1>6. CASE EstimateGas(s)
  <2>1. /\ UNCHANGED <<pool, outcome, shown>> /\ pc[s] = "estimate"
        /\ pc' = [pc EXCEPT ![s] = "send"]
        /\ gas' = [gas EXCEPT ![s] = Cost(number, Number[s])]
        /\ basis' = [basis EXCEPT ![s] = Len(chain)]
    BY <1>6 DEF EstimateGas, chainVars
  <2>2. TypeOK' BY <1>1, <1>2, <2>1, CostType DEF TypeOK, Running, Ended, Transactions
  <2>3. NotYetSubmitted' /\ NotYetShown' /\ HashMined' /\ ReadsOwnWrite'
    BY <1>1, <1>2, <2>1 DEF NotYetSubmitted, NotYetShown, HashMined, ReadsOwnWrite
  <2>4. GasSuffices'
    <3>1. gas'[s] = Cost(number, Number[s]) /\ Cost(number, Number[s]) \in 0 .. 3
      BY <1>1, <2>1, CostType
    <3>2. \A r \in Students \ {s} : gas'[r] = gas[r] /\ basis'[r] = basis[r] /\ pc'[r] = pc[r]
      BY <1>1, <2>1
    <3> QED BY <1>2, <2>1, <3>1, <3>2 DEF GasSuffices
  <2> QED BY <1>3, <1>4, <2>2, <2>3, <2>4
<1>7. CASE Send(s)
  <2>1. /\ UNCHANGED <<gas, basis, outcome, shown>> /\ pc[s] = "send"
        /\ pc' = [pc EXCEPT ![s] = "wait"]
        /\ pool' = pool \cup {s}
    BY <1>7 DEF Send, studentVars
  <2>2. TypeOK' BY <1>1, <1>2, <2>1 DEF TypeOK, Running, Ended, Transactions
  <2>3. NotYetSubmitted' /\ NotYetShown' /\ HashMined' /\ GasSuffices' /\ ReadsOwnWrite'
    BY <1>1, <1>2, <2>1
    DEF NotYetSubmitted, NotYetShown, HashMined, GasSuffices, ReadsOwnWrite
  <2> QED BY <1>3, <1>4, <2>2, <2>3
<1>8. CASE Receipt(s) \/ SetFails(s)
  <2>1. /\ UNCHANGED <<pool, gas, basis, shown>> /\ pc[s] \in {"estimate", "send", "wait"}
        /\ pc' = [pc EXCEPT ![s] = "get"]
        /\ \E o \in {"hash", "error"} :
              /\ outcome' = [outcome EXCEPT ![s] = o]
              /\ o = "hash" => \E i \in 1 .. Len(chain) : chain[i].from = s /\ chain[i].ok
    BY <1>8 DEF Receipt, SetFails, chainVars
  <2>2. TypeOK' BY <1>1, <1>2, <2>1 DEF TypeOK, Running, Ended, Transactions
  <2>3. NotYetSubmitted' /\ NotYetShown' /\ HashMined' /\ GasSuffices'
    BY <1>1, <1>2, <2>1 DEF NotYetSubmitted, NotYetShown, HashMined, GasSuffices
  <2>4. ReadsOwnWrite'
    <3>1. shown[s] = Nothing BY <2>1 DEF NotYetShown
    <3> QED BY <1>1, <1>2, <2>1, <3>1 DEF ReadsOwnWrite
  <2> QED BY <1>3, <1>4, <2>2, <2>3, <2>4
<1>9. CASE GetStudentNumber(s)
  <2>1. /\ UNCHANGED <<pool, gas, basis, outcome>> /\ pc[s] = "get"
        /\ pc' = [pc EXCEPT ![s] = "done"]
        /\ \E n \in {number, Nothing} : shown' = [shown EXCEPT ![s] = n]
    BY <1>9 DEF GetStudentNumber, chainVars
  <2>2. TypeOK' BY <1>1, <1>2, <2>1 DEF TypeOK, Running, Ended, Transactions
  <2>3. NotYetSubmitted' /\ NotYetShown' /\ HashMined' /\ GasSuffices'
    BY <1>1, <1>2, <2>1 DEF NotYetSubmitted, NotYetShown, HashMined, GasSuffices
  <2>4. ReadsOwnWrite'
    <3> SUFFICES ASSUME NEW r \in Students, outcome[r] = "hash", shown'[r] # Nothing
                 PROVE  \E i, j \in 1 .. Len(chain) :
                            /\ chain[i].from = r /\ chain[i].ok
                            /\ chain[j].value = shown'[r] /\ chain[j].ok
                            /\ i <= j
      BY <1>2, <2>1 DEF ReadsOwnWrite
    <3>1. CASE r # s
      BY <1>1, <2>1, <3>1 DEF ReadsOwnWrite
    <3>2. CASE r = s
      <4>1. shown'[r] = number BY <1>1, <2>1, <3>2
      <4>2. PICK i \in 1 .. Len(chain) : chain[i].from = r /\ chain[i].ok
        BY DEF HashMined
      <4>3. PICK j \in i .. Len(chain) : chain[j].ok /\ chain[j].value = number
        BY <4>2 DEF NumberIsLast
      <4> QED BY <1>2, <4>1, <4>2, <4>3
    <3> QED BY <3>1, <3>2
  <2> QED BY <1>3, <1>4, <2>2, <2>3, <2>4
<1> QED BY <1>5, <1>6, <1>7, <1>8, <1>9 DEF Student

\* The other scripts and the migrations.
LEMMA OthersScriptsInv ==
    ASSUME ScriptsInv,
           DeployStudentContract \/ DeployMessageBroker \/ Publisher \/ Subscriber \/ UNCHANGED vars
    PROVE  ScriptsInv'
<1>1. UNCHANGED <<number, pool, chain, gas, basis, outcome, shown>>
  BY DEF DeployStudentContract, DeployMessageBroker, Publisher, Subscriber, LoadPublisher,
     LoadSubscriber, MakeContract, ListenAsPublisher, ListenAsSubscriber, AdvertiseFails,
     vars, chainVars, studentVars
<1>2. pc \in [Scripts -> Running \cup Ended] /\ migrated \in 0 .. 2
  BY DEF ScriptsInv, TypeOK
<1>3. migrated' \in 0 .. 2
  BY <1>2 DEF DeployStudentContract, DeployMessageBroker, Publisher, Subscriber, LoadPublisher,
     LoadSubscriber, MakeContract, ListenAsPublisher, ListenAsSubscriber, AdvertiseFails,
     vars, chainVars
<1>4. UNCHANGED pc \/ \E s \in {"pub", "sub"}, label \in Running \cup Ended :
                         pc' = [pc EXCEPT ![s] = label]
  BY DEF DeployStudentContract, DeployMessageBroker, Publisher, Subscriber, LoadPublisher,
     LoadSubscriber, MakeContract, ListenAsPublisher, ListenAsSubscriber, AdvertiseFails,
     vars, Goto, Running, Ended
<1>5. pc' \in [Scripts -> Running \cup Ended] /\ \A s \in Students : pc'[s] = pc[s]
  BY <1>2, <1>4, ScriptsAssumption DEF Scripts
<1>6. TypeOK'
  BY <1>1, <1>3, <1>5 DEF ScriptsInv, TypeOK
<1> QED
  BY <1>1, <1>5, <1>6 DEF ScriptsInv, NotYetSubmitted, NotYetShown, HashMined, NumberIsLast,
     GasSuffices, BasisOnChain, ReadsOwnWrite, RevertedOnlyWhenOvertaken

LEMMA ScriptsInvariant == Spec => []ScriptsInv
<1>1. ScriptsInv /\ [Next]_vars => ScriptsInv'
  BY MineScriptsInv, StudentScriptsInv, OthersScriptsInv DEF Next
<1> QED BY InitScriptsInv, <1>1, PTL DEF Spec

\* Whoever runs the scripts, and in whichever order: no contract is deployed twice,
\* and the chain holds the students' transactions.
THEOREM ScriptsTyped == Spec => []TypeOK
BY ScriptsInvariant, PTL DEF ScriptsInv

\* What tache_6.js displays after the hash of its transaction was set by it or
\* by a later one, for any number of students.
THEOREM OwnWriteRead == Spec => []ReadsOwnWrite
BY ScriptsInvariant, PTL DEF ScriptsInv

\* A transaction is reverted only because another took effect between the
\* estimate of its gas and its turn.
THEOREM OvertakenOnly == Spec => []RevertedOnlyWhenOvertaken
BY ScriptsInvariant, PTL DEF ScriptsInv

=============================================================================

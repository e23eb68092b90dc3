-------------------------- MODULE ProtoSessionProofs --------------------------
(***************************************************************************)
(* Proofs about a connection of SmallTransit, for any number of calls,     *)
(* however the bytes are cut, with and without losses of the connection    *)
(* and exceptions of the controllers: the type invariant, that the state   *)
(* machines of the two ends fit together, and that they implement the      *)
(* hand-over of calls (Handover).                                          *)
(*                                                                         *)
(* The argument is that of a stop-and-wait protocol, although no frame     *)
(* carries a number: between the end that asks and its peer there is at    *)
(* most one frame that has not been parsed, and the states of the two      *)
(* tasks say which.  The exception is the beginning of a subscription,     *)
(* where the broker may push before the subscriber has read that it is     *)
(* subscribed.                                                             *)
(***************************************************************************)
EXTENDS ProtoSession, TLAPS

(* The invariant. *)

\* What the bridge has read, what has been taken of it and parsed.
Stream(e) ==
    /\ parsed[e] <= taken[e]
    /\ taken[e] <= delivered[e]
    /\ delivered[e] <= Place(e)
    /\ \A i \in 1 .. Len(chunks[e]) :
          taken[e] <= chunks[e][i] /\ chunks[e][i] <= delivered[e]
    /\ \A i, j \in 1 .. Len(chunks[e]) : i <= j => chunks[e][i] <= chunks[e][j]

Streams == \A e \in End : Stream(e)

\* The halves sent to e that are not parsed, and the frame sent to it last.
Unread(e) == Place(e) - parsed[e]
Newest(e) == sent[e][Len(sent[e])]

\* The controller has had the message of the last call.
Handed == \E i \in 1 .. Len(consumed) : consumed[i] = calls

\* The states of who asks and of its peer before a request is accepted, and after.
Before(a) == <<sendState[a], receiveState[Peer(a)]>> \in
    {<<"CreatedPublishing", "FreeBroker">>, <<"OpenedPublishing", "BrokerPrimed">>,
     <<"OpenedSend", "ClientSubscribed">>, <<"OpenedPush", "SubscriberSubscribed">>}
After(a) == <<sendState[a], receiveState[Peer(a)]>> \in
    {<<"CreatedPublishing", "BrokerPrimed">>, <<"OpenedPublishing", "BrokerPrimed">>,
     <<"OpenedSend", "ClientSubscribed">>, <<"OpenedPush", "SubscriberSubscribed">>}

\* The exchange of requests and answers that a asks for: nothing is on the way,
Resting(a) ==
    /\ pc[a] \in {"idle", "connect", "prime", "stopped"}
    /\ pc[Peer(a)] = IF link = "none" THEN "none" ELSE "listen"
    /\ pc[a] = "prime" => link # "none"
    /\ pc[a] \in {"connect", "prime"} => ~Handed
    /\ Before(a)
    /\ Unread(a) = 0 /\ Unread(Peer(a)) = 0

\* its request is,
Asked(a) ==
    /\ pc[a] = "await" /\ pc[Peer(a)] = "listen" /\ link # "none"
    /\ ~Handed
    /\ Before(a)
    /\ Unread(a) = 0 /\ Unread(Peer(a)) = 2
    /\ Newest(Peer(a)) = [type |-> SendState[sendState[a]].request, call |-> calls]

\* its peer handles the request,
Handling(a) ==
    /\ pc[a] = "await" /\ pc[Peer(a)] \in {"controller", "answer"} /\ link # "none"
    /\ pc[Peer(a)] = "controller" => Ready(sendState[a]) /\ ~Handed
    /\ pc[Peer(a)] = "answer" => (Ready(sendState[a]) <=> Handed)
    /\ After(a)
    /\ Unread(a) = 0 /\ Unread(Peer(a)) = 0
    /\ Len(sent[Peer(a)]) > 0 /\ Newest(Peer(a)).call = calls

\* its peer stopped when handling it,
Failed(a) ==
    /\ pc[a] = "await" /\ pc[Peer(a)] = "stopped" /\ link # "none"
    /\ Unread(a) = 0 /\ Unread(Peer(a)) = 0

\* the answer is on the way.
Answered(a) ==
    /\ pc[a] = "await" /\ pc[Peer(a)] = "listen" /\ link # "none"
    /\ Ready(sendState[a]) <=> Handed
    /\ After(a)
    /\ Unread(a) = 2 /\ Unread(Peer(a)) = 0
    /\ Newest(a) = [type |-> Answer, call |-> calls]

Exchange(a) == Resting(a) \/ Asked(a) \/ Handling(a) \/ Failed(a) \/ Answered(a)

\* The beginning of a subscription: the client asks to subscribe,
Subscribing ==
    /\ calls = 0
    /\ sendState["client"] = "CreatedSubscribing" /\ sendState["server"] = "OpenedPush"
    /\ receiveState["client"] = "SubscriberSubscribed"
    /\ sent["client"] = << >> /\ parsed["client"] = 0
    /\ \/ /\ pc["client"] \in {"connect", "prime", "stopped"}
          /\ pc["client"] # "connect" => link # "none"
          /\ pc["server"] = IF link = "none" THEN "none" ELSE "listen"
          /\ receiveState["server"] = "FreeBroker"
          /\ sent["server"] = << >> /\ parsed["server"] = 0
       \/ /\ pc["client"] \in {"await", "stopped"}
          /\ pc["server"] = "listen" /\ link # "none"
          /\ receiveState["server"] = "FreeBroker"
          /\ sent["server"] = <<[type |-> "Subscribe", call |-> 0]>>
          /\ parsed["server"] = 0
       \/ /\ pc["client"] \in {"await", "stopped"}
          /\ pc["server"] = "answer" /\ link # "none"
          /\ receiveState["server"] = "BrokerSubscribed"
          /\ sent["server"] = <<[type |-> "Subscribe", call |-> 0]>>
          /\ parsed["server"] = 2

\* the broker has answered, may push, and the client does not listen yet,
Welcomed ==
    /\ link # "none"
    /\ ~(pc["server"] \in {"prime", "await"} /\ Handed)
    /\ sendState["server"] = "OpenedPush"
    /\ receiveState["client"] = "SubscriberSubscribed"
    /\ Len(sent["server"]) = 1 /\ parsed["server"] = 2
    /\ \/ pc["client"] = "await" /\ parsed["client"] = 0
                                 /\ sendState["client"] = "CreatedSubscribing"
       \/ pc["client"] = "subscribed" /\ parsed["client"] = 2
       \/ pc["client"] = "stopped"
    /\ \/ /\ pc["server"] \in {"idle", "prime", "stopped"}
          /\ sent["client"] = <<[type |-> "Ack", call |-> 0]>>
       \/ /\ pc["server"] = "await"
          /\ sent["client"] = <<[type |-> "Ack", call |-> 0],
                                [type |-> "Push", call |-> calls]>>

\* the client listens, but bytes of the first push are lost to it.
Missed ==
    /\ link # "none"
    /\ pc["server"] = "await" /\ pc["client"] \in {"listen", "stopped"}
    /\ parsed["client"] \in {3, 4} /\ Len(sent["client"]) = 2
    /\ parsed["server"] = 2 /\ Len(sent["server"]) = 1

Protocol == \/ Exchange(Sender)
            \/ kind = "subscribe" /\ (Subscribing \/ Welcomed \/ Missed)

\* A call under way has been counted, and only calls made are consumed.
Counted ==
    /\ pc[Sender] \in {"connect", "prime", "await"} => calls > 0
    /\ \A i \in 1 .. Len(consumed) : consumed[i] <= calls

Inv == Typed /\ Streams /\ Protocol /\ Counted

-----------------------------------------------------------------------------
(* Ends, halves and chunks. *)

LEMMA Ends ==
    /\ "client" \in End /\ "server" \in End
    /\ Peer("client") = "server" /\ Peer("server") = "client"
    /\ \A e \in End : Peer(e) \in End /\ Peer(e) # e /\ Peer(Peer(e)) = e
    /\ \A a, e \in End : e = a \/ e = Peer(a)
    /\ Sender \in End
    /\ kind = "subscribe" => Sender = "server"
    /\ kind # "subscribe" => Sender = "client"
  BY DEF End, Peer, Sender

LEMMA Halves == \A n \in Nat : (2 * n) \div 2 = n /\ (2 * n) % 2 = 0
  OBVIOUS

\* What is unread, seen from the places.
LEMMA Places ==
    ASSUME Typed, NEW e \in End
    PROVE  /\ Place(e) \in Nat /\ Place(e) = 2 * Len(sent[e]) /\ Len(sent[e]) \in Nat
           /\ parsed[e] \in Nat /\ Unread(e) = Place(e) - parsed[e]
           /\ Unread(e) = 0 => /\ parsed[e] \div 2 = Len(sent[e])
                               /\ Current(e) = Newest(e)
           /\ Unread(e) = 2 => /\ (parsed[e] + 2) \div 2 = Len(sent[e])
                               /\ Len(sent[e]) > 0
           /\ Unread(e) \in {0, 2} => ~Broken(e)
  <1>1. Len(sent[e]) \in Nat /\ parsed[e] \in Nat
    BY DEF Typed
  <1>2. Place(e) = 2 * Len(sent[e]) /\ Place(e) \in Nat
    BY <1>1 DEF Place
  <1>3. Unread(e) = Place(e) - parsed[e]
    BY DEF Unread
  <1>4. ASSUME Unread(e) = 0
        PROVE  parsed[e] \div 2 = Len(sent[e]) /\ parsed[e] % 2 = 0
    <2>1. parsed[e] = 2 * Len(sent[e])
      BY <1>1, <1>2, <1>3, <1>4
    <2>2. QED
      BY <2>1, <1>1, Halves
  <1>5. ASSUME Unread(e) = 2
        PROVE  /\ (parsed[e] + 2) \div 2 = Len(sent[e]) /\ Len(sent[e]) > 0
               /\ parsed[e] % 2 = 0
    <2>1. parsed[e] + 2 = 2 * Len(sent[e]) /\ parsed[e] = 2 * (Len(sent[e]) - 1)
      BY <1>1, <1>2, <1>3, <1>5
    <2>2. Len(sent[e]) > 0 /\ Len(sent[e]) - 1 \in Nat
      BY <1>1, <2>1
    <2>3. (2 * (Len(sent[e]) - 1)) % 2 = 0 /\ (2 * Len(sent[e])) \div 2 = Len(sent[e])
      BY <1>1, <2>2, Halves
    <2>4. QED
      BY <2>1, <2>2, <2>3
  <1>6. QED
    BY <1>1, <1>2, <1>3, <1>4, <1>5 DEF Current, Newest, Broken

\* Taking a chunk, whether a frame is complete with it or not.
LEMMA TakeKeeps ==
    ASSUME Typed, Streams, NEW e \in End, Take(e), UNCHANGED <<sent, delivered>>,
           \/ parsed' = parsed
           \/ Complete(e, taken'[e]) /\ parsed' = [parsed EXCEPT ![e] = @ + 2]
    PROVE  /\ Streams'
           /\ taken' \in [End -> Nat] /\ parsed' \in [End -> Nat]
           /\ chunks' \in [End -> Seq(Nat)]
           /\ taken'[e] <= Place(e)
           /\ Complete(e, taken'[e]) => Unread(e) >= 2
  <1> USE DEF Take, Stream
  <1>1. /\ chunks \in [End -> Seq(Nat)] /\ chunks[e] \in Seq(Nat) /\ chunks[e] # << >>
        /\ taken \in [End -> Nat] /\ parsed \in [End -> Nat]
    BY DEF Typed
  <1>2. /\ Len(chunks[e]) \in Nat /\ Len(chunks[e]) >= 1
        /\ Head(chunks[e]) = chunks[e][1] /\ chunks[e][1] \in Nat
    BY <1>1
  <1>3. /\ Tail(chunks[e]) \in Seq(Nat) /\ Len(Tail(chunks[e])) = Len(chunks[e]) - 1
        /\ \A i \in 1 .. Len(Tail(chunks[e])) : Tail(chunks[e])[i] = chunks[e][i + 1]
    BY <1>1
  <1>4. /\ chunks'[e] = Tail(chunks[e]) /\ taken'[e] = chunks[e][1]
        /\ \A d \in End : d # e => chunks'[d] = chunks[d] /\ taken'[d] = taken[d]
                                   /\ parsed'[d] = parsed[d]
    BY <1>1, <1>2
  <1>5. taken' \in [End -> Nat] /\ parsed' \in [End -> Nat]
        /\ chunks' \in [End -> Seq(Nat)]
    <2>1. taken' \in [End -> Nat]
      BY <1>1, <1>2
    <2>2. parsed' \in [End -> Nat]
      BY <1>1
    <2>3. chunks' \in [End -> Seq(Nat)]
      BY <1>1, <1>3
    <2>4. QED
      BY <2>1, <2>2, <2>3
  <1>6. Stream(e)
    BY DEF Streams
  <1>7. /\ taken[e] <= taken'[e] /\ taken'[e] <= delivered[e]
        /\ \A i \in 1 .. Len(chunks[e]) :
              taken'[e] <= chunks[e][i] /\ chunks[e][i] <= delivered[e]
    <2>1. 1 \in 1 .. Len(chunks[e])
      BY <1>2
    <2>2. \A i \in 1 .. Len(chunks[e]) : 1 <= i /\ i \in Int
      BY <1>2
    <2>3. QED
      BY <1>4, <1>6, <2>1, <2>2
  <1>8. /\ parsed[e] \in Nat /\ taken[e] \in Nat /\ taken'[e] \in Nat
        /\ delivered[e] \in Nat /\ Place(e) \in Nat
    BY <1>1, <1>2, <1>4, Places DEF Typed
  <1>9. parsed'[e] <= taken'[e]
    BY <1>1, <1>6, <1>7, <1>8 DEF Complete
  <1>10. taken'[e] <= Place(e) /\ (Complete(e, taken'[e]) => Unread(e) >= 2)
    <2>1. delivered[e] <= Place(e)
      BY <1>6
    <2>2. taken'[e] <= Place(e)
      BY <1>7, <1>8, <2>1
    <2>3. QED
      BY <1>8, <2>2 DEF Complete, Unread
  <1>11. Place(e)' = Place(e) /\ delivered'[e] = delivered[e]
    BY DEF Place
  <1>12. Stream(e)'
    <2>1. \A i \in 1 .. Len(chunks'[e]) :
             i + 1 \in 1 .. Len(chunks[e]) /\ chunks'[e][i] = chunks[e][i + 1] /\ i \in Int
      <3>1. chunks'[e] = Tail(chunks[e])
        BY <1>4
      <3>2. \A i \in 1 .. Len(Tail(chunks[e])) : i + 1 \in 1 .. Len(chunks[e]) /\ i \in Int
        BY <1>2, <1>3
      <3>3. QED
        BY <1>3, <3>1, <3>2
    <2>2. \A i \in 1 .. Len(chunks'[e]) :
             taken'[e] <= chunks'[e][i] /\ chunks'[e][i] <= delivered'[e]
      BY <1>7, <1>11, <2>1
    <2>3. \A i, j \in 1 .. Len(chunks'[e]) : i <= j => chunks'[e][i] <= chunks'[e][j]
      <3>1. \A i, j \in 1 .. Len(chunks'[e]) : i <= j => i + 1 <= j + 1
        BY <2>1
      <3>2. QED
        BY <1>6, <2>1, <3>1
    <2>4. QED
      BY <1>6, <1>7, <1>9, <1>11, <2>2, <2>3
  <1>13. \A d \in End : d # e => Stream(d)'
    BY <1>4 DEF Streams, Place
  <1>14. QED
    BY <1>5, <1>10, <1>12, <1>13 DEF Streams

\* Sending only moves the end of what may be delivered.
LEMMA SendKeeps ==
    ASSUME Typed, Streams, NEW e \in End, NEW type, NEW call,
           SendFrame(e, type, call), UNCHANGED <<delivered, chunks, taken, parsed>>
    PROVE  /\ Streams'
           /\ sent'[e] = sent[e]
           /\ sent'[Peer(e)] = Append(sent[Peer(e)], [type |-> type, call |-> call])
           /\ [type |-> type, call |-> call] \in Frame =>
                 /\ sent' \in [End -> Seq(Frame)]
                 /\ Len(sent'[Peer(e)]) = Len(sent[Peer(e)]) + 1
                 /\ Newest(Peer(e))' = [type |-> type, call |-> call]
                 /\ Unread(Peer(e))' = Unread(Peer(e)) + 2
                 /\ Unread(e)' = Unread(e)
  <1> DEFINE frame == [type |-> type, call |-> call]
  <1>1. sent \in [End -> Seq(Frame)]
    BY DEF Typed
  <1>2. /\ Peer(e) \in End /\ Peer(e) # e
        /\ sent'[e] = sent[e] /\ sent'[Peer(e)] = Append(sent[Peer(e)], frame)
        /\ \A d \in End : d # Peer(e) => sent'[d] = sent[d]
        /\ DOMAIN sent' = End
    BY <1>1, Ends DEF SendFrame
  <1>3. sent[Peer(e)] \in Seq(Frame) /\ Len(sent[Peer(e)]) \in Nat
    BY <1>1, <1>2
  <1>4. Len(sent'[Peer(e)]) = Len(sent[Peer(e)]) + 1
    BY <1>2, <1>3
  <1>5. \A d \in End : Place(d) \in Nat /\ Place(d)' \in Nat /\ Place(d) <= Place(d)'
    BY <1>1, <1>2, <1>3, <1>4 DEF Place
  <1>6. Streams'
    <2> SUFFICES ASSUME NEW d \in End PROVE Stream(d)'
      BY DEF Streams
    <2>1. Stream(d) /\ Place(d) <= Place(d)' /\ Place(d) \in Nat /\ Place(d)' \in Nat
      BY <1>5 DEF Streams
    <2>2. delivered[d] \in Nat
      BY DEF Typed
    <2>3. delivered[d] <= Place(d)'
      BY <2>1, <2>2 DEF Stream
    <2>4. QED
      BY <2>1, <2>3 DEF Stream
  <1>7. ASSUME frame \in Frame
        PROVE  /\ sent' \in [End -> Seq(Frame)]
               /\ Newest(Peer(e))' = frame
               /\ Unread(Peer(e))' = Unread(Peer(e)) + 2
               /\ Unread(e)' = Unread(e)
    <2>1. Append(sent[Peer(e)], frame) \in Seq(Frame)
          /\ Append(sent[Peer(e)], frame)[Len(sent[Peer(e)]) + 1] = frame
      BY <1>3, <1>7
    <2>2. sent' \in [End -> Seq(Frame)]
      BY <1>1, <1>2, <2>1 DEF SendFrame
    <2>3. Newest(Peer(e))' = frame
      BY <1>2, <1>4, <2>1 DEF Newest
    <2>4. parsed[Peer(e)] \in Nat
      BY <1>2 DEF Typed
    <2>5. QED
      BY <1>2, <1>3, <1>4, <2>2, <2>3, <2>4 DEF Unread, Place
  <1>8. QED
    BY <1>2, <1>4, <1>6, <1>7

-----------------------------------------------------------------------------
(* Steps that leave the exchange alone. *)

LEMMA ProtocolSame ==
    ASSUME Typed, Protocol, Counted,
           UNCHANGED <<kind, sent, parsed, sendState, receiveState, pc, calls, consumed>>,
           link' = link \/ (link = "up" /\ link' = "down")
    PROVE  Protocol' /\ Counted'
  <1>1. Sender' = Sender /\ Answer' = Answer /\ Handed' = Handed
    BY DEF Sender, Answer, Handed
  <1>2. (link' = "none") = (link = "none")
    OBVIOUS
  <1>3. \A a \in End : /\ Unread(a)' = Unread(a) /\ Newest(a)' = Newest(a)
                       /\ Before(a)' = Before(a) /\ After(a)' = After(a)
    BY DEF Unread, Place, Newest, Before, After
  <1>4. \A a \in End : Exchange(a) => Exchange(a)'
    <2> SUFFICES ASSUME NEW a \in End, Exchange(a) PROVE Exchange(a)'
      OBVIOUS
    <2>1. Peer(a) \in End
      BY Ends
    <2>2. Resting(a) => Resting(a)'
      BY <1>1, <1>2, <1>3, <2>1 DEF Resting
    <2>3. Asked(a) => Asked(a)'
      BY <1>1, <1>2, <1>3, <2>1 DEF Asked
    <2>4. Handling(a) => Handling(a)'
      BY <1>1, <1>2, <1>3, <2>1 DEF Handling
    <2>5. Failed(a) => Failed(a)'
      BY <1>1, <1>2, <1>3, <2>1 DEF Failed
    <2>6. Answered(a) => Answered(a)'
      BY <1>1, <1>2, <1>3, <2>1 DEF Answered
    <2>7. QED
      BY <2>2, <2>3, <2>4, <2>5, <2>6 DEF Exchange
  <1>5. Subscribing => Subscribing'
    BY <1>2 DEF Subscribing
  <1>6. Welcomed => Welcomed'
    BY <1>1, <1>2 DEF Welcomed
  <1>7. Missed => Missed'
    BY <1>2 DEF Missed
  <1>8. Protocol'
    BY <1>1, <1>4, <1>5, <1>6, <1>7, Ends DEF Protocol
  <1>9. Counted'
    BY <1>1 DEF Counted
  <1>10. QED
    BY <1>8, <1>9

LEMMA DeliverKeepsInv ==
    ASSUME Inv, NEW e \in End, Deliver(e) PROVE Inv'
  <1>1. PICK place \in delivered[e] + 1 .. Place(e) :
           /\ delivered' = [delivered EXCEPT ![e] = place]
           /\ chunks' = [chunks EXCEPT ![e] = Append(@, place)]
    BY DEF Deliver
  <1>2. /\ UNCHANGED <<kind, link, cancelled, sent, taken, parsed, sendState,
                       receiveState, pc, calls, consumed, told, skipped>>
    BY DEF Deliver, linkVars, callVars
  <1>3. Place(e) \in Nat /\ delivered[e] \in Nat /\ place \in Nat
        /\ delivered[e] < place /\ place <= Place(e)
    BY Places DEF Inv, Typed
  <1>4. chunks[e] \in Seq(Nat) /\ chunks \in [End -> Seq(Nat)] /\ delivered \in [End -> Nat]
    BY DEF Inv, Typed
  <1>5. Append(chunks[e], place) \in Seq(Nat)
    BY <1>3, <1>4
  <1>6. chunks' \in [End -> Seq(Nat)] /\ delivered' \in [End -> Nat]
    BY <1>1, <1>3, <1>4, <1>5
  <1>7. Typed'
    BY <1>2, <1>6 DEF Inv, Typed
  <1>8. Streams'
    <2>1. \A d \in End : d # e => Stream(d)'
      BY <1>1, <1>2, <1>4 DEF Inv, Streams, Stream, Place
    <2>2. Stream(e)'
      <3> DEFINE n == Len(chunks[e])
      <3>1. chunks'[e] = Append(chunks[e], place) /\ delivered'[e] = place
        BY <1>1, <1>4
      <3>2. n \in Nat /\ Len(chunks'[e]) = n + 1 /\ chunks'[e][n + 1] = place
            /\ \A i \in 1 .. n : chunks'[e][i] = chunks[e][i] /\ chunks[e][i] \in Nat
        BY <1>3, <1>4, <3>1
      <3>3. Stream(e) /\ taken[e] \in Nat
        BY DEF Inv, Streams, Typed
      <3>10. taken[e] <= place
        BY <1>3, <3>3 DEF Stream
      <3>4. \A i \in 1 .. n : taken[e] <= chunks[e][i] /\ chunks[e][i] <= place
        BY <1>3, <3>2, <3>3 DEF Stream
      <3>5. \A i \in 1 .. n + 1 : i \in 1 .. n \/ i = n + 1
        BY <3>2
      <3>6. \A i \in 1 .. n + 1 : taken[e] <= chunks'[e][i] /\ chunks'[e][i] <= place
        <4> SUFFICES ASSUME NEW i \in 1 .. n + 1
                     PROVE  taken[e] <= chunks'[e][i] /\ chunks'[e][i] <= place
          OBVIOUS
        <4>1. CASE i = n + 1
          BY <1>3, <3>2, <3>10, <4>1
        <4>2. CASE i \in 1 .. n
          BY <3>2, <3>4, <4>2
        <4>3. QED
          BY <3>5, <4>1, <4>2
      <3>7. \A i, j \in 1 .. n + 1 : i <= j => chunks'[e][i] <= chunks'[e][j]
        <4> SUFFICES ASSUME NEW i \in 1 .. n + 1, NEW j \in 1 .. n + 1, i <= j
                     PROVE  chunks'[e][i] <= chunks'[e][j]
          OBVIOUS
        <4>1. CASE j = n + 1
          BY <1>3, <3>2, <3>6, <4>1
        <4>2. CASE j \in 1 .. n
          <5>1. i \in 1 .. n
            BY <3>2, <4>2
          <5>2. QED
            BY <3>2, <3>3, <4>2, <5>1 DEF Stream
        <4>3. QED
          BY <3>5, <4>1, <4>2
      <3>8. Place(e)' = Place(e)
        BY <1>2 DEF Place
      <3>9. /\ parsed'[e] <= taken'[e] /\ taken'[e] <= delivered'[e]
            /\ delivered'[e] <= Place(e)'
        BY <1>2, <1>3, <3>1, <3>3, <3>8, <3>10 DEF Stream
      <3>11. Len(chunks'[e]) = n + 1 /\ taken'[e] = taken[e] /\ delivered'[e] = place
        BY <1>2, <3>1, <3>2
      <3>12. QED
        BY <3>6, <3>7, <3>9, <3>11 DEF Stream
    <2>3. QED
      BY <2>1, <2>2 DEF Streams
  <1>9. Protocol' /\ Counted'
    <2>1. UNCHANGED <<kind, sent, parsed, sendState, receiveState, pc, calls, consumed>>
          /\ (link' = link \/ (link = "up" /\ link' = "down"))
      BY <1>2
    <2>2. QED
      BY <2>1, ProtocolSame DEF Inv
  <1>10. QED
    BY <1>7, <1>8, <1>9 DEF Inv

LEMMA StreamsSame ==
    ASSUME Streams, UNCHANGED streamVars PROVE Streams'
  BY DEF Streams, Stream, Place, streamVars

LEMMA LinkStep ==
    ASSUME Inv, Drop \/ \E e \in End : Notice(e) PROVE Inv'
  <1>1. /\ UNCHANGED <<kind, streamVars, sendState, receiveState, pc, calls, consumed,
                       told, skipped>>
        /\ link' = link \/ (link = "up" /\ link' = "down")
        /\ link' \in {"none", "up", "down"}
    BY DEF Drop, Notice, callVars, Inv, Typed
  <1>2. cancelled' \in [End -> BOOLEAN]
    BY DEF Drop, Notice, Inv, Typed
  <1>3. Typed'
    BY <1>1, <1>2 DEF Inv, Typed, streamVars
  <1>4. Streams'
    BY <1>1, StreamsSame DEF Inv
  <1>5. Protocol' /\ Counted'
    BY <1>1, ProtocolSame DEF Inv, streamVars
  <1>6. QED
    BY <1>3, <1>4, <1>5 DEF Inv

\* AwaitMore, ReceiveMore: the chunk is kept, and nothing else happens.
LEMMA MoreStep ==
    ASSUME Inv, NEW e \in End, AwaitMore(e) \/ ReceiveMore(e) PROVE Inv'
  <1>1. Take(e) /\ UNCHANGED <<kind, link, cancelled, sent, delivered, parsed, sendState,
                               receiveState, pc, calls, consumed, told, skipped>>
    BY DEF AwaitMore, ReceiveMore, linkVars, callVars
  <1>2. Streams' /\ taken' \in [End -> Nat] /\ chunks' \in [End -> Seq(Nat)]
    BY <1>1, TakeKeeps DEF Inv
  <1>3. Typed'
    BY <1>1, <1>2 DEF Inv, Typed
  <1>4. Protocol' /\ Counted'
    <2>1. UNCHANGED <<kind, sent, parsed, sendState, receiveState, pc, calls, consumed>>
          /\ (link' = link \/ (link = "up" /\ link' = "down"))
      BY <1>1
    <2>2. QED
      BY <2>1, ProtocolSame DEF Inv
  <1>5. QED
    BY <1>2, <1>3, <1>4 DEF Inv

-----------------------------------------------------------------------------
(* The caller and the connection. *)

LEMMA ConsumedBound ==
    ASSUME Inv
    PROVE  \A i \in 1 .. Len(consumed) : consumed[i] \in Int /\ consumed[i] <= calls
  <1>1. MaxCalls \in Nat /\ consumed \in Seq(0 .. MaxCalls)
    BY SessionAssumption DEF Inv, Typed
  <1>2. \A i \in 1 .. Len(consumed) : consumed[i] \in 0 .. MaxCalls
    BY <1>1
  <1>3. \A i \in 1 .. Len(consumed) : consumed[i] \in Int
    BY <1>1, <1>2
  <1>4. QED
    BY <1>3 DEF Inv, Counted

LEMMA StartStep ==
    ASSUME Inv, Publish \/ Send \/ Push PROVE Inv'
  <1> DEFINE a == Sender
  <1>1. a \in End /\ Peer(a) \in End /\ Peer(a) # a /\ Sender' = Sender /\ pc[a] = "idle"
    BY Ends DEF Publish, Send, Push, StartCall, Sender
  <1>2. /\ calls' = calls + 1 /\ calls \in 0 .. MaxCalls /\ calls' \in 0 .. MaxCalls
        /\ pc' = [pc EXCEPT ![a] = IF link = "none" THEN "connect" ELSE "prime"]
        /\ UNCHANGED <<kind, link, cancelled, streamVars, sendState, receiveState,
                       consumed, told, skipped>>
    BY SessionAssumption DEF Publish, Send, Push, StartCall, Goto, Sender, linkVars,
       Inv, Typed
  <1>3. Typed'
    BY <1>1, <1>2 DEF Inv, Typed, streamVars
  <1>4. Streams'
    BY <1>2, StreamsSame DEF Inv
  <1>5. /\ pc'[a] = IF link = "none" THEN "connect" ELSE "prime"
        /\ pc'[Peer(a)] = pc[Peer(a)]
    BY <1>1, <1>2 DEF Inv, Typed
  <1>6. ~Handed'
    BY <1>2 DEF Inv, Typed, Counted, Handed
  <1>7. Exchange(a) => Exchange(a)'
    <2>1. Exchange(a) => Resting(a)
      BY <1>1 DEF Exchange, Asked, Handling, Failed, Answered
    <2>2. Unread(a)' = Unread(a) /\ Unread(Peer(a))' = Unread(Peer(a)) /\ Before(a)' = Before(a)
      BY <1>1, <1>2 DEF Unread, Place, Before, streamVars
    <2>3. Resting(a) => Resting(a)'
      BY <1>1, <1>2, <1>5, <1>6, <2>2 DEF Resting
    <2>4. QED
      BY <2>1, <2>3 DEF Exchange
  <1>8. ASSUME kind = "subscribe", Welcomed
        PROVE  Welcomed'
    <2>1. a = "server" /\ Peer(a) = "client"
      BY <1>8, Ends
    <2>2. QED
      BY <1>1, <1>2, <1>5, <1>6, <1>8, <2>1 DEF Welcomed, streamVars
  <1>9. kind = "subscribe" => ~Subscribing /\ ~Missed
    BY <1>1, Ends DEF Subscribing, Missed
  <1>10. Protocol'
    BY <1>1, <1>2, <1>7, <1>8, <1>9 DEF Inv, Protocol
  <1>11. Counted'
    <2>1. calls \in Nat /\ calls' > 0 /\ calls <= calls'
      BY <1>2
    <2>2. \A i \in 1 .. Len(consumed) : consumed[i] \in Int /\ consumed[i] <= calls
      BY ConsumedBound
    <2>3. QED
      BY <1>2, <2>1, <2>2 DEF Counted
  <1>12. QED
    BY <1>3, <1>4, <1>10, <1>11 DEF Inv

LEMMA RefusedStep ==
    ASSUME Inv, CallRefused PROVE Inv'
  <1>1. /\ Sender = "client" /\ kind # "subscribe" /\ pc["client"] = "idle"
        /\ calls' = calls + 1 /\ calls \in 0 .. MaxCalls /\ calls' \in 0 .. MaxCalls
        /\ UNCHANGED <<kind, link, cancelled, streamVars, sendState, receiveState, pc,
                       consumed, told, skipped>>
    BY SessionAssumption, Ends DEF CallRefused, linkVars, Inv, Typed
  <1>2. Typed'
    BY <1>1 DEF Inv, Typed, streamVars
  <1>3. Streams'
    BY <1>1, StreamsSame DEF Inv
  <1>4. Resting("client")
    BY <1>1 DEF Inv, Protocol, Exchange, Asked, Handling, Failed, Answered
  <1>5. Resting("client")'
    BY <1>1, <1>4 DEF Resting, Before, Unread, Place, streamVars
  <1>6. Sender' = "client"
    BY <1>1 DEF Sender
  <1>7. Protocol'
    BY <1>5, <1>6 DEF Protocol, Exchange
  <1>8. Counted'
    <2>1. calls \in Nat /\ calls' > 0 /\ calls <= calls'
      BY <1>1
    <2>2. \A i \in 1 .. Len(consumed) : consumed[i] \in Int /\ consumed[i] <= calls
      BY ConsumedBound
    <2>3. QED
      BY <1>1, <2>1, <2>2 DEF Counted
  <1>9. QED
    BY <1>2, <1>3, <1>7, <1>8 DEF Inv

LEMMA ConnectStep ==
    ASSUME Inv, Connect PROVE Inv'
  <1>1. /\ pc["client"] = "connect" /\ link' = "up"
        /\ pc' = [client |-> "prime", server |-> "listen"]
        /\ UNCHANGED <<kind, cancelled, streamVars, sendState, receiveState, calls,
                       consumed, told, skipped>>
    BY DEF Connect, callVars
  <1>2. pc' \in [End -> {"prime", "listen"}] /\ pc'["client"] = "prime"
        /\ pc'["server"] = "listen"
    BY <1>1 DEF End
  <1>3. Typed'
    BY <1>1, <1>2 DEF Inv, Typed, streamVars
  <1>4. Streams'
    BY <1>1, StreamsSame DEF Inv
  <1>5. Sender' = Sender /\ Handed' = Handed
    BY <1>1 DEF Sender, Handed
  <1>6. ASSUME kind # "subscribe" PROVE Protocol' /\ Counted'
    <2>1. Sender = "client" /\ Peer("client") = "server"
      BY <1>6, Ends
    <2>2. Resting("client")
      BY <1>1, <1>6, <2>1 DEF Inv, Protocol, Exchange, Asked, Handling, Failed, Answered
    <2>3. Resting("client")'
      BY <1>1, <1>2, <1>5, <2>1, <2>2 DEF Resting, Before, Unread, Place, streamVars
    <2>4. Protocol'
      BY <1>5, <2>1, <2>3 DEF Protocol, Exchange
    <2>5. Counted'
      BY <1>1, <1>2, <1>5, <2>1 DEF Inv, Counted
    <2>6. QED
      BY <2>4, <2>5
  <1>7. ASSUME kind = "subscribe" PROVE Protocol' /\ Counted'
    <2>1. Sender = "server" /\ Peer("server") = "client"
      BY <1>7, Ends
    <2>2. ~Exchange("server") /\ ~Welcomed /\ ~Missed
      BY <1>1, <2>1 DEF Exchange, Resting, Asked, Handling, Failed, Answered, Welcomed,
         Missed
    <2>3. Subscribing
      BY <2>1, <2>2 DEF Inv, Protocol
    <2>4. Subscribing'
      BY <1>1, <1>2, <2>3 DEF Subscribing, streamVars
    <2>5. Protocol'
      BY <1>1, <1>7, <2>4 DEF Protocol
    <2>6. Counted'
      BY <1>1, <1>2, <1>5, <2>1 DEF Inv, Counted
    <2>7. QED
      BY <2>5, <2>6
  <1>8. QED
    BY <1>3, <1>4, <1>6, <1>7 DEF Inv

-----------------------------------------------------------------------------
(* The states of the sender. *)

LEMMA SendStates ==
    /\ SendState["CreatedPublishing"] = [request |-> "HandShake", next |-> "OpenedPublishing"]
    /\ SendState["OpenedPublishing"] = [request |-> "Publish", next |-> "OpenedPublishing"]
    /\ SendState["CreatedSubscribing"] = [request |-> "Subscribe", next |-> "Subscribed"]
    /\ SendState["OpenedPush"] = [request |-> "Push", next |-> "OpenedPush"]
    /\ SendState["OpenedSend"] = [request |-> "Send", next |-> "OpenedSend"]
    /\ DOMAIN SendState = {"CreatedPublishing", "OpenedPublishing", "CreatedSubscribing",
                           "OpenedPush", "OpenedSend"}
  BY DEF SendState, CreatedPublishing, OpenedPublishing, CreatedSubscribing, OpenedPush,
     OpenedSend

LEMMA RequestFrame ==
    ASSUME Inv, NEW s \in DOMAIN SendState
    PROVE  [type |-> SendState[s].request, call |-> calls] \in Frame
  <1>1. SendState[s].request \in {"HandShake", "Subscribe", "Publish", "Push", "Send"}
    BY SendStates
  <1>2. calls \in 0 .. MaxCalls
    BY DEF Inv, Typed
  <1>3. QED
    BY <1>1, <1>2 DEF Frame, ForController

\* Who sends a request, and what that makes of the exchange.
LEMMA RequestStep ==
    ASSUME Inv, NEW e \in End, SendRequest(e) PROVE Inv'
  <1> DEFINE frame == [type |-> SendState[sendState[e]].request, call |-> calls]
  <1>1. /\ pc[e] = "prime" /\ SendFrame(e, SendState[sendState[e]].request, calls)
        /\ pc' = [pc EXCEPT ![e] = "await"]
        /\ UNCHANGED <<kind, link, cancelled, delivered, chunks, taken, parsed, sendState,
                       receiveState, calls, consumed, told, skipped>>
    BY DEF SendRequest, Goto, linkVars, callVars
  <1>2. Peer(e) \in End /\ Peer(e) # e /\ Sender' = Sender /\ Handed' = Handed
        /\ Sender \in End /\ Answer' = Answer
    BY <1>1, Ends DEF Sender, Handed, Answer
  <1>3. pc'[e] = "await" /\ pc'[Peer(e)] = pc[Peer(e)]
    BY <1>1, <1>2 DEF Inv, Typed
  <1>4. \/ e = Sender /\ Resting(e)
        \/ kind = "subscribe" /\ e = "client" /\ Subscribing
        \/ kind = "subscribe" /\ e = "server" /\ Welcomed
    <2>1. Exchange(Sender) => e = Sender /\ Resting(e)
      <3>1. e = Sender \/ e = Peer(Sender)
        BY Ends
      <3>2. QED
        BY <1>1, <3>1 DEF Exchange, Resting, Asked, Handling, Failed, Answered
    <2>2. Subscribing => e = "client"
      BY <1>1 DEF Subscribing, End
    <2>3. Welcomed => e = "server"
      BY <1>1 DEF Welcomed, End
    <2>4. ~Missed
      BY <1>1 DEF Missed, End
    <2>5. QED
      BY <2>1, <2>2, <2>3, <2>4 DEF Inv, Protocol
  <1>5. sendState[e] \in DOMAIN SendState
    BY <1>4, SendStates DEF Resting, Before, Subscribing, Welcomed
  <1>6. frame \in Frame
    BY <1>5, RequestFrame
  <1>7. /\ Streams' /\ sent' \in [End -> Seq(Frame)] /\ sent'[e] = sent[e]
        /\ sent'[Peer(e)] = Append(sent[Peer(e)], frame)
        /\ Newest(Peer(e))' = frame /\ Unread(Peer(e))' = Unread(Peer(e)) + 2
        /\ Unread(e)' = Unread(e)
    BY <1>1, <1>6, SendKeeps DEF Inv
  <1>8. Typed'
    <2>1. pc' \in [End -> {"none", "idle", "connect", "prime", "await", "subscribed",
                           "listen", "controller", "answer", "stopped", "unexpected",
                           "rejected"}]
      BY <1>1 DEF Inv, Typed
    <2>2. QED
      BY <1>1, <1>7, <2>1 DEF Inv, Typed
  <1>9. ASSUME e = Sender, Resting(e) PROVE Protocol'
    <2>1. Asked(e)'
      <3>1. Before(e)'
        BY <1>1, <1>9 DEF Resting, Before
      <3>2. Unread(e)' = 0 /\ Unread(Peer(e))' = 2
        BY <1>7, <1>9 DEF Resting
      <3>3. pc'[Peer(e)] = "listen" /\ link' # "none" /\ ~Handed'
        BY <1>1, <1>2, <1>3, <1>9 DEF Resting
      <3>4. QED
        BY <1>1, <1>3, <1>7, <3>1, <3>2, <3>3 DEF Asked
    <2>2. QED
      BY <1>2, <1>9, <2>1 DEF Protocol, Exchange
  <1>10. ASSUME kind = "subscribe", e = "client", Subscribing PROVE Protocol'
    <2>1. Peer(e) = "server"
      BY <1>10, Ends
    <2>2. sent["server"] = << >> /\ frame = [type |-> "Subscribe", call |-> 0]
          /\ parsed["server"] = 0 /\ pc["server"] = "listen" /\ link # "none"
          /\ receiveState["server"] = "FreeBroker"
      BY <1>1, <1>10, SendStates DEF Subscribing
    <2>3. sent'["server"] = <<[type |-> "Subscribe", call |-> 0]>>
      BY <1>7, <2>1, <2>2
    <2>4. Subscribing'
      BY <1>1, <1>3, <1>7, <1>10, <2>1, <2>2, <2>3 DEF Subscribing
    <2>5. QED
      BY <1>1, <1>10, <2>4 DEF Protocol
  <1>11. ASSUME kind = "subscribe", e = "server", Welcomed PROVE Protocol'
    <2>1. Peer(e) = "client"
      BY <1>11, Ends
    <2>2. sent["client"] = <<[type |-> "Ack", call |-> 0]>> /\ ~Handed
          /\ frame = [type |-> "Push", call |-> calls]
      BY <1>1, <1>11, SendStates DEF Welcomed
    <2>3. sent'["client"] = <<[type |-> "Ack", call |-> 0], [type |-> "Push", call |-> calls]>>
      BY <1>7, <2>1, <2>2
    <2>4. Welcomed'
      BY <1>1, <1>2, <1>3, <1>7, <1>11, <2>1, <2>2, <2>3 DEF Welcomed
    <2>5. QED
      BY <1>1, <1>11, <2>4 DEF Protocol
  <1>12. Protocol'
    BY <1>4, <1>9, <1>10, <1>11
  <1>13. Counted'
    <2>1. pc'[Sender] \in {"connect", "prime", "await"} => calls > 0
      <3>1. e = Sender \/ Sender = Peer(e)
        BY Ends
      <3>2. QED
        BY <1>1, <1>3, <3>1 DEF Inv, Counted
    <2>2. QED
      BY <1>1, <1>2, <2>1 DEF Inv, Counted
  <1>14. QED
    BY <1>7, <1>8, <1>12, <1>13 DEF Inv

\* Who reads an answer, and which.
LEMMA AnswerRead ==
    ASSUME Inv, NEW e \in End, pc[e] = "await", Unread(e) >= 2
    PROVE  \/ /\ e = Sender /\ Answered(e)
              /\ sent[e][(parsed[e] + 2) \div 2] = [type |-> Answer, call |-> calls]
           \/ /\ kind = "subscribe" /\ e = "client" /\ Welcomed
              /\ parsed[e] = 0 /\ sendState[e] = "CreatedSubscribing"
              /\ sent[e][(parsed[e] + 2) \div 2] = [type |-> "Ack", call |-> 0]
  <1>1. Unread(e) = Place(e) - parsed[e] /\ Place(e) = 2 * Len(sent[e])
    BY Places DEF Inv
  <1>2. ASSUME Exchange(Sender)
        PROVE  e = Sender /\ Answered(e)
               /\ sent[e][(parsed[e] + 2) \div 2] = [type |-> Answer, call |-> calls]
    <2>1. e = Sender \/ e = Peer(Sender)
      BY Ends
    <2>2. e = Sender
      BY <1>2, <2>1 DEF Exchange, Resting, Asked, Handling, Failed, Answered
    <2>3. Answered(e)
      BY <1>2, <2>2 DEF Exchange, Resting, Asked, Handling, Failed
    <2>4. (parsed[e] + 2) \div 2 = Len(sent[e])
      BY <2>3, Places DEF Inv, Answered
    <2>5. QED
      BY <2>2, <2>3, <2>4 DEF Answered, Newest
  <1>3. ~Subscribing
    <2>1. Subscribing => e = "client" /\ Len(sent["client"]) = 0 /\ parsed["client"] = 0
      BY DEF Subscribing, End
    <2>2. QED
      BY <1>1, <2>1
  <1>4. Welcomed => /\ e = "client" /\ parsed[e] = 0 /\ sendState[e] = "CreatedSubscribing"
                    /\ sent[e][1] = [type |-> "Ack", call |-> 0]
    <2>1. Welcomed => e = "client"
      <3>1. Welcomed => Len(sent["server"]) = 1 /\ parsed["server"] = 2
        BY DEF Welcomed
      <3>2. ASSUME Welcomed, e = "server" PROVE FALSE
        <4>1. Len(sent[e]) = 1 /\ parsed[e] = 2
          BY <3>1, <3>2
        <4>2. QED
          BY <1>1, <4>1
      <3>3. QED
        BY <3>2 DEF End
    <2>2. QED
      BY <2>1 DEF Welcomed
  <1>5. ~Missed
    <2>1. Missed => e = "server" /\ Len(sent["server"]) = 1 /\ parsed["server"] = 2
      BY DEF Missed, End
    <2>2. ASSUME Missed PROVE FALSE
      <3>1. Len(sent[e]) = 1 /\ parsed[e] = 2
        BY <2>1, <2>2
      <3>2. QED
        BY <1>1, <3>1
    <2>3. QED
      BY <2>2
  <1>6. (0 + 2) \div 2 = 1
    BY Halves
  <1>7. QED
    BY <1>2, <1>3, <1>4, <1>5, <1>6 DEF Inv, Protocol

LEMMA AnswerStep ==
    ASSUME Inv, NEW e \in End, ReceiveAnswer(e)
    PROVE  /\ Inv'
           /\ IF e = Sender /\ Ready(sendState[e])
              THEN Handed /\ told' = Append(told, calls) /\ pc'[e] = "idle"
              ELSE told' = told /\ pc'[e] = IF e = Sender THEN "prime" ELSE "subscribed"
           /\ pc'[Peer(e)] = pc[Peer(e)]
  <1> DEFINE answer == sent[e][(parsed[e] + 2) \div 2]
             next == SendState[sendState[e]].next
             label == IF Ready(sendState[e]) THEN "idle"
                      ELSE IF e = Sender THEN "prime" ELSE "subscribed"
  <1>1. /\ pc[e] = "await" /\ Take(e) /\ Complete(e, taken'[e])
        /\ parsed' = [parsed EXCEPT ![e] = @ + 2]
        /\ UNCHANGED <<kind, link, cancelled, sent, delivered, receiveState, calls,
                       consumed, skipped>>
    BY DEF ReceiveAnswer, linkVars
  <1>2. /\ Streams' /\ taken' \in [End -> Nat] /\ parsed' \in [End -> Nat]
        /\ chunks' \in [End -> Seq(Nat)] /\ Unread(e) >= 2
    BY <1>1, TakeKeeps DEF Inv
  <1>3. parsed'[e] = parsed[e] + 2 /\ parsed'[Peer(e)] = parsed[Peer(e)]
        /\ parsed[e] \in Nat /\ Peer(e) \in End /\ Peer(e) # e
    BY <1>1, Ends DEF Inv, Typed
  <1>4. \/ e = Sender /\ Answered(e) /\ answer = [type |-> Answer, call |-> calls]
        \/ /\ kind = "subscribe" /\ e = "client" /\ Welcomed /\ parsed[e] = 0
           /\ sendState[e] = "CreatedSubscribing" /\ answer = [type |-> "Ack", call |-> 0]
    BY <1>1, <1>2, AnswerRead
  <1>5. answer.type = Answer
    BY <1>4 DEF Answer
  <1>6. /\ sendState' = [sendState EXCEPT ![e] = next]
        /\ told' = IF Ready(sendState[e]) THEN Append(told, answer.call) ELSE told
        /\ pc' = [pc EXCEPT ![e] = CASE Ready(sendState[e])             -> "idle"
                                     [] sendState'[e] = "Subscribed"   -> "subscribed"
                                     [] OTHER                          -> "prime"]
    BY <1>1, <1>3, <1>5 DEF ReceiveAnswer, Goto
  <1>7. /\ Sender' = Sender /\ Handed' = Handed
        /\ \A d \in End : Unread(d)' = IF d = e THEN Unread(d) - 2 ELSE Unread(d)
    <2>1. \A d \in End : parsed'[d] = IF d = e THEN parsed[d] + 2 ELSE parsed[d]
      BY <1>1 DEF Inv, Typed
    <2>2. \A d \in End : Place(d)' = Place(d) /\ Place(d) \in Nat /\ parsed[d] \in Nat
      BY <1>1, Places DEF Inv, Place
    <2>3. QED
      BY <1>1, <2>1, <2>2 DEF Sender, Handed, Unread
  <1>8. sendState'[e] = next /\ sendState'[Peer(e)] = sendState[Peer(e)]
    BY <1>3, <1>6 DEF Inv, Typed
  <1>9. ASSUME e = Sender, Answered(e)
        PROVE  /\ next \in {"OpenedPublishing", "OpenedPush", "OpenedSend"}
               /\ (Ready(sendState[e]) <=> Handed)
               /\ <<next, receiveState[Peer(e)]>> \in
                     {<<"OpenedPublishing", "BrokerPrimed">>,
                      <<"OpenedSend", "ClientSubscribed">>,
                      <<"OpenedPush", "SubscriberSubscribed">>}
    BY <1>9, SendStates DEF Answered, After
  <1>10. ASSUME sendState[e] = "CreatedSubscribing"
         PROVE  next = "Subscribed" /\ ~Ready(sendState[e])
    BY <1>10, SendStates DEF Ready
  <1>11. pc' = [pc EXCEPT ![e] = label] /\ pc'[e] = label /\ pc'[Peer(e)] = pc[Peer(e)]
    <2>1. e = "client" /\ kind = "subscribe" => e # Sender
      BY Ends
    <2>2. pc' = [pc EXCEPT ![e] = label]
      BY <1>4, <1>6, <1>8, <1>9, <1>10, <2>1
    <2>3. QED
      BY <1>3, <2>2 DEF Inv, Typed
  <1>12. Typed'
    <2>1. next \in DOMAIN SendState \cup {"Subscribed"}
      BY <1>4, <1>9, <1>10, SendStates
    <2>2. sendState' \in [End -> DOMAIN SendState \cup {"Subscribed"}]
      BY <1>6, <2>1 DEF Inv, Typed
    <2>3. answer.call \in 0 .. MaxCalls
      BY <1>4, SessionAssumption DEF Inv, Typed
    <2>4. told' \in Seq(0 .. MaxCalls)
      <3>1. told \in Seq(0 .. MaxCalls)
        BY DEF Inv, Typed
      <3>2. Append(told, answer.call) \in Seq(0 .. MaxCalls)
        BY <2>3, <3>1
      <3>3. QED
        BY <1>6, <3>1, <3>2
    <2>5. pc' \in [End -> {"none", "idle", "connect", "prime", "await", "subscribed",
                           "listen", "controller", "answer", "stopped", "unexpected",
                           "rejected"}]
      BY <1>11 DEF Inv, Typed
    <2>6. QED
      BY <1>1, <1>2, <2>2, <2>4, <2>5 DEF Inv, Typed
  <1>13. ASSUME e = Sender, Answered(e) PROVE Resting(e)'
    <2>1. Before(e)'
      <3>1. \/ next = "OpenedPublishing" /\ receiveState[Peer(e)] = "BrokerPrimed"
            \/ next = "OpenedSend" /\ receiveState[Peer(e)] = "ClientSubscribed"
            \/ next = "OpenedPush" /\ receiveState[Peer(e)] = "SubscriberSubscribed"
        BY <1>9, <1>13
      <3>2. sendState'[e] = next /\ receiveState' = receiveState
        BY <1>1, <1>8
      <3>3. QED
        BY <3>1, <3>2 DEF Before
    <2>2. Unread(e)' = 0 /\ Unread(Peer(e))' = 0
      BY <1>3, <1>7, <1>13 DEF Answered
    <2>3. pc'[Peer(e)] = "listen" /\ link' # "none"
      BY <1>1, <1>11, <1>13 DEF Answered
    <2>4. pc'[e] \in {"idle", "prime"} /\ (pc'[e] = "prime" => ~Handed')
      BY <1>7, <1>9, <1>11, <1>13
    <2>5. QED
      BY <2>1, <2>2, <2>3, <2>4 DEF Resting
  <1>14. ASSUME kind = "subscribe", e = "client", Welcomed, parsed[e] = 0,
                sendState[e] = "CreatedSubscribing"
         PROVE  Welcomed'
    <2>1. Peer(e) = "server" /\ e # Sender
      BY <1>14, Ends
    <2>2. pc'["client"] = "subscribed" /\ pc'["server"] = pc["server"]
          /\ parsed'["client"] = 2 /\ parsed'["server"] = parsed["server"]
          /\ sendState'["server"] = sendState["server"]
      BY <1>3, <1>8, <1>10, <1>11, <1>14, <2>1
    <2>3. QED
      BY <1>1, <1>7, <1>14, <2>2 DEF Welcomed
  <1>15. Protocol'
    BY <1>1, <1>4, <1>7, <1>13, <1>14 DEF Protocol, Exchange
  <1>16. Counted'
    <2>1. e = Sender \/ Sender = Peer(e)
      BY Ends
    <2>2. pc'[Sender] \in {"connect", "prime", "await"} => calls > 0
      BY <1>1, <1>11, <2>1 DEF Inv, Counted
    <2>3. QED
      BY <1>1, <1>7, <2>2 DEF Inv, Counted
  <1>17. IF e = Sender /\ Ready(sendState[e])
         THEN Handed /\ told' = Append(told, calls) /\ pc'[e] = "idle"
         ELSE told' = told /\ pc'[e] = IF e = Sender THEN "prime" ELSE "subscribed"
    <2>1. e = "client" /\ kind = "subscribe" => e # Sender
      BY Ends
    <2>2. QED
      BY <1>4, <1>6, <1>9, <1>10, <1>11, <2>1
  <1>18. QED
    BY <1>2, <1>11, <1>12, <1>15, <1>16, <1>17 DEF Inv

-----------------------------------------------------------------------------
(* The subscriber before it listens. *)

LEMMA SubscribeFailsStep ==
    ASSUME Inv, SubscribeFails PROVE Inv'
  <1>1. /\ kind = "subscribe" /\ pc["client"] \in {"prime", "await", "subscribed"}
        /\ pc' = [pc EXCEPT !["client"] = "stopped"]
        /\ UNCHANGED <<kind, link, cancelled, streamVars, sendState, receiveState, calls,
                       consumed, told, skipped>>
    BY DEF SubscribeFails, Goto, linkVars, callVars
  <1>2. /\ Sender = "server" /\ Peer("server") = "client" /\ Sender' = Sender
        /\ Handed' = Handed /\ "client" \in End /\ "server" \in End
    BY <1>1, Ends DEF Sender, Handed
  <1>3. pc'["client"] = "stopped" /\ pc'["server"] = pc["server"]
    BY <1>1, <1>2 DEF Inv, Typed
  <1>4. Typed'
    <2>1. pc' \in [End -> {"none", "idle", "connect", "prime", "await", "subscribed",
                           "listen", "controller", "answer", "stopped", "unexpected",
                           "rejected"}]
      BY <1>1 DEF Inv, Typed
    <2>2. QED
      BY <1>1, <2>1 DEF Inv, Typed, streamVars
  <1>5. Streams'
    BY <1>1, StreamsSame DEF Inv
  <1>6. ~Exchange("server") /\ ~Missed
    BY <1>1, <1>2 DEF Exchange, Resting, Asked, Handling, Failed, Answered, Missed
  <1>7. Subscribing => Subscribing'
    BY <1>1, <1>3 DEF Subscribing, streamVars
  <1>8. Welcomed => Welcomed'
    BY <1>1, <1>2, <1>3 DEF Welcomed, streamVars
  <1>9. Protocol'
    BY <1>1, <1>2, <1>6, <1>7, <1>8 DEF Inv, Protocol
  <1>10. Counted'
    BY <1>1, <1>2, <1>3 DEF Inv, Counted
  <1>11. QED
    BY <1>4, <1>5, <1>9, <1>10 DEF Inv

\* It begins to listen where the bytes that it has taken end: the first push is
\* then unread, or part of it is lost.
LEMMA BeginListenStep ==
    ASSUME Inv, BeginListen PROVE Inv'
  <1>1. /\ pc["client"] = "subscribed"
        /\ pc' = [pc EXCEPT !["client"] = "listen"]
        /\ parsed' = [parsed EXCEPT !["client"] = taken["client"]]
        /\ skipped' \in BOOLEAN
        /\ UNCHANGED <<kind, link, cancelled, sent, delivered, chunks, taken, sendState,
                       receiveState, calls, consumed, told>>
    BY DEF BeginListen, Goto, linkVars, callVars
  <1>2. kind = "subscribe" /\ Welcomed
    BY <1>1, Ends DEF Inv, Protocol, Exchange, Resting, Asked, Handling, Failed, Answered,
       Subscribing, Missed
  <1>3. /\ Sender = "server" /\ Peer("server") = "client" /\ Sender' = Sender
        /\ Handed' = Handed /\ "client" \in End /\ "server" \in End
    BY <1>1, <1>2, Ends DEF Sender, Handed
  <1>4. /\ pc'["client"] = "listen" /\ pc'["server"] = pc["server"]
        /\ parsed'["client"] = taken["client"] /\ parsed'["server"] = parsed["server"]
        /\ taken["client"] \in Nat
    BY <1>1, <1>3 DEF Inv, Typed
  <1>5. Typed'
    <2>1. parsed' \in [End -> Nat]
      BY <1>1, <1>4 DEF Inv, Typed
    <2>2. pc' \in [End -> {"none", "idle", "connect", "prime", "await", "subscribed",
                           "listen", "controller", "answer", "stopped", "unexpected",
                           "rejected"}]
      BY <1>1 DEF Inv, Typed
    <2>3. QED
      BY <1>1, <2>1, <2>2 DEF Inv, Typed
  <1>6. Streams'
    <2>1. \A e \in End : e = "client" \/ e = "server"
      BY DEF End
    <2>2. Stream("client") /\ Stream("server")
      BY <1>3 DEF Inv, Streams
    <2>3. Place("client")' = Place("client") /\ Place("server")' = Place("server")
      BY <1>1 DEF Place
    <2>4. Stream("client")'
      BY <1>1, <1>4, <2>2, <2>3 DEF Stream
    <2>5. Stream("server")'
      BY <1>1, <1>4, <2>2, <2>3 DEF Stream
    <2>6. QED
      BY <2>1, <2>4, <2>5 DEF Streams
  <1>7. /\ 2 <= taken["client"] /\ taken["client"] <= 2 * Len(sent["client"])
    <2>1. parsed["client"] = 2
      BY <1>1, <1>2 DEF Welcomed
    <2>2. Stream("client") /\ delivered["client"] \in Nat /\ Place("client") \in Nat
          /\ Place("client") = 2 * Len(sent["client"])
      BY <1>3, Places DEF Inv, Streams, Typed
    <2>3. QED
      BY <1>4, <2>1, <2>2 DEF Stream
  <1>8. Before("server")' /\ Unread("server")' = 0
    <2>1. sendState["server"] = "OpenedPush" /\ receiveState["client"] = "SubscriberSubscribed"
          /\ Len(sent["server"]) = 1 /\ parsed["server"] = 2
      BY <1>2 DEF Welcomed
    <2>2. Before("server")'
      BY <1>1, <1>3, <2>1 DEF Before
    <2>3. Unread("server")' = 0
      BY <1>1, <1>4, <2>1 DEF Unread, Place
    <2>4. QED
      BY <2>2, <2>3
  <1>9. Unread("client")' = 2 * Len(sent["client"]) - taken["client"]
    BY <1>1, <1>4 DEF Unread, Place
  <1>10. ASSUME pc["server"] \in {"idle", "prime", "stopped"} PROVE Resting("server")'
    <2>1. Len(sent["client"]) = 1
      BY <1>2, <1>10 DEF Welcomed
    <2>2. Unread("client")' = 0
      BY <1>4, <1>7, <1>9, <2>1
    <2>3. pc["server"] = "prime" => ~Handed
      BY <1>2 DEF Welcomed
    <2>4. link # "none"
      BY <1>2 DEF Welcomed
    <2>5. QED
      BY <1>1, <1>3, <1>4, <1>8, <1>10, <2>2, <2>3, <2>4 DEF Resting
  <1>11. ASSUME pc["server"] = "await" PROVE Asked("server")' \/ Missed'
    <2>1. /\ Len(sent["client"]) = 2 /\ Newest("client") = [type |-> "Push", call |-> calls]
          /\ link # "none" /\ ~Handed
      <3>1. sent["client"] = <<[type |-> "Ack", call |-> 0], [type |-> "Push", call |-> calls]>>
        BY <1>2, <1>11 DEF Welcomed
      <3>2. Len(sent["client"]) = 2 /\ sent["client"][2] = [type |-> "Push", call |-> calls]
        BY <3>1
      <3>3. link # "none" /\ ~Handed
        BY <1>2, <1>11 DEF Welcomed
      <3>4. QED
        BY <3>2, <3>3 DEF Newest
    <2>2. taken["client"] \in {2, 3, 4}
      BY <1>4, <1>7, <2>1
    <2>3. CASE taken["client"] = 2
      <3>1. Unread("client")' = 2
        BY <1>9, <2>1, <2>3
      <3>2. SendState[sendState'["server"]].request = "Push"
        BY <1>1, <1>2, SendStates DEF Welcomed
      <3>3. Newest("client")' = [type |-> "Push", call |-> calls]
        BY <1>1, <2>1 DEF Newest
      <3>4. QED
        BY <1>1, <1>3, <1>4, <1>8, <1>11, <2>1, <3>1, <3>2, <3>3 DEF Asked
    <2>4. CASE taken["client"] \in {3, 4}
      BY <1>1, <1>2, <1>4, <1>11, <2>1, <2>4 DEF Welcomed, Missed
    <2>5. QED
      BY <2>2, <2>3, <2>4
  <1>12. pc["server"] \in {"idle", "prime", "stopped", "await"}
    BY <1>2 DEF Welcomed
  <1>13. Protocol'
    BY <1>1, <1>2, <1>3, <1>10, <1>11, <1>12 DEF Protocol, Exchange
  <1>14. Counted'
    BY <1>1, <1>3, <1>4 DEF Inv, Counted
  <1>15. QED
    BY <1>5, <1>6, <1>13, <1>14 DEF Inv

-----------------------------------------------------------------------------
(* The receiver of requests. *)

LEMMA BrokenStep ==
    ASSUME Inv, NEW e \in End, ReceiveBroken(e) PROVE Inv'
  <1>1. PICK label \in {"listen", "stopped"} : pc' = [pc EXCEPT ![e] = label]
    BY DEF ReceiveBroken, Goto
  <1>2. /\ pc[e] = "listen" /\ Broken(e) /\ Take(e)
        /\ UNCHANGED <<kind, link, cancelled, sent, delivered, parsed, sendState,
                       receiveState, calls, consumed, told, skipped>>
    BY DEF ReceiveBroken, linkVars, callVars
  <1>3. Streams' /\ taken' \in [End -> Nat] /\ chunks' \in [End -> Seq(Nat)]
    BY <1>2, TakeKeeps DEF Inv
  <1>4. Typed'
    <2>1. pc' \in [End -> {"none", "idle", "connect", "prime", "await", "subscribed",
                           "listen", "controller", "answer", "stopped", "unexpected",
                           "rejected"}]
      BY <1>1 DEF Inv, Typed
    <2>2. QED
      BY <1>2, <1>3, <2>1 DEF Inv, Typed
  <1>5. Unread(e) \notin {0, 2}
    BY <1>2, Places DEF Inv
  <1>6. ~Exchange(Sender)
    <2>1. e = Sender \/ e = Peer(Sender)
      BY Ends
    <2>2. QED
      BY <1>2, <1>5, <2>1 DEF Exchange, Resting, Asked, Handling, Failed, Answered
  <1>7. ~Subscribing
    <2>1. Subscribing => e = "server" /\ parsed[e] = 0
      BY <1>2 DEF Subscribing, End
    <2>2. 0 % 2 = 0
      BY Halves
    <2>3. QED
      BY <1>2, <2>1, <2>2 DEF Broken
  <1>8. ~Welcomed
    BY <1>2 DEF Welcomed, End
  <1>9. kind = "subscribe" /\ Missed
    BY <1>6, <1>7, <1>8 DEF Inv, Protocol
  <1>10. e = "client" /\ pc'["client"] = label /\ pc'["server"] = pc["server"]
    BY <1>1, <1>2, <1>9 DEF Missed, End, Inv, Typed
  <1>11. Protocol'
    BY <1>1, <1>2, <1>9, <1>10 DEF Protocol, Missed
  <1>12. Counted'
    <2>1. Sender = "server" /\ Sender' = Sender
      BY <1>2, <1>9, Ends DEF Sender
    <2>2. QED
      BY <1>2, <1>10, <2>1 DEF Inv, Counted
  <1>13. QED
    BY <1>3, <1>4, <1>11, <1>12 DEF Inv

LEMMA ReceiveStates ==
    /\ ReceiveState["FreeBroker"] = [HandShake |-> "BrokerPrimed", Subscribe |-> "BrokerSubscribed"]
    /\ ReceiveState["BrokerPrimed"] = [Publish |-> "BrokerPrimed"]
    /\ ReceiveState["SubscriberSubscribed"] = [Push |-> "SubscriberSubscribed"]
    /\ ReceiveState["ClientSubscribed"] = [Send |-> "ClientSubscribed"]
    /\ DOMAIN ReceiveState = {"FreeBroker", "BrokerPrimed", "BrokerSubscribed",
                              "SubscriberSubscribed", "ClientSubscribed"}
  BY DEF ReceiveState, FreeBroker, BrokerPrimed, BrokerSubscribed, SubscriberSubscribed,
     ClientSubscribed

\* Who reads a request, and which.
LEMMA RequestRead ==
    ASSUME Inv, NEW e \in End, pc[e] = "listen", Unread(e) >= 2
    PROVE  \/ /\ e = Peer(Sender) /\ Asked(Sender)
              /\ sent[e][(parsed[e] + 2) \div 2]
                    = [type |-> SendState[sendState[Sender]].request, call |-> calls]
           \/ /\ kind = "subscribe" /\ e = "server" /\ Subscribing
              /\ pc["client"] \in {"await", "stopped"} /\ link # "none"
              /\ receiveState[e] = "FreeBroker" /\ parsed[e] = 0
              /\ sent[e] = <<[type |-> "Subscribe", call |-> 0]>>
              /\ sent[e][(parsed[e] + 2) \div 2] = [type |-> "Subscribe", call |-> 0]
  <1>1. Unread(e) = Place(e) - parsed[e] /\ Place(e) = 2 * Len(sent[e])
    BY Places DEF Inv
  <1>2. ASSUME Exchange(Sender)
        PROVE  /\ e = Peer(Sender) /\ Asked(Sender)
               /\ sent[e][(parsed[e] + 2) \div 2]
                     = [type |-> SendState[sendState[Sender]].request, call |-> calls]
    <2>1. e = Sender \/ e = Peer(Sender)
      BY Ends
    <2>2. e = Peer(Sender)
      BY <1>2, <2>1 DEF Exchange, Resting, Asked, Handling, Failed, Answered
    <2>3. Asked(Sender)
      BY <1>2, <2>2 DEF Exchange, Resting, Handling, Failed, Answered
    <2>4. (parsed[e] + 2) \div 2 = Len(sent[e])
      BY <2>2, <2>3, Places DEF Inv, Asked
    <2>5. QED
      BY <2>2, <2>3, <2>4 DEF Asked, Newest
  <1>3. ASSUME Subscribing
        PROVE  /\ e = "server" /\ receiveState[e] = "FreeBroker" /\ parsed[e] = 0
               /\ pc["client"] \in {"await", "stopped"} /\ link # "none"
               /\ sent[e] = <<[type |-> "Subscribe", call |-> 0]>>
    <2>1. e = "server"
      BY <1>3 DEF Subscribing, End
    <2>2. Len(sent["server"]) = 0 /\ parsed["server"] = 0 => Unread("server") = 0
      BY <1>1, <2>1
    <2>3. Len(sent["server"]) # 0 \/ parsed["server"] # 0
      BY <2>1, <2>2
    <2>4. sent["server"] # << >> \/ parsed["server"] # 0
      BY <2>3
    <2>5. QED
      BY <1>3, <2>1, <2>4 DEF Subscribing
  <1>4. ~Welcomed
    BY DEF Welcomed, End
  <1>5. ~Missed
    <2>1. ASSUME Missed PROVE FALSE
      <3>1. e = "client" /\ Len(sent[e]) = 2 /\ parsed[e] \in {3, 4}
        BY <2>1 DEF Missed, End
      <3>2. QED
        BY <1>1, <3>1
    <2>2. QED
      BY <2>1
  <1>6. (0 + 2) \div 2 = 1
    BY Halves
  <1>7. QED
    BY <1>2, <1>3, <1>4, <1>5, <1>6 DEF Inv, Protocol

LEMMA ReceiveRequestStep ==
    ASSUME Inv, NEW e \in End, ReceiveRequest(e)
    PROVE  Inv' /\ pc[e] = "listen" /\ pc'[e] \in {"controller", "answer"}
           /\ pc'[Peer(e)] = pc[Peer(e)]
  <1> DEFINE type == sent[e][(parsed[e] + 2) \div 2].type
             next == ReceiveState[receiveState[e]]
             label == IF type \in ForController THEN "controller" ELSE "answer"
  <1>1. /\ pc[e] = "listen" /\ Take(e) /\ Complete(e, taken'[e])
        /\ parsed' = [parsed EXCEPT ![e] = @ + 2]
        /\ UNCHANGED <<kind, link, cancelled, sent, delivered, sendState, calls,
                       consumed, told, skipped>>
    BY DEF ReceiveRequest, linkVars, callVars
  <1>2. /\ Streams' /\ taken' \in [End -> Nat] /\ parsed' \in [End -> Nat]
        /\ chunks' \in [End -> Seq(Nat)] /\ Unread(e) >= 2
    BY <1>1, TakeKeeps DEF Inv
  <1>3. parsed'[e] = parsed[e] + 2 /\ parsed'[Peer(e)] = parsed[Peer(e)]
        /\ parsed[e] \in Nat /\ Peer(e) \in End /\ Peer(e) # e /\ Peer(Peer(e)) = e
    BY <1>1, Ends DEF Inv, Typed
  <1>4. \/ /\ e = Peer(Sender) /\ Asked(Sender)
           /\ type = SendState[sendState[Sender]].request
        \/ /\ kind = "subscribe" /\ e = "server" /\ Subscribing
           /\ pc["client"] \in {"await", "stopped"} /\ link # "none"
           /\ receiveState[e] = "FreeBroker" /\ parsed[e] = 0
           /\ sent[e] = <<[type |-> "Subscribe", call |-> 0]>>
           /\ type = "Subscribe"
    BY <1>1, <1>2, RequestRead
  <1>5. ASSUME e = Peer(Sender), Asked(Sender), type = SendState[sendState[Sender]].request
        PROVE  /\ type \in DOMAIN next
               /\ type \in ForController <=> Ready(sendState[Sender])
               /\ \/ sendState[Sender] = "CreatedPublishing" /\ next[type] = "BrokerPrimed"
                  \/ sendState[Sender] = "OpenedPublishing" /\ next[type] = "BrokerPrimed"
                  \/ sendState[Sender] = "OpenedSend" /\ next[type] = "ClientSubscribed"
                  \/ sendState[Sender] = "OpenedPush" /\ next[type] = "SubscriberSubscribed"
    <2>1. Before(Sender)
      BY <1>5 DEF Asked
    <2>2. \/ sendState[Sender] = "CreatedPublishing" /\ receiveState[e] = "FreeBroker"
          \/ sendState[Sender] = "OpenedPublishing" /\ receiveState[e] = "BrokerPrimed"
          \/ sendState[Sender] = "OpenedSend" /\ receiveState[e] = "ClientSubscribed"
          \/ sendState[Sender] = "OpenedPush" /\ receiveState[e] = "SubscriberSubscribed"
      BY <1>5, <2>1 DEF Before
    <2>3. QED
      BY <1>5, <2>2, SendStates, ReceiveStates DEF Ready, ForController
  <1>6. ASSUME receiveState[e] = "FreeBroker", type = "Subscribe"
        PROVE  type \in DOMAIN next /\ type \notin ForController
               /\ next[type] = "BrokerSubscribed"
    BY <1>6, ReceiveStates DEF ForController
  <1>7. /\ receiveState' = [receiveState EXCEPT ![e] = next[type]]
        /\ pc' = [pc EXCEPT ![e] = label]
    <2>1. type \in DOMAIN next
      BY <1>4, <1>5, <1>6
    <2>2. QED
      BY <1>1, <1>3, <2>1 DEF ReceiveRequest, Goto
  <1>8. /\ receiveState'[e] = next[type] /\ receiveState'[Peer(e)] = receiveState[Peer(e)]
        /\ pc'[e] = label /\ pc'[Peer(e)] = pc[Peer(e)]
    BY <1>3, <1>7 DEF Inv, Typed
  <1>9. /\ Sender' = Sender /\ Handed' = Handed
        /\ \A d \in End : Unread(d)' = IF d = e THEN Unread(d) - 2 ELSE Unread(d)
    <2>1. \A d \in End : parsed'[d] = IF d = e THEN parsed[d] + 2 ELSE parsed[d]
      BY <1>1 DEF Inv, Typed
    <2>2. \A d \in End : Place(d)' = Place(d) /\ Place(d) \in Nat /\ parsed[d] \in Nat
      BY <1>1, Places DEF Inv, Place
    <2>3. QED
      BY <1>1, <2>1, <2>2 DEF Sender, Handed, Unread
  <1>10. Typed'
    <2>1. next[type] \in DOMAIN ReceiveState
      BY <1>4, <1>5, <1>6, ReceiveStates
    <2>2. receiveState' \in [End -> DOMAIN ReceiveState]
      BY <1>7, <2>1 DEF Inv, Typed
    <2>3. pc' \in [End -> {"none", "idle", "connect", "prime", "await", "subscribed",
                           "listen", "controller", "answer", "stopped", "unexpected",
                           "rejected"}]
      BY <1>7 DEF Inv, Typed
    <2>4. QED
      BY <1>1, <1>2, <2>2, <2>3 DEF Inv, Typed
  <1>11. ASSUME e = Peer(Sender), Asked(Sender), type = SendState[sendState[Sender]].request
         PROVE  Handling(Sender)'
    <2>1. Peer(e) = Sender /\ Sender \in End
      BY <1>11, Ends
    <2>2. After(Sender)'
      BY <1>1, <1>5, <1>8, <1>9, <1>11 DEF After
    <2>3. Unread(Sender)' = 0 /\ Unread(e)' = 0
      BY <1>3, <1>9, <1>11, <2>1 DEF Asked
    <2>4. /\ pc'[Sender] = "await" /\ pc'[e] \in {"controller", "answer"} /\ link' # "none"
          /\ pc'[e] = "controller" => Ready(sendState[Sender]) /\ ~Handed'
          /\ pc'[e] = "answer" => ~Ready(sendState[Sender]) /\ ~Handed'
      BY <1>1, <1>5, <1>8, <1>9, <1>11, <2>1 DEF Asked
    <2>5. Len(sent[e]) > 0 /\ Newest(e)' = Newest(e) /\ Newest(e).call = calls
      BY <1>1, <1>11, Places DEF Inv, Asked, Newest
    <2>6. QED
      BY <1>1, <1>9, <1>11, <2>2, <2>3, <2>4, <2>5 DEF Handling
  <1>12. ASSUME kind = "subscribe", e = "server", Subscribing, link # "none",
                pc["client"] \in {"await", "stopped"},
                receiveState[e] = "FreeBroker", parsed[e] = 0, type = "Subscribe",
                sent[e] = <<[type |-> "Subscribe", call |-> 0]>>
         PROVE  Subscribing'
    <2>1. Peer(e) = "client"
      BY <1>12, Ends
    <2>2. /\ receiveState'["server"] = "BrokerSubscribed"
          /\ receiveState'["client"] = receiveState["client"]
          /\ pc'["server"] = "answer" /\ pc'["client"] = pc["client"]
          /\ parsed'["server"] = 2 /\ parsed'["client"] = parsed["client"]
      BY <1>3, <1>6, <1>8, <1>12, <2>1
    <2>3. QED
      BY <1>1, <1>12, <2>2 DEF Subscribing
  <1>13. Protocol'
    BY <1>1, <1>4, <1>9, <1>11, <1>12 DEF Protocol, Exchange
  <1>14. Counted'
    <2>1. e = Sender \/ Sender = Peer(e)
      BY Ends
    <2>2. pc'[Sender] \in {"connect", "prime", "await"} => calls > 0
      BY <1>1, <1>8, <2>1 DEF Inv, Counted
    <2>3. QED
      BY <1>1, <1>9, <2>2 DEF Inv, Counted
  <1>15. QED
    BY <1>1, <1>2, <1>8, <1>10, <1>13, <1>14 DEF Inv

\* The controller has a message only while the caller waits for its answer.
LEMMA InController ==
    ASSUME Inv, NEW e \in End, pc[e] = "controller"
    PROVE  /\ e = Peer(Sender) /\ Sender = Peer(e) /\ e # Sender /\ Sender \in End
           /\ Handling(Sender) /\ pc[Sender] = "await" /\ ~Handed
           /\ Len(sent[e]) > 0 /\ Current(e).call = calls
  <1>1. /\ e = Peer(Sender) \/ e = Sender
        /\ e # Peer(Sender) => e = Sender
        /\ Sender \in End /\ Peer(Sender) # Sender /\ Peer(Peer(Sender)) = Sender
    BY Ends
  <1>2. ~Subscribing /\ ~Welcomed /\ ~Missed
    BY DEF Subscribing, Welcomed, Missed, End
  <1>3. Exchange(Sender)
    BY <1>2 DEF Inv, Protocol
  <1>4. e = Peer(Sender) /\ Handling(Sender)
    BY <1>1, <1>3 DEF Exchange, Resting, Asked, Handling, Failed, Answered
  <1>5. /\ pc[Sender] = "await" /\ ~Handed /\ Len(sent[e]) > 0 /\ Unread(e) = 0
        /\ Newest(e).call = calls
    BY <1>4 DEF Handling
  <1>6. Current(e) = Newest(e)
    BY <1>5, Places DEF Inv
  <1>7. QED
    BY <1>1, <1>4, <1>5, <1>6

LEMMA ControllerReturnsStep ==
    ASSUME Inv, NEW e \in End, ControllerReturns(e)
    PROVE  /\ Inv'
           /\ e # Sender /\ pc[Sender] = "await" /\ pc'[Sender] = "await" /\ ~Handed
           /\ consumed' = Append(consumed, calls)
  <1>1. /\ pc[e] = "controller" /\ consumed' = Append(consumed, Current(e).call)
        /\ pc' = [pc EXCEPT ![e] = "answer"]
        /\ UNCHANGED <<kind, link, cancelled, streamVars, sendState, receiveState, calls,
                       told, skipped>>
    BY DEF ControllerReturns, Goto, linkVars
  <1>2. /\ e = Peer(Sender) /\ Sender = Peer(e) /\ e # Sender /\ Sender \in End
        /\ Handling(Sender) /\ pc[Sender] = "await" /\ ~Handed
        /\ Len(sent[e]) > 0 /\ Current(e).call = calls
    BY <1>1, InController
  <1>3. pc'[e] = "answer" /\ pc'[Sender] = "await" /\ Sender' = Sender
    BY <1>1, <1>2 DEF Inv, Typed, Sender
  <1>4. consumed' = Append(consumed, calls)
    BY <1>1, <1>2
  <1>5. consumed \in Seq(0 .. MaxCalls) /\ calls \in 0 .. MaxCalls /\ MaxCalls \in Nat
    BY SessionAssumption DEF Inv, Typed
  <1>6. consumed' \in Seq(0 .. MaxCalls)
    BY <1>4, <1>5
  <1>7. Typed'
    <2>1. pc' \in [End -> {"none", "idle", "connect", "prime", "await", "subscribed",
                           "listen", "controller", "answer", "stopped", "unexpected",
                           "rejected"}]
      BY <1>1 DEF Inv, Typed
    <2>2. QED
      BY <1>1, <1>6, <2>1 DEF Inv, Typed, streamVars
  <1>8. Streams'
    BY <1>1, StreamsSame DEF Inv
  <1>9. /\ Len(consumed) \in Nat /\ Len(consumed') = Len(consumed) + 1
        /\ consumed'[Len(consumed) + 1] = calls
        /\ \A i \in 1 .. Len(consumed) : consumed'[i] = consumed[i]
    BY <1>4, <1>5
  <1>10. Handed'
    <2>1. Len(consumed) + 1 \in 1 .. Len(consumed')
      BY <1>9
    <2>2. QED
      BY <1>1, <1>9, <2>1 DEF Handed
  <1>11. Handling(Sender)'
    <2>1. Ready(sendState[Sender]) /\ After(Sender) /\ link # "none"
          /\ Unread(Sender) = 0 /\ Unread(e) = 0 /\ Newest(e).call = calls
      BY <1>1, <1>2 DEF Handling
    <2>2. After(Sender)' /\ Unread(Sender)' = 0 /\ Unread(e)' = 0 /\ Newest(e)' = Newest(e)
      BY <1>1, <1>3, <2>1 DEF After, Unread, Place, Newest, streamVars
    <2>3. sent' = sent /\ sendState' = sendState /\ link' = link /\ calls' = calls
      BY <1>1 DEF streamVars
    <2>4. QED
      BY <1>2, <1>3, <1>10, <2>1, <2>2, <2>3 DEF Handling
  <1>12. Protocol'
    BY <1>3, <1>11 DEF Protocol, Exchange
  <1>13. Counted'
    <2>1. calls > 0
      BY <1>2 DEF Inv, Counted
    <2>2. \A i \in 1 .. Len(consumed) : consumed[i] <= calls
      BY DEF Inv, Counted
    <2>3. \A i \in 1 .. Len(consumed') : i \in 1 .. Len(consumed) \/ i = Len(consumed) + 1
      BY <1>9
    <2>4. \A i \in 1 .. Len(consumed') : consumed'[i] <= calls
      BY <1>5, <1>9, <2>2, <2>3
    <2>5. QED
      BY <1>1, <2>1, <2>4 DEF Counted
  <1>14. QED
    BY <1>2, <1>3, <1>4, <1>7, <1>8, <1>12, <1>13 DEF Inv

LEMMA ControllerThrowsStep ==
    ASSUME Inv, NEW e \in End, ControllerThrows(e)
    PROVE  Inv' /\ e # Sender /\ pc'[Sender] = pc[Sender]
  <1>1. /\ pc[e] = "controller"
        /\ pc' = [pc EXCEPT ![e] = "stopped"]
        /\ UNCHANGED <<kind, link, cancelled, streamVars, sendState, receiveState, calls,
                       consumed, told, skipped>>
    BY DEF ControllerThrows, Goto, linkVars, callVars
  <1>2. /\ e = Peer(Sender) /\ Sender = Peer(e) /\ e # Sender /\ Sender \in End
        /\ Handling(Sender) /\ pc[Sender] = "await"
    BY <1>1, InController
  <1>3. pc'[e] = "stopped" /\ pc'[Sender] = "await" /\ Sender' = Sender
    BY <1>1, <1>2 DEF Inv, Typed, Sender
  <1>4. Typed'
    <2>1. pc' \in [End -> {"none", "idle", "connect", "prime", "await", "subscribed",
                           "listen", "controller", "answer", "stopped", "unexpected",
                           "rejected"}]
      BY <1>1 DEF Inv, Typed
    <2>2. QED
      BY <1>1, <2>1 DEF Inv, Typed, streamVars
  <1>5. Streams'
    BY <1>1, StreamsSame DEF Inv
  <1>6. Failed(Sender)'
    <2>1. Unread(Sender) = 0 /\ Unread(e) = 0 /\ link # "none"
      BY <1>2 DEF Handling
    <2>2. Unread(Sender)' = 0 /\ Unread(e)' = 0 /\ link' # "none"
      BY <1>1, <1>3, <2>1 DEF Unread, Place, streamVars
    <2>3. QED
      BY <1>2, <1>3, <2>2 DEF Failed
  <1>7. Protocol'
    BY <1>3, <1>6 DEF Protocol, Exchange
  <1>8. Counted'
    BY <1>1, <1>2, <1>3 DEF Inv, Counted
  <1>9. QED
    BY <1>2, <1>3, <1>4, <1>5, <1>7, <1>8 DEF Inv

\* The answer goes to the caller, or welcomes a subscriber.
LEMMA AnswerClientStep ==
    ASSUME Inv, NEW e \in End, AnswerClient(e)
    PROVE  /\ Inv' /\ pc[e] = "answer" /\ pc'[e] \in {"listen", "idle", "stopped"}
           /\ pc'[Peer(e)] = pc[Peer(e)]
  <1> DEFINE label == IF receiveState[e] # "BrokerSubscribed" THEN "listen"
                      ELSE IF cancelled[e] THEN "stopped"
                      ELSE "idle"
             frame == [type |-> Answer, call |-> Current(e).call]
  <1>1. /\ pc[e] = "answer" /\ SendFrame(e, Answer, Current(e).call)
        /\ pc' = [pc EXCEPT ![e] = label]
        /\ UNCHANGED <<kind, link, cancelled, delivered, chunks, taken, parsed, sendState,
                       receiveState, calls, consumed, told, skipped>>
    BY DEF AnswerClient, Goto, linkVars, callVars
  <1>2. Peer(e) \in End /\ Peer(e) # e /\ Sender' = Sender /\ Handed' = Handed
        /\ Sender \in End /\ Answer' = Answer /\ Peer(Peer(e)) = e
    BY <1>1, Ends DEF Sender, Handed, Answer
  <1>3. label \in {"listen", "idle", "stopped"}
        /\ (receiveState[e] # "BrokerSubscribed" => label = "listen")
        /\ (receiveState[e] = "BrokerSubscribed" => label # "listen")
    OBVIOUS
  <1>4. pc'[e] = label /\ pc'[Peer(e)] = pc[Peer(e)]
    BY <1>1, <1>2 DEF Inv, Typed
  <1>5. \/ e = Peer(Sender) /\ Sender = Peer(e) /\ Handling(Sender)
        \/ kind = "subscribe" /\ e = "server" /\ Subscribing
    <2>1. Exchange(Sender) => e = Peer(Sender) /\ Sender = Peer(e) /\ Handling(Sender)
      <3>1. (e = Sender \/ e = Peer(Sender)) /\ Peer(Peer(Sender)) = Sender
        BY Ends
      <3>2. QED
        BY <1>1, <3>1 DEF Exchange, Resting, Asked, Handling, Failed, Answered
    <2>2. Subscribing => e = "server"
      BY <1>1 DEF Subscribing, End
    <2>3. ~Welcomed /\ ~Missed
      BY <1>1 DEF Welcomed, Missed, End
    <2>4. QED
      BY <2>1, <2>2, <2>3 DEF Inv, Protocol
  <1>6. ASSUME e = Peer(Sender), Sender = Peer(e), Handling(Sender)
        PROVE  Current(e).call = calls
    BY <1>6, Places DEF Inv, Handling
  <1>7. ASSUME e = "server", Subscribing
        PROVE  Current(e).call = 0 /\ calls = 0 /\ receiveState[e] = "BrokerSubscribed"
    <2>1. /\ sent[e] = <<[type |-> "Subscribe", call |-> 0]>> /\ parsed[e] = 2
          /\ calls = 0 /\ receiveState[e] = "BrokerSubscribed"
      BY <1>1, <1>7 DEF Subscribing
    <2>2. 2 \div 2 = 1
      BY Halves
    <2>3. QED
      BY <2>1, <2>2 DEF Current
  <1>8. Current(e).call = calls /\ frame \in Frame
    <2>1. Current(e).call = calls
      BY <1>5, <1>6, <1>7
    <2>2. calls \in 0 .. MaxCalls /\ Answer \in {"PayloadResponse", "Ack"}
      BY DEF Inv, Typed, Answer
    <2>3. QED
      BY <2>1, <2>2 DEF Frame
  <1>9. /\ Streams' /\ sent' \in [End -> Seq(Frame)] /\ sent'[e] = sent[e]
        /\ sent'[Peer(e)] = Append(sent[Peer(e)], frame)
        /\ Newest(Peer(e))' = frame /\ Unread(Peer(e))' = Unread(Peer(e)) + 2
        /\ Unread(e)' = Unread(e)
    BY <1>1, <1>8, SendKeeps DEF Inv
  <1>10. Typed'
    <2>1. pc' \in [End -> {"none", "idle", "connect", "prime", "await", "subscribed",
                           "listen", "controller", "answer", "stopped", "unexpected",
                           "rejected"}]
      BY <1>1, <1>3 DEF Inv, Typed
    <2>2. QED
      BY <1>1, <1>9, <2>1 DEF Inv, Typed
  <1>11. ASSUME e = Peer(Sender), Sender = Peer(e), Handling(Sender) PROVE Answered(Sender)'
    <2>1. /\ pc[Sender] = "await" /\ link # "none" /\ (Ready(sendState[Sender]) <=> Handed)
          /\ After(Sender) /\ Unread(Sender) = 0 /\ Unread(e) = 0
      BY <1>1, <1>11 DEF Handling
    <2>2. receiveState[e] # "BrokerSubscribed"
      BY <1>11, <2>1 DEF After
    <2>3. pc'[e] = "listen" /\ pc'[Sender] = "await"
      BY <1>3, <1>4, <1>11, <2>1, <2>2
    <2>4. After(Sender)'
      BY <1>1, <1>2, <2>1 DEF After
    <2>5. Unread(Sender)' = 2 /\ Unread(e)' = 0
      BY <1>2, <1>9, <1>11, <2>1
    <2>6. Newest(Sender)' = [type |-> Answer, call |-> calls]
      BY <1>2, <1>8, <1>9, <1>11
    <2>7. QED
      BY <1>1, <1>2, <1>11, <2>1, <2>3, <2>4, <2>5, <2>6 DEF Answered
  <1>12. ASSUME kind = "subscribe", e = "server", Subscribing PROVE Welcomed'
    <2>1. Peer(e) = "client" /\ Answer = "Ack"
      BY <1>12, Ends DEF Answer
    <2>2. /\ sent["client"] = << >> /\ parsed["client"] = 0
          /\ sent["server"] = <<[type |-> "Subscribe", call |-> 0]>>
          /\ parsed["server"] = 2 /\ pc["client"] \in {"await", "stopped"} /\ link # "none"
          /\ sendState["client"] = "CreatedSubscribing" /\ sendState["server"] = "OpenedPush"
          /\ receiveState["client"] = "SubscriberSubscribed"
      BY <1>1, <1>12 DEF Subscribing
    <2>3. sent'["client"] = <<[type |-> "Ack", call |-> 0]>>
      BY <1>7, <1>9, <1>12, <2>1, <2>2
    <2>4. Len(sent'["server"]) = 1
      <3>1. sent'["server"] = <<[type |-> "Subscribe", call |-> 0]>>
        BY <1>9, <1>12, <2>2
      <3>2. QED
        BY <3>1
    <2>5. pc'["server"] \in {"idle", "stopped"} /\ pc'["client"] = pc["client"]
      BY <1>3, <1>4, <1>7, <1>12, <2>1
    <2>6. QED
      BY <1>1, <2>2, <2>3, <2>4, <2>5 DEF Welcomed
  <1>13. Protocol'
    BY <1>1, <1>2, <1>5, <1>11, <1>12 DEF Protocol, Exchange
  <1>14. Counted'
    <2>1. e = Sender \/ Sender = Peer(e)
      BY Ends
    <2>2. pc'[Sender] \in {"connect", "prime", "await"} => calls > 0
      BY <1>1, <1>3, <1>4, <2>1 DEF Inv, Counted
    <2>3. QED
      BY <1>1, <1>2, <2>2 DEF Inv, Counted
  <1>15. QED
    BY <1>1, <1>3, <1>4, <1>9, <1>10, <1>13, <1>14 DEF Inv

-----------------------------------------------------------------------------
(* Every step keeps the invariant and is a step of the hand-over, or none. *)

LEMMA InitInv ==
    Init => Inv /\ H!Init
  <1> SUFFICES ASSUME Init PROVE Inv /\ H!Init
    OBVIOUS
  <1> USE DEF Init
  <1>1. /\ kind \in {"publish", "subscribe", "send"} /\ MaxCalls \in Nat
        /\ "client" \in End /\ "server" \in End
        /\ \A e \in End : e = "client" \/ e = "server"
    BY SessionAssumption DEF End
  <1>2. /\ sendState["client"] = IF kind = "publish" THEN "CreatedPublishing"
                                 ELSE IF kind = "subscribe" THEN "CreatedSubscribing"
                                 ELSE "OpenedSend"
        /\ sendState["server"] = "OpenedPush"
        /\ receiveState["client"] = "SubscriberSubscribed"
        /\ receiveState["server"] = IF kind = "send" THEN "ClientSubscribed"
                                                     ELSE "FreeBroker"
        /\ pc["client"] = IF kind = "subscribe" THEN "connect" ELSE "idle"
        /\ pc["server"] = "none"
    BY <1>1
  <1>3. /\ DOMAIN sendState = End /\ DOMAIN receiveState = End /\ DOMAIN pc = End
    BY DEF End
  <1>4. \A e \in End : /\ cancelled[e] = FALSE /\ sent[e] = << >> /\ delivered[e] = 0
                       /\ chunks[e] = << >> /\ taken[e] = 0 /\ parsed[e] = 0
    OBVIOUS
  <1>5. Typed
    <2>1. \A e \in End : sendState[e] \in DOMAIN SendState
      BY <1>1, <1>2, SendStates
    <2>2. sendState \in [End -> DOMAIN SendState \cup {"Subscribed"}]
      BY <1>3, <2>1
    <2>3. \A e \in End : receiveState[e] \in DOMAIN ReceiveState
      BY <1>1, <1>2, ReceiveStates
    <2>4. receiveState \in [End -> DOMAIN ReceiveState]
      BY <1>3, <2>3
    <2>5. \A e \in End : pc[e] \in {"none", "idle", "connect"}
      BY <1>1, <1>2
    <2>6. pc \in [End -> {"none", "idle", "connect", "prime", "await", "subscribed",
                          "listen", "controller", "answer", "stopped", "unexpected",
                          "rejected"}]
      BY <1>3, <2>5
    <2>7. /\ cancelled \in [End -> BOOLEAN] /\ sent \in [End -> Seq(Frame)]
          /\ delivered \in [End -> Nat] /\ chunks \in [End -> Seq(Nat)]
          /\ taken \in [End -> Nat] /\ parsed \in [End -> Nat]
      OBVIOUS
    <2>8. kind \in Kinds /\ link = "none" /\ calls \in 0 .. MaxCalls
          /\ consumed \in Seq(0 .. MaxCalls) /\ told \in Seq(0 .. MaxCalls)
          /\ skipped \in BOOLEAN
      <3>1. 0 \in 0 .. MaxCalls
        BY <1>1
      <3>2. consumed = << >> /\ told = << >> /\ skipped = FALSE
        OBVIOUS
      <3>3. << >> \in Seq(0 .. MaxCalls)
        OBVIOUS
      <3>4. QED
        BY <3>1, <3>2, <3>3
    <2>9. QED
      BY <2>2, <2>4, <2>6, <2>7, <2>8 DEF Typed
  <1>6. Streams
    BY <1>4 DEF Streams, Stream, Place
  <1>7. Protocol
    <2>1. ASSUME kind = "subscribe" PROVE Subscribing
      BY <1>1, <1>2, <1>4, <2>1 DEF Subscribing
    <2>2. ASSUME kind # "subscribe" PROVE Resting("client")
      <3>1. Unread("client") = 0 /\ Unread("server") = 0
        BY <1>1, <1>4 DEF Unread, Place
      <3>2. Before("client")
        BY <1>1, <1>2, <2>2, Ends DEF Before
      <3>3. QED
        BY <1>2, <2>2, <3>1, <3>2, Ends DEF Resting
    <2>3. QED
      BY <2>1, <2>2, Ends DEF Protocol, Exchange
  <1>8. pc[Sender] \notin {"connect", "prime", "await"}
    BY <1>2, Ends
  <1>9. Counted
    BY <1>8 DEF Counted
  <1>10. H!Init
    <2>1. Open = FALSE
      BY DEF Open
    <2>2. QED
      BY <2>1 DEF H!Init
  <1>11. QED
    BY <1>5, <1>6, <1>7, <1>9, <1>10 DEF Inv

\* A step that makes no call and ends none, and hands nothing over.
LEMMA OpenSame ==
    ASSUME UNCHANGED <<kind, calls, consumed, told>>,
           pc'[Sender] \in {"connect", "prime", "await"}
              <=> pc[Sender] \in {"connect", "prime", "await"}
    PROVE  UNCHANGED H!vars
  <1>1. Sender' = Sender
    BY DEF Sender
  <1>2. Open' <=> Open
    BY <1>1 DEF Open
  <1>3. Open' = Open
    <2>1. CASE Open
      BY <1>2, <2>1
    <2>2. CASE ~Open
      BY <1>2, <2>2
    <2>3. QED
      BY <2>1, <2>2
  <1>4. QED
    BY <1>3 DEF H!vars

LEMMA CallsHandover ==
    ASSUME Inv, Publish \/ Send \/ Push \/ CallRefused
    PROVE  H!Next
  <1>1. Sender' = Sender /\ Sender \in End /\ pc[Sender] = "idle"
    BY Ends DEF Publish, Send, Push, CallRefused, StartCall, Sender
  <1>2. ~Open
    BY <1>1 DEF Open
  <1>3. calls' = calls + 1 /\ calls \in Nat /\ UNCHANGED <<consumed, told>>
    BY DEF Publish, Send, Push, CallRefused, StartCall, Inv, Typed
  <1>4. CASE CallRefused
    <2>1. pc' = pc
      BY <1>4 DEF CallRefused
    <2>2. ~Open'
      BY <1>1, <2>1 DEF Open
    <2>3. Open' = Open
      BY <1>2, <2>2, Zenon DEF Open
    <2>4. H!Refuse
      BY <1>2, <1>3, <2>3 DEF H!Refuse
    <2>5. QED
      BY <2>4 DEF H!Next
  <1>5. CASE Publish \/ Send \/ Push
    <2>1. pc' = [pc EXCEPT ![Sender] = IF link = "none" THEN "connect" ELSE "prime"]
      BY <1>5, Ends DEF Publish, Send, Push, StartCall, Goto, Sender
    <2>2. pc'[Sender] \in {"connect", "prime"}
      BY <1>1, <2>1 DEF Inv, Typed
    <2>3. calls' > 0
      BY <1>3
    <2>4. Open'
      BY <1>1, <2>2, <2>3 DEF Open
    <2>5. H!Offer
      BY <1>2, <1>3, <2>4 DEF H!Offer
    <2>6. QED
      BY <2>5 DEF H!Next
  <1>6. QED
    BY <1>4, <1>5

LEMMA ConsumeHandover ==
    ASSUME Inv, NEW e \in End, ControllerReturns(e) PROVE H!Next
  <1>1. /\ pc[Sender] = "await" /\ pc'[Sender] = "await" /\ ~Handed
        /\ consumed' = Append(consumed, calls)
    BY ControllerReturnsStep
  <1>2. UNCHANGED <<kind, calls, told>> /\ Sender' = Sender
    BY DEF ControllerReturns, Sender
  <1>3. calls > 0
    BY <1>1 DEF Inv, Counted
  <1>4. Open /\ Open'
    BY <1>1, <1>2, <1>3 DEF Open
  <1>5. Open' = Open
    BY <1>4
  <1>6. ~H!HandedOver
    BY <1>1 DEF Handed, H!HandedOver
  <1>7. H!Consume
    BY <1>1, <1>2, <1>4, <1>5, <1>6 DEF H!Consume
  <1>8. QED
    BY <1>7 DEF H!Next

LEMMA ConfirmHandover ==
    ASSUME Inv, NEW e \in End, ReceiveAnswer(e) PROVE H!Next \/ UNCHANGED H!vars
  <1>1. /\ IF e = Sender /\ Ready(sendState[e])
           THEN Handed /\ told' = Append(told, calls) /\ pc'[e] = "idle"
           ELSE told' = told /\ pc'[e] = IF e = Sender THEN "prime" ELSE "subscribed"
        /\ pc'[Peer(e)] = pc[Peer(e)]
    BY AnswerStep
  <1>2. pc[e] = "await" /\ UNCHANGED <<kind, calls, consumed>> /\ Sender' = Sender
    BY DEF ReceiveAnswer, Sender
  <1>3. ASSUME e = Sender, Ready(sendState[e]) PROVE H!Next
    <2>1. Open
      BY <1>2, <1>3 DEF Inv, Counted, Open
    <2>2. ~Open'
      BY <1>1, <1>2, <1>3 DEF Open
    <2>3. H!HandedOver
      BY <1>1, <1>3 DEF Handed, H!HandedOver
    <2>4. H!Confirm
      BY <1>1, <1>2, <1>3, <2>1, <2>2, <2>3 DEF H!Confirm
    <2>5. QED
      BY <2>4 DEF H!Next
  <1>4. ASSUME ~(e = Sender /\ Ready(sendState[e])) PROVE UNCHANGED H!vars
    <2>1. e = Sender \/ Sender = Peer(e)
      BY Ends
    <2>2. pc'[Sender] \in {"connect", "prime", "await"}
             <=> pc[Sender] \in {"connect", "prime", "await"}
      BY <1>1, <1>2, <1>4, <2>1
    <2>3. QED
      BY <1>1, <1>2, <1>4, <2>2, OpenSame
  <1>5. QED
    BY <1>3, <1>4

\* The steps of a receiver are none of its caller's.
LEMMA ReceiverHandover ==
    ASSUME Inv, NEW e \in End,
           \/ ReceiveMore(e) \/ ReceiveBroken(e) \/ ReceiveRequest(e)
           \/ ControllerThrows(e) \/ AnswerClient(e)
    PROVE  UNCHANGED H!vars
  <1>1. UNCHANGED <<kind, calls, consumed, told>>
    BY DEF ReceiveMore, ReceiveBroken, ReceiveRequest, ControllerThrows, AnswerClient,
       callVars
  <1>2. e \in End /\ Peer(e) # e /\ (e = Sender \/ Sender = Peer(e))
    BY Ends
  <1>3. pc[e] \in {"listen", "controller", "answer"}
    BY DEF ReceiveMore, ReceiveBroken, ReceiveRequest, ControllerThrows, AnswerClient
  <1>4. pc'[e] \in {"listen", "controller", "answer", "idle", "stopped"}
        /\ pc'[Peer(e)] = pc[Peer(e)]
    <2>1. CASE ReceiveMore(e)
      BY <1>3, <2>1 DEF ReceiveMore
    <2>2. CASE ReceiveBroken(e)
      BY <1>2, <2>2, Ends DEF ReceiveBroken, Goto, Inv, Typed
    <2>3. CASE ReceiveRequest(e)
      BY <2>3, ReceiveRequestStep
    <2>4. CASE ControllerThrows(e)
      BY <1>2, <2>4, Ends DEF ControllerThrows, Goto, Inv, Typed
    <2>5. CASE AnswerClient(e)
      BY <2>5, AnswerClientStep
    <2>6. QED
      BY <2>1, <2>2, <2>3, <2>4, <2>5
  <1>5. QED
    BY <1>1, <1>2, <1>3, <1>4, OpenSame

LEMMA ClientHandover ==
    ASSUME Inv, Connect \/ SubscribeFails \/ BeginListen PROVE UNCHANGED H!vars
  <1>1. UNCHANGED <<kind, calls, consumed, told>>
    BY DEF Connect, SubscribeFails, BeginListen, callVars
  <1>2. "client" \in End /\ "server" \in End /\ Sender \in {"client", "server"}
    BY Ends DEF End
  <1>3. CASE Connect
    <2>1. pc["client"] = "connect" /\ pc'["client"] = "prime" /\ pc'["server"] = "listen"
      BY <1>3 DEF Connect
    <2>2. ASSUME Sender = "server" PROVE pc["server"] \notin {"connect", "prime", "await"}
      <3>1. Peer("server") = "client"
        BY Ends
      <3>2. ~Exchange("server") /\ ~Welcomed /\ ~Missed
        BY <2>1, <3>1 DEF Exchange, Resting, Asked, Handling, Failed, Answered, Welcomed,
           Missed
      <3>3. Subscribing
        BY <2>2, <3>2 DEF Inv, Protocol
      <3>4. QED
        BY <3>3 DEF Subscribing
    <2>3. QED
      BY <1>1, <1>2, <2>1, <2>2, OpenSame
  <1>4. CASE SubscribeFails \/ BeginListen
    <2>1. Sender = "server"
      <3>1. CASE SubscribeFails
        BY <3>1, Ends DEF SubscribeFails
      <3>2. CASE BeginListen
        BY <3>2, Ends DEF BeginListen, Inv, Protocol, Exchange, Resting, Asked, Handling,
           Failed, Answered
      <3>3. QED
        BY <1>4, <3>1, <3>2
    <2>2. pc'["server"] = pc["server"]
      BY <1>2, <1>4 DEF SubscribeFails, BeginListen, Goto, Inv, Typed
    <2>3. QED
      BY <1>1, <2>1, <2>2, OpenSame
  <1>5. QED
    BY <1>3, <1>4

LEMMA NextKeeps ==
    ASSUME Inv, [Next]_vars PROVE Inv' /\ [H!Next]_(H!vars)
  <1>1. CASE UNCHANGED vars
    <2>1. UNCHANGED <<kind, link, cancelled, sent, delivered, chunks, taken, parsed,
                      sendState, receiveState, pc, calls, consumed, told, skipped>>
      BY <1>1 DEF vars, linkVars, streamVars, callVars
    <2>2. Typed'
      BY <2>1 DEF Inv, Typed
    <2>3. Streams'
      BY <2>1, StreamsSame DEF Inv, streamVars
    <2>4. Protocol' /\ Counted'
      <3>1. /\ UNCHANGED <<kind, sent, parsed, sendState, receiveState, pc, calls, consumed>>
            /\ link' = link \/ (link = "up" /\ link' = "down")
        BY <2>1
      <3>2. QED
        BY <3>1, ProtocolSame DEF Inv
    <2>5. UNCHANGED H!vars
      BY <2>1, OpenSame
    <2>6. QED
      BY <2>2, <2>3, <2>4, <2>5 DEF Inv
  <1>2. CASE Publish \/ Send \/ Push
    BY <1>2, StartStep, CallsHandover
  <1>3. CASE CallRefused
    BY <1>3, RefusedStep, CallsHandover
  <1>4. CASE Connect
    BY <1>4, ConnectStep, ClientHandover
  <1>5. CASE SubscribeFails
    BY <1>5, SubscribeFailsStep, ClientHandover
  <1>6. CASE BeginListen
    BY <1>6, BeginListenStep, ClientHandover
  <1>7. CASE Drop \/ \E e \in End : Notice(e)
    <2>1. UNCHANGED <<kind, calls, consumed, told, pc>>
      BY <1>7 DEF Drop, Notice, callVars
    <2>2. UNCHANGED H!vars
      BY <2>1, OpenSame
    <2>3. QED
      BY <1>7, <2>2, LinkStep
  <1>8. ASSUME NEW e \in End, Deliver(e) PROVE Inv' /\ UNCHANGED H!vars
    <2>1. UNCHANGED <<kind, calls, consumed, told, pc>>
      BY <1>8 DEF Deliver, callVars
    <2>2. UNCHANGED H!vars
      BY <2>1, OpenSame
    <2>3. QED
      BY <1>8, <2>2, DeliverKeepsInv
  <1>9. ASSUME NEW e \in End, Wire(e) PROVE Inv' /\ (H!Next \/ UNCHANGED H!vars)
    <2>1. CASE SendRequest(e)
      <3>1. UNCHANGED <<kind, calls, consumed, told>>
        BY <2>1 DEF SendRequest, callVars
      <3>2. pc[e] = "prime" /\ pc'[e] = "await"
            /\ \A d \in End : d # e => pc'[d] = pc[d]
        BY <2>1 DEF SendRequest, Goto, Inv, Typed
      <3>3. UNCHANGED H!vars
        BY <3>1, <3>2, OpenSame, Ends
      <3>4. QED
        BY <2>1, <3>3, RequestStep
    <2>2. CASE AwaitMore(e)
      <3>1. UNCHANGED <<kind, calls, consumed, told, pc>>
        BY <2>2 DEF AwaitMore, callVars
      <3>2. UNCHANGED H!vars
        BY <3>1, OpenSame
      <3>3. QED
        BY <2>2, <3>2, MoreStep
    <2>3. CASE ReceiveAnswer(e)
      BY <2>3, AnswerStep, ConfirmHandover
    <2>4. QED
      BY <1>9, <2>1, <2>2, <2>3 DEF Wire
  <1>10. ASSUME NEW e \in End, Execute(e) PROVE Inv' /\ (H!Next \/ UNCHANGED H!vars)
    <2>1. CASE ControllerReturns(e)
      BY <2>1, ControllerReturnsStep, ConsumeHandover
    <2>2. ASSUME \/ ReceiveMore(e) \/ ReceiveBroken(e) \/ ReceiveRequest(e)
                 \/ ControllerThrows(e) \/ AnswerClient(e)
          PROVE  Inv'
      BY <2>2, MoreStep, BrokenStep, ReceiveRequestStep, ControllerThrowsStep,
         AnswerClientStep
    <2>3. QED
      BY <1>10, <2>1, <2>2, ReceiverHandover DEF Execute
  <1>11. QED
    BY <1>1, <1>2, <1>3, <1>4, <1>5, <1>6, <1>7, <1>8, <1>9, <1>10, Ends
       DEF Next, BrokerReceive, PointReceive, SubscriberReceive

THEOREM Invariant == Spec => []Inv
  <1>1. Init => Inv
    BY InitInv
  <1>2. Inv /\ [Next]_vars => Inv'
    BY NextKeeps
  <1>3. QED
    BY <1>1, <1>2, PTL DEF Spec

-----------------------------------------------------------------------------
(* The theorems. *)

\* Every variable of a connection has its type, and nothing is parsed that was not
\* taken, taken that was not delivered, or delivered that was not sent, whatever the
\* number of calls.
THEOREM TypeCorrect == Spec => []TypeOK
  <1>1. Inv => TypeOK
    BY DEF Inv, Streams, Stream, TypeOK
  <1>2. QED
    BY <1>1, Invariant, PTL

\* The state machines of the two ends fit together (SendingOrchestrator,
\* ReceivingOrchestrator): no answer finds a sender that does not expect it, no
\* request a receiver that rejects it, however TCP cuts the bytes and whenever
\* the connection is lost or a controller throws.
THEOREM FitTogether == Spec => []AsExpected
  <1>1. Inv => AsExpected
    <2> SUFFICES ASSUME Inv, NEW e \in End PROVE pc[e] \notin {"unexpected", "rejected"}
      BY DEF AsExpected
    <2>1. ASSUME Exchange(Sender) PROVE pc[e] \notin {"unexpected", "rejected"}
      <3>1. e = Sender \/ e = Peer(Sender)
        BY Ends
      <3>2. CASE Resting(Sender)
        BY <3>1, <3>2 DEF Resting
      <3>3. CASE Asked(Sender) \/ Handling(Sender) \/ Failed(Sender) \/ Answered(Sender)
        BY <3>1, <3>3 DEF Asked, Handling, Failed, Answered
      <3>4. QED
        BY <2>1, <3>2, <3>3 DEF Exchange
    <2>2. Subscribing \/ Welcomed \/ Missed => pc[e] \notin {"unexpected", "rejected"}
      BY DEF Subscribing, Welcomed, Missed, End
    <2>3. QED
      BY <2>1, <2>2 DEF Inv, Protocol
  <1>2. QED
    BY <1>1, Invariant, PTL

\* A connection keeps the promise of Handover to the callers of Publish, Send and
\* Push: a call that returns success had its message handled by the controller of
\* the other end, once and in the order of the calls.
THEOREM HandoverCorrect == Spec => ImplementsHandover
  <1>1. Init => H!Init
    BY InitInv
  <1>2. Inv /\ [Next]_vars => [H!Next]_(H!vars)
    BY NextKeeps
  <1>3. QED
    BY <1>1, <1>2, Invariant, PTL DEF Spec, ImplementsHandover, H!Spec

=============================================================================

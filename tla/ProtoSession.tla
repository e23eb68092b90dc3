---------------------------- MODULE ProtoSession ----------------------------
(***************************************************************************)
(* One connection of SmallTransit, with the state machines of both ends    *)
(* and the TCP bridge of each.  What it is used for:                       *)
(*   "publish"    a node publishes to the broker,                          *)
(*   "subscribe"  a node subscribes, then the broker pushes to it,         *)
(*   "send"       a node sends to another and gets a payload back.         *)
(*                                                                         *)
(* The bytes sent to an end are a stream of frames of two halves each; a   *)
(* place in it is a number of halves.  The frame i is at the places        *)
(* 2 * (i - 1) to 2 * i.  TCP delivers the stream in chunks that may end   *)
(* within a frame or hold several.                                         *)
(*                                                                         *)
(* A peer of this protocol only ever answers as expected (AsExpected):     *)
(* so SendingOrchestrator.HandleFailure, and with it the Closing and       *)
(* Closed states, are not reached and not modelled.                        *)
(***************************************************************************)
EXTENDS Integers, Sequences

CONSTANTS
    Kinds,      \* the uses of the connection
    MaxCalls,   \* bound: the calls of Publish, Send or Push
    MayDrop,    \* whether the connection may be lost
    MayThrow    \* whether a controller may throw

ASSUME SessionAssumption ==
    /\ Kinds \subseteq {"publish", "subscribe", "send"}
    /\ MaxCalls \in Nat
    /\ MayDrop \in BOOLEAN
    /\ MayThrow \in BOOLEAN

VARIABLES
    kind,           \* what the connection is used for
    link,           \* the TCP connection: "none" yet, "up" or "down"
    cancelled,      \* cancelled[e]: the bridge's CancellationTokenSource
    sent,           \* sent[e]: the frames sent to e
    delivered,      \* delivered[e]: the place up to which its bridge has read
    chunks,         \* chunks[e]: the ends of the chunks in its read shore
    taken,          \* taken[e]: the place up to which chunks have been taken
    parsed,         \* parsed[e]: the place up to which they have been parsed
    sendState,      \* sendState[e]: the state of e as the sender of requests
    receiveState,   \* receiveState[e]: its state as the receiver of requests
    pc,             \* pc[e]: where the task of e is
    calls,          \* how many calls the sender's caller has made
    consumed,       \* the calls the receiver's controller has handled
    told,           \* the calls that returned success
    skipped         \* history: bytes were taken that are never parsed

linkVars == <<link, cancelled>>
streamVars == <<sent, delivered, chunks, taken, parsed>>
callVars == <<calls, consumed, told>>
vars == <<kind, linkVars, streamVars, sendState, receiveState, pc, callVars,
          skipped>>

End == {"client", "server"}
Peer(e) == IF e = "client" THEN "server" ELSE "client"

\* Who makes the calls: once it has a subscriber, the broker does.
Sender == IF kind = "subscribe" THEN "server" ELSE "client"
Receiver == Peer(Sender)

-----------------------------------------------------------------------------
(* The states of a sender: what it requests, and the state after the answer. *)

\* Mutant: the acknowledgement of the handshake does not change the state.
CreatedForEver == [request |-> "HandShake", next |-> "CreatedPublishing"]

CreatedPublishing  == [request |-> "HandShake", next |-> "OpenedPublishing"]
OpenedPublishing   == [request |-> "Publish",   next |-> "OpenedPublishing"]
CreatedSubscribing == [request |-> "Subscribe", next |-> "Subscribed"]
OpenedPush         == [request |-> "Push",      next |-> "OpenedPush"]
OpenedSend         == [request |-> "Send",      next |-> "OpenedSend"]

SendState == [CreatedPublishing  |-> CreatedPublishing,
              OpenedPublishing   |-> OpenedPublishing,
              CreatedSubscribing |-> CreatedSubscribing,
              OpenedPush         |-> OpenedPush,
              OpenedSend         |-> OpenedSend]

\* GetConnectionReady: the message of the state is the caller's.
Ready(state) == state \in {"OpenedPublishing", "OpenedPush", "OpenedSend"}

(* The states of a receiver: the requests it accepts, each with the state that
   follows.  A Close, which nobody sends, is left out. *)

FreeBroker       == [HandShake |-> "BrokerPrimed", Subscribe |-> "BrokerSubscribed"]
BrokerPrimed     == [Publish |-> "BrokerPrimed"]
BrokerSubscribed == << >>
SubscriberSubscribed == [Push |-> "SubscriberSubscribed"]
ClientSubscribed == [Send |-> "ClientSubscribed"]

ReceiveState == [FreeBroker           |-> FreeBroker,
                 BrokerPrimed         |-> BrokerPrimed,
                 BrokerSubscribed     |-> BrokerSubscribed,
                 SubscriberSubscribed |-> SubscriberSubscribed,
                 ClientSubscribed     |-> ClientSubscribed]

\* The requests that a controller handles before they are answered.
ForController == {"Publish", "Push", "Send"}

\* The answer to an accepted request.
Answer == IF kind = "send" THEN "PayloadResponse" ELSE "Ack"

(* Frames. *)

Frame == [type : {"HandShake", "Subscribe", "Ack", "PayloadResponse"}
                    \cup ForController,
          call : 0 .. MaxCalls]

Place(e) == 2 * Len(sent[e])

\* The frame parsed last.
Current(e) == sent[e][parsed[e] \div 2]

\* What TryParseMessage finds in the bytes from parsed[e] to a place.
Broken(e) == parsed[e] % 2 = 1

\* Mutant: only the header is looked at, whose half is there.
CompleteHeader(e, place) == ~Broken(e) /\ place - parsed[e] >= 1

Complete(e, place) == ~Broken(e) /\ place - parsed[e] >= 2

-----------------------------------------------------------------------------

Init ==
    /\ kind \in Kinds
    /\ link = "none"
    /\ cancelled = [e \in End |-> FALSE]
    /\ sent = [e \in End |-> << >>]
    /\ delivered = [e \in End |-> 0]
    /\ chunks = [e \in End |-> << >>]
    /\ taken = [e \in End |-> 0]
    /\ parsed = [e \in End |-> 0]
    /\ sendState = [client |-> CASE kind = "publish"   -> "CreatedPublishing"
                                 [] kind = "subscribe" -> "CreatedSubscribing"
                                 [] kind = "send"      -> "OpenedSend",
                    server |-> "OpenedPush"]
    /\ receiveState = [client |-> "SubscriberSubscribed",
                       server |-> IF kind = "send" THEN "ClientSubscribed"
                                                   ELSE "FreeBroker"]
    /\ pc = [client |-> IF kind = "subscribe" THEN "connect" ELSE "idle",
             server |-> "none"]
    /\ calls = 0
    /\ consumed = << >>
    /\ told = << >>
    /\ skipped = FALSE

Goto(e, label) == pc' = [pc EXCEPT ![e] = label]

\* ComHandler.SendMessage: into the write shore, which the bridge empties into
\* the connection; neither fails when the connection is lost.
SendFrame(e, type, call) ==
    sent' = [sent EXCEPT ![Peer(e)] = Append(@, [type |-> type, call |-> call])]

\* The next chunk of the read shore is added to the bytes not yet parsed.
Take(e) ==
    /\ chunks[e] # << >>
    /\ chunks' = [chunks EXCEPT ![e] = Tail(@)]
    /\ taken' = [taken EXCEPT ![e] = Head(chunks[e])]

-----------------------------------------------------------------------------
(* The connection. *)

\* GetOrAdd tries until it has a connection; at both ends the bridge starts, and
\* the server's host starts the task that serves it.
Connect ==
    /\ pc["client"] = "connect"
    /\ link' = "up"
    /\ pc' = [client |-> "prime", server |-> "listen"]
    /\ UNCHANGED <<kind, cancelled, streamVars, sendState, receiveState, callVars,
                   skipped>>

\* The bridge reads some of what is on the way.
Deliver(e) ==
    /\ link = "up"
    /\ \E place \in delivered[e] + 1 .. Place(e) :
          /\ delivered' = [delivered EXCEPT ![e] = place]
          /\ chunks' = [chunks EXCEPT ![e] = Append(@, place)]
    /\ UNCHANGED <<kind, linkVars, sent, taken, parsed, sendState,
                   receiveState, pc, callVars, skipped>>

\* The connection is lost, or the server's host closes it because the task
\* that served it has returned.
Drop ==
    /\ link = "up"
    /\ MayDrop \/ pc["server"] \in {"stopped", "rejected"}
    /\ link' = "down"
    /\ UNCHANGED <<kind, cancelled, streamVars, sendState, receiveState, pc,
                   callVars, skipped>>

\* An end learns of it: the server by ConnectionClosed, the client when reading
\* throws (reading zero bytes at the end of the stream tells it nothing).
Notice(e) ==
    /\ link = "down"
    /\ ~cancelled[e]
    /\ cancelled' = [cancelled EXCEPT ![e] = TRUE]
    /\ UNCHANGED <<kind, link, streamVars, sendState, receiveState, pc, callVars,
                   skipped>>

-----------------------------------------------------------------------------
(* The sender of requests. *)

StartCall(e) ==
    /\ pc[e] = "idle"
    /\ calls < MaxCalls
    /\ calls' = calls + 1
    /\ Goto(e, IF link = "none" THEN "connect" ELSE "prime")
    /\ UNCHANGED <<kind, linkVars, streamVars, sendState, receiveState, consumed,
                   told, skipped>>

\* PublishClient.Publish and SendClient.Send.
Publish == kind = "publish" /\ ~cancelled["client"] /\ StartCall("client")
Send == kind = "send" /\ ~cancelled["client"] /\ StartCall("client")

\* Broker.Push does not look whether the bridge is completed.
Push == kind = "subscribe" /\ StartCall("server")

\* "Bridging task is completed".
CallRefused ==
    /\ Sender = "client"
    /\ pc["client"] = "idle"
    /\ calls < MaxCalls
    /\ cancelled["client"]
    /\ calls' = calls + 1
    /\ UNCHANGED <<kind, linkVars, streamVars, sendState, receiveState, pc,
                   consumed, told, skipped>>

\* Wire: the message of the state, be it for priming or the caller's.
SendRequest(e) ==
    /\ pc[e] = "prime"
    /\ SendFrame(e, SendState[sendState[e]].request, calls)
    /\ Goto(e, "await")
    /\ UNCHANGED <<kind, linkVars, delivered, chunks, taken, parsed, sendState,
                   receiveState, callVars, skipped>>

\* Mutant: the tunnel does not keep the bytes of an incomplete frame.
AwaitMoreAnew(e) ==
    /\ pc[e] = "await"
    /\ Take(e)
    /\ ~Complete(e, taken'[e])
    /\ parsed' = taken'
    /\ UNCHANGED <<kind, linkVars, sent, delivered, sendState,
                   receiveState, pc, callVars, skipped>>

\* MessageIncompleteException: wait for more.
AwaitMore(e) ==
    /\ pc[e] = "await"
    /\ Take(e)
    /\ ~Complete(e, taken'[e])
    /\ UNCHANGED <<kind, linkVars, sent, delivered, parsed, sendState,
                   receiveState, pc, callVars, skipped>>

\* WaitForValidResponse, saga.Ack: after priming comes the caller's message,
\* and after that the call returns.
ReceiveAnswer(e) ==
    /\ pc[e] = "await"
    /\ Take(e)
    /\ Complete(e, taken'[e])
    /\ parsed' = [parsed EXCEPT ![e] = @ + 2]
    /\ LET answer == sent[e][parsed'[e] \div 2] IN
       IF answer.type = Answer
       THEN /\ sendState' = [sendState EXCEPT ![e] = SendState[@].next]
            /\ told' = IF Ready(sendState[e]) THEN Append(told, answer.call)
                                              ELSE told
            /\ Goto(e, CASE Ready(sendState[e])             -> "idle"
                         [] sendState'[e] = "Subscribed"   -> "subscribed"
                         [] OTHER                          -> "prime")
       ELSE /\ Goto(e, "unexpected")
            /\ UNCHANGED <<sendState, told>>
    /\ UNCHANGED <<kind, linkVars, sent, delivered, receiveState, calls, consumed,
                   skipped>>

-----------------------------------------------------------------------------
(* The receiver of requests. *)

\* Subscribe waits with the bridge's token: it fails when that is cancelled.
SubscribeFails ==
    /\ kind = "subscribe"
    /\ cancelled["client"]
    /\ pc["client"] \in {"prime", "await", "subscribed"}
    /\ Goto("client", "stopped")
    /\ UNCHANGED <<kind, linkVars, streamVars, sendState, receiveState, callVars,
                   skipped>>

\* ReceiveSubscriber.BeginListen: an Execute with an empty bytesArray.  What the
\* tunnel that waited for the acknowledgement has stored stays there.
BeginListen ==
    /\ pc["client"] = "subscribed"
    /\ ~cancelled["client"]
    /\ Goto("client", "listen")
    /\ parsed' = [parsed EXCEPT !["client"] = taken["client"]]
    /\ skipped' = (taken["client"] # parsed["client"])
    /\ UNCHANGED <<kind, linkVars, sent, delivered, chunks, taken, sendState,
                   receiveState, callVars>>

\* Mutant: bytesArray starts anew with each chunk.
ReceiveMoreAnew(e) ==
    /\ pc[e] = "listen"
    /\ Take(e)
    /\ ~Broken(e)
    /\ ~Complete(e, taken'[e])
    /\ parsed' = taken'
    /\ UNCHANGED <<kind, linkVars, sent, delivered, sendState,
                   receiveState, pc, callVars, skipped>>

\* Execute: a chunk with which the next frame is not complete.
ReceiveMore(e) ==
    /\ pc[e] = "listen"
    /\ Take(e)
    /\ ~Broken(e)
    /\ ~Complete(e, taken'[e])
    /\ UNCHANGED <<kind, linkVars, sent, delivered, parsed, sendState,
                   receiveState, pc, callVars, skipped>>

\* Bytes that begin within a frame: they look like an incomplete one, or parsing
\* or handling fails.
ReceiveBroken(e) ==
    /\ pc[e] = "listen"
    /\ Take(e)
    /\ Broken(e)
    /\ \E label \in {"listen", "stopped"} : Goto(e, label)
    /\ UNCHANGED <<kind, linkVars, sent, delivered, parsed, sendState,
                   receiveState, callVars, skipped>>

\* One frame is parsed and handled by the state; a second one in the same bytes
\* is left for when the next chunk comes.
ReceiveRequest(e) ==
    /\ pc[e] = "listen"
    /\ Take(e)
    /\ Complete(e, taken'[e])
    /\ parsed' = [parsed EXCEPT ![e] = @ + 2]
    /\ LET type == sent[e][parsed'[e] \div 2].type
           next == ReceiveState[receiveState[e]] IN
       IF type \in DOMAIN next
       THEN /\ receiveState' = [receiveState EXCEPT ![e] = next[type]]
            /\ Goto(e, IF type \in ForController THEN "controller" ELSE "answer")
       ELSE /\ Goto(e, "rejected")
            /\ UNCHANGED receiveState
    /\ UNCHANGED <<kind, linkVars, sent, delivered, sendState, callVars, skipped>>

ControllerReturns(e) ==
    /\ pc[e] = "controller"
    /\ consumed' = Append(consumed, Current(e).call)
    /\ Goto(e, "answer")
    /\ UNCHANGED <<kind, linkVars, streamVars, sendState, receiveState, calls, told,
                   skipped>>

\* Mutant: the exception is swallowed, and the request acknowledged.
ControllerThrowsUnseen(e) ==
    /\ MayThrow
    /\ pc[e] = "controller"
    /\ Goto(e, "answer")
    /\ UNCHANGED <<kind, linkVars, streamVars, sendState, receiveState, callVars,
                   skipped>>

\* Its exception ends Execute, unanswered.
ControllerThrows(e) ==
    /\ MayThrow
    /\ pc[e] = "controller"
    /\ Goto(e, "stopped")
    /\ UNCHANGED <<kind, linkVars, streamVars, sendState, receiveState, callVars,
                   skipped>>

\* AnswerClient.  After a Subscribe, Execute returns the subscription, unless
\* BeginListen's wait was cancelled before; BrokerReceiver gives it to the broker,
\* which from now on pushes.
AnswerClient(e) ==
    /\ pc[e] = "answer"
    /\ SendFrame(e, Answer, Current(e).call)
    /\ Goto(e, IF receiveState[e] # "BrokerSubscribed" THEN "listen"
               ELSE IF cancelled[e] THEN "stopped"
               ELSE "idle")
    /\ UNCHANGED <<kind, linkVars, delivered, chunks, taken, parsed, sendState,
                   receiveState, callVars, skipped>>

-----------------------------------------------------------------------------

\* Wire and WaitForValidResponse.
Wire(e) == SendRequest(e) \/ AwaitMore(e) \/ ReceiveAnswer(e)

Execute(e) ==
    \/ ReceiveMore(e) \/ ReceiveBroken(e) \/ ReceiveRequest(e)
    \/ ControllerReturns(e) \/ ControllerThrows(e) \/ AnswerClient(e)

\* The three receive orchestrators.
BrokerReceive == kind # "send" /\ Execute("server")
PointReceive == kind = "send" /\ Execute("server")
SubscriberReceive == Execute("client")

Next ==
    \/ Publish \/ Send \/ Push \/ CallRefused
    \/ Connect \/ Drop
    \/ BeginListen \/ SubscribeFails
    \/ BrokerReceive \/ PointReceive \/ SubscriberReceive
    \/ \E e \in End : Deliver(e) \/ Notice(e) \/ Wire(e)

Spec == Init /\ [][Next]_vars

\* A connection comes about in the end, what has arrived is read, and a task goes
\* on when it can; nothing obliges the callers to call or the connection to drop.
FairSpec ==
    /\ Spec
    /\ WF_vars(Connect)
    /\ WF_vars(BeginListen)
    /\ \A e \in End : WF_vars(Deliver(e)) /\ WF_vars(Wire(e)) /\ WF_vars(Execute(e))

-----------------------------------------------------------------------------
(* Properties. *)

Typed ==
    /\ kind \in Kinds
    /\ link \in {"none", "up", "down"}
    /\ cancelled \in [End -> BOOLEAN]
    /\ sent \in [End -> Seq(Frame)]
    /\ delivered \in [End -> Nat]
    /\ chunks \in [End -> Seq(Nat)]
    /\ taken \in [End -> Nat]
    /\ parsed \in [End -> Nat]
    /\ sendState \in [End -> DOMAIN SendState \cup {"Subscribed"}]
    /\ receiveState \in [End -> DOMAIN ReceiveState]
    /\ pc \in [End -> {"none", "idle", "connect", "prime", "await", "subscribed",
                       "listen", "controller", "answer", "stopped",
                       "unexpected", "rejected"}]
    /\ calls \in 0 .. MaxCalls
    /\ consumed \in Seq(0 .. MaxCalls)
    /\ told \in Seq(0 .. MaxCalls)
    /\ skipped \in BOOLEAN

\* Of each stream, what has been parsed was taken from the read shore, what was
\* taken had been delivered, and what was delivered had been sent.
TypeOK ==
    /\ Typed
    /\ \A e \in End :
          parsed[e] <= taken[e] /\ taken[e] <= delivered[e] /\ delivered[e] <= Place(e)

\* The state machines of the two ends fit together however the bytes are cut:
\* no answer finds a sender that does not expect it, no request a receiver in a
\* state that rejects it.
AsExpected == \A e \in End : pc[e] \notin {"unexpected", "rejected"}

\* The call under way, seen from the caller.
Open == calls > 0 /\ pc[Sender] \in {"connect", "prime", "await"}

H == INSTANCE Handover WITH open <- Open

\* A call that returns success had its message handled by the other end's
\* controller, once and in order, although no frame says which request it
\* answers.
ImplementsHandover == H!Spec

\* A call returns, unless the connection is lost, the receiver has stopped, or
\* the request was read in one chunk with the acknowledgement of Subscribe.
CallReturns ==
    Open ~> (~Open \/ link = "down" \/ pc[Receiver] = "stopped" \/ skipped)

\* A subscriber comes to listen and the broker to know it, or the connection
\* is lost.
SubscriptionStarts ==
    <>(\/ kind # "subscribe"
       \/ pc["client"] = "listen" /\ receiveState["server"] = "BrokerSubscribed"
       \/ link = "down")

=============================================================================

--------------------------- MODULE SubscriberFeed ---------------------------
(***************************************************************************)
(* What the broker promises a subscriber: a feed of the publications it    *)
(* wants, each publisher's in the order of publication, pushed to it one   *)
(* after another without a gap, a repetition or an overtaking.  The feed   *)
(* of a subscriber that is gone may stop anywhere.                         *)
(***************************************************************************)
EXTENDS Integers, Sequences

CONSTANTS Subscribers, Messages, Wanted(_, _)

VARIABLES
    accepted,   \* accepted[s]: the publications queued for s so far
    delivered   \* delivered[s]: those that have been pushed to it

vars == <<accepted, delivered>>

Init ==
    /\ accepted = [s \in Subscribers |-> << >>]
    /\ delivered = [s \in Subscribers |-> << >>]

\* A wanted publication that its publisher made after all those queued before.
Accept(s) ==
    /\ \E m \in Messages :
          /\ Wanted(s, m)
          /\ \A i \in 1 .. Len(accepted[s]) :
                accepted[s][i].from = m.from => accepted[s][i].nr < m.nr
          /\ accepted' = [accepted EXCEPT ![s] = Append(@, m)]
    /\ UNCHANGED delivered

Deliver(s) ==
    /\ Len(delivered[s]) < Len(accepted[s])
    /\ delivered' = [delivered EXCEPT
                        ![s] = Append(@, accepted[s][Len(@) + 1])]
    /\ UNCHANGED accepted

Next == \E s \in Subscribers : Accept(s) \/ Deliver(s)

Spec == Init /\ [][Next]_vars

=============================================================================

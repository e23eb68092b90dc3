------------------------------ MODULE Handover ------------------------------
(***************************************************************************)
(* What the two ends of a connection promise the callers of Publish, Send  *)
(* and Push: calls are made one after another; the message of a call is    *)
(* handed to the other end's controller at most once, in the order of the  *)
(* calls; and a call that returns success was handed over before it        *)
(* returned.  Nothing says that a call returns.                            *)
(***************************************************************************)
EXTENDS Integers, Sequences

VARIABLES
    calls,      \* how many calls have been made; a call is named by its number
    open,       \* whether the last of them is under way
    consumed,   \* the calls whose message the controller has had, in order
    told        \* the calls that have returned success, in order

vars == <<calls, open, consumed, told>>

HandedOver == \E i \in 1 .. Len(consumed) : consumed[i] = calls

Init ==
    /\ calls = 0
    /\ open = FALSE
    /\ consumed = << >>
    /\ told = << >>

Offer ==
    /\ ~open
    /\ calls' = calls + 1
    /\ open' = TRUE
    /\ UNCHANGED <<consumed, told>>

\* A call that fails before it sends anything.
Refuse ==
    /\ ~open
    /\ calls' = calls + 1
    /\ UNCHANGED <<open, consumed, told>>

Consume ==
    /\ open
    /\ ~HandedOver
    /\ consumed' = Append(consumed, calls)
    /\ UNCHANGED <<calls, open, told>>

Confirm ==
    /\ open
    /\ HandedOver
    /\ told' = Append(told, calls)
    /\ open' = FALSE
    /\ UNCHANGED <<calls, consumed>>

Next == Offer \/ Refuse \/ Consume \/ Confirm

Spec == Init /\ [][Next]_vars

=============================================================================

------------------------------ MODULE Delivery ------------------------------
(***************************************************************************)
(* What a batch of operations promises to the code that adds them: every   *)
(* operation that is submitted is settled and then delivered (its user     *)
(* callback is called) exactly once, in order when InOrder is set, and     *)
(* once the submitter has closed the batch and everything is delivered,    *)
(* the batch finishes.  BatchOperation implements it.                      *)
(***************************************************************************)
EXTENDS Naturals, Sequences

CONSTANTS InOrder,  \* operations are delivered in the order of submission
          Capacity  \* bound: operations that may be submitted

VARIABLES submitted, settled, delivered, closed, finished
vars == <<submitted, settled, delivered, closed, finished>>

Delivered == {delivered[n] : n \in 1..Len(delivered)}

Init == /\ submitted = 0 /\ settled = {} /\ delivered = <<>>
        /\ closed = FALSE /\ finished = FALSE

Submit ==
    /\ ~closed /\ submitted < Capacity
    /\ submitted' = submitted + 1
    /\ UNCHANGED <<settled, delivered, closed, finished>>

Settle(i) ==
    /\ i \in 1..submitted /\ i \notin settled
    /\ settled' = settled \cup {i}
    /\ UNCHANGED <<submitted, delivered, closed, finished>>

Deliver(i) ==
    /\ i \in settled /\ i \notin Delivered
    /\ InOrder => i = Len(delivered) + 1
    /\ delivered' = Append(delivered, i)
    /\ UNCHANGED <<submitted, settled, closed, finished>>

Close ==
    /\ ~closed
    /\ closed' = TRUE
    /\ UNCHANGED <<submitted, settled, delivered, finished>>

Finish ==
    /\ closed /\ ~finished
    /\ Len(delivered) = submitted
    /\ finished' = TRUE
    /\ UNCHANGED <<submitted, settled, delivered, closed>>

Next == \/ Submit \/ Close \/ Finish
        \/ \E i \in 1..Capacity : Settle(i) \/ Deliver(i)

Spec == /\ Init /\ [][Next]_vars
        /\ WF_vars(Finish)
        /\ \A i \in 1..Capacity : WF_vars(Settle(i)) /\ WF_vars(Deliver(i))
=============================================================================

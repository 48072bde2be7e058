--------------------------- MODULE SerialChannel ----------------------------
(***************************************************************************)
(* What one direction of the serial line promises: words arrive in the     *)
(* order in which they were sent, unchanged, in a box that holds one word. *)
(* A word that arrives before the last one was read replaces it, and the   *)
(* overrun flag says so.                                                   *)
(***************************************************************************)
EXTENDS Sequences

CONSTANTS Words, Empty     \* the words sent, the box before the first

VARIABLES queue, box, fresh, overrun

vars == <<queue, box, fresh, overrun>>

Init ==
    /\ queue = <<>>
    /\ box = Empty
    /\ fresh = FALSE
    /\ overrun = FALSE

Send ==
    /\ \E w \in Words : queue' = Append(queue, w)
    /\ UNCHANGED <<box, fresh, overrun>>

Deliver ==
    /\ queue # <<>>
    /\ box' = Head(queue)
    /\ queue' = Tail(queue)
    /\ fresh' = TRUE
    /\ overrun' = fresh

Read ==
    /\ fresh' = FALSE
    /\ UNCHANGED <<queue, box, overrun>>

Next == Send \/ Deliver \/ Read

Spec == Init /\ [][Next]_vars

Delivery == WF_vars(Deliver)
=============================================================================

---------------------------- MODULE MC_UartLink -----------------------------
(* UartLink with words whose bits tell order and value apart. *)
EXTENDS UartLink

TestWords ==
    {[k \in 0 .. DataBits - 1 |-> (k + b) % 2] : b \in {0, 1}}
    \cup {[k \in 0 .. DataBits - 1 |-> IF k < 3 THEN 1 ELSE 0]}
=============================================================================

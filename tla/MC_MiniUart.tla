---------------------------- MODULE MC_MiniUart -----------------------------
(* MiniUart with one word to send. *)
EXTENDS MiniUart

TestWords == {[k \in 0 .. DataBits - 1 |-> 1]}
=============================================================================

------------------------------ MODULE MC_Board ------------------------------
(* Board with a narrow counter, a short debouncer and one input of a kind. *)
EXTENDS Board

TestReads ==
    {[page |-> "FFFF0", offset |-> 0], [page |-> "FFFF0", offset |-> 512],
     [page |-> "FFFF2", offset |-> 0], [page |-> "FFFF2", offset |-> 4]}
TestWrites ==
    {[page |-> "FFFF0", offset |-> 0], [page |-> "FFFF2", offset |-> 8]}
TestLightAddr  == [l \in Lights |-> 8]
TestLightReset == [l \in Lights |-> 0]
=============================================================================

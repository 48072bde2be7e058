------------------------ MODULE MC_DependencyParser -------------------------
(* DependencyParser with every annotation of short sentences, trees or not. *)
EXTENDS DependencyParser

Annotations(n) == [1 .. n -> 0 .. n]
Single == {<<tree>> : tree \in UNION {Annotations(n) : n \in 1 .. 5}}
Pairs ==
    LET short == UNION {Annotations(n) : n \in 1 .. 3}
    IN  {<<a, b>> : a \in short, b \in UNION {Annotations(n) : n \in 1 .. 2}}
TestCorpora == Single \cup Pairs
TestDatasets == {<<5>>, <<3, 3>>, <<2, 1, 3>>}
=============================================================================

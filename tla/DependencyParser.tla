-------------------------- MODULE DependencyParser --------------------------
(***************************************************************************)
(* The notebook's run_all: the training set is preprocessed, the network   *)
(* is trained on the instances, and the parser, with the trained network,  *)
(* is evaluated on the development set.                                    *)
(***************************************************************************)
EXTENDS CreateInstances, MinibatchParse

VARIABLE phase          \* "preprocess", then "evaluate"

vars == <<ciVars, mpVars, phase>>

Init ==
    /\ CIInit
    /\ MPInit
    /\ phase = "preprocess"

Preprocess ==
    /\ phase = "preprocess"
    /\ CINext
    /\ UNCHANGED <<mpVars, phase>>

(* train_for_epoch: the instances become weights, which are not modelled,
   so the training set is dropped here; then Parser.parse starts. *)
Train ==
    /\ phase = "preprocess"
    /\ ~Busy
    /\ phase' = "evaluate"
    /\ Start
    /\ examples' = <<>>
    /\ id' = 1
    /\ step' = 0
    /\ stack' = <<Root>>
    /\ buf' = <<>> /\ arcs' = <<>> /\ instances' = <<>> /\ allInstances' = <<>>

Evaluate ==
    /\ phase = "evaluate"
    /\ Predict \/ Apply \/ Score
    /\ UNCHANGED <<ciVars, phase>>

Next == Preprocess \/ Train \/ Evaluate
Spec == Init /\ [][Next]_vars

(* One thread, which nothing makes wait. *)
FairSpec == Spec /\ WF_vars(Next)

-----------------------------------------------------------------------------

TypeOK == CITypeOK /\ MPTypeOK /\ phase \in {"preprocess", "evaluate"}

(* The transitions recorded from first to last. *)
Recorded(first, last) == [m \in 1 .. last - first + 1 |-> allInstances[first + m - 1].gold]

(* The root as create_instances and extract_features write it. *)
Numbered(word) == IF word = RootString THEN Root ELSE word

(* What the network is trained to imitate is what the parser will do with
   it: create_instances moves its lists by itself, and PartialParse.parse
   (lines 397-408), given the same transitions, finds exactly the gold arcs
   and ends finished.  The instances of an example are recorded in one
   piece. *)
InstancesReplay ==
    \A k \in 1 .. Len(examples) :
      k < id /\ Kept(k) =>
        \E first, last \in 1 .. Len(allInstances) :
          /\ \A j \in 1 .. Len(allInstances) :
               allInstances[j].example = k <=> j \in first .. last
          /\ LET end == ParseAll(NewParse(Len(examples[k])), Recorded(first, last))
             IN  /\ Finished(end)
                 /\ {<<Numbered(d[1]), d[2]>> : d \in Range(end.deps)} = GoldArcs(examples[k])

(* The parser answers: no classifier keeps a sentence unfinished for ever. *)
EveryoneIsParsed == <>(phase = "evaluate" /\ heads # <<>>)
=============================================================================

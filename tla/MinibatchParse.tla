--------------------------- MODULE MinibatchParse ---------------------------
(***************************************************************************)
(* minibatch_parse and Parser.parse, which calls it with a ModelWrapper:   *)
(* the first batch_size unfinished parses are given to the classifier,     *)
(* each is moved by the transition predicted for it, and a parse that is   *)
(* finished leaves the list.  The network's scores are not modelled: of    *)
(* the legal transitions any may get the highest one.                      *)
(***************************************************************************)
EXTENDS TransitionSystem, SequencesExt

CONSTANTS
    Datasets,       \* what may be parsed: sequences of sentence lengths
    BatchSizes      \* the values of batch_size

ASSUME DatasetsAssumption ==
    /\ Datasets \subseteq Seq(Nat \ {0}) \ {<<>>}
    /\ BatchSizes \subseteq Nat \ {0}

VARIABLES
    sentences,      \* the length of every sentence
    batchSize,
    parse,          \* partial_parses: a PartialParse for each sentence
    unfinished,     \* unfinished_parses: positions in parse
    batch,          \* the minibatch, and
    transitions,    \* the transitions predicted for it
    turn,           \* the next pair of zip(batch, transitions)
    heads           \* what Parser.parse makes of the arcs, once it has them

mpVars == <<sentences, batchSize, parse, unfinished, batch, transitions, turn, heads>>

NoHead == -1

(* PartialParse.__init__ *)
NewParse(n) == [stack |-> <<RootString>>, buffer |-> [w \in 1 .. n |-> w], deps |-> <<>>]

MPInit ==
    /\ sentences = <<>>
    /\ batchSize = 1
    /\ parse = <<>>
    /\ unfinished = <<>>
    /\ batch = <<>> /\ transitions = <<>> /\ turn = 1
    /\ heads = <<>>

(* Parser.parse is called with a data set. *)
Start ==
    /\ sentences = <<>>
    /\ \E lengths \in Datasets, size \in BatchSizes :
         /\ sentences' = lengths
         /\ batchSize' = size
         /\ parse' = [k \in 1 .. Len(lengths) |-> NewParse(lengths[k])]
         /\ unfinished' = [k \in 1 .. Len(lengths) |-> k]
    /\ UNCHANGED <<batch, transitions, turn, heads>>

Applying == turn <= Len(batch)

(* ModelWrapper.predict: argmax of the scores, 10000 more for what is legal. *)
Predictable(c) ==
    LET legal == LegalLabels(c.stack, c.buffer)
    IN  IF legal = {} THEN Transitions ELSE legal

X_FirstForAll(b, predicted) ==
    (* Mutation: the whole batch gets the prediction of its first parse. *)
    predicted \in [1 .. Len(b) -> Predictable(parse[b[1]])]
Predicted(b, predicted) ==
    /\ Len(predicted) = Len(b)
    /\ \A k \in 1 .. Len(b) : predicted[k] \in Predictable(parse[b[k]])

Predict ==
    /\ ~Applying
    /\ unfinished # <<>>
    /\ LET b == SubSeq(unfinished, 1, IF batchSize < Len(unfinished)
                                      THEN batchSize ELSE Len(unfinished))
       IN  /\ batch' = b
           /\ \E predicted \in [1 .. Len(b) -> Transitions] :
                /\ Predicted(b, predicted)
                /\ transitions' = predicted
           /\ parse' = [k \in DOMAIN parse |->
                          IF \E m \in 1 .. Len(b) : b[m] = k
                          THEN [parse[k] EXCEPT !.stack = Renumbered(@)]
                          ELSE parse[k]]
    /\ turn' = 1
    /\ UNCHANGED <<sentences, batchSize, unfinished, heads>>

X_NoTokenLeft(c) ==
    (* Mutation: a parse counts as finished when its stack is empty. *)
    Len(c.stack) = 0 /\ c.buffer = <<>>
Finished(c) == Len(c.stack) = 1 /\ c.buffer = <<>>

Apply ==
    /\ Applying
    /\ CanStep(parse[batch[turn]], transitions[turn])
    /\ LET k == batch[turn]
           c == ParseStep(parse[k], transitions[turn])
       IN  /\ parse' = [parse EXCEPT ![k] = c]
           /\ unfinished' = IF Finished(c) THEN RemoveFirst(unfinished, k) ELSE unfinished
    /\ turn' = turn + 1
    /\ UNCHANGED <<sentences, batchSize, batch, transitions, heads>>

(* Parser.parse: for h, t in dependencies[i]: head[t] = h *)
HeadOf(deps, w) ==
    LET found == {k \in 1 .. Len(deps) : deps[k][2] = w}
    IN  IF found = {} THEN NoHead
        ELSE deps[CHOOSE k \in found : \A m \in found : m <= k][1]

Score ==
    /\ sentences # <<>>
    /\ ~Applying
    /\ unfinished = <<>>
    /\ heads = <<>>
    /\ heads' = [k \in DOMAIN parse |-> [w \in 1 .. sentences[k] |-> HeadOf(parse[k].deps, w)]]
    /\ UNCHANGED <<sentences, batchSize, parse, unfinished, batch, transitions, turn>>

MPNext == Start \/ Predict \/ Apply \/ Score
MPSpec == MPInit /\ [][MPNext]_mpVars

-----------------------------------------------------------------------------

Configuration ==
    [stack : Seq(Int), buffer : Seq(Nat), deps : Seq(Nat \X Nat)]

MPTypeOK ==
    /\ sentences \in Seq(Nat \ {0})
    /\ batchSize \in Nat \ {0}
    /\ parse \in Seq(Configuration) /\ Len(parse) = Len(sentences)
    /\ unfinished \in Seq(DOMAIN parse) /\ batch \in Seq(DOMAIN parse)
    /\ transitions \in Seq(Transitions)
    /\ turn \in Nat \ {0}
    /\ heads \in Seq(Seq(Int))

(* What was predicted for the whole batch still fits when its turn comes:
   no pop from an empty list, and the root keeps its place at the bottom of
   the stack.  The prediction is older than the steps of the parses before
   it in the batch. *)
StepIsLegal ==
    \A m \in turn .. Len(batch) :
      transitions[m] \in LegalLabels(parse[batch[m]].stack, parse[batch[m]].buffer)

(* The answers come in the order of the sentences, and each is a projective
   tree over all its words: whatever the classifier says, a word has one
   head, a number from 0 to the length of the sentence, and no "ROOT" or -1
   is left to be compared with the gold heads. *)
AnswersAreTrees ==
    heads # <<>> =>
      \A k \in 1 .. Len(sentences) :
        /\ Len(heads[k]) = sentences[k]
        /\ \A w \in 1 .. sentences[k] : heads[k][w] \in 0 .. sentences[k]
        /\ Len(parse[k].deps) = sentences[k]
        /\ IsProjective(heads[k])
=============================================================================

-------------------------- MODULE TransitionSystem --------------------------
(***************************************************************************)
(* The arc-standard transitions of the dependency parser of                *)
(* NP/3_Neural Transition-Based Dependency Parsing.  A configuration is a  *)
(* stack (its top last), a buffer (its first word first) and the arcs      *)
(* <<head, dependent>> found so far.  Word k of a sentence is the number   *)
(* k, the root is 0; PartialParse first writes the root as the string      *)
(* "ROOT", which is RootString here.                                       *)
(***************************************************************************)
EXTENDS Integers, Sequences

Root == 0
RootString == -1
Transitions == {"LA", "RA", "S"}

Top(stack) == stack[Len(stack)]
Second(stack) == stack[Len(stack) - 1]

DropTop(stack) == SubSeq(stack, 1, Len(stack) - 1)
DropSecond(stack) == Append(SubSeq(stack, 1, Len(stack) - 2), Top(stack))

(* What the classifier may choose from, and what its instances record. *)
X_RootIsAWord(stack, buffer) ==
    (* Mutation: the root may become a dependent. *)
    (IF Len(stack) >= 2 THEN {"LA", "RA"} ELSE {}) \cup (IF buffer # <<>> THEN {"S"} ELSE {})
LegalLabels(stack, buffer) ==
    (IF Len(stack) > 2 THEN {"LA"} ELSE {})
    \cup (IF Len(stack) >= 2 THEN {"RA"} ELSE {})
    \cup (IF buffer # <<>> THEN {"S"} ELSE {})

(* PartialParse.parse_step.  Where it cannot step, indexing or popping an
   empty list raises IndexError, which nobody catches: the program ends. *)
CanStep(c, t) == IF t = "S" THEN c.buffer # <<>> ELSE Len(c.stack) >= 2

X_ArcsSwapped(c, t) ==
    (* Mutation: the right arc points from the top of the stack. *)
    CASE t = "S"  -> [stack |-> Append(c.stack, Head(c.buffer)), buffer |-> Tail(c.buffer), deps |-> c.deps]
      [] t = "LA" -> [c EXCEPT !.stack = DropSecond(@), !.deps = Append(@, <<Top(c.stack), Second(c.stack)>>)]
      [] t = "RA" -> [c EXCEPT !.stack = DropTop(@), !.deps = Append(@, <<Top(c.stack), Second(c.stack)>>)]
ParseStep(c, t) ==
    CASE t = "S"  -> [stack  |-> Append(c.stack, Head(c.buffer)),
                      buffer |-> Tail(c.buffer),
                      deps   |-> c.deps]
      [] t = "LA" -> [stack  |-> DropSecond(c.stack),
                      buffer |-> c.buffer,
                      deps   |-> Append(c.deps, <<Top(c.stack), Second(c.stack)>>)]
      [] t = "RA" -> [stack  |-> DropTop(c.stack),
                      buffer |-> c.buffer,
                      deps   |-> Append(c.deps, <<Second(c.stack), Top(c.stack)>>)]

(* PartialParse.parse *)
ParseAll(c, transitions) ==
    LET after[k \in 0 .. Len(transitions)] ==
          IF k = 0 THEN c ELSE ParseStep(after[k - 1], transitions[k])
    IN  after[Len(transitions)]

(* The first lines of Parser.extract_features: the list it is given is the
   parse's own stack, so the root stays a number from then on. *)
X_OwnCopy(stack) ==
    (* Mutation: the features are computed from a copy of the stack. *)
    stack
Renumbered(stack) ==
    IF stack[1] = RootString THEN [stack EXCEPT ![1] = Root] ELSE stack

(***************************************************************************)
(* Trees.  A tree over the words 1 .. n is the sequence of its words'      *)
(* heads.                                                                  *)
(***************************************************************************)
Words(tree) == 1 .. Len(tree)
GoldArcs(tree) == {<<tree[w], w>> : w \in Words(tree)}

(* Every word is below the root: no set of words has all its heads inside. *)
IsTree(tree) ==
    \A S \in (SUBSET Words(tree)) \ {{}} : \E w \in S : tree[w] \notin S

(* Two arcs cross when each has one end strictly inside the other. *)
Crossing(a, b) ==
    LET left(x)  == IF x[1] < x[2] THEN x[1] ELSE x[2]
        right(x) == IF x[1] < x[2] THEN x[2] ELSE x[1]
    IN  left(a) < left(b) /\ left(b) < right(a) /\ right(a) < right(b)

IsProjective(tree) ==
    /\ IsTree(tree)
    /\ \A a, b \in GoldArcs(tree) : ~Crossing(a, b)
=============================================================================

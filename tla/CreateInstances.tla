-------------------------- MODULE CreateInstances ---------------------------
(***************************************************************************)
(* Parser.create_instances: the gold tree of every training sentence is    *)
(* turned into the transitions an oracle takes.  A sentence whose oracle   *)
(* has no answer is dropped; an illegal answer would end the program       *)
(* (assert legal_labels[gold_t] == 1).  The features recorded with each    *)
(* transition are left out, their order and number is not.                 *)
(***************************************************************************)
EXTENDS TransitionSystem

CONSTANT Corpora        \* the training sets, each a sequence of gold trees

(* read_conll never returns an empty sentence; it does not check that the
   heads form a tree. *)
ASSUME CorporaAssumption ==
    /\ Corpora \subseteq Seq(Seq(Nat))
    /\ \A corpus \in Corpora : \A k \in 1 .. Len(corpus) :
         /\ corpus[k] # <<>>
         /\ \A w \in Words(corpus[k]) : corpus[k][w] \in {Root} \cup Words(corpus[k])

VARIABLES
    examples,       \* the training set
    id,             \* the example the outer loop is at
    step,           \* the inner loop's i: transitions taken for it
    stack, buf, arcs,
    instances,      \* the example's gold transitions so far
    allInstances    \* what is returned: a sequence of [example, gold]

ciVars == <<examples, id, step, stack, buf, arcs, instances, allInstances>>

Example == examples[id]
Busy == id <= Len(examples)
InnerLoop == Busy /\ step < 2 * Len(Example)

NoAnswer == "None"

X_Hasty(s, b, tree) ==
    (* Mutation: a right arc is taken before the word has its dependents. *)
    IF Len(s) < 2 THEN "S"
    ELSE IF Second(s) > 0 /\ tree[Second(s)] = Top(s) THEN "LA"
    ELSE IF tree[Top(s)] = Second(s) THEN "RA"
    ELSE IF b = <<>> THEN NoAnswer ELSE "S"
X_ShiftAnyway(s, b, tree) ==
    (* Mutation: an empty buffer does not stop the oracle from shifting. *)
    IF Len(s) < 2 THEN "S"
    ELSE IF Second(s) > 0 /\ tree[Second(s)] = Top(s) THEN "LA"
    ELSE IF /\ tree[Top(s)] = Second(s)
            /\ ~\E k \in 1 .. Len(b) : tree[b[k]] = Top(s) THEN "RA"
    ELSE "S"
GetOracle(s, b, tree) ==
    IF Len(s) < 2 THEN "S"
    ELSE IF Second(s) > 0 /\ tree[Second(s)] = Top(s) THEN "LA"
    ELSE IF /\ tree[Top(s)] = Second(s)
            /\ ~\E k \in 1 .. Len(b) : tree[b[k]] = Top(s) THEN "RA"
    ELSE IF b = <<>> THEN NoAnswer ELSE "S"

Gold == GetOracle(stack, buf, Example)

Reset(k) ==
    /\ id' = k
    /\ step' = 0
    /\ stack' = <<Root>>
    /\ buf' = IF k <= Len(examples) THEN [w \in Words(examples[k]) |-> w] ELSE <<>>
    /\ arcs' = <<>>
    /\ instances' = <<>>
    /\ UNCHANGED examples

CIInit ==
    /\ examples \in Corpora
    /\ id = 1
    /\ step = 0
    /\ stack = <<Root>>
    /\ buf = IF examples # <<>> THEN [w \in Words(examples[1]) |-> w] ELSE <<>>
    /\ arcs = <<>>
    /\ instances = <<>>
    /\ allInstances = <<>>

(* One turn of the inner loop.  The function has its own copy of the
   transitions: lists are sliced and rebuilt, not popped. *)
TakeTransition ==
    /\ InnerLoop
    /\ Gold # NoAnswer
    /\ instances' = Append(instances, Gold)
    /\ step' = step + 1
    /\ \/ /\ Gold = "S"
          /\ stack' = Append(stack, Head(buf))
          /\ buf' = Tail(buf)
          /\ UNCHANGED arcs
       \/ /\ Gold = "LA"
          /\ arcs' = Append(arcs, <<Top(stack), Second(stack)>>)
          /\ stack' = DropSecond(stack)
          /\ UNCHANGED buf
       \/ /\ Gold = "RA"
          /\ arcs' = Append(arcs, <<Second(stack), Top(stack)>>)
          /\ stack' = DropTop(stack)
          /\ UNCHANGED buf
    /\ UNCHANGED <<examples, id, allInstances>>

(* The oracle has no answer: break, and the example's instances are lost. *)
GiveUp ==
    /\ InnerLoop
    /\ Gold = NoAnswer
    /\ Reset(id + 1)
    /\ UNCHANGED allInstances

(* The for loop's else: all 2n transitions were taken. *)
Keep ==
    /\ Busy
    /\ ~InnerLoop
    /\ allInstances' = allInstances \o
         [k \in 1 .. Len(instances) |-> [example |-> id, gold |-> instances[k]]]
    /\ Reset(id + 1)

CINext == TakeTransition \/ GiveUp \/ Keep
CISpec == CIInit /\ [][CINext]_ciVars

-----------------------------------------------------------------------------

CITypeOK ==
    /\ examples \in Corpora \cup {<<>>}
    /\ id \in Nat \ {0}
    /\ step \in Nat
    /\ stack \in Seq(Nat) /\ buf \in Seq(Nat)
    /\ arcs \in Seq(Nat \X Nat)
    /\ instances \in Seq(Transitions)
    /\ allInstances \in Seq([example : Nat, gold : Transitions])

(* The assertion of create_instances never fails, whatever the heads read
   from the file are: the oracle's answer is one the parser may take, and
   the loop of 2n turns ends before the stack and the buffer run out. *)
AssertionHolds ==
    InnerLoop /\ Gold # NoAnswer => Gold \in LegalLabels(stack, buf)

Kept(k) == \E j \in 1 .. Len(allInstances) : allInstances[j].example = k

(* A sentence contributes instances exactly when its heads are a projective
   tree: the oracle never gives up on one, and every other annotation (a
   cycle, crossing arcs) is dropped before its last transition. *)
KeptIffProjective ==
    \A k \in 1 .. Len(examples) : k < id => (Kept(k) <=> IsProjective(examples[k]))
=============================================================================

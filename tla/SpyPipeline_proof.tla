------------------------- MODULE SpyPipeline_proof -------------------------
(* The proof that the optimizer of src/CP/hw4/code/optimizer.ml keeps what   *)
(* straight-line programs do (StraightLineIsKept of SpyPipeline), for every  *)
(* set of source programs and every translator that makes straight-line code *)
(* of them as StraightCode describes it.                                     *)
(*                                                                           *)
(* An execution that does not fail is a sequence of environments and outputs *)
(* (Runs), and a program is compared with what becomes of it by what it      *)
(* writes (Keeps).  A step of the pass is taken apart into a change of the   *)
(* instructions in place (Rewrites), after which each instruction does the   *)
(* same in every state of the execution (InPlace), and the removal of the    *)
(* instruction at the head, if its result is mentioned no more (DropRuns).   *)
(* OptOK is what the program has to satisfy for both, at each place of the   *)
(* pass: the form of straight-line code, temporaries read before the name    *)
(* they were copied from is assigned again (ReadInTime), no constant string  *)
(* ahead in a user's name (Late) and none that would be redirected to the    *)
(* one at the head (HeadString).                                             *)
EXTENDS SpyPipeline, SequenceTheorems, WellFoundedInduction, TLAPS

-----------------------------------------------------------------------------
(* The machine, on straight-line code. *)

(* What ins assigns in environment e, NoId when it fails. *)
Val(ins, e) ==
    CASE ins.op = "COPY" /\ ins.ys[1] \in DOMAIN e -> e[ins.ys[1]]
      [] ins.op \in {"COPYC", "COPYS"} -> ins.c
      [] ins.op = "COPYN" -> NONE
      [] ins.op = "ASSIGNV" /\ \A n \in 1 .. 2 : ins.ys[n] \in DOMAIN e ->
           EvalBinary(e[ins.ys[1]], ins.bop, e[ins.ys[2]])
      [] ins.op = "ASSIGNC" /\ ins.ys[1] \in DOMAIN e ->
           EvalBinary(e[ins.ys[1]], ins.bop, ins.c)
      [] OTHER -> NoId

(* Instruction ins takes environment e and output o to f and w. *)
Does(ins, e, o, f, w) ==
    \/ /\ ins.op \in Defining /\ w = o
       /\ Val(ins, e) # NoId /\ f = Put(e, ins.x, Val(ins, e))
    \/ /\ ins.op = "WRITE" /\ f = e
       /\ ins.ys[1] \in DOMAIN e /\ w = Append(o, e[ins.ys[1]])

(* The machine that is to execute the instruction at k of pgm. *)
At(pgm, e, o, k) ==
    [pc |-> pgm[k].l, stack |-> <<Frame(e, <<>>, NoId)>>, out |-> o, status |-> "run"]

EnvOK(e) ==
    /\ e = [y \in DOMAIN e |-> e[y]]
    /\ \A y \in DOMAIN e : IsPrimitive(e[y]) /\ e[y] # NoId

(* get_instr finds the instruction at k by its label, and the next pc is the *)
(* label of the instruction behind it (spvm.ml:229-259).                     *)
LEMMA Fetched ==
    ASSUME NEW pgm, Form(pgm), NEW k \in DOMAIN pgm
    PROVE  /\ GetInstr(pgm, pgm[k].l) = pgm[k]
           /\ k + 1 \in DOMAIN pgm => NextPc(pgm, pgm[k].l) = pgm[k + 1].l
<1>1. Holds(pgm, pgm[k].l)
  BY DEF Holds
<1>2. ListOf(pgm, pgm[k].l) = pgm
  BY <1>1 DEF ListOf
<1>3. PlaceOf(pgm, pgm[k].l) = k
  BY DEF PlaceOf, Form
<1> QED
  BY <1>2, <1>3 DEF GetInstr, NextPc

(* Of a stack of one frame, bound, lookup and bind are the domain, the *)
(* application and the update of its environment.                      *)
LEMMA OneFrame ==
    ASSUME NEW e, NEW s, s = <<Frame(e, <<>>, NoId)>>
    PROVE  /\ \A y : Bound(y, s) <=> y \in DOMAIN e
           /\ \A y \in DOMAIN e : Lookup(y, s) = e[y]
           /\ \A y, v : Bind(y, v, s) = <<Frame(Put(e, y, v), <<>>, NoId)>>
<1>1. DOMAIN s = {1} /\ s[1].env = e
  BY DEF Frame
<1>2. \A y : Bound(y, s) <=> y \in DOMAIN e
  BY <1>1 DEF Bound
<1>3. ASSUME NEW y \in DOMAIN e
      PROVE  Lookup(y, s) = e[y]
  BY <1>1, <1>3 DEF Lookup
<1>4. ASSUME NEW y, NEW v
      PROVE  Bind(y, v, s) = <<Frame(Put(e, y, v), <<>>, NoId)>>
  BY DEF Bind, Frame
<1> QED
  BY <1>2, <1>3, <1>4

(* The user's names, the temporaries and NoId are apart. *)
LEMMA Names ==
    /\ \A u \in Users : u \notin Temps /\ u # NoId
    /\ \A t \in Temps : t # NoId
<1>1. \A u \in Users : DOMAIN u = {"user"}
  BY DEF Users
<1>2. \A t \in Temps : DOMAIN t = {"temp"}
  BY DEF Temps
<1>3. DOMAIN NoId = {"noid"}
  BY DEF NoId
<1> QED
  BY <1>1, <1>2, <1>3

(* A constant of an instruction is a value, and no failure. *)
LEMMA ConstantIsValue ==
    \A c \in Constants : c # NoId /\ IsPrimitive(c)
<1>1. DOMAIN NoId = {"noid"}
  BY DEF NoId
<1>2. \A c \in [num : Int] : DOMAIN c = {"num"}
  OBVIOUS
<1>3. \A c \in [str : STRING] : DOMAIN c = {"str"}
  OBVIOUS
<1>4. DOMAIN NONE = {"none"}
  BY DEF NONE
<1> QED
  BY <1>1, <1>2, <1>3, <1>4 DEF Constants, IsPrimitive

(* eval_binary fails or gives a primitive value. *)
LEMMA EvalIsValue ==
    ASSUME NEW v1, NEW v2, NEW bop \in {"ADD", "SUB", "LT", "EQ"}
    PROVE  LET v == EvalBinary(v1, bop, v2)
           IN  v = NoId \/ IsPrimitive(v)
<1>1. \A n : DOMAIN NUM(n) = {"num"} /\ DOMAIN STR(n) = {"str"}
  BY DEF NUM, STR
<1>2. \A n : IsPrimitive(NUM(n)) /\ IsPrimitive(STR(n))
  BY <1>1 DEF IsPrimitive
<1>3. CASE IsNum(v1) /\ IsNum(v2)
  BY <1>2, <1>3 DEF EvalBinary
<1>4. CASE ~ (IsNum(v1) /\ IsNum(v2))
  BY <1>2, <1>4 DEF EvalBinary
<1> QED
  BY <1>3, <1>4

(* What an instruction assigns, when it does not fail, is a primitive value. *)
LEMMA ValIsValue ==
    ASSUME NEW ins \in StraightInstrs, WellFormed(ins), NEW e, EnvOK(e)
    PROVE  Val(ins, e) = NoId \/ IsPrimitive(Val(ins, e))
<1>1. IsPrimitive(NONE)
  BY ConstantIsValue DEF Constants
<1>2. ins.op \in {"COPYC", "COPYS"} => IsPrimitive(ins.c)
  BY ConstantIsValue DEF StraightInstrs
<1>3. ins.op \in {"ASSIGNV", "ASSIGNC"} => ins.bop \in {"ADD", "SUB", "LT", "EQ"}
  BY DEF StraightInstrs, WellFormed
<1>4. \A v1, v2 : ins.op \in {"ASSIGNV", "ASSIGNC"} =>
        LET v == EvalBinary(v1, ins.bop, v2) IN v = NoId \/ IsPrimitive(v)
  BY <1>3, EvalIsValue
<1> QED
  BY <1>1, <1>2, <1>4 DEF Val, EnvOK

(* The operands of an instruction, as a set. *)
LEMMA ReadsOf ==
    ASSUME NEW ins \in StraightInstrs, WellFormed(ins)
    PROVE  /\ Operands(ins.op) = 0 => ToSet(ins.ys) = {}
           /\ ins.op # "CALL" /\ Operands(ins.op) = 1 => ToSet(ins.ys) = {ins.ys[1]}
           /\ ins.op # "CALL" /\ Operands(ins.op) = 2 => ToSet(ins.ys) = {ins.ys[1], ins.ys[2]}
<1>1. ins.ys \in Seq(Ids)
  BY DEF StraightInstrs
<1>2. PICK ys \in Seq(Ids) : ys = ins.ys
  BY <1>1
<1>3. ToSet(ys) = {ys[i] : i \in 1 .. Len(ys)}
  BY DEF ToSet
<1>4. Operands("CALL") = 2
  BY DEF Operands
<1>5. ins.op # "CALL" => Len(ys) = Operands(ins.op)
  BY <1>2 DEF WellFormed
<1> QED
  BY <1>2, <1>3, <1>4, <1>5

(* Store writes the variable of the only frame and goes on to place k + 1. *)
LEMMA StoreOf ==
    ASSUME NEW pgm, Form(pgm), NEW k \in DOMAIN pgm, k + 1 \in DOMAIN pgm,
           NEW e, NEW o, NEW x, NEW v
    PROVE  Store(pgm, At(pgm, e, o, k), x, v) = At(pgm, Put(e, x, v), o, k + 1)
<1>1. NextPc(pgm, pgm[k].l) = pgm[k + 1].l
  BY Fetched
<1>2. Bind(x, v, <<Frame(e, <<>>, NoId)>>) = <<Frame(Put(e, x, v), <<>>, NoId)>>
  BY OneFrame
<1>3. PICK a, b, s, r : /\ a = pgm[k].l /\ b = pgm[k + 1].l
                        /\ s = <<Frame(e, <<>>, NoId)>>
                        /\ r = <<Frame(Put(e, x, v), <<>>, NoId)>>
  OBVIOUS
<1>4. PICK m : m = [pc |-> a, stack |-> s, out |-> o, status |-> "run"]
  OBVIOUS
<1>5. m = At(pgm, e, o, k)
  BY <1>3, <1>4 DEF At
<1>6. At(pgm, Put(e, x, v), o, k + 1) = [pc |-> b, stack |-> r, out |-> o, status |-> "run"]
  BY <1>3 DEF At
<1>7. Bind(x, v, m.stack) = r /\ NextPc(pgm, m.pc) = b
  BY <1>1, <1>2, <1>3, <1>4
<1>8. Store(pgm, m, x, v) = [pc |-> b, stack |-> r, out |-> o, status |-> "run"]
  <2>1. PICK n : n = Goto(m, NextPc(pgm, m.pc))
    OBVIOUS
  <2>2. n = [pc |-> b, stack |-> s, out |-> o, status |-> "run"]
    BY <1>4, <1>7, <2>1 DEF Goto
  <2>3. Store(pgm, m, x, v) = [n EXCEPT !.stack = r]
    BY <1>4, <1>7, <2>1, <2>2 DEF Store
  <2> QED
    BY <2>2, <2>3
<1> QED
  BY <1>5, <1>6, <1>8
(* The moves of an instruction of straight-line code, case by case. *)
LEMMA MoveUnbound ==
    ASSUME NEW pgm, NEW m, NEW ins, GetInstr(pgm, m.pc) = ins,
           ins.op \notin {"COPY", "FUNC_DEF"},
           NEW y \in ToSet(ins.ys), ~ Bound(y, m.stack)
    PROVE  Move(pgm, m) = Raise(m)
BY DEF Move

(* COPY: the variable is allocated before the operand is read. *)
LEMMA MoveCopy ==
    ASSUME NEW pgm, NEW m, NEW ins, GetInstr(pgm, m.pc) = ins, ins.op = "COPY",
           ToSet(ins.ys) = {ins.ys[1]},
           NEW s, s = Alloc(ins.x, m.stack), NEW a, a = Lookup(ins.ys[1], s)
    PROVE  Move(pgm, m) = IF ~ Bound(ins.ys[1], s) \/ a = NoId THEN Raise(m)
                          ELSE Store(pgm, m, ins.x, a)
BY DEF Move

(* COPYC, COPYS and COPYN. *)
LEMMA MoveConstant ==
    ASSUME NEW pgm, NEW m, NEW ins, GetInstr(pgm, m.pc) = ins,
           ToSet(ins.ys) = {}
    PROVE  /\ ins.op \in {"COPYC", "COPYS"} =>
                Move(pgm, m) = IF ins.c = NoId THEN Raise(m)
                               ELSE Store(pgm, m, ins.x, ins.c)
           /\ ins.op = "COPYN" =>
                Move(pgm, m) = IF NONE = NoId THEN Raise(m)
                               ELSE Store(pgm, m, ins.x, NONE)
BY DEF Move

(* ASSIGNV, of two primitive operands. *)
LEMMA MoveAssignV ==
    ASSUME NEW pgm, NEW m, NEW ins, GetInstr(pgm, m.pc) = ins, ins.op = "ASSIGNV",
           \A y \in ToSet(ins.ys) : Bound(y, m.stack),
           NEW a, a = Lookup(ins.ys[1], m.stack), IsPrimitive(a),
           NEW b, b = Lookup(ins.ys[2], m.stack), IsPrimitive(b)
    PROVE  Move(pgm, m) = IF EvalBinary(a, ins.bop, b) = NoId THEN Raise(m)
                          ELSE Store(pgm, m, ins.x, EvalBinary(a, ins.bop, b))
BY DEF Move

(* ASSIGNC, of a primitive operand. *)
LEMMA MoveAssignC ==
    ASSUME NEW pgm, NEW m, NEW ins, GetInstr(pgm, m.pc) = ins, ins.op = "ASSIGNC",
           \A y \in ToSet(ins.ys) : Bound(y, m.stack),
           NEW a, a = Lookup(ins.ys[1], m.stack), IsPrimitive(a)
    PROVE  Move(pgm, m) = IF EvalBinary(a, ins.bop, ins.c) = NoId THEN Raise(m)
                          ELSE Store(pgm, m, ins.x, EvalBinary(a, ins.bop, ins.c))
BY DEF Move

(* WRITE. *)
LEMMA MoveWrite ==
    ASSUME NEW pgm, NEW m, NEW ins, GetInstr(pgm, m.pc) = ins, ins.op = "WRITE",
           \A y \in ToSet(ins.ys) : Bound(y, m.stack),
           NEW a, a = Lookup(ins.ys[1], m.stack)
    PROVE  Move(pgm, m) = [Goto(m, NextPc(pgm, m.pc)) EXCEPT !.out = Append(@, a)]
BY DEF Move

(* CALL: no primitive value is callable, so it fails. *)
LEMMA MoveCall ==
    ASSUME NEW pgm, NEW m, NEW ins, GetInstr(pgm, m.pc) = ins, ins.op = "CALL",
           \A y \in ToSet(ins.ys) : Bound(y, m.stack) =>
              IsPrimitive(Lookup(y, m.stack)),
           ins.ys[1] \in ToSet(ins.ys)
    PROVE  Move(pgm, m) = Raise(m)
BY DEF Move

(* One step of the machine at k, in terms of Val: it assigns or writes and goes *)
(* on, or it fails.                                                             *)
LEMMA MoveOf ==
    ASSUME NEW pgm, Form(pgm), NEW k \in DOMAIN pgm, k + 1 \in DOMAIN pgm,
           NEW e, EnvOK(e), NEW o
    PROVE  LET ins == pgm[k]
               m == At(pgm, e, o, k)
           IN  /\ ins.op \in Defining =>
                    Move(pgm, m) = IF Val(ins, e) = NoId THEN Raise(m)
                                   ELSE At(pgm, Put(e, ins.x, Val(ins, e)), o, k + 1)
               /\ ins.op = "WRITE" =>
                    Move(pgm, m) = IF ins.ys[1] \in DOMAIN e
                                   THEN At(pgm, e, Append(o, e[ins.ys[1]]), k + 1)
                                   ELSE Raise(m)
<1>1. PICK ins, m, s : /\ ins = pgm[k] /\ m = At(pgm, e, o, k)
                       /\ s = <<Frame(e, <<>>, NoId)>>
  OBVIOUS
<1>2. /\ GetInstr(pgm, m.pc) = ins /\ m.stack = s /\ m.out = o
  BY <1>1, Fetched DEF At
<1>3. ins \in StraightInstrs /\ WellFormed(ins)
  BY <1>1 DEF Form
<1>4. /\ \A y : Bound(y, s) <=> y \in DOMAIN e
      /\ \A y \in DOMAIN e : Lookup(y, s) = e[y]
      /\ \A y, v : Bind(y, v, s) = <<Frame(Put(e, y, v), <<>>, NoId)>>
  BY <1>1, OneFrame
<1>5. \A x, v : Store(pgm, m, x, v) = At(pgm, Put(e, x, v), o, k + 1)
  BY <1>1, StoreOf
<1>6. NONE # NoId
  BY ConstantIsValue DEF Constants
<1>7. ASSUME ins.op = "COPY"
      PROVE  Move(pgm, m) = IF Val(ins, e) = NoId THEN Raise(m)
                            ELSE At(pgm, Put(e, ins.x, Val(ins, e)), o, k + 1)
  <2>1. ToSet(ins.ys) = {ins.ys[1]}
    BY <1>3, <1>7, ReadsOf DEF Operands
  <2>2. PICK y, x : y = ins.ys[1] /\ x = ins.x
    OBVIOUS
  <2>3. y # x
    BY <1>3, <1>7, <2>2, Names, ReadsOf DEF WellFormed, Ids, Defining
  <2>4. PICK a : a = IF x \in DOMAIN e THEN e ELSE Put(e, x, NUM(0))
    OBVIOUS
  <2>5. PICK r : r = <<Frame(a, <<>>, NoId)>>
    OBVIOUS
  <2>6. Alloc(x, m.stack) = r
    <3>1. DOMAIN s = {1} /\ s[1].env = e
      BY <1>1 DEF Frame
    <3> QED
      BY <1>1, <1>2, <1>4, <2>4, <2>5, <3>1 DEF Alloc
  <2>7. y \in DOMAIN a <=> y \in DOMAIN e
    BY <2>3, <2>4 DEF Put
  <2>8. y \in DOMAIN e => a[y] = e[y]
    BY <2>3, <2>4 DEF Put
  <2>9. (Bound(y, r) <=> y \in DOMAIN e) /\ (y \in DOMAIN e => Lookup(y, r) = e[y])
    BY <2>5, <2>7, <2>8, OneFrame
  <2>10. Move(pgm, m) = IF ~ Bound(y, r) \/ Lookup(y, r) = NoId THEN Raise(m)
                        ELSE Store(pgm, m, x, Lookup(y, r))
    BY <1>2, <1>7, <2>1, <2>2, <2>6, MoveCopy
  <2>11. Val(ins, e) = IF y \in DOMAIN e THEN e[y] ELSE NoId
    BY <1>7, <2>2 DEF Val
  <2> QED
    BY <1>5, <2>2, <2>9, <2>10, <2>11
<1>8. ASSUME ins.op \in {"COPYC", "COPYS", "COPYN"}
      PROVE  Move(pgm, m) = IF Val(ins, e) = NoId THEN Raise(m)
                            ELSE At(pgm, Put(e, ins.x, Val(ins, e)), o, k + 1)
  <2>1. ToSet(ins.ys) = {}
    BY <1>3, <1>8, ReadsOf DEF Operands
  <2>2. Val(ins, e) = IF ins.op = "COPYN" THEN NONE ELSE ins.c
    BY <1>8 DEF Val
  <2>3. Move(pgm, m) = IF Val(ins, e) = NoId THEN Raise(m)
                       ELSE Store(pgm, m, ins.x, Val(ins, e))
    BY <1>2, <1>8, <2>1, <2>2, MoveConstant
  <2> QED
    BY <1>5, <2>3
<1>9. ASSUME ins.op = "ASSIGNV"
      PROVE  Move(pgm, m) = IF Val(ins, e) = NoId THEN Raise(m)
                            ELSE At(pgm, Put(e, ins.x, Val(ins, e)), o, k + 1)
  <2>1. ToSet(ins.ys) = {ins.ys[1], ins.ys[2]}
    BY <1>3, <1>9, ReadsOf DEF Operands
  <2>2. PICK y, z : y = ins.ys[1] /\ z = ins.ys[2]
    OBVIOUS
  <2>3. CASE y \in DOMAIN e /\ z \in DOMAIN e
    <3>1. IsPrimitive(e[y]) /\ IsPrimitive(e[z])
      BY <2>3 DEF EnvOK
    <3>2. Val(ins, e) = EvalBinary(e[y], ins.bop, e[z])
      BY <1>9, <2>2, <2>3 DEF Val
    <3>3. Move(pgm, m) = IF Val(ins, e) = NoId THEN Raise(m)
                         ELSE Store(pgm, m, ins.x, Val(ins, e))
      BY <1>2, <1>4, <1>9, <2>1, <2>2, <2>3, <3>1, <3>2, MoveAssignV
    <3> QED
      BY <1>5, <3>3
  <2>4. CASE ~ (y \in DOMAIN e /\ z \in DOMAIN e)
    <3>1. Val(ins, e) = NoId
      BY <1>9, <2>2, <2>4 DEF Val
    <3>2. Move(pgm, m) = Raise(m)
      BY <1>2, <1>4, <1>9, <2>1, <2>2, <2>4, MoveUnbound
    <3> QED
      BY <3>1, <3>2
  <2> QED
    BY <2>3, <2>4
<1>10. ASSUME ins.op = "ASSIGNC"
      PROVE  Move(pgm, m) = IF Val(ins, e) = NoId THEN Raise(m)
                            ELSE At(pgm, Put(e, ins.x, Val(ins, e)), o, k + 1)
  <2>1. ToSet(ins.ys) = {ins.ys[1]}
    BY <1>3, <1>10, ReadsOf DEF Operands
  <2>2. PICK y : y = ins.ys[1]
    OBVIOUS
  <2>3. CASE y \in DOMAIN e
    <3>1. IsPrimitive(e[y])
      BY <2>3 DEF EnvOK
    <3>2. Val(ins, e) = EvalBinary(e[y], ins.bop, ins.c)
      BY <1>10, <2>2, <2>3 DEF Val
    <3>3. Move(pgm, m) = IF Val(ins, e) = NoId THEN Raise(m)
                         ELSE Store(pgm, m, ins.x, Val(ins, e))
      BY <1>2, <1>4, <1>10, <2>1, <2>2, <2>3, <3>1, <3>2, MoveAssignC
    <3> QED
      BY <1>5, <3>3
  <2>4. CASE y \notin DOMAIN e
    <3>1. Val(ins, e) = NoId
      BY <1>10, <2>2, <2>4 DEF Val
    <3>2. Move(pgm, m) = Raise(m)
      BY <1>2, <1>4, <1>10, <2>1, <2>2, <2>4, MoveUnbound
    <3> QED
      BY <3>1, <3>2
  <2> QED
    BY <2>3, <2>4
<1>11. ASSUME ins.op = "WRITE"
       PROVE  Move(pgm, m) = IF ins.ys[1] \in DOMAIN e
                             THEN At(pgm, e, Append(o, e[ins.ys[1]]), k + 1)
                             ELSE Raise(m)
  <2>1. ToSet(ins.ys) = {ins.ys[1]}
    BY <1>3, <1>11, ReadsOf DEF Operands
  <2>2. PICK y : y = ins.ys[1]
    OBVIOUS
  <2>3. CASE y \in DOMAIN e
    <3>1. Move(pgm, m) = [Goto(m, NextPc(pgm, m.pc)) EXCEPT !.out = Append(@, e[y])]
      BY <1>2, <1>4, <1>11, <2>1, <2>2, <2>3, MoveWrite
    <3>2. PICK a, b, u, w : a = pgm[k].l /\ b = pgm[k + 1].l /\ u = e[y] /\ w = Append(o, u)
      OBVIOUS
    <3>3. m = [pc |-> a, stack |-> s, out |-> o, status |-> "run"]
      BY <1>1, <3>2 DEF At
    <3>4. At(pgm, e, w, k + 1) = [pc |-> b, stack |-> s, out |-> w, status |-> "run"]
      BY <1>1, <3>2 DEF At
    <3>5. NextPc(pgm, a) = b
      BY <3>2, Fetched
    <3> QED
      BY <2>2, <2>3, <3>1, <3>2, <3>3, <3>4, <3>5 DEF Goto
  <2>4. CASE y \notin DOMAIN e
    BY <1>2, <1>4, <1>11, <2>1, <2>2, <2>4, MoveUnbound
  <2> QED
    BY <2>2, <2>3, <2>4
<1>12. ASSUME ins.op = "CALL"
       PROVE  Move(pgm, m) = Raise(m) /\ Val(ins, e) = NoId
  <2>1. \A y \in ToSet(ins.ys) : Bound(y, m.stack) => IsPrimitive(Lookup(y, m.stack))
    BY <1>2, <1>4 DEF EnvOK
  <2>2. ins.ys \in Seq(Ids) /\ ins.ys # <<>>
    BY <1>3, <1>12 DEF StraightInstrs, WellFormed
  <2>3. ins.ys[1] \in ToSet(ins.ys)
    BY <2>2 DEF ToSet
  <2> QED
    BY <1>2, <1>12, <2>1, <2>3, MoveCall DEF Val
<1> QED
  BY <1>1, <1>7, <1>8, <1>9, <1>10, <1>11, <1>12 DEF Defining

(* A set of naturals has a least member. *)
LEMMA Least ==
    ASSUME NEW T, T \subseteq Nat, T # {}
    PROVE  \E x \in T : \A y \in T : x <= y
  <1> DEFINE R == OpToRel(<, Nat)
  <1>1. IsWellFoundedOn(R, Nat)
    BY NatLessThanWellFounded
  <1>2. \A a, b \in Nat : a < b => <<a, b>> \in R
    BY DEF OpToRel
  <1> HIDE DEF R
  <1>3. PICK x \in T : \A y \in T : ~ (<<y, x>> \in R)
    BY <1>1, WFMin
  <1>4. ASSUME NEW y \in T
        PROVE  x <= y
    <2>1. x \in Nat /\ y \in Nat
      OBVIOUS
    <2>2. ~ (y < x)
      BY <1>2, <1>3, <2>1
    <2> QED  BY <2>1, <2>2
  <1> QED  BY <1>4

(* Induction from a to b, over the members of a set. *)
LEMMA Induction ==
    ASSUME NEW a \in Nat, NEW b \in Nat, NEW T, a \in T,
           \A k \in a .. b : k < b /\ k \in T => k + 1 \in T
    PROVE  \A k \in a .. b : k \in T
<1> DEFINE Bad == {k \in a .. b : k \notin T}
<1>1. SUFFICES ASSUME Bad # {}
               PROVE  FALSE
  OBVIOUS
<1>2. Bad \subseteq Nat
  OBVIOUS
<1>3. PICK x \in Bad : \A y \in Bad : x <= y
  BY <1>1, <1>2, Least
<1>4. x \in Nat /\ x # a /\ a <= x /\ x <= b /\ x \notin T
  OBVIOUS
<1>5. x - 1 \in a .. b /\ x - 1 < b /\ x - 1 + 1 = x
  BY <1>4
<1>6. x - 1 \notin Bad
  BY <1>3, <1>4
<1> QED
  BY <1>4, <1>5, <1>6

(* The first n - 1 instructions of pgm, executed from the start. *)
Runs(pgm, E, O, n) ==
    /\ E[1] = <<>> /\ O[1] = <<>>
    /\ \A k \in 1 .. n - 1 : Does(pgm[k], E[k], O[k], E[k + 1], O[k + 1])

(* What the whole of pgm writes. *)
Writes(pgm, out) == \E E, O : Runs(pgm, E, O, Len(pgm)) /\ O[Len(pgm)] = out

(* An instruction leaves only primitive values bound. *)
LEMMA DoesKeepsEnv ==
    ASSUME NEW ins \in StraightInstrs, WellFormed(ins), NEW e, EnvOK(e),
           NEW o, NEW f, NEW w, Does(ins, e, o, f, w)
    PROVE  EnvOK(f)
<1>1. CASE ins.op = "WRITE" /\ f = e
  BY <1>1
<1>2. CASE Val(ins, e) # NoId /\ f = Put(e, ins.x, Val(ins, e))
  <2>1. IsPrimitive(Val(ins, e))
    BY <1>2, ValIsValue
  <2> QED
    BY <1>2, <2>1 DEF Put, EnvOK
<1> QED
  BY <1>1, <1>2 DEF Does

(* So do all of an execution. *)
LEMMA EnvAlong ==
    ASSUME NEW pgm, Form(pgm), NEW n \in Nat, 1 <= n, n <= Len(pgm),
           NEW E, NEW O, Runs(pgm, E, O, n)
    PROVE  \A k \in 1 .. n : EnvOK(E[k])
<1>1. EnvOK(<<>>)
  BY DEF EnvOK
<1>2. PICK T : T = {k \in Nat : EnvOK(E[k])}
  OBVIOUS
<1>3. 1 \in T
  BY <1>1, <1>2 DEF Runs
<1>4. ASSUME NEW k \in 1 .. n, k < n, k \in T
      PROVE  k + 1 \in T
  <2>1. pgm[k] \in StraightInstrs /\ WellFormed(pgm[k])
    BY <1>4 DEF Form
  <2>2. Does(pgm[k], E[k], O[k], E[k + 1], O[k + 1])
    BY <1>4 DEF Runs
  <2> QED
    BY <1>2, <1>4, <2>1, <2>2, DoesKeepsEnv
<1>5. \A k \in 1 .. n : k \in T
  BY <1>3, <1>4, Induction
<1> QED
  BY <1>2, <1>5

(* Does is what the machine does, when it does not fail. *)
LEMMA MoveDoes ==
    ASSUME NEW pgm, Form(pgm), NEW k \in DOMAIN pgm, k + 1 \in DOMAIN pgm,
           NEW e, EnvOK(e), NEW o
    PROVE  /\ \A f, w : Does(pgm[k], e, o, f, w) =>
                Move(pgm, At(pgm, e, o, k)) = At(pgm, f, w, k + 1)
           /\ \/ Move(pgm, At(pgm, e, o, k)).status = "error"
              \/ \E f, w : /\ Does(pgm[k], e, o, f, w)
                            /\ Move(pgm, At(pgm, e, o, k)) = At(pgm, f, w, k + 1)
<1>1. PICK ins, m : ins = pgm[k] /\ m = At(pgm, e, o, k)
  OBVIOUS
<1>2. ins.op \in Defining \/ ins.op = "WRITE"
  <2>1. k # Len(pgm)
    BY DEF Form
  <2>2. pgm[k].op # "HALT"
    BY <2>1 DEF Form
  <2>3. pgm[k] \in StraightInstrs
    BY DEF Form
  <2> QED
    BY <1>1, <2>2, <2>3 DEF StraightInstrs
<1>3. Raise(m).status = "error"
  BY <1>1 DEF Raise, At
<1>4. CASE ins.op \in Defining
  <2>1. ins.op # "WRITE"
    BY <1>4 DEF Defining
  <2>2. Move(pgm, m) = IF Val(ins, e) = NoId THEN Raise(m)
                       ELSE At(pgm, Put(e, ins.x, Val(ins, e)), o, k + 1)
    BY <1>1, <1>4, MoveOf
  <2>3. \A f, w : Does(ins, e, o, f, w) <=>
           w = o /\ Val(ins, e) # NoId /\ f = Put(e, ins.x, Val(ins, e))
    BY <1>4, <2>1 DEF Does
  <2> QED
    BY <1>1, <1>3, <2>2, <2>3
<1>5. CASE ins.op = "WRITE"
  <2>1. ins.op \notin Defining
    BY <1>5 DEF Defining
  <2>2. PICK y : y = ins.ys[1]
    OBVIOUS
  <2>3. Move(pgm, m) = IF y \in DOMAIN e
                       THEN At(pgm, e, Append(o, e[y]), k + 1)
                       ELSE Raise(m)
    BY <1>1, <1>5, <2>2, MoveOf
  <2>4. \A f, w : Does(ins, e, o, f, w) <=>
           f = e /\ y \in DOMAIN e /\ w = Append(o, e[y])
    BY <1>5, <2>1, <2>2 DEF Does
  <2> QED
    BY <1>1, <1>3, <2>3, <2>4
<1> QED
  BY <1>2, <1>4, <1>5

(* At the end of the program the machine halts. *)
LEMMA MoveHalts ==
    ASSUME NEW pgm, Form(pgm), NEW e, NEW o
    PROVE  LET m == Move(pgm, At(pgm, e, o, Len(pgm)))
           IN  m.status = "halt" /\ m.out = o
<1>1. PICK k : k = Len(pgm)
  OBVIOUS
<1>2. k \in DOMAIN pgm /\ pgm[k].op = "HALT" /\ WellFormed(pgm[k]) /\ pgm[k] \in StraightInstrs
  BY <1>1 DEF Form
<1>3. PICK m, ins : m = At(pgm, e, o, k) /\ ins = pgm[k]
  OBVIOUS
<1>4. GetInstr(pgm, m.pc) = ins
  BY <1>2, <1>3, Fetched DEF At
<1>5. ToSet(ins.ys) = {}
  BY <1>2, <1>3, ReadsOf DEF Operands
<1>6. Move(pgm, m) = [m EXCEPT !.status = "halt"]
  BY <1>2, <1>3, <1>4, <1>5 DEF Move
<1> QED
  BY <1>1, <1>3, <1>6 DEF At
-----------------------------------------------------------------------------
(* What an execution depends on. *)

(* y has the same binding in e and in f. *)
Agree(e, f, y) ==
    /\ y \in DOMAIN e <=> y \in DOMAIN f
    /\ y \in DOMAIN e => e[y] = f[y]

(* The operands of an instruction are names. *)
LEMMA OperandsIn ==
    ASSUME NEW ins \in StraightInstrs, WellFormed(ins)
    PROVE  /\ ins.ys \in Seq(Ids)
           /\ ins.op \in {"COPY", "ASSIGNC", "WRITE"} => DOMAIN ins.ys = {1}
           /\ ins.op = "ASSIGNV" => DOMAIN ins.ys = {1, 2}
<1>1. ins.ys \in Seq(Ids)
  BY DEF StraightInstrs
<1>2. PICK ys \in Seq(Ids) : ys = ins.ys
  BY <1>1
<1>3. ins.op # "CALL" => Len(ys) = Operands(ins.op)
  BY <1>2 DEF WellFormed
<1>4. DOMAIN ys = 1 .. Len(ys)
  OBVIOUS
<1>5. ins.op \in {"COPY", "ASSIGNC", "WRITE"} => Operands(ins.op) = 1
  BY DEF Operands
<1>6. ins.op = "ASSIGNV" => Operands(ins.op) = 2
  BY DEF Operands
<1>7. 1 .. 1 = {1} /\ 1 .. 2 = {1, 2}
  OBVIOUS
<1> QED
  BY <1>2, <1>3, <1>4, <1>5, <1>6, <1>7

(* What an instruction assigns depends on its operands only. *)
LEMMA ValAgrees ==
    ASSUME NEW ins \in StraightInstrs, WellFormed(ins), NEW e, NEW f,
           \A i \in DOMAIN ins.ys : Agree(e, f, ins.ys[i])
    PROVE  Val(ins, e) = Val(ins, f)
<1>1. ins.op \in {"COPY", "ASSIGNC"} => Agree(e, f, ins.ys[1])
  BY OperandsIn
<1>2. ins.op = "ASSIGNV" => Agree(e, f, ins.ys[1]) /\ Agree(e, f, ins.ys[2])
  BY OperandsIn
<1>3. CASE ins.op = "COPY"
  BY <1>1, <1>3 DEF Val, Agree
<1>4. CASE ins.op = "ASSIGNC"
  BY <1>1, <1>4 DEF Val, Agree
<1>5. CASE ins.op = "ASSIGNV"
  <2>1. 1 .. 2 = {1, 2}
    OBVIOUS
  <2> QED
    BY <1>2, <1>5, <2>1 DEF Val, Agree
<1>6. CASE ins.op \notin {"COPY", "ASSIGNC", "ASSIGNV"}
  BY <1>6 DEF Val
<1> QED
  BY <1>3, <1>4, <1>5, <1>6

(* An instruction binds nothing but the name that it defines. *)
LEMMA DoesOnly ==
    ASSUME NEW ins, NEW e, NEW o, NEW f, NEW w, Does(ins, e, o, f, w)
    PROVE  /\ \A y : y # ins.x => Agree(e, f, y)
           /\ ins.op \in Defining =>
                /\ ins.x \in DOMAIN f /\ f[ins.x] = Val(ins, e)
                /\ Val(ins, e) # NoId /\ f = Put(e, ins.x, Val(ins, e)) /\ w = o
<1>1. ins.op = "WRITE" => ins.op \notin Defining
  BY DEF Defining
<1>2. \A v, y : y # ins.x => Agree(e, Put(e, ins.x, v), y)
  BY DEF Put, Agree
<1>3. \A v : ins.x \in DOMAIN Put(e, ins.x, v) /\ Put(e, ins.x, v)[ins.x] = v
  BY DEF Put
<1>4. \A y : Agree(e, e, y)
  BY DEF Agree
<1> QED
  BY <1>1, <1>2, <1>3, <1>4 DEF Does

(* A name that no instruction from a to b defines keeps its binding. *)
LEMMA Stable ==
    ASSUME NEW pgm, NEW E, NEW O, NEW n \in Nat, Runs(pgm, E, O, n),
           NEW a \in Nat, NEW b \in Nat, 1 <= a, b <= n,
           NEW y, \A k \in a .. b : k < b => pgm[k].x # y
    PROVE  \A k \in a .. b : Agree(E[a], E[k], y)
<1>1. PICK T : T = {k \in Nat : Agree(E[a], E[k], y)}
  OBVIOUS
<1>2. a \in T
  BY <1>1 DEF Agree
<1>3. ASSUME NEW k \in a .. b, k < b, k \in T
      PROVE  k + 1 \in T
  <2>1. Does(pgm[k], E[k], O[k], E[k + 1], O[k + 1])
    BY <1>3 DEF Runs
  <2>2. Agree(E[k], E[k + 1], y)
    BY <1>3, <2>1, DoesOnly
  <2>3. Agree(E[a], E[k + 1], y)
    BY <1>1, <1>3, <2>2 DEF Agree
  <2> QED
    BY <1>1, <2>3
<1>4. \A k \in a .. b : k \in T
  BY <1>2, <1>3, Induction
<1> QED
  BY <1>1, <1>4

(* When each instruction of q does what that of p does, in the states of an *)
(* execution of p, that is an execution of q.                               *)
LEMMA InPlace ==
    ASSUME NEW p, NEW q, NEW E, NEW O, NEW n \in Nat, Runs(p, E, O, n),
           \A k \in 1 .. n - 1 :
              Does(p[k], E[k], O[k], E[k + 1], O[k + 1]) =>
                 Does(q[k], E[k], O[k], E[k + 1], O[k + 1])
    PROVE  Runs(q, E, O, n)
BY DEF Runs

(* An unused assignment can be left out. *)
Mentions(ins, x) == ins.x = x \/ \E i \in DOMAIN ins.ys : ins.ys[i] = x

Drop(pgm, h) == [k \in 1 .. Len(pgm) - 1 |-> IF k < h THEN pgm[k] ELSE pgm[k + 1]]

(* The environment e, with the binding that x has in e0. *)
Mask(e, x, e0) ==
    [y \in (DOMAIN e \ {x}) \cup (DOMAIN e0 \cap {x}) |-> IF y = x THEN e0[x] ELSE e[y]]

(* What is bound to x does not matter to an instruction that does not mention x. *)
LEMMA MaskDoes ==
    ASSUME NEW ins \in StraightInstrs, WellFormed(ins), NEW x, ~ Mentions(ins, x),
           NEW e, NEW o, NEW f, NEW w, Does(ins, e, o, f, w), NEW e0
    PROVE  Does(ins, Mask(e, x, e0), o, Mask(f, x, e0), w)
<1>1. PICK g : g = Mask(e, x, e0)
  OBVIOUS
<1>2. \A y : y # x => Agree(e, g, y)
  BY <1>1 DEF Mask, Agree
<1>3. \A i \in DOMAIN ins.ys : Agree(e, g, ins.ys[i])
  BY <1>2 DEF Mentions
<1>4. Val(ins, g) = Val(ins, e)
  BY <1>3, ValAgrees
<1>5. \A z, v : z # x => Mask(Put(e, z, v), x, e0) = Put(g, z, v)
  <2>1. ASSUME NEW z, NEW v, z # x
        PROVE  Mask(Put(e, z, v), x, e0) = Put(g, z, v)
    BY <1>1, <2>1 DEF Mask, Put
  <2> QED
    BY <2>1
<1>6. CASE ins.op = "WRITE" /\ f = e
  <2>1. Agree(e, g, ins.ys[1])
    BY <1>3, <1>6, OperandsIn
  <2>2. ins.op \notin Defining
    BY <1>6 DEF Defining
  <2> QED
    BY <1>1, <1>6, <2>1, <2>2 DEF Does, Agree
<1>7. CASE ins.op \in Defining
  <2>1. w = o /\ Val(ins, e) # NoId /\ f = Put(e, ins.x, Val(ins, e))
    BY <1>7, DoesOnly
  <2>2. ins.x # x
    BY DEF Mentions
  <2>3. Mask(f, x, e0) = Put(g, ins.x, Val(ins, g))
    BY <1>4, <1>5, <2>1, <2>2
  <2> QED
    BY <1>1, <1>4, <1>7, <2>1, <2>3 DEF Does
<1> QED
  BY <1>6, <1>7 DEF Does

(* Without the instruction at h, whose result nothing behind h mentions, the *)
(* program writes the same.                                                  *)
LEMMA DropRuns ==
    ASSUME NEW q, Form(q), NEW E, NEW O, Runs(q, E, O, Len(q)),
           NEW h \in DOMAIN q, h < Len(q), q[h].op \in Defining,
           \A k \in DOMAIN q : k > h => ~ Mentions(q[k], q[h].x)
    PROVE  Writes(Drop(q, h), O[Len(q)])
<1>1. PICK n \in Nat : n = Len(q) /\ DOMAIN q = 1 .. n
  BY DEF Form
<1>2. PICK x, r : x = q[h].x /\ r = Drop(q, h)
  OBVIOUS
<1>3. h \in Nat /\ 1 <= h /\ h < n
  BY <1>1
<1>4. PICK F : F = [k \in Nat |-> IF k < h THEN E[k] ELSE Mask(E[k + 1], x, E[h])]
  OBVIOUS
<1>5. PICK P : P = [k \in Nat |-> IF k < h THEN O[k] ELSE O[k + 1]]
  OBVIOUS
<1>6. \A k \in Nat : k < h => F[k] = E[k] /\ P[k] = O[k]
  BY <1>4, <1>5
<1>7. \A k \in Nat : ~ (k < h) => F[k] = Mask(E[k + 1], x, E[h]) /\ P[k] = O[k + 1]
  BY <1>4, <1>5
<1>8. Does(q[h], E[h], O[h], E[h + 1], O[h + 1])
  BY <1>1, <1>3 DEF Runs
<1>9. \A k \in 1 .. n : EnvOK(E[k])
  BY <1>1, <1>3, EnvAlong
<1>10. F[h] = E[h] /\ P[h] = O[h]
  <2>1. E[h + 1] = Put(E[h], x, Val(q[h], E[h])) /\ O[h + 1] = O[h]
    BY <1>2, <1>8, DoesOnly
  <2>2. \A v, e : EnvOK(e) => Mask(Put(e, x, v), x, e) = e
    <3>1. ASSUME NEW v, NEW e, EnvOK(e)
          PROVE  Mask(Put(e, x, v), x, e) = e
      <4>1. (DOMAIN Put(e, x, v) \ {x}) \cup (DOMAIN e \cap {x}) = DOMAIN e
        BY DEF Put
      <4>2. \A y \in DOMAIN e : y # x => Put(e, x, v)[y] = e[y]
        BY DEF Put
      <4>3. Mask(Put(e, x, v), x, e) = [y \in DOMAIN e |-> e[y]]
        BY <4>1, <4>2 DEF Mask
      <4> QED
        BY <3>1, <4>3 DEF EnvOK
    <3> QED
      BY <3>1
  <2>3. EnvOK(E[h])
    BY <1>3, <1>9
  <2> QED
    BY <1>3, <1>4, <1>5, <2>1, <2>2, <2>3
<1>11. Runs(r, F, P, n - 1)
  <2>1. F[1] = <<>> /\ P[1] = <<>>
    <3>1. E[1] = <<>> /\ O[1] = <<>>
      BY DEF Runs
    <3>2. CASE h = 1
      BY <1>10, <3>1, <3>2
    <3>3. CASE 1 < h
      BY <1>4, <1>5, <3>1, <3>3
    <3> QED
      BY <1>3, <3>2, <3>3
  <2>2. ASSUME NEW k \in 1 .. n - 2
        PROVE  Does(r[k], F[k], P[k], F[k + 1], P[k + 1])
    <3>1. k \in 1 .. n - 1 /\ k + 1 \in 1 .. n - 1 /\ k \in Nat /\ k + 1 \in Nat
      BY <1>3
    <3>2. CASE k < h
      <4>1. Does(q[k], E[k], O[k], E[k + 1], O[k + 1])
        BY <1>1, <3>1 DEF Runs
      <4>2. F[k] = E[k] /\ P[k] = O[k] /\ r[k] = q[k]
        BY <1>1, <1>2, <1>4, <1>5, <3>1, <3>2 DEF Drop
      <4>3. F[k + 1] = E[k + 1] /\ P[k + 1] = O[k + 1]
        <5>1. k + 1 < h \/ k + 1 = h
          BY <1>3, <3>1, <3>2
        <5> QED
          BY <1>10, <1>6, <3>1, <5>1
      <4> QED
        BY <4>1, <4>2, <4>3
    <3>3. CASE k >= h
      <4>1. Does(q[k + 1], E[k + 1], O[k + 1], E[k + 1 + 1], O[k + 1 + 1])
        BY <1>1, <3>1 DEF Runs
      <4>2. r[k] = q[k + 1]
        BY <1>1, <1>2, <1>3, <3>1, <3>3 DEF Drop
      <4>3. F[k] = Mask(E[k + 1], x, E[h]) /\ P[k] = O[k + 1]
        BY <1>3, <1>7, <3>1, <3>3
      <4>4. F[k + 1] = Mask(E[k + 1 + 1], x, E[h]) /\ P[k + 1] = O[k + 1 + 1]
        <5>1. ~ (k + 1 < h)
          BY <1>3, <3>1, <3>3
        <5> QED
          BY <1>7, <3>1, <5>1
      <4>5. q[k + 1] \in StraightInstrs /\ WellFormed(q[k + 1]) /\ ~ Mentions(q[k + 1], x)
        BY <1>1, <1>2, <1>3, <3>1, <3>3 DEF Form
      <4> QED
        BY <4>1, <4>2, <4>3, <4>4, <4>5, MaskDoes
    <3> QED
      BY <1>3, <3>2, <3>3
  <2> QED
    BY <1>3, <2>1, <2>2 DEF Runs
<1>12. Len(r) = n - 1
  BY <1>1, <1>2, <1>3 DEF Drop
<1>13. P[n - 1] = O[n]
  BY <1>3, <1>5
<1> QED
  BY <1>1, <1>2, <1>11, <1>12, <1>13 DEF Writes
-----------------------------------------------------------------------------
(* What the optimizer makes of one instruction. *)

(* What the optimizer may make of instruction a in its place. *)
Alters(a, b) ==
    /\ b \in StraightInstrs /\ WellFormed(b)
    /\ b.l = a.l /\ b.x = a.x
    /\ b.op = "HALT" <=> a.op = "HALT"
    /\ b.op = "COPY" => b = a

IdFor(ins, x, y) ==
    IF ins.op \in {"RETURN", "WRITE", "ASSIGNV", "ASSIGNC"}
    THEN [ins EXCEPT !.ys = ReplaceFirst(@, x, y)] ELSE ins
IntFor(ins, x, n) ==
    CASE ins.op = "COPY" /\ ins.ys[1] = x -> COPYC(ins.l, ins.x, n)
      [] ins.op = "ASSIGNV" /\ ins.ys[2] = x ->
           ASSIGNC(ins.l, ins.x, ins.bop, ins.ys[1], n)
      [] OTHER -> ins
StrFor(ins, x, s) ==
    IF ins.op = "COPY" /\ ins.ys[1] = x THEN COPYS(ins.l, ins.x, s) ELSE ins

(* An instruction by its fields, of which nothing else is set. *)
LEMMA FieldsOf ==
    ASSUME NEW ins \in StraightInstrs
    PROVE  /\ ins.l \in Seq(Int) /\ ins.x \in Ids \cup {NoId} /\ ins.ys \in Seq(Ids)
           /\ ins.bop \in {"none", "ADD", "SUB", "LT", "EQ"} /\ ins.c \in Constants
           /\ ins.op \in Defining \cup {"WRITE", "HALT"}
           /\ ins = [l |-> ins.l, op |-> ins.op, x |-> ins.x, ys |-> ins.ys,
                     bop |-> ins.bop, c |-> ins.c, to |-> <<>>, body |-> <<>>]
BY DEF StraightInstrs

(* The instructions the optimizer makes, field by field. *)
LEMMA Made ==
    ASSUME NEW l, NEW x, NEW n, NEW bop, NEW y
    PROVE  /\ COPYC(l, x, n) = [l |-> l, op |-> "COPYC", x |-> x, ys |-> <<>>,
                 bop |-> "none", c |-> n, to |-> <<>>, body |-> <<>>]
           /\ COPYS(l, x, n) = [l |-> l, op |-> "COPYS", x |-> x, ys |-> <<>>,
                 bop |-> "none", c |-> n, to |-> <<>>, body |-> <<>>]
           /\ ASSIGNC(l, x, bop, y, n) = [l |-> l, op |-> "ASSIGNC", x |-> x, ys |-> <<y>>,
                 bop |-> bop, c |-> n, to |-> <<>>, body |-> <<>>]
           /\ WRITE(l, y) = [l |-> l, op |-> "WRITE", x |-> NoId, ys |-> <<y>>,
                 bop |-> "none", c |-> NONE, to |-> <<>>, body |-> <<>>]
<1>1. \A op, ys, m :
        [Ins(l, op, x, ys) EXCEPT !.c = m] =
           [l |-> l, op |-> op, x |-> x, ys |-> ys,
            bop |-> "none", c |-> m, to |-> <<>>, body |-> <<>>]
  <2>1. ASSUME NEW op, NEW ys, NEW m
        PROVE  [Ins(l, op, x, ys) EXCEPT !.c = m] =
                 [l |-> l, op |-> op, x |-> x, ys |-> ys,
                  bop |-> "none", c |-> m, to |-> <<>>, body |-> <<>>]
    <3>1. PICK r : r = Ins(l, op, x, ys)
      OBVIOUS
    <3>2. r = [l |-> l, op |-> op, x |-> x, ys |-> ys, bop |-> "none", c |-> NONE,
               to |-> <<>>, body |-> <<>>]
      BY <3>1 DEF Ins
    <3>3. [r EXCEPT !.c = m] = [l |-> l, op |-> op, x |-> x, ys |-> ys,
                  bop |-> "none", c |-> m, to |-> <<>>, body |-> <<>>]
      BY <3>2
    <3> QED
      BY <3>1, <3>3
  <2> QED
    BY <2>1
<1>2. COPYC(l, x, n) = [l |-> l, op |-> "COPYC", x |-> x, ys |-> <<>>,
          bop |-> "none", c |-> n, to |-> <<>>, body |-> <<>>]
  BY <1>1 DEF COPYC
<1>3. COPYS(l, x, n) = [l |-> l, op |-> "COPYS", x |-> x, ys |-> <<>>,
          bop |-> "none", c |-> n, to |-> <<>>, body |-> <<>>]
  BY <1>1 DEF COPYS
<1>4. ASSIGNC(l, x, bop, y, n) = [l |-> l, op |-> "ASSIGNC", x |-> x, ys |-> <<y>>,
          bop |-> bop, c |-> n, to |-> <<>>, body |-> <<>>]
  <2>1. PICK r : r = Ins(l, "ASSIGNC", x, <<y>>)
    OBVIOUS
  <2>2. r = [l |-> l, op |-> "ASSIGNC", x |-> x, ys |-> <<y>>, bop |-> "none", c |-> NONE,
             to |-> <<>>, body |-> <<>>]
    BY <2>1 DEF Ins
  <2>3. PICK u : u = [r EXCEPT !.bop = bop]
    OBVIOUS
  <2>4. u = [l |-> l, op |-> "ASSIGNC", x |-> x, ys |-> <<y>>, bop |-> bop, c |-> NONE,
             to |-> <<>>, body |-> <<>>]
    BY <2>2, <2>3
  <2>5. [r EXCEPT !.bop = bop, !.c = n] = [u EXCEPT !.c = n]
    BY Zenon, <2>3
  <2>6. [u EXCEPT !.c = n] = [l |-> l, op |-> "ASSIGNC", x |-> x, ys |-> <<y>>,
             bop |-> bop, c |-> n, to |-> <<>>, body |-> <<>>]
    BY <2>4
  <2> QED
    BY <2>1, <2>5, <2>6 DEF ASSIGNC
<1>5. WRITE(l, y) = [l |-> l, op |-> "WRITE", x |-> NoId, ys |-> <<y>>,
          bop |-> "none", c |-> NONE, to |-> <<>>, body |-> <<>>]
  BY DEF WRITE, Ins
<1> QED
  BY <1>2, <1>3, <1>4, <1>5

(* The constant instruction that takes the place of a COPY. *)
LEMMA CopyBecomes ==
    ASSUME NEW ins \in StraightInstrs, WellFormed(ins), ins.op = "COPY",
           NEW c \in Constants,
           NEW j, j \in {COPYC(ins.l, ins.x, c), COPYS(ins.l, ins.x, c)}
    PROVE  /\ Alters(ins, j) /\ j.op \in {"COPYC", "COPYS"}
           /\ j.op = (IF j = COPYC(ins.l, ins.x, c) THEN "COPYC" ELSE "COPYS")
           /\ j.c = c /\ \A t : ~ Reads(j, t)
           /\ \A e, o, f, w : /\ ins.ys[1] \in DOMAIN e => e[ins.ys[1]] = c
                              /\ Does(ins, e, o, f, w)
                              => Does(j, e, o, f, w)
<1>1. PICK op \in {"COPYC", "COPYS"} :
        j = [l |-> ins.l, op |-> op, x |-> ins.x, ys |-> <<>>,
             bop |-> "none", c |-> c, to |-> <<>>, body |-> <<>>]
  BY Made
<1>2. ins.x \in Ids /\ ins.l \in Seq(Int) /\ ins.op \in Defining
  BY FieldsOf DEF WellFormed, Defining
<1>3. j \in StraightInstrs
  BY <1>1, <1>2 DEF StraightInstrs, Defining
<1>4. Operands(op) = 0 /\ op \in Defining /\ op \notin Reading
  BY DEF Operands, Defining, Reading
<1>5. WellFormed(j)
  BY <1>1, <1>2, <1>4 DEF WellFormed
<1>6. Alters(ins, j)
  BY <1>1, <1>3, <1>5 DEF Alters
<1>7. ASSUME NEW e, NEW o, NEW f, NEW w, Does(ins, e, o, f, w),
             ins.ys[1] \in DOMAIN e => e[ins.ys[1]] = c
      PROVE  Does(j, e, o, f, w)
  <2>1. Val(ins, e) # NoId /\ f = Put(e, ins.x, Val(ins, e)) /\ w = o
    BY <1>2, <1>7, DoesOnly
  <2>2. Val(ins, e) = c
    BY <1>7, <2>1 DEF Val
  <2>3. Val(j, e) = c
    BY <1>1 DEF Val
  <2> QED
    BY <1>1, <1>4, <2>1, <2>2, <2>3 DEF Does
<1>8. COPYC(ins.l, ins.x, c) # COPYS(ins.l, ins.x, c)
  BY Made
<1> QED
  BY <1>1, <1>4, <1>6, <1>7, <1>8, Made DEF Reads

(* id2id_o at one instruction: y is read for x, and gives the same when x and y *)
(* have the same value (optimizer.ml:9-38).                                     *)
LEMMA IdForOK ==
    ASSUME NEW ins \in StraightInstrs, WellFormed(ins), NEW x \in Ids, NEW y \in Ids
    PROVE  LET j == IdFor(ins, x, y)
           IN  /\ Alters(ins, j) /\ j.op = ins.op
               /\ \A t : Reads(j, t) => Reads(ins, t) \/ t = y
               /\ \A e, o, f, w :
                    /\ Reads(ins, x) /\ x \in DOMAIN e => y \in DOMAIN e /\ e[y] = e[x]
                    /\ Does(ins, e, o, f, w)
                    => Does(j, e, o, f, w)
<1>1. PICK j : j = IdFor(ins, x, y)
  OBVIOUS
<1>2. CASE ins.op \notin {"WRITE", "ASSIGNV", "ASSIGNC"}
  <2>1. ins.op # "RETURN"
    BY FieldsOf DEF Defining
  <2>2. j = ins
    BY <1>1, <1>2, <2>1 DEF IdFor
  <2> QED
    BY <1>1, <2>2 DEF Alters
<1>3. CASE ins.op \in {"WRITE", "ASSIGNV", "ASSIGNC"}
  <2>1. PICK ys \in Seq(Ids) : ys = ins.ys
    BY FieldsOf
  <2>2. PICK zs : zs = ReplaceFirst(ys, x, y)
    OBVIOUS
  <2>3. DOMAIN zs = DOMAIN ys
    BY <2>2 DEF ReplaceFirst
  <2>4. \A i \in DOMAIN ys : zs[i] = ys[i] \/ (ys[i] = x /\ zs[i] = y)
    BY <2>2 DEF ReplaceFirst
  <2>5. zs \in Seq(Ids) /\ Len(zs) = Len(ys)
    <3>1. PICK n \in Nat : n = Len(ys) /\ DOMAIN ys = 1 .. n
      BY <2>1
    <3>2. zs = [i \in 1 .. n |-> zs[i]]
      BY <2>2, <3>1 DEF ReplaceFirst
    <3>3. \A i \in 1 .. n : zs[i] \in Ids
      BY <2>4, <3>1
    <3> QED
      BY <3>1, <3>2, <3>3
  <2>6. j = [l |-> ins.l, op |-> ins.op, x |-> ins.x, ys |-> zs,
             bop |-> ins.bop, c |-> ins.c, to |-> <<>>, body |-> <<>>]
    <3>1. j = [ins EXCEPT !.ys = zs]
      BY <1>1, <1>3, <2>1, <2>2 DEF IdFor
    <3>2. PICK l, op, x0, bop, c : /\ l = ins.l /\ op = ins.op /\ x0 = ins.x
                                   /\ bop = ins.bop /\ c = ins.c
      OBVIOUS
    <3>3. ins = [l |-> l, op |-> op, x |-> x0, ys |-> ys, bop |-> bop, c |-> c,
                 to |-> <<>>, body |-> <<>>]
      BY <2>1, <3>2, FieldsOf
    <3>4. [ins EXCEPT !.ys = zs] =
            [l |-> l, op |-> op, x |-> x0, ys |-> zs, bop |-> bop, c |-> c,
             to |-> <<>>, body |-> <<>>]
      BY <3>3
    <3> QED
      BY <3>1, <3>2, <3>4
  <2>7. j \in StraightInstrs
    BY <2>5, <2>6, FieldsOf DEF StraightInstrs
  <2>8. WellFormed(j)
    BY <1>3, <2>1, <2>5, <2>6 DEF WellFormed
  <2>9. Alters(ins, j)
    BY <1>3, <2>6, <2>7, <2>8 DEF Alters
  <2>10. \A t : Reads(j, t) => Reads(ins, t) \/ t = y
    BY <2>1, <2>3, <2>4, <2>6 DEF Reads
  <2>11. ASSUME NEW e, NEW o, NEW f, NEW w, Does(ins, e, o, f, w),
                Reads(ins, x) /\ x \in DOMAIN e => y \in DOMAIN e /\ e[y] = e[x]
         PROVE  Does(j, e, o, f, w)
    <3>1. \A i \in DOMAIN ys : ys[i] \in DOMAIN e => zs[i] \in DOMAIN e /\ e[zs[i]] = e[ys[i]]
      BY <1>3, <2>1, <2>4, <2>11 DEF Reads, Reading
    <3>2. CASE ins.op = "WRITE"
      <4>1. ins.op \notin Defining /\ 1 \in DOMAIN ys
        BY <2>1, <3>2, OperandsIn DEF Defining
      <4> QED
        BY <2>1, <2>6, <2>11, <3>1, <3>2, <4>1 DEF Does
    <3>3. CASE ins.op \in {"ASSIGNV", "ASSIGNC"}
      <4>1. ins.op \in Defining
        BY <3>3 DEF Defining
      <4>2. Val(ins, e) # NoId /\ f = Put(e, ins.x, Val(ins, e)) /\ w = o
        BY <2>11, <4>1, DoesOnly
      <4>3. CASE ins.op = "ASSIGNC"
        <5>1. 1 \in DOMAIN ys
          BY <2>1, <4>3, OperandsIn
        <5>2. ys[1] \in DOMAIN e
          BY <2>1, <4>2, <4>3 DEF Val
        <5>3. Val(j, e) = Val(ins, e)
          BY <2>1, <2>6, <3>1, <4>3, <5>1, <5>2 DEF Val
        <5> QED
          BY <2>6, <4>1, <4>2, <5>3 DEF Does
      <4>4. CASE ins.op = "ASSIGNV"
        <5>1. 1 \in DOMAIN ys /\ 2 \in DOMAIN ys /\ 1 .. 2 = {1, 2}
          BY <2>1, <4>4, OperandsIn
        <5>2. ys[1] \in DOMAIN e /\ ys[2] \in DOMAIN e
          BY <2>1, <4>2, <4>4, <5>1 DEF Val
        <5>3. Val(j, e) = Val(ins, e)
          BY <2>1, <2>6, <3>1, <4>4, <5>1, <5>2 DEF Val
        <5> QED
          BY <2>6, <4>1, <4>2, <5>3 DEF Does
      <4> QED
        BY <3>3, <4>3, <4>4
    <3> QED
      BY <1>3, <3>2, <3>3
  <2> QED
    BY <1>1, <2>6, <2>9, <2>10, <2>11
<1> QED
  BY <1>2, <1>3

(* id2int at one instruction: n takes the place of x, which has the value n. *)
LEMMA IntForOK ==
    ASSUME NEW ins \in StraightInstrs, WellFormed(ins), NEW x \in Ids, NEW n \in Constants
    PROVE  LET j == IntFor(ins, x, n)
           IN  /\ Alters(ins, j)
               /\ j.op # ins.op => j.op \in {"COPYC", "ASSIGNC"}
               /\ \A t : Reads(j, t) => Reads(ins, t)
               /\ \A e, o, f, w :
                    /\ x \in DOMAIN e => e[x] = n
                    /\ Does(ins, e, o, f, w)
                    => Does(j, e, o, f, w)
<1>1. PICK j : j = IntFor(ins, x, n)
  OBVIOUS
<1>2. CASE ins.op = "COPY" /\ ins.ys[1] = x
  <2>1. j = COPYC(ins.l, ins.x, n)
    BY <1>1, <1>2 DEF IntFor
  <2> QED
    BY <1>1, <1>2, <2>1, CopyBecomes
<1>3. CASE ins.op = "ASSIGNV" /\ ins.ys[2] = x
  <2>1. j = ASSIGNC(ins.l, ins.x, ins.bop, ins.ys[1], n)
    BY <1>1, <1>3 DEF IntFor
  <2>2. PICK y \in Ids : y = ins.ys[1] /\ 1 \in DOMAIN ins.ys
    BY <1>3, OperandsIn
  <2>3. j = [l |-> ins.l, op |-> "ASSIGNC", x |-> ins.x, ys |-> <<y>>,
             bop |-> ins.bop, c |-> n, to |-> <<>>, body |-> <<>>]
    BY <2>1, <2>2, Made
  <2>4. j \in StraightInstrs
    BY <2>3, FieldsOf DEF StraightInstrs, Defining
  <2>5. Operands("ASSIGNC") = 1 /\ "ASSIGNC" \in Defining /\ "ASSIGNV" \in Defining
    BY DEF Operands, Defining
  <2>6. WellFormed(j)
    BY <1>3, <2>3, <2>5 DEF WellFormed
  <2>7. Alters(ins, j)
    BY <1>3, <2>3, <2>4, <2>6 DEF Alters
  <2>8. \A t : Reads(j, t) => Reads(ins, t)
    BY <1>3, <2>2, <2>3 DEF Reads, Reading
  <2>9. ASSUME NEW e, NEW o, NEW f, NEW w, Does(ins, e, o, f, w),
               x \in DOMAIN e => e[x] = n
        PROVE  Does(j, e, o, f, w)
    <3>1. Val(ins, e) # NoId /\ f = Put(e, ins.x, Val(ins, e)) /\ w = o
      BY <1>3, <2>5, <2>9, DoesOnly
    <3>2. y \in DOMAIN e /\ x \in DOMAIN e
      BY <1>3, <2>2, <3>1 DEF Val
    <3>3. Val(ins, e) = EvalBinary(e[y], ins.bop, e[x])
      BY <1>3, <2>2, <3>1, <3>2 DEF Val
    <3>4. Val(j, e) = EvalBinary(e[y], ins.bop, n)
      BY <2>3, <3>2 DEF Val
    <3> QED
      BY <2>3, <2>5, <2>9, <3>1, <3>2, <3>3, <3>4 DEF Does
  <2> QED
    BY <1>1, <2>3, <2>7, <2>8, <2>9
<1>4. CASE ~ (ins.op = "COPY" /\ ins.ys[1] = x) /\ ~ (ins.op = "ASSIGNV" /\ ins.ys[2] = x)
  <2>1. j = ins
    BY <1>1, <1>4 DEF IntFor
  <2> QED
    BY <1>1, <2>1 DEF Alters
<1> QED
  BY <1>2, <1>3, <1>4

(* The same of a string, which is put only where it is copied. *)
LEMMA StrForOK ==
    ASSUME NEW ins \in StraightInstrs, WellFormed(ins), NEW x \in Ids, NEW s \in Constants
    PROVE  LET j == StrFor(ins, x, s)
           IN  /\ Alters(ins, j)
               /\ j # ins => /\ ins.op = "COPY" /\ ins.ys[1] = x
                             /\ j.op = "COPYS" /\ j.c = s
               /\ \A t : Reads(j, t) => Reads(ins, t)
               /\ \A e, o, f, w :
                    /\ x \in DOMAIN e => e[x] = s
                    /\ Does(ins, e, o, f, w)
                    => Does(j, e, o, f, w)
<1>1. PICK j : j = StrFor(ins, x, s)
  OBVIOUS
<1>2. CASE ins.op = "COPY" /\ ins.ys[1] = x
  <2>1. j = COPYS(ins.l, ins.x, s)
    BY <1>1, <1>2 DEF StrFor
  <2>2. j # COPYC(ins.l, ins.x, s)
    BY <2>1, Made
  <2> QED
    BY <1>1, <1>2, <2>1, <2>2, CopyBecomes
<1>3. CASE ~ (ins.op = "COPY" /\ ins.ys[1] = x)
  <2>1. j = ins
    BY <1>1, <1>3 DEF StrFor
  <2> QED
    BY <1>1, <2>1 DEF Alters
<1> QED
  BY <1>2, <1>3

(* replace_same_str at one WRITE: x is written instead of what has its value. *)
LEMMA WriteForOK ==
    ASSUME NEW ins \in StraightInstrs, WellFormed(ins), ins.op = "WRITE", NEW x \in Ids
    PROVE  LET j == WRITE(ins.l, x)
           IN  /\ Alters(ins, j) /\ j.op = "WRITE"
               /\ DOMAIN j.ys = {1} /\ j.ys[1] = x
               /\ \A t : Reads(j, t) => t = x
               /\ \A e, o, f, w :
                    /\ x \in DOMAIN e /\ e[x] = e[ins.ys[1]]
                    /\ Does(ins, e, o, f, w)
                    => Does(j, e, o, f, w)
<1>1. PICK j : j = WRITE(ins.l, x)
  OBVIOUS
<1>2. j = [l |-> ins.l, op |-> "WRITE", x |-> NoId, ys |-> <<x>>,
           bop |-> "none", c |-> NONE, to |-> <<>>, body |-> <<>>]
  BY <1>1, Made
<1>3. ins.x = NoId /\ NoId \notin Ids /\ NONE \in Constants
  BY FieldsOf, Names DEF WellFormed, Ids, Constants, Defining
<1>4. j \in StraightInstrs
  BY <1>2, <1>3, FieldsOf DEF StraightInstrs
<1>5. Operands("WRITE") = 1 /\ "WRITE" \notin Defining
  BY DEF Operands, Defining
<1>6. WellFormed(j)
  BY <1>2, <1>3, <1>5 DEF WellFormed, Ids
<1>7. Alters(ins, j)
  BY <1>2, <1>3, <1>4, <1>6 DEF Alters
<1>8. \A e, o, f, w : /\ x \in DOMAIN e /\ e[x] = e[ins.ys[1]]
                      /\ Does(ins, e, o, f, w)
                      => Does(j, e, o, f, w)
  BY <1>2, <1>5 DEF Does
<1> QED
  BY <1>1, <1>2, <1>7, <1>8 DEF Reads
-----------------------------------------------------------------------------
(* Programs changed in place. *)

Keeps(p, q) == \A out : Writes(p, out) => Writes(q, out)

(* After place h a user's name is assigned by a COPY, or a COPYC made of one. *)
Late(pgm, h) ==
    \A k \in DOMAIN pgm : k > h /\ pgm[k].x \in Users => pgm[k].op \in {"COPY", "COPYC"}

(* No later copy of the string that a user's name gets at h is only written. *)
HeadString(pgm, h) ==
    h \in DOMAIN pgm /\ pgm[h].op = "COPYS" /\ pgm[h].x \in Users =>
        \A k \in DOMAIN pgm :
          k > h /\ pgm[k].op = "COPYS" /\ pgm[k].c = pgm[h].c => ~ OnlyWritten(pgm, k)

(* The program while the pass is at its place h. *)
OptOK(pgm, h) ==
    /\ Form(pgm)
    /\ ReadInTime(pgm, h)
    /\ Late(pgm, h)
    /\ HeadString(pgm, h)

Behind(pgm, h, tail) ==
    /\ tail \in Seq(StraightInstrs) /\ Len(tail) = Len(pgm) - h
    /\ \A k \in 1 .. Len(pgm) - h : tail[k] = pgm[k + h]

(* What the pass makes of p, in place, at its place h. *)
Rewrites(p, q, h) ==
    /\ q \in Seq(StraightInstrs) /\ Len(q) = Len(p)
    /\ \A k \in DOMAIN p : k <= h => q[k] = p[k]
    /\ \A k \in DOMAIN p : Alters(p[k], q[k])
    /\ \A k \in DOMAIN p : \A t \in Temps : Reads(q[k], t) =>
          Reads(p[k], t) \/ \A i \in DOMAIN p : i > h => p[i].x # t
    /\ Late(q, h + 1)
    /\ HeadString(q, h + 1)
    /\ Keeps(p, q)

(* x is not mentioned after place h. *)
Unused(pgm, h, x) == \A k \in DOMAIN pgm : k > h => ~ Mentions(pgm[k], x)

(* The result of one call of a case of the pass. *)
Result(p, q, h, done) ==
    /\ Behind(q, h, done.rest)
    /\ \/ done.kept = <<p[h]>>
       \/ done.kept = <<>> /\ p[h].op \in Defining /\ Unused(q, h, p[h].x)

(* What Form says of places and lengths. *)
LEMMA FormFacts ==
    ASSUME NEW pgm, Form(pgm)
    PROVE  /\ pgm \in Seq(StraightInstrs) /\ Len(pgm) \in Nat /\ 1 <= Len(pgm)
           /\ DOMAIN pgm = 1 .. Len(pgm)
           /\ \A k \in DOMAIN pgm : pgm[k] \in StraightInstrs /\ WellFormed(pgm[k])
           /\ \A k \in DOMAIN pgm : pgm[k].op # "HALT" => k < Len(pgm)
<1>1. pgm \in Seq(StraightInstrs) /\ pgm # <<>>
  BY DEF Form
<1>2. PICK n \in Nat : n = Len(pgm) /\ DOMAIN pgm = 1 .. n /\ n # 0
  BY <1>1
<1>3. \A k \in DOMAIN pgm : pgm[k].op # "HALT" => k # n
  BY <1>2 DEF Form
<1> QED
  BY <1>1, <1>2, <1>3 DEF Form

(* What is made of an instruction in two steps could be made in one. *)
LEMMA AltersTwice ==
    ASSUME NEW a, NEW b, NEW c, Alters(a, b), Alters(b, c)
    PROVE  Alters(a, c)
BY DEF Alters

(* An instruction may stay what it is. *)
LEMMA AltersNot ==
    ASSUME NEW a \in StraightInstrs, WellFormed(a)
    PROVE  Alters(a, a)
BY DEF Alters

(* A function on 1 .. m is a sequence of length m. *)
LEMMA IsSeq ==
    ASSUME NEW S, NEW m \in Nat, NEW f, f = [i \in 1 .. m |-> f[i]],
           \A i \in 1 .. m : f[i] \in S
    PROVE  f \in Seq(S) /\ Len(f) = m
OBVIOUS

(* What is defined at h keeps its value when nothing else defines it. *)
LEMMA HeadKeeps ==
    ASSUME NEW pgm, Form(pgm), NEW E, NEW O, Runs(pgm, E, O, Len(pgm)),
           NEW h \in DOMAIN pgm, pgm[h].op \in Defining,
           NEW b \in DOMAIN pgm, h < b,
           \A m \in DOMAIN pgm : m > h => pgm[m].x # pgm[h].x
    PROVE  /\ pgm[h].x \in DOMAIN E[b]
           /\ E[b][pgm[h].x] = Val(pgm[h], E[h])
           /\ Val(pgm[h], E[h]) # NoId
<1>1. PICK n \in Nat : n = Len(pgm) /\ DOMAIN pgm = 1 .. n
  BY FormFacts
<1>2. h \in Nat /\ 1 <= h /\ h < n /\ b \in Nat /\ b <= n /\ h + 1 <= b /\ h + 1 \in Nat
  BY <1>1
<1>3. PICK x, v : x = pgm[h].x /\ v = Val(pgm[h], E[h])
  OBVIOUS
<1>4. Does(pgm[h], E[h], O[h], E[h + 1], O[h + 1])
  BY <1>1, <1>2 DEF Runs
<1>5. x \in DOMAIN E[h + 1] /\ E[h + 1][x] = v /\ v # NoId
  BY <1>3, <1>4, DoesOnly
<1>6. \A k \in h + 1 .. b : k < b => pgm[k].x # x
  BY <1>1, <1>2, <1>3
<1>7. Agree(E[h + 1], E[b], x)
  <2>1. Runs(pgm, E, O, n) /\ 1 <= h + 1 /\ b \in h + 1 .. b
    BY <1>1, <1>2
  <2> QED
    BY <1>2, <1>6, <2>1, Stable
<1> QED
  BY <1>3, <1>5, <1>7 DEF Agree

(* A change in place is sound when each instruction still does the same. *)
LEMMA KeepsInPlace ==
    ASSUME NEW p, Form(p), NEW q, Len(q) = Len(p),
           \A E, O : Runs(p, E, O, Len(p)) =>
              \A k \in DOMAIN p : k < Len(p) =>
                 (Does(p[k], E[k], O[k], E[k + 1], O[k + 1]) =>
                    Does(q[k], E[k], O[k], E[k + 1], O[k + 1]))
    PROVE  Keeps(p, q)
<1>1. PICK n \in Nat : n = Len(p) /\ DOMAIN p = 1 .. n
  BY FormFacts
<1>2. ASSUME NEW E, NEW O, Runs(p, E, O, n)
      PROVE  Runs(q, E, O, n)
  <2>1. \A k \in 1 .. n - 1 : k \in DOMAIN p /\ k < n
    BY <1>1
  <2> QED
    BY <1>1, <1>2, <2>1, InPlace
<1> QED
  BY <1>1, <1>2 DEF Keeps, Writes

(* In-place changes behind h that make no COPYS leave Late and HeadString. *)
LEMMA LateAfter ==
    ASSUME NEW p, Form(p), NEW q, DOMAIN q = DOMAIN p, NEW h \in DOMAIN p, Late(p, h),
           \A k \in DOMAIN p : k > h =>
              Alters(p[k], q[k]) /\ (q[k].op = "COPYS" => p[k].op = "COPYS")
    PROVE  Late(q, h) /\ Late(q, h + 1) /\ HeadString(q, h + 1)
<1>1. DOMAIN p \subseteq Nat
  BY FormFacts
<1>2. h \in Nat /\ h + 1 > h
  BY <1>1
<1>3. \A k \in DOMAIN q : k > h /\ q[k].x \in Users =>
        p[k].x \in Users /\ q[k].op \in {"COPY", "COPYC", "COPYS"}
  BY DEF Alters, WellFormed
<1>4. Late(q, h)
  BY <1>3 DEF Late
<1>5. Late(q, h + 1)
  <2>1. \A k \in DOMAIN q : k > h + 1 => k > h
    BY <1>1, <1>2
  <2> QED
    BY <1>4, <2>1 DEF Late
<1>6. HeadString(q, h + 1)
  BY <1>2, <1>4 DEF Late, HeadString
<1> QED
  BY <1>4, <1>5, <1>6

(* A program may stay what it is. *)
LEMMA RewritesNot ==
    ASSUME NEW p, NEW h \in DOMAIN p, OptOK(p, h)
    PROVE  Rewrites(p, p, h)
<1>1. Form(p) /\ Late(p, h)
  BY DEF OptOK
<1>2. \A k \in DOMAIN p : Alters(p[k], p[k])
  BY <1>1, FormFacts, AltersNot
<1>3. Late(p, h + 1) /\ HeadString(p, h + 1)
  BY <1>1, <1>2, LateAfter
<1>4. Keeps(p, p)
  BY DEF Keeps
<1> QED
  BY <1>1, <1>2, <1>3, <1>4, FormFacts DEF Rewrites

(* What follows place h of p, replaced by new. *)
Join(p, h, new) == [k \in DOMAIN p |-> IF k <= h THEN p[k] ELSE new[k - h]]

(* The places of Join, and of what it is joined from. *)
LEMMA JoinAt ==
    ASSUME NEW p, Form(p), NEW h \in DOMAIN p, NEW tail, Behind(p, h, tail),
           NEW new, NEW q, q = Join(p, h, new)
    PROVE  /\ DOMAIN q = DOMAIN p
           /\ \A k \in DOMAIN p : k <= h => q[k] = p[k]
           /\ \A k \in DOMAIN p : k > h =>
                k - h \in DOMAIN tail /\ tail[k - h] = p[k] /\ q[k] = new[k - h]
           /\ \A i \in DOMAIN tail : i + h \in DOMAIN p /\ i + h > h /\ q[i + h] = new[i]
<1>1. PICK n \in Nat : n = Len(p) /\ DOMAIN p = 1 .. n
  BY FormFacts
<1>2. h \in Nat /\ 1 <= h /\ h <= n
  BY <1>1
<1>3. PICK m \in Nat : m = n - h
  BY <1>2
<1>4. DOMAIN tail = 1 .. m /\ \A k \in 1 .. m : tail[k] = p[k + h]
  BY <1>1, <1>3 DEF Behind
<1>5. DOMAIN q = DOMAIN p /\ \A k \in DOMAIN p : q[k] = IF k <= h THEN p[k] ELSE new[k - h]
  BY DEF Join
<1>6. \A k \in DOMAIN p : k > h => k - h \in 1 .. m /\ k - h + h = k /\ ~ (k <= h)
  BY <1>1, <1>2, <1>3
<1>7. \A i \in 1 .. m : i + h \in 1 .. n /\ i + h > h /\ i + h - h = i
  BY <1>2, <1>3
<1>8. \A k \in DOMAIN p : k > h =>
        k - h \in DOMAIN tail /\ tail[k - h] = p[k] /\ q[k] = new[k - h]
  <2>1. ASSUME NEW k \in DOMAIN p, k > h
        PROVE  k - h \in DOMAIN tail /\ tail[k - h] = p[k] /\ q[k] = new[k - h]
    <3>1. k - h \in 1 .. m /\ k - h + h = k /\ ~ (k <= h)
      BY <1>6, <2>1
    <3> QED
      BY <1>4, <1>5, <3>1
  <2> QED
    BY <2>1
<1>9. ASSUME NEW i \in DOMAIN tail
      PROVE  i + h \in DOMAIN p /\ i + h > h /\ q[i + h] = new[i]
  <2>1. PICK k : k = i + h
    OBVIOUS
  <2>2. k \in DOMAIN p /\ k > h /\ k - h = i
    BY <1>1, <1>4, <1>7, <2>1
  <2>3. q[k] = new[i]
    BY <1>8, <2>2
  <2> QED
    BY <2>1, <2>2, <2>3
<1> QED
  BY <1>5, <1>8, <1>9

(* Join is a program, and new is what it has behind place h. *)
LEMMA JoinIs ==
    ASSUME NEW p, Form(p), NEW h \in DOMAIN p, NEW tail, Behind(p, h, tail),
           NEW new, DOMAIN new = DOMAIN tail, new = [i \in DOMAIN tail |-> new[i]],
           NEW q, q = Join(p, h, new),
           \A k \in DOMAIN p : k > h => q[k] \in StraightInstrs
    PROVE  q \in Seq(StraightInstrs) /\ Len(q) = Len(p) /\ Behind(q, h, new)
<1>1. PICK n \in Nat : n = Len(p) /\ DOMAIN p = 1 .. n
  BY FormFacts
<1>2. h \in Nat /\ 1 <= h /\ h <= n
  BY <1>1
<1>3. PICK m \in Nat : m = n - h
  BY <1>2
<1>4. DOMAIN tail = 1 .. m
  BY <1>1, <1>3 DEF Behind
<1>5. \A k \in DOMAIN p : q[k] \in StraightInstrs
  <2>1. \A k \in DOMAIN p : k <= h \/ k > h
    BY <1>1, <1>2
  <2> QED
    BY <2>1, FormFacts, JoinAt
<1>6. q = [k \in 1 .. n |-> q[k]]
  BY <1>1 DEF Join
<1>7. q \in Seq(StraightInstrs) /\ Len(q) = n
  BY <1>1, <1>5, <1>6
<1>8. \A i \in 1 .. m : new[i] = q[i + h] /\ new[i] \in StraightInstrs
  <2>1. ASSUME NEW i \in 1 .. m
        PROVE  new[i] = q[i + h] /\ new[i] \in StraightInstrs
    <3>1. i \in DOMAIN tail
      BY <1>4
    <3>2. i + h \in DOMAIN p /\ i + h > h /\ q[i + h] = new[i]
      BY <3>1, JoinAt
    <3> QED
      BY <3>2
  <2> QED
    BY <2>1
<1>9. new \in Seq(StraightInstrs) /\ Len(new) = m
  <2>1. new = [i \in 1 .. m |-> new[i]]
    BY <1>4
  <2>2. \A i \in 1 .. m : new[i] \in StraightInstrs
    BY <1>8
  <2> QED
    BY <2>1, <2>2, IsSeq
<1> QED
  BY <1>1, <1>3, <1>7, <1>8, <1>9 DEF Behind

(* What no instruction of new mentions is unused behind h. *)
LEMMA JoinUnused ==
    ASSUME NEW p, Form(p), NEW h \in DOMAIN p, NEW tail, Behind(p, h, tail),
           NEW new, DOMAIN new = DOMAIN tail,
           NEW q, q = Join(p, h, new), NEW x, FindIdUsage(new, x) = {}
    PROVE  Unused(q, h, x)
<1>1. \A i \in DOMAIN new : ~ Mentions(new[i], x)
  BY DEF FindIdUsage, Mentions
<1> QED
  BY <1>1, JoinAt DEF Unused
-----------------------------------------------------------------------------
(* The cases of optimize_pgm, one at a time. *)

Step(p, h, done) == \E q : Rewrites(p, q, h) /\ Result(p, q, h, done)

(* A case that keeps the instruction and the rest of the program. *)
LEMMA KeptAsIs ==
    ASSUME NEW p, NEW h \in DOMAIN p, OptOK(p, h), NEW tail, Behind(p, h, tail)
    PROVE  Step(p, h, Kept(p[h], tail))
<1>1. Rewrites(p, p, h)
  BY RewritesNot
<1>2. Result(p, p, h, Kept(p[h], tail))
  BY DEF Result, Kept
<1> QED
  BY <1>1, <1>2 DEF Step

(* The case of COPYN (optimizer.ml:118-124). *)
LEMMA NoneStep ==
    ASSUME NEW p, NEW h \in DOMAIN p, OptOK(p, h), NEW tail, Behind(p, h, tail),
           p[h].op = "COPYN"
    PROVE  Step(p, h, CopyNoneCase(p[h], tail))
<1>1. CASE FindIdUsage(tail, p[h].x) = {}
  <2>1. Form(p)
    BY DEF OptOK
  <2>2. PICK q : q = Join(p, h, tail)
    OBVIOUS
  <2>3. Unused(q, h, p[h].x)
    BY <1>1, <2>1, <2>2, JoinUnused
  <2>4. DOMAIN q = DOMAIN p /\ \A k \in DOMAIN p : k > h => q[k] = p[k]
    BY <2>1, <2>2, JoinAt
  <2>5. Unused(p, h, p[h].x)
    BY <2>3, <2>4 DEF Unused
  <2>6. p[h].op \in Defining
    BY DEF Defining
  <2>7. Rewrites(p, p, h)
    BY RewritesNot
  <2>8. Result(p, p, h, Dropped(tail))
    BY <2>5, <2>6 DEF Result, Dropped
  <2> QED
    BY <1>1, <2>7, <2>8 DEF Step, CopyNoneCase
<1>2. CASE FindIdUsage(tail, p[h].x) # {}
  BY <1>2, KeptAsIs DEF CopyNoneCase
<1> QED
  BY <1>1, <1>2

(* The case of COPYC: the constant is read for the name, in what follows. *)
LEMMA ConstantStep ==
    ASSUME NEW p, NEW h \in DOMAIN p, OptOK(p, h), NEW tail, Behind(p, h, tail),
           p[h].op = "COPYC"
    PROVE  Step(p, h, CopyConstantCase(p[h], tail))
<1>1. PICK ins, x, n : ins = p[h] /\ x = p[h].x /\ n = p[h].c
  OBVIOUS
<1>2. PICK new : new = Id2Int(tail, x, n)
  OBVIOUS
<1>3. CASE FindIdUsage(new, x) = {}
  <2>1. Form(p) /\ Late(p, h)
    BY DEF OptOK
  <2>2. PICK q : q = Join(p, h, new)
    OBVIOUS
  <2>3. DOMAIN new = DOMAIN tail /\ \A i \in DOMAIN tail : new[i] = IntFor(tail[i], x, n)
    BY <1>2 DEF Id2Int, IntFor
  <2>4. new = [i \in DOMAIN tail |-> new[i]]
    BY <1>2 DEF Id2Int
  <2>5. DOMAIN q = DOMAIN p /\ \A k \in DOMAIN p : k <= h => q[k] = p[k]
    BY <2>1, <2>2, JoinAt
  <2>6. \A k \in DOMAIN p : k > h => q[k] = IntFor(p[k], x, n)
    BY <2>1, <2>2, <2>3, JoinAt
  <2>7. ins \in StraightInstrs /\ WellFormed(ins) /\ ins.op \in Defining
    BY <1>1, <2>1, FormFacts DEF Defining
  <2>8. x \in Ids /\ n \in Constants
    BY <1>1, <2>7, FieldsOf DEF WellFormed
  <2>9. \A k \in DOMAIN p : k <= h \/ k > h
    BY <2>1, FormFacts
  <2>10. \A k \in DOMAIN p : k > h =>
          /\ Alters(p[k], q[k])
          /\ q[k].op # p[k].op => q[k].op \in {"COPYC", "ASSIGNC"}
          /\ \A t : Reads(q[k], t) => Reads(p[k], t)
          /\ \A e, o, f, w : (x \in DOMAIN e => e[x] = n) /\ Does(p[k], e, o, f, w)
                             => Does(q[k], e, o, f, w)
    <3>1. ASSUME NEW k \in DOMAIN p, k > h
          PROVE  /\ Alters(p[k], q[k])
                 /\ q[k].op # p[k].op => q[k].op \in {"COPYC", "ASSIGNC"}
                 /\ \A t : Reads(q[k], t) => Reads(p[k], t)
                 /\ \A e, o, f, w : (x \in DOMAIN e => e[x] = n) /\ Does(p[k], e, o, f, w)
                                    => Does(q[k], e, o, f, w)
      <4>1. q[k] = IntFor(p[k], x, n)
        BY <2>6, <3>1
      <4>2. p[k] \in StraightInstrs /\ WellFormed(p[k])
        BY <2>1, FormFacts
      <4> QED
        BY <2>8, <4>1, <4>2, IntForOK
    <3> QED
      BY <3>1
  <2>11. \A k \in DOMAIN p : Alters(p[k], q[k])
    BY <2>1, <2>5, <2>9, <2>10, FormFacts, AltersNot
  <2>12. q \in Seq(StraightInstrs) /\ Len(q) = Len(p) /\ Behind(q, h, new)
    <3>1. \A k \in DOMAIN p : k > h => q[k] \in StraightInstrs
      BY <2>10 DEF Alters
    <3> QED
      BY <2>1, <2>2, <2>3, <2>4, <3>1, JoinIs
  <2>13. Unused(q, h, x)
    BY <1>3, <2>1, <2>2, <2>3, JoinUnused
  <2>14. \A k \in DOMAIN p : k > h => p[k].x # x
    BY <2>5, <2>10, <2>13 DEF Unused, Mentions, Alters
  <2>15. Late(q, h + 1) /\ HeadString(q, h + 1)
    <3>1. \A k \in DOMAIN p : k > h =>
            Alters(p[k], q[k]) /\ (q[k].op = "COPYS" => p[k].op = "COPYS")
      BY <2>10
    <3> QED
      BY <2>1, <2>5, <3>1, LateAfter
  <2>16. Keeps(p, q)
    <3>1. ASSUME NEW E, NEW O, Runs(p, E, O, Len(p)), NEW k \in DOMAIN p,
                 Does(p[k], E[k], O[k], E[k + 1], O[k + 1])
          PROVE  Does(q[k], E[k], O[k], E[k + 1], O[k + 1])
      <4>1. CASE k <= h
        BY <2>5, <3>1, <4>1
      <4>2. CASE k > h
        <5>1. x \in DOMAIN E[k] /\ E[k][x] = Val(p[h], E[h])
          BY <1>1, <2>1, <2>7, <2>14, <3>1, <4>2, FormFacts, HeadKeeps
        <5>2. Val(p[h], E[h]) = n
          BY <1>1 DEF Val
        <5> QED
          BY <2>10, <3>1, <4>2, <5>1, <5>2
      <4> QED
        BY <2>9, <4>1, <4>2
    <3> QED
      BY <2>1, <2>12, <3>1, KeepsInPlace
  <2>17. Rewrites(p, q, h)
    <3>1. \A k \in DOMAIN p : \A t \in Temps : Reads(q[k], t) => Reads(p[k], t)
      BY <2>5, <2>9, <2>10
    <3> QED
      BY <2>5, <2>11, <2>12, <2>15, <2>16, <3>1 DEF Rewrites
  <2>18. Result(p, q, h, Dropped(new))
    BY <1>1, <2>7, <2>12, <2>13 DEF Result, Dropped
  <2>19. CopyConstantCase(p[h], tail) = Dropped(new)
    BY <1>1, <1>2, <1>3 DEF CopyConstantCase
  <2> QED
    BY <2>17, <2>18, <2>19 DEF Step
<1>4. CASE FindIdUsage(new, x) # {}
  <2>1. CopyConstantCase(p[h], tail) = Kept(p[h], tail)
    BY <1>1, <1>2, <1>4 DEF CopyConstantCase
  <2> QED
    BY <2>1, KeptAsIs
<1> QED
  BY <1>3, <1>4

(* get_pgm_until_l returns a program. *)
LEMMA UntilIsSeq ==
    ASSUME NEW pgm, Form(pgm), NEW l
    PROVE  UntilLabel(pgm, l) \in Seq(StraightInstrs)
<1>1. pgm \in Seq(StraightInstrs)
  BY FormFacts
<1>2. CASE Holds(pgm, l)
  <2>1. PlaceOf(pgm, l) \in DOMAIN pgm
    BY <1>2 DEF Holds, PlaceOf
  <2>2. SubSeq(pgm, 1, PlaceOf(pgm, l)) \in Seq(StraightInstrs)
    BY <1>1, <2>1, SubSeqProperties
  <2> QED
    BY <1>2, <2>2 DEF UntilLabel
<1>3. CASE ~ Holds(pgm, l)
  BY <1>1, <1>3 DEF UntilLabel
<1> QED
  BY <1>2, <1>3

(* The case of COPY: y is read for x.  When x is a user's name and the COPY is *)
(* dropped nothing mentions x; when x is a temporary, y has kept its value     *)
(* wherever x is read, since that was in time.                                 *)
LEMMA CopyStep ==
    ASSUME NEW p, NEW h \in DOMAIN p, OptOK(p, h), NEW tail, Behind(p, h, tail),
           p[h].op = "COPY", NEW source, Form(source)
    PROVE  Step(p, h, CopyCase(source, p[h], tail))
<1>1. PICK ins, x, y : ins = p[h] /\ x = p[h].x /\ y = p[h].ys[1]
  OBVIOUS
<1>2. PICK new : new = Id2Id(tail, x, y)
  OBVIOUS
<1>3. PICK until : until = UntilLabel(source, ins.l)
  OBVIOUS
<1>4. PICK check : check = until \o new
  OBVIOUS
<1>5. CASE \E k \in DOMAIN check : FindIdUsage(check, x) = {k} /\ check[k] = ins
  <2>1. Form(p) /\ Late(p, h) /\ ReadInTime(p, h)
    BY DEF OptOK
  <2>2. PICK q : q = Join(p, h, new)
    OBVIOUS
  <2>3. DOMAIN new = DOMAIN tail /\ \A i \in DOMAIN tail : new[i] = IdFor(tail[i], x, y)
    BY <1>2 DEF Id2Id, IdFor
  <2>4. new = [i \in DOMAIN tail |-> new[i]]
    BY <1>2 DEF Id2Id
  <2>5. DOMAIN q = DOMAIN p /\ \A k \in DOMAIN p : k <= h => q[k] = p[k]
    BY <2>1, <2>2, JoinAt
  <2>6. \A k \in DOMAIN p : k > h => q[k] = IdFor(p[k], x, y)
    BY <2>1, <2>2, <2>3, JoinAt
  <2>7. ins \in StraightInstrs /\ WellFormed(ins) /\ ins.op \in Defining
    BY <1>1, <2>1, FormFacts DEF Defining
  <2>8. x \in Ids /\ y \in Ids /\ (x \in Users <=> y \in Temps)
    BY <1>1, <2>7, OperandsIn DEF WellFormed
  <2>9. \A k \in DOMAIN p : k <= h \/ k > h
    BY <2>1, FormFacts
  <2>10. \A k \in DOMAIN p : k > h =>
          /\ Alters(p[k], q[k]) /\ q[k].op = p[k].op
          /\ \A t : Reads(q[k], t) => Reads(p[k], t) \/ t = y
          /\ \A e, o, f, w :
               /\ Reads(p[k], x) /\ x \in DOMAIN e => y \in DOMAIN e /\ e[y] = e[x]
               /\ Does(p[k], e, o, f, w)
               => Does(q[k], e, o, f, w)
    <3>1. ASSUME NEW k \in DOMAIN p, k > h
          PROVE  /\ Alters(p[k], q[k]) /\ q[k].op = p[k].op
                 /\ \A t : Reads(q[k], t) => Reads(p[k], t) \/ t = y
                 /\ \A e, o, f, w :
                      /\ Reads(p[k], x) /\ x \in DOMAIN e => y \in DOMAIN e /\ e[y] = e[x]
                      /\ Does(p[k], e, o, f, w)
                      => Does(q[k], e, o, f, w)
      <4>1. q[k] = IdFor(p[k], x, y)
        BY <2>6, <3>1
      <4>2. p[k] \in StraightInstrs /\ WellFormed(p[k])
        BY <2>1, FormFacts
      <4> QED
        BY <2>8, <4>1, <4>2, IdForOK
    <3> QED
      BY <3>1
  <2>11. \A k \in DOMAIN p : Alters(p[k], q[k])
    BY <2>1, <2>5, <2>9, <2>10, FormFacts, AltersNot
  <2>12. q \in Seq(StraightInstrs) /\ Len(q) = Len(p) /\ Behind(q, h, new)
    <3>1. \A k \in DOMAIN p : k > h => q[k] \in StraightInstrs
      BY <2>10 DEF Alters
    <3> QED
      BY <2>1, <2>2, <2>3, <2>4, <3>1, JoinIs
  <2>13. Unused(q, h, x)
    <3>1. PICK k \in DOMAIN check : FindIdUsage(check, x) = {k} /\ check[k] = ins
      BY <1>5
    <3>2. until \in Seq(StraightInstrs) /\ new \in Seq(StraightInstrs)
      BY <1>3, <2>12, UntilIsSeq DEF Behind
    <3>3. \A i \in DOMAIN new :
             Len(until) + i \in DOMAIN check /\ check[Len(until) + i] = new[i]
      BY <1>4, <3>2, ConcatProperties
    <3>4. ASSUME NEW i \in DOMAIN new, Mentions(new[i], x)
          PROVE  new[i] = ins
      BY <3>1, <3>3, <3>4 DEF FindIdUsage, Mentions
    <3>5. \A m \in DOMAIN q : m > h => \E i \in DOMAIN new : q[m] = new[i]
      BY <2>1, <2>2, <2>3, <2>5, JoinAt
    <3>6. \A m \in DOMAIN q : m > h => q[m].l # ins.l
      BY <1>1, <2>1, <2>5, <2>10 DEF Form, Alters
    <3> QED
      BY <3>4, <3>5, <3>6 DEF Unused
  <2>14. \A k \in DOMAIN p : k > h => p[k].x # x
    BY <2>5, <2>10, <2>13 DEF Unused, Mentions, Alters
  <2>15. Late(q, h + 1) /\ HeadString(q, h + 1)
    <3>1. \A k \in DOMAIN p : k > h =>
            Alters(p[k], q[k]) /\ (q[k].op = "COPYS" => p[k].op = "COPYS")
      BY <2>10
    <3> QED
      BY <2>1, <2>5, <3>1, LateAfter
  <2>16. y \in Temps => \A i \in DOMAIN p : i >= h => p[i].x # y
    <3>1. ASSUME y \in Temps, NEW i \in DOMAIN p, i >= h, p[i].x = y
          PROVE  FALSE
      <4>1. i = h - 1
        BY <1>1, <2>8, <3>1 DEF Form, OptOK
      <4> QED
        BY <2>1, <3>1, <4>1, FormFacts
    <3> QED
      BY <3>1
  <2>17. Keeps(p, q)
    <3>1. ASSUME NEW E, NEW O, Runs(p, E, O, Len(p)), NEW k \in DOMAIN p, k < Len(p),
                 Does(p[k], E[k], O[k], E[k + 1], O[k + 1])
          PROVE  Does(q[k], E[k], O[k], E[k + 1], O[k + 1])
      <4>1. CASE k <= h
        BY <2>5, <3>1, <4>1
      <4>2. CASE k > h
        <5>1. /\ x \in DOMAIN E[k] /\ E[k][x] = Val(p[h], E[h]) /\ Val(p[h], E[h]) # NoId
          BY <1>1, <2>1, <2>7, <2>14, <3>1, <4>2, FormFacts, HeadKeeps
        <5>2. y \in DOMAIN E[h] /\ Val(p[h], E[h]) = E[h][y]
          BY <1>1, <5>1 DEF Val
        <5>3. ASSUME Reads(p[k], x)
              PROVE  \A m \in h .. k : m < k => p[m].x # y
          <6>1. CASE y \in Temps
            <7>1. \A m \in h .. k : m < k => m \in DOMAIN p /\ m >= h
              BY <2>1, FormFacts
            <7> QED
              BY <2>16, <6>1, <7>1
          <6>2. CASE y \notin Temps
            <7>1. x \in Temps
              BY <2>8, <6>2 DEF Ids
            <7>2. \A m \in h .. k - 1 : p[m].x # y
              BY <1>1, <2>1, <4>2, <5>3, <7>1, FormFacts DEF ReadInTime
            <7>3. \A m \in h .. k : m < k => m \in h .. k - 1
              BY <2>1, FormFacts
            <7> QED
              BY <7>2, <7>3
          <6> QED
            BY <6>1, <6>2
        <5>4. ASSUME Reads(p[k], x)
              PROVE  Agree(E[h], E[k], y)
          <6>1. PICK n \in Nat : n = Len(p) /\ DOMAIN p = 1 .. n
            BY <2>1, FormFacts
          <6>2. h \in Nat /\ k \in Nat /\ 1 <= h /\ k <= n /\ k \in h .. k
            BY <4>2, <6>1
          <6>3. Runs(p, E, O, n) /\ \A m \in h .. k : m < k => p[m].x # y
            BY <3>1, <5>3, <5>4, <6>1
          <6> QED
            BY <6>2, <6>3, Stable
        <5>5. Reads(p[k], x) => y \in DOMAIN E[k] /\ E[k][y] = E[k][x]
          BY <5>1, <5>2, <5>4 DEF Agree
        <5> QED
          BY <2>10, <3>1, <4>2, <5>5
      <4> QED
        BY <2>9, <4>1, <4>2
    <3> QED
      BY <2>1, <2>12, <3>1, KeepsInPlace
  <2>18. Rewrites(p, q, h)
    <3>1. \A k \in DOMAIN p : \A t \in Temps : Reads(q[k], t) =>
            Reads(p[k], t) \/ \A i \in DOMAIN p : i > h => p[i].x # t
      <4>1. y \in Temps => \A i \in DOMAIN p : i > h => p[i].x # y
        BY <2>1, <2>16, FormFacts
      <4> QED
        BY <2>5, <2>9, <2>10, <4>1
    <3> QED
      BY <2>5, <2>11, <2>12, <2>15, <2>17, <3>1 DEF Rewrites
  <2>19. Result(p, q, h, Dropped(new))
    BY <1>1, <2>7, <2>12, <2>13 DEF Result, Dropped
  <2>20. CopyCase(source, p[h], tail) = Dropped(new)
    BY <1>1, <1>2, <1>3, <1>4, <1>5 DEF CopyCase
  <2> QED
    BY <2>18, <2>19, <2>20 DEF Step
<1>6. CASE ~ \E k \in DOMAIN check : FindIdUsage(check, x) = {k} /\ check[k] = ins
  <2>1. CopyCase(source, p[h], tail) = Kept(p[h], tail)
    BY <1>1, <1>2, <1>3, <1>4, <1>6 DEF CopyCase
  <2> QED
    BY <2>1, KeptAsIs
<1> QED
  BY <1>5, <1>6

(* OnlyWritten looks at what follows only. *)
LEMMA OnlyWrittenShift ==
    ASSUME NEW r \in Seq(StraightInstrs), NEW q \in Seq(StraightInstrs),
           NEW d \in Nat, Len(q) = Len(r) + d, NEW k \in DOMAIN r,
           \A n \in DOMAIN r : n >= k => r[n] = q[n + d]
    PROVE  OnlyWritten(r, k) <=> OnlyWritten(q, k + d)
<1>1. PICK m \in Nat : m = Len(r) /\ DOMAIN r = 1 .. m
  OBVIOUS
<1>2. DOMAIN q = 1 .. m + d
  BY <1>1
<1>3. k \in Nat /\ 1 <= k /\ k <= m /\ k + d \in Nat
  BY <1>1
<1>4. PICK x, b : x = r[k].x /\ b = k + d
  OBVIOUS
<1>5. q[b].x = x
  BY <1>4
<1>6. PICK A : A = {n \in FindIdUsage(r, x) : n > k}
  OBVIOUS
<1>7. PICK B : B = {n \in FindIdUsage(q, x) : n > b}
  OBVIOUS
<1>8. \A n \in Nat : n \in A <=> n \in 1 .. m /\ n > k /\ Mentions(r[n], x)
  BY <1>1, <1>6 DEF FindIdUsage, Mentions
<1>9. \A n \in Nat : n \in B <=> n \in 1 .. m + d /\ n > b /\ Mentions(q[n], x)
  BY <1>2, <1>7 DEF FindIdUsage, Mentions
<1>10. A \subseteq Nat /\ B \subseteq Nat
  BY <1>1, <1>2, <1>6, <1>7 DEF FindIdUsage
<1>11. \A n \in Nat : n \in A => n + d \in B /\ n + d \in Nat
  <2>1. ASSUME NEW n \in Nat, n \in A
        PROVE  n + d \in B /\ n + d \in Nat
    <3>1. n \in 1 .. m /\ n > k /\ Mentions(r[n], x)
      BY <1>8, <2>1
    <3>2. n + d \in 1 .. m + d /\ n + d > b /\ n + d \in Nat
      BY <1>3, <1>4, <3>1
    <3>3. r[n] = q[n + d]
      BY <1>1, <1>3, <3>1
    <3> QED
      BY <1>9, <3>1, <3>2, <3>3
  <2> QED
    BY <2>1
<1>12. \A n \in Nat : n \in B => n - d \in A /\ n - d \in Nat
  <2>1. ASSUME NEW n \in Nat, n \in B
        PROVE  n - d \in A /\ n - d \in Nat
    <3>1. n \in 1 .. m + d /\ n > b /\ Mentions(q[n], x)
      BY <1>9, <2>1
    <3>2. PICK i : i = n - d
      OBVIOUS
    <3>3. i \in 1 .. m /\ i > k /\ i \in Nat /\ i + d = n /\ i >= k
      BY <1>3, <1>4, <3>1, <3>2
    <3>4. r[i] = q[n]
      BY <1>1, <3>3
    <3> QED
      BY <1>8, <3>1, <3>2, <3>3, <3>4
  <2> QED
    BY <2>1
<1>13. ASSUME NEW j \in Nat, A = {j}
       PROVE  B = {j + d}
  <2>1. j + d \in B
    BY <1>11, <1>13
  <2>2. \A n \in B : n = j + d
    <3>1. ASSUME NEW n \in B
          PROVE  n = j + d
      <4>1. n \in Nat /\ n - d = j
        BY <1>10, <1>12, <1>13
      <4> QED
        BY <4>1
    <3> QED
      BY <3>1
  <2> QED
    BY <2>1, <2>2
<1>14. ASSUME NEW j \in Nat, B = {j}
       PROVE  j - d \in Nat /\ A = {j - d}
  <2>1. j - d \in A /\ j - d \in Nat
    BY <1>12, <1>14
  <2>2. \A n \in A : n = j - d
    <3>1. ASSUME NEW n \in A
          PROVE  n = j - d
      <4>1. n \in Nat /\ n + d = j
        BY <1>10, <1>11, <1>14
      <4> QED
        BY <4>1
    <3> QED
      BY <3>1
  <2> QED
    BY <2>1, <2>2
<1>15. OnlyWritten(r, k) <=> \E j \in DOMAIN r : r[j].op = "WRITE" /\ A = {j}
  BY <1>4, <1>6 DEF OnlyWritten
<1>16. OnlyWritten(q, b) <=> \E j \in DOMAIN q : q[j].op = "WRITE" /\ B = {j}
  BY <1>5, <1>7 DEF OnlyWritten
<1>17. ASSUME NEW j \in DOMAIN r, r[j].op = "WRITE", A = {j}
       PROVE  j + d \in DOMAIN q /\ q[j + d].op = "WRITE" /\ B = {j + d}
  <2>1. j \in Nat /\ j \in 1 .. m
    BY <1>1
  <2>2. j > k
    BY <1>8, <1>17, <2>1
  <2>3. r[j] = q[j + d]
    BY <1>3, <2>1, <2>2
  <2>4. j + d \in 1 .. m + d
    BY <2>1
  <2> QED
    BY <1>2, <1>13, <1>17, <2>1, <2>3, <2>4
<1>18. ASSUME NEW j \in DOMAIN q, q[j].op = "WRITE", B = {j}
       PROVE  j - d \in DOMAIN r /\ r[j - d].op = "WRITE" /\ A = {j - d}
  <2>1. j \in Nat
    BY <1>2
  <2>2. PICK i \in Nat : i = j - d /\ A = {i}
    BY <1>14, <1>18, <2>1
  <2>3. i \in 1 .. m /\ i > k
    BY <1>8, <2>2
  <2>4. i + d = j
    BY <2>1, <2>2
  <2>5. r[i] = q[j]
    BY <1>1, <1>3, <2>3, <2>4, SMTT(20)
  <2> QED
    BY <1>1, <1>18, <2>2, <2>3, <2>5
<1> QED
  BY <1>4, <1>15, <1>16, <1>17, <1>18

(* Instruction k of p writes what is the only use of a later copy of s. *)
Redundant(p, h, s, k) ==
    /\ p[k].op = "WRITE"
    /\ \E i \in DOMAIN p : /\ h < i /\ i < k
                           /\ p[i].op = "COPYS" /\ p[i].c = s /\ OnlyWritten(p, i)
                           /\ p[k].ys[1] = p[i].x

(* What replace_same_str makes of the instruction at k. *)
LEMMA SameStrAt ==
    ASSUME NEW p, Form(p), NEW h \in DOMAIN p, NEW tail, Behind(p, h, tail),
           NEW x, NEW s, NEW q, q = Join(p, h, ReplaceSameStr(tail, x, s))
    PROVE  \A k \in DOMAIN p : k > h =>
             q[k] = IF Redundant(p, h, s, k) THEN WRITE(p[k].l, x) ELSE p[k]
<1>1. PICK n \in Nat : n = Len(p) /\ DOMAIN p = 1 .. n
  BY FormFacts
<1>2. h \in Nat /\ 1 <= h /\ h <= n
  BY <1>1
<1>3. PICK m \in Nat : m = n - h
  BY <1>2
<1>4. /\ tail \in Seq(StraightInstrs) /\ Len(tail) = m /\ DOMAIN tail = 1 .. m
      /\ \A i \in 1 .. m : tail[i] = p[i + h]
  BY <1>1, <1>3 DEF Behind
<1>5. ASSUME NEW i \in 1 .. m
      PROVE  OnlyWritten(tail, i) <=> OnlyWritten(p, i + h)
  <2>1. p \in Seq(StraightInstrs) /\ Len(p) = Len(tail) + h /\ i \in DOMAIN tail
    BY <1>1, <1>2, <1>3, <1>4, FormFacts
  <2>2. \A j \in DOMAIN tail : j >= i => tail[j] = p[j + h]
    BY <1>4
  <2> QED
    BY <1>2, <1>4, <2>1, <2>2, OnlyWrittenShift
<1>6. PICK new : new = ReplaceSameStr(tail, x, s)
  OBVIOUS
<1>7. \A j \in 1 .. m :
        new[j] = IF /\ tail[j].op = "WRITE"
                    /\ \E i \in 1 .. j - 1 :
                         /\ tail[i].op = "COPYS" /\ tail[i].c = s /\ OnlyWritten(tail, i)
                         /\ tail[j].ys[1] = tail[i].x
                 THEN WRITE(tail[j].l, x) ELSE tail[j]
  BY <1>4, <1>6 DEF ReplaceSameStr
<1>8. ASSUME NEW k \in DOMAIN p, k > h
      PROVE  q[k] = IF Redundant(p, h, s, k) THEN WRITE(p[k].l, x) ELSE p[k]
  <2>1. PICK j : j = k - h
    OBVIOUS
  <2>2. j \in 1 .. m /\ j + h = k /\ k \in Nat /\ j \in Nat
    BY <1>1, <1>2, <1>3, <1>8, <2>1
  <2>3. q[k] = new[j] /\ tail[j] = p[k]
    BY <1>6, <1>8, <2>1, JoinAt
  <2>4. ASSUME NEW i \in 1 .. j - 1, tail[i].op = "COPYS", tail[i].c = s,
               OnlyWritten(tail, i), tail[j].ys[1] = tail[i].x
        PROVE  \E a \in DOMAIN p : /\ h < a /\ a < k
                  /\ p[a].op = "COPYS" /\ p[a].c = s /\ OnlyWritten(p, a)
                  /\ p[k].ys[1] = p[a].x
    <3>1. PICK a : a = i + h
      OBVIOUS
    <3>2. i \in 1 .. m
      BY <2>2
    <3>3. a \in DOMAIN p /\ h < a /\ a < k
      BY <1>1, <1>2, <1>3, <2>2, <3>1, <3>2
    <3>4. tail[i] = p[a] /\ OnlyWritten(p, a)
      BY <1>4, <1>5, <2>4, <3>1, <3>2
    <3> QED
      BY <2>3, <2>4, <3>3, <3>4
  <2>5. ASSUME NEW a \in DOMAIN p, h < a, a < k, p[a].op = "COPYS", p[a].c = s,
               OnlyWritten(p, a), p[k].ys[1] = p[a].x
        PROVE  \E i \in 1 .. j - 1 :
                 /\ tail[i].op = "COPYS" /\ tail[i].c = s /\ OnlyWritten(tail, i)
                 /\ tail[j].ys[1] = tail[i].x
    <3>1. PICK i : i = a - h
      OBVIOUS
    <3>2. i \in 1 .. j - 1 /\ i \in 1 .. m /\ i + h = a
      BY <1>1, <1>2, <1>3, <2>2, <2>5, <3>1, SMTT(20)
    <3>3. tail[i] = p[a] /\ OnlyWritten(tail, i)
      BY <1>4, <1>5, <2>5, <3>2
    <3> QED
      BY <2>3, <2>5, <3>2, <3>3
  <2> QED
    BY <1>7, <2>2, <2>3, <2>4, <2>5 DEF Redundant
<1> QED
  BY <1>8

(* A WRITE mentions one name. *)
LEMMA WritesOne ==
    ASSUME NEW ins \in StraightInstrs, WellFormed(ins), ins.op = "WRITE"
    PROVE  /\ ins.x = NoId /\ NoId \notin Ids
           /\ ins.ys[1] \in Ids
           /\ \A y \in Ids : Mentions(ins, y) <=> ins.ys[1] = y
<1>1. ins.x = NoId /\ NoId \notin Ids
  BY FieldsOf, Names DEF WellFormed, Ids, Defining
<1>2. ins.ys[1] \in Ids /\ DOMAIN ins.ys = {1}
  BY OperandsIn
<1> QED
  BY <1>1, <1>2 DEF Mentions

(* An instruction whose result is only written is not followed by another *)
(* that defines the same, and the WRITE is the only one that reads it.    *)
LEMMA OnlyWrittenMeans ==
    ASSUME NEW p, Form(p), NEW i \in DOMAIN p, p[i].op = "COPYS", OnlyWritten(p, i)
    PROVE  /\ p[i].x \in Ids
           /\ \A m \in DOMAIN p : m > i => p[m].x # p[i].x
           /\ \E j \in DOMAIN p :
                /\ j > i /\ p[j].op = "WRITE" /\ p[j].ys[1] = p[i].x
                /\ \A m \in DOMAIN p : m > i /\ Mentions(p[m], p[i].x) => m = j
<1>1. PICK x : x = p[i].x
  OBVIOUS
<1>2. x \in Ids
  BY <1>1, FormFacts DEF WellFormed, Defining
<1>3. PICK j \in DOMAIN p : p[j].op = "WRITE" /\ {n \in FindIdUsage(p, x) : n > i} = {j}
  BY <1>1 DEF OnlyWritten
<1>4. \A m \in DOMAIN p : m > i /\ Mentions(p[m], x) <=> m = j
  BY <1>3 DEF FindIdUsage, Mentions
<1>5. p[j].x # x /\ p[j].ys[1] = x
  BY <1>2, <1>3, <1>4, FormFacts, WritesOne
<1>6. \A m \in DOMAIN p : m > i => p[m].x # x
  BY <1>4, <1>5 DEF Mentions
<1> QED
  BY <1>1, <1>2, <1>3, <1>4, <1>5, <1>6

(* The writes of later copies of the string at h are redirected. *)
LEMMA SameStrRewrites ==
    ASSUME NEW p, NEW h \in DOMAIN p, OptOK(p, h), NEW tail, Behind(p, h, tail),
           p[h].op = "COPYS", NEW same, same = ReplaceSameStr(tail, p[h].x, p[h].c),
           NEW q, q = Join(p, h, same)
    PROVE  Rewrites(p, q, h) /\ Behind(q, h, same) /\ Late(q, h)
<1>1. Form(p) /\ Late(p, h) /\ HeadString(p, h)
  BY DEF OptOK
<1>2. PICK x, s : x = p[h].x /\ s = p[h].c
  OBVIOUS
<1>3. p[h] \in StraightInstrs /\ WellFormed(p[h]) /\ p[h].op \in Defining /\ x \in Ids
  BY <1>1, <1>2, FormFacts DEF Defining, WellFormed
<1>4. DOMAIN q = DOMAIN p /\ \A k \in DOMAIN p : k <= h => q[k] = p[k]
  BY <1>1, JoinAt
<1>5. \A k \in DOMAIN p : k > h =>
        q[k] = IF Redundant(p, h, s, k) THEN WRITE(p[k].l, x) ELSE p[k]
  BY <1>1, <1>2, SameStrAt
<1>6. \A k \in DOMAIN p : k <= h \/ k > h
  BY <1>1, FormFacts
<1>7. ASSUME NEW k \in DOMAIN p, k > h, Redundant(p, h, s, k)
      PROVE  /\ x \in Temps
             /\ Alters(p[k], q[k]) /\ q[k].op = "WRITE"
             /\ \A t : Reads(q[k], t) => t = x
             /\ \A e, o, f, w : /\ x \in DOMAIN e /\ e[x] = e[p[k].ys[1]]
                                /\ Does(p[k], e, o, f, w)
                                => Does(q[k], e, o, f, w)
  <2>1. PICK i \in DOMAIN p : /\ h < i /\ i < k
                              /\ p[i].op = "COPYS" /\ p[i].c = s /\ OnlyWritten(p, i)
    BY <1>7 DEF Redundant
  <2>2. i > h
    BY <1>1, <2>1, FormFacts
  <2>3. x \notin Users
    BY <1>1, <1>2, <2>1, <2>2 DEF HeadString
  <2>4. x \in Temps
    BY <1>3, <2>3 DEF Ids
  <2>5. q[k] = WRITE(p[k].l, x) /\ p[k].op = "WRITE"
    BY <1>5, <1>7 DEF Redundant
  <2>6. p[k] \in StraightInstrs /\ WellFormed(p[k])
    BY <1>1, FormFacts
  <2>7. PICK a, b : a = p[k] /\ b = q[k]
    OBVIOUS
  <2>8. /\ a \in StraightInstrs /\ WellFormed(a) /\ a.op = "WRITE"
        /\ b = WRITE(a.l, x)
    BY <2>5, <2>6, <2>7
  <2>9. Alters(a, b) /\ b.op = "WRITE" /\ \A t : Reads(b, t) => t = x
    BY <1>3, <2>8, WriteForOK
  <2>10. ASSUME NEW e, NEW o, NEW f, NEW w, x \in DOMAIN e, e[x] = e[a.ys[1]],
                Does(a, e, o, f, w)
         PROVE  Does(b, e, o, f, w)
    BY <1>3, <2>8, <2>10, WriteForOK
  <2> QED
    BY <2>4, <2>7, <2>9, <2>10
<1>8. \A k \in DOMAIN p : k > h /\ ~ Redundant(p, h, s, k) => q[k] = p[k]
  BY <1>5
<1>9. \A k \in DOMAIN p : Alters(p[k], q[k]) /\ (q[k].op = "COPYS" => p[k].op = "COPYS")
  <2>1. \A k \in DOMAIN p : Alters(p[k], p[k])
    BY <1>1, FormFacts, AltersNot
  <2> QED
    BY <1>4, <1>6, <1>7, <1>8, <2>1
<1>10. q \in Seq(StraightInstrs) /\ Len(q) = Len(p) /\ Behind(q, h, same)
  <2>1. same = [i \in DOMAIN tail |-> same[i]] /\ DOMAIN same = DOMAIN tail
    BY DEF ReplaceSameStr
  <2>2. \A k \in DOMAIN p : k > h => q[k] \in StraightInstrs
    BY <1>9 DEF Alters
  <2> QED
    BY <1>1, <2>1, <2>2, JoinIs
<1>11. Late(q, h) /\ Late(q, h + 1) /\ HeadString(q, h + 1)
  BY <1>1, <1>4, <1>9, LateAfter
<1>12. x \in Temps => \A i \in DOMAIN p : i > h => p[i].x # x
  <2>1. ASSUME x \in Temps, NEW i \in DOMAIN p, i > h, p[i].x = x
        PROVE  FALSE
    <3>1. i = h
      BY <1>1, <1>2, <2>1 DEF Form
    <3> QED
      BY <1>1, <2>1, <3>1, FormFacts
  <2> QED
    BY <2>1
<1>13. Keeps(p, q)
  <2>1. ASSUME NEW E, NEW O, Runs(p, E, O, Len(p)), NEW k \in DOMAIN p,
               Does(p[k], E[k], O[k], E[k + 1], O[k + 1])
        PROVE  Does(q[k], E[k], O[k], E[k + 1], O[k + 1])
    <3>1. CASE ~ (k > h /\ Redundant(p, h, s, k))
      BY <1>4, <1>6, <1>8, <2>1, <3>1
    <3>2. CASE k > h /\ Redundant(p, h, s, k)
      <4>1. PICK i \in DOMAIN p : /\ h < i /\ i < k
                                  /\ p[i].op = "COPYS" /\ p[i].c = s /\ OnlyWritten(p, i)
                                  /\ p[k].ys[1] = p[i].x
        BY <3>2 DEF Redundant
      <4>2. h < k
        BY <1>1, <3>2, FormFacts
      <4>3. x \in DOMAIN E[k] /\ E[k][x] = Val(p[h], E[h])
        BY <1>1, <1>2, <1>3, <1>7, <1>12, <2>1, <3>2, <4>2, HeadKeeps
      <4>4. p[i].op \in Defining
        BY <4>1 DEF Defining
      <4>5. \A m \in DOMAIN p : m > i => p[m].x # p[i].x
        BY <1>1, <4>1, OnlyWrittenMeans
      <4>6. E[k][p[i].x] = Val(p[i], E[i])
        BY <1>1, <2>1, <4>1, <4>4, <4>5, HeadKeeps
      <4>7. Val(p[h], E[h]) = s /\ Val(p[i], E[i]) = s
        BY <1>2, <4>1 DEF Val
      <4> QED
        BY <1>7, <2>1, <3>2, <4>1, <4>3, <4>6, <4>7
    <3> QED
      BY <3>1, <3>2
  <2> QED
    BY <1>1, <1>10, <2>1, KeepsInPlace
<1>14. \A k \in DOMAIN p : \A t \in Temps : Reads(q[k], t) =>
          Reads(p[k], t) \/ \A i \in DOMAIN p : i > h => p[i].x # t
  BY <1>4, <1>6, <1>7, <1>8, <1>12
<1> QED
  BY <1>4, <1>9, <1>10, <1>11, <1>13, <1>14 DEF Rewrites

(* In-place changes keep the form of the program. *)
LEMMA AltersForm ==
    ASSUME NEW p, Form(p), NEW q, q \in Seq(StraightInstrs), Len(q) = Len(p),
           \A k \in DOMAIN p : Alters(p[k], q[k])
    PROVE  Form(q) /\ DOMAIN q = DOMAIN p
<1>1. PICK n \in Nat : n = Len(p) /\ DOMAIN p = 1 .. n /\ 1 <= n
  BY FormFacts
<1>2. Len(q) = n /\ DOMAIN q = DOMAIN p /\ q # <<>>
  BY <1>1
<1>3. \A k \in DOMAIN p :
        /\ q[k] \in StraightInstrs /\ WellFormed(q[k])
        /\ q[k].l = p[k].l /\ q[k].x = p[k].x
        /\ q[k].op = "HALT" <=> p[k].op = "HALT"
        /\ q[k].op = "COPY" => q[k] = p[k]
  BY DEF Alters
<1>4. \A k \in DOMAIN q : q[k].op = "HALT" <=> k = Len(q)
  BY <1>1, <1>2, <1>3 DEF Form
<1>5. \A j, k \in DOMAIN q : q[j].l = q[k].l => j = k
  BY <1>2, <1>3 DEF Form
<1>6. \A j, k \in DOMAIN q : q[j].x = q[k].x /\ q[j].x \in Temps => j = k
  BY <1>2, <1>3 DEF Form
<1>7. \A j, k \in DOMAIN q :
        q[k].op = "COPY" /\ q[k].x \in Users /\ q[j].x = q[k].ys[1] => j = k - 1
  BY <1>2, <1>3 DEF Form
<1> QED
  BY <1>2, <1>3, <1>4, <1>5, <1>6, <1>7 DEF Form

(* So does a call of a case; the next place is in time still. *)
LEMMA RewritesForm ==
    ASSUME NEW p, Form(p), NEW h \in DOMAIN p, ReadInTime(p, h), NEW q, Rewrites(p, q, h)
    PROVE  Form(q) /\ ReadInTime(q, h + 1) /\ DOMAIN q = DOMAIN p
<1>1. PICK n \in Nat : n = Len(p) /\ DOMAIN p = 1 .. n /\ 1 <= n
  BY FormFacts
<1>2. Form(q) /\ DOMAIN q = DOMAIN p
  BY AltersForm DEF Rewrites
<1>3. \A k \in DOMAIN p : q[k].x = p[k].x /\ (q[k].op = "COPY" => q[k] = p[k])
  BY DEF Rewrites, Alters
<1>4. ASSUME NEW i \in DOMAIN q, NEW j \in DOMAIN q, h + 1 <= i, i < j,
             q[i].op = "COPY", q[i].x \in Temps, Reads(q[j], q[i].x)
      PROVE  \A k \in i .. j - 1 : q[k].x # q[i].ys[1]
  <2>1. i > h /\ h <= i
    BY <1>1, <1>2, <1>4
  <2>2. q[i] = p[i] /\ p[i].op = "COPY"
    BY <1>2, <1>3, <1>4
  <2>3. Reads(p[j], p[i].x)
    BY <1>2, <1>4, <2>1, <2>2 DEF Rewrites
  <2>4. \A k \in i .. j - 1 : p[k].x # p[i].ys[1]
    BY <1>2, <1>4, <2>1, <2>2, <2>3 DEF ReadInTime
  <2>5. \A k \in i .. j - 1 : k \in DOMAIN p
    BY <1>1, <1>2
  <2> QED
    BY <1>3, <2>2, <2>4, <2>5
<1> QED
  BY <1>2, <1>4 DEF ReadInTime

(* A program without a defining instruction has the form; what was at i is at i *)
(* or at i - 1.                                                                 *)
LEMMA DropForm ==
    ASSUME NEW q, Form(q), NEW h \in DOMAIN q, q[h].op \in Defining,
           ReadInTime(q, h + 1), NEW r, r = Drop(q, h)
    PROVE  /\ Form(r) /\ ReadInTime(r, h) /\ Len(r) = Len(q) - 1
           /\ \A k \in DOMAIN r : \E i \in DOMAIN q :
                i = (IF k < h THEN k ELSE k + 1) /\ r[k] = q[i]
<1>1. PICK n \in Nat : n = Len(q) /\ DOMAIN q = 1 .. n /\ 1 <= n
  BY FormFacts
<1>2. h \in Nat /\ 1 <= h /\ h < n
  <2>1. q[h].op # "HALT"
    BY DEF Defining
  <2> QED
    BY <1>1, <2>1, FormFacts
<1>3. DOMAIN r = 1 .. n - 1 /\ r = [k \in 1 .. n - 1 |-> r[k]]
  BY <1>1 DEF Drop
<1>4. PICK at : at = [k \in 1 .. n - 1 |-> IF k < h THEN k ELSE k + 1]
  OBVIOUS
<1>5. \A k \in 1 .. n - 1 :
        /\ at[k] = IF k < h THEN k ELSE k + 1
        /\ at[k] \in 1 .. n /\ at[k] # h /\ r[k] = q[at[k]]
  <2>1. ASSUME NEW k \in 1 .. n - 1
        PROVE  /\ at[k] = IF k < h THEN k ELSE k + 1
               /\ at[k] \in 1 .. n /\ at[k] # h /\ r[k] = q[at[k]]
    <3>1. at[k] = IF k < h THEN k ELSE k + 1
      BY <1>4
    <3>2. r[k] = IF k < h THEN q[k] ELSE q[k + 1]
      BY <1>1 DEF Drop
    <3> QED
      BY <1>2, <3>1, <3>2
  <2> QED
    BY <2>1
<1>6. \A j, k \in 1 .. n - 1 : at[j] = at[k] => j = k
  BY <1>2, <1>5
<1>7. \A j, k \in 1 .. n - 1 : at[j] = at[k] - 1 => j = k - 1
  BY <1>2, <1>5
<1>8. \A k \in 1 .. n - 1 : at[k] = n <=> k = n - 1
  BY <1>2, <1>5
<1>9. r \in Seq(StraightInstrs) /\ Len(r) = n - 1
  <2>1. \A k \in 1 .. n - 1 : r[k] \in StraightInstrs
    BY <1>1, <1>5, FormFacts
  <2>2. n - 1 \in Nat
    BY <1>2
  <2> QED
    BY <1>3, <2>1, <2>2, IsSeq
<1>10. r # <<>>
  BY <1>2, <1>9
<1>11. \A k \in DOMAIN r : WellFormed(r[k])
  BY <1>1, <1>3, <1>5, FormFacts
<1>12. \A k \in DOMAIN r : r[k].op = "HALT" <=> k = Len(r)
  <2>1. \A i \in 1 .. n : q[i].op = "HALT" <=> i = n
    BY <1>1 DEF Form
  <2> QED
    BY <1>3, <1>5, <1>8, <1>9, <2>1
<1>13. \A j, k \in DOMAIN r : r[j].l = r[k].l => j = k
  <2>1. \A i, m \in 1 .. n : q[i].l = q[m].l => i = m
    BY <1>1 DEF Form
  <2> QED
    BY <1>3, <1>5, <1>6, <2>1, SMTT(20)
<1>14. \A j, k \in DOMAIN r : r[j].x = r[k].x /\ r[j].x \in Temps => j = k
  <2>1. \A i, m \in 1 .. n : q[i].x = q[m].x /\ q[i].x \in Temps => i = m
    BY <1>1 DEF Form
  <2> QED
    BY <1>3, <1>5, <1>6, <2>1, SMTT(20)
<1>15. \A j, k \in DOMAIN r :
         r[k].op = "COPY" /\ r[k].x \in Users /\ r[j].x = r[k].ys[1] => j = k - 1
  <2>1. \A i, m \in 1 .. n :
          q[m].op = "COPY" /\ q[m].x \in Users /\ q[i].x = q[m].ys[1] => i = m - 1
    BY <1>1 DEF Form
  <2> QED
    BY <1>3, <1>5, <1>7, <2>1, SMTT(20)
<1>16. Form(r)
  BY <1>9, <1>10, <1>11, <1>12, <1>13, <1>14, <1>15 DEF Form
<1>17. ASSUME NEW i \in DOMAIN r, NEW j \in DOMAIN r, h <= i, i < j,
              r[i].op = "COPY", r[i].x \in Temps, Reads(r[j], r[i].x)
       PROVE  \A k \in i .. j - 1 : r[k].x # r[i].ys[1]
  <2>1. i \in 1 .. n - 1 /\ j \in 1 .. n - 1
    BY <1>3, <1>17
  <2>2. PICK a, b : a = i + 1 /\ b = j + 1
    OBVIOUS
  <2>3. r[i] = q[a] /\ r[j] = q[b]
    BY <1>2, <1>5, <1>17, <2>1, <2>2
  <2>4. a \in DOMAIN q /\ b \in DOMAIN q /\ h + 1 <= a /\ a < b
    BY <1>1, <1>2, <1>17, <2>1, <2>2
  <2>5. \A k \in a .. b - 1 : q[k].x # q[a].ys[1]
    BY <1>17, <2>3, <2>4 DEF ReadInTime
  <2>6. ASSUME NEW k \in i .. j - 1
        PROVE  r[k].x # r[i].ys[1]
    <3>1. PICK m : m = k + 1
      OBVIOUS
    <3>2. k \in 1 .. n - 1 /\ ~ (k < h) /\ m \in a .. b - 1
      BY <1>2, <1>17, <2>1, <2>2, <3>1
    <3>3. r[k] = q[m]
      BY <1>5, <3>1, <3>2
    <3> QED
      BY <2>3, <2>5, <3>2, <3>3
  <2> QED
    BY <2>6
<1>18. ReadInTime(r, h)
  BY <1>17 DEF ReadInTime
<1>19. \A k \in DOMAIN r : \E i \in DOMAIN q :
         i = (IF k < h THEN k ELSE k + 1) /\ r[k] = q[i]
  BY <1>1, <1>3, <1>5
<1> QED
  BY <1>1, <1>9, <1>16, <1>18, <1>19

(* The case of COPYS that drops it, from a, where the writes of later copies *)
(* are redirected already.                                                   *)
LEMMA StrDropped ==
    ASSUME NEW p, NEW h \in DOMAIN p, OptOK(p, h), NEW tail, Behind(p, h, tail),
           p[h].op = "COPYS", NEW same, same = ReplaceSameStr(tail, p[h].x, p[h].c),
           NEW new, new = Id2Str(same, p[h].x, p[h].c),
           FindIdUsage(new, p[h].x) = {}
    PROVE  Step(p, h, Dropped(new))
<1>1. Form(p) /\ ReadInTime(p, h)
  BY DEF OptOK
<1>2. PICK x, s : x = p[h].x /\ s = p[h].c
  OBVIOUS
<1>3. p[h] \in StraightInstrs /\ WellFormed(p[h]) /\ p[h].op \in Defining
  BY <1>1, FormFacts DEF Defining
<1>4. x \in Ids /\ s \in Constants
  BY <1>2, <1>3, FieldsOf DEF WellFormed
<1>5. PICK a : a = Join(p, h, same)
  OBVIOUS
<1>6. Rewrites(p, a, h) /\ Behind(a, h, same) /\ Late(a, h)
  BY <1>5, SameStrRewrites
<1>7. Form(a) /\ DOMAIN a = DOMAIN p
  BY <1>1, <1>6, RewritesForm
<1>8. \A k \in DOMAIN p : k > h =>
        a[k] = IF Redundant(p, h, s, k) THEN WRITE(p[k].l, x) ELSE p[k]
  BY <1>1, <1>2, <1>5, SameStrAt
<1>9. PICK q : q = Join(a, h, new)
  OBVIOUS
<1>10. h \in DOMAIN a /\ a[h] = p[h]
  <2>1. h <= h
    BY <1>1, FormFacts
  <2> QED
    BY <1>6, <1>7, <2>1 DEF Rewrites
<1>11. DOMAIN new = DOMAIN same /\ \A i \in DOMAIN same : new[i] = StrFor(same[i], x, s)
  BY <1>2 DEF Id2Str, StrFor
<1>12. new = [i \in DOMAIN same |-> new[i]]
  BY DEF Id2Str
<1>13. DOMAIN q = DOMAIN p /\ \A k \in DOMAIN p : k <= h => q[k] = a[k] /\ q[k] = p[k]
  <2>1. DOMAIN q = DOMAIN a /\ \A k \in DOMAIN a : k <= h => q[k] = a[k]
    BY <1>6, <1>7, <1>9, <1>10, JoinAt
  <2> QED
    BY <1>6, <1>7, <2>1 DEF Rewrites
<1>14. \A k \in DOMAIN p : k > h => q[k] = StrFor(a[k], x, s)
  BY <1>6, <1>7, <1>9, <1>10, <1>11, JoinAt
<1>15. \A k \in DOMAIN p : k <= h \/ k > h
  BY <1>1, FormFacts
<1>16. ASSUME NEW k \in DOMAIN p, k > h
       PROVE  /\ Alters(a[k], q[k])
              /\ q[k] # a[k] => /\ a[k].op = "COPY" /\ a[k].ys[1] = x
                                /\ q[k].op = "COPYS" /\ q[k].c = s
              /\ \A t : Reads(q[k], t) => Reads(a[k], t)
              /\ \A e, o, f, w : (x \in DOMAIN e => e[x] = s) /\ Does(a[k], e, o, f, w)
                                 => Does(q[k], e, o, f, w)
  <2>1. q[k] = StrFor(a[k], x, s)
    BY <1>14, <1>16
  <2>2. a[k] \in StraightInstrs /\ WellFormed(a[k])
    BY <1>7, FormFacts
  <2> QED
    BY <1>4, <2>1, <2>2, StrForOK
<1>17. \A k \in DOMAIN p : Alters(p[k], q[k])
  <2>1. \A k \in DOMAIN p : Alters(p[k], a[k])
    BY <1>6 DEF Rewrites
  <2> QED
    BY <1>13, <1>15, <1>16, <2>1, AltersTwice
<1>18. q \in Seq(StraightInstrs) /\ Len(q) = Len(p) /\ Behind(q, h, new)
  <2>1. \A k \in DOMAIN a : k > h => q[k] \in StraightInstrs
    BY <1>7, <1>16 DEF Alters
  <2>2. Len(a) = Len(p)
    BY <1>6 DEF Rewrites
  <2>3. DOMAIN new = DOMAIN same
    BY <1>11
  <2>4. q \in Seq(StraightInstrs) /\ Len(q) = Len(a) /\ Behind(q, h, new)
    BY <1>6, <1>7, <1>9, <1>10, <1>12, <2>1, <2>3, JoinIs
  <2> QED
    BY <2>2, <2>4
<1>19. Unused(q, h, x)
  BY <1>2, <1>6, <1>7, <1>9, <1>10, <1>11, JoinUnused
<1>20. \A m \in DOMAIN a : m > h => a[m].x # x
  BY <1>7, <1>13, <1>16, <1>19 DEF Unused, Mentions, Alters
<1>21. Keeps(p, q)
  <2>1. Keeps(p, a)
    BY <1>6 DEF Rewrites
  <2>2. ASSUME NEW E, NEW O, Runs(a, E, O, Len(a)), NEW k \in DOMAIN a,
               Does(a[k], E[k], O[k], E[k + 1], O[k + 1])
        PROVE  Does(q[k], E[k], O[k], E[k + 1], O[k + 1])
    <3>1. CASE k <= h
      BY <1>7, <1>13, <2>2, <3>1
    <3>2. CASE k > h
      <4>1. h < k
        BY <1>7, <3>2, FormFacts
      <4>2. E[k][x] = Val(a[h], E[h])
        BY <1>2, <1>3, <1>7, <1>10, <1>20, <2>2, <4>1, HeadKeeps
      <4>3. Val(a[h], E[h]) = s
        BY <1>2, <1>10 DEF Val
      <4> QED
        BY <1>7, <1>16, <2>2, <3>2, <4>2, <4>3
    <3> QED
      BY <1>7, <1>15, <3>1, <3>2
  <2>3. Len(q) = Len(a)
    BY <1>6, <1>18 DEF Rewrites
  <2>4. Keeps(a, q)
    BY <1>7, <2>2, <2>3, KeepsInPlace
  <2> QED
    BY <2>1, <2>4 DEF Keeps
<1>22. ASSUME NEW k \in DOMAIN p, k > h, q[k] # a[k], a[k].x \in Users
       PROVE  k = h + 1 /\ x \in Temps
  <2>1. a[k].op = "COPY" /\ a[k].ys[1] = x /\ a[h].x = x
    BY <1>2, <1>10, <1>16, <1>22
  <2>2. h = k - 1
    BY <1>7, <1>10, <1>22, <2>1 DEF Form
  <2>3. x \in Temps
    BY <1>7, <1>22, <2>1, FormFacts DEF WellFormed
  <2> QED
    BY <1>1, <2>2, <2>3, FormFacts
<1>23. \A k \in DOMAIN p : q[k].x = a[k].x /\ a[k].x = p[k].x
  <2>1. \A k \in DOMAIN p : a[k].x = p[k].x /\ q[k].x = p[k].x
    BY <1>6, <1>17 DEF Rewrites, Alters
  <2> QED
    BY <2>1
<1>24. Late(q, h + 1)
  <2>1. ASSUME NEW k \in DOMAIN q, k > h + 1, q[k].x \in Users
        PROVE  q[k].op \in {"COPY", "COPYC"}
    <3>1. k > h /\ k # h + 1
      BY <1>1, <1>13, <2>1, FormFacts
    <3>2. q[k] = a[k]
      BY <1>13, <1>22, <1>23, <2>1, <3>1
    <3> QED
      BY <1>6, <1>7, <1>13, <2>1, <3>1, <3>2 DEF Late
  <2> QED
    BY <2>1 DEF Late
<1>25. HeadString(q, h + 1)
  <2>1. SUFFICES ASSUME h + 1 \in DOMAIN q, q[h + 1].op = "COPYS", q[h + 1].x \in Users,
                        NEW k \in DOMAIN q, k > h + 1, q[k].op = "COPYS",
                        q[k].c = q[h + 1].c, OnlyWritten(q, k)
                 PROVE  FALSE
    BY DEF HeadString
  <2>2. h + 1 > h /\ k > h /\ k # h + 1 /\ k # h
    BY <1>1, <1>13, <2>1, FormFacts
  <2>3. q[h + 1] # a[h + 1]
    BY <1>6, <1>7, <1>13, <2>1, <2>2 DEF Late
  <2>4. x \in Temps /\ q[h + 1].c = s
    BY <1>13, <1>16, <1>22, <1>23, <2>1, <2>2, <2>3
  <2>5. q[k] = a[k]
    <3>1. SUFFICES ASSUME q[k] # a[k] PROVE FALSE
      OBVIOUS
    <3>2. a[k].op = "COPY" /\ a[k].ys[1] = x
      BY <1>13, <1>16, <2>2, <3>1
    <3>3. a[k] \in StraightInstrs /\ WellFormed(a[k])
      BY <1>7, <1>13, FormFacts
    <3>4. a[k].x \in Users
      BY <2>4, <3>2, <3>3 DEF WellFormed
    <3> QED
      BY <1>13, <1>22, <2>2, <3>1, <3>4
  <2>6. a[k] = p[k]
    <3>1. Redundant(p, h, s, k) => a[k].op = "WRITE"
      BY <1>8, <1>13, <2>2, Made
    <3> QED
      BY <1>8, <1>13, <2>1, <2>2, <2>5, <3>1
  <2>7. PICK y : y = p[k].x /\ y = q[k].x
    BY <2>5, <2>6
  <2>8. Form(q)
    BY <1>1, <1>17, <1>18, AltersForm
  <2>9. PICK j \in DOMAIN q : /\ j > k /\ q[j].op = "WRITE" /\ q[j].ys[1] = y
                              /\ \A m \in DOMAIN q : m > k /\ Mentions(q[m], y) => m = j
    BY <2>1, <2>7, <2>8, OnlyWrittenMeans
  <2>10. y \in Ids /\ y # x
    <3>1. y \in Ids
      BY <1>13, <2>1, <2>7, <2>8, OnlyWrittenMeans
    <3>2. y # x
      BY <1>1, <1>2, <1>13, <2>2, <2>4, <2>7 DEF Form
    <3> QED
      BY <3>1, <3>2
  <2>11. \A m \in DOMAIN p : m > k => m > h
    BY <1>1, <1>13, <2>2, FormFacts
  <2>12. ASSUME NEW m \in DOMAIN p, m > k, Redundant(p, h, s, m)
         PROVE  FALSE
    <3>1. a[m] = WRITE(p[m].l, x) /\ p[m].op = "WRITE"
      BY <1>8, <2>11, <2>12 DEF Redundant
    <3>2. p[m] \in StraightInstrs /\ WellFormed(p[m])
      BY <1>1, FormFacts
    <3>3. a[m].op = "WRITE" /\ DOMAIN a[m].ys = {1} /\ a[m].ys[1] = x
      BY <1>4, <3>1, <3>2, WriteForOK
    <3>4. q[m] = a[m]
      BY <1>16, <2>11, <2>12, <3>3
    <3>5. Mentions(q[m], x)
      BY <3>3, <3>4 DEF Mentions
    <3> QED
      BY <1>13, <1>19, <2>11, <2>12, <3>5 DEF Unused
  <2>13. \A m \in DOMAIN p : m > k => a[m] = p[m]
    BY <1>8, <2>11, <2>12
  <2>14. q[j] = p[j]
    <3>1. j \in DOMAIN p /\ j > h /\ a[j] = p[j]
      BY <1>13, <2>9, <2>11, <2>13
    <3>2. q[j] = a[j]
      BY <1>16, <2>9, <3>1
    <3> QED
      BY <3>1, <3>2
  <2>15. \A m \in DOMAIN p : m > k /\ Mentions(p[m], y) => Mentions(q[m], y)
    <3>1. ASSUME NEW m \in DOMAIN p, m > k, Mentions(p[m], y), q[m] # a[m]
          PROVE  Mentions(q[m], y)
      <4>1. a[m].op = "COPY" /\ a[m].ys[1] = x /\ a[m] = p[m] /\ m > h
        BY <1>16, <2>11, <2>13, <3>1
      <4>2. DOMAIN p[m].ys = {1}
        BY <1>1, <4>1, FormFacts, OperandsIn
      <4>3. p[m].x = y
        BY <2>10, <3>1, <4>1, <4>2 DEF Mentions
      <4> QED
        BY <1>23, <4>3 DEF Mentions
    <3> QED
      BY <2>13, <3>1
  <2>16. OnlyWritten(p, k)
    <3>1. j \in DOMAIN p /\ p[j].op = "WRITE" /\ k \in DOMAIN p
      BY <1>13, <2>9, <2>14
    <3>2. Mentions(p[j], y)
      BY <1>1, <2>9, <2>10, <2>14, <3>1, FormFacts, WritesOne
    <3>3. \A m \in DOMAIN p : m > k /\ Mentions(p[m], y) <=> m = j
      BY <1>13, <2>9, <2>15, <3>1, <3>2
    <3>4. {m \in FindIdUsage(p, y) : m > k} = {j}
      BY <3>1, <3>3 DEF FindIdUsage, Mentions
    <3> QED
      BY <2>7, <3>1, <3>4 DEF OnlyWritten
  <2>17. Redundant(p, h, s, j)
    <3>1. h < k /\ k < j
      BY <1>1, <1>13, <2>2, <2>9, FormFacts
    <3> QED
      BY <1>13, <2>1, <2>4, <2>5, <2>6, <2>7, <2>9, <2>14, <2>16, <3>1 DEF Redundant
  <2> QED
    BY <1>13, <2>9, <2>12, <2>17
<1>26. Rewrites(p, q, h)
  <2>1. \A k \in DOMAIN p : \A t \in Temps : Reads(a[k], t) =>
          Reads(p[k], t) \/ \A i \in DOMAIN p : i > h => p[i].x # t
    BY <1>6 DEF Rewrites
  <2>2. \A k \in DOMAIN p : \A t : Reads(q[k], t) => Reads(a[k], t)
    BY <1>13, <1>15, <1>16
  <2> QED
    BY <1>13, <1>17, <1>18, <1>21, <1>24, <1>25, <2>1, <2>2 DEF Rewrites
<1>27. Result(p, q, h, Dropped(new))
  BY <1>2, <1>3, <1>18, <1>19 DEF Result, Dropped
<1> QED
  BY <1>26, <1>27 DEF Step

(* The case of COPYS: the writes of later copies of the string are redirected, *)
(* then the string is copied for the name.                                     *)
LEMMA StringStep ==
    ASSUME NEW p, NEW h \in DOMAIN p, OptOK(p, h), NEW tail, Behind(p, h, tail),
           p[h].op = "COPYS"
    PROVE  Step(p, h, CopyStringCase(p[h], tail))
<1>1. PICK x, s : x = p[h].x /\ s = p[h].c
  OBVIOUS
<1>2. PICK same : same = ReplaceSameStr(tail, x, s)
  OBVIOUS
<1>3. PICK new : new = Id2Str(same, x, s)
  OBVIOUS
<1>4. CASE FindIdUsage(new, x) = {}
  <2>1. Step(p, h, Dropped(new))
    BY <1>1, <1>2, <1>3, <1>4, StrDropped
  <2> QED
    BY <1>1, <1>2, <1>3, <1>4, <2>1 DEF CopyStringCase
<1>5. CASE FindIdUsage(new, x) # {}
  <2>1. CopyStringCase(p[h], tail) = Kept(p[h], same)
    BY <1>1, <1>2, <1>3, <1>5 DEF CopyStringCase
  <2>2. PICK q : q = Join(p, h, same)
    OBVIOUS
  <2>3. Rewrites(p, q, h) /\ Behind(q, h, same)
    BY <1>1, <1>2, <2>2, SameStrRewrites
  <2>4. Result(p, q, h, Kept(p[h], same))
    BY <2>3 DEF Result, Kept
  <2> QED
    BY <2>1, <2>3, <2>4 DEF Step
<1> QED
  BY <1>4, <1>5

(* One call of a case of the pass. *)
LEMMA InstrStep ==
    ASSUME NEW p, NEW h \in DOMAIN p, OptOK(p, h), NEW tail, Behind(p, h, tail),
           NEW source, Form(source)
    PROVE  Step(p, h, OptimizeInstr(source, p[h], tail))
<1>1. CASE p[h].op = "COPY"
  BY <1>1, CopyStep DEF OptimizeInstr
<1>2. CASE p[h].op = "COPYC"
  BY <1>2, ConstantStep DEF OptimizeInstr
<1>3. CASE p[h].op = "COPYS"
  BY <1>3, StringStep DEF OptimizeInstr
<1>4. CASE p[h].op = "COPYN"
  BY <1>4, NoneStep DEF OptimizeInstr
<1>5. CASE p[h].op \notin {"COPY", "COPYC", "COPYS", "COPYN"}
  <2>1. OptimizeInstr(source, p[h], tail) = Kept(p[h], tail)
    BY <1>5 DEF OptimizeInstr
  <2> QED
    BY <2>1, KeptAsIs
<1> QED
  BY <1>1, <1>2, <1>3, <1>4, <1>5

(* The program without the instruction at h is again one the pass may be at h of. *)
LEMMA DropOK ==
    ASSUME NEW q, Form(q), NEW h \in DOMAIN q, q[h].op \in Defining,
           ReadInTime(q, h + 1), Late(q, h + 1), HeadString(q, h + 1),
           Unused(q, h, q[h].x), NEW r, r = Drop(q, h)
    PROVE  OptOK(r, h) /\ Keeps(q, r)
<1>1. PICK n \in Nat : n = Len(q) /\ DOMAIN q = 1 .. n
  BY FormFacts
<1>2. h \in Nat /\ 1 <= h /\ h < n /\ h + 1 \in DOMAIN q /\ h < Len(q)
  <2>1. q[h].op # "HALT"
    BY DEF Defining
  <2> QED
    BY <1>1, <2>1, FormFacts
<1>3. Form(r) /\ ReadInTime(r, h) /\ Len(r) = n - 1
  BY <1>1, DropForm
<1>4. DOMAIN r = 1 .. n - 1 /\ r \in Seq(StraightInstrs) /\ q \in Seq(StraightInstrs)
  BY <1>3, FormFacts
<1>5. ASSUME NEW k \in DOMAIN r, k >= h
      PROVE  k + 1 \in DOMAIN q /\ r[k] = q[k + 1]
  <2>1. ~ (k < h) /\ k \in 1 .. Len(q) - 1
    BY <1>1, <1>2, <1>4, <1>5
  <2>2. r[k] = q[k + 1]
    BY <2>1 DEF Drop
  <2> QED
    BY <1>1, <1>4, <2>2
<1>6. Late(r, h)
  <2>1. ASSUME NEW k \in DOMAIN r, k > h, r[k].x \in Users
        PROVE  r[k].op \in {"COPY", "COPYC"}
    <3>1. PICK m : m = k + 1
      OBVIOUS
    <3>2. k >= h /\ m > h + 1
      BY <1>2, <1>4, <2>1, <3>1
    <3>3. m \in DOMAIN q /\ r[k] = q[m]
      BY <1>5, <3>1, <3>2
    <3> QED
      BY <2>1, <3>2, <3>3 DEF Late
  <2> QED
    BY <2>1 DEF Late
<1>7. HeadString(r, h)
  <2>1. SUFFICES ASSUME h \in DOMAIN r, r[h].op = "COPYS", r[h].x \in Users,
                        NEW k \in DOMAIN r, k > h, r[k].op = "COPYS", r[k].c = r[h].c
                 PROVE  ~ OnlyWritten(r, k)
    BY DEF HeadString
  <2>2. h >= h /\ k >= h
    BY <1>2, <1>4, <2>1
  <2>3. PICK a, b : a = h + 1 /\ b = k + 1
    OBVIOUS
  <2>4. a \in DOMAIN q /\ r[h] = q[a] /\ b \in DOMAIN q /\ r[k] = q[b]
    BY <1>5, <2>1, <2>2, <2>3
  <2>5. b > a
    BY <1>2, <1>4, <2>1, <2>3
  <2>6. ~ OnlyWritten(q, b)
    BY <2>1, <2>3, <2>4, <2>5 DEF HeadString
  <2>7. \A i \in DOMAIN r : i >= k => r[i] = q[i + 1]
    <3>1. \A i \in DOMAIN r : i >= k => i >= h
      BY <1>2, <1>4, <2>1
    <3> QED
      BY <1>5, <3>1
  <2>8. Len(q) = Len(r) + 1
    BY <1>1, <1>2, <1>3
  <2>9. OnlyWritten(r, k) <=> OnlyWritten(q, k + 1)
    BY <1>4, <2>7, <2>8, OnlyWrittenShift
  <2> QED
    BY <2>3, <2>6, <2>9
<1>8. OptOK(r, h)
  BY <1>3, <1>6, <1>7 DEF OptOK
<1>9. ASSUME NEW out, Writes(q, out)
      PROVE  Writes(r, out)
  <2>1. PICK E, O : Runs(q, E, O, Len(q)) /\ O[Len(q)] = out
    BY <1>9 DEF Writes
  <2>2. Writes(Drop(q, h), O[Len(q)])
    BY <1>2, <2>1, DropRuns DEF Unused
  <2> QED
    BY <2>1, <2>2
<1> QED
  BY <1>8, <1>9 DEF Keeps

(* The pass with kept behind it and rest before it. *)
PassOK(kept, rest) ==
    /\ kept \in Seq(StraightInstrs) /\ rest \in Seq(StraightInstrs)
    /\ OptOK(kept \o rest, Len(kept) + 1)

(* The program p and the place h of the pass. *)
Place(kept, rest, p, h) == p = kept \o rest /\ h = Len(kept) + 1

(* Two lists one after the other, place by place. *)
LEMMA ConcatAt ==
    ASSUME NEW S, NEW s \in Seq(S), NEW t \in Seq(S),
           NEW a, a = Len(s), NEW b, b = Len(t), NEW r, r = s \o t
    PROVE  /\ r \in Seq(S) /\ Len(r) = a + b
           /\ \A k \in 1 .. a + b : r[k] = IF k <= a THEN s[k] ELSE t[k - a]
BY ConcatProperties

(* kept and rest, seen as one program with a place in it. *)
LEMMA PassAt ==
    ASSUME NEW kept, NEW rest, PassOK(kept, rest), rest # <<>>,
           NEW p, NEW h, Place(kept, rest, p, h)
    PROVE  /\ h \in DOMAIN p /\ p[h] = Head(rest) /\ Behind(p, h, Tail(rest))
           /\ OptOK(p, h) /\ Len(p) = Len(kept) + Len(rest)
           /\ \A k \in DOMAIN p : k < h => p[k] = kept[k]
<1>1. PICK a \in Nat : a = Len(kept) /\ h = a + 1
  BY DEF PassOK, Place
<1>2. PICK b \in Nat : b = Len(rest) /\ b # 0
  BY DEF PassOK
<1>3. /\ p \in Seq(StraightInstrs) /\ Len(p) = a + b
      /\ \A i \in 1 .. a + b : p[i] = IF i <= a THEN kept[i] ELSE rest[i - a]
  BY <1>1, <1>2, ConcatAt DEF PassOK, Place
<1>4. DOMAIN p = 1 .. a + b
  BY <1>3
<1>5. /\ Tail(rest) \in Seq(StraightInstrs) /\ Len(Tail(rest)) = b - 1
      /\ \A i \in 1 .. b - 1 : Tail(rest)[i] = rest[i + 1]
  BY <1>2, HeadTailProperties DEF PassOK
<1>6. p[h] = Head(rest) /\ h \in DOMAIN p
  BY <1>1, <1>2, <1>3, <1>4 DEF PassOK
<1>7. Behind(p, h, Tail(rest))
  <2>1. Len(p) - h = b - 1
    <3>1. PICK l \in Nat : l = a + b
      OBVIOUS
    <3>2. l - h = b - 1
      BY <1>1, <3>1
    <3> QED
      BY <1>3, <3>1, <3>2
  <2>2. ASSUME NEW i \in 1 .. b - 1
        PROVE  Tail(rest)[i] = p[i + h]
    <3>1. PICK m : m = i + h
      OBVIOUS
    <3>2. m \in 1 .. a + b /\ ~ (m <= a) /\ m - a = i + 1
      BY <1>1, <1>2, <3>1
    <3>3. p[m] = rest[i + 1]
      BY <1>3, <3>2
    <3> QED
      BY <1>5, <3>1, <3>3
  <2> QED
    BY <1>5, <2>2, <2>1 DEF Behind
<1>8. \A k \in DOMAIN p : k < h => p[k] = kept[k]
  BY <1>1, <1>3, <1>4
<1> QED
  BY <1>1, <1>2, <1>3, <1>6, <1>7, <1>8 DEF PassOK, Place

(* One step of the pass in a list: the code the pass has made so far and has *)
(* still to do writes whatever it wrote before.                              *)
LEMMA PassStep ==
    ASSUME NEW kept, NEW rest, PassOK(kept, rest), rest # <<>>,
           NEW source, Form(source),
           NEW done, done = OptimizeInstr(source, Head(rest), Tail(rest))
    PROVE  /\ PassOK(kept \o done.kept, done.rest)
           /\ Keeps(kept \o rest, (kept \o done.kept) \o done.rest)
<1>1. PICK p, h : Place(kept, rest, p, h)
  BY DEF Place
<1>2. p = kept \o rest /\ h = Len(kept) + 1
  BY <1>1 DEF Place
<1>3. /\ h \in DOMAIN p /\ p[h] = Head(rest) /\ Behind(p, h, Tail(rest))
      /\ OptOK(p, h)
      /\ \A k \in DOMAIN p : k < h => p[k] = kept[k]
  BY <1>1, PassAt
<1>4. Form(p) /\ ReadInTime(p, h) /\ p[h] \in StraightInstrs
  BY <1>3, FormFacts DEF OptOK
<1>5. PICK q : Rewrites(p, q, h) /\ Result(p, q, h, done)
  BY <1>3, InstrStep DEF Step
<1>6. Form(q) /\ ReadInTime(q, h + 1) /\ DOMAIN q = DOMAIN p
  BY <1>3, <1>4, <1>5, RewritesForm
<1>7. /\ Late(q, h + 1) /\ HeadString(q, h + 1) /\ Keeps(p, q)
      /\ Len(q) = Len(p) /\ q \in Seq(StraightInstrs)
      /\ \A k \in DOMAIN p : k <= h => q[k] = p[k]
  BY <1>5 DEF Rewrites
<1>8. PICK n \in Nat : n = Len(q) /\ DOMAIN q = 1 .. n
  BY <1>6, FormFacts
<1>9. PICK a \in Nat : a = Len(kept) /\ h = a + 1 /\ kept \in Seq(StraightInstrs)
  BY <1>2 DEF PassOK
<1>10. PICK new : new = done.rest
  OBVIOUS
<1>11. h <= n
  BY <1>3, <1>6, <1>8
<1>12. h \in Nat
  BY <1>9
<1>13. PICK b \in Nat : b = n - h
  BY <1>11, <1>12
<1>14. new \in Seq(StraightInstrs) /\ Len(new) = b /\ \A k \in 1 .. b : new[k] = q[k + h]
  BY <1>5, <1>8, <1>10, <1>13 DEF Result, Behind
<1>15. \A k \in DOMAIN q : k < h => q[k] = kept[k]
  BY <1>3, <1>6, <1>7, <1>8, <1>9
<1>16. q[h] = p[h]
  BY <1>3, <1>7, <1>9
<1>17. CASE done.kept = <<p[h]>>
  <2>1. PICK front : front = kept \o <<p[h]>>
    OBVIOUS
  <2>2. /\ front \in Seq(StraightInstrs) /\ Len(front) = a + 1
        /\ \A k \in 1 .. a + 1 : front[k] = IF k <= a THEN kept[k] ELSE p[h]
    <3>1. /\ <<p[h]>> \in Seq(StraightInstrs) /\ Len(<<p[h]>>) = 1 /\ <<p[h]>>[1] = p[h]
      BY <1>4
    <3>2. /\ front \in Seq(StraightInstrs) /\ Len(front) = a + 1
          /\ \A k \in 1 .. a + 1 : front[k] = IF k <= a THEN kept[k] ELSE <<p[h]>>[k - a]
      BY <1>9, <2>1, <3>1, ConcatAt
    <3>3. \A k \in 1 .. a + 1 : ~ (k <= a) => k - a = 1
      BY <1>9
    <3> QED
      BY <3>1, <3>2, <3>3
  <2>3. PICK r : r = front \o new
    OBVIOUS
  <2>4. /\ r \in Seq(StraightInstrs) /\ Len(r) = h + b
        /\ \A k \in 1 .. h + b : r[k] = IF k <= h THEN front[k] ELSE new[k - h]
    <3>1. front \in Seq(StraightInstrs) /\ h = Len(front)
      BY <1>9, <2>2
    <3>2. new \in Seq(StraightInstrs) /\ b = Len(new)
      BY <1>14
    <3> QED
      BY <2>3, <3>1, <3>2, ConcatAt
  <2>5. ASSUME NEW k \in 1 .. Len(r)
        PROVE  r[k] = q[k]
    <3>1. k \in 1 .. h + b /\ k \in 1 .. n
      BY <1>12, <1>13, <2>4, <2>5
    <3>2. CASE k <= h
      <4>1. r[k] = IF k <= a THEN kept[k] ELSE p[h]
        BY <1>9, <2>2, <2>4, <3>1, <3>2
      <4>2. (k <= a /\ k < h) \/ (~ (k <= a) /\ k = h)
        BY <1>9, <3>1, <3>2
      <4> QED
        BY <1>8, <1>15, <1>16, <3>1, <4>1, <4>2
    <3>3. CASE ~ (k <= h)
      <4>1. PICK i : i = k - h
        OBVIOUS
      <4>2. i \in 1 .. b /\ i + h = k
        BY <1>12, <3>1, <3>3, <4>1
      <4> QED
        BY <1>14, <2>4, <3>1, <3>3, <4>1, <4>2
    <3> QED
      BY <3>2, <3>3
  <2>6. Len(r) = Len(q)
    BY <1>8, <1>12, <1>13, <2>4
  <2>7. r = q
    BY <1>7, <2>4, <2>5, <2>6, SeqEqual
  <2>8. OptOK(q, h + 1) /\ Len(front) + 1 = h + 1
    BY <1>6, <1>7, <1>9, <2>2 DEF OptOK
  <2>9. kept \o done.kept = front
    BY <1>17, <2>1
  <2>10. PassOK(front, new)
    BY <1>14, <2>2, <2>3, <2>7, <2>8 DEF PassOK
  <2> QED
    BY <1>2, <1>7, <1>10, <2>3, <2>7, <2>9, <2>10
<1>18. CASE done.kept = <<>> /\ p[h].op \in Defining /\ Unused(q, h, p[h].x)
  <2>1. PICK r : r = Drop(q, h)
    OBVIOUS
  <2>2. OptOK(r, h) /\ Keeps(q, r)
    BY <1>3, <1>6, <1>7, <1>16, <1>18, <2>1, DropOK
  <2>3. kept \o done.kept = kept
    BY <1>9, <1>18, ConcatEmptySeq
  <2>4. PICK t : t = kept \o new
    OBVIOUS
  <2>5. /\ t \in Seq(StraightInstrs) /\ Len(t) = a + b
        /\ \A k \in 1 .. a + b : t[k] = IF k <= a THEN kept[k] ELSE new[k - a]
    <3>1. new \in Seq(StraightInstrs) /\ b = Len(new)
      BY <1>14
    <3>2. kept \in Seq(StraightInstrs) /\ a = Len(kept)
      BY <1>9
    <3> QED
      BY <2>4, <3>1, <3>2, ConcatAt
  <2>6. r \in Seq(StraightInstrs) /\ Len(r) = a + b
    <3>1. Form(r)
      BY <2>2 DEF OptOK
    <3>2. Len(r) = n - 1
      BY <1>3, <1>6, <1>8, <1>11, <1>16, <1>18, <2>1, DropForm
    <3> QED
      BY <1>9, <1>13, <3>1, <3>2, FormFacts
  <2>7. ASSUME NEW k \in 1 .. Len(t)
        PROVE  t[k] = r[k]
    <3>1. k \in 1 .. a + b /\ k \in 1 .. Len(q) - 1
      BY <1>8, <1>9, <1>13, <2>5, <2>7
    <3>2. r[k] = IF k < h THEN q[k] ELSE q[k + 1]
      BY <2>1, <3>1 DEF Drop
    <3>3. CASE k <= a
      <4>1. k < h /\ k \in DOMAIN q
        BY <1>8, <1>9, <1>13, <3>1, <3>3
      <4> QED
        BY <1>15, <2>5, <3>1, <3>2, <3>3, <4>1
    <3>4. CASE ~ (k <= a)
      <4>1. PICK i : i = k - a
        OBVIOUS
      <4>2. i \in 1 .. b /\ i + h = k + 1 /\ ~ (k < h)
        BY <1>9, <3>1, <3>4, <4>1
      <4> QED
        BY <1>14, <2>5, <3>1, <3>2, <3>4, <4>1, <4>2
    <3> QED
      BY <3>3, <3>4
  <2>8. t = r
    BY <2>5, <2>6, <2>7, SeqEqual
  <2>9. PassOK(kept, new)
    BY <1>9, <1>14, <2>2, <2>4, <2>8 DEF PassOK
  <2>10. Keeps(p, t)
    BY <1>7, <2>2, <2>8 DEF Keeps
  <2> QED
    BY <1>2, <1>10, <2>3, <2>4, <2>9, <2>10
<1> QED
  BY <1>5, <1>17, <1>18 DEF Result
-----------------------------------------------------------------------------
(* The pipeline. *)

(* The machine m executes the straight-line code pgm, or failed. *)
Executes(pgm, m) ==
    \/ m.status = "error"
    \/ \E E, O : \E k \in DOMAIN pgm :
         /\ Runs(pgm, E, O, k)
         /\ \/ m = At(pgm, E[k], O[k], k)
            \/ k = Len(pgm) /\ m.status = "halt" /\ m.out = O[k]

(* The machine m is on the way to write out, or has. *)
Reaches(pgm, m, out) ==
    \E E, O : /\ Runs(pgm, E, O, Len(pgm)) /\ O[Len(pgm)] = out
              /\ \/ \E k \in DOMAIN pgm : m = At(pgm, E[k], O[k], k)
                 \/ m.status = "halt" /\ m.out = out

(* The machine at the start. *)
LEMMA Loaded ==
    ASSUME NEW pgm, Form(pgm)
    PROVE  /\ Executes(pgm, Load(pgm))
           /\ \A out : Writes(pgm, out) => Reaches(pgm, Load(pgm), out)
<1>1. PICK n \in Nat : n = Len(pgm) /\ DOMAIN pgm = 1 .. n /\ 1 <= n
  BY FormFacts
<1>2. Load(pgm) = At(pgm, <<>>, <<>>, 1)
  BY DEF Load, At
<1>3. 1 \in DOMAIN pgm
  BY <1>1
<1>4. Executes(pgm, Load(pgm))
  <2>1. PICK E : E = [k \in Nat |-> <<>>]
    OBVIOUS
  <2>2. E[1] = <<>>
    BY <2>1
  <2>3. 1 .. 1 - 1 = {}
    OBVIOUS
  <2>4. Runs(pgm, E, E, 1)
    BY <2>2, <2>3 DEF Runs
  <2> QED
    BY <1>2, <1>3, <2>2, <2>4 DEF Executes
<1>5. ASSUME NEW out, Writes(pgm, out)
      PROVE  Reaches(pgm, Load(pgm), out)
  <2>1. PICK E, O : Runs(pgm, E, O, Len(pgm)) /\ O[Len(pgm)] = out
    BY <1>5 DEF Writes
  <2>2. E[1] = <<>> /\ O[1] = <<>>
    BY <2>1 DEF Runs
  <2> QED
    BY <1>2, <1>3, <2>1, <2>2 DEF Reaches
<1> QED
  BY <1>4, <1>5

(* A machine that executes pgm goes on doing so. *)
LEMMA ExecutesStep ==
    ASSUME NEW pgm, Form(pgm), NEW m, Executes(pgm, m), m.status = "run"
    PROVE  Executes(pgm, Move(pgm, m))
<1>1. PICK n \in Nat : n = Len(pgm) /\ DOMAIN pgm = 1 .. n /\ 1 <= n
  BY FormFacts
<1>2. PICK E, O : \E k \in DOMAIN pgm : Runs(pgm, E, O, k) /\ m = At(pgm, E[k], O[k], k)
  BY DEF Executes
<1>3. PICK k \in DOMAIN pgm : Runs(pgm, E, O, k) /\ m = At(pgm, E[k], O[k], k)
  BY <1>2
<1>4. CASE k = n
  <2>1. Move(pgm, m).status = "halt" /\ Move(pgm, m).out = O[k]
    BY <1>1, <1>3, <1>4, MoveHalts
  <2> QED
    BY <1>1, <1>3, <1>4, <2>1 DEF Executes
<1>5. CASE k # n
  <2>1. k \in Nat /\ 1 <= k /\ k <= n /\ k + 1 \in DOMAIN pgm /\ k \in 1 .. k
    BY <1>1, <1>5
  <2>2. EnvOK(E[k])
    BY <1>1, <1>3, <2>1, EnvAlong
  <2>3. \/ Move(pgm, m).status = "error"
        \/ \E f, w : /\ Does(pgm[k], E[k], O[k], f, w)
                     /\ Move(pgm, m) = At(pgm, f, w, k + 1)
    BY <1>3, <2>1, <2>2, MoveDoes
  <2>4. ASSUME NEW f, NEW w, Does(pgm[k], E[k], O[k], f, w),
               Move(pgm, m) = At(pgm, f, w, k + 1)
        PROVE  Executes(pgm, Move(pgm, m))
    <3>1. PICK F : F = [i \in Nat |-> IF i <= k THEN E[i] ELSE f]
      OBVIOUS
    <3>2. PICK P : P = [i \in Nat |-> IF i <= k THEN O[i] ELSE w]
      OBVIOUS
    <3>3. \A i \in Nat : i <= k => F[i] = E[i] /\ P[i] = O[i]
      BY <3>1, <3>2
    <3>4. F[k + 1] = f /\ P[k + 1] = w
      BY <2>1, <3>1, <3>2
    <3>5. ASSUME NEW i \in 1 .. k
          PROVE  Does(pgm[i], F[i], P[i], F[i + 1], P[i + 1])
      <4>1. i \in Nat /\ i <= k /\ i \in 1 .. k
        BY <2>1
      <4>2. F[i] = E[i] /\ P[i] = O[i]
        BY <3>3, <4>1
      <4>3. CASE i = k
        BY <2>4, <3>4, <4>2, <4>3
      <4>4. CASE i # k
        <5>1. i \in 1 .. k - 1 /\ i + 1 \in Nat /\ i + 1 <= k
          BY <2>1, <4>1, <4>4
        <5>2. F[i + 1] = E[i + 1] /\ P[i + 1] = O[i + 1]
          BY <3>3, <5>1
        <5>3. Does(pgm[i], E[i], O[i], E[i + 1], O[i + 1])
          BY <1>3, <5>1 DEF Runs
        <5> QED
          BY <4>2, <5>2, <5>3
      <4> QED
        BY <4>3, <4>4
    <3>6. F[1] = <<>> /\ P[1] = <<>>
      BY <1>3, <2>1, <3>3 DEF Runs
    <3>7. Runs(pgm, F, P, k + 1)
      <4>1. PICK n1 \in Nat : n1 = k + 1 /\ 1 .. n1 - 1 = 1 .. k
        BY <2>1
      <4>2. \A i \in 1 .. n1 - 1 : Does(pgm[i], F[i], P[i], F[i + 1], P[i + 1])
        BY <3>5, <4>1
      <4>3. Runs(pgm, F, P, n1)
        BY <3>6, <4>2 DEF Runs
      <4> QED
        BY <4>1, <4>3
    <3> QED
      BY <2>1, <2>4, <3>4, <3>7 DEF Executes
  <2> QED
    BY <2>3, <2>4 DEF Executes
<1> QED
  BY <1>4, <1>5

(* A machine on the way to write out goes on towards it, and cannot fail. *)
LEMMA ReachesStep ==
    ASSUME NEW pgm, Form(pgm), NEW m, NEW out, Reaches(pgm, m, out), m.status = "run"
    PROVE  Reaches(pgm, Move(pgm, m), out)
<1>1. PICK n \in Nat : n = Len(pgm) /\ DOMAIN pgm = 1 .. n /\ 1 <= n
  BY FormFacts
<1>2. PICK E, O : /\ Runs(pgm, E, O, n) /\ O[n] = out
                  /\ \E k \in DOMAIN pgm : m = At(pgm, E[k], O[k], k)
  BY <1>1 DEF Reaches
<1>3. PICK k \in DOMAIN pgm : m = At(pgm, E[k], O[k], k)
  BY <1>2
<1>4. CASE k = n
  BY <1>1, <1>2, <1>3, <1>4, MoveHalts DEF Reaches
<1>5. CASE k # n
  <2>1. k \in Nat /\ k \in 1 .. n /\ k \in 1 .. n - 1 /\ k + 1 \in DOMAIN pgm
    BY <1>1, <1>5
  <2>2. EnvOK(E[k])
    BY <1>1, <1>2, <2>1, EnvAlong
  <2>3. Does(pgm[k], E[k], O[k], E[k + 1], O[k + 1])
    BY <1>2, <2>1 DEF Runs
  <2>4. Move(pgm, m) = At(pgm, E[k + 1], O[k + 1], k + 1)
    BY <1>3, <2>1, <2>2, <2>3, MoveDoes
  <2> QED
    BY <1>1, <1>2, <2>1, <2>4 DEF Reaches
<1> QED
  BY <1>4, <1>5

-----------------------------------------------------------------------------
Phases == {"parsed", "optimize", "unoptimized", "execute", "done"}

(* The one call of the pass, and what it has made so far. *)
Passing(kept, rest) ==
    /\ calls = <<[kept |-> kept, rest |-> rest]>>
    /\ PassOK(kept, rest)
    /\ Keeps(target, kept \o rest)

StraightInv ==
    /\ phase # "parsed" => StraightLineCode(target)
    /\ phase = "optimize" => \E kept, rest : Passing(kept, rest)
    /\ phase \in {"unoptimized", "execute", "done"} => Form(inst) /\ Keeps(target, inst)
    /\ phase = "unoptimized" => Executes(target, plain)
    /\ phase \in {"execute", "done"} /\ plain.status = "halt" => Reaches(inst, vm, plain.out)
    /\ phase = "done" => vm.status # "run"

SpyInv ==
    /\ phase \in Phases /\ spy \in Sources
    /\ StraightLine(spy) => StraightInv

(* TranslateStep: the pass starts with nothing kept, on code as the translator *)
(* makes it.                                                                   *)
LEMMA TranslateStepKeeps ==
    ASSUME SpyInv, TranslateStep
    PROVE  SpyInv'
<1>1. /\ phase = "parsed" /\ phase' = "optimize" /\ spy' = spy /\ spy \in Sources
      /\ target' = Translator(spy) /\ calls' = <<Entered(target')>>
  BY DEF TranslateStep, SpyInv
<1>2. ASSUME StraightLine(spy)
      PROVE  StraightLineCode(target') /\ \E kept, rest : Passing(kept, rest)'
  <2>1. StraightLineCode(target')
    BY <1>1, <1>2, TranslatorAssumption
  <2>2. PICK p : p = target'
    OBVIOUS
  <2>3. StraightLineCode(p) /\ Form(p)
    BY <2>1, <2>2 DEF StraightLineCode
  <2>4. p \in Seq(StraightInstrs) /\ DOMAIN p = 1 .. Len(p)
    BY <2>3, FormFacts
  <2>5. <<>> \o p = p /\ Len(<<>>) + 1 = 1 /\ <<>> \in Seq(StraightInstrs)
    BY <2>4, ConcatEmptySeq
  <2>6. OptOK(p, 1)
    <3>1. \A k \in DOMAIN p : p[k].x \in Users => p[k].op = "COPY"
      BY <2>3 DEF StraightLineCode
    <3>2. Late(p, 1) /\ HeadString(p, 1)
      BY <3>1 DEF Late, HeadString
    <3> QED
      BY <2>3, <3>2 DEF OptOK, StraightLineCode
  <2>7. PassOK(<<>>, p)
    BY <2>4, <2>5, <2>6 DEF PassOK
  <2>8. Keeps(p, <<>> \o p)
    BY <2>5 DEF Keeps
  <2>9. calls' = <<[kept |-> <<>>, rest |-> p]>>
    BY <1>1, <2>2 DEF Entered
  <2>10. Passing(<<>>, p)'
    BY <2>2, <2>7, <2>8, <2>9 DEF Passing
  <2> QED
    BY <2>1, <2>10
<1> QED
  BY <1>1, <1>2 DEF SpyInv, StraightInv, Phases

(* OptimizeStep: straight-line code has no FUNC_DEF, so the one call takes a *)
(* step in its list.                                                         *)
LEMMA OptimizeStepKeeps ==
    ASSUME SpyInv, OptimizeStep
    PROVE  SpyInv'
<1>1. /\ phase = "optimize" /\ phase' = "optimize" /\ spy' = spy /\ target' = target
      /\ ~ Finished(calls) /\ calls' = OptimizePgm(target, calls)
  BY DEF OptimizeStep
<1>2. ASSUME StraightLine(spy)
      PROVE  StraightLineCode(target) /\ \E kept, rest : Passing(kept, rest)'
  <2>1. StraightLineCode(target) /\ Form(target)
    BY <1>1, <1>2 DEF SpyInv, StraightInv, StraightLineCode
  <2>2. PICK kept, rest : Passing(kept, rest)
    BY <1>1, <1>2 DEF SpyInv, StraightInv
  <2>3. PICK me : me = [kept |-> kept, rest |-> rest]
    OBVIOUS
  <2>4. calls = <<me>> /\ me.kept = kept /\ me.rest = rest
    BY <2>2, <2>3 DEF Passing
  <2>5. PassOK(kept, rest) /\ Keeps(target, kept \o rest)
    BY <2>2 DEF Passing
  <2>6. rest # <<>>
    BY <1>1, <2>4 DEF Finished
  <2>7. PICK done : done = OptimizeInstr(target, Head(rest), Tail(rest))
    OBVIOUS
  <2>8. /\ PassOK(kept \o done.kept, done.rest)
        /\ Keeps(kept \o rest, (kept \o done.kept) \o done.rest)
    BY <2>1, <2>5, <2>6, <2>7, PassStep
  <2>9. Head(rest).op # "FUNC_DEF"
    <3>1. Head(rest) \in StraightInstrs
      BY <2>5, <2>6, HeadTailProperties DEF PassOK
    <3> QED
      BY <3>1, FieldsOf DEF Defining
  <2>10. Head(calls) = me /\ Tail(calls) = <<>>
    BY <2>4
  <2>11. PICK now : now = [kept |-> kept \o done.kept, rest |-> done.rest]
    OBVIOUS
  <2>12. calls' = <<now>> \o <<>>
    BY <1>1, <2>4, <2>6, <2>7, <2>9, <2>10, <2>11 DEF OptimizePgm
  <2>13. calls' = <<now>>
    BY <2>12
  <2>14. Keeps(target, (kept \o done.kept) \o done.rest)
    BY <2>5, <2>8 DEF Keeps
  <2>15. Passing(kept \o done.kept, done.rest)'
    BY <1>1, <2>8, <2>11, <2>13, <2>14 DEF Passing
  <2> QED
    BY <2>1, <2>15
<1> QED
  BY <1>1, <1>2 DEF SpyInv, StraightInv

(* Optimized: what the pass has kept is all of the code. *)
LEMMA OptimizedKeeps ==
    ASSUME SpyInv, Optimized
    PROVE  SpyInv'
<1>1. /\ phase = "optimize" /\ phase' = "unoptimized" /\ spy' = spy /\ target' = target
      /\ Finished(calls) /\ inst' = calls[1].kept /\ plain' = Load(target)
  BY DEF Optimized
<1>2. ASSUME StraightLine(spy)
      PROVE  /\ StraightLineCode(target) /\ Form(inst') /\ Keeps(target, inst')
             /\ Executes(target, plain')
  <2>1. StraightLineCode(target) /\ Form(target)
    BY <1>1, <1>2 DEF SpyInv, StraightInv, StraightLineCode
  <2>2. PICK kept, rest : Passing(kept, rest)
    BY <1>1, <1>2 DEF SpyInv, StraightInv
  <2>3. rest = <<>> /\ inst' = kept
    BY <1>1, <2>2 DEF Passing, Finished
  <2>4. kept \o rest = kept
    BY <2>2, <2>3, ConcatEmptySeq DEF Passing, PassOK
  <2>5. Form(kept) /\ Keeps(target, kept)
    BY <2>2, <2>4 DEF Passing, PassOK, OptOK
  <2> QED
    BY <1>1, <2>1, <2>3, <2>5, Loaded
<1> QED
  BY <1>1, <1>2 DEF SpyInv, StraightInv, Phases

(* ExecutePlain: when that execution has halted, the optimized code writes what *)
(* it has written.                                                              *)
LEMMA ExecutePlainKeeps ==
    ASSUME SpyInv, ExecutePlain
    PROVE  SpyInv'
<1>1. /\ phase = "unoptimized" /\ spy' = spy /\ target' = target /\ inst' = inst
  BY DEF ExecutePlain
<1>2. ASSUME StraightLine(spy)
      PROVE  /\ StraightLineCode(target) /\ Form(target) /\ Form(inst)
             /\ Keeps(target, inst) /\ Executes(target, plain)
  BY <1>1, <1>2 DEF SpyInv, StraightInv, StraightLineCode
<1>3. CASE plain.status = "run" /\ plain' = Move(target, plain) /\ phase' = phase
  <2>1. StraightLine(spy) => Executes(target, plain')
    BY <1>2, <1>3, ExecutesStep
  <2> QED
    BY <1>1, <1>2, <1>3, <2>1 DEF SpyInv, StraightInv
<1>4. CASE plain.status # "run" /\ plain' = plain /\ phase' = "execute" /\ vm' = Load(inst)
  <2>1. ASSUME StraightLine(spy), plain.status = "halt"
        PROVE  Reaches(inst, vm', plain.out)
    <3>1. Writes(target, plain.out)
      BY <1>2, <2>1 DEF Executes, Writes, At
    <3>2. Writes(inst, plain.out)
      BY <1>2, <2>1, <3>1 DEF Keeps
    <3> QED
      BY <1>2, <1>4, <2>1, <3>2, Loaded
  <2> QED
    BY <1>1, <1>2, <1>4, <2>1 DEF SpyInv, StraightInv, Phases
<1> QED
  BY <1>3, <1>4 DEF ExecutePlain

(* Execute. *)
LEMMA ExecuteKeeps ==
    ASSUME SpyInv, Execute
    PROVE  SpyInv'
<1>1. /\ phase = "execute" /\ spy' = spy /\ target' = target /\ inst' = inst
      /\ plain' = plain
  BY DEF Execute
<1>2. ASSUME StraightLine(spy)
      PROVE  /\ StraightLineCode(target) /\ Form(inst) /\ Keeps(target, inst)
             /\ plain.status = "halt" => Reaches(inst, vm, plain.out)
  BY <1>1, <1>2 DEF SpyInv, StraightInv
<1>3. CASE vm.status = "run" /\ vm' = Move(inst, vm) /\ phase' = phase
  <2>1. StraightLine(spy) /\ plain.status = "halt" => Reaches(inst, vm', plain.out)
    BY <1>2, <1>3, ReachesStep
  <2> QED
    BY <1>1, <1>2, <1>3, <2>1 DEF SpyInv, StraightInv
<1>4. CASE vm.status # "run" /\ vm' = vm /\ phase' = "done"
  BY <1>1, <1>2, <1>4 DEF SpyInv, StraightInv, Phases
<1> QED
  BY <1>3, <1>4 DEF Execute

(* A step that leaves the variables alone. *)
LEMMA StutterKeeps ==
    ASSUME SpyInv, UNCHANGED vars
    PROVE  SpyInv'
BY DEF vars, SpyInv, StraightInv, Passing

(* SpyInv holds in every state: whatever the place of the pass in straight-line  *)
(* code (optimizer.ml:5-106), what it has kept with what is left writes what the *)
(* translated code writes, and the machine of either does as its code says.      *)
THEOREM SpyInvariant == Spec => []SpyInv
<1>1. Init => SpyInv
  BY DEF Init, SpyInv, StraightInv, Phases
<1>2. SpyInv /\ [Next]_vars => SpyInv'
  BY TranslateStepKeeps, OptimizeStepKeeps, OptimizedKeeps, ExecutePlainKeeps,
     ExecuteKeeps, StutterKeeps DEF Next
<1> QED
  BY <1>1, <1>2, PTL DEF Spec

(* The optimizer keeps what straight-line programs do: whenever the translated *)
(* code halts, the optimized code halts too and has written the same, for all  *)
(* programs, names and constants (optimizer.ml:3-153, spvm.ml:705-896).        *)
THEOREM StraightLineKept == Spec => []StraightLineIsKept
<1>1. SpyInv => StraightLineIsKept
  <2>1. SUFFICES ASSUME SpyInv, phase = "done", StraightLine(spy), plain.status = "halt"
                 PROVE  Outcome(vm) = Outcome(plain)
    BY DEF StraightLineIsKept
  <2>2. Reaches(inst, vm, plain.out) /\ vm.status # "run"
    BY <2>1 DEF SpyInv, StraightInv
  <2>3. vm.status = "halt" /\ vm.out = plain.out
    BY <2>2 DEF Reaches, At
  <2> QED
    BY <2>1, <2>3 DEF Outcome
<1> QED
  BY <1>1, SpyInvariant, PTL
=============================================================================

-------------------------------- MODULE Spvm --------------------------------
(* The virtual machine of src/CP/hw4/code/spvm.ml, for programs over        *)
(* integers, strings, None and functions: its instructions and one move of  *)
(* the executor.  Lists and tuples, the only values two variables can       *)
(* share, are left out, so the location of a variable is the variable       *)
(* itself in the frame that binds it, and memory and environments are one.  *)
EXTENDS Integers, Sequences, SequencesExt

NUM(n) == [num |-> n]
STR(s) == [str |-> s]
NONE == [none |-> TRUE]
CLOS(f, args, entry) == [clos |-> <<f, args, entry>>]

IsNum(v) == "num" \in DOMAIN v
IsStr(v) == "str" \in DOMAIN v
IsPrimitive(v) == "clos" \notin DOMAIN v

\* Identifiers: the user's names and the translator's temporaries.
User(name) == [user |-> name]
Temp(p) == [temp |-> p]
NoId == [noid |-> TRUE]

\* An instruction op at label l that defines x and reads ys.
Ins(l, op, x, ys) ==
    [l |-> l, op |-> op, x |-> x, ys |-> ys,
     bop |-> "none", c |-> NONE, to |-> <<>>, body |-> <<>>]
SKIP(l) == Ins(l, "SKIP", NoId, <<>>)
HALT(l) == Ins(l, "HALT", NoId, <<>>)
COPY(l, x, y) == Ins(l, "COPY", x, <<y>>)
COPYC(l, x, n) == [Ins(l, "COPYC", x, <<>>) EXCEPT !.c = n]
COPYS(l, x, s) == [Ins(l, "COPYS", x, <<>>) EXCEPT !.c = s]
COPYN(l, x) == Ins(l, "COPYN", x, <<>>)
ASSIGNV(l, x, bop, y, z) == [Ins(l, "ASSIGNV", x, <<y, z>>) EXCEPT !.bop = bop]
ASSIGNC(l, x, bop, y, n) ==
    [Ins(l, "ASSIGNC", x, <<y>>) EXCEPT !.bop = bop, !.c = n]
UJUMP(l, to) == [Ins(l, "UJUMP", NoId, <<>>) EXCEPT !.to = to]
CJUMP(l, x, to) == [Ins(l, "CJUMP", NoId, <<x>>) EXCEPT !.to = to]
CJUMPF(l, x, to) == [Ins(l, "CJUMPF", NoId, <<x>>) EXCEPT !.to = to]
WRITE(l, x) == Ins(l, "WRITE", NoId, <<x>>)
FUNC_DEF(l, f, args, body) ==
    [Ins(l, "FUNC_DEF", f, args) EXCEPT !.body = body]
CALL(l, x, f, args) == Ins(l, "CALL", x, <<f>> \o args)
RETURN(l, x) == Ins(l, "RETURN", NoId, <<x>>)
-----------------------------------------------------------------------------
\* The value of v1 bop v2, or NoId where the code raises TypeError.
EvalBinary(v1, bop, v2) ==
    LET truth(b) == NUM(IF b THEN 1 ELSE 0)
    IN  CASE IsNum(v1) /\ IsNum(v2) ->
               (CASE bop = "ADD" -> NUM(v1.num + v2.num)
                  [] bop = "SUB" -> NUM(v1.num - v2.num)
                  [] bop = "LT" -> truth(v1.num < v2.num)
                  [] bop = "EQ" -> truth(v1.num = v2.num))
          [] IsStr(v1) /\ IsStr(v2) /\ bop = "ADD" -> STR(v1.str \o v2.str)
          [] bop = "EQ" /\ NONE \in {v1, v2} /\ ~IsStr(v1) /\ ~IsStr(v2) ->
               truth(v1 = v2)
          [] OTHER -> NoId

Holds(instrs, l) == \E i \in DOMAIN instrs : instrs[i].l = l

\* The function body that holds label l.  A label names a place in the syntax
\* tree and is longer than the nesting of functions around it.
BodyOf(instrs, l) ==
    LET bodies[depth \in 0 .. Len(l)] ==
            IF depth = 0 THEN {instrs}
            ELSE UNION {{at[i].body : i \in DOMAIN at} : at \in bodies[depth - 1]}
    IN  CHOOSE at \in UNION {bodies[depth] : depth \in 1 .. Len(l)} : Holds(at, l)

\* The list, the program or a body, that holds label l, and the place in it.
ListOf(instrs, l) == IF Holds(instrs, l) THEN instrs ELSE BodyOf(instrs, l)
PlaceOf(instrs, l) == CHOOSE i \in DOMAIN instrs : instrs[i].l = l

\* get_instr and get_next_pc
GetInstr(pgm, pc) == LET at == ListOf(pgm, pc) IN at[PlaceOf(at, pc)]
NextPc(pgm, pc) == LET at == ListOf(pgm, pc) IN at[PlaceOf(at, pc) + 1].l
-----------------------------------------------------------------------------
\* A machine: the program counter, the frames with the innermost first,
\* what was written, and whether it runs, halted or raised an exception.
Frame(env, label, var) == [env |-> env, label |-> label, var |-> var]
Load(pgm) ==
    [pc |-> pgm[1].l, stack |-> <<Frame(<<>>, <<>>, NoId)>>,
     out |-> <<>>, status |-> "run"]

Bound(x, stack) == \E i \in DOMAIN stack : x \in DOMAIN stack[i].env
\* lookup_env: the innermost frame that binds x, whoever called whom.
Lookup(x, stack) ==
    LET i == CHOOSE i \in DOMAIN stack :
               /\ x \in DOMAIN stack[i].env
               /\ \A j \in 1 .. i - 1 : x \notin DOMAIN stack[j].env
    IN  stack[i].env[x]
\* lookup_with_alloc and bind write in the innermost frame.
Put(env, x, v) == [y \in DOMAIN env \cup {x} |-> IF y = x THEN v ELSE env[y]]
Bind(x, v, stack) == [stack EXCEPT ![1].env = Put(@, x, v)]

Alloc(x, stack) ==
    IF x \in DOMAIN stack[1].env THEN stack ELSE Bind(x, NUM(0), stack)

Raise(m) == [m EXCEPT !.status = "error"]
Goto(m, l) == [m EXCEPT !.pc = l]
Store(pgm, m, x, v) ==
    [Goto(m, NextPc(pgm, m.pc)) EXCEPT !.stack = Bind(x, v, @)]

DoCall(pgm, m, x, f, actuals) ==
    LET formals == f.clos[2]
        env == [a \in {formals[i] : i \in DOMAIN formals} |->
                  actuals[CHOOSE i \in DOMAIN formals : formals[i] = a]]
    IN  IF Len(formals) # Len(actuals) THEN Raise(m)
        ELSE [m EXCEPT !.pc = f.clos[3],
                       !.stack = <<Frame(env, NextPc(pgm, m.pc), x)>>
                                 \o Bind(x, NUM(0), @)]

\* RETURN looks its operand up in the callee's own frame only.
DoReturn(m, x) ==
    LET frame == Head(m.stack)
    IN  IF x \notin DOMAIN frame.env \/ Len(m.stack) = 1 THEN Raise(m)
        ELSE [m EXCEPT !.pc = frame.label,
                       !.stack = Bind(frame.var, frame.env[x], Tail(@))]

\* move, on a machine that runs.  COPY allocates x before it reads y.
Move(pgm, m) ==
    LET inst == GetInstr(pgm, m.pc)
        stack == IF inst.op = "COPY" THEN Alloc(inst.x, m.stack) ELSE m.stack
        val(i) == Lookup(inst.ys[i], stack)
        assign(v) == IF v = NoId THEN Raise(m) ELSE Store(pgm, m, inst.x, v)
        jump(taken) == Goto(m, IF taken THEN inst.to ELSE NextPc(pgm, m.pc))
        reads == IF inst.op = "FUNC_DEF" THEN {} ELSE ToSet(inst.ys)
    IN  IF \E y \in reads : ~Bound(y, stack) THEN Raise(m) ELSE
        CASE inst.op = "SKIP" -> Goto(m, NextPc(pgm, m.pc))
          [] inst.op = "HALT" -> [m EXCEPT !.status = "halt"]
          [] inst.op = "COPY" -> assign(val(1))
          [] inst.op \in {"COPYC", "COPYS"} -> assign(inst.c)
          [] inst.op = "COPYN" -> assign(NONE)
          [] inst.op = "ASSIGNV" ->
               assign(IF IsPrimitive(val(1)) /\ IsPrimitive(val(2))
                      THEN EvalBinary(val(1), inst.bop, val(2)) ELSE NoId)
          [] inst.op = "ASSIGNC" ->
               assign(IF IsPrimitive(val(1))
                      THEN EvalBinary(val(1), inst.bop, inst.c) ELSE NoId)
          [] inst.op = "UJUMP" -> jump(TRUE)
          [] inst.op = "CJUMP" ->
               IF IsNum(val(1)) THEN jump(val(1).num # 0) ELSE Raise(m)
          [] inst.op = "CJUMPF" ->
               IF IsNum(val(1)) THEN jump(val(1).num = 0) ELSE Raise(m)
          [] inst.op = "WRITE" ->
               [Goto(m, NextPc(pgm, m.pc)) EXCEPT !.out = Append(@, val(1))]
          [] inst.op = "FUNC_DEF" ->
               assign(CLOS(inst.x, inst.ys, inst.body[1].l))
          [] inst.op = "CALL" ->
               IF IsPrimitive(val(1)) THEN Raise(m)
               ELSE DoCall(pgm, m, inst.x, val(1),
                           [i \in 1 .. Len(inst.ys) - 1 |-> val(i + 1)])
          [] inst.op = "RETURN" -> DoReturn(m, inst.ys[1])
=============================================================================

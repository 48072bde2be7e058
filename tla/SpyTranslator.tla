---------------------------- MODULE SpyTranslator ----------------------------
(* From Spy to Spvm: src/CP/hw4/code/translator.ml, for names, constants,    *)
(* binary operators and comparisons, print, calls of user functions,        *)
(* assignment, augmented assignment, if, while with break and continue,     *)
(* def, return and pass.  The counters behind new_temp_var and new_label    *)
(* serve to never give a name twice; here the name is the place in the      *)
(* program it was made for, which is as unique.                             *)
EXTENDS Spvm

Name(id) == [k |-> "Name", id |-> id]
Constant(v) == [k |-> "Constant", value |-> v]
BinOp(left, op, right) ==
    [k |-> "BinOp", left |-> left, op |-> op, right |-> right]
Call(f, args) == [k |-> "Call", f |-> f, args |-> args]
PrintCall(args) == [k |-> "PrintCall", args |-> args]

Assign(x, value) == [k |-> "Assign", target |-> x, value |-> value]
Expr(e) == [k |-> "Expr", value |-> e]
If(test, body, orelse) ==
    [k |-> "If", test |-> test, body |-> body, orelse |-> orelse]
While(test, body) == [k |-> "While", test |-> test, body |-> body]
FunctionDef(f, args, body) ==
    [k |-> "FunctionDef", f |-> f, args |-> args, body |-> body]
Return(e) == [k |-> "Return", value |-> e]
Break == [k |-> "Break"]
Continue == [k |-> "Continue"]
Pass == [k |-> "Pass"]
AugAssign(x, op, value) == Assign(x, BinOp(Name(x), op, value))

NewLabel(p, k) == p \o <<0, k>>

TranslateConstant(c, p) ==
    [t |-> Temp(p),
     code |-> <<CASE IsNum(c) -> COPYC(NewLabel(p, 1), Temp(p), c)
                  [] IsStr(c) -> COPYS(NewLabel(p, 1), Temp(p), c)
                  [] OTHER -> COPYN(NewLabel(p, 1), Temp(p))>>]

\* The temporary that holds the value of expr, and the code that puts it there.
RECURSIVE TranslateExpr(_, _)
TranslateExpr(expr, p) ==
    LET t == Temp(p)
        l(k) == NewLabel(p, k)
        sub(e, i) == TranslateExpr(e, Append(p, i))
        string(s, i) == TranslateConstant(STR(s), Append(p, i))
        write(i) ==
            LET x == sub(expr.args[i], 2 * i)
                y == string(" ", 2 * i + 1)
            IN  x.code \o y.code
                \o <<WRITE(l(2 * i), x.t), WRITE(l(2 * i + 1), y.t)>>
    IN  CASE expr.k = "Name" -> [t |-> t, code |-> <<COPY(l(1), t, expr.id)>>]
          [] expr.k = "Constant" -> TranslateConstant(expr.value, p)
          [] expr.k = "BinOp" ->
               LET a == sub(expr.left, 1)
                   b == sub(expr.right, 2)
               IN  [t |-> t,
                    code |-> a.code \o b.code
                             \o <<ASSIGNV(l(1), t, expr.op, a.t, b.t)>>]
          [] expr.k = "PrintCall" ->
               LET n == Len(expr.args)
                   nl == string("\n", 1)
               IN  [t |-> t,
                    code |-> FlattenSeq([i \in 1 .. n |-> write(i)]) \o nl.code
                             \o <<WRITE(l(0), nl.t), COPYN(l(1), t)>>]
          [] expr.k = "Call" ->
               LET f == sub(expr.f, 1)
                   ys == [i \in DOMAIN expr.args |-> sub(expr.args[i], i + 1)]
               IN  [t |-> t,
                    code |-> f.code
                             \o FlattenSeq([i \in DOMAIN ys |-> ys[i].code])
                             \o <<CALL(l(1), t, f.t,
                                       [i \in DOMAIN ys |-> ys[i].t])>>]

\* ctx is the place of the loop around the statement.
RECURSIVE TranslateStmt(_, _, _), TranslateStmts(_, _, _)
TranslateStmts(ctx, stmts, p) ==
    FlattenSeq([i \in DOMAIN stmts |->
                  TranslateStmt(ctx, stmts[i], Append(p, i))])
ReturnCode(e, p) ==
    LET x == TranslateExpr(e, Append(p, 1))
    IN  Append(x.code, RETURN(NewLabel(p, 1), x.t))
\* Defect: the true branch runs on into the false one.
X_FallsThrough(ctx, stmt, p) ==
    LET test == TranslateExpr(stmt.test, Append(p, 1))
        true == NewLabel(p, 1)
        false == NewLabel(p, 2)
    IN  test.code
        \o <<CJUMP(NewLabel(p, 4), test.t, true), UJUMP(NewLabel(p, 5), false)>>
        \o <<SKIP(true)>> \o TranslateStmts(ctx, stmt.body, Append(p, 2))
        \o <<SKIP(false)>> \o TranslateStmts(ctx, stmt.orelse, Append(p, 3))
IfCode(ctx, stmt, p) ==
    LET test == TranslateExpr(stmt.test, Append(p, 1))
        true == NewLabel(p, 1)
        false == NewLabel(p, 2)
        exit == NewLabel(p, 3)
    IN  test.code
        \o <<CJUMP(NewLabel(p, 4), test.t, true), UJUMP(NewLabel(p, 5), false)>>
        \o <<SKIP(true)>> \o TranslateStmts(ctx, stmt.body, Append(p, 2))
        \o <<UJUMP(NewLabel(p, 6), exit)>>
        \o <<SKIP(false)>> \o TranslateStmts(ctx, stmt.orelse, Append(p, 3))
        \o <<UJUMP(NewLabel(p, 7), exit)>>
        \o <<SKIP(exit)>>
LoopEntry(ctx) == NewLabel(ctx, 1)
LoopExit(ctx) == NewLabel(ctx, 2)
WhileCode(stmt, p) ==
    LET test == TranslateExpr(stmt.test, Append(p, 1))
    IN  <<SKIP(LoopEntry(p))>> \o test.code
        \o <<CJUMPF(NewLabel(p, 3), test.t, LoopExit(p))>>
        \o TranslateStmts(p, stmt.body, Append(p, 2))
        \o <<UJUMP(NewLabel(p, 4), LoopEntry(p)), SKIP(LoopExit(p))>>
TranslateStmt(ctx, stmt, p) ==
    LET l == NewLabel(p, 1)
    IN  CASE stmt.k = "Assign" ->
               LET x == TranslateExpr(stmt.value, Append(p, 1))
               IN  Append(x.code, COPY(l, stmt.target, x.t))
          [] stmt.k = "Expr" -> TranslateExpr(stmt.value, Append(p, 1)).code
          [] stmt.k = "If" -> IfCode(ctx, stmt, p)
          [] stmt.k = "While" -> WhileCode(stmt, p)
          [] stmt.k = "Break" -> <<UJUMP(l, LoopExit(ctx))>>
          [] stmt.k = "Continue" -> <<UJUMP(l, LoopEntry(ctx))>>
          [] stmt.k = "Pass" -> <<SKIP(l)>>
          [] stmt.k = "Return" -> ReturnCode(stmt.value, p)
          [] stmt.k = "FunctionDef" ->
               <<FUNC_DEF(l, stmt.f, stmt.args,
                          TranslateStmts(<<>>, stmt.body, Append(p, 1))
                          \o ReturnCode(Constant(NONE), Append(p, 2)))>>

Translate(stmts) == Append(TranslateStmts(<<>>, stmts, <<>>), HALT(<<0>>))
=============================================================================

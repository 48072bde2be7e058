----------------------------- MODULE SpyMeaning -----------------------------
(* What SpyPipeline is to achieve with the translator of SpyTranslator.     *)
EXTENDS SpyTranslator, SpyPipeline

(* What a source program writes, evaluated without labels, temporaries and  *)
(* jumps.  A state has the frames, what was written, the mode the last      *)
(* statement left ("run", "break", "continue", "return", "error") and the   *)
(* value of the last expression.                                            *)
Value(st, v) == [st EXCEPT !.v = v]
Leave(st, mode) == [st EXCEPT !.mode = mode]

RECURSIVE EvalExpr(_, _), EvalArgs(_, _), ExecStmts(_, _), ExecStmt(_, _)
\* The values of args, left to right, as one sequence in v.
EvalArgs(args, st) ==
    IF args = <<>> \/ st.mode = "error" THEN Value(st, <<>>)
    ELSE LET one == EvalExpr(Head(args), st)
             more == EvalArgs(Tail(args), one)
         IN  Value(more, <<one.v>> \o more.v)
EvalCall(expr, st) ==
    LET all == EvalArgs(<<expr.f>> \o expr.args, st)
        def == all.v[1].def
        local == [a \in ToSet(def.args) |->
                    all.v[1 + CHOOSE i \in DOMAIN def.args : def.args[i] = a]]
        end == ExecStmts(def.body,
                         [all EXCEPT !.frames = <<local>> \o @, !.v = NONE])
    IN  CASE all.mode = "error" -> all
          [] "def" \notin DOMAIN all.v[1] -> Leave(all, "error")
          [] Len(expr.args) # Len(def.args) -> Leave(all, "error")
          [] end.mode = "error" -> end
          [] OTHER -> [end EXCEPT !.frames = Tail(@), !.mode = "run",
                                  !.v = IF end.mode = "return" THEN @ ELSE NONE]
EvalExpr(expr, st) ==
    CASE expr.k = "Constant" -> Value(st, expr.value)
      [] expr.k = "Name" ->
           (LET at == {i \in DOMAIN st.frames :
                         expr.id \in DOMAIN st.frames[i]}
            IN  IF at = {} THEN Leave(st, "error")
                ELSE Value(st, st.frames[CHOOSE i \in at :
                                           \A j \in at : i <= j][expr.id]))
      [] expr.k = "BinOp" ->
           (LET both == EvalArgs(<<expr.left, expr.right>>, st)
                v == EvalBinary(both.v[1], expr.op, both.v[2])
            IN  IF both.mode = "error" THEN both
                ELSE IF "def" \in DOMAIN both.v[1] \cup DOMAIN both.v[2]
                        \/ v = NoId
                THEN Leave(both, "error") ELSE Value(both, v))
      [] expr.k = "PrintCall" ->
           (LET all == EvalArgs(expr.args, st)
            IN  IF all.mode = "error" THEN all
                ELSE [all EXCEPT
                        !.out = @ \o FlattenSeq([i \in DOMAIN all.v |->
                                                   <<all.v[i], STR(" ")>>])
                                  \o <<STR("\n")>>,
                        !.v = NONE])
      [] expr.k = "Call" -> EvalCall(expr, st)
SetVar(st, x, v) == [st EXCEPT !.frames[1] = (x :> v) @@ @]
Branch(test, st, yes(_), no(_)) ==
    LET c == EvalExpr(test, st)
    IN  CASE c.mode = "error" -> c
          [] ~IsNum(c.v) -> Leave(c, "error")
          [] c.v.num # 0 -> yes(c)
          [] OTHER -> no(c)
ExecStmt(stmt, st) ==
    CASE stmt.k = "Assign" ->
           (LET e == EvalExpr(stmt.value, st)
            IN  IF e.mode = "error" THEN e ELSE SetVar(e, stmt.target, e.v))
      [] stmt.k = "Expr" -> EvalExpr(stmt.value, st)
      [] stmt.k = "If" ->
           Branch(stmt.test, st, LAMBDA c : ExecStmts(stmt.body, c),
                                 LAMBDA c : ExecStmts(stmt.orelse, c))
      [] stmt.k = "While" ->
           Branch(stmt.test, st,
                  LAMBDA c :
                    LET b == ExecStmts(stmt.body, c)
                    IN  CASE b.mode = "break" -> Leave(b, "run")
                          [] b.mode \in {"return", "error"} -> b
                          [] OTHER -> ExecStmt(stmt, Leave(b, "run")),
                  LAMBDA c : c)
      [] stmt.k \in {"Break", "Continue"} ->
           Leave(st, IF stmt.k = "Break" THEN "break" ELSE "continue")
      [] stmt.k = "Pass" -> st
      [] stmt.k = "Return" ->
           (LET e == EvalExpr(stmt.value, st)
            IN  IF e.mode = "error" THEN e ELSE Leave(e, "return"))
      [] stmt.k = "FunctionDef" -> SetVar(st, stmt.f, [def |-> stmt])
ExecStmts(stmts, st) ==
    IF stmts = <<>> \/ st.mode # "run" THEN st
    ELSE ExecStmts(Tail(stmts), ExecStmt(Head(stmts), st))

Meaning(stmts) ==
    LET end == ExecStmts(stmts, [frames |-> <<<<>>>>, out |-> <<>>,
                                 mode |-> "run", v |-> NONE])
    IN  [out |-> end.out,
         status |-> IF end.mode = "run" THEN "halt" ELSE "error"]
-----------------------------------------------------------------------------
\* The code the translator makes, labels, jumps, temporaries and frames,
\* writes what the source program says, statement by statement, and stops
\* the way it does (translator.ml:23-344, spvm.ml:381-702).
TranslationIsFaithful ==
    phase \in {"execute", "done"} => Outcome(plain) = Meaning(spy)
=============================================================================

--------------------------- MODULE MC_SpyPipeline ---------------------------
(* SpyPipeline with small programs of every modelled construct.             *)
EXTENDS SpyMeaning

x == User("x")
y == User("y")
i == User("i")
j == User("j")
f == User("f")
one == Constant(NUM(1))
zero == Constant(NUM(0))
Show(e) == Expr(PrintCall(<<e>>))

\* Lists of at most n members of S.
Lists(S, n) == UNION {[1 .. k -> S] : k \in 0 .. n}

\* Straight-line programs: x gets a first value, then up to three steps.
Steps == {Assign(x, one), Assign(y, Name(x)), Assign(x, Name(y)),
          Assign(y, Constant(STR("a"))), AugAssign(x, "ADD", one),
          Assign(x, BinOp(Name(y), "ADD", Name(y))),
          Show(Name(x)), Show(Constant(STR("a")))}
Straight == {<<Assign(x, Constant(NUM(2)))>> \o s \o <<Show(Name(y))>> :
               s \in Lists(Steps, 3)}
            \cup {<<Assign(x, Constant(NONE)), Expr(Name(x)),
                    Expr(PrintCall(<<Name(x), one>>))>>,
                  <<Assign(x, one), Show(Name(x)), Assign(y, Call(Name(x), <<one>>)),
                    Show(Name(y))>>}

\* Branches: a condition, and a branch or two that assign or leave a loop.
Arms == Lists({Assign(x, one), Assign(y, Name(x)), Show(Name(x))}, 2)
Branching == {<<Assign(x, c), If(Name(x), a, b), Show(Name(x)), Show(Name(y))>> :
                c \in {zero, one, Constant(NONE)}, a \in Arms, b \in Arms}

\* Loops of two rounds, and a step to break, continue or pass.
Round == {Assign(y, one), Assign(y, Name(i)), Show(Name(y)), Pass, Break, Continue,
          If(BinOp(Name(i), "EQ", one), <<Break>>, <<Pass>>),
          If(BinOp(Name(i), "EQ", one), <<Continue>>, <<Show(Name(i))>>)}
Looping == {<<Assign(y, zero), Assign(i, zero),
              While(BinOp(Name(i), "LT", Constant(NUM(2))),
                    <<AugAssign(i, "ADD", one)>> \o b),
              Show(Name(y))>> : b \in Lists(Round, 2)}

\* A loop of two rounds in a loop of two rounds: either may be left or go on
\* early, in a branch or not, before and after the inner one.
Inner == {Show(Name(j)), Break, Continue, Assign(y, Name(j)),
          If(BinOp(Name(i), "EQ", one), <<Break>>, <<Show(Name(i))>>),
          If(BinOp(Name(j), "EQ", one), <<Continue>>, <<Break>>)}
Outer == {Show(Name(y)), Break, Continue,
          If(BinOp(Name(i), "EQ", one), <<Continue>>, <<Break>>)}
Nested == {<<Assign(y, zero), Assign(i, zero),
             While(BinOp(Name(i), "LT", Constant(NUM(2))),
                   <<AugAssign(i, "ADD", one), Assign(j, zero)>> \o before
                   \o <<While(BinOp(Name(j), "LT", Constant(NUM(2))),
                              <<AugAssign(j, "ADD", one)>> \o inside)>> \o after),
             Show(Name(y))>> :
             before \in Lists(Outer, 1), inside \in Lists(Inner, 2), after \in Lists(Outer, 1)}

\* Functions of one parameter, called twice, that read and write names.
Bodies == {Show(Name(y)), Assign(y, Name(x)), Return(Name(y)), Return(Name(x)),
           If(Name(x), <<Return(one)>>, <<>>), While(Name(x), <<Return(Name(x))>>)}
Calling == {<<FunctionDef(f, <<x>>, b), Assign(y, BinOp(one, "SUB", one)),
              Show(Call(Name(f), <<one>>)), Show(Call(Name(f), a))>> :
              b \in Lists(Bodies, 2), a \in {<<zero>>, <<Name(y)>>, <<>>}}

AllSources == Straight \cup Branching \cup Looping \cup Nested \cup Calling
=============================================================================

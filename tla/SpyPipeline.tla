----------------------------- MODULE SpyPipeline -----------------------------
(* src/CP/hw4/code/main.ml: a source program is translated, optimized and   *)
(* executed.  Beside the execution main.ml asks for, of the optimized code, *)
(* the model executes the code the translator made, to compare the two.     *)
EXTENDS StraightCode, SpyOptimizer

CONSTANTS
    Sources,        \* the source programs main.ml is given
    Translator(_)   \* what Translator.translate makes of one

\* A program that is one list of assignments, prints and calls.
StraightLine(stmts) == \A k \in DOMAIN stmts : stmts[k].k \in {"Assign", "Expr"}

\* The translator makes straight-line code of it (translator.ml:23-284).
ASSUME TranslatorAssumption ==
    \A stmts \in Sources : StraightLine(stmts) => StraightLineCode(Translator(stmts))

VARIABLES
    phase,     \* "parsed", "optimize", "unoptimized", "execute", "done"
    spy,       \* the source program
    target,    \* what translate returns
    calls,     \* the calls of optimize_pgm that have not returned
    inst,      \* what optimize returns
    plain,     \* the machine that executes target
    vm         \* the machine that executes inst

vars == <<phase, spy, target, calls, inst, plain, vm>>

Idle == [pc |-> <<>>, stack |-> <<>>, out |-> <<>>, status |-> "idle"]

Init ==
    /\ phase = "parsed"
    /\ spy \in Sources
    /\ target = <<>> /\ calls = <<>> /\ inst = <<>>
    /\ plain = Idle /\ vm = Idle

TranslateStep ==
    /\ phase = "parsed"
    /\ target' = Translator(spy)
    /\ calls' = <<Entered(target')>>
    /\ phase' = "optimize"
    /\ UNCHANGED <<spy, inst, plain, vm>>

OptimizeStep ==
    /\ phase = "optimize"
    /\ ~ Finished(calls)
    /\ calls' = OptimizePgm(target, calls)
    /\ UNCHANGED <<phase, spy, target, inst, plain, vm>>

Optimized ==
    /\ phase = "optimize"
    /\ Finished(calls)
    /\ inst' = calls[1].kept
    /\ plain' = Load(target)
    /\ phase' = "unoptimized"
    /\ UNCHANGED <<spy, target, calls, vm>>

\* The execution that is only there to be compared with.
ExecutePlain ==
    /\ phase = "unoptimized"
    /\ IF plain.status = "run"
       THEN plain' = Move(target, plain) /\ UNCHANGED <<phase, vm>>
       ELSE vm' = Load(inst) /\ phase' = "execute" /\ UNCHANGED plain
    /\ UNCHANGED <<spy, target, calls, inst>>

\* loop
Execute ==
    /\ phase = "execute"
    /\ IF vm.status = "run"
       THEN vm' = Move(inst, vm) /\ UNCHANGED phase
       ELSE phase' = "done" /\ UNCHANGED vm
    /\ UNCHANGED <<spy, target, calls, inst, plain>>

Next == TranslateStep \/ OptimizeStep \/ Optimized \/ ExecutePlain \/ Execute

Spec == Init /\ [][Next]_vars
-----------------------------------------------------------------------------
Outcome(m) == [out |-> m.out, status |-> m.status]

\* Of code that does not jump the optimizer keeps whatever is read later: the
\* optimized program writes the same and halts as well (optimizer.ml:3-153).
\* A program that fails may lose the failing instruction with its result.
StraightLineIsKept ==
    phase = "done" /\ StraightLine(spy) /\ plain.status = "halt" =>
        Outcome(vm) = Outcome(plain)

\* The comments of optimizer.ml:38-39: what is removed is not used, and what
\* is used cannot be removed.  So whatever the program, the optimized code
\* writes what the translated code writes.
OnlyUnusedIsRemoved ==
    phase = "done" /\ plain.status = "halt" => Outcome(vm) = Outcome(plain)
=============================================================================

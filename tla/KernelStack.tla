---------------------------- MODULE KernelStack -----------------------------
(***************************************************************************)
(* The system calls os2023_push and os2023_pop of                          *)
(* OS/hw1/Sources/oslab_my_stack.c, one statement at a time.               *)
(*                                                                         *)
(* The globals stack and top are shared by all callers and no lock guards  *)
(* them.  Where calls overlap the code has a data race: whenever it uses   *)
(* top the compiled code may have loaded it now or may still hold the      *)
(* value it loaded or computed before, Uses(p).  The printk loops read     *)
(* the stack and change nothing.                                           *)
(***************************************************************************)
EXTENDS Integers, Sequences

CONSTANTS
    Callers,     \* processes that make the calls
    Values,      \* arguments of push
    STACK_SIZE,
    NoCall,
    Overlap      \* may a process trap while another one's call is running?

ASSUME StackAssumption ==
    /\ STACK_SIZE \in Nat \ {0}
    /\ Values \subseteq Int
    /\ Overlap \in BOOLEAN
    /\ \A v \in Values : NoCall \notin {[op |-> "push", arg |-> v],
                                        [op |-> "pop", arg |-> 0]}

VARIABLES
    stack,       \* static int stack[STACK_SIZE]
    top,         \* static int top
    pc,          \* where each process is
    arg,         \* a, the argument of push
    i,           \* the loop counter of push
    reg,         \* top as the call last loaded or computed it
    value,       \* the local of pop
    ret          \* what the last call of each process returned

locals == <<arg, i, reg, value>>
vars   == <<stack, top, pc, locals, ret>>

Index == 0 .. STACK_SIZE - 1

Init ==
    /\ stack = [k \in Index |-> 0]
    /\ top = -1
    /\ pc = [p \in Callers |-> "user"]
    /\ arg = [p \in Callers |-> 0]
    /\ i = [p \in Callers |-> 0]
    /\ reg = [p \in Callers |-> -1]
    /\ value = [p \in Callers |-> 0]
    /\ ret = [p \in Callers |-> 0]

Uses(p) == {reg[p], top}

(* Nothing is modelled once top has left the array. *)
MayTrap(p) ==
    /\ pc[p] = "user"
    /\ Overlap \/ \A q \in Callers : pc[q] = "user"
    /\ top \in -1 .. STACK_SIZE - 1

Goto(p, label) == pc' = [pc EXCEPT ![p] = label]

Return(p, v) == Goto(p, "user") /\ ret' = [ret EXCEPT ![p] = v]

-----------------------------------------------------------------------------
(* os2023_push *)

TrapPush(p) ==
    /\ MayTrap(p)
    /\ \E a \in Values : arg' = [arg EXCEPT ![p] = a]
    /\ i' = [i EXCEPT ![p] = 0]
    /\ reg' = [reg EXCEPT ![p] = top]
    /\ Goto(p, "scan")
    /\ UNCHANGED <<stack, top, value, ret>>

(* Mutation: the loop stops short of the top element. *)
InLoop_Short(k, t) == k < t

InLoop(k, t) == k <= t

(* What reading stack[k] yields: outside the array, anything. *)
Reads(k) == IF k \in Index THEN {stack[k]} ELSE Values \cup {0}

Scan(p) ==
    /\ pc[p] = "scan"
    /\ \E t \in Uses(p), v \in Reads(i[p]) :
         \/ /\ InLoop(i[p], t)
            /\ v = arg[p]
            /\ Return(p, -1)
            /\ UNCHANGED i
         \/ /\ InLoop(i[p], t)
            /\ v # arg[p]
            /\ i' = [i EXCEPT ![p] = @ + 1]
            /\ UNCHANGED <<pc, ret>>
         \/ /\ ~ InLoop(i[p], t)
            /\ Goto(p, "room")
            /\ UNCHANGED <<i, ret>>
    /\ UNCHANGED <<stack, top, arg, reg, value>>

(* Mutations: one element too many; one too few. *)
Full_Late(t) == t = STACK_SIZE
Full_Early(t) == t = STACK_SIZE - 2

Full(t) == t = STACK_SIZE - 1

Room(p) ==
    /\ pc[p] = "room"
    /\ \E t \in Uses(p) :
         \/ Full(t) /\ Return(p, -1)
         \/ ~ Full(t) /\ Goto(p, "bump") /\ UNCHANGED ret
    /\ UNCHANGED <<stack, top, locals>>

(* top++ *)
Bump(p) ==
    /\ pc[p] = "bump"
    /\ \E t \in Uses(p) :
         /\ top' = t + 1
         /\ reg' = [reg EXCEPT ![p] = t + 1]
    /\ Goto(p, "store")
    /\ UNCHANGED <<stack, arg, i, value, ret>>

(* stack[top] = a; outside the array it hits something else. *)
Store(p) ==
    /\ pc[p] = "store"
    /\ \E t \in Uses(p) :
         stack' = [k \in Index |-> IF k = t THEN arg[p] ELSE stack[k]]
    /\ Return(p, 0)
    /\ UNCHANGED <<top, locals>>

-----------------------------------------------------------------------------
(* os2023_pop *)

TrapPop(p) ==
    /\ MayTrap(p)
    /\ reg' = [reg EXCEPT ![p] = top]
    /\ Goto(p, "test")
    /\ UNCHANGED <<stack, top, arg, i, value, ret>>

Test(p) ==
    /\ pc[p] = "test"
    /\ \E t \in Uses(p) :
         \/ t = -1 /\ Return(p, -1)
         \/ t # -1 /\ Goto(p, "take") /\ UNCHANGED ret
    /\ UNCHANGED <<stack, top, locals>>

(* int value = stack[top] *)
Take(p) ==
    /\ pc[p] = "take"
    /\ \E t \in Uses(p) : \E v \in Reads(t) : value' = [value EXCEPT ![p] = v]
    /\ Goto(p, "drop")
    /\ UNCHANGED <<stack, top, arg, i, reg, ret>>

(* top-- *)
Drop(p) ==
    /\ pc[p] = "drop"
    /\ \E t \in Uses(p) : top' = t - 1
    /\ Return(p, value[p])
    /\ UNCHANGED <<stack, locals>>

-----------------------------------------------------------------------------
Next ==
    \E p \in Callers :
        \/ TrapPush(p) \/ Scan(p) \/ Room(p) \/ Bump(p) \/ Store(p)
        \/ TrapPop(p) \/ Test(p) \/ Take(p) \/ Drop(p)

Spec == Init /\ [][Next]_vars

-----------------------------------------------------------------------------
(* Properties *)

Pushing == {"scan", "room", "bump", "store"}
Popping == {"test", "take", "drop"}

(* Among the types: top and the loop counter never leave the array. *)
TypeOK ==
    /\ stack \in [Index -> Values \cup {0}]
    /\ top \in -1 .. STACK_SIZE - 1
    /\ pc \in [Callers -> {"user"} \cup Pushing \cup Popping]
    /\ arg \in [Callers -> Values \cup {0}]
    /\ i \in [Callers -> 0 .. STACK_SIZE]
    /\ reg \in [Callers -> -1 .. STACK_SIZE - 1]
    /\ value \in [Callers -> Values \cup {0}]
    /\ ret \in [Callers -> Values \cup {-1, 0}]

(* The elements whose stores have been made: top++ comes before the store. *)
Height == IF \E p \in Callers : pc[p] = "store" THEN top ELSE top + 1

(* oslab_my_stack.c:14-18: push refuses a value that "already exists in
   stack", so no value is in the stack twice. *)
NoDuplicates ==
    \A j, k \in Index : j < k /\ k < Height => stack[j] # stack[k]

(* The two system calls implement the stack of distinct values: a push takes
   effect when it stores or gives up, a pop when it lowers top or gives up. *)
contents == [k \in 1 .. Height |-> stack[k - 1]]

call ==
    [p \in Callers |->
        IF pc[p] = "user" THEN NoCall
        ELSE IF pc[p] \in Pushing THEN [op |-> "push", arg |-> arg[p]]
        ELSE [op |-> "pop", arg |-> 0]]

Abstract == INSTANCE UniqueStack

(* oslab_my_stack.c:10-47: calls that do not overlap behave, result by
   result, like those of UniqueStack. *)
ImplementsUniqueStack == Abstract!Spec
=============================================================================

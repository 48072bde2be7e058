---------------------------- MODULE UniqueStack -----------------------------
(***************************************************************************)
(* What the two system calls of OS/hw1 promise their callers: a bounded    *)
(* stack of distinct values.  A call takes effect at one point between the *)
(* trap and the return.                                                    *)
(***************************************************************************)
EXTENDS Integers, Sequences

CONSTANTS
    Callers,     \* processes that make the calls
    Values,      \* arguments of push
    STACK_SIZE,
    NoCall       \* the caller is in user mode

VARIABLES
    contents,    \* the stack, its top last
    call,        \* the call a process has made and that has not taken effect
    ret          \* what its last call returned

vars == <<contents, call, ret>>

PushCall(a) == [op |-> "push", arg |-> a]
PopCall     == [op |-> "pop", arg |-> 0]

Init ==
    /\ contents = <<>>
    /\ call = [p \in Callers |-> NoCall]
    /\ ret = [p \in Callers |-> 0]

Invoke(p) ==
    /\ call[p] = NoCall
    /\ \/ \E a \in Values : call' = [call EXCEPT ![p] = PushCall(a)]
       \/ call' = [call EXCEPT ![p] = PopCall]
    /\ UNCHANGED <<contents, ret>>

Return(p, value) ==
    /\ call' = [call EXCEPT ![p] = NoCall]
    /\ ret' = [ret EXCEPT ![p] = value]

Holds(a) == \E k \in 1 .. Len(contents) : contents[k] = a

Push(p) ==
    \E a \in Values :
        /\ call[p] = PushCall(a)
        /\ IF Holds(a) \/ Len(contents) = STACK_SIZE
           THEN Return(p, -1) /\ UNCHANGED contents
           ELSE Return(p, 0) /\ contents' = Append(contents, a)

Pop(p) ==
    /\ call[p] = PopCall
    /\ IF contents = <<>>
       THEN Return(p, -1) /\ UNCHANGED contents
       ELSE /\ Return(p, contents[Len(contents)])
            /\ contents' = SubSeq(contents, 1, Len(contents) - 1)

Next == \E p \in Callers : Invoke(p) \/ Push(p) \/ Pop(p)

Spec == Init /\ [][Next]_vars
=============================================================================

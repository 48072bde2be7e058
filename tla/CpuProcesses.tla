---------------------------- MODULE CpuProcesses ----------------------------
(***************************************************************************)
(* The scheduling benchmark OS/hw2/Sources/cpu.c: a parent forks           *)
(* processNumber children, which compute until their time is up, and waits *)
(* for them in the order of their creation.  Control-C sends SIGINT to     *)
(* all of them at any moment.  Neither fork() nor waitpid() is checked for *)
(* failure.  Output goes to a terminal, line by line; the scheduling class *)
(* asked for with sched_setattr has no effect on what may happen.          *)
(***************************************************************************)
EXTENDS Integers

CONSTANTS
    processNumber,      \* the first argument
    MaxLoops,           \* bound: turns of a child's loop before its time is up
    MaxSignals          \* bound: how often Control-C is pressed

ASSUME CpuAssumption ==
    /\ processNumber \in Nat
    /\ MaxLoops \in Nat \ {0}
    /\ MaxSignals \in Nat

VARIABLES
    pc,             \* the parent: "start", "fork", "wait", "ended" or "killed"
    i,              \* the parent's i
    pid,            \* pid_arr, by its content: "unset", "child" or "failed"
    state,          \* of each child
    pid_idx,        \* each child's copy
    count,          \* each child's copy
    pending,        \* who has a SIGINT waiting
    signals,        \* how often Control-C was pressed
    reports         \* the lines printed: [by, kind, index]

vars == <<pc, i, pid, state, pid_idx, count, pending, signals, reports>>

Children == 0 .. processNumber - 1
Parent == -1

(* A child is created, computing, at the exit of line 109, or a zombie. *)
Live(c) == state[c] \in {"created", "computing", "exiting"}
Unreaped(c) == Live(c) \/ state[c] = "zombie"

Init ==
    /\ pc = "start"
    /\ i = 0
    /\ pid = [c \in Children |-> "unset"]
    /\ state = [c \in Children |-> "none"]
    /\ pid_idx = [c \in Children |-> 0]
    /\ count = [c \in Children |-> 0]
    /\ pending = {}
    /\ signals = 0
    /\ reports = {}

-----------------------------------------------------------------------------
(* The parent. *)

InstallHandler ==
    /\ pc = "start"
    /\ pending = {}
    /\ pc' = "fork"
    /\ UNCHANGED <<i, pid, state, pid_idx, count, pending, signals, reports>>

(* Before signal() the default action of SIGINT ends the program. *)
Killed ==
    /\ pc = "start"
    /\ pending # {}
    /\ pc' = "killed"
    /\ UNCHANGED <<i, pid, state, pid_idx, count, pending, signals, reports>>

X_OneMore ==
    (* Mutation: the loop goes on for one child too many. *)
    i <= processNumber
MoreToFork == i < processNumber

(* The child starts with the parent's pid_idx and count, which stay 0, and
   with no signal pending. *)
Fork ==
    /\ pc = "fork" /\ MoreToFork
    /\ pid' = [pid EXCEPT ![i] = "child"]
    /\ state' = [state EXCEPT ![i] = "created"]
    /\ i' = i + 1
    /\ UNCHANGED <<pc, pid_idx, count, pending, signals, reports>>

ForkFails ==
    /\ pc = "fork" /\ MoreToFork
    /\ pid' = [pid EXCEPT ![i] = "failed"]
    /\ i' = i + 1
    /\ UNCHANGED <<pc, state, pid_idx, count, pending, signals, reports>>

AllForked ==
    /\ pc = "fork" /\ ~MoreToFork
    /\ pc' = "wait"
    /\ i' = 0
    /\ UNCHANGED <<pid, state, pid_idx, count, pending, signals, reports>>

Reap(c) ==
    /\ state[c] = "zombie"
    /\ state' = [state EXCEPT ![c] = "reaped"]

X_Insist ==
    (* Mutation: waitpid is repeated until it delivers a child. *)
    \/ pid[i] = "child" /\ Reap(i)
    \/ pid[i] = "failed" /\ \E c \in Children : Reap(c)
(* waitpid(pid_arr[i]): a child's pid, or -1 for any child.  It blocks while
   there is such a child and none of them has ended; it returns at once,
   with ECHILD, when there is none left.  signal() makes the kernel restart
   a wait that SIGINT interrupts. *)
WaitReturns ==
    \/ pid[i] = "child" /\ Reap(i)
    \/ pid[i] = "failed" /\ \E c \in Children : Reap(c)
    \/ pid[i] = "child" /\ state[i] = "reaped" /\ UNCHANGED state
    \/ pid[i] = "failed" /\ (\A c \in Children : ~Unreaped(c)) /\ UNCHANGED state

X_OneShort ==
    (* Mutation: the loop ends before the last child. *)
    i >= processNumber - 1
LoopDone == i = processNumber

Wait ==
    /\ pc = "wait" /\ ~LoopDone
    /\ WaitReturns
    /\ i' = i + 1
    /\ UNCHANGED <<pc, pid, pid_idx, count, pending, signals, reports>>

Return ==
    /\ pc = "wait" /\ LoopDone
    /\ pc' = "ended"
    /\ UNCHANGED <<i, pid, state, pid_idx, count, pending, signals, reports>>

(* handle_signal in the parent: getpid() = s_pid. *)
ParentHandles ==
    /\ pc \in {"fork", "wait"}
    /\ Parent \in pending
    /\ pending' = pending \ {Parent}
    /\ UNCHANGED <<pc, i, pid, state, pid_idx, count, signals, reports>>

-----------------------------------------------------------------------------
(* A child. *)

Report(c, kind, index) == [by |-> c, kind |-> kind, index |-> index]

X_NoIndex(c) ==
    (* Mutation: the child leaves pid_idx as it was. *)
    /\ state[c] = "created"
    /\ state' = [state EXCEPT ![c] = "computing"]
    /\ UNCHANGED <<pc, i, pid, pid_idx, count, pending, signals, reports>>
SetIndex(c) ==
    /\ state[c] = "created"
    /\ pid_idx' = [pid_idx EXCEPT ![c] = c]
    /\ state' = [state EXCEPT ![c] = "computing"]
    /\ UNCHANGED <<pc, i, pid, count, pending, signals, reports>>

(* calc(), and the clock says that there is time left. *)
Compute(c) ==
    /\ state[c] = "computing"
    /\ count[c] < MaxLoops - 1
    /\ count' = [count EXCEPT ![c] = @ + 1]
    /\ UNCHANGED <<pc, i, pid, state, pid_idx, pending, signals, reports>>

(* calc(), and the time is up: the DONE line, and then exit(1). *)
TimeUp(c) ==
    /\ state[c] = "computing"
    /\ count' = [count EXCEPT ![c] = @ + 1]
    /\ reports' = reports \cup {Report(c, "done", c)}
    /\ state' = [state EXCEPT ![c] = "exiting"]
    /\ UNCHANGED <<pc, i, pid, pid_idx, pending, signals>>

Exit(c) ==
    /\ state[c] = "exiting"
    /\ state' = [state EXCEPT ![c] = "zombie"]
    /\ pending' = pending \ {c}
    /\ UNCHANGED <<pc, i, pid, pid_idx, count, signals, reports>>

X_CarriesOn(c) ==
    (* Mutation: the handler prints and returns. *)
    /\ Live(c) /\ c \in pending
    /\ reports' = reports \cup {Report(c, "interrupted", pid_idx[c])}
    /\ pending' = pending \ {c}
    /\ UNCHANGED <<pc, i, pid, state, pid_idx, count, signals>>
(* handle_signal in a child prints and exits, wherever it is. *)
ChildHandles(c) ==
    /\ Live(c) /\ c \in pending
    /\ reports' = reports \cup {Report(c, "interrupted", pid_idx[c])}
    /\ state' = [state EXCEPT ![c] = "zombie"]
    /\ pending' = pending \ {c}
    /\ UNCHANGED <<pc, i, pid, pid_idx, count, signals>>

ChildStep(c) == SetIndex(c) \/ Compute(c) \/ TimeUp(c) \/ Exit(c) \/ ChildHandles(c)

(* The terminal signals every process of the group that exists now. *)
ControlC ==
    /\ pc \in {"start", "fork", "wait"}
    /\ signals < MaxSignals
    /\ signals' = signals + 1
    /\ pending' = pending \cup {Parent} \cup {c \in Children : Live(c)}
    /\ UNCHANGED <<pc, i, pid, state, pid_idx, count, reports>>

ParentStep ==
    InstallHandler \/ Killed \/ Fork \/ ForkFails \/ AllForked \/ Wait \/ Return \/ ParentHandles

Next == ParentStep \/ (\E c \in Children : ChildStep(c)) \/ ControlC

Spec == Init /\ [][Next]_vars

(* The kernel schedules every process that can run; SIGINT need not come. *)
FairSpec ==
    Spec /\ WF_vars(ParentStep) /\ \A c \in Children : WF_vars(ChildStep(c))

-----------------------------------------------------------------------------
Kinds == {"done", "interrupted"}

TypeOK ==
    /\ pc \in {"start", "fork", "wait", "ended", "killed"}
    /\ i \in 0 .. processNumber
    /\ pid \in [Children -> {"unset", "child", "failed"}]
    /\ state \in [Children -> {"none", "created", "computing", "exiting", "zombie", "reaped"}]
    /\ pid_idx \in [Children -> Children \cup {0}]
    /\ count \in [Children -> 0 .. MaxLoops]
    /\ pending \subseteq Children \cup {Parent}
    /\ signals \in 0 .. MaxSignals
    /\ reports \subseteq [by : Children, kind : Kinds, index : Children \cup {0}]

(* cpu.c:91, 114-116: when the program ends no child is left, running or
   unreaped, although a fork() that failed makes the parent wait for "any"
   child, which then takes one that a later waitpid() asks for by its pid. *)
ParentLast == pc = "ended" => \A c \in Children : ~Unreaped(c)

(* cpu.c:39-44, 94, 108: who reads the lines can tell the children apart.  A
   line names the child that printed it, except that a child interrupted
   between fork() and the assignment of pid_idx calls itself number 0. *)
ReportsNameChild ==
    \A r \in reports :
      /\ state[r.by] # "none"
      /\ r.index # r.by => r.index = 0 /\ r.kind = "interrupted" /\ count[r.by] = 0

(* cpu.c:41, 108: every child that is gone has printed a line, a DONE line
   only at the end of its time; a child prints two lines only when SIGINT
   catches it between the printf of line 108 and the end of exit(1). *)
Printed(c, kind) == \E r \in reports : r.by = c /\ r.kind = kind

EveryChildReports ==
    \A c \in Children :
      /\ state[c] \in {"zombie", "reaped"} => Printed(c, "done") \/ Printed(c, "interrupted")
      /\ state[c] \in {"created", "computing"} => ~Printed(c, "done") /\ ~Printed(c, "interrupted")
      /\ Printed(c, "interrupted") => ~Live(c) /\ signals > 0

(* The benchmark ends, interrupted or not, and whatever fork() says. *)
BenchmarkEnds == <>(pc \in {"ended", "killed"})
=============================================================================

------------------------- MODULE CpuProcesses_proof -------------------------
(* The invariants of CpuProcesses, for every number of children, loops and   *)
(* signals.                                                                  *)
EXTENDS CpuProcesses, TLAPS

\* TypeOK in two parts: the variables, and the lines.
Shape ==
    /\ pc \in {"start", "fork", "wait", "ended", "killed"}
    /\ i \in 0 .. processNumber
    /\ pid \in [Children -> {"unset", "child", "failed"}]
    /\ state \in [Children -> {"none", "created", "computing", "exiting", "zombie", "reaped"}]
    /\ pid_idx \in [Children -> Children \cup {0}]
    /\ count \in [Children -> 0 .. MaxLoops]
    /\ pending \subseteq Children \cup {Parent}
    /\ signals \in 0 .. MaxSignals

Lines == reports \subseteq [by : Children, kind : Kinds, index : Children \cup {0}]

\* pid_arr is filled from the front, and holds a pid where there is a child.
Filled ==
    /\ pc = "start" => i = 0
    /\ \A c \in Children :
         /\ pid[c] = "child" <=> state[c] # "none"
         /\ pc \in {"start", "fork", "killed"} => (pid[c] = "unset" <=> c >= i)
         /\ pc \in {"wait", "ended"} => pid[c] # "unset"

\* A child that the loop of waits has passed is reaped.
Passed ==
    \A c \in Children :
      /\ pc = "wait" /\ c < i /\ pid[c] = "child" => state[c] = "reaped"
      /\ pc = "ended" /\ pid[c] = "child" => state[c] = "reaped"

\* What a child has set when it is in a state.
Progress ==
    \A c \in Children :
      /\ state[c] \in {"none", "created"} => pid_idx[c] = 0 /\ count[c] = 0
      /\ state[c] \in {"computing", "exiting"} => pid_idx[c] = c
      /\ state[c] = "computing" => count[c] < MaxLoops
      /\ state[c] = "exiting" => Printed(c, "done")

Signalled == pending # {} => signals > 0

Inv ==
    /\ Shape
    /\ Lines
    /\ Filled
    /\ Passed
    /\ Progress
    /\ Signalled
    /\ ReportsNameChild
    /\ EveryChildReports

-----------------------------------------------------------------------------
\* Children are integers, none of them the parent.
LEMMA ChildrenAreInts ==
    /\ Children \subseteq Nat
    /\ Parent \notin Children
    /\ \A n \in 0 .. processNumber : n < processNumber => n \in Children
    /\ \A c \in Children : c < processNumber
  BY CpuAssumption DEF CpuAssumption, Children, Parent

\* A line is by a child, and of one of the two kinds.
LEMMA LineFields ==
    Lines => \A r \in reports : r.by \in Children /\ r.kind \in Kinds
  BY DEF Lines

\* Who has printed what, after one more line.
LEMMA OneMoreLine ==
    ASSUME NEW c, NEW kind, NEW index,
           reports' = reports \cup {Report(c, kind, index)},
           NEW d, NEW k
    PROVE  Printed(d, k)' <=> Printed(d, k) \/ (d = c /\ k = kind)
<1>1. Report(c, kind, index).by = c /\ Report(c, kind, index).kind = kind
  BY DEF Report
<1>2. Report(c, kind, index) \in reports' /\ reports \subseteq reports'
  OBVIOUS
<1>3. Printed(d, k) \/ (d = c /\ k = kind) => Printed(d, k)'
  BY <1>1, <1>2 DEF Printed
<1>4. ASSUME Printed(d, k)' PROVE Printed(d, k) \/ (d = c /\ k = kind)
  <2>1. PICK r \in reports' : r.by = d /\ r.kind = k
    BY <1>4 DEF Printed
  <2>2. CASE r \in reports
    BY <2>1, <2>2 DEF Printed
  <2>3. CASE r = Report(c, kind, index)
    BY <1>1, <2>1, <2>3
  <2> QED
    BY <2>2, <2>3
<1> QED
  BY <1>3, <1>4

LEMMA TypeParts == TypeOK <=> Shape /\ Lines
  BY DEF TypeOK, Shape, Lines

\* cpu.c:66-85: nothing has happened yet.
LEMMA InitInv == Init => Inv
  BY CpuAssumption, ChildrenAreInts
  DEF CpuAssumption, Init, Inv, Shape, Lines, Filled, Passed, Progress, Signalled,
      ReportsNameChild, EveryChildReports, Printed, Live, Children

-----------------------------------------------------------------------------
\* The parent's steps that leave the children and their lines alone.
LEMMA ParentOnly ==
    ASSUME Inv,
           InstallHandler \/ Killed \/ AllForked \/ Return \/ ParentHandles
    PROVE  Inv'
<1> USE CpuAssumption, ChildrenAreInts
        DEF CpuAssumption, InstallHandler, Killed, AllForked, Return,
            ParentHandles, MoreToFork, LoopDone
<1>1. UNCHANGED <<pid, state, pid_idx, count, signals, reports>>
    /\ pending' \subseteq pending
  OBVIOUS
<1>2. Shape' /\ Lines'
  <2>1. i' \in 0 .. processNumber /\ pc' \in {"start", "fork", "wait", "ended", "killed"}
    BY DEF Inv, Shape
  <2>2. Shape'
    BY <1>1, <2>1 DEF Inv, Shape
  <2> QED
    BY <1>1, <2>2 DEF Inv, Lines
<1>3. Filled'
  BY DEF Inv, Shape, Filled
<1>4. Passed'
  BY DEF Inv, Shape, Filled, Passed
<1>5. Progress' /\ Signalled'
  BY <1>1 DEF Inv, Progress, Signalled, Printed
<1>6. ReportsNameChild' /\ EveryChildReports'
  BY <1>1 DEF Inv, ReportsNameChild, EveryChildReports, Printed, Live
<1> QED
  BY <1>2, <1>3, <1>4, <1>5, <1>6 DEF Inv

\* cpu.c:87: a child or a failure is entered at i.
LEMMA ForkInv == ASSUME Inv, Fork \/ ForkFails PROVE Inv'
<1> USE CpuAssumption, ChildrenAreInts
        DEF CpuAssumption, Fork, ForkFails, MoreToFork
<1>1. i \in Children /\ i \in Int /\ state[i] = "none"
  BY DEF Inv, Shape, Filled
<1>2. Shape' /\ Lines'
  <2>1. i' \in 0 .. processNumber
    BY <1>1 DEF Inv, Shape
  <2>2. /\ pid' \in [Children -> {"unset", "child", "failed"}]
        /\ state' \in [Children -> {"none", "created", "computing", "exiting", "zombie", "reaped"}]
    BY <1>1 DEF Inv, Shape
  <2>3. UNCHANGED <<pc, pid_idx, count, pending, signals, reports>>
    OBVIOUS
  <2> QED
    BY <2>1, <2>2, <2>3 DEF Inv, Shape, Lines
<1>3. Filled'
  BY <1>1 DEF Inv, Shape, Filled
<1>4. Passed' /\ Progress' /\ Signalled'
  BY <1>1 DEF Inv, Shape, Passed, Progress, Signalled, Printed
<1>5. ReportsNameChild'
  BY <1>1, LineFields, ZenonT(30) DEF Inv, Shape, ReportsNameChild
<1>6. EveryChildReports'
  <2>1. \A k \in Kinds : ~Printed(i, k)
    BY <1>1 DEF Inv, ReportsNameChild, Printed, Kinds
  <2> QED
    BY <1>1, <2>1
    DEF Inv, Shape, EveryChildReports, Printed, Live, Kinds
<1> QED
  BY <1>2, <1>3, <1>4, <1>5, <1>6 DEF Inv

\* cpu.c:114-116: waitpid reaps a child, or finds its child reaped before, or
\* finds none left.
LEMMA WaitInv == ASSUME Inv, Wait PROVE Inv'
<1> USE CpuAssumption, ChildrenAreInts DEF CpuAssumption, Wait, LoopDone
<1>1. i \in Children /\ i \in Int
  BY DEF Inv, Shape, Lines
<1>2. \/ UNCHANGED state
      \/ \E c \in Children : Reap(c)
  BY <1>1 DEF WaitReturns
<1>3. Shape' /\ Lines'
  <2>1. i' \in 0 .. processNumber
    BY <1>1 DEF Inv, Shape
  <2>2. state' \in [Children -> {"none", "created", "computing", "exiting", "zombie", "reaped"}]
    BY <1>2 DEF Inv, Shape, Reap
  <2>3. UNCHANGED <<pc, pid, pid_idx, count, pending, signals, reports>>
    OBVIOUS
  <2> QED
    BY <2>1, <2>2, <2>3 DEF Inv, Shape, Lines
<1>4. \A c \in Children :
        \/ state'[c] = state[c]
        \/ state[c] = "zombie" /\ state'[c] = "reaped"
  BY <1>2 DEF Inv, Shape, Reap
<1>5. Filled'
  BY <1>4 DEF Inv, Filled
<1>6. Passed'
  <2>1. pid[i] = "child" => state'[i] = "reaped"
    BY <1>1 DEF WaitReturns, Reap, Inv, Shape
  <2> QED
    BY <1>1, <1>4, <2>1 DEF Inv, Shape, Passed
<1>7. Progress' /\ Signalled'
  BY <1>4 DEF Inv, Progress, Signalled, Printed
<1>8. ReportsNameChild'
  BY <1>4, LineFields, ZenonT(30) DEF Inv, Shape, ReportsNameChild
<1>9. EveryChildReports'
  BY <1>4 DEF Inv, EveryChildReports, Printed, Live
<1> QED
  BY <1>3, <1>5, <1>6, <1>7, <1>8, <1>9 DEF Inv

\* cpu.c:94-106: a child sets its index, or computes.
LEMMA ComputeInv ==
    ASSUME Inv, NEW c \in Children, SetIndex(c) \/ Compute(c) \/ Exit(c)
    PROVE  Inv'
<1> USE CpuAssumption, ChildrenAreInts
        DEF CpuAssumption, SetIndex, Compute, Exit
<1>1. Shape' /\ Lines'
  <2>1. state' \in [Children -> {"none", "created", "computing", "exiting", "zombie", "reaped"}]
    BY DEF Inv, Shape
  <2>2. pid_idx' \in [Children -> Children \cup {0}]
    BY DEF Inv, Shape
  <2>3. count' \in [Children -> 0 .. MaxLoops]
    BY DEF Inv, Shape
  <2>4. UNCHANGED <<pc, i, pid, signals, reports>> /\ pending' \subseteq pending
    OBVIOUS
  <2> QED
    BY <2>1, <2>2, <2>3, <2>4 DEF Inv, Shape, Lines
<1>2. Filled'
  BY DEF Inv, Shape, Filled
<1>3. Passed'
  BY DEF Inv, Shape, Passed
<1>4. Progress' /\ Signalled'
  BY DEF Inv, Shape, Progress, Signalled, Printed
<1>5. ReportsNameChild'
  <2>1. \A r \in reports : r.by \in Children /\ r.kind \in Kinds
    BY DEF Inv, Shape, Lines
  <2>2. CASE Exit(c)
    BY <2>1, <2>2 DEF Inv, Shape, ReportsNameChild
  <2>3. CASE SetIndex(c) \/ Compute(c)
    <3>1. state[c] \in {"created", "computing"}
      BY <2>3
    <3>2. \A k \in Kinds : ~Printed(c, k)
      BY <3>1 DEF Inv, EveryChildReports, Kinds
    <3>3. \A r \in reports : r.by # c
      BY <2>1, <3>2 DEF Printed
    <3>4. /\ UNCHANGED reports
          /\ \A d \in Children : d # c => state'[d] = state[d] /\ count'[d] = count[d]
      BY <2>3 DEF Inv, Shape
    <3> QED
      BY <2>1, <3>3, <3>4 DEF Inv, ReportsNameChild
  <2> QED
    BY <2>2, <2>3
<1>6. EveryChildReports'
  <2>1. \A d \in Children :
          /\ d # c => state'[d] = state[d]
          /\ \A k \in Kinds : Printed(d, k)' <=> Printed(d, k)
    BY DEF Inv, Shape, Printed
  <2>2. \/ state[c] = "created" /\ state'[c] = "computing"
        \/ state[c] = "computing" /\ state'[c] = "computing"
        \/ state[c] = "exiting" /\ state'[c] = "zombie"
    BY DEF Inv, Shape
  <2>3. signals' = signals
    OBVIOUS
  <2> QED
    BY <2>1, <2>2, <2>3 DEF Inv, Progress, EveryChildReports, Live, Kinds
<1> QED
  BY <1>1, <1>2, <1>3, <1>4, <1>5, <1>6 DEF Inv

\* cpu.c:107-109: the time of a child is up.
LEMMA TimeUpInv == ASSUME Inv, NEW c \in Children, TimeUp(c) PROVE Inv'
<1> USE CpuAssumption, ChildrenAreInts DEF CpuAssumption, TimeUp
<1>1. /\ state' = [state EXCEPT ![c] = "exiting"]
      /\ count' = [count EXCEPT ![c] = @ + 1]
      /\ reports' = reports \cup {Report(c, "done", c)}
      /\ state[c] = "computing"
      /\ UNCHANGED <<pc, i, pid, pid_idx, pending, signals>>
  OBVIOUS
<1>2. Shape'
  BY <1>1 DEF Inv, Shape, Progress
<1>3. Lines'
  BY <1>1 DEF Inv, Lines, Report, Kinds
<1>4. Filled' /\ Passed'
  BY <1>1 DEF Inv, Shape, Filled, Passed
<1>5. \A d \in Children : d # c => state'[d] = state[d] /\ count'[d] = count[d]
  BY <1>1 DEF Inv, Shape
<1>6. \A d \in Children, k \in Kinds :
        Printed(d, k)' <=> Printed(d, k) \/ (d = c /\ k = "done")
  BY <1>1, OneMoreLine
<1>7. state'[c] = "exiting"
  BY <1>1 DEF Inv, Shape
<1>8. Progress' /\ Signalled'
  BY <1>1, <1>5, <1>6, <1>7 DEF Inv, Progress, Signalled, Kinds
<1>9. \A k \in Kinds : ~Printed(c, k)
  BY <1>1 DEF Inv, EveryChildReports, Kinds
<1>10. ReportsNameChild'
  <2>1. \A r \in reports : r.by \in Children /\ r.by # c
    BY <1>9, LineFields DEF Inv, Printed
  <2> QED
    BY <1>1, <1>5, <1>7, <2>1 DEF Inv, ReportsNameChild, Report
<1>11. EveryChildReports'
  BY <1>1, <1>5, <1>6, <1>7, <1>9 DEF Inv, EveryChildReports, Live, Kinds
<1> QED
  BY <1>2, <1>3, <1>4, <1>8, <1>10, <1>11 DEF Inv

\* cpu.c:39-44: SIGINT makes a child print and exit, wherever it is.
LEMMA HandleInv == ASSUME Inv, NEW c \in Children, ChildHandles(c) PROVE Inv'
<1> USE CpuAssumption, ChildrenAreInts DEF CpuAssumption, ChildHandles
<1>1. /\ Live(c) /\ pending # {}
      /\ state' = [state EXCEPT ![c] = "zombie"]
      /\ reports' = reports \cup {Report(c, "interrupted", pid_idx[c])}
      /\ pending' \subseteq pending
      /\ UNCHANGED <<pc, i, pid, pid_idx, count, signals>>
  OBVIOUS
<1>2. Shape'
  BY <1>1 DEF Inv, Shape
<1>3. Lines'
  BY <1>1 DEF Inv, Shape, Lines, Report, Kinds
<1>4. Filled' /\ Passed'
  BY <1>1 DEF Inv, Shape, Filled, Passed, Live
<1>5. \A d \in Children : d # c => state'[d] = state[d]
  BY <1>1 DEF Inv, Shape
<1>6. \A d \in Children, k \in Kinds :
        Printed(d, k)' <=> Printed(d, k) \/ (d = c /\ k = "interrupted")
  BY <1>1, OneMoreLine
<1>7. state'[c] = "zombie"
  BY <1>1 DEF Inv, Shape
<1>8. Progress' /\ Signalled'
  BY <1>1, <1>5, <1>6, <1>7 DEF Inv, Progress, Signalled, Kinds
<1>9. ReportsNameChild'
  <2>1. \A r \in reports : r.by \in Children /\ state'[r.by] # "none"
    BY <1>5, <1>7, LineFields DEF Inv, ReportsNameChild
  <2>2. pid_idx[c] # c => pid_idx[c] = 0 /\ count[c] = 0
    BY <1>1 DEF Inv, Progress, Live
  <2>3. \A r \in reports :
          r.index # r.by => r.index = 0 /\ r.kind = "interrupted" /\ count'[r.by] = 0
    BY <1>1 DEF Inv, ReportsNameChild
  <2>4. LET r == Report(c, "interrupted", pid_idx[c])
        IN  /\ state'[r.by] # "none"
            /\ r.index # r.by =>
                 r.index = 0 /\ r.kind = "interrupted" /\ count'[r.by] = 0
    BY <1>1, <1>7, <2>2 DEF Report
  <2> QED
    BY <1>1, <2>1, <2>3, <2>4 DEF ReportsNameChild
<1>10. EveryChildReports'
  BY <1>1, <1>5, <1>6, <1>7 DEF Inv, EveryChildReports, Signalled, Live, Kinds
<1> QED
  BY <1>2, <1>3, <1>4, <1>8, <1>9, <1>10 DEF Inv

\* The terminal signals who exists.
LEMMA ControlCInv == ASSUME Inv, ControlC PROVE Inv'
<1> USE CpuAssumption, ChildrenAreInts DEF CpuAssumption, ControlC
<1>1. UNCHANGED <<pc, i, pid, state, pid_idx, count, reports>>
  OBVIOUS
<1>2. signals \in Nat /\ signals' = signals + 1 /\ signals' \in 0 .. MaxSignals
  BY DEF Inv, Shape
<1>3. pending' \subseteq Children \cup {Parent}
  BY DEF Inv, Shape
<1>4. Shape' /\ Lines'
  BY <1>1, <1>2, <1>3 DEF Inv, Shape, Lines
<1>5. Filled' /\ Passed' /\ Progress' /\ Signalled'
  BY <1>1, <1>2 DEF Inv, Filled, Passed, Progress, Signalled, Printed
<1>6. ReportsNameChild' /\ EveryChildReports'
  BY <1>1, <1>2 DEF Inv, ReportsNameChild, EveryChildReports, Printed, Live
<1> QED
  BY <1>4, <1>5, <1>6 DEF Inv

-----------------------------------------------------------------------------
\* Every step of the parent, of a child and of the terminal.
LEMMA NextInv == Inv /\ [Next]_vars => Inv'
<1> SUFFICES ASSUME Inv, [Next]_vars PROVE Inv'
  OBVIOUS
<1>1. CASE ParentStep
  BY <1>1, ParentOnly, ForkInv, WaitInv DEF ParentStep
<1>2. ASSUME NEW c \in Children, ChildStep(c) PROVE Inv'
  BY <1>2, ComputeInv, TimeUpInv, HandleInv DEF ChildStep
<1>3. CASE ControlC
  BY <1>3, ControlCInv
<1>4. CASE UNCHANGED vars
  BY <1>4 DEF vars, Inv, Shape, Lines, Filled, Passed, Progress, Signalled,
              ReportsNameChild, EveryChildReports, Printed, Live, Reap
<1> QED
  BY <1>1, <1>2, <1>3, <1>4 DEF Next

THEOREM Invariance == Spec => []Inv
  BY InitInv, NextInv, PTL DEF Spec

\* Every variable keeps its type, whatever fork() says and whenever SIGINT comes.
THEOREM TypeCorrect == Spec => []TypeOK
<1>1. Inv => TypeOK
  BY TypeParts DEF Inv
<1> QED
  BY <1>1, Invariance, PTL

\* cpu.c:114-117: the parent ends last.
THEOREM NoChildLeft == Spec => []ParentLast
<1>1. Inv => ParentLast
  BY DEF Inv, Shape, Filled, Passed, ParentLast, Unreaped, Live
<1> QED
  BY <1>1, Invariance, PTL

\* cpu.c:39-44, 94, 108: a line tells who printed it, but for a child that had
\* not yet set its index.
THEOREM LinesNameChild == Spec => []ReportsNameChild
<1>1. Inv => ReportsNameChild
  BY DEF Inv
<1> QED
  BY <1>1, Invariance, PTL

\* cpu.c:41, 108: no child goes without a line.
THEOREM NoSilentChild == Spec => []EveryChildReports
<1>1. Inv => EveryChildReports
  BY DEF Inv
<1> QED
  BY <1>1, Invariance, PTL
=============================================================================

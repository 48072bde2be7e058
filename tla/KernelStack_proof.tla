------------------------- MODULE KernelStack_proof --------------------------
(***************************************************************************)
(* Calls that do not overlap keep the stack well formed and implement      *)
(* UniqueStack, for every size, every set of values and any callers.       *)
(***************************************************************************)
EXTENDS KernelStack, SequenceTheorems, TLAPS

Busy(p) == pc[p] # "user"

(* One call at a time, and what it holds of top is current. *)
Alone ==
    /\ \A p, q \in Callers : Busy(p) /\ Busy(q) => p = q
    /\ \A p \in Callers : Busy(p) => reg[p] = top

(* What a push has established so far: a is not among the elements seen. *)
PushFacts(p) ==
    /\ pc[p] \in Pushing => arg[p] \in Values
    /\ pc[p] = "scan" => /\ i[p] <= top + 1
                         /\ \A k \in Index : k < i[p] => stack[k] # arg[p]
    /\ pc[p] \in {"room", "bump"} => \A k \in Index : k <= top => stack[k] # arg[p]
    /\ pc[p] = "bump" => top < STACK_SIZE - 1
    /\ pc[p] = "store" => /\ top >= 0
                          /\ \A k \in Index : k < top => stack[k] # arg[p]

PopFacts(p) ==
    /\ pc[p] \in {"take", "drop"} => top >= 0
    /\ pc[p] = "drop" => value[p] = stack[top]

IInv ==
    /\ TypeOK
    /\ Alone
    /\ \A p \in Callers : PushFacts(p) /\ PopFacts(p)
    /\ NoDuplicates

-----------------------------------------------------------------------------
(* While p's call runs nobody else's does. *)
LEMMA OthersWait ==
    ASSUME IInv, NEW p \in Callers, Busy(p)
    PROVE  /\ reg[p] = top /\ Uses(p) = {top}
           /\ \A q \in Callers \ {p} : pc[q] = "user"
           /\ Height = IF pc[p] = "store" THEN top ELSE top + 1
  BY DEF IInv, Alone, Busy, Uses, Height

(* A step of p leaves everybody else in user mode. *)
LEMMA OnlyMine ==
    ASSUME NEW p \in Callers, pc \in [Callers -> {"user"} \cup Pushing \cup Popping],
           \A q \in Callers \ {p} : pc[q] = "user",
           pc' = pc \/ \E l \in {"user"} \cup Pushing \cup Popping : Goto(p, l),
           TypeOK', NoDuplicates', Busy(p)' => reg'[p] = top',
           PushFacts(p)', PopFacts(p)'
    PROVE  IInv'
  <1>1. \A q \in Callers \ {p} : pc'[q] = "user"
    BY DEF Goto
  <1>2. \A q \in Callers \ {p} : PushFacts(q)' /\ PopFacts(q)'
    BY <1>1 DEF PushFacts, PopFacts, Pushing
  <1>3. Alone'
    BY <1>1 DEF Alone, Busy
  <1> QED  BY <1>2, <1>3 DEF IInv

(* Nor does its step raise the number of elements, but for Store. *)
LEMMA HeightNext ==
    ASSUME NEW p \in Callers, pc \in [Callers -> {"user"} \cup Pushing \cup Popping],
           \A q \in Callers \ {p} : pc[q] = "user",
           NEW l \in {"user"} \cup Pushing \cup Popping, Goto(p, l)
    PROVE  /\ pc'[p] = l
           /\ Height' = IF l = "store" THEN top' ELSE top' + 1
  BY DEF Goto, Height

LEMMA DistinctKept ==
    ASSUME NoDuplicates, UNCHANGED stack, Height \in Int, Height' \in Int, Height' <= Height
    PROVE  NoDuplicates'
  BY DEF NoDuplicates, Index

LEMMA TrapPushStep ==
    ASSUME StackAssumption, ~ Overlap, IInv, NEW p \in Callers, TrapPush(p)
    PROVE  IInv'
  <1> USE StackAssumption DEF locals
  <1>1. /\ top \in Int /\ -1 <= top /\ top < STACK_SIZE
        /\ \A q \in Callers : pc[q] = "user"
        /\ Height = top + 1 /\ TypeOK
    BY DEF IInv, TypeOK, TrapPush, MayTrap, Height
  <1>2. Goto(p, "scan") /\ pc'[p] = "scan" /\ Height' = top' + 1
    BY <1>1, HeightNext DEF TrapPush, TypeOK, Pushing
  <1>3. TypeOK'
    BY <1>1 DEF TrapPush, TypeOK, Goto, Pushing
  <1>4. PushFacts(p)' /\ PopFacts(p)' /\ reg'[p] = top'
    BY <1>1, <1>2 DEF TrapPush, TypeOK, PushFacts, PopFacts, Index
  <1>5. NoDuplicates'
    BY <1>1, <1>2, DistinctKept DEF TrapPush, IInv
  <1> QED  BY <1>1, <1>2, <1>3, <1>4, <1>5, OnlyMine DEF TypeOK, Pushing

(* Without overlap there is only one value that top can be used with, and the
   elements read are elements of the stack. *)
LEMMA ScanAlone ==
    ASSUME StackAssumption, IInv, NEW p \in Callers, Scan(p)
    PROVE  \/ /\ i[p] <= top /\ i[p] \in Index /\ stack[i[p]] = arg[p]
              /\ Return(p, -1) /\ UNCHANGED i
           \/ /\ i[p] <= top /\ i[p] \in Index /\ stack[i[p]] # arg[p]
              /\ i' = [i EXCEPT ![p] = @ + 1] /\ UNCHANGED <<pc, ret>>
           \/ /\ i[p] = top + 1
              /\ Goto(p, "room") /\ UNCHANGED <<i, ret>>
  <1> USE StackAssumption
  <1>1. pc[p] = "scan" /\ Uses(p) = {top}
    BY OthersWait DEF Scan, Busy
  <1>2. i[p] \in Nat /\ top \in Int /\ top < STACK_SIZE /\ i[p] <= top + 1
    BY <1>1 DEF IInv, TypeOK, PushFacts
  <1>3. i[p] <= top => i[p] \in Index
    BY <1>2 DEF Index
  <1>4. \A v \in Reads(i[p]) : i[p] <= top => v = stack[i[p]]
    BY <1>3 DEF Reads
  <1> QED  BY <1>1, <1>2, <1>3, <1>4 DEF Scan, InLoop

LEMMA ScanStep ==
    ASSUME StackAssumption, IInv, NEW p \in Callers, Scan(p)
    PROVE  IInv'
  <1> USE StackAssumption
  <1>1. /\ pc[p] = "scan" /\ reg[p] = top /\ TypeOK /\ NoDuplicates /\ PushFacts(p)
        /\ \A q \in Callers \ {p} : pc[q] = "user"
        /\ Height = top + 1
    BY OthersWait DEF Scan, Busy, IInv
  <1>2. UNCHANGED <<stack, top, arg, reg, value>>
    BY DEF Scan
  <1>3. top \in Int /\ top < STACK_SIZE /\ i[p] \in Nat /\ arg[p] \in Values
    BY <1>1 DEF TypeOK, PushFacts, Pushing
  <1>4. CASE Return(p, -1) /\ UNCHANGED i
    <2>1. Goto(p, "user") /\ pc'[p] = "user" /\ Height' = top' + 1
      BY <1>1, <1>4, HeightNext DEF TypeOK, Return
    <2>2. TypeOK' /\ PushFacts(p)' /\ PopFacts(p)' /\ ~ Busy(p)'
      BY <1>1, <1>2, <1>4, <2>1
      DEF TypeOK, Return, Goto, PushFacts, PopFacts, Busy, Pushing
    <2> QED  BY <1>1, <1>2, <1>3, <2>1, <2>2, DistinctKept, OnlyMine DEF TypeOK
  <1>5. CASE /\ i[p] <= top /\ i[p] \in Index /\ stack[i[p]] # arg[p]
             /\ i' = [i EXCEPT ![p] = @ + 1] /\ UNCHANGED <<pc, ret>>
    <2>1. i'[p] = i[p] + 1
      BY <1>1, <1>5 DEF TypeOK
    <2>2. TypeOK'
      BY <1>1, <1>2, <1>5 DEF TypeOK, Index
    <2>3. PushFacts(p)' /\ PopFacts(p)' /\ reg'[p] = top'
      BY <1>1, <1>2, <1>3, <1>5, <2>1 DEF PushFacts, PopFacts, Index
    <2>4. NoDuplicates'
      BY <1>1, <1>2, <1>5 DEF NoDuplicates, Height
    <2> QED  BY <1>1, <1>5, <2>2, <2>3, <2>4, OnlyMine DEF TypeOK
  <1>6. CASE i[p] = top + 1 /\ Goto(p, "room") /\ UNCHANGED <<i, ret>>
    <2>1. pc'[p] = "room" /\ Height' = top' + 1
      BY <1>1, <1>6, HeightNext DEF TypeOK, Pushing
    <2>2. TypeOK'
      BY <1>1, <1>2, <1>6 DEF TypeOK, Goto, Pushing
    <2>3. PushFacts(p)' /\ PopFacts(p)' /\ reg'[p] = top'
      BY <1>1, <1>2, <1>3, <1>6, <2>1 DEF PushFacts, PopFacts, Index
    <2> QED  BY <1>1, <1>2, <1>3, <1>6, <2>1, <2>2, <2>3, DistinctKept, OnlyMine
             DEF TypeOK, Pushing
  <1> QED  BY <1>4, <1>5, <1>6, ScanAlone

LEMMA RoomStep ==
    ASSUME StackAssumption, IInv, NEW p \in Callers, Room(p)
    PROVE  IInv'
  <1> USE StackAssumption DEF locals
  <1>1. /\ Uses(p) = {top} /\ reg[p] = top /\ TypeOK /\ NoDuplicates
        /\ PushFacts(p) /\ PopFacts(p)
        /\ \A q \in Callers \ {p} : pc[q] = "user"
        /\ Height = IF pc[p] = "store" THEN top ELSE top + 1
    BY OthersWait DEF Room, Busy, IInv
  <1>2. top \in Int /\ -1 <= top /\ top < STACK_SIZE
    BY <1>1 DEF TypeOK
  <1>3. /\ Goto(p, "user") \/ Goto(p, "bump")
        /\ UNCHANGED <<stack, top, locals>>
    BY DEF Room, Full, Return
  <1>4. /\ pc'[p] \in {"user", "bump"}
        /\ Height' = top' + 1
    BY <1>1, <1>3, HeightNext DEF TypeOK, Pushing, Popping
  <1>5. TypeOK'
    BY <1>1, <1>3 DEF Room, Full, Return, Goto, TypeOK, Pushing, Popping
  <1>6. PushFacts(p)' /\ PopFacts(p)' /\ reg'[p] = top'
    BY <1>1, <1>2, <1>3, <1>4 DEF Room, Full, Return, Goto, TypeOK, PushFacts, PopFacts, Pushing, Index
  <1>7. NoDuplicates'
    BY <1>1, <1>2, <1>3, <1>4, DistinctKept DEF Room
  <1> QED  BY <1>1, <1>3, <1>5, <1>6, <1>7, OnlyMine DEF TypeOK, Pushing, Popping

LEMMA BumpStep ==
    ASSUME StackAssumption, IInv, NEW p \in Callers, Bump(p)
    PROVE  IInv'
  <1> USE StackAssumption DEF locals
  <1>1. /\ Uses(p) = {top} /\ reg[p] = top /\ TypeOK /\ NoDuplicates
        /\ PushFacts(p) /\ PopFacts(p)
        /\ \A q \in Callers \ {p} : pc[q] = "user"
        /\ Height = IF pc[p] = "store" THEN top ELSE top + 1
    BY OthersWait DEF Bump, Busy, IInv
  <1>2. top \in Int /\ -1 <= top /\ top < STACK_SIZE
    BY <1>1 DEF TypeOK
  <1>3. /\ Goto(p, "store") /\ pc'[p] = "store"
        /\ Height' = top'
    BY <1>1, HeightNext DEF Bump, TypeOK, Pushing, Popping
  <1>4. TypeOK'
    BY <1>1, <1>2, <1>3 DEF Bump, Goto, TypeOK, Pushing, Popping, Index, PushFacts, PopFacts
  <1>5. PushFacts(p)' /\ PopFacts(p)' /\ (Busy(p)' => reg'[p] = top')
    BY <1>1, <1>2, <1>3 DEF Bump, TypeOK, PushFacts, PopFacts, Pushing, Index, Busy
  <1>6. NoDuplicates'
    BY <1>1, <1>2, <1>3, DistinctKept DEF Bump, PushFacts, PopFacts, NoDuplicates, Index
  <1> QED  BY <1>1, <1>3, <1>4, <1>5, <1>6, OnlyMine DEF TypeOK, Pushing, Popping

LEMMA StoreStep ==
    ASSUME StackAssumption, IInv, NEW p \in Callers, Store(p)
    PROVE  IInv'
  <1> USE StackAssumption DEF locals
  <1>1. /\ Uses(p) = {top} /\ reg[p] = top /\ TypeOK /\ NoDuplicates
        /\ PushFacts(p) /\ PopFacts(p)
        /\ \A q \in Callers \ {p} : pc[q] = "user"
        /\ Height = IF pc[p] = "store" THEN top ELSE top + 1
    BY OthersWait DEF Store, Busy, IInv
  <1>2. top \in Int /\ -1 <= top /\ top < STACK_SIZE
    BY <1>1 DEF TypeOK
  <1>3. /\ Goto(p, "user") /\ pc'[p] = "user"
        /\ Height' = top' + 1
    BY <1>1, HeightNext DEF Store, Return, TypeOK, Pushing, Popping
  <1>4. TypeOK'
    BY <1>1, <1>2, <1>3 DEF Store, Return, Goto, TypeOK, Pushing, Popping, Index, PushFacts, PopFacts
  <1>5. PushFacts(p)' /\ PopFacts(p)' /\ (Busy(p)' => reg'[p] = top')
    BY <1>1, <1>2, <1>3 DEF Store, Return, TypeOK, PushFacts, PopFacts, Pushing, Index, Busy
  <1>6. NoDuplicates'
    BY <1>1, <1>2, <1>3, DistinctKept DEF Store, PushFacts, PopFacts, NoDuplicates, Index
  <1> QED  BY <1>1, <1>3, <1>4, <1>5, <1>6, OnlyMine DEF TypeOK, Pushing, Popping

LEMMA TestStep ==
    ASSUME StackAssumption, IInv, NEW p \in Callers, Test(p)
    PROVE  IInv'
  <1> USE StackAssumption DEF locals
  <1>1. /\ Uses(p) = {top} /\ reg[p] = top /\ TypeOK /\ NoDuplicates
        /\ PushFacts(p) /\ PopFacts(p)
        /\ \A q \in Callers \ {p} : pc[q] = "user"
        /\ Height = IF pc[p] = "store" THEN top ELSE top + 1
    BY OthersWait DEF Test, Busy, IInv
  <1>2. top \in Int /\ -1 <= top /\ top < STACK_SIZE
    BY <1>1 DEF TypeOK
  <1>3. /\ Goto(p, "user") \/ Goto(p, "take")
        /\ UNCHANGED <<stack, top, locals>>
    BY DEF Test, Return
  <1>4. /\ pc'[p] \in {"user", "take"}
        /\ Height' = top' + 1
    BY <1>1, <1>3, HeightNext DEF TypeOK, Pushing, Popping
  <1>5. TypeOK'
    BY <1>1, <1>3 DEF Test, Return, Goto, TypeOK, Pushing, Popping
  <1>6. PushFacts(p)' /\ PopFacts(p)' /\ reg'[p] = top'
    BY <1>1, <1>2, <1>3, <1>4 DEF Test, Return, Goto, TypeOK, PushFacts, PopFacts, Pushing, Index
  <1>7. NoDuplicates'
    BY <1>1, <1>2, <1>3, <1>4, DistinctKept DEF Test
  <1> QED  BY <1>1, <1>3, <1>5, <1>6, <1>7, OnlyMine DEF TypeOK, Pushing, Popping

LEMMA TakeStep ==
    ASSUME StackAssumption, IInv, NEW p \in Callers, Take(p)
    PROVE  IInv'
  <1> USE StackAssumption DEF locals
  <1>1. /\ Uses(p) = {top} /\ reg[p] = top /\ TypeOK /\ NoDuplicates
        /\ PushFacts(p) /\ PopFacts(p)
        /\ \A q \in Callers \ {p} : pc[q] = "user"
        /\ Height = IF pc[p] = "store" THEN top ELSE top + 1
    BY OthersWait DEF Take, Busy, IInv
  <1>2. top \in Int /\ -1 <= top /\ top < STACK_SIZE
    BY <1>1 DEF TypeOK
  <1>3. /\ Goto(p, "drop") /\ pc'[p] = "drop"
        /\ Height' = top' + 1
    BY <1>1, HeightNext DEF Take, Reads, TypeOK, Pushing, Popping
  <1>4. TypeOK'
    BY <1>1, <1>2, <1>3 DEF Take, Reads, Goto, TypeOK, Pushing, Popping, Index, PushFacts, PopFacts
  <1>5. PushFacts(p)' /\ PopFacts(p)' /\ (Busy(p)' => reg'[p] = top')
    BY <1>1, <1>2, <1>3 DEF Take, Reads, TypeOK, PushFacts, PopFacts, Pushing, Index, Busy
  <1>6. NoDuplicates'
    BY <1>1, <1>2, <1>3, DistinctKept DEF Take, PushFacts, PopFacts, NoDuplicates, Index
  <1> QED  BY <1>1, <1>3, <1>4, <1>5, <1>6, OnlyMine DEF TypeOK, Pushing, Popping

LEMMA DropStep ==
    ASSUME StackAssumption, IInv, NEW p \in Callers, Drop(p)
    PROVE  IInv'
  <1> USE StackAssumption DEF locals
  <1>1. /\ Uses(p) = {top} /\ reg[p] = top /\ TypeOK /\ NoDuplicates
        /\ PushFacts(p) /\ PopFacts(p)
        /\ \A q \in Callers \ {p} : pc[q] = "user"
        /\ Height = IF pc[p] = "store" THEN top ELSE top + 1
    BY OthersWait DEF Drop, Busy, IInv
  <1>2. top \in Int /\ -1 <= top /\ top < STACK_SIZE
    BY <1>1 DEF TypeOK
  <1>3. /\ Goto(p, "user") /\ pc'[p] = "user"
        /\ Height' = top' + 1
    BY <1>1, HeightNext DEF Drop, Return, TypeOK, Pushing, Popping
  <1>4. TypeOK'
    BY <1>1, <1>2, <1>3 DEF Drop, Return, Goto, TypeOK, Pushing, Popping, Index, PushFacts, PopFacts
  <1>5. PushFacts(p)' /\ PopFacts(p)' /\ (Busy(p)' => reg'[p] = top')
    BY <1>1, <1>2, <1>3 DEF Drop, Return, TypeOK, PushFacts, PopFacts, Pushing, Index, Busy
  <1>6. NoDuplicates'
    BY <1>1, <1>2, <1>3, DistinctKept DEF Drop, PushFacts, PopFacts, NoDuplicates, Index
  <1> QED  BY <1>1, <1>3, <1>4, <1>5, <1>6, OnlyMine DEF TypeOK, Pushing, Popping

LEMMA TrapPopStep ==
    ASSUME StackAssumption, ~ Overlap, IInv, NEW p \in Callers, TrapPop(p)
    PROVE  IInv'
  <1>1. /\ top \in Int /\ -1 <= top /\ top < STACK_SIZE
        /\ \A q \in Callers : pc[q] = "user"
        /\ Height = top + 1 /\ TypeOK
    BY StackAssumption DEF IInv, TypeOK, TrapPop, MayTrap, Height
  <1>2. Goto(p, "test") /\ pc'[p] = "test" /\ Height' = top' + 1
    BY <1>1, HeightNext DEF TrapPop, TypeOK, Popping
  <1>3. TypeOK'
    BY <1>1 DEF TrapPop, TypeOK, Goto, Popping
  <1>4. PushFacts(p)' /\ PopFacts(p)' /\ reg'[p] = top'
    BY <1>1, <1>2 DEF TrapPop, TypeOK, PushFacts, PopFacts, Pushing
  <1>5. NoDuplicates'
    BY <1>1, <1>2, DistinctKept DEF TrapPop, IInv
  <1> QED  BY <1>1, <1>2, <1>3, <1>4, <1>5, OnlyMine DEF TypeOK, Popping

LEMMA NextIInv ==
    ASSUME StackAssumption, ~ Overlap, IInv, [Next]_vars
    PROVE  IInv'
  <1>1. CASE Next
    BY <1>1, StackAssumption, TrapPushStep, ScanStep, RoomStep, BumpStep, StoreStep,
       TrapPopStep, TestStep, TakeStep, DropStep DEF Next
  <1>2. CASE UNCHANGED vars
    BY <1>2 DEF vars, locals, IInv, TypeOK, Alone, Busy, PushFacts,
                PopFacts, NoDuplicates, Height
  <1> QED  BY <1>1, <1>2

LEMMA Invariance == ASSUME ~ Overlap PROVE Spec => []IInv
  <1>1. Init => IInv
    BY StackAssumption
    DEF Init, IInv, TypeOK, Alone, Busy, PushFacts, PopFacts, NoDuplicates, Height,
        Index, Pushing, Popping
  <1>2. IInv /\ [Next]_vars => IInv'
    BY NextIInv, StackAssumption
  <1> QED  BY <1>1, <1>2, PTL DEF Spec

(* oslab_my_stack.c:10-47: without overlap top never leaves the array. *)
THEOREM TypeCorrect == ASSUME ~ Overlap PROVE Spec => []TypeOK
  BY Invariance, PTL DEF IInv

(* oslab_my_stack.c:14-18: without overlap no value is in the stack twice. *)
THEOREM Distinct == ASSUME ~ Overlap PROVE Spec => []NoDuplicates
  BY Invariance, PTL DEF IInv
-----------------------------------------------------------------------------
(* The system calls implement UniqueStack. *)

LEMMA PrefixSeq ==
    ASSUME NEW S, NEW h \in Nat, NEW s, \A k \in 1 .. h : s[k - 1] \in S
    PROVE  LET c == [k \in 1 .. h |-> s[k - 1]]
           IN  c \in Seq(S) /\ Len(c) = h /\ \A k \in 1 .. h : c[k] = s[k - 1]
  <1> DEFINE c == [k \in 1 .. h |-> s[k - 1]]
  <1>1. c \in Seq(S)
    BY IsASeq
  <1>2. Len(c) = h
    BY <1>1
  <1> QED  BY <1>1, <1>2

LEMMA ContentsSeq ==
    ASSUME StackAssumption, IInv
    PROVE  /\ Height \in 0 .. STACK_SIZE
           /\ contents \in Seq(Values \cup {0}) /\ Len(contents) = Height
           /\ \A k \in 1 .. Height : contents[k] = stack[k - 1]
  <1>1. Height \in 0 .. STACK_SIZE
    BY StackAssumption DEF IInv, TypeOK, Height, PushFacts
  <1>2. \A k \in 1 .. Height : stack[k - 1] \in Values \cup {0}
    BY <1>1, StackAssumption DEF IInv, TypeOK, Index
  <1>3. Height \in Nat
    BY <1>1, StackAssumption
  <1> QED  BY <1>1, <1>2, <1>3, PrefixSeq DEF contents

(* A step that neither makes, nor ends, a call nor moves Height is hidden. *)
LEMMA Hidden ==
    ASSUME StackAssumption, IInv, UNCHANGED <<stack, arg, ret>>, Height' = Height,
           NEW p \in Callers, NEW l, Goto(p, l),
           \/ pc[p] \in Pushing /\ l \in Pushing
           \/ pc[p] \in Popping /\ l \in Popping
    PROVE  UNCHANGED Abstract!vars
  <1>1. UNCHANGED contents
    BY DEF contents
  <1>2. \A q \in Callers \ {p} : pc'[q] = pc[q]
    BY DEF Goto, IInv, TypeOK
  <1>3. pc'[p] = l
    BY DEF Goto, IInv, TypeOK
  <1>4. UNCHANGED call
    BY <1>2, <1>3 DEF call, Pushing, Popping
  <1> QED  BY <1>1, <1>4 DEF Abstract!vars

(* What a trap and a return look like from outside. *)
LEMMA Trapping ==
    ASSUME IInv, UNCHANGED <<stack, top, ret>>, NEW p \in Callers, pc[p] = "user",
           NEW l \in {"scan", "test"}, Goto(p, l), \A q \in Callers \ {p} : arg'[q] = arg[q],
           Height' = Height
    PROVE  /\ call[p] = NoCall /\ UNCHANGED <<contents, ret>>
           /\ l = "scan" => call' = [call EXCEPT ![p] = Abstract!PushCall(arg'[p])]
           /\ l = "test" => call' = [call EXCEPT ![p] = Abstract!PopCall]
  <1>1. pc'[p] = l /\ \A q \in Callers \ {p} : pc'[q] = pc[q]
    BY DEF Goto, IInv, TypeOK
  <1>2. UNCHANGED contents
    BY DEF contents
  <1>3. l = "scan" => call' = [call EXCEPT ![p] = Abstract!PushCall(arg'[p])]
    BY <1>1 DEF call, Abstract!PushCall, Pushing
  <1>4. l = "test" => call' = [call EXCEPT ![p] = Abstract!PopCall]
    BY <1>1 DEF call, Abstract!PopCall, Pushing
  <1> QED  BY <1>2, <1>3, <1>4 DEF call

LEMMA Returning ==
    ASSUME IInv, UNCHANGED arg, NEW p \in Callers, NEW v, Return(p, v)
    PROVE  Abstract!Return(p, v)
  <1>1. pc'[p] = "user" /\ \A q \in Callers \ {p} : pc'[q] = pc[q]
    BY DEF Return, Goto, IInv, TypeOK
  <1>2. call' = [call EXCEPT ![p] = NoCall]
    BY <1>1 DEF call, Pushing
  <1> QED  BY <1>2 DEF Abstract!Return, Return

LEMMA TrapPushMaps ==
    ASSUME StackAssumption, ~ Overlap, IInv, NEW p \in Callers, TrapPush(p)
    PROVE  Abstract!Invoke(p)
  <1>1. \A q \in Callers : pc[q] = "user"
    BY DEF TrapPush, MayTrap
  <1>2. Height' = Height
    BY <1>1, HeightNext DEF TrapPush, IInv, TypeOK, Pushing, Height
  <1>3. PICK a \in Values : arg' = [arg EXCEPT ![p] = a]
    BY DEF TrapPush
  <1>4. arg'[p] = a /\ \A q \in Callers \ {p} : arg'[q] = arg[q]
    BY <1>3 DEF IInv, TypeOK
  <1> QED  BY <1>1, <1>2, <1>4, Trapping DEF TrapPush, Abstract!Invoke

LEMMA TrapPopMaps ==
    ASSUME StackAssumption, ~ Overlap, IInv, NEW p \in Callers, TrapPop(p)
    PROVE  Abstract!Invoke(p)
  <1>1. \A q \in Callers : pc[q] = "user"
    BY DEF TrapPop, MayTrap
  <1>2. Height' = Height
    BY <1>1, HeightNext DEF TrapPop, IInv, TypeOK, Popping, Height
  <1> QED  BY <1>1, <1>2, Trapping DEF TrapPop, Abstract!Invoke

LEMMA ScanMaps ==
    ASSUME StackAssumption, IInv, NEW p \in Callers, Scan(p)
    PROVE  Abstract!Push(p) \/ UNCHANGED Abstract!vars
  <1>1. /\ pc[p] = "scan" /\ Height = top + 1 /\ arg[p] \in Values
        /\ \A q \in Callers \ {p} : pc[q] = "user"
        /\ pc \in [Callers -> {"user"} \cup Pushing \cup Popping]
    BY OthersWait DEF Scan, Busy, IInv, PushFacts, Pushing, TypeOK
  <1>2. UNCHANGED <<stack, top, arg>>
    BY DEF Scan
  <1>3. CASE i[p] <= top /\ i[p] \in Index /\ stack[i[p]] = arg[p] /\ Return(p, -1)
    <2>1. contents[i[p] + 1] = arg[p] /\ i[p] + 1 \in 1 .. Len(contents)
      BY <1>1, <1>3, ContentsSeq DEF Index, IInv, TypeOK
    <2>2. Abstract!Holds(arg[p])
      BY <2>1 DEF Abstract!Holds
    <2>3. call[p] = Abstract!PushCall(arg[p])
      BY <1>1 DEF call, Pushing, Abstract!PushCall
    <2>4. Height' = Height
      BY <1>1, <1>2, <1>3, HeightNext DEF Return
    <2>5. UNCHANGED contents
      BY <1>2, <2>4 DEF contents
    <2> QED  BY <1>1, <1>2, <1>3, <2>2, <2>3, <2>5, Returning DEF Abstract!Push
  <1>4. CASE UNCHANGED <<pc, ret>>
    BY <1>2, <1>4 DEF Abstract!vars, contents, call, Height
  <1>5. CASE Goto(p, "room") /\ UNCHANGED <<i, ret>>
    <2>1. Height' = Height
      BY <1>1, <1>2, <1>5, HeightNext DEF Pushing
    <2>2. pc[p] \in Pushing /\ "room" \in Pushing /\ UNCHANGED <<stack, arg, ret>>
      BY <1>1, <1>2, <1>5 DEF Pushing
    <2>3. Goto(p, "room")
      BY <1>5
    <2> QED  BY <2>1, <2>2, <2>3, StackAssumption, Hidden
  <1> QED  BY <1>3, <1>4, <1>5, ScanAlone

LEMMA RoomMaps ==
    ASSUME StackAssumption, IInv, NEW p \in Callers, Room(p)
    PROVE  Abstract!Push(p) \/ UNCHANGED Abstract!vars
  <1>1. /\ pc[p] = "room" /\ Height = top + 1 /\ arg[p] \in Values /\ Uses(p) = {top}
        /\ \A q \in Callers \ {p} : pc[q] = "user"
        /\ pc \in [Callers -> {"user"} \cup Pushing \cup Popping]
    BY OthersWait DEF Room, Busy, IInv, PushFacts, Pushing, TypeOK
  <1>2. UNCHANGED <<stack, top, arg>>
    BY DEF Room, locals
  <1>3. CASE Full(top) /\ Return(p, -1)
    <2>1. Len(contents) = STACK_SIZE
      <3>1. STACK_SIZE \in Nat /\ top = STACK_SIZE - 1
        BY <1>3, StackAssumption DEF Full
      <3>2. Len(contents) = top + 1
        BY <1>1, ContentsSeq, StackAssumption
      <3> QED  BY <3>1, <3>2
    <2>2. call[p] = Abstract!PushCall(arg[p])
      BY <1>1 DEF call, Pushing, Abstract!PushCall
    <2>3. Height' = Height
      BY <1>1, <1>2, <1>3, HeightNext DEF Return
    <2>4. UNCHANGED contents
      BY <1>2, <2>3 DEF contents
    <2> QED  BY <1>1, <1>2, <1>3, <2>1, <2>2, <2>4, Returning DEF Abstract!Push
  <1>4. CASE Goto(p, "bump") /\ UNCHANGED ret
    <2>1. Height' = Height
      BY <1>1, <1>2, <1>4, HeightNext DEF Pushing
    <2>2. pc[p] \in Pushing /\ "bump" \in Pushing /\ UNCHANGED <<stack, arg, ret>>
      BY <1>1, <1>2, <1>4 DEF Pushing
    <2>3. Goto(p, "bump")
      BY <1>4
    <2> QED  BY <2>1, <2>2, <2>3, StackAssumption, Hidden
  <1> QED  BY <1>1, <1>3, <1>4 DEF Room

LEMMA BumpMaps ==
    ASSUME StackAssumption, IInv, NEW p \in Callers, Bump(p)
    PROVE  UNCHANGED Abstract!vars
  <1>1. /\ pc[p] = "bump" /\ Height = top + 1 /\ Uses(p) = {top}
        /\ \A q \in Callers \ {p} : pc[q] = "user"
        /\ pc \in [Callers -> {"user"} \cup Pushing \cup Popping]
    BY OthersWait DEF Bump, Busy, IInv, TypeOK
  <1>2. top' = top + 1 /\ Goto(p, "store") /\ UNCHANGED <<stack, arg, ret>>
    BY <1>1 DEF Bump
  <1>3. Height' = Height
    BY <1>1, <1>2, HeightNext DEF Pushing
  <1>4. pc[p] \in Pushing /\ "store" \in Pushing
    BY <1>1 DEF Pushing
  <1>5. UNCHANGED <<stack, arg, ret>> /\ Goto(p, "store")
    BY <1>2
  <1> QED  BY <1>3, <1>4, <1>5, StackAssumption, Hidden

LEMMA StoreMaps ==
    ASSUME StackAssumption, IInv, NEW p \in Callers, Store(p)
    PROVE  Abstract!Push(p)
  <1>1. /\ pc[p] = "store" /\ Height = top /\ arg[p] \in Values /\ Uses(p) = {top}
        /\ \A q \in Callers \ {p} : pc[q] = "user"
        /\ pc \in [Callers -> {"user"} \cup Pushing \cup Popping]
        /\ top \in Index /\ \A k \in Index : k < top => stack[k] # arg[p]
    BY OthersWait, StackAssumption
    DEF Store, Busy, IInv, PushFacts, Pushing, TypeOK, Index
  <1>2. /\ Return(p, 0) /\ UNCHANGED <<arg, top>>
        /\ stack' = [k \in Index |-> IF k = top THEN arg[p] ELSE stack[k]]
    BY <1>1 DEF Store, locals
  <1>3. Height' = Height + 1
    BY <1>1, <1>2, HeightNext DEF Return
  <1>4. ~ Abstract!Holds(arg[p]) /\ Len(contents) # STACK_SIZE
    BY <1>1, ContentsSeq, StackAssumption DEF Abstract!Holds, Index
  <1>5. contents' = Append(contents, arg[p])
    <2> DEFINE S == Values \cup {0}
    <2>1. /\ contents' \in Seq(S) /\ Len(contents') = Height + 1
          /\ \A k \in 1 .. Height + 1 : contents'[k] = stack'[k - 1]
      <3>1. Height' \in Nat /\ Height' = Height + 1
        BY <1>1, <1>3, StackAssumption DEF Index
      <3>2. \A k \in 1 .. Height' : stack'[k - 1] \in S
        BY <1>1, <1>2, <1>3, StackAssumption DEF IInv, TypeOK, Index
      <3> HIDE DEF S, Height
      <3> QED  BY <3>1, <3>2, PrefixSeq DEF contents
    <2>2. contents \in Seq(S) /\ Len(contents) = Height /\ Height \in Nat
          /\ \A k \in 1 .. Height : contents[k] = stack[k - 1]
      BY StackAssumption, ContentsSeq
    <2>3. /\ Append(contents, arg[p]) \in Seq(S)
          /\ Len(Append(contents, arg[p])) = Height + 1
          /\ \A k \in 1 .. Height : Append(contents, arg[p])[k] = contents[k]
          /\ Append(contents, arg[p])[Height + 1] = arg[p]
      BY <1>1, <2>2, AppendProperties
    <2>4. \A k \in 1 .. Height + 1 : contents'[k] = Append(contents, arg[p])[k]
      BY <1>1, <1>2, <2>1, <2>2, <2>3, StackAssumption, SMTT(20) DEF Index
    <2> HIDE DEF S
    <2> QED  BY <2>1, <2>3, <2>4, SeqEqual
  <1>6. call[p] = Abstract!PushCall(arg[p])
    BY <1>1 DEF call, Pushing, Abstract!PushCall
  <1> QED  BY <1>1, <1>2, <1>4, <1>5, <1>6, Returning DEF Abstract!Push

LEMMA TestMaps ==
    ASSUME StackAssumption, IInv, NEW p \in Callers, Test(p)
    PROVE  Abstract!Pop(p) \/ UNCHANGED Abstract!vars
  <1>1. /\ pc[p] = "test" /\ Height = top + 1 /\ Uses(p) = {top}
        /\ \A q \in Callers \ {p} : pc[q] = "user"
        /\ pc \in [Callers -> {"user"} \cup Pushing \cup Popping]
    BY OthersWait DEF Test, Busy, IInv, TypeOK
  <1>2. UNCHANGED <<stack, top, arg>>
    BY DEF Test, locals
  <1>3. CASE top = -1 /\ Return(p, -1)
    <2>1. contents = <<>>
      BY <1>1, <1>3, ContentsSeq, StackAssumption
    <2>2. call[p] = Abstract!PopCall
      BY <1>1 DEF call, Pushing, Abstract!PopCall
    <2>3. Height' = Height
      BY <1>1, <1>2, <1>3, HeightNext DEF Return
    <2>4. UNCHANGED contents
      BY <1>2, <2>3 DEF contents
    <2> QED  BY <1>2, <1>3, <2>1, <2>2, <2>4, Returning DEF Abstract!Pop
  <1>4. CASE Goto(p, "take") /\ UNCHANGED ret
    <2>1. Height' = Height
      BY <1>1, <1>2, <1>4, HeightNext DEF Popping
    <2>2. pc[p] \in Popping /\ "take" \in Popping /\ UNCHANGED <<stack, arg, ret>>
      BY <1>1, <1>2, <1>4 DEF Popping
    <2>3. Goto(p, "take")
      BY <1>4
    <2> QED  BY <2>1, <2>2, <2>3, StackAssumption, Hidden
  <1> QED  BY <1>1, <1>3, <1>4 DEF Test

LEMMA TakeMaps ==
    ASSUME StackAssumption, IInv, NEW p \in Callers, Take(p)
    PROVE  UNCHANGED Abstract!vars
  <1>1. /\ pc[p] = "take" /\ Height = top + 1
        /\ \A q \in Callers \ {p} : pc[q] = "user"
        /\ pc \in [Callers -> {"user"} \cup Pushing \cup Popping]
    BY OthersWait DEF Take, Busy, IInv, TypeOK
  <1>2. Goto(p, "drop") /\ UNCHANGED <<stack, top, arg, ret>>
    BY DEF Take
  <1>3. Height' = Height
    BY <1>1, <1>2, HeightNext DEF Popping
  <1>4. pc[p] \in Popping /\ "drop" \in Popping
    BY <1>1 DEF Popping
  <1>5. UNCHANGED <<stack, arg, ret>> /\ Goto(p, "drop")
    BY <1>2
  <1> QED  BY <1>3, <1>4, <1>5, StackAssumption, Hidden

LEMMA DropAlone ==
    ASSUME StackAssumption, IInv, NEW p \in Callers, Drop(p)
    PROVE  /\ top >= 0 /\ top \in Index /\ top' = top - 1
           /\ value[p] = stack[top]
  <1>1. Uses(p) = {top}
    BY OthersWait DEF Drop, Busy
  <1>2. top >= 0 /\ value[p] = stack[top]
    BY DEF Drop, IInv, PopFacts
  <1> QED  BY <1>1, <1>2, StackAssumption DEF Drop, IInv, TypeOK, Index

LEMMA DropMaps ==
    ASSUME StackAssumption, IInv, NEW p \in Callers, Drop(p)
    PROVE  Abstract!Pop(p)
  <1>1. /\ pc[p] = "drop" /\ Height = top + 1
        /\ \A q \in Callers \ {p} : pc[q] = "user"
        /\ pc \in [Callers -> {"user"} \cup Pushing \cup Popping]
    BY OthersWait DEF Drop, Busy, IInv, TypeOK
  <1>2. /\ top >= 0 /\ top \in Index /\ top' = top - 1 /\ value[p] = stack[top]
        /\ Return(p, value[p]) /\ UNCHANGED <<stack, arg>>
    BY StackAssumption, DropAlone DEF Drop, locals
  <1>3. Height' = Height - 1
    BY <1>1, <1>2, HeightNext DEF Return, Index
  <1>4. /\ contents # <<>> /\ Len(contents) = top + 1
        /\ contents[Len(contents)] = value[p]
    BY <1>1, <1>2, StackAssumption, ContentsSeq DEF Index
  <1>5. contents' = SubSeq(contents, 1, Len(contents) - 1)
    <2> DEFINE S == Values \cup {0}
               t == SubSeq(contents, 1, Len(contents) - 1)
    <2>1. /\ contents' \in Seq(S) /\ Len(contents') = top /\ top \in Nat
          /\ \A k \in 1 .. top : contents'[k] = stack[k - 1]
      <3>1. Height' \in Nat /\ Height' = top
        BY <1>1, <1>2, <1>3, StackAssumption DEF Index
      <3>2. \A k \in 1 .. Height' : stack'[k - 1] \in S
        BY <1>2, <3>1, StackAssumption DEF IInv, TypeOK, Index
      <3> HIDE DEF S, Height
      <3>3. contents' = [k \in 1 .. Height' |-> stack'[k - 1]]
        BY DEF contents
      <3> QED  BY <1>2, <3>1, <3>2, <3>3, PrefixSeq
    <2>2. contents \in Seq(S) /\ \A k \in 1 .. top : contents[k] = stack[k - 1]
      BY <1>1, <2>1, StackAssumption, ContentsSeq
    <2>3. t \in Seq(S) /\ Len(t) = top /\ \A k \in 1 .. top : t[k] = contents[k]
      BY <1>4, <2>1, <2>2, SubSeqProperties
    <2> HIDE DEF S, t
    <2>4. \A k \in 1 .. Len(contents') : contents'[k] = t[k]
      BY <2>1, <2>2, <2>3
    <2>5. contents' = t
      BY <2>1, <2>3, <2>4, SeqEqual
    <2> QED  BY <2>5 DEF t
  <1>6. call[p] = Abstract!PopCall
    BY <1>1 DEF call, Pushing, Abstract!PopCall
  <1> QED  BY <1>2, <1>4, <1>5, <1>6, Returning DEF Abstract!Pop

(* oslab_my_stack.c:10-47: without overlap the two system calls implement the
   bounded stack of distinct values. *)
THEOREM Implements == ASSUME ~ Overlap PROVE Spec => ImplementsUniqueStack
  <1>1. Init => Abstract!Init
    <2>1. SUFFICES ASSUME Init PROVE Abstract!Init
      OBVIOUS
    <2>2. Height = 0
      BY <2>1 DEF Init, Height
    <2>3. contents = <<>>
      BY <2>2 DEF contents
    <2>4. call = [p \in Callers |-> NoCall]
      BY <2>1 DEF Init, call
    <2> QED  BY <2>1, <2>3, <2>4 DEF Init, Abstract!Init
  <1>2. IInv /\ [Next]_vars => [Abstract!Next]_Abstract!vars
    <2> SUFFICES ASSUME IInv, [Next]_vars PROVE [Abstract!Next]_Abstract!vars
      OBVIOUS
    <2>1. ASSUME Next PROVE [Abstract!Next]_Abstract!vars
      BY <2>1, StackAssumption, TrapPushMaps, ScanMaps, RoomMaps, BumpMaps,
         StoreMaps, TrapPopMaps, TestMaps, TakeMaps, DropMaps
      DEF Next, Abstract!Next
    <2>2. CASE UNCHANGED vars
      BY <2>2 DEF vars, locals, Abstract!vars, contents, call, Height
    <2> QED  BY <2>1, <2>2
  <1> QED  BY <1>1, <1>2, Invariance, PTL DEF Spec, ImplementsUniqueStack, Abstract!Spec
=============================================================================

---------------------------- MODULE TimerCounter ----------------------------
(***************************************************************************)
(* The timer of the board, ARM_System/Timer/TimerCounter.v: one clock edge *)
(* per step.  Of the status register only bit 0 is ever set.               *)
(***************************************************************************)
EXTENDS Integers

CONSTANT Range32            \* 2^32

VARIABLES CompareR, CounterR, StatusR

CompareAddr == 0            \* 12'h000, read and write
CounterAddr == 256          \* 12'h100, read only
StatusAddr  == 512          \* 12'h200, read only

Value == 0 .. Range32 - 1

Reset ==
    /\ CompareR' = Range32 - 1
    /\ StatusR' = 0
    /\ CounterR' = 0

Match == CompareR = CounterR

X_ClearWins(reading, addr) ==
    (* Mutation: the read is looked at before the match. *)
    StatusR' = IF reading /\ addr = StatusAddr THEN 0
               ELSE IF Match THEN 1
               ELSE StatusR
SetStatus(reading, addr) ==
    StatusR' = IF Match THEN 1
               ELSE IF reading /\ addr = StatusAddr THEN 0
               ELSE StatusR

Successor(n) == IF n = Range32 - 1 THEN 0 ELSE n + 1

X_FreeRunning ==
    (* Mutation: the counter does not wait for the acknowledgement. *)
    CounterR' = IF Match THEN 0 ELSE Successor(CounterR)
X_Saturating ==
    (* Mutation: the counter stops at its largest value. *)
    CounterR' = IF StatusR = 1 THEN 0
                ELSE IF CounterR = Range32 - 1 THEN CounterR ELSE Successor(CounterR)
Count ==
    CounterR' = IF StatusR = 1 THEN 0 ELSE Successor(CounterR)

SetCompare(writing, addr, data) ==
    CompareR' = IF writing /\ addr = CompareAddr THEN data ELSE CompareR

(* reading and writing: the unit is selected and RD_N or WR_N is low. *)
Clock(reading, writing, addr, data) ==
    /\ SetCompare(writing, addr, data)
    /\ SetStatus(reading, addr)
    /\ Count

(* The flags in DataOut; the values of the other registers are left out. *)
DataOut(addr) == IF addr = StatusAddr /\ StatusR = 1 THEN {"match"} ELSE {}

TypeOK ==
    /\ CompareR \in Value
    /\ CounterR \in Value
    /\ StatusR \in {0, 1}
=============================================================================

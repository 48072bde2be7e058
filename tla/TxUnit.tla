------------------------------- MODULE TxUnit -------------------------------
(***************************************************************************)
(* The transmitter of the UART, ARM_System/UART/TxUnit.v: a buffer, a      *)
(* shift register and a bit counter.  Each operator is one clock edge; the *)
(* right-hand sides are the registers before the edge.                     *)
(***************************************************************************)
EXTENDS Integers

CONSTANT DataBits      \* 8

VARIABLES TBuff, TReg, BitCnt, tmpTRegE, tmpTBufE, TxD

regs == <<TBuff, TReg, BitCnt, tmpTRegE, tmpTBufE, TxD>>

Bit     == {0, 1}
Places  == 0 .. DataBits - 1
Word    == [Places -> Bit]
StopBit == DataBits + 1

(* The data registers are not reset. *)
ResetValues ==
    /\ tmpTRegE = 1
    /\ tmpTBufE = 1
    /\ TxD = 1
    /\ BitCnt = 0

Init == ResetValues /\ TBuff \in Word /\ TReg \in Word

Reset ==
    /\ tmpTRegE' = 1
    /\ tmpTBufE' = 1
    /\ TxD' = 1
    /\ BitCnt' = 0
    /\ UNCHANGED <<TBuff, TReg>>

Load(DataO) ==
    /\ TBuff' = DataO
    /\ tmpTBufE' = 0
    /\ UNCHANGED <<TReg, BitCnt, tmpTRegE, TxD>>

(* Mutation: the shift register is not marked as in use. *)
Fetch_NeverBusy ==
    /\ tmpTBufE = 0
    /\ tmpTRegE = 1
    /\ TReg' = TBuff
    /\ tmpTBufE' = 1
    /\ UNCHANGED <<TBuff, BitCnt, tmpTRegE, TxD>>

(* The buffer moves to the shift register; no bit is sent on this edge. *)
Fetch ==
    /\ tmpTBufE = 0
    /\ tmpTRegE = 1
    /\ TReg' = TBuff
    /\ tmpTRegE' = 0
    /\ tmpTBufE' = 1
    /\ UNCHANGED <<TBuff, BitCnt, TxD>>

(* {1'b1, TReg[7:1]} *)
Shift(reg) == [k \in Places |-> IF k = DataBits - 1 THEN 1 ELSE reg[k + 1]]

(* Mutation: the stop bit is left out. *)
SendBit_NoStop ==
    /\ tmpTRegE = 0
    /\ IF BitCnt = 0 THEN TxD' = 0 /\ UNCHANGED TReg
                     ELSE TxD' = TReg[0] /\ TReg' = Shift(TReg)
    /\ BitCnt' = IF BitCnt = DataBits THEN 0 ELSE BitCnt + 1
    /\ tmpTRegE' = IF BitCnt = DataBits THEN 1 ELSE 0
    /\ UNCHANGED <<TBuff, tmpTBufE>>

SendBit ==
    /\ tmpTRegE = 0
    /\ \/ BitCnt = 0 /\ TxD' = 0 /\ UNCHANGED TReg
       \/ BitCnt \in 1 .. DataBits /\ TxD' = TReg[0] /\ TReg' = Shift(TReg)
       \/ BitCnt = StopBit /\ TxD' = 1 /\ TReg' = Shift(TReg)
    /\ BitCnt' = IF BitCnt = StopBit THEN 0 ELSE BitCnt + 1
    /\ tmpTRegE' = IF BitCnt = StopBit THEN 1 ELSE 0
    /\ UNCHANGED <<TBuff, tmpTBufE>>

Idle == tmpTBufE = 1 /\ tmpTRegE = 1

Tick == Fetch \/ SendBit \/ (Idle /\ UNCHANGED regs)

(* An edge without reset.  Load wins over Enable: a tick that coincides with
   a load is lost. *)
Clock(Loading, DataO, Enable) ==
    \/ Loading /\ Load(DataO)
    \/ ~ Loading /\ Enable /\ Tick
    \/ ~ Loading /\ ~ Enable /\ UNCHANGED regs

TypeOK ==
    /\ TBuff \in Word /\ TReg \in Word
    /\ BitCnt \in 0 .. StopBit
    /\ tmpTRegE \in Bit /\ tmpTBufE \in Bit /\ TxD \in Bit
=============================================================================

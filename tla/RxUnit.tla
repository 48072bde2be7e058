------------------------------- MODULE RxUnit -------------------------------
(***************************************************************************)
(* The receiver of the UART, ARM_System/UART/RxUnit.v: it watches the line *)
(* Samples times per bit and keeps the value in the middle.  Each operator *)
(* is one clock edge.                                                      *)
(***************************************************************************)
EXTENDS Integers

CONSTANTS
    DataBits,    \* 8
    Samples      \* 16, the range of SampleCnt

VARIABLES Start, tmpRxD, tmpDRdy, outErr, frameErr, BitCnt, SampleCnt, ShtReg, DOut

regs == <<Start, tmpRxD, tmpDRdy, outErr, frameErr, BitCnt, SampleCnt, ShtReg, DOut>>

Bit     == {0, 1}
Places  == 0 .. DataBits - 1
Word    == [Places -> Bit]
StopBit == DataBits + 1

Middle == Samples \div 2       \* 4'b1000
Last   == Samples - 1          \* 4'b1111

(* tmpRxD is not reset. *)
Init ==
    /\ BitCnt = 0 /\ SampleCnt = 0 /\ Start = 0
    /\ tmpDRdy = 0 /\ frameErr = 0 /\ outErr = 0
    /\ ShtReg = [k \in Places |-> 0] /\ DOut = [k \in Places |-> 0]
    /\ tmpRxD \in Bit

Reset ==
    /\ BitCnt' = 0 /\ SampleCnt' = 0 /\ Start' = 0
    /\ tmpDRdy' = 0 /\ frameErr' = 0 /\ outErr' = 0
    /\ ShtReg' = [k \in Places |-> 0] /\ DOut' = [k \in Places |-> 0]
    /\ UNCHANGED tmpRxD

(* Mutation: the counter is one bit wider. *)
CountSample_Wide == SampleCnt' = SampleCnt + 1

(* SampleCnt has four bits. *)
CountSample == SampleCnt' = (SampleCnt + 1) % Samples

(* A low line starts a frame.  After a frame SampleCnt was left at Last, so
   that the count of the next one starts at 0 and not at 1. *)
Detect(RxD) ==
    /\ Start = 0
    /\ \/ RxD = 0 /\ Start' = 1 /\ CountSample
       \/ RxD = 1 /\ UNCHANGED <<Start, SampleCnt>>
    /\ UNCHANGED <<tmpRxD, BitCnt, ShtReg>>

(* Mutation: the line is read at the end of the bit. *)
SampleAt_Late == Last - 1

SampleAt == Middle

Sample(RxD) ==
    /\ Start = 1
    /\ SampleCnt # Last
    /\ tmpRxD' = IF SampleCnt = SampleAt THEN RxD ELSE tmpRxD
    /\ CountSample
    /\ UNCHANGED <<Start, BitCnt, ShtReg>>

(* A start bit that was only a glitch is dropped. *)
EndStartBit ==
    /\ Start = 1 /\ SampleCnt = Last /\ BitCnt = 0
    /\ \/ tmpRxD = 1 /\ Start' = 0 /\ UNCHANGED BitCnt
       \/ tmpRxD = 0 /\ BitCnt' = 1 /\ UNCHANGED Start
    /\ CountSample
    /\ UNCHANGED <<tmpRxD, ShtReg>>

(* {tmpRxD, ShtReg[7:1]} *)
ShiftIn(reg, b) == [k \in Places |-> IF k = DataBits - 1 THEN b ELSE reg[k + 1]]

EndDataBit ==
    /\ Start = 1 /\ SampleCnt = Last /\ BitCnt \in 1 .. DataBits
    /\ BitCnt' = BitCnt + 1
    /\ ShtReg' = ShiftIn(ShtReg, tmpRxD)
    /\ CountSample
    /\ UNCHANGED <<Start, tmpRxD>>

FrameEnds == Start = 1 /\ SampleCnt = Last /\ BitCnt = StopBit

(* SampleCnt stays at Last. *)
EndFrame ==
    /\ FrameEnds
    /\ BitCnt' = 0
    /\ Start' = 0
    /\ UNCHANGED <<tmpRxD, SampleCnt, ShtReg>>

Tick(RxD) ==
    Detect(RxD) \/ Sample(RxD) \/ EndStartBit \/ EndDataBit \/ EndFrame

(* The last assignment wins. *)
Ready(Ending, RD) == IF Ending THEN 1 ELSE IF RD THEN 0 ELSE tmpDRdy

(* An edge without reset. *)
Clock(Enable, RxD, RD) ==
    LET Ending == Enable /\ FrameEnds
    IN  /\ IF Enable THEN Tick(RxD)
           ELSE UNCHANGED <<Start, tmpRxD, BitCnt, SampleCnt, ShtReg>>
        /\ tmpDRdy' = Ready(Ending, RD)
        /\ frameErr' = IF Ending THEN 1 - tmpRxD ELSE frameErr
        /\ outErr' = IF Ending THEN tmpDRdy ELSE outErr
        /\ DOut' = IF Ending THEN ShtReg ELSE DOut

TypeOK ==
    /\ Start \in Bit /\ tmpRxD \in Bit /\ tmpDRdy \in Bit
    /\ outErr \in Bit /\ frameErr \in Bit
    /\ BitCnt \in 0 .. StopBit
    /\ SampleCnt \in 0 .. Last
    /\ ShtReg \in Word /\ DOut \in Word
=============================================================================

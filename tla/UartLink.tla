------------------------------ MODULE UartLink ------------------------------
(***************************************************************************)
(* One direction of a serial line: the TxUnit of one board drives the      *)
(* RxUnit of another.  The boards have clocks of their own: the ticks of   *)
(* the two baud generators have any phase, and over one frame the sender's *)
(* ticks may drift by MaxSlip samples of the receiver's.                   *)
(*                                                                         *)
(* The sender loads a word when the buffer is empty and its baud generator *)
(* does not tick on the same edge; MiniUart shows that software which      *)
(* polls the status register loads between frames only.                    *)
(***************************************************************************)
EXTENDS Integers, Sequences

CONSTANTS
    DataBits,    \* 8
    Samples,     \* 16
    Words,       \* the words that are sent
    MaxSlip      \* drift of the two clocks within a frame, in samples

ASSUME LinkAssumption ==
    /\ DataBits \in Nat \ {0}
    /\ Samples \in Nat /\ Samples > 3
    /\ Words \subseteq [0 .. DataBits - 1 -> {0, 1}]
    /\ MaxSlip \in Nat /\ MaxSlip < Samples

(* The drift over a frame is less than the distance from the sampling point to
   the end of a bit, the receiver's late start included.  TLC finds a framing
   error with one sample more. *)
ASSUME DriftAssumption == MaxSlip + 1 < Samples - Samples \div 2

VARIABLES
    \* the sender
    TBuff, TReg, TxBitCnt, tmpTRegE, tmpTBufE, TxD,
    \* the receiver
    Start, tmpRxD, tmpDRdy, outErr, frameErr, RxBitCnt, SampleCnt, ShtReg, DOut,
    \* the two baud generators
    gap,         \* ticks of the receiver before the sender's next one
    slip,        \* drift since the frame began
    \* history
    flight       \* words loaded and not yet received

Tx == INSTANCE TxUnit WITH BitCnt <- TxBitCnt
Rx == INSTANCE RxUnit WITH BitCnt <- RxBitCnt

txVars == <<TBuff, TReg, TxBitCnt, tmpTRegE, tmpTBufE, TxD>>
rxVars == <<Start, tmpRxD, tmpDRdy, outErr, frameErr, RxBitCnt, SampleCnt, ShtReg, DOut>>
vars   == <<txVars, rxVars, gap, slip, flight>>

Init ==
    /\ Tx!ResetValues
    /\ TBuff = [k \in Tx!Places |-> 0] /\ TReg = [k \in Tx!Places |-> 0]
    /\ Rx!Init
    /\ gap \in 0 .. Samples - 1
    /\ slip = 0
    /\ flight = <<>>

-----------------------------------------------------------------------------
(* Software loads a word. *)
LoadWord ==
    /\ tmpTBufE = 1
    /\ \E w \in Words : Tx!Clock(TRUE, w, FALSE) /\ flight' = Append(flight, w)
    /\ UNCHANGED <<rxVars, gap, slip>>

SenderTick ==
    /\ gap = 0
    /\ Tx!Clock(FALSE, TBuff, TRUE)
    /\ \E d \in {-1, 0, 1} :
         /\ gap' = Samples + d
         \* the drift counts from the edge on which the frame is fetched
         /\ slip' = IF tmpTRegE = 1 THEN 0 ELSE slip + d
         /\ slip' \in - MaxSlip .. MaxSlip
    /\ UNCHANGED <<rxVars, flight>>

(* A sample, on an edge at which software may read. *)
ReceiverTick(RD) ==
    /\ gap > 0
    /\ gap' = gap - 1
    /\ Rx!Clock(TRUE, TxD, RD)
    /\ flight' = IF Rx!FrameEnds /\ flight # <<>> THEN Tail(flight) ELSE flight
    /\ UNCHANGED <<txVars, slip>>

(* Software reads between two samples. *)
ReadWord ==
    /\ Rx!Clock(FALSE, TxD, TRUE)
    /\ UNCHANGED <<txVars, gap, slip, flight>>

Next == LoadWord \/ SenderTick \/ (\E RD \in BOOLEAN : ReceiverTick(RD)) \/ ReadWord

Spec == Init /\ [][Next]_vars

(* Both oscillators run. *)
FairSpec ==
    /\ Spec
    /\ WF_vars(SenderTick)
    /\ WF_vars(\E RD \in BOOLEAN : ReceiverTick(RD))

-----------------------------------------------------------------------------
(* Properties *)

TypeOK ==
    /\ Tx!TypeOK
    /\ Rx!TypeOK
    /\ gap \in 0 .. Samples + 1
    /\ slip \in - MaxSlip .. MaxSlip
    /\ flight \in Seq(Tx!Word)

Channel ==
    INSTANCE SerialChannel WITH
        Empty <- [k \in Tx!Places |-> 0],
        queue <- flight, box <- DOut, fresh <- tmpDRdy = 1, overrun <- outErr = 1

(* TxUnit.v:90-133, RxUnit.v:98-174: whatever the phase of the two clocks and
   their drift within MaxSlip, whenever software loads and reads, the two state
   machines behave like the channel: each frame the receiver completes carries
   the oldest word in flight, and no word is replaced unread without outErr. *)
ImplementsChannel == Channel!Spec

(* RxUnit.v:146-152: on a line without noise no frame ends in a framing error,
   although the receiver guesses the sender's bit boundaries from the start bit
   alone. *)
NoFrameError == frameErr = 0

(* TxUnit.v:103-132, RxUnit.v:114-171: a word that has been loaded is received
   in the end. *)
WordsArrive == Channel!Delivery
=============================================================================

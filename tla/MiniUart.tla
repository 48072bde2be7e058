------------------------------ MODULE MiniUart ------------------------------
(***************************************************************************)
(* The UART of the board, ARM_System/UART/miniUART.v: the baud generator,  *)
(* the transmitter, the receiver and the control and status register, one  *)
(* clock edge per step.  The processor may read or write any of the four   *)
(* addresses, or reset the board, on any edge; the line carries anything.  *)
(* The interrupt outputs are not connected, so that software polls CSReg.  *)
(***************************************************************************)
EXTENDS Integers

CONSTANTS
    DataBits,    \* 8
    Samples,     \* 16
    Div, Ten,    \* 18 and 10
    Words,       \* words written to the transmitter
    Addresses    \* the addresses software accesses, of 0 .. 3

ASSUME UartAssumption ==
    /\ DataBits \in Nat \ {0}
    /\ Samples \in Nat /\ Samples > 3
    /\ Div \in Nat /\ Div > 1
    /\ Ten \in Nat \ {0}
    /\ Words \subseteq [0 .. DataBits - 1 -> {0, 1}]
    /\ Addresses \subseteq 0 .. 3

VARIABLES
    Cnt33, ClkDiv33, Cnt10, tmpEnRX, Cnt16, tmpEnTX,
    TBuff, TReg, TxBitCnt, tmpTRegE, tmpTBufE, TxD,
    Start, tmpRxD, tmpDRdy, outErr, frameErr, RxBitCnt, SampleCnt, ShtReg, DOut,
    CSReg,       \* bits 0 to 3
    IntRx_N, IntTx_N,
    bus,         \* what the processor did on the last edge
    ratio        \* history: receiver ticks since the last transmitter tick

Clk == INSTANCE ClkUnit
Tx  == INSTANCE TxUnit WITH BitCnt <- TxBitCnt
Rx  == INSTANCE RxUnit WITH BitCnt <- RxBitCnt

clkVars == <<Cnt33, ClkDiv33, Cnt10, tmpEnRX, Cnt16, tmpEnTX>>
txVars  == <<TBuff, TReg, TxBitCnt, tmpTRegE, tmpTBufE, TxD>>
rxVars  == <<Start, tmpRxD, tmpDRdy, outErr, frameErr, RxBitCnt, SampleCnt, ShtReg, DOut>>
vars    == <<clkVars, txVars, rxVars, CSReg, IntRx_N, IntTx_N, bus, ratio>>

Bit  == {0, 1}
Zero == [k \in Tx!Places |-> 0]

(* Addr: 0 received word, 1 word to send, 2 CSReg, 3 nothing *)
DataAddr   == 0
SendAddr   == 1
StatusAddr == 2

(* Bits of CSReg as software uses them. *)
OverrunBit == 0
FramingBit == 1
DataReady  == 2
SendReady  == 3

Access(kind, a) == [op |-> kind, addr |-> a]
NoAccess == Access("none", 0)

Init ==
    /\ Clk!Init
    /\ Tx!ResetValues /\ TBuff = Zero /\ TReg = Zero
    /\ Rx!Init
    /\ CSReg = [b \in 0 .. 3 |-> 0]
    /\ IntRx_N = 1
    /\ IntTx_N = 1
    /\ bus = Access("reset", 0)
    /\ ratio = 1

-----------------------------------------------------------------------------
(* StatM: the flags of the two units before the edge. *)
StatM == <<tmpTRegE, tmpTBufE, outErr, frameErr, tmpDRdy>>

(* Mutation: the pattern that Hanyi Kim added is missing. *)
Sets_TwoPatterns(b) ==
    CASE b = DataReady  -> StatM \in {<<0,0,0,0,1>>, <<1,0,0,0,1>>}
      [] b = SendReady  -> StatM = <<1,1,0,0,0>>
      [] b = OverrunBit -> StatM \in {<<0,0,1,0,0>>, <<0,0,1,1,0>>}
      [] b = FramingBit -> StatM \in {<<0,0,0,1,0>>, <<0,0,1,1,0>>}

(* The patterns of the case statement that set each bit of CSReg. *)
Sets(b) ==
    CASE b = DataReady  -> StatM \in {<<0,0,0,0,1>>, <<1,0,0,0,1>>, <<1,1,0,0,1>>}
      [] b = SendReady  -> StatM \in {<<1,1,0,0,1>>, <<1,1,0,0,0>>}
      [] b = OverrunBit -> StatM \in {<<0,0,1,0,0>>, <<0,0,1,1,0>>}
      [] b = FramingBit -> StatM \in {<<0,0,0,1,0>>, <<0,0,1,1,0>>}

RaisesIntTx == StatM \in {<<0,1,0,0,0>>, <<1,1,0,0,0>>}

(* A read, of whatever address, clears the data bit; a write the send bit. *)
Clears(b, Reading, Loading) ==
    \/ b = DataReady /\ Reading
    \/ b = SendReady /\ Loading

(* Mutation: the bits are set after they have been cleared. *)
NextCSReg_SetWins(Reading, Loading) ==
    [b \in 0 .. 3 |-> IF Sets(b) THEN 1
                      ELSE IF Clears(b, Reading, Loading) THEN 0
                      ELSE CSReg[b]]

NextCSReg(Reading, Loading) ==
    [b \in 0 .. 3 |-> IF Clears(b, Reading, Loading) THEN 0
                      ELSE IF Sets(b) THEN 1
                      ELSE CSReg[b]]

Control(Reading, Loading) ==
    /\ CSReg' = NextCSReg(Reading, Loading)
    /\ IntRx_N' = IF Reading THEN 1 ELSE IF Sets(DataReady) THEN 0 ELSE IntRx_N
    /\ IntTx_N' = IF Loading THEN 1 ELSE IF RaisesIntTx THEN 0 ELSE IntTx_N

(* The line is looked at on a tick only. *)
Line == IF tmpEnRX = 1 THEN Bit ELSE {1}

(* One edge of SysClk without reset. *)
Edge(Reading, Loading, TxData) ==
    /\ Clk!Clock
    /\ Tx!Clock(Loading, TxData, tmpEnTX = 1)
    /\ \E RxD \in Line : Rx!Clock(tmpEnRX = 1, RxD, Reading)
    /\ Control(Reading, Loading)
    /\ ratio' = (IF tmpEnTX = 1 THEN 0 ELSE ratio) + tmpEnRX

QuietEdge == Edge(FALSE, FALSE, Zero) /\ bus' = NoAccess

ReadEdge(a) == Edge(TRUE, FALSE, Zero) /\ bus' = Access("read", a)

(* A write to any address loads the transmitter; only SendAddr has data. *)
WriteEdge(a) ==
    /\ \E w \in Words : Edge(FALSE, TRUE, IF a = SendAddr THEN w ELSE Zero)
    /\ bus' = Access("write", a)

ResetEdge ==
    /\ Clk!Reset
    /\ Tx!Reset
    /\ Rx!Reset
    /\ CSReg' = [b \in 0 .. 3 |-> 0]
    /\ IntRx_N' = 1
    /\ IntTx_N' = 1
    /\ bus' = Access("reset", 0)
    /\ ratio' = 1

Next ==
    \/ QuietEdge
    \/ \E a \in Addresses : ReadEdge(a)
    \/ \E a \in Addresses : WriteEdge(a)
    \/ ResetEdge

Spec == Init /\ [][Next]_vars

(* The clock runs. *)
FairSpec == Spec /\ WF_vars(Next)
-----------------------------------------------------------------------------
(* Properties *)

TypeOK ==
    /\ Clk!TypeOK
    /\ Tx!TypeOK
    /\ Rx!TypeOK
    /\ CSReg \in [0 .. 3 -> Bit]
    /\ IntRx_N \in Bit
    /\ IntTx_N \in Bit
    /\ bus \in [op : {"none", "read", "write", "reset"}, addr : 0 .. 3]
    /\ ratio \in 0 .. Samples

(* miniUART.v:171-228: what CSReg and the interrupt lines tell software is
   true now, although they are set an edge late and cleared by accesses: a data
   bit means that a word waits, and a send bit that both the buffer and the
   shift register are empty, so that a polling sender never replaces a word
   nor hits the tick in the middle of a frame. *)
StatusIsTrue ==
    /\ CSReg[DataReady] = 1 => tmpDRdy = 1
    /\ IntRx_N = 0 => tmpDRdy = 1
    /\ CSReg[SendReady] = 1 => tmpTBufE = 1 /\ tmpTRegE = 1
    /\ IntTx_N = 0 => tmpTBufE = 1

(* clkUnit.v:136-160: the transmitter ticks once every Samples ticks of the
   receiver, and never on the same edge. *)
TicksAgree ==
    /\ tmpEnTX = 1 => ratio = Samples /\ tmpEnRX = 0
    /\ ratio <= Samples

(* miniUART.v:171-228, TxUnit.v:103-132: without errors, resets and further
   writes, the send bit comes up in the end and stays. *)
Undisturbed == bus.op \notin {"write", "reset"} /\ frameErr = 0 /\ outErr = 0

SenderReturns == <>[] Undisturbed => <>[](CSReg[SendReady] = 1)

(* miniUART.v:171-219: a word that has been received does not wait unannounced
   for ever, whatever is written meanwhile: the data bit comes up unless a
   read, a reset or an error comes first.  The case statement has no pattern
   for a word that waits while a frame is sent and the buffer is empty, 01001:
   it is announced only when the frame is over, or the buffer full again. *)
WordIsAnnounced ==
    []<>(tmpDRdy = 1 => CSReg[DataReady] = 1 \/ frameErr = 1 \/ outErr = 1)

(* RxUnit.v:112 says of the read that clears tmpDRdy: "Data was read".  So a
   word received without error that is no longer ready has been read, or at
   least been announced to the software that polls CSReg. *)
ReadyClearedByReader ==
    [][tmpDRdy = 1 /\ tmpDRdy' = 0 /\ frameErr = 0 /\ bus'.op # "reset" =>
         \/ bus'.addr = DataAddr
         \/ bus'.addr = StatusAddr /\ CSReg[DataReady] = 1]_vars
=============================================================================

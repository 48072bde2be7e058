--------------------------- MODULE MiniUart_proof ---------------------------
(***************************************************************************)
(* Safety of MiniUart for every width, sampling rate and pair of dividers. *)
(***************************************************************************)
EXTENDS MiniUart, TLAPS

(* The prescalers are never at their ends twice in a row; Cnt16 and the
   history ratio count the same ticks. *)
TicksApart ==
    /\ ClkDiv33 = 1 => Cnt33 = 0
    /\ tmpEnRX = 1 => ClkDiv33 = 0 /\ Cnt10 = 0
    /\ tmpEnTX = 1 => Cnt16 = Samples /\ ratio = Samples /\ tmpEnRX = 0
    /\ tmpEnTX = 0 => ratio = IF Cnt16 = Samples THEN 0 ELSE Cnt16 + 1

IInv == TypeOK /\ TicksApart /\ StatusIsTrue

-----------------------------------------------------------------------------
(* What one edge does to each unit. *)

LEMMA ClkTyped ==
    ASSUME UartAssumption, Clk!TypeOK, Clk!Clock
    PROVE  Clk!TypeOK'
  BY DEF UartAssumption, Clk!TypeOK, Clk!Clock, Clk!Divide, Clk!TickRX, Clk!TickTX, Clk!Bit

LEMMA TxTyped ==
    ASSUME UartAssumption, Tx!TypeOK, NEW loading \in BOOLEAN, NEW w \in Tx!Word,
           NEW enable \in BOOLEAN, Tx!Clock(loading, w, enable)
    PROVE  Tx!TypeOK'
  <1>1. CASE loading /\ Tx!Load(w)
    BY <1>1 DEF Tx!Load, Tx!TypeOK, Tx!Bit
  <1>2. CASE Tx!Fetch
    BY <1>2 DEF Tx!Fetch, Tx!TypeOK, Tx!Bit
  <1>3. CASE Tx!SendBit
    <2>1. TReg[0] \in Tx!Bit /\ Tx!Shift(TReg) \in Tx!Word
      BY UartAssumption DEF UartAssumption, Tx!TypeOK, Tx!Word, Tx!Places, Tx!Bit, Tx!Shift
    <2>2. TReg' \in Tx!Word /\ TxD' \in Tx!Bit
      BY <1>3, <2>1 DEF Tx!SendBit, Tx!TypeOK, Tx!Bit
    <2>3. TxBitCnt' \in 0 .. Tx!StopBit /\ tmpTRegE' \in Tx!Bit
      BY <1>3, UartAssumption DEF UartAssumption, Tx!SendBit, Tx!TypeOK, Tx!StopBit, Tx!Bit
    <2> QED  BY <1>3, <2>2, <2>3 DEF Tx!SendBit, Tx!TypeOK
  <1>4. CASE UNCHANGED Tx!regs
    BY <1>4 DEF Tx!regs, Tx!TypeOK
  <1> QED  BY <1>1, <1>2, <1>3, <1>4 DEF Tx!Clock, Tx!Tick

LEMMA RxTyped ==
    ASSUME UartAssumption, Rx!TypeOK, NEW enable \in BOOLEAN, NEW line \in Bit,
           NEW reading \in BOOLEAN, Rx!Clock(enable, line, reading)
    PROVE  Rx!TypeOK'
  <1> USE UartAssumption DEF UartAssumption
  <1>1. /\ tmpDRdy' \in Bit /\ frameErr' \in Bit /\ outErr' \in Bit
        /\ DOut' \in Rx!Word
    BY DEF Rx!Clock, Rx!Ready, Rx!TypeOK, Rx!Bit, Bit
  <1>2. Rx!ShiftIn(ShtReg, tmpRxD) \in Rx!Word
    BY DEF Rx!ShiftIn, Rx!TypeOK, Rx!Word, Rx!Places, Rx!Bit
  <1>3. (SampleCnt + 1) % Samples \in 0 .. Rx!Last
    BY DEF Rx!TypeOK, Rx!Last
  <1>4. /\ Start' \in Bit /\ tmpRxD' \in Bit /\ SampleCnt' \in 0 .. Rx!Last
        /\ RxBitCnt' \in 0 .. Rx!StopBit /\ ShtReg' \in Rx!Word
    <2>1. CASE Rx!Detect(line)
      BY <1>3, <2>1 DEF Rx!Detect, Rx!CountSample, Rx!TypeOK, Rx!Bit, Bit
    <2>2. CASE Rx!Sample(line)
      BY <1>3, <2>2 DEF Rx!Sample, Rx!CountSample, Rx!TypeOK, Rx!Bit, Bit
    <2>3. CASE Rx!EndStartBit
      BY <1>3, <2>3 DEF Rx!EndStartBit, Rx!CountSample, Rx!TypeOK, Rx!Bit, Rx!StopBit, Bit
    <2>4. CASE Rx!EndDataBit
      BY <1>2, <1>3, <2>4 DEF Rx!EndDataBit, Rx!CountSample, Rx!TypeOK, Rx!Bit, Rx!StopBit, Bit
    <2>5. CASE Rx!EndFrame
      BY <2>5 DEF Rx!EndFrame, Rx!TypeOK, Rx!Bit, Rx!StopBit, Bit
    <2>6. CASE UNCHANGED <<Start, tmpRxD, RxBitCnt, SampleCnt, ShtReg>>
      BY <2>6 DEF Rx!TypeOK, Rx!Bit, Bit
    <2> QED  BY <2>1, <2>2, <2>3, <2>4, <2>5, <2>6 DEF Rx!Clock, Rx!Tick
  <1> QED  BY <1>1, <1>4 DEF Rx!TypeOK, Rx!Bit, Bit

(* An idle transmitter stays idle until it is loaded, and only Fetch and Load
   touch the buffer's flag. *)
LEMMA IdleStays ==
    ASSUME Tx!TypeOK, NEW loading, ~ loading, NEW w, NEW enable,
           Tx!Clock(loading, w, enable), tmpTBufE = 1
    PROVE  tmpTBufE' = 1 /\ (tmpTRegE = 1 => tmpTRegE' = 1)
  BY DEF Tx!Clock, Tx!Tick, Tx!Fetch, Tx!SendBit, Tx!regs, Tx!TypeOK, Tx!Bit
-----------------------------------------------------------------------------
(* The three parts of IInv are preserved by an edge. *)

LEMMA EdgeTyped ==
    ASSUME UartAssumption, IInv, NEW reading \in BOOLEAN, NEW loading \in BOOLEAN,
           NEW w \in Tx!Word, Edge(reading, loading, w)
    PROVE  /\ Clk!TypeOK' /\ Tx!TypeOK' /\ Rx!TypeOK'
           /\ CSReg' \in [0 .. 3 -> Bit] /\ IntRx_N' \in Bit /\ IntTx_N' \in Bit
  <1>1. Clk!TypeOK'
    BY ClkTyped DEF Edge, IInv, TypeOK
  <1>2. Tx!TypeOK'
    BY TxTyped DEF Edge, IInv, TypeOK
  <1>3. Rx!TypeOK'
    BY RxTyped DEF Edge, IInv, TypeOK, Line, Bit
  <1>4. CSReg' \in [0 .. 3 -> Bit]
    BY DEF Edge, Control, NextCSReg, IInv, TypeOK, Bit
  <1>5. IntRx_N' \in Bit /\ IntTx_N' \in Bit
    BY DEF Edge, Control, IInv, TypeOK, Bit
  <1> QED  BY <1>1, <1>2, <1>3, <1>4, <1>5

LEMMA EdgeTicks ==
    ASSUME UartAssumption, IInv, NEW reading, NEW loading, NEW w,
           Edge(reading, loading, w)
    PROVE  TicksApart' /\ ratio' \in 0 .. Samples
  <1>1. ratio' = (IF tmpEnTX = 1 THEN 0 ELSE ratio) + tmpEnRX
    BY DEF Edge
  <1>2. /\ ClkDiv33' = 1 => Cnt33' = 0
        /\ tmpEnRX' = 1 => ClkDiv33' = 0 /\ Cnt10' = 0
    BY UartAssumption
    DEF UartAssumption, Edge, Clk!Clock, Clk!Divide, Clk!TickRX, IInv, TypeOK, Clk!TypeOK,
        Clk!Bit, TicksApart
  <1>3. tmpEnRX = 1 => tmpEnRX' = 0
    BY UartAssumption
    DEF UartAssumption, Edge, Clk!Clock, Clk!TickRX, IInv, TypeOK, Clk!TypeOK, Clk!Bit,
        TicksApart
  <1>4. /\ tmpEnTX' = 1 => Cnt16' = Samples /\ ratio' = Samples /\ tmpEnRX = 1
        /\ tmpEnTX' = 0 => ratio' = IF Cnt16' = Samples THEN 0 ELSE Cnt16' + 1
        /\ ratio' \in 0 .. Samples
    BY <1>1, UartAssumption
    DEF UartAssumption, Edge, Clk!Clock, Clk!TickTX, IInv, TypeOK, Clk!TypeOK, Clk!Bit,
        TicksApart
  <1> QED  BY <1>2, <1>3, <1>4 DEF TicksApart

LEMMA EdgeStatus ==
    ASSUME UartAssumption, IInv, NEW reading \in BOOLEAN, NEW loading \in BOOLEAN, NEW w,
           Edge(reading, loading, w)
    PROVE  StatusIsTrue'
  <1>1. tmpDRdy = 1 /\ ~ reading => tmpDRdy' = 1
    BY DEF Edge, Rx!Clock, Rx!Ready
  <1>2. tmpTBufE = 1 /\ ~ loading => tmpTBufE' = 1 /\ (tmpTRegE = 1 => tmpTRegE' = 1)
    BY IdleStays DEF Edge, IInv, TypeOK
  <1>3. CSReg'[DataReady] = 1 => tmpDRdy = 1 /\ ~ reading
    BY DEF Edge, Control, NextCSReg, Clears, Sets, StatM, DataReady, SendReady, OverrunBit,
           FramingBit, IInv, StatusIsTrue
  <1>4. CSReg'[SendReady] = 1 => tmpTBufE = 1 /\ tmpTRegE = 1 /\ ~ loading
    BY DEF Edge, Control, NextCSReg, Clears, Sets, StatM, DataReady, SendReady, OverrunBit,
           FramingBit, IInv, StatusIsTrue
  <1>5. IntRx_N' = 0 => tmpDRdy = 1 /\ ~ reading
    BY DEF Edge, Control, Sets, StatM, DataReady, SendReady, OverrunBit, FramingBit, IInv,
           StatusIsTrue
  <1>6. IntTx_N' = 0 => tmpTBufE = 1 /\ ~ loading
    BY DEF Edge, Control, RaisesIntTx, StatM, IInv, StatusIsTrue
  <1> QED  BY <1>1, <1>2, <1>3, <1>4, <1>5, <1>6 DEF StatusIsTrue

LEMMA ResetSafe ==
    ASSUME UartAssumption, IInv, ResetEdge
    PROVE  IInv'
  <1>1. Clk!TypeOK' /\ TicksApart' /\ ratio' \in 0 .. Samples
    BY DEF UartAssumption, ResetEdge, Clk!Reset, Clk!TypeOK, Clk!Bit, TicksApart
  <1>2. Tx!TypeOK'
    BY DEF UartAssumption, ResetEdge, Tx!Reset, IInv, TypeOK, Tx!TypeOK, Tx!Bit, Tx!StopBit
  <1>3. Rx!TypeOK'
    BY DEF UartAssumption, ResetEdge, Rx!Reset, IInv, TypeOK, Rx!TypeOK, Rx!Bit, Rx!StopBit,
           Rx!Last, Rx!Word, Rx!Places
  <1>4. StatusIsTrue'
    BY DEF ResetEdge, StatusIsTrue, DataReady, SendReady
  <1> QED  BY <1>1, <1>2, <1>3, <1>4 DEF ResetEdge, IInv, TypeOK, Bit, Access

LEMMA EdgeSafe ==
    ASSUME UartAssumption, IInv, NEW reading \in BOOLEAN, NEW loading \in BOOLEAN,
           NEW w \in Tx!Word, Edge(reading, loading, w),
           bus' \in [op : {"none", "read", "write", "reset"}, addr : 0 .. 3]
    PROVE  IInv'
  BY EdgeTyped, EdgeTicks, EdgeStatus DEF IInv, TypeOK

LEMMA NextIInv ==
    ASSUME UartAssumption, IInv, [Next]_vars
    PROVE  IInv'
  <1>1. Zero \in Tx!Word /\ \A w \in Words : w \in Tx!Word
    BY DEF UartAssumption, Zero, Tx!Word, Tx!Places, Tx!Bit
  <1>2. CASE QuietEdge
    <2>1. bus' \in [op : {"none", "read", "write", "reset"}, addr : 0 .. 3]
      BY <1>2 DEF QuietEdge, NoAccess, Access
    <2> QED  BY <1>1, <1>2, <2>1, EdgeSafe DEF QuietEdge
  <1>3. ASSUME NEW a \in Addresses, ReadEdge(a)
        PROVE  IInv'
    <2>1. bus' \in [op : {"none", "read", "write", "reset"}, addr : 0 .. 3]
      BY <1>3 DEF UartAssumption, ReadEdge, Access
    <2> QED  BY <1>1, <1>3, <2>1, EdgeSafe DEF ReadEdge
  <1>4. ASSUME NEW a \in Addresses, WriteEdge(a)
        PROVE  IInv'
    <2>1. bus' \in [op : {"none", "read", "write", "reset"}, addr : 0 .. 3]
      BY <1>4 DEF UartAssumption, WriteEdge, Access
    <2>2. PICK w \in Words : Edge(FALSE, TRUE, IF a = SendAddr THEN w ELSE Zero)
      BY <1>4 DEF WriteEdge
    <2> QED  BY <1>1, <2>1, <2>2, EdgeSafe
  <1>5. CASE ResetEdge
    BY <1>5, ResetSafe
  <1>6. CASE UNCHANGED vars
    BY <1>6
    DEF vars, clkVars, txVars, rxVars, IInv, TypeOK, Clk!TypeOK, Tx!TypeOK, Rx!TypeOK,
        TicksApart, StatusIsTrue
  <1> QED  BY <1>2, <1>3, <1>4, <1>5, <1>6 DEF Next

LEMMA InitIInv == ASSUME UartAssumption, Init PROVE IInv
  <1>1. Clk!TypeOK /\ TicksApart /\ ratio \in 0 .. Samples
    BY DEF UartAssumption, Init, Clk!Init, Clk!TypeOK, Clk!Bit, TicksApart
  <1>2. Tx!TypeOK
    BY DEF UartAssumption, Init, Tx!ResetValues, Tx!TypeOK, Tx!Bit, Tx!StopBit, Zero, Tx!Word,
           Tx!Places
  <1>3. Rx!TypeOK
    BY DEF UartAssumption, Init, Rx!Init, Rx!TypeOK, Rx!Bit, Rx!StopBit, Rx!Last, Rx!Word,
           Rx!Places
  <1>4. StatusIsTrue
    BY DEF Init, StatusIsTrue, DataReady, SendReady
  <1> QED  BY <1>1, <1>2, <1>3, <1>4 DEF Init, IInv, TypeOK, Bit, Access

LEMMA Invariance == Spec => []IInv
  <1>1. Init => IInv
    BY InitIInv, UartAssumption
  <1>2. IInv /\ [Next]_vars => IInv'
    BY NextIInv, UartAssumption
  <1> QED  BY <1>1, <1>2, PTL DEF Spec
-----------------------------------------------------------------------------
(* Every counter of clkUnit.v, TxUnit.v and RxUnit.v stays in its range. *)
THEOREM TypeCorrect == Spec => []TypeOK
  BY Invariance, PTL DEF IInv

(* miniUART.v:171-228: CSReg and the interrupt lines never promise what the
   units no longer have. *)
THEOREM StatusAlwaysTrue == Spec => []StatusIsTrue
  BY Invariance, PTL DEF IInv

(* clkUnit.v:136-160: one transmitter tick for Samples receiver ticks. *)
THEOREM TicksAlwaysAgree == Spec => []TicksAgree
  <1>1. IInv => TicksAgree
    BY DEF IInv, TypeOK, Clk!TypeOK, Clk!Bit, TicksApart, TicksAgree
  <1> QED  BY <1>1, Invariance, PTL
=============================================================================

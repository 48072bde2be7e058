--------------------------- MODULE UartLink_proof ---------------------------
(***************************************************************************)
(* Safety of UartLink for every word width, sampling rate, set of words    *)
(* and drift that leaves the sampling point inside the bit.                *)
(*                                                                         *)
(* The receiver knows nothing of the sender but the falling edge of the    *)
(* start bit.  The invariant bounds the distance between the two: during a *)
(* frame the receiver is in the bit that is on the line, or still at the   *)
(* end of the one before, or already at the start of the one after, and    *)
(* exactly as far as the two clocks say.                                   *)
(***************************************************************************)
EXTENDS UartLink, TLAPS, SequenceTheorems

Mid == Samples \div 2

(* The bits of the frame that the sender has put on the line; a frame has
   DataBits + 2. *)
Sent == IF tmpTRegE = 0 THEN TxBitCnt ELSE DataBits + 2

(* Ticks of the receiver since the nominal edge of the bit on the line. *)
Elapsed == Samples + slip - gap

(* Where the receiver is when it started late samples after the edge. *)
InStep(late) ==
    \/ Sent = RxBitCnt     /\ SampleCnt = Elapsed - Samples - late
    \/ Sent = RxBitCnt + 1 /\ SampleCnt = Elapsed - late
    \/ Sent = RxBitCnt + 2 /\ SampleCnt = Elapsed + Samples - late

(* The line is high while no frame is sent, and the sender's registers follow
   each other. *)
SenderPhase ==
    /\ TxBitCnt > 0 => tmpTRegE = 0
    /\ TxBitCnt = 0 => TxD = 1
    /\ TxBitCnt = 1 => TxD = 0
    /\ TxBitCnt = 0 /\ tmpTRegE = 0 => slip = 0

Waiting ==
    /\ Start = 0
    /\ RxBitCnt = 0
    /\ SampleCnt \in {0, Samples - 1}
    /\ TxBitCnt = 0 \/ (TxBitCnt = 1 /\ Elapsed = 0)

InFrame ==
    /\ Start = 1
    /\ Sent > 0
    /\ Elapsed >= - MaxSlip
    /\ InStep(0) \/ InStep(1)

(* The sender's clock has moved on while the receiver finishes the stop bit. *)
Trailing ==
    /\ Start = 1
    /\ TxBitCnt = 0
    /\ RxBitCnt = DataBits + 1
    /\ Samples - SampleCnt <= gap

Timing == SenderPhase /\ (Waiting \/ InFrame \/ Trailing)

(* The words in flight: the one on the line, then the shift register, then the
   buffer. *)
OnLine  == IF Start = 1 \/ TxBitCnt > 0 THEN 1 ELSE 0
Fetched == IF tmpTRegE = 0 /\ TxBitCnt = 0 THEN 1 ELSE 0
Waits   == IF tmpTBufE = 0 THEN 1 ELSE 0

FlightOrder ==
    /\ Len(flight) = OnLine + Fetched + Waits
    /\ Fetched = 1 => flight[OnLine + 1] = TReg
    /\ Waits = 1 => flight[OnLine + Fetched + 1] = TBuff

(* What the sender still has of the word on the line, and which of its bits is
   on the line. *)
SendsHead ==
    /\ TxBitCnt > 0 =>
         \A k \in Tx!Places : k + TxBitCnt <= DataBits => TReg[k] = flight[1][k + TxBitCnt - 1]
    /\ TxBitCnt > 1 => TxD = flight[1][TxBitCnt - 2]

(* What the receiver has of it. *)
ReceivesHead ==
    Start = 1 =>
      /\ \A k \in Rx!Places :
           k + RxBitCnt > DataBits => ShtReg[k] = flight[1][k + RxBitCnt - DataBits - 1]
      /\ SampleCnt > Mid =>
           tmpRxD = IF RxBitCnt = 0 THEN 0
                    ELSE IF RxBitCnt = DataBits + 1 THEN 1
                    ELSE flight[1][RxBitCnt - 1]

Contents == FlightOrder /\ SendsHead /\ ReceivesHead

IInv == TypeOK /\ Timing /\ Contents /\ NoFrameError

-----------------------------------------------------------------------------
(* The sampling point is MaxSlip + 2 samples from either end of a bit. *)
LEMMA Margin ==
    ASSUME LinkAssumption, DriftAssumption
    PROVE  /\ Mid \in Nat /\ Samples \in Nat /\ MaxSlip \in Nat
           /\ Samples > 3
           /\ MaxSlip + 1 < Samples - Mid
           /\ MaxSlip <= Mid
           /\ Mid + 1 < Samples
           /\ DataBits \in Nat \ {0}
  BY DEF LinkAssumption, DriftAssumption, Mid

(* What one edge does to each unit. *)

LEMMA TxTyped ==
    ASSUME LinkAssumption, Tx!TypeOK, NEW loading \in BOOLEAN, NEW w \in Tx!Word,
           NEW enable \in BOOLEAN, Tx!Clock(loading, w, enable)
    PROVE  Tx!TypeOK'
  <1>1. CASE loading /\ Tx!Load(w)
    BY <1>1 DEF Tx!Load, Tx!TypeOK, Tx!Bit
  <1>2. CASE Tx!Fetch
    BY <1>2 DEF Tx!Fetch, Tx!TypeOK, Tx!Bit
  <1>3. CASE Tx!SendBit
    <2>1. TReg[0] \in Tx!Bit /\ Tx!Shift(TReg) \in Tx!Word
      BY LinkAssumption DEF LinkAssumption, Tx!TypeOK, Tx!Word, Tx!Places, Tx!Bit, Tx!Shift
    <2>2. TReg' \in Tx!Word /\ TxD' \in Tx!Bit
      BY <1>3, <2>1 DEF Tx!SendBit, Tx!TypeOK, Tx!Bit
    <2>3. TxBitCnt' \in 0 .. Tx!StopBit /\ tmpTRegE' \in Tx!Bit
      BY <1>3, LinkAssumption DEF LinkAssumption, Tx!SendBit, Tx!TypeOK, Tx!StopBit, Tx!Bit
    <2> QED  BY <1>3, <2>2, <2>3 DEF Tx!SendBit, Tx!TypeOK
  <1>4. CASE UNCHANGED Tx!regs
    BY <1>4 DEF Tx!regs, Tx!TypeOK
  <1> QED  BY <1>1, <1>2, <1>3, <1>4 DEF Tx!Clock, Tx!Tick

(* SampleCnt counts modulo Samples. *)
LEMMA Counting ==
    ASSUME LinkAssumption, Rx!TypeOK, Rx!CountSample
    PROVE  /\ SampleCnt # Samples - 1 => SampleCnt' = SampleCnt + 1
           /\ SampleCnt = Samples - 1 => SampleCnt' = 0
           /\ SampleCnt' \in 0 .. Samples - 1
  BY DEF LinkAssumption, Rx!TypeOK, Rx!CountSample, Rx!Last

LEMMA RxTyped ==
    ASSUME LinkAssumption, Rx!TypeOK, NEW enable \in BOOLEAN, NEW line \in {0, 1},
           NEW reading \in BOOLEAN, Rx!Clock(enable, line, reading)
    PROVE  Rx!TypeOK'
  <1> USE LinkAssumption DEF LinkAssumption
  <1>1. /\ tmpDRdy' \in Rx!Bit /\ frameErr' \in Rx!Bit /\ outErr' \in Rx!Bit
        /\ DOut' \in Rx!Word
    BY DEF Rx!Clock, Rx!Ready, Rx!TypeOK, Rx!Bit
  <1>2. Rx!ShiftIn(ShtReg, tmpRxD) \in Rx!Word
    BY DEF Rx!ShiftIn, Rx!TypeOK, Rx!Word, Rx!Places, Rx!Bit
  <1>3. Rx!CountSample => SampleCnt' \in 0 .. Rx!Last
    BY Counting DEF Rx!Last
  <1>4. /\ Start' \in Rx!Bit /\ tmpRxD' \in Rx!Bit /\ SampleCnt' \in 0 .. Rx!Last
        /\ RxBitCnt' \in 0 .. Rx!StopBit /\ ShtReg' \in Rx!Word
    <2>1. CASE Rx!Detect(line)
      BY <1>3, <2>1 DEF Rx!Detect, Rx!TypeOK, Rx!Bit
    <2>2. CASE Rx!Sample(line)
      BY <1>3, <2>2 DEF Rx!Sample, Rx!TypeOK, Rx!Bit
    <2>3. CASE Rx!EndStartBit
      BY <1>3, <2>3 DEF Rx!EndStartBit, Rx!TypeOK, Rx!Bit, Rx!StopBit
    <2>4. CASE Rx!EndDataBit
      BY <1>2, <1>3, <2>4 DEF Rx!EndDataBit, Rx!TypeOK, Rx!Bit, Rx!StopBit
    <2>5. CASE Rx!EndFrame
      BY <2>5 DEF Rx!EndFrame, Rx!TypeOK, Rx!Bit, Rx!StopBit
    <2>6. CASE UNCHANGED <<Start, tmpRxD, RxBitCnt, SampleCnt, ShtReg>>
      BY <2>6 DEF Rx!TypeOK
    <2> QED  BY <2>1, <2>2, <2>3, <2>4, <2>5, <2>6 DEF Rx!Clock, Rx!Tick
  <1> QED  BY <1>1, <1>4 DEF Rx!TypeOK

-----------------------------------------------------------------------------
(* Type correctness *)

LEMMA InitTyped ==
    ASSUME LinkAssumption, Init
    PROVE  TypeOK
  <1>1. Tx!TypeOK
    BY DEF LinkAssumption, Init, Tx!ResetValues, Tx!TypeOK, Tx!Word, Tx!Bit, Tx!StopBit
  <1>2. Rx!TypeOK
    BY DEF LinkAssumption, Init, Rx!Init, Rx!TypeOK, Rx!Word, Rx!Bit, Rx!StopBit, Rx!Last
  <1>3. flight \in Seq(Tx!Word)
    BY DEF Init
  <1> QED  BY <1>1, <1>2, <1>3 DEF LinkAssumption, Init, TypeOK

LEMMA FlightLeaves ==
    ASSUME NEW S, NEW s \in Seq(S), s # <<>>
    PROVE  Tail(s) \in Seq(S)
  BY HeadTailProperties

LEMMA StepTyped ==
    ASSUME LinkAssumption, TypeOK, [Next]_vars
    PROVE  TypeOK'
  <1> USE DEF TypeOK
  <1>1. CASE LoadWord
    <2>1. PICK w \in Words : Tx!Clock(TRUE, w, FALSE) /\ flight' = Append(flight, w)
      BY <1>1 DEF LoadWord
    <2>2. w \in Tx!Word
      BY DEF LinkAssumption, Tx!Word, Tx!Places, Tx!Bit
    <2>3. Tx!TypeOK'
      BY <2>1, <2>2, TxTyped
    <2>4. flight' \in Seq(Tx!Word)
      BY <2>1, <2>2, AppendProperties
    <2>5. Rx!TypeOK' /\ gap' = gap /\ slip' = slip
      BY <1>1 DEF LoadWord, rxVars, Rx!TypeOK
    <2> QED  BY <2>3, <2>4, <2>5
  <1>2. CASE SenderTick
    <2>1. Tx!TypeOK'
      BY <1>2, TxTyped DEF SenderTick, Tx!TypeOK
    <2>2. Rx!TypeOK' /\ flight' = flight
      BY <1>2 DEF SenderTick, rxVars, Rx!TypeOK
    <2>3. gap' \in 0 .. Samples + 1 /\ slip' \in - MaxSlip .. MaxSlip
      BY <1>2 DEF SenderTick, LinkAssumption
    <2> QED  BY <2>1, <2>2, <2>3
  <1>3. ASSUME NEW RD \in BOOLEAN, ReceiverTick(RD)
        PROVE  TypeOK'
    <2>1. Rx!TypeOK'
      BY <1>3, RxTyped DEF ReceiverTick, Tx!TypeOK, Tx!Bit
    <2>2. Tx!TypeOK' /\ slip' = slip
      BY <1>3 DEF ReceiverTick, txVars, Tx!TypeOK
    <2>3. gap' \in 0 .. Samples + 1
      BY <1>3 DEF ReceiverTick, LinkAssumption
    <2>4. flight' \in Seq(Tx!Word)
      BY <1>3, FlightLeaves DEF ReceiverTick
    <2> QED  BY <2>1, <2>2, <2>3, <2>4
  <1>4. CASE ReadWord
    <2>1. Rx!TypeOK'
      BY <1>4, RxTyped DEF ReadWord, Tx!TypeOK, Tx!Bit
    <2>2. Tx!TypeOK' /\ gap' = gap /\ slip' = slip /\ flight' = flight
      BY <1>4 DEF ReadWord, txVars, Tx!TypeOK
    <2> QED  BY <2>1, <2>2
  <1>5. CASE UNCHANGED vars
    BY <1>5 DEF vars, txVars, rxVars, Tx!TypeOK, Rx!TypeOK
  <1> QED  BY <1>1, <1>2, <1>3, <1>4, <1>5 DEF Next

(* TxUnit.v:31-38, RxUnit.v:31-40: the registers keep to their widths and the
   sample counter to its range, for every width and sampling rate. *)
THEOREM TypeCorrect == Spec => []TypeOK
  <1>1. Init => TypeOK
    BY InitTyped, LinkAssumption
  <1>2. TypeOK /\ [Next]_vars => TypeOK'
    BY StepTyped, LinkAssumption
  <1> QED  BY <1>1, <1>2, PTL DEF Spec

-----------------------------------------------------------------------------
(* The distance between sender and receiver *)

LEMMA InitInv ==
    ASSUME LinkAssumption, Init
    PROVE  IInv
  <1>1. TypeOK
    BY InitTyped
  <1>2. Timing
    BY DEF Init, Tx!ResetValues, Rx!Init, Timing, SenderPhase, Waiting
  <1>3. OnLine = 0 /\ Fetched = 0 /\ Waits = 0 /\ Len(flight) = 0
    BY DEF Init, Tx!ResetValues, Rx!Init, OnLine, Fetched, Waits
  <1>4. Contents
    BY <1>3 DEF Init, Tx!ResetValues, Rx!Init, Contents, FlightOrder, SendsHead, ReceivesHead
  <1>5. NoFrameError
    BY DEF Init, Rx!Init, NoFrameError
  <1> QED  BY <1>1, <1>2, <1>4, <1>5 DEF IInv

(* A tick of the sender finds the receiver in the bit that ends, or already in
   the next one; between two frames it finds the receiver at rest. *)
LEMMA SenderFindsReceiver ==
    ASSUME LinkAssumption, DriftAssumption, IInv, gap = 0
    PROVE  \/ Waiting /\ TxBitCnt = 0
           \/ InFrame /\ RxBitCnt \in {Sent - 1, Sent}
  <1>t. TypeOK
    BY DEF IInv
  <1> USE Margin, <1>t DEF TypeOK, Rx!TypeOK, Rx!Last, Rx!StopBit, Tx!TypeOK, Tx!StopBit
  <1>1. CASE Waiting
    BY <1>1 DEF Waiting, Elapsed
  <1>2. CASE InFrame
    BY <1>2 DEF InFrame, InStep, Elapsed, Sent
  <1>3. CASE Trailing
    BY <1>3 DEF Trailing
  <1> QED  BY <1>1, <1>2, <1>3 DEF IInv, Timing

LEMMA SenderTiming ==
    ASSUME LinkAssumption, DriftAssumption, IInv, SenderTick
    PROVE  Timing'
  <1> USE Margin
  <1>1. TypeOK /\ TypeOK'
    BY StepTyped DEF IInv, Next
  <1>2. gap = 0 /\ UNCHANGED <<Start, RxBitCnt, SampleCnt>>
    BY DEF SenderTick, rxVars
  <1>3. PICK d \in {-1, 0, 1} :
            /\ gap' = Samples + d
            /\ slip' = IF tmpTRegE = 1 THEN 0 ELSE slip + d
    BY DEF SenderTick
  <1>4. CASE Tx!Fetch \/ (Tx!Idle /\ UNCHANGED Tx!regs)
    <2>1. tmpTRegE = 1 /\ slip' = 0 /\ UNCHANGED <<TxBitCnt, TxD>>
      BY <1>3, <1>4 DEF Tx!Fetch, Tx!Idle, Tx!regs
    <2>2. SenderPhase'
      BY <2>1 DEF IInv, Timing, SenderPhase
    <2>3. CASE Waiting /\ TxBitCnt = 0
      BY <1>2, <2>1, <2>2, <2>3 DEF Waiting, Timing
    <2>4. CASE InFrame /\ RxBitCnt \in {Sent - 1, Sent}
      <3>1. TxBitCnt = 0
        BY <1>1, <2>1 DEF IInv, Timing, SenderPhase, TypeOK, Tx!TypeOK, Tx!StopBit
      <3>2. RxBitCnt = DataBits + 1 /\ Samples - SampleCnt <= Samples - 1
        BY <1>1, <1>2, <2>1, <2>4
        DEF InFrame, InStep, Sent, Elapsed, TypeOK, Rx!TypeOK, Rx!StopBit, Rx!Last
      <3>3. Trailing'
        BY <1>1, <1>2, <1>3, <2>1, <2>4, <3>1, <3>2
        DEF Trailing, InFrame, TypeOK, Rx!TypeOK, Rx!Last
      <3> QED  BY <2>2, <3>3 DEF Timing
    <2> QED  BY <1>2, <2>3, <2>4, SenderFindsReceiver
  <1>5. CASE Tx!SendBit
    <2>1. /\ tmpTRegE = 0 /\ slip' = slip + d
          /\ TxBitCnt' = IF TxBitCnt = DataBits + 1 THEN 0 ELSE TxBitCnt + 1
          /\ tmpTRegE' = IF TxBitCnt = DataBits + 1 THEN 1 ELSE 0
          /\ TxBitCnt = 0 => TxD' = 0
          /\ TxBitCnt = DataBits + 1 => TxD' = 1
      BY <1>3, <1>5 DEF Tx!SendBit, Tx!StopBit
    <2>2. SenderPhase'
      BY <1>1, <2>1 DEF SenderPhase, TypeOK, Tx!TypeOK, Tx!StopBit
    <2>3. Sent' = Sent + 1 /\ Elapsed' = slip
      BY <1>1, <1>3, <2>1 DEF Sent, Elapsed, TypeOK, Tx!TypeOK, Tx!StopBit
    <2>4. CASE Waiting /\ TxBitCnt = 0
      <3>1. slip = 0
        BY <2>1, <2>4 DEF IInv, Timing, SenderPhase
      <3>2. Waiting'
        BY <1>2, <2>1, <2>3, <2>4, <3>1 DEF Waiting
      <3> QED  BY <2>2, <3>2 DEF Timing
    <2>5. CASE InFrame /\ RxBitCnt \in {Sent - 1, Sent}
      <3>1. Elapsed' >= - MaxSlip
        BY <1>1, <2>3 DEF TypeOK
      <3>2. Elapsed = Samples + slip
        BY <1>1, <1>2 DEF TypeOK, Elapsed
      <3>3. Start' = 1 /\ Sent' > 0
        BY <1>1, <1>2, <2>3, <2>5
        DEF InFrame, Sent, TypeOK, Tx!TypeOK, Tx!StopBit
      \* the bit that follows is one ahead, and its edge a bit later
      <3>4. ASSUME NEW late \in {0, 1}, InStep(late)
            PROVE  InStep(late)'
        <4>1. Sent = RxBitCnt \/ Sent = RxBitCnt + 1
          BY <2>5, <1>1 DEF TypeOK, Rx!TypeOK, Rx!StopBit, Sent, Tx!TypeOK, Tx!StopBit
        <4>2. CASE Sent = RxBitCnt
          <5>1. SampleCnt = slip - late
            BY <1>1, <3>2, <3>4, <4>2
            DEF InStep, TypeOK, Rx!TypeOK, Rx!Last, Rx!StopBit
          <5>2. Sent' = RxBitCnt' + 1 /\ SampleCnt' = Elapsed' - late
            BY <1>2, <2>3, <4>2, <5>1
          <5> QED  BY <5>2 DEF InStep
        <4>3. CASE Sent = RxBitCnt + 1
          <5>1. SampleCnt = Samples + slip - late
            BY <1>1, <3>2, <3>4, <4>3
            DEF InStep, TypeOK, Rx!TypeOK, Rx!Last, Rx!StopBit
          <5>2. RxBitCnt' \in Nat /\ Sent' = RxBitCnt' + 2
            BY <1>1, <1>2, <2>3, <4>3 DEF TypeOK, Rx!TypeOK, Rx!StopBit
          <5>3. SampleCnt' = Elapsed' + Samples - late
            BY <1>1, <1>2, <2>3, <5>1 DEF TypeOK
          <5> QED  BY <5>2, <5>3 DEF InStep
        <4> QED  BY <4>1, <4>2, <4>3
      <3>5. InStep(0)' \/ InStep(1)'
        BY <2>5, <3>4 DEF InFrame
      <3>6. InFrame'
        BY <3>1, <3>3, <3>5 DEF InFrame
      <3> QED  BY <2>2, <3>6 DEF Timing
    <2> QED  BY <1>2, <2>4, <2>5, SenderFindsReceiver
  <1> QED  BY <1>4, <1>5 DEF SenderTick, Tx!Clock, Tx!Tick

(* The value that the middle of the receiver's bit has. *)
LEMMA StartBitIsLow ==
    ASSUME LinkAssumption, DriftAssumption, IInv,
           Start = 1, SampleCnt = Samples - 1, RxBitCnt = 0
    PROVE  tmpRxD = 0
  BY Margin DEF IInv, Contents, ReceivesHead

(* A frame that ends was put on the line completely. *)
LEMMA EndsAfterSender ==
    ASSUME LinkAssumption, DriftAssumption, IInv, Rx!FrameEnds
    PROVE  TxBitCnt = 0
  <1>1. TypeOK /\ Start = 1 /\ SampleCnt = Samples - 1 /\ RxBitCnt = DataBits + 1
    BY DEF IInv, Rx!FrameEnds, Rx!Last, Rx!StopBit
  <1>2. CASE InFrame
    BY <1>1, <1>2, Margin
    DEF InFrame, InStep, Elapsed, Sent, TypeOK, Tx!TypeOK, Tx!StopBit, IInv, Timing, SenderPhase
  <1>3. CASE Trailing
    BY <1>3 DEF Trailing
  <1> QED  BY <1>1, <1>2, <1>3 DEF IInv, Timing, Waiting

(* The receiver makes one step for each of its ticks. *)
LEMMA ReceiverTiming ==
    ASSUME LinkAssumption, DriftAssumption, IInv, NEW RD \in BOOLEAN, ReceiverTick(RD)
    PROVE  Timing'
  <1> USE Margin
  <1>1. TypeOK /\ TypeOK'
    BY StepTyped DEF IInv, Next
  <1>2. /\ gap > 0 /\ gap' = gap - 1
        /\ UNCHANGED <<TxBitCnt, tmpTRegE, TxD, slip>>
        /\ Rx!Tick(TxD)
    BY DEF ReceiverTick, txVars, Rx!Clock
  <1>3. Sent' = Sent /\ Elapsed' = Elapsed + 1 /\ SenderPhase'
    BY <1>1, <1>2 DEF Sent, Elapsed, SenderPhase, IInv, Timing, TypeOK
  <1>4. Rx!CountSample => SampleCnt' = IF SampleCnt = Samples - 1 THEN 0 ELSE SampleCnt + 1
    BY <1>1, Counting DEF TypeOK
  <1>5. CASE Rx!Detect(TxD)
    <2>1. Waiting
      BY <1>5 DEF Rx!Detect, IInv, Timing, InFrame, Trailing
    <2>2. CASE TxD = 1
      <3>1. UNCHANGED <<Start, SampleCnt, RxBitCnt>> /\ TxBitCnt = 0
        BY <1>5, <2>1, <2>2 DEF Rx!Detect, Waiting, IInv, Timing, SenderPhase
      <3> QED  BY <1>2, <1>3, <2>1, <3>1 DEF Waiting, Timing
    <2>3. CASE TxD = 0
      <3>1. /\ Start' = 1 /\ RxBitCnt' = 0
            /\ SampleCnt' = IF SampleCnt = Samples - 1 THEN 0 ELSE SampleCnt + 1
        BY <1>4, <1>5, <2>1, <2>3 DEF Rx!Detect, Waiting
      <3>2. TxBitCnt = 1 /\ tmpTRegE = 0 /\ Elapsed = 0
        BY <2>1, <2>3 DEF Waiting, IInv, Timing, SenderPhase
      <3>3. InFrame'
        BY <1>2, <1>3, <2>1, <3>1, <3>2 DEF InFrame, InStep, Waiting, Sent
      <3> QED  BY <1>3, <3>3 DEF Timing
    <2> QED  BY <1>1, <2>2, <2>3 DEF TypeOK, Tx!TypeOK, Tx!Bit
  <1>6. CASE Rx!Sample(TxD)
    <2>1. /\ Start = 1 /\ UNCHANGED <<Start, RxBitCnt>>
          /\ SampleCnt' = SampleCnt + 1
      BY <1>4, <1>6 DEF Rx!Sample, Rx!Last
    <2>2. CASE InFrame
      <3>1. InFrame'
        BY <1>1, <1>2, <1>3, <2>1, <2>2
        DEF InFrame, InStep, TypeOK, Elapsed, Rx!TypeOK, Rx!Last, Rx!StopBit
      <3> QED  BY <1>3, <3>1 DEF Timing
    <2>3. CASE Trailing
      <3>1. Trailing'
        BY <1>1, <1>2, <2>1, <2>3 DEF Trailing, TypeOK, Rx!TypeOK, Rx!Last
      <3> QED  BY <1>3, <3>1 DEF Timing
    <2> QED  BY <2>1, <2>2, <2>3 DEF IInv, Timing, Waiting
  <1>7. CASE Rx!EndStartBit \/ Rx!EndDataBit
    <2>1. /\ Start = 1 /\ SampleCnt = Samples - 1 /\ RxBitCnt <= DataBits
          /\ RxBitCnt = 0 => tmpRxD = 0
      BY <1>1, <1>7, StartBitIsLow
      DEF Rx!EndStartBit, Rx!EndDataBit, Rx!Last, TypeOK, Rx!TypeOK, Rx!StopBit
    <2>2. Start' = 1 /\ RxBitCnt' = RxBitCnt + 1 /\ SampleCnt' = 0
      BY <1>1, <1>4, <1>7, <2>1 DEF Rx!EndStartBit, Rx!EndDataBit
    <2>3. InFrame
      BY <1>1, <2>1 DEF IInv, Timing, Waiting, Trailing, TypeOK, Rx!TypeOK, Rx!StopBit
    <2>4. InFrame'
      BY <1>1, <1>2, <1>3, <2>1, <2>2, <2>3
      DEF InFrame, InStep, TypeOK, Elapsed, Rx!TypeOK, Rx!Last, Rx!StopBit
    <2> QED  BY <1>3, <2>4 DEF Timing
  <1>8. CASE Rx!EndFrame
    <2>1. /\ SampleCnt = Samples - 1 /\ UNCHANGED SampleCnt
          /\ Start' = 0 /\ RxBitCnt' = 0
      BY <1>8 DEF Rx!EndFrame, Rx!FrameEnds, Rx!Last
    <2>2. TxBitCnt = 0
      BY <1>8, EndsAfterSender DEF Rx!EndFrame
    <2>3. Waiting'
      BY <1>2, <2>1, <2>2 DEF Waiting
    <2> QED  BY <1>3, <2>3 DEF Timing
  <1> QED  BY <1>2, <1>5, <1>6, <1>7, <1>8 DEF Rx!Tick

-----------------------------------------------------------------------------
(* The words in flight *)

LEMMA OneOrNone ==
    /\ OnLine \in {0, 1} /\ Fetched \in {0, 1} /\ Waits \in {0, 1}
    /\ (OnLine = 1) = (Start = 1 \/ TxBitCnt > 0)
    /\ (Fetched = 1) = (tmpTRegE = 0 /\ TxBitCnt = 0)
    /\ (Waits = 1) = (tmpTBufE = 0)
  BY DEF OnLine, Fetched, Waits

LEMMA LoadContents ==
    ASSUME LinkAssumption, IInv, LoadWord
    PROVE  Contents'
  <1>1. PICK w \in Words :
            /\ TBuff' = w /\ tmpTBufE' = 0
            /\ flight' = Append(flight, w)
    BY DEF LoadWord, Tx!Clock, Tx!Load
  <1>2. /\ tmpTBufE = 1
        /\ UNCHANGED <<TReg, TxBitCnt, tmpTRegE, TxD>>
        /\ UNCHANGED <<Start, tmpRxD, RxBitCnt, SampleCnt, ShtReg>>
    BY DEF LoadWord, rxVars, Tx!Clock, Tx!Load
  <1>3. OnLine' = OnLine /\ Fetched' = Fetched /\ Waits' = 1 /\ Waits = 0
    BY <1>1, <1>2 DEF OnLine, Fetched, Waits
  <1>4. /\ Len(flight') = Len(flight) + 1
        /\ \A k \in 1 .. Len(flight) : flight'[k] = flight[k]
        /\ flight'[Len(flight) + 1] = w
        /\ Len(flight) \in Nat
    <2>1. flight \in Seq(Tx!Word) /\ w \in Tx!Word
      BY DEF IInv, TypeOK, LinkAssumption, Tx!Word, Tx!Places, Tx!Bit
    <2> QED  BY <1>1, <2>1, AppendProperties, LenProperties
  <1>5. FlightOrder'
    BY <1>1, <1>2, <1>3, <1>4, OneOrNone DEF IInv, Contents, FlightOrder
  <1>6. OnLine = 1 => flight'[1] = flight[1]
    BY <1>3, <1>4, OneOrNone DEF IInv, Contents, FlightOrder
  <1>7. SendsHead'
    <2>1. TxBitCnt \in Nat
      BY DEF IInv, TypeOK, Tx!TypeOK, Tx!StopBit, LinkAssumption
    <2>2. TxBitCnt > 0 => flight'[1] = flight[1]
      BY <1>6, OneOrNone
    <2> QED  BY <1>2, <2>1, <2>2 DEF IInv, Contents, SendsHead
  <1>8. ReceivesHead'
    <2>1. Start = 1 => flight'[1] = flight[1]
      BY <1>6, OneOrNone
    <2> QED  BY <1>2, <2>1 DEF IInv, Contents, ReceivesHead
  <1> QED  BY <1>5, <1>7, <1>8 DEF Contents

LEMMA SenderContents ==
    ASSUME LinkAssumption, DriftAssumption, IInv, SenderTick
    PROVE  Contents'
  <1> USE Margin
  <1>1. TypeOK
    BY DEF IInv
  <1>2. gap = 0 /\ UNCHANGED <<Start, tmpRxD, RxBitCnt, SampleCnt, ShtReg, flight>>
    BY DEF SenderTick, rxVars
  <1>3. ReceivesHead'
    BY <1>2 DEF IInv, Contents, ReceivesHead
  <1>4. CASE Tx!Fetch
    <2>1. /\ tmpTBufE = 0 /\ tmpTBufE' = 1 /\ tmpTRegE = 1 /\ tmpTRegE' = 0
          /\ TReg' = TBuff /\ UNCHANGED <<TxBitCnt, TxD>>
      BY <1>4 DEF Tx!Fetch
    <2>2. TxBitCnt = 0
      BY <1>1, <2>1 DEF IInv, Timing, SenderPhase, TypeOK, Tx!TypeOK, Tx!StopBit
    <2>3. OnLine' = OnLine /\ Fetched' = 1 /\ Fetched = 0 /\ Waits' = 0 /\ Waits = 1
      BY <1>2, <2>1, <2>2 DEF OnLine, Fetched, Waits
    <2>4. FlightOrder'
      BY <1>2, <2>1, <2>3, OneOrNone DEF IInv, Contents, FlightOrder
    <2>5. SendsHead'
      BY <2>1, <2>2 DEF SendsHead
    <2> QED  BY <1>3, <2>4, <2>5 DEF Contents
  <1>5. CASE Tx!Idle /\ UNCHANGED Tx!regs
    <2>1. UNCHANGED <<TBuff, TReg, TxBitCnt, tmpTRegE, tmpTBufE, TxD>>
      BY <1>5 DEF Tx!regs
    <2>2. FlightOrder' /\ SendsHead'
      BY <1>2, <2>1 DEF IInv, Contents, FlightOrder, SendsHead, OnLine, Fetched, Waits
    <2> QED  BY <1>3, <2>2 DEF Contents
  <1>6. CASE Tx!SendBit
    <2>1. tmpTRegE = 0 /\ UNCHANGED <<TBuff, tmpTBufE>>
      BY <1>6 DEF Tx!SendBit
    <2>2. Waits' = Waits
      BY <2>1 DEF Waits
    <2>3. CASE TxBitCnt = 0
      <3>1. TxBitCnt' = 1 /\ tmpTRegE' = 0 /\ TReg' = TReg
        BY <1>6, <2>3 DEF Tx!SendBit, Tx!StopBit
      <3>2. Start = 0
        BY <1>2, <2>1, <2>3, SenderFindsReceiver DEF Waiting, InFrame, Sent
      <3>3. OnLine = 0 /\ Fetched = 1 /\ OnLine' = 1 /\ Fetched' = 0
        BY <1>2, <2>1, <2>3, <3>1, <3>2 DEF OnLine, Fetched
      <3>4. flight[1] = TReg
        BY <3>3 DEF IInv, Contents, FlightOrder
      <3>5. FlightOrder'
        BY <1>2, <2>1, <2>2, <3>3, OneOrNone DEF IInv, Contents, FlightOrder
      <3>6. SendsHead'
        BY <1>2, <3>1, <3>4 DEF SendsHead, Tx!Places
      <3> QED  BY <1>3, <3>5, <3>6 DEF Contents
    <2>4. CASE TxBitCnt \in 1 .. DataBits
      <3>1. /\ TxBitCnt' = TxBitCnt + 1 /\ tmpTRegE' = 0
            /\ TxD' = TReg[0]
            /\ \A k \in Tx!Places : k # DataBits - 1 => TReg'[k] = TReg[k + 1]
        BY <1>6, <2>4 DEF Tx!SendBit, Tx!StopBit, Tx!Shift
      <3>2. OnLine = 1 /\ Fetched = 0 /\ OnLine' = 1 /\ Fetched' = 0
        BY <2>1, <2>4, <3>1 DEF OnLine, Fetched
      <3>3. FlightOrder'
        BY <1>2, <2>1, <2>2, <3>2 DEF IInv, Contents, FlightOrder
      <3>4. \A k \in Tx!Places : k + TxBitCnt <= DataBits => TReg[k] = flight[1][k + TxBitCnt - 1]
        BY <2>4 DEF IInv, Contents, SendsHead
      <3>5. TxD' = flight[1][TxBitCnt - 1]
        BY <2>4, <3>1, <3>4 DEF Tx!Places
      <3>6. ASSUME NEW k \in Tx!Places, k + TxBitCnt + 1 <= DataBits
            PROVE  TReg'[k] = flight[1][k + TxBitCnt]
        <4>1. k # DataBits - 1 /\ k + 1 \in Tx!Places
          BY <2>4, <3>6 DEF Tx!Places
        <4>2. /\ (k + 1) + TxBitCnt <= DataBits
              /\ (k + 1) + TxBitCnt - 1 = k + TxBitCnt
          BY <2>4, <3>6 DEF Tx!Places
        <4>3. TReg[k + 1] = flight[1][(k + 1) + TxBitCnt - 1]
          BY <3>4, <4>1, <4>2
        <4>4. TReg'[k] = TReg[k + 1]
          BY <3>1, <3>6, <4>1
        <4> QED  BY <4>2, <4>3, <4>4
      <3>7. SendsHead'
        BY <1>2, <2>4, <3>1, <3>5, <3>6 DEF SendsHead, Tx!Places
      <3> QED  BY <1>3, <3>3, <3>7 DEF Contents
    <2>5. CASE TxBitCnt = Tx!StopBit
      <3>1. TxBitCnt' = 0 /\ tmpTRegE' = 1
        BY <1>6, <2>5 DEF Tx!SendBit
      <3>2. Start = 1
        BY <1>2, <2>5, SenderFindsReceiver DEF InFrame, Tx!StopBit
      <3>3. OnLine = 1 /\ Fetched = 0 /\ OnLine' = 1 /\ Fetched' = 0
        BY <1>2, <2>5, <3>1, <3>2 DEF OnLine, Fetched, Tx!StopBit
      <3>4. FlightOrder'
        BY <1>2, <2>1, <2>2, <3>3 DEF IInv, Contents, FlightOrder
      <3>5. SendsHead'
        BY <3>1 DEF SendsHead
      <3> QED  BY <1>3, <3>4, <3>5 DEF Contents
    <2> QED  BY <1>1, <2>3, <2>4, <2>5 DEF TypeOK, Tx!TypeOK, Tx!StopBit
  <1> QED  BY <1>4, <1>5, <1>6 DEF SenderTick, Tx!Clock, Tx!Tick

(* The bit of the word on the line that belongs to bit r of the frame. *)
BitOf(r) == IF r = 0 THEN 0 ELSE IF r = DataBits + 1 THEN 1 ELSE flight[1][r - 1]

(* In the middle of its bit the receiver reads the bit that it expects. *)
LEMMA MiddleIsRight ==
    ASSUME LinkAssumption, DriftAssumption, IInv,
           Start = 1, SampleCnt = Mid, gap > 0
    PROVE  TxD = BitOf(RxBitCnt)
  <1> USE Margin
  <1>1. TypeOK
    BY DEF IInv
  <1>2. /\ TxBitCnt > 0 => tmpTRegE = 0
        /\ TxBitCnt = 0 => TxD = 1
        /\ TxBitCnt = 1 => TxD = 0
        /\ TxBitCnt > 1 => TxD = flight[1][TxBitCnt - 2]
    BY DEF IInv, Timing, SenderPhase, Contents, SendsHead
  <1>3. CASE InFrame
    <2>1. Sent = RxBitCnt + 1
      BY <1>1, <1>3 DEF InFrame, InStep, Elapsed, TypeOK, Rx!TypeOK, Rx!Last, Rx!StopBit
    <2>2. CASE tmpTRegE = 0
      <3>1. TxBitCnt = RxBitCnt + 1 /\ RxBitCnt \in 0 .. DataBits
        BY <1>1, <2>1, <2>2 DEF Sent, TypeOK, Tx!TypeOK, Tx!StopBit, Rx!TypeOK, Rx!StopBit
      <3>2. RxBitCnt # 0 => TxD = flight[1][RxBitCnt - 1]
        BY <1>2, <3>1
      <3> QED  BY <1>2, <3>1, <3>2 DEF BitOf
    <2>3. CASE tmpTRegE # 0
      <3>1. RxBitCnt = DataBits + 1 /\ TxBitCnt = 0
        BY <1>1, <1>2, <2>1, <2>3 DEF Sent, TypeOK, Tx!TypeOK, Tx!StopBit, Rx!TypeOK, Rx!StopBit
      <3> QED  BY <1>2, <3>1 DEF BitOf
    <2> QED  BY <2>2, <2>3
  <1>4. CASE Trailing
    BY <1>2, <1>4 DEF Trailing, BitOf
  <1> QED  BY <1>3, <1>4 DEF IInv, Timing, Waiting

(* A frame that ends leaves the oldest word in the shift register and a high
   stop bit. *)
LEMMA FrameIsWhole ==
    ASSUME LinkAssumption, DriftAssumption, IInv, Rx!FrameEnds
    PROVE  flight # <<>> /\ ShtReg = Head(flight) /\ tmpRxD = 1
  <1> USE Margin
  <1>1. TypeOK /\ Start = 1 /\ SampleCnt = Samples - 1 /\ RxBitCnt = DataBits + 1
    BY DEF IInv, Rx!FrameEnds, Rx!Last, Rx!StopBit
  <1>2. tmpRxD = 1
    BY <1>1 DEF IInv, Contents, ReceivesHead
  <1>3. flight # <<>>
    <2>1. Len(flight) >= 1
      BY <1>1, OneOrNone DEF IInv, Contents, FlightOrder
    <2> QED  BY <2>1
  <1>4. flight[1] \in Tx!Word /\ Head(flight) = flight[1]
    <2>1. Len(flight) \in Nat \ {0}
      BY <1>1, <1>3, EmptySeq DEF TypeOK
    <2> QED  BY <1>1, <1>3, <2>1, ElementOfSeq, HeadTailProperties DEF TypeOK
  <1>5. \A k \in Rx!Places : ShtReg[k] = flight[1][k]
    BY <1>1 DEF IInv, Contents, ReceivesHead, Rx!Places
  <1>6. ShtReg \in [Rx!Places -> Rx!Bit] /\ flight[1] \in [Rx!Places -> Rx!Bit]
    BY <1>1, <1>4 DEF TypeOK, Rx!TypeOK, Rx!Word, Tx!Word, Rx!Places, Tx!Places, Rx!Bit, Tx!Bit
  <1>7. ShtReg = flight[1]
    BY <1>5, <1>6
  <1> QED  BY <1>2, <1>3, <1>4, <1>7

LEMMA ReceiverContents ==
    ASSUME LinkAssumption, DriftAssumption, IInv, NEW RD \in BOOLEAN, ReceiverTick(RD)
    PROVE  Contents'
  <1> USE Margin
  <1>1. TypeOK
    BY DEF IInv
  <1>2. /\ gap > 0
        /\ UNCHANGED <<TBuff, TReg, TxBitCnt, tmpTRegE, tmpTBufE, TxD>>
        /\ Rx!Tick(TxD)
    BY DEF ReceiverTick, txVars, Rx!Clock
  <1>3. Fetched' = Fetched /\ Waits' = Waits
    BY <1>2 DEF Fetched, Waits
  <1>4. Rx!CountSample => SampleCnt' = IF SampleCnt = Samples - 1 THEN 0 ELSE SampleCnt + 1
    BY <1>1, Counting DEF TypeOK
  <1>5. CASE Rx!FrameEnds
    <2>1. flight' = Tail(flight) /\ Start = 1 /\ Start' = 0
      BY <1>2, <1>5, FrameIsWhole
      DEF ReceiverTick, Rx!Tick, Rx!FrameEnds, Rx!Detect, Rx!Sample, Rx!EndStartBit, Rx!EndDataBit,
          Rx!EndFrame, Rx!StopBit
    <2>2. TxBitCnt = 0
      BY <1>5, EndsAfterSender
    <2>3. OnLine = 1 /\ OnLine' = 0
      BY <1>2, <2>1, <2>2 DEF OnLine
    <2>4. /\ Len(flight') = Len(flight) - 1
          /\ \A k \in 1 .. Len(flight) - 1 : flight'[k] = flight[k + 1]
      BY <1>1, <1>5, <2>1, FrameIsWhole, HeadTailProperties DEF TypeOK
    <2>5. FlightOrder'
      BY <1>2, <1>3, <2>3, <2>4, OneOrNone DEF IInv, Contents, FlightOrder
    <2>6. SendsHead' /\ ReceivesHead'
      BY <1>2, <2>1, <2>2 DEF SendsHead, ReceivesHead
    <2> QED  BY <2>5, <2>6 DEF Contents
  <1>6. CASE ~ Rx!FrameEnds
    <2>1. flight' = flight
      BY <1>6 DEF ReceiverTick
    <2>2. SendsHead'
      BY <1>2, <2>1 DEF IInv, Contents, SendsHead
    <2>3. ASSUME OnLine' = OnLine
          PROVE  FlightOrder'
      BY <1>2, <1>3, <2>1, <2>3 DEF IInv, Contents, FlightOrder
    <2>4. CASE Rx!Detect(TxD)
      <3>1. OnLine' = OnLine
        BY <1>1, <1>2, <2>4
        DEF Rx!Detect, OnLine, IInv, Timing, SenderPhase, Waiting, InFrame, Trailing
      <3>2. RxBitCnt' = 0
        BY <2>4 DEF Rx!Detect, IInv, Timing, Waiting, InFrame, Trailing
      <3>3. Start' = 1 => SampleCnt' <= Mid
        BY <1>4, <2>4 DEF Rx!Detect, IInv, Timing, Waiting, InFrame, Trailing, Mid
      <3>4. SampleCnt' \in Int
        <4>1. TypeOK'
          BY <1>1, StepTyped DEF Next
        <4> QED  BY <4>1 DEF TypeOK, Rx!TypeOK, Rx!Last
      <3>5. ReceivesHead'
        BY <3>2, <3>3, <3>4 DEF ReceivesHead, Rx!Places
      <3> QED  BY <2>2, <2>3, <3>1, <3>5 DEF Contents
    <2>5. CASE Rx!Sample(TxD)
      <3>1. /\ Start = 1 /\ UNCHANGED <<Start, RxBitCnt, ShtReg>>
            /\ SampleCnt' = SampleCnt + 1
            /\ tmpRxD' = IF SampleCnt = Mid THEN TxD ELSE tmpRxD
        BY <1>4, <2>5 DEF Rx!Sample, Rx!Last, Rx!SampleAt, Rx!Middle, Mid
      <3>2. OnLine' = OnLine
        BY <1>2, <3>1 DEF OnLine
      <3>3. SampleCnt' > Mid => tmpRxD' = BitOf(RxBitCnt)
        <4>1. CASE SampleCnt = Mid
          BY <1>2, <3>1, <4>1, MiddleIsRight
        <4>2. CASE SampleCnt > Mid
          BY <3>1, <4>2 DEF IInv, Contents, ReceivesHead, BitOf
        <4> QED  BY <1>1, <3>1, <4>1, <4>2 DEF TypeOK, Rx!TypeOK, Rx!Last
      <3>4. ReceivesHead'
        BY <2>1, <3>1, <3>3 DEF IInv, Contents, ReceivesHead, BitOf
      <3> QED  BY <2>2, <2>3, <3>2, <3>4 DEF Contents
    <2>6. CASE Rx!EndStartBit
      <3>1. Start = 1 /\ RxBitCnt' = 1 /\ Start' = 1 /\ SampleCnt' = 0
        BY <1>4, <2>6, StartBitIsLow DEF Rx!EndStartBit, Rx!Last
      <3>2. OnLine' = OnLine
        BY <1>2, <3>1 DEF OnLine
      <3>3. ReceivesHead'
        BY <3>1 DEF ReceivesHead, Rx!Places
      <3> QED  BY <2>2, <2>3, <3>2, <3>3 DEF Contents
    <2>7. CASE Rx!EndDataBit
      <3>1. /\ Start = 1 /\ Start' = 1 /\ SampleCnt' = 0 /\ SampleCnt = Samples - 1
            /\ RxBitCnt \in 1 .. DataBits /\ RxBitCnt' = RxBitCnt + 1
            /\ ShtReg' = Rx!ShiftIn(ShtReg, tmpRxD)
        BY <1>4, <2>7 DEF Rx!EndDataBit, Rx!Last
      <3>2. OnLine' = OnLine
        BY <1>2, <3>1 DEF OnLine
      <3>3. tmpRxD = flight[1][RxBitCnt - 1]
        BY <3>1 DEF IInv, Contents, ReceivesHead
      <3>4. ASSUME NEW k \in Rx!Places, k + RxBitCnt + 1 > DataBits
            PROVE  ShtReg'[k] = flight[1][k + RxBitCnt - DataBits]
        <4>1. CASE k = DataBits - 1
          BY <3>1, <3>3, <4>1 DEF Rx!ShiftIn, Rx!Places
        <4>2. CASE k # DataBits - 1
          <5>1. k + 1 \in Rx!Places /\ ShtReg'[k] = ShtReg[k + 1]
            BY <3>1, <4>2 DEF Rx!ShiftIn, Rx!Places
          <5>2. ShtReg[k + 1] = flight[1][(k + 1) + RxBitCnt - DataBits - 1]
            BY <3>1, <3>4, <5>1 DEF IInv, Contents, ReceivesHead, Rx!Places
          <5> QED  BY <3>1, <5>1, <5>2 DEF Rx!Places
        <4> QED  BY <4>1, <4>2
      <3>5. ASSUME NEW k \in Rx!Places, k + RxBitCnt' > DataBits
            PROVE  ShtReg'[k] = flight[1][k + RxBitCnt' - DataBits - 1]
        <4>1. /\ k + RxBitCnt + 1 > DataBits
              /\ k + RxBitCnt' - DataBits - 1 = k + RxBitCnt - DataBits
          BY <3>1, <3>5 DEF Rx!Places
        <4>2. ShtReg'[k] = flight[1][k + RxBitCnt - DataBits]
          BY <3>4, <4>1
        <4> QED  BY <4>1, <4>2
      <3>6. ReceivesHead'
        BY <2>1, <3>1, <3>5 DEF ReceivesHead, Rx!Places
      <3> QED  BY <2>2, <2>3, <3>2, <3>6 DEF Contents
    <2> QED  BY <1>2, <1>6, <2>4, <2>5, <2>6, <2>7 DEF Rx!Tick, Rx!EndFrame
  <1> QED  BY <1>5, <1>6

-----------------------------------------------------------------------------
(* The inductive invariant *)

LEMMA NextInv ==
    ASSUME LinkAssumption, DriftAssumption, IInv, [Next]_vars
    PROVE  IInv'
  <1>1. TypeOK'
    BY StepTyped DEF IInv
  <1>2. CASE LoadWord
    <2>1. /\ UNCHANGED <<TxBitCnt, tmpTRegE, TxD, gap, slip>>
          /\ UNCHANGED <<Start, RxBitCnt, SampleCnt, frameErr>>
      BY <1>2 DEF LoadWord, rxVars, Tx!Clock, Tx!Load
    <2>2. Timing' /\ NoFrameError'
      BY <2>1 DEF IInv, Timing, SenderPhase, Waiting, InFrame, Trailing, InStep, Sent, Elapsed,
                  NoFrameError
    <2> QED  BY <1>1, <1>2, <2>2, LoadContents DEF IInv
  <1>3. CASE SenderTick
    BY <1>1, <1>3, SenderTiming, SenderContents DEF IInv, NoFrameError, SenderTick, rxVars
  <1>4. ASSUME NEW RD \in BOOLEAN, ReceiverTick(RD)
        PROVE  IInv'
    <2>1. NoFrameError'
      BY <1>4, FrameIsWhole DEF ReceiverTick, Rx!Clock, IInv, NoFrameError
    <2> QED  BY <1>1, <1>4, <2>1, ReceiverTiming, ReceiverContents DEF IInv
  <1>5. CASE ReadWord \/ UNCHANGED vars
    <2>1. /\ UNCHANGED <<txVars, gap, slip, flight>>
          /\ UNCHANGED <<Start, tmpRxD, RxBitCnt, SampleCnt, ShtReg, frameErr>>
      BY <1>5 DEF ReadWord, vars, rxVars, Rx!Clock
    <2>2. Timing' /\ NoFrameError'
      BY <2>1 DEF IInv, Timing, SenderPhase, Waiting, InFrame, Trailing, InStep, Sent, Elapsed,
                  NoFrameError, txVars
    <2>3. Contents'
      BY <2>1 DEF IInv, Contents, FlightOrder, SendsHead, ReceivesHead, OnLine, Fetched, Waits, txVars
    <2> QED  BY <1>1, <2>2, <2>3 DEF IInv
  <1> QED  BY <1>2, <1>3, <1>4, <1>5 DEF Next

(* RxUnit.v:98-174: the receiver keeps up with the sender, bit by bit, and the
   bits it has are those of the oldest word in flight. *)
THEOREM Invariance == Spec => []IInv
  <1>1. Init => IInv
    BY InitInv, LinkAssumption
  <1>2. IInv /\ [Next]_vars => IInv'
    BY NextInv, LinkAssumption, DriftAssumption
  <1> QED  BY <1>1, <1>2, PTL DEF Spec

(* RxUnit.v:146-152: on a line without noise no frame ends in a framing error,
   for every rate and every drift that DriftAssumption allows. *)
THEOREM FramesAreClean == Spec => []NoFrameError
  <1>1. IInv => NoFrameError
    BY DEF IInv
  <1> QED  BY <1>1, Invariance, PTL

-----------------------------------------------------------------------------
(* The link is the channel *)

LEMMA StepIsChannelStep ==
    ASSUME LinkAssumption, DriftAssumption, IInv, [Next]_vars
    PROVE  [Channel!Next]_(Channel!vars)
  <1>1. CASE LoadWord
    <2>1. \E w \in Words : flight' = Append(flight, w)
      BY <1>1 DEF LoadWord
    <2>2. UNCHANGED <<DOut, tmpDRdy = 1, outErr = 1>>
      BY <1>1 DEF LoadWord, rxVars
    <2> QED  BY <2>1, <2>2 DEF Channel!Next, Channel!Send
  <1>2. CASE SenderTick
    BY <1>2 DEF SenderTick, rxVars, Channel!vars
  <1>3. ASSUME NEW RD \in BOOLEAN, ReceiverTick(RD)
        PROVE  [Channel!Next]_(Channel!vars)
    <2>1. CASE Rx!FrameEnds
      <3>1. /\ flight # <<>> /\ flight' = Tail(flight)
            /\ DOut' = Head(flight)
            /\ tmpDRdy' = 1 /\ outErr' = tmpDRdy
        BY <1>3, <2>1, FrameIsWhole DEF ReceiverTick, Rx!Clock, Rx!Ready
      <3> QED  BY <3>1 DEF Channel!Next, Channel!Deliver
    <2>2. CASE ~ Rx!FrameEnds
      <3>1. /\ flight' = flight /\ DOut' = DOut /\ outErr' = outErr
            /\ tmpDRdy' = IF RD THEN 0 ELSE tmpDRdy
        BY <1>3, <2>2 DEF ReceiverTick, Rx!Clock, Rx!Ready
      <3> QED  BY <3>1 DEF Channel!Next, Channel!Read, Channel!vars
    <2> QED  BY <2>1, <2>2
  <1>4. CASE ReadWord
    <2>1. UNCHANGED <<flight, DOut, outErr>> /\ tmpDRdy' = 0
      BY <1>4 DEF ReadWord, Rx!Clock, Rx!Ready
    <2> QED  BY <2>1 DEF Channel!Next, Channel!Read
  <1>5. CASE UNCHANGED vars
    BY <1>5 DEF vars, rxVars, Channel!vars
  <1> QED  BY <1>1, <1>2, <1>3, <1>4, <1>5 DEF Next

(* TxUnit.v:90-133, RxUnit.v:98-174: the two state machines implement the
   channel: every frame delivers the oldest word in flight, unchanged, and a
   word that was not read is lost only with outErr. *)
THEOREM LinkIsChannel == Spec => ImplementsChannel
  <1>1. Init => Channel!Init
    BY DEF Init, Rx!Init, Channel!Init, Rx!Places, Tx!Places
  <1>2. IInv /\ [Next]_vars => [Channel!Next]_(Channel!vars)
    BY StepIsChannelStep, LinkAssumption, DriftAssumption
  <1> QED  BY <1>1, <1>2, Invariance, PTL DEF Spec, ImplementsChannel, Channel!Spec
=============================================================================

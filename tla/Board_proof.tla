---------------------------- MODULE Board_proof -----------------------------
(* The properties of Board, for every range of the counter, every number of *)
(* states of the key_detects and every set of inputs and addresses.         *)
EXTENDS Board, TLAPS

Accesses == {"none", "read", "write"}

\* What an edge that is not a reset does to the timer, without its units.
TimerEdge(op, addr, data) ==
    /\ CompareR' = IF WritesCompare(op, addr) THEN data ELSE CompareR
    /\ StatusR' = IF CompareR = CounterR THEN 1
                  ELSE IF /\ op = "read" /\ "TC" \in Selected(addr)
                          /\ addr.offset = Timer!StatusAddr
                       THEN 0 ELSE StatusR
    /\ CounterR' = IF StatusR = 1 THEN 0 ELSE Timer!Successor(CounterR)
    /\ age' = IF StatusR = 1 \/ WritesCompare(op, addr) THEN 0 ELSE age + 1
    /\ steady' = (~WritesCompare(op, addr)
                    /\ (steady \/ (StatusR = 1 /\ StatusR' = 0)))

\* And to the GPIO.
GpioEdge(op, addr, data, low) ==
    LET here == "GPIO" \in Selected(addr)
        taken(offset) == op = "read" /\ here /\ addr.offset = offset
    IN  /\ c_state' = [k \in GPIO!Inputs |-> GPIO!NextState(c_state[k], k \in low)]
        /\ KEY_StatusR' = IF taken(GPIO!KeyAddr) THEN {}
                          ELSE KEY_StatusR \cup (GPIO!pressed \cap Keys)
        /\ SW_StatusR' = IF taken(GPIO!SwitchAddr) THEN {}
                         ELSE SW_StatusR \cup (GPIO!pressed \cap Switches)
        /\ light' = [l \in Lights |->
                       IF op = "write" /\ here /\ addr.offset = LightAddr[l]
                       THEN data ELSE light[l]]
        /\ held' = [k \in GPIO!Inputs |->
                      CASE k \notin low                      -> 0
                        [] k \in low /\ held[k] < LastState -> held[k] + 1
                        [] k \in low /\ held[k] = LastState -> held[k]]

Addresses == Reads \cup Writes \cup {Nowhere}
Words == Data \cup {0}

\* An edge that is not a reset, with the access of the processor.
BusEdge(op, addr, data, low) ==
    /\ op \in Accesses /\ addr \in Addresses /\ data \in Words
    /\ low \in SUBSET GPIO!Inputs
    /\ Units(op, addr, data, low)
    /\ Notice(op, addr, low)
    /\ mdr' = IF op = "read" THEN ReadData(addr) ELSE {}
    /\ reset_ff = 1

-----------------------------------------------------------------------------
\* ARM_System.v:123-178: a step is a reset of all units, or an edge of each.
LEMMA Steps ==
    ASSUME Next
    PROVE  /\ ResetEdge \/ \E op, addr, data, low : BusEdge(op, addr, data, low)
           /\ reset_ff' \in {0, 1}
<1>1. ASSUME NEW op \in Accesses, NEW addr \in Addresses, NEW data \in Words,
             Edge(op, addr, data),
             mdr' = IF op = "read" THEN ReadData(addr) ELSE {}
      PROVE  \E low : BusEdge(op, addr, data, low)
  BY <1>1 DEF Edge, BusEdge
<1>2. ASSUME QuietEdge PROVE \E op, a, data, low : BusEdge(op, a, data, low)
  <2>1. Edge("none", Nowhere, 0) /\ mdr' = {}
    BY <1>2 DEF QuietEdge
  <2> QED
    BY <1>1, <2>1 DEF Accesses, Addresses, Words
<1>3. ASSUME NEW addr \in Reads, ReadEdge(addr)
      PROVE  \E op, a, data, low : BusEdge(op, a, data, low)
  <2>1. Edge("read", addr, 0) /\ mdr' = ReadData(addr)
    BY <1>3 DEF ReadEdge
  <2> QED
    BY <1>1, <2>1 DEF Accesses, Addresses, Words
<1>4. ASSUME NEW addr \in Writes, WriteEdge(addr)
      PROVE  \E op, a, data, low : BusEdge(op, a, data, low)
  <2>1. PICK data \in Data : Edge("write", addr, data)
    BY <1>4 DEF WriteEdge
  <2>2. mdr' = {}
    BY <1>4 DEF WriteEdge
  <2> QED
    BY <1>1, <2>1, <2>2 DEF Accesses, Addresses, Words
<1> QED
  BY <1>2, <1>3, <1>4 DEF Next

LEMMA TimerSteps ==
    ASSUME NEW op, NEW addr, NEW data, NEW low, BusEdge(op, addr, data, low)
    PROVE  TimerEdge(op, addr, data)
  BY DEF BusEdge, Units, Notice, TimerEdge, WritesCompare, Timer!Clock,
         Timer!SetCompare, Timer!SetStatus, Timer!Count, Timer!Match

LEMMA GpioSteps ==
    ASSUME NEW op, NEW addr, NEW data, NEW low, BusEdge(op, addr, data, low)
    PROVE  GpioEdge(op, addr, data, low)
  BY DEF BusEdge, Units, Notice, GpioEdge, GPIO!Clock, GPIO!Record

\* The constants, and what is written to the bus.
LEMMA Constants ==
    /\ Range32 \in Nat /\ Range32 > 1 /\ LastState \in Nat /\ LastState > 1
    /\ Words \subseteq 0 .. Range32 - 1
    /\ \A addr \in Addresses : addr.offset \in Nat
    /\ Nowhere.page = "none" /\ Nowhere.offset = 0
  BY BoardAssumption DEF BoardAssumption, Words, Addresses, Nowhere

-----------------------------------------------------------------------------
\* The types, in the parts the units change.
TimerType ==
    /\ CompareR \in 0 .. Range32 - 1
    /\ CounterR \in 0 .. Range32 - 1
    /\ StatusR \in {0, 1}
    /\ age \in Nat
    /\ steady \in BOOLEAN
GpioType ==
    /\ c_state \in [GPIO!Inputs -> 0 .. LastState]
    /\ KEY_StatusR \subseteq Keys
    /\ SW_StatusR \subseteq Switches
    /\ light \in [Lights -> 0 .. Range32 - 1]
    /\ held \in [GPIO!Inputs -> 0 .. LastState]
BusType ==
    /\ reset_ff \in {0, 1}
    /\ mdr \subseteq GPIO!Inputs \cup {"match"}
    /\ bus \in [op : {"none", "read", "write", "reset"}, addr : Reads \cup Writes \cup {Nowhere}]

LEMMA TypeParts == TypeOK <=> TimerType /\ GpioType /\ BusType
  BY DEF TypeOK, TimerType, GpioType, BusType, Timer!TypeOK, Timer!Value

\* GPIO.v:280-341: the state of a key_detect is how long its input has been low.
StatesCount == held = c_state

Inv ==
    /\ TimerType
    /\ GpioType
    /\ BusType
    /\ TimerOnTime
    /\ FlagWithinRange
    /\ StatesCount

LEMMA InitInv == Init => Inv
<1> SUFFICES ASSUME Init PROVE Inv
  OBVIOUS
<1> USE Constants DEF Init
<1>1. TimerType /\ TimerOnTime /\ FlagWithinRange
  BY DEF TimerType, TimerOnTime, FlagWithinRange, Distance
<1>2. GpioType /\ StatesCount
  BY BoardAssumption DEF BoardAssumption, GpioType, StatesCount
<1>3. BusType
  BY DEF BusType, Access
<1> QED
  BY <1>1, <1>2, <1>3 DEF Inv

\* A reset leaves the state of Init.
LEMMA ResetInv == ASSUME ResetEdge, reset_ff' \in {0, 1} PROVE Inv'
<1> USE Constants DEF ResetEdge, Timer!Reset, GPIO!Reset
<1>1. TimerType' /\ TimerOnTime' /\ FlagWithinRange'
  BY DEF TimerType, TimerOnTime, FlagWithinRange, Distance
<1>2. GpioType' /\ StatesCount'
  BY BoardAssumption DEF BoardAssumption, GpioType, StatesCount
<1>3. BusType'
  BY DEF BusType, Access
<1> QED
  BY <1>1, <1>2, <1>3 DEF Inv

\* TimerCounter.v:28-64: an edge of the timer.
LEMMA TimerInv ==
    ASSUME TimerType, TimerOnTime, FlagWithinRange,
           NEW op, NEW addr, NEW data \in Words, TimerEdge(op, addr, data)
    PROVE  TimerType' /\ TimerOnTime' /\ FlagWithinRange'
<1> USE Constants DEF TimerType, TimerEdge, Timer!Successor
<1>1. TimerType'
  OBVIOUS
<1>2. TimerOnTime'
  <2> SUFFICES ASSUME steady' PROVE TimerOnTime'
    BY DEF TimerOnTime
  <2>1. CompareR' = CompareR /\ ~WritesCompare(op, addr)
    OBVIOUS
  <2>2. CASE StatusR = 1
    BY <2>1, <2>2 DEF TimerOnTime
  <2>3. CASE StatusR = 0
    BY <2>1, <2>3 DEF TimerOnTime
  <2> QED
    BY <2>2, <2>3
<1>3. FlagWithinRange'
  <2> SUFFICES ASSUME StatusR' = 0 PROVE age' + Distance' < Range32
    BY DEF FlagWithinRange
  <2>1. CompareR # CounterR
    OBVIOUS
  <2>2. CASE StatusR = 1 \/ WritesCompare(op, addr)
    <3>1. age' = 0
      BY <2>2
    <3>2. Distance' < Range32
      BY <1>1 DEF Distance
    <3>3. 0 + Distance' = Distance'
      BY <1>1 DEF Distance
    <3> QED
      BY <3>1, <3>2, <3>3
  <2>3. CASE StatusR = 0 /\ ~WritesCompare(op, addr)
    <3>1. age' = age + 1 /\ Distance' = Distance - 1
      BY <2>1, <2>3 DEF Distance
    <3> QED
      BY <2>3, <3>1 DEF FlagWithinRange, Distance
  <2> QED
    BY <2>2, <2>3
<1> QED
  BY <1>1, <1>2, <1>3

\* GPIO.v:258-343: a key_detect counts the edges its input is low.
LEMMA GpioInv ==
    ASSUME GpioType, StatesCount, NEW op, NEW addr, NEW data \in Words,
           NEW low, GpioEdge(op, addr, data, low)
    PROVE  GpioType' /\ StatesCount'
<1> USE Constants DEF GpioType
<1>1. KEY_StatusR' \subseteq Keys /\ SW_StatusR' \subseteq Switches
  BY DEF GpioEdge
<1>2. light' \in [Lights -> 0 .. Range32 - 1]
  BY DEF GpioEdge
<1>3. c_state' = [k \in GPIO!Inputs |-> GPIO!NextState(c_state[k], k \in low)]
  BY DEF GpioEdge
<1>4. c_state' \in [GPIO!Inputs -> 0 .. LastState]
  BY <1>3 DEF GPIO!NextState
<1>5. held' = c_state'
  <2>1. ASSUME NEW k \in GPIO!Inputs
        PROVE  (CASE k \notin low                      -> 0
                  [] k \in low /\ held[k] < LastState -> held[k] + 1
                  [] k \in low /\ held[k] = LastState -> held[k])
               = GPIO!NextState(c_state[k], k \in low)
    BY DEF GPIO!NextState, StatesCount
  <2> QED
    BY <1>3, <2>1 DEF GpioEdge
<1> QED
  BY <1>1, <1>2, <1>4, <1>5 DEF StatesCount

\* What the processor reads is a set of flags.
LEMMA BusInv ==
    ASSUME GpioType, BusType, NEW op, NEW addr, NEW data, NEW low,
           BusEdge(op, addr, data, low), reset_ff' \in {0, 1}
    PROVE  BusType'
<1>1. ReadData(addr) \subseteq GPIO!Inputs \cup {"match"}
  BY DEF ReadData, Timer!DataOut, GPIO!DataOut, GpioType, GPIO!Inputs
<1>2. bus' = Access(op, addr) /\ op \in Accesses /\ addr \in Addresses
  BY DEF BusEdge, Notice
<1>3. mdr' = ReadData(addr) \/ mdr' = {}
  BY DEF BusEdge
<1> QED
  BY <1>1, <1>2, <1>3 DEF BusType, Access, Accesses, Addresses

LEMMA NextInv == Inv /\ [Next]_vars => Inv'
<1> SUFFICES ASSUME Inv, [Next]_vars PROVE Inv'
  OBVIOUS
<1>1. CASE Next
  <2>1. CASE ResetEdge
    BY <1>1, <2>1, Steps, ResetInv
  <2>2. ASSUME NEW op, NEW addr, NEW data, NEW low, BusEdge(op, addr, data, low)
        PROVE  Inv'
    <3>1. data \in Words
      BY <2>2 DEF BusEdge
    <3>2. TimerType' /\ TimerOnTime' /\ FlagWithinRange'
      BY <2>2, <3>1, TimerSteps, TimerInv DEF Inv
    <3>3. GpioType' /\ StatesCount'
      BY <2>2, <3>1, GpioSteps, GpioInv DEF Inv
    <3>4. BusType'
      BY <1>1, <2>2, Steps, BusInv DEF Inv
    <3> QED
      BY <3>2, <3>3, <3>4 DEF Inv
  <2> QED
    BY <1>1, <2>1, <2>2, Steps
<1>2. CASE UNCHANGED vars
  BY <1>2 DEF vars, timerVars, gpioVars, Inv, TimerType, GpioType, BusType,
              TimerOnTime, FlagWithinRange, Distance, StatesCount
<1> QED
  BY <1>1, <1>2

THEOREM Invariance == Spec => []Inv
  BY InitInv, NextInv, PTL DEF Spec

-----------------------------------------------------------------------------
\* Every register keeps within its width.
THEOREM TypeCorrect == Spec => []TypeOK
<1>1. Inv => TypeOK
  BY TypeParts DEF Inv
<1> QED
  BY <1>1, Invariance, PTL

\* TimerCounter.v:42-64: with CompareR left alone the flag is on time.
THEOREM OnTime == Spec => []TimerOnTime
<1>1. Inv => TimerOnTime
  BY DEF Inv
<1> QED
  BY <1>1, Invariance, PTL

\* TimerCounter.v:42-64: and with any value, written at any time, it comes.
THEOREM WithinRange == Spec => []FlagWithinRange
<1>1. Inv => FlagWithinRange
  BY DEF Inv
<1> QED
  BY <1>1, Invariance, PTL

\* GPIO.v:144-212, 280-341: a press is reported once, when it has lasted for
\* LastState - 1 edges, for any number of states.
THEOREM OneReport == Spec => OneReportPerPress
<1> DEFINE Step ==
      \A k \in GPIO!Inputs :
        /\ Reported(k) => held[k] = LastState - 1
        /\ held[k] = LastState - 1 /\ bus'.op \notin {"read", "reset"} =>
             k \in KEY_StatusR' \cup SW_StatusR'
<1>1. ASSUME Next, ResetEdge PROVE Step
  BY <1>1 DEF ResetEdge, Access, Reported, GPIO!Reset
<1>2. ASSUME Inv, NEW op, NEW addr, NEW data, NEW low, BusEdge(op, addr, data, low)
      PROVE  Step
  <2>1. GpioEdge(op, addr, data, low) /\ bus'.op = op
    BY <1>2, GpioSteps DEF BusEdge, Notice, Access
  <2>2. \A k \in GPIO!Inputs : k \in GPIO!pressed <=> held[k] = LastState - 1
    BY <1>2 DEF Inv, StatesCount, GPIO!pressed, GPIO!Pulse
  <2>3. ASSUME NEW k \in GPIO!Inputs, Reported(k) PROVE held[k] = LastState - 1
    BY <2>1, <2>2, <2>3 DEF GpioEdge, Reported
  <2>4. ASSUME NEW k \in GPIO!Inputs, held[k] = LastState - 1, op # "read"
        PROVE  k \in KEY_StatusR' \cup SW_StatusR'
    BY <2>1, <2>2, <2>4 DEF GpioEdge, GPIO!Inputs
  <2> QED
    BY <2>1, <2>3, <2>4
<1>3. Inv /\ [Next]_vars => [Step]_vars
  BY <1>1, <1>2, Steps
<1> QED
  BY <1>3, Invariance, PTL DEF Spec, OneReportPerPress

\* TimerCounter.v:47-51: only a timer that matches all the time, or whose
\* CompareR was rewritten, outlives its acknowledgement.
THEOREM Acknowledged == Spec => AcknowledgeTakes
<1> DEFINE Kept == /\ StatusR = 1 /\ "match" \in mdr' /\ bus'.op = "read"
                   /\ bus'.addr = [page |-> "FFFF0", offset |-> Timer!StatusAddr]
                   /\ StatusR' = 1
           Step == Kept => CompareR = 0 \/ ~steady
<1>1. ASSUME Inv, Next PROVE Step
  <2> SUFFICES ASSUME Kept, steady PROVE CompareR = 0
    OBVIOUS
  <2>1. PICK op, addr, data, low : BusEdge(op, addr, data, low)
    <3>1. ~ResetEdge
      BY DEF ResetEdge, Timer!Reset
    <3> QED
      BY <1>1, <3>1, Steps
  <2>2. bus' = Access(op, addr) /\ TimerEdge(op, addr, data)
    BY <2>1, TimerSteps DEF BusEdge, Notice
  <2>3. op = "read" /\ addr = [page |-> "FFFF0", offset |-> Timer!StatusAddr]
    BY <2>2 DEF Access
  <2>4. "TC" \in Selected(addr) /\ addr.offset = Timer!StatusAddr
    BY <2>3 DEF Selected
  <2>5. CompareR = CounterR
    BY <2>2, <2>3, <2>4 DEF TimerEdge
  <2>6. CounterR \in {0, Timer!Successor(CompareR)} /\ TimerType
    BY <1>1 DEF Inv, TimerOnTime
  <2> QED
    BY <2>5, <2>6, Constants DEF TimerType, Timer!Successor
<1>2. Inv /\ [Next]_vars => [Step]_vars
  BY <1>1
<1> QED
  BY <1>2, Invariance, PTL DEF Spec, AcknowledgeTakes

\* Addr_Decoder.v:34-73, GPIO.v:147-166: what was reported and is gone was
\* read, and a press is lost only to a read of its register on that edge.
THEOREM ReachReader == Spec => ReportsReachReader
<1> DEFINE now == KEY_StatusR \cup SW_StatusR \cup (IF StatusR = 1 THEN {"match"} ELSE {})
           read(offset) == bus' = Access("read", [page |-> "FFFF2", offset |-> offset])
           Delivered ==
             \A f \in now :
               \/ bus'.op = "reset"
               \/ f \in (KEY_StatusR' \cup SW_StatusR' \cup (IF StatusR' = 1 THEN {"match"} ELSE {}))
               \/ bus'.op = "read" /\ f \in mdr'
           Recorded ==
             \A k \in GPIO!pressed :
               \/ bus'.op = "reset"
               \/ k \in KEY_StatusR' \cup SW_StatusR'
               \/ k \in Keys /\ read(GPIO!KeyAddr)
               \/ k \in Switches /\ read(GPIO!SwitchAddr)
<1>1. ASSUME Next, ResetEdge PROVE Delivered /\ Recorded
  BY <1>1 DEF ResetEdge, Access
<1>2. ASSUME Inv, NEW op, NEW addr, NEW data, NEW low, BusEdge(op, addr, data, low)
      PROVE  Delivered /\ Recorded
  <2>1. /\ TimerEdge(op, addr, data) /\ GpioEdge(op, addr, data, low)
        /\ bus' = Access(op, addr)
        /\ op = "read" => mdr' = ReadData(addr)
    BY <1>2, TimerSteps, GpioSteps DEF BusEdge, Notice
  <2>2. StatusR = 1 => StatusR' = 1 \/ (op = "read" /\ mdr' = {"match"})
    BY <2>1, <1>2 DEF TimerEdge, ReadData, Timer!DataOut, Inv, TimerType
  <2>3. "GPIO" \in Selected(addr) => addr.page = "FFFF2"
    BY DEF Selected
  <2>4. op = "read" /\ "GPIO" \in Selected(addr) => mdr' = GPIO!DataOut(addr.offset)
    BY <2>1, <2>3 DEF ReadData, Selected
  <2>5. KEY_StatusR \subseteq KEY_StatusR' \/ (op = "read" /\ mdr' = KEY_StatusR)
    <3>1. CASE op = "read" /\ "GPIO" \in Selected(addr) /\ addr.offset = GPIO!KeyAddr
      BY <2>4, <3>1 DEF GPIO!DataOut, GPIO!KeyAddr, GPIO!SwitchAddr
    <3>2. CASE ~(op = "read" /\ "GPIO" \in Selected(addr) /\ addr.offset = GPIO!KeyAddr)
      BY <2>1, <3>2 DEF GpioEdge
    <3> QED
      BY <3>1, <3>2
  <2>6. SW_StatusR \subseteq SW_StatusR' \/ (op = "read" /\ mdr' = SW_StatusR)
    <3>1. CASE op = "read" /\ "GPIO" \in Selected(addr) /\ addr.offset = GPIO!SwitchAddr
      BY <2>4, <3>1 DEF GPIO!DataOut, GPIO!KeyAddr, GPIO!SwitchAddr
    <3>2. CASE ~(op = "read" /\ "GPIO" \in Selected(addr) /\ addr.offset = GPIO!SwitchAddr)
      BY <2>1, <3>2 DEF GpioEdge
    <3> QED
      BY <3>1, <3>2
  <2>7. Delivered
    BY <2>1, <2>2, <2>5, <2>6 DEF Access
  <2>8. op = "read" /\ "GPIO" \in Selected(addr) =>
          bus' = Access("read", [page |-> "FFFF2", offset |-> addr.offset])
    <3> SUFFICES ASSUME op = "read", "GPIO" \in Selected(addr)
                 PROVE  addr = [page |-> "FFFF2", offset |-> addr.offset]
      BY <2>1
    <3>1. addr \in [page : STRING, offset : Nat]
      BY <1>2, <2>3, BoardAssumption
      DEF BoardAssumption, BusEdge, Addresses, Nowhere
    <3> QED
      BY <2>3, <3>1
  <2>9. Recorded
    BY <2>1, <2>8 DEF GpioEdge, GPIO!pressed, GPIO!Inputs
  <2> QED
    BY <2>7, <2>9
<1>3. Inv /\ [Next]_vars => [Delivered /\ Recorded]_vars
  BY <1>1, <1>2, Steps
<1> QED
  BY <1>3, Invariance, PTL DEF Spec, ReportsReachReader
=============================================================================

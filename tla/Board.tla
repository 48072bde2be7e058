------------------------------- MODULE Board --------------------------------
(***************************************************************************)
(* ARM_System.v without the UART, which MiniUart models: the timer and the *)
(* GPIO on the processor's bus, one edge of clk0 per step.  On any edge    *)
(* the processor may read or write an address (no instruction keeps        *)
(* memread or memwrite up longer than that) and the register MDR takes     *)
(* what it reads; keys and switches change at will.  No interrupt output   *)
(* is connected to the processor, so that software polls.                  *)
(***************************************************************************)
EXTENDS Integers

CONSTANTS
    Range32,                        \* 2^32
    Keys, Switches, Lights, LightAddr, LightReset, LastState,
    Reads, Writes,                  \* the addresses software reads and writes:
                                    \*   [page, offset]
    Data                            \* the words it writes

ASSUME BoardAssumption ==
    /\ Range32 \in Nat /\ Range32 > 1
    /\ LastState \in Nat /\ LastState > 1
    /\ Keys \cap Switches = {}
    /\ "match" \notin Keys \cup Switches
    /\ Data \subseteq 0 .. Range32 - 1
    /\ LightReset \in [Lights -> 0 .. Range32 - 1]
    /\ LightAddr \in [Lights -> Nat]
    /\ Reads \cup Writes \subseteq [page : STRING, offset : Nat]

VARIABLES
    reset_ff,                       \* low: reset
    CompareR, CounterR, StatusR,
    c_state, KEY_StatusR, SW_StatusR, light,
    mdr,                            \* flags in what MDR has taken from read_data
    bus,                            \* history: its access on the last edge
    age,                            \* history: edges the timer has counted since
                                    \*   its flag went down or CompareR was written,
    steady,                         \*   and whether the former came last
    held                            \* history: edges in a row an input has been
                                    \*   low, counted up to LastState

Timer == INSTANCE TimerCounter
GPIO  == INSTANCE Gpio

timerVars == <<CompareR, CounterR, StatusR>>
gpioVars  == <<c_state, KEY_StatusR, SW_StatusR, light>>
vars == <<reset_ff, timerVars, gpioVars, mdr, bus, age, steady, held>>

-----------------------------------------------------------------------------
(* Addr_Decoder: the units an address selects. *)
X_LooseDecoder(addr) ==
    (* Mutation: the page is not compared in full. *)
    CASE addr.page = "mem"   -> {"MEM"}
      [] addr.page = "FFFF0" -> {"TC", "GPIO"}
      [] addr.page = "FFFF1" -> {"UART"}
      [] addr.page = "FFFF2" -> {"GPIO"}
      [] OTHER               -> {}
Selected(addr) ==
    CASE addr.page = "mem"   -> {"MEM"}     \* 0000_0000 to 0000_1FFF
      [] addr.page = "FFFF0" -> {"TC"}
      [] addr.page = "FFFF1" -> {"UART"}
      [] addr.page = "FFFF2" -> {"GPIO"}
      [] OTHER               -> {}

(* read_data: the words of the memory and of the UART have no flags here. *)
ReadData(addr) ==
    IF "TC" \in Selected(addr) THEN Timer!DataOut(addr.offset)
    ELSE IF "UART" \in Selected(addr) THEN {}
    ELSE IF "GPIO" \in Selected(addr) THEN GPIO!DataOut(addr.offset)
    ELSE {}

Nowhere == [page |-> "none", offset |-> 0]
Access(kind, a) == [op |-> kind, addr |-> a]

Init ==
    /\ reset_ff = 0
    /\ CompareR = Range32 - 1 /\ CounterR = 0 /\ StatusR = 0
    /\ c_state = [k \in GPIO!Inputs |-> 0]
    /\ KEY_StatusR = {} /\ SW_StatusR = {}
    /\ light = LightReset
    /\ mdr = {}
    /\ bus = Access("none", Nowhere)
    /\ age = 0 /\ steady = TRUE
    /\ held = [k \in GPIO!Inputs |-> 0]

(* One edge: the reset of the flip-flop, or an edge of every unit. *)
Units(op, addr, data, low) ==
    LET to(unit, kind) == op = kind /\ unit \in Selected(addr)
    IN  /\ Timer!Clock(to("TC", "read"), to("TC", "write"), addr.offset, data)
        /\ GPIO!Clock(to("GPIO", "read"), to("GPIO", "write"), addr.offset, data, low)

WritesCompare(op, addr) ==
    op = "write" /\ "TC" \in Selected(addr) /\ addr.offset = Timer!CompareAddr

Notice(op, addr, low) ==
    /\ bus' = Access(op, addr)
    /\ age' = IF StatusR = 1 \/ WritesCompare(op, addr) THEN 0 ELSE age + 1
    /\ steady' = (~WritesCompare(op, addr) /\ (steady \/ (StatusR = 1 /\ StatusR' = 0)))
    /\ held' = [k \in GPIO!Inputs |->
                  CASE k \notin low                      -> 0
                    [] k \in low /\ held[k] < LastState -> held[k] + 1
                    [] k \in low /\ held[k] = LastState -> held[k]]

Edge(op, addr, data) ==
    /\ reset_ff = 1
    /\ \E low \in SUBSET GPIO!Inputs :
         /\ Units(op, addr, data, low)
         /\ Notice(op, addr, low)

(* MDR takes read_data on every edge; a unit that is not read drives zeros. *)
QuietEdge ==
    /\ Edge("none", Nowhere, 0)
    /\ mdr' = {}

ReadEdge(addr) ==
    /\ Edge("read", addr, 0)
    /\ mdr' = ReadData(addr)

WriteEdge(addr) ==
    /\ \E data \in Data : Edge("write", addr, data)
    /\ mdr' = {}

ResetEdge ==
    /\ reset_ff = 0
    /\ Timer!Reset
    /\ GPIO!Reset
    /\ mdr' = {}
    /\ bus' = Access("reset", Nowhere)
    /\ age' = 0 /\ steady' = TRUE
    /\ held' = [k \in GPIO!Inputs |-> 0]

(* The key KEY[0] is the reset button. *)
Next ==
    /\ reset_ff' \in {0, 1}
    /\ \/ QuietEdge
       \/ \E addr \in Reads : ReadEdge(addr)
       \/ \E addr \in Writes : WriteEdge(addr)
       \/ ResetEdge

Spec == Init /\ [][Next]_vars

-----------------------------------------------------------------------------
TypeOK ==
    /\ reset_ff \in {0, 1}
    /\ Timer!TypeOK
    /\ c_state \in [GPIO!Inputs -> 0 .. LastState]
    /\ KEY_StatusR \subseteq Keys
    /\ SW_StatusR \subseteq Switches
    /\ light \in [Lights -> 0 .. Range32 - 1]
    /\ mdr \subseteq GPIO!Inputs \cup {"match"}
    /\ bus \in [op : {"none", "read", "write", "reset"}, addr : Reads \cup Writes \cup {Nowhere}]
    /\ age \in Nat
    /\ steady \in BOOLEAN
    /\ held \in [GPIO!Inputs -> 0 .. LastState]

(* TimerCounter.v:42-64: while CompareR is left alone the flag comes up when
   the counter has made CompareR + 1 edges since it was acknowledged (or
   since the reset), neither earlier nor later: the counter waits at 0 as
   long as software takes to read the status register. *)
TimerOnTime ==
    steady => IF StatusR = 1 THEN CounterR \in {0, Timer!Successor(CompareR)}
                             ELSE CounterR = age /\ age <= CompareR

(* TimerCounter.v:42-64: whatever CompareR is set to and whenever, the flag
   comes up at most 2^32 edges later: written below the counter, it is met
   after the counter has wrapped. *)
Distance ==
    IF CounterR <= CompareR THEN CompareR - CounterR ELSE CompareR - CounterR + Range32

FlagWithinRange == StatusR = 0 => age + Distance < Range32

(* TimerCounter.v:47-51: the match wins over the read of the same edge, yet a
   read that finds the flag up takes it down: the two meet only when CompareR
   is 0 (the counter, held at 0 while the flag is up, meets it on every edge but
   the first) or was rewritten since the flag was down. *)
AcknowledgeTakes ==
    [][StatusR = 1 /\ "match" \in mdr' /\ bus'.op = "read"
         /\ bus'.addr = [page |-> "FFFF0", offset |-> Timer!StatusAddr] /\ StatusR' = 1
       => CompareR = 0 \/ ~steady]_vars

(* Addr_Decoder.v:34-73, ARM_System.v:82-88, GPIO.v:147, 166: what a unit has
   to report goes down only by a reset or by the read that delivered it to
   the processor, although units share offsets; and a press that is
   recognised is not recorded only when the same register is read on that
   very edge (the press is lost then). *)
ReportsReachReader ==
    [][LET flags == KEY_StatusR \cup SW_StatusR \cup (IF StatusR = 1 THEN {"match"} ELSE {})
           resetting == bus'.op = "reset"
           read(offset) == bus' = Access("read", [page |-> "FFFF2", offset |-> offset])
       IN  /\ \A f \in flags :
                \/ resetting
                \/ f \in (KEY_StatusR' \cup SW_StatusR' \cup (IF StatusR' = 1 THEN {"match"} ELSE {}))
                \/ bus'.op = "read" /\ f \in mdr'
           /\ \A k \in GPIO!pressed :
                \/ resetting
                \/ k \in KEY_StatusR' \cup SW_StatusR'
                \/ k \in Keys /\ read(GPIO!KeyAddr)
                \/ k \in Switches /\ read(GPIO!SwitchAddr)]_vars

Reported(k) ==
    /\ k \in KEY_StatusR' \cup SW_StatusR'
    /\ k \notin KEY_StatusR \cup SW_StatusR

(* GPIO.v:144-212, 280-341: a press is reported on one edge only, the one after
   the input has been low for exactly LastState - 1 edges without a bounce,
   however long the key is held, whether or not it is let go on that very
   edge, and however often the status register is read meanwhile.  And every
   press that lasts so long is reported, unless a read or a reset coincides. *)
OneReportPerPress ==
    [][\A k \in GPIO!Inputs :
         /\ Reported(k) => held[k] = LastState - 1
         /\ held[k] = LastState - 1 /\ bus'.op \notin {"read", "reset"} =>
              k \in KEY_StatusR' \cup SW_StatusR']_vars
=============================================================================

------------------------------- MODULE ClkUnit ------------------------------
(***************************************************************************)
(* The baud rate generator of the UART, ARM_System/UART/clkUnit.v: three   *)
(* counters in a row.  A blocking assignment in an always block (Cnt33,    *)
(* Cnt10, Cnt16) acts at once, the others at the end of the edge.          *)
(***************************************************************************)
EXTENDS Integers

CONSTANTS
    Div,         \* 18
    Ten,         \* 10
    Samples      \* 16

VARIABLES Cnt33, ClkDiv33, Cnt10, tmpEnRX, Cnt16, tmpEnTX

Bit == {0, 1}

Init ==
    /\ Cnt33 = 0 /\ ClkDiv33 = 0
    /\ Cnt10 = 0 /\ tmpEnRX = 0
    /\ Cnt16 = 0 /\ tmpEnTX = 0

Reset ==
    /\ Cnt33' = 0 /\ ClkDiv33' = 0
    /\ Cnt10' = 0 /\ tmpEnRX' = 0
    /\ Cnt16' = 0 /\ tmpEnTX' = 0

Divide ==
    LET c == Cnt33 + 1
    IN  /\ Cnt33' = IF c = Div THEN 0 ELSE c
        /\ ClkDiv33' = IF c = Div THEN 1 ELSE 0

TickRX ==
    LET c == Cnt10 + ClkDiv33
    IN  /\ Cnt10' = IF c = Ten THEN 0 ELSE c
        /\ tmpEnRX' = IF c = Ten THEN 1 ELSE 0

(* Mutation: the extra count at the tick is missing. *)
TickTX_Short ==
    LET c == Cnt16 + tmpEnRX
    IN  /\ tmpEnTX' = IF c = Samples - 1 THEN 1 ELSE 0
        /\ Cnt16' = IF c = Samples - 1 THEN 0 ELSE c

(* The tick counts as one of the Samples + 1 counts. *)
TickTX ==
    LET c == Cnt16 + tmpEnRX
    IN  /\ tmpEnTX' = IF c = Samples - 1 THEN 1 ELSE 0
        /\ Cnt16' = IF c = Samples - 1 THEN Samples
                    ELSE IF c = Samples + 1 THEN 0
                    ELSE c

Clock == Divide /\ TickRX /\ TickTX

TypeOK ==
    /\ Cnt33 \in 0 .. Div - 1 /\ ClkDiv33 \in Bit
    /\ Cnt10 \in 0 .. Ten - 1 /\ tmpEnRX \in Bit
    /\ Cnt16 \in (0 .. Samples - 2) \cup {Samples} /\ tmpEnTX \in Bit
=============================================================================

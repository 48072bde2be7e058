-------------------------------- MODULE Gpio --------------------------------
(***************************************************************************)
(* The keys, switches and lights of the board, ARM_System/GPIO/GPIO.v.     *)
(* Every input has a key_detect, which raises key_pressed for one clock    *)
(* when the input has been low for LastState - 1 clock edges (14); the     *)
(* status registers take it on the edge after, whatever the input does.    *)
(***************************************************************************)
EXTENDS Integers

CONSTANTS
    Keys, Switches,         \* KEY[3:1] and SW[17:0], which is inverted
    Lights,                 \* LEDR, LEDG and HEX0 to HEX7
    LightAddr,              \* the address of each, 12'h008 to 12'h02C
    LightReset,             \* the value of each after a reset
    LastState               \* 15: S0 to S15

VARIABLES
    c_state,                \* of the key_detect of each input
    KEY_StatusR, SW_StatusR, \* the bits that are set
    light                   \* LEDR_R, LEDG_R, HEX0_R to HEX7_R

KeyAddr    == 0
SwitchAddr == 4

Inputs == Keys \cup Switches
Pulse  == LastState - 1

Reset ==
    /\ c_state' = [k \in Inputs |-> 0]
    /\ KEY_StatusR' = {}
    /\ SW_StatusR' = {}
    /\ light' = LightReset

X_Repeating(s, low) ==
    (* Mutation: the last state does not wait for the release. *)
    IF low THEN (s + 1) % (LastState + 1) ELSE 0
NextState(s, low) ==
    IF ~low THEN 0 ELSE IF s = LastState THEN LastState ELSE s + 1

(* key_pressed of each input *)
pressed == {k \in Inputs : c_state[k] = Pulse}

X_OneRegister(status, read, mine) ==
    (* Mutation: a press of any input sets a bit of the register. *)
    IF read THEN {} ELSE status \cup pressed
Record(status, read, mine) ==
    IF read THEN {} ELSE status \cup (pressed \cap mine)

(* low: the inputs that are low at this edge. *)
Clock(reading, writing, addr, data, low) ==
    /\ c_state' = [k \in Inputs |-> NextState(c_state[k], k \in low)]
    /\ KEY_StatusR' = Record(KEY_StatusR, reading /\ addr = KeyAddr, Keys)
    /\ SW_StatusR' = Record(SW_StatusR, reading /\ addr = SwitchAddr, Switches)
    /\ light' = [l \in Lights |-> IF writing /\ addr = LightAddr[l] THEN data ELSE light[l]]

DataOut(addr) ==
    CASE addr = KeyAddr    -> KEY_StatusR
      [] addr = SwitchAddr -> SW_StatusR
      [] OTHER             -> {}
=============================================================================

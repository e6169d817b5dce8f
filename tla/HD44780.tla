------------------------------ MODULE HD44780 ------------------------------
(***************************************************************************)
(* The LCD controller behind the PCF8574 port expander, as far as the      *)
(* drivers of "Sensors and Modules" depend on it.  Only its upper four     *)
(* data lines are wired.  In 8-bit mode every falling edge of EN delivers  *)
(* an instruction whose lower half is whatever the unconnected lines read; *)
(* in 4-bit mode two falling edges deliver one instruction or character.   *)
(***************************************************************************)
EXTENDS Naturals

CONSTANTS
  Cells,     \* the DDRAM addresses that are observed
  Blank      \* the character code of a cleared cell

\* An address has seven bits and a character code eight.
ASSUME CellsAssumption == Cells \subseteq 0 .. 127
ASSUME BlankAssumption == Blank \in 0 .. 255

NoNibble == 16     \* no half of an instruction is pending

Lcds ==
  [mode4 : BOOLEAN, pending : 0 .. NoNibble, addr : 0 .. 127, inc : BOOLEAN,
   shift : BOOLEAN, on : BOOLEAN, twoLines : BOOLEAN, ddram : [Cells -> 0 .. 255]]

Bit(v, weight) == (v \div weight) % 2 = 1

\* Two lines of 40 cells, at 0..39 and 64..103, form one ring.
NextAddr(a, inc) ==
  IF inc THEN (IF a = 39 THEN 64 ELSE IF a >= 103 THEN 0 ELSE a + 1)
         ELSE (IF a = 64 THEN 39 ELSE IF a = 0 THEN 103 ELSE a - 1)

Instruction(l, v) ==
  CASE v >= 128       -> [l EXCEPT !.addr = v - 128]
    [] v \in 32 .. 63 -> [l EXCEPT !.mode4 = ~Bit(v, 16), !.twoLines = Bit(v, 8)]
    [] v \in 16 .. 23 -> [l EXCEPT !.addr = NextAddr(@, Bit(v, 4))]
    [] v \in 8 .. 15  -> [l EXCEPT !.on = Bit(v, 4)]
    [] v \in 4 .. 7   -> [l EXCEPT !.inc = Bit(v, 2), !.shift = Bit(v, 1)]
    [] v \in 2 .. 3   -> [l EXCEPT !.addr = 0]
    [] v = 1          -> [l EXCEPT !.addr = 0, !.inc = TRUE, !.ddram = [c \in Cells |-> Blank]]
    [] OTHER          -> l

Character(l, v) ==
  [l EXCEPT !.addr = NextAddr(@, l.inc),
            !.ddram = [c \in Cells |-> IF c = l.addr THEN v ELSE @[c]]]

Execute(l, rs, v) == IF rs = 1 THEN Character(l, v) ELSE Instruction(l, v)

\* The states one falling edge of EN may lead to.
Latch(l, nib, rs) ==
  IF ~l.mode4
    THEN {[Execute(l, rs, nib * 16 + low) EXCEPT !.pending = NoNibble] : low \in 0 .. 15}
  ELSE IF l.pending = NoNibble THEN {[l EXCEPT !.pending = nib]}
  ELSE {Execute([l EXCEPT !.pending = NoNibble], rs, l.pending * 16 + nib)}
=============================================================================

------------------------------ MODULE LcdPort ------------------------------
(***************************************************************************)
(* The two drivers of the HD44780 display behind a PCF8574 port expander:  *)
(* src/pcf8574_hd44780_lcd.c and lcd_driver.py.  Each turns its calls into *)
(* single-byte writes to the port, which carries four data lines, RS and   *)
(* EN (and the backlight, which no property is about).                     *)
(*                                                                         *)
(* The display has no reset line: "reset function is initialized by        *)
(* instruction".  A driver may be killed, or exit after a failed write,    *)
(* between any two bytes, and the next run then finds the controller in    *)
(* 8-bit mode, in 4-bit mode or in the middle of an instruction, and the   *)
(* port with EN still high.  The ladder of nibbles each driver starts with *)
(* has to bring every such state back into step.                           *)
(***************************************************************************)
EXTENDS HD44780, Sequences

CONSTANTS
  Line1, Line2,   \* the texts written to the display, as character codes
  NoProgram

Programs == {"c", "python"}

\* A row of the display has forty cells, of which main fills at most twenty.
ASSUME LinesAssumption ==
  /\ Line1 \in Seq(0 .. 255) /\ Len(Line1) <= 40
  /\ Line2 \in Seq(0 .. 255) /\ Len(Line2) <= 40
ASSUME NoProgramAssumption == NoProgram \notin Programs

VARIABLES
  prog,      \* the driver that is running, or NoProgram
  pc,        \* the byte it writes next
  port,      \* the byte on the expander's pins
  lcd        \* the controller

vars == <<prog, pc, port, lcd>>

-----------------------------------------------------------------------------
(***************************************************************************)
(* From calls to bytes.                                                    *)
(***************************************************************************)
Byte(nib, rs, en) == [nib |-> nib, rs |-> rs, en |-> en]

\* lcd_write_four_bits and lcd_strobe: the data with EN low, high and low.
FourBits(nib, rs) == <<Byte(nib, rs, 0), Byte(nib, rs, 1), Byte(nib, rs, 0)>>

\* Mutant: low half first.
Write4BitsSwapped(value, rs) == FourBits(value % 16, rs) \o FourBits(value \div 16, rs)

\* write_4bits of the C driver, for USER_COMMAND (rs = 0) and USER_WRITE.
Write4Bits(value, rs) == FourBits(value \div 16, rs) \o FourBits(value % 16, rs)

\* lcd_write of the Python driver makes the same six writes.
LcdWrite(cmd, mode) == FourBits(cmd \div 16, mode) \o FourBits(cmd % 16, mode)

Strobe(nib) == <<Byte(nib, 0, 1), Byte(nib, 0, 0)>>

\* Mutant: a shorter ladder.
ResetFunctionShort == Strobe(3) \o Strobe(3) \o Strobe(2)

\* The C driver's reset: EN high and low for 3, 3, 3 and 2.
ResetFunction == Strobe(3) \o Strobe(3) \o Strobe(3) \o Strobe(2)

\* The Python driver's ladder: whole lcd_write calls for 3, 3, 3 and 2.
PythonLadder == LcdWrite(3, 0) \o LcdWrite(3, 0) \o LcdWrite(3, 0) \o LcdWrite(2, 0)

Cmd(v) == [rs |-> 0, v |-> v]
Chars(text) == [i \in DOMAIN text |-> [rs |-> 1, v |-> text[i]]]

COLUMNS == 20
\* Mutant: the second row starts where the first one ends on the glass.
SetCursorRowMajor(column, row) == Cmd(128 + row * COLUMNS + column)

\* set_cursor: rows 0 and 1, the ones DRAM_OFFSET has an entry for.
SetCursor(column, row) ==
  Cmd(128 + (IF row = 0 THEN 0 ELSE 64) + (IF column >= COLUMNS THEN COLUMNS - 1 ELSE column))

\* lcd_display_string: address of the line, then the characters.
DisplayString(text, line) == <<Cmd(IF line = 1 THEN 128 ELSE 192)>> \o Chars(text)

\* What follows the ladder, as the calls of main: function set, display
\* control, entry mode, cursor shift, clear, home and the two lines.
MainCalls ==
  <<Cmd(40), Cmd(12), Cmd(6), Cmd(20), Cmd(1), Cmd(2), SetCursor(0, 0)>> \o Chars(Line1)
    \o <<SetCursor(0, 1)>> \o Chars(Line2)

\* The calls of lcd.__init__ after the ladder, then those of the README's
\* example: one string on each line.
PythonCalls ==
  <<Cmd(40), Cmd(12), Cmd(1), Cmd(6)>> \o DisplayString(Line1, 1) \o DisplayString(Line2, 2)

Ladder(p) == IF p = "c" THEN ResetFunction ELSE PythonLadder
Calls(p) == IF p = "c" THEN MainCalls ELSE PythonCalls
CallBytes(p, call) ==
  IF p = "c" THEN Write4Bits(call.v, call.rs) ELSE LcdWrite(call.v, call.rs)
\* The program as the bytes it writes.
BytesOf(p) ==
  Ladder(p) \o [i \in 1 .. 6 * Len(Calls(p)) |->
                  CallBytes(p, Calls(p)[(i - 1) \div 6 + 1])[((i - 1) % 6) + 1]]
CBytes == BytesOf("c")
PythonBytes == BytesOf("python")
Bytes(p) == IF p = "c" THEN CBytes ELSE PythonBytes

-----------------------------------------------------------------------------
\* After power-on the expander drives all pins high; the controller may be in
\* any mode, its contents are arbitrary.
Init ==
  /\ prog = NoProgram /\ pc = 0
  /\ port = Byte(15, 1, 1)
  /\ lcd \in [mode4 : BOOLEAN, pending : {NoNibble}, addr : {0}, inc : BOOLEAN, shift : {FALSE},
              on : {FALSE}, twoLines : BOOLEAN, ddram : [Cells -> {0}]]

Start(p) ==
  /\ prog = NoProgram
  /\ prog' = p /\ pc' = 1
  /\ UNCHANGED <<port, lcd>>

\* i2c_write_8bits, write_cmd.  The controller acts when EN falls.  If the data
\* lines change in the same write, which happens only for the first byte after
\* an interrupted run or after power-on, it may see the old data, the new data
\* or no valid write at all.
WriteByte ==
  /\ prog # NoProgram /\ pc <= Len(Bytes(prog))
  /\ LET b == Bytes(prog)[pc]
     IN /\ port' = b
        /\ IF port.en = 1 /\ b.en = 0
             THEN \/ lcd' \in Latch(lcd, b.nib, b.rs)
                  \/ /\ <<port.nib, port.rs>> # <<b.nib, b.rs>>
                     /\ lcd' \in {lcd} \cup Latch(lcd, port.nib, port.rs)
             ELSE UNCHANGED lcd
  /\ pc' = pc + 1
  /\ UNCHANGED prog

\* A failed write makes the driver exit; a signal kills it between two writes.
Interrupted ==
  /\ prog # NoProgram /\ pc <= Len(Bytes(prog))
  /\ prog' = NoProgram /\ pc' = 0
  /\ UNCHANGED <<port, lcd>>

\* The driver is done and closes the bus.
Finish ==
  /\ prog # NoProgram /\ pc = Len(Bytes(prog)) + 1
  /\ prog' = NoProgram /\ pc' = 0
  /\ UNCHANGED <<port, lcd>>

Next == (\E p \in Programs : Start(p)) \/ WriteByte \/ Interrupted \/ Finish

Spec == Init /\ [][Next]_vars

-----------------------------------------------------------------------------
(***************************************************************************)
(* Properties.                                                             *)
(***************************************************************************)
TypeOK ==
  /\ prog \in Programs \cup {NoProgram}
  /\ pc \in Nat /\ (prog # NoProgram => pc \in 1 .. Len(Bytes(prog)) + 1)
  /\ port \in [nib : 0 .. 15, rs : {0, 1}, en : {0, 1}]
  /\ lcd \in Lcds

\* The number of calls whose six bytes were all written, and whether the
\* driver stands between two calls.
CallsDone == IF prog = NoProgram \/ pc <= Len(Ladder(prog)) THEN 0
             ELSE (pc - 1 - Len(Ladder(prog))) \div 6
Between == /\ prog # NoProgram /\ pc > Len(Ladder(prog))
           /\ (pc - 1 - Len(Ladder(prog))) % 6 = 0

\* From the end of the ladder on, the controller is in 4-bit mode and between
\* two instructions whenever the driver is between two calls, whatever state
\* the previous run left it in.
InStep == Between => lcd.mode4 /\ lcd.pending = NoNibble

Text ==
  [c \in Cells |-> IF c < 64 THEN (IF c < Len(Line1) THEN Line1[c + 1] ELSE Blank)
                   ELSE (IF c - 64 < Len(Line2) THEN Line2[c - 63] ELSE Blank)]

\* A run that gets to its end shows exactly the two lines it was asked to
\* show, at the start of the display's two rows and with the display on.
TextShown ==
  prog # NoProgram /\ pc = Len(Bytes(prog)) + 1 =>
    lcd.ddram = Text /\ lcd.on /\ lcd.twoLines /\ ~lcd.shift

(***************************************************************************)
(* The bytes implement a display that executes one call at a time.         *)
(***************************************************************************)
Display == INSTANCE CallDisplay
             WITH program <- prog, done <- CallsDone,
                  state <- [lcd EXCEPT !.pending = NoNibble],
                  synced <- prog # NoProgram /\ pc > Len(Ladder(prog))

CallsAreAtomic == Display!Spec
=============================================================================

---------------------------- MODULE LcdPortProofs ----------------------------
(***************************************************************************)
(* Proofs about LcdPort, for every pair of lines of at most forty          *)
(* characters, every set of observed cells and every character code of a   *)
(* cleared cell:                                                           *)
(*                                                                         *)
(*   - wherever a run was killed, the ladder of the next one brings the    *)
(*     controller back into step, and no call loses it again (InStep);     *)
(*   - a run that gets to its end has both lines on the display            *)
(*     (TextShown);                                                        *)
(*   - the bytes implement a display that executes one call at a time      *)
(*     (CallsAreAtomic).                                                   *)
(*                                                                         *)
(* The invariant is in two parts.  On the ladder, the controller's mode    *)
(* (8-bit, or 4-bit with this much of an instruction pending) is one of a  *)
(* set that shrinks with every nibble, from any mode to 4-bit with nothing *)
(* pending.  After it, half a call is pending after its third byte and     *)
(* none before, and what the calls so far must have left in the display is *)
(* there.                                                                  *)
(***************************************************************************)
EXTENDS LcdPort, SequenceTheorems, TLAPS

-----------------------------------------------------------------------------
(***************************************************************************)
(* The controller.                                                         *)
(***************************************************************************)
\* The cursor stays within the addresses, and Bit is a Boolean.
LEMMA NextAddrType ==
  ASSUME NEW a \in 0 .. 127, NEW inc \in BOOLEAN
  PROVE  NextAddr(a, inc) \in 0 .. 127
BY DEF NextAddr

LEMMA BitType == \A v, w : Bit(v, w) \in BOOLEAN
BY DEF Bit

\* Setting fields of the controller.
LEMMA SetFlags ==
  ASSUME NEW l \in Lcds, NEW x \in BOOLEAN, NEW y \in BOOLEAN
  PROVE  /\ [l EXCEPT !.on = x] \in Lcds
         /\ [l EXCEPT !.on = x].pending = l.pending
         /\ [l EXCEPT !.mode4 = x, !.twoLines = y] \in Lcds
         /\ [l EXCEPT !.mode4 = x, !.twoLines = y].pending = l.pending
         /\ [l EXCEPT !.inc = x, !.shift = y] \in Lcds
         /\ [l EXCEPT !.inc = x, !.shift = y].pending = l.pending
BY DEF Lcds

LEMMA SetContents ==
  ASSUME NEW l \in Lcds
  PROVE  /\ \A a \in 0 .. 127 :
              [l EXCEPT !.addr = a] \in Lcds /\ [l EXCEPT !.addr = a].pending = l.pending
         /\ \A i \in BOOLEAN :
              [l EXCEPT !.inc = i] \in Lcds /\ [l EXCEPT !.inc = i].pending = l.pending
         /\ \A d \in [Cells -> 0 .. 255] :
              [l EXCEPT !.ddram = d] \in Lcds /\ [l EXCEPT !.ddram = d].pending = l.pending
BY DEF Lcds

\* What a byte does to the parts of the controller: an instruction leaves what
\* it is not about alone, and no instruction is begun by executing one.
LEMMA InstructionType ==
  ASSUME NEW l \in Lcds, NEW v \in 0 .. 255
  PROVE  Instruction(l, v) \in Lcds /\ Instruction(l, v).pending = l.pending
<1> DEFINE r == Instruction(l, v)
<1>1. CASE v >= 128
  <2>1. r = [l EXCEPT !.addr = v - 128]
    BY <1>1 DEF Instruction
  <2> QED BY <2>1, <1>1 DEF Lcds
<1>2. CASE v \in 32 .. 63
  <2> DEFINE x == ~Bit(v, 16)
             y == Bit(v, 8)
  <2>1. r = [l EXCEPT !.mode4 = x, !.twoLines = y]
    BY <1>2 DEF Instruction
  <2>2. x \in BOOLEAN /\ y \in BOOLEAN
    BY DEF Bit
  <2> HIDE DEF x, y, r
  <2>3. r \in Lcds /\ r.pending = l.pending
    BY <2>1, <2>2, SetFlags
  <2> QED BY <2>3 DEF r
<1>3. CASE v \in 16 .. 23
  <2>1. r = [l EXCEPT !.addr = NextAddr(@, Bit(v, 4))]
    BY <1>3 DEF Instruction
  <2>2. NextAddr(l.addr, Bit(v, 4)) \in 0 .. 127
    BY NextAddrType, BitType DEF Lcds
  <2> QED BY <2>1, <2>2 DEF Lcds
<1>4. CASE v \in 8 .. 15
  <2> DEFINE x == Bit(v, 4)
  <2>1. r = [l EXCEPT !.on = x]
    BY <1>4 DEF Instruction
  <2>2. x \in BOOLEAN
    BY DEF Bit
  <2> HIDE DEF x, r
  <2>3. r \in Lcds /\ r.pending = l.pending
    BY <2>1, <2>2, SetFlags
  <2> QED BY <2>3 DEF r
<1>5. CASE v \in 4 .. 7
  <2> DEFINE x == Bit(v, 2)
             y == Bit(v, 1)
  <2>1. r = [l EXCEPT !.inc = x, !.shift = y]
    BY <1>5 DEF Instruction
  <2>2. x \in BOOLEAN /\ y \in BOOLEAN
    BY DEF Bit
  <2> HIDE DEF x, y, r
  <2>3. r \in Lcds /\ r.pending = l.pending
    BY <2>1, <2>2, SetFlags
  <2> QED BY <2>3 DEF r
<1>6. CASE v \in 2 .. 3
  <2>1. r = [l EXCEPT !.addr = 0]
    BY <1>6 DEF Instruction
  <2> QED BY <2>1 DEF Lcds
<1>7. CASE v = 1
  <2> DEFINE home == 0
             right == TRUE
             blank == [c \in Cells |-> Blank]
             a == [l EXCEPT !.addr = home]
             i == [a EXCEPT !.inc = right]
             d == [i EXCEPT !.ddram = blank]
  <2>1. Instruction(l, v) = d
    BY <1>7 DEF Instruction
  <2>2. home \in 0 .. 127 /\ right \in BOOLEAN /\ blank \in [Cells -> 0 .. 255]
    BY BlankAssumption
  <2> HIDE DEF home, right, blank
  <2>3. a \in Lcds /\ a.pending = l.pending
    BY <2>2, SetContents
  <2> HIDE DEF a
  <2>4. i \in Lcds /\ i.pending = a.pending
    BY <2>2, <2>3, SetContents
  <2> HIDE DEF i
  <2>5. d \in Lcds /\ d.pending = i.pending
    BY <2>2, <2>4, SetContents
  <2> HIDE DEF d
  <2> QED BY <2>1, <2>3, <2>4, <2>5
<1>8. CASE v = 0 \/ v \in 24 .. 31 \/ v \in 64 .. 127
  <2>1. r = l
    BY <1>8 DEF Instruction
  <2> QED BY <2>1
<1> QED BY <1>1, <1>2, <1>3, <1>4, <1>5, <1>6, <1>7, <1>8

\* A character, like an instruction, leaves what is pending alone.
LEMMA CharacterType ==
  ASSUME NEW l \in Lcds, NEW v \in 0 .. 255
  PROVE  Character(l, v) \in Lcds /\ Character(l, v).pending = l.pending
<1>1. NextAddr(l.addr, l.inc) \in 0 .. 127
  BY NextAddrType DEF Lcds
<1> QED BY <1>1 DEF Character, Lcds

LEMMA ExecuteType ==
  ASSUME NEW l \in Lcds, NEW rs \in {0, 1}, NEW v \in 0 .. 255
  PROVE  Execute(l, rs, v) \in Lcds /\ Execute(l, rs, v).pending = l.pending
BY InstructionType, CharacterType DEF Execute

\* The edge of EN, in each of the three states the controller may be in.
LEMMA LatchEightBit ==
  ASSUME NEW l \in Lcds, ~l.mode4, NEW nib \in 0 .. 15, NEW rs \in {0, 1}, NEW m \in Latch(l, nib, rs)
  PROVE  \E low \in 0 .. 15 :
           /\ nib * 16 + low \in 0 .. 255
           /\ m = [Execute(l, rs, nib * 16 + low) EXCEPT !.pending = NoNibble]
BY DEF Latch

LEMMA LatchFirst ==
  ASSUME NEW l \in Lcds, l.mode4, l.pending = NoNibble, NEW nib, NEW rs, NEW m \in Latch(l, nib, rs)
  PROVE  m = [l EXCEPT !.pending = nib]
BY DEF Latch

LEMMA LatchSecond ==
  ASSUME NEW l \in Lcds, l.mode4, l.pending # NoNibble, NEW nib \in 0 .. 15, NEW rs \in {0, 1},
         NEW m \in Latch(l, nib, rs)
  PROVE  /\ l.pending * 16 + nib \in 0 .. 255
         /\ [l EXCEPT !.pending = NoNibble] \in Lcds
         /\ m = Execute([l EXCEPT !.pending = NoNibble], rs, l.pending * 16 + nib)
<1>1. m = Execute([l EXCEPT !.pending = NoNibble], rs, l.pending * 16 + nib)
  BY DEF Latch
<1>2. l.pending \in 0 .. 15
  BY DEF Lcds, NoNibble
<1>3. [l EXCEPT !.pending = NoNibble] \in Lcds
  BY DEF Lcds, NoNibble
<1> QED BY <1>1, <1>2, <1>3

\* Whatever the mode, the edge leads to a state of the controller.
LEMMA LatchType ==
  ASSUME NEW l \in Lcds, NEW nib \in 0 .. 15, NEW rs \in {0, 1}
  PROVE  Latch(l, nib, rs) \subseteq Lcds
<1> SUFFICES ASSUME NEW m \in Latch(l, nib, rs) PROVE m \in Lcds
  OBVIOUS
<1>1. CASE ~l.mode4
  <2>1. PICK low \in 0 .. 15 :
          /\ nib * 16 + low \in 0 .. 255
          /\ m = [Execute(l, rs, nib * 16 + low) EXCEPT !.pending = NoNibble]
    BY <1>1 DEF Latch
  <2> DEFINE e == Execute(l, rs, nib * 16 + low)
  <2>2. e \in Lcds
    BY <2>1, ExecuteType
  <2> HIDE DEF e
  <2>3. [e EXCEPT !.pending = NoNibble] \in Lcds
    BY <2>2 DEF Lcds, NoNibble
  <2> QED BY <2>1, <2>3 DEF e
<1>2. CASE l.mode4 /\ l.pending = NoNibble
  <2>1. m = [l EXCEPT !.pending = nib]
    BY <1>2, LatchFirst
  <2> QED BY <2>1 DEF Lcds, NoNibble
<1>3. CASE l.mode4 /\ l.pending # NoNibble
  <2> DEFINE c == [l EXCEPT !.pending = NoNibble]
              v == l.pending * 16 + nib
  <2>1. c \in Lcds /\ v \in 0 .. 255 /\ m = Execute(c, rs, v)
    BY <1>3, LatchSecond, Zenon
  <2> HIDE DEF c, v
  <2> QED BY <2>1, ExecuteType, Zenon
<1> QED BY <1>1, <1>2, <1>3

-----------------------------------------------------------------------------
(***************************************************************************)
(* What a falling edge does to the mode.                                   *)
(***************************************************************************)
\* Only the function set changes the width, by its bit 4.
LEMMA InstructionMode ==
  ASSUME NEW l \in Lcds, NEW v \in 0 .. 255
  PROVE  /\ v \in 32 .. 47 => Instruction(l, v).mode4
         /\ v \in 48 .. 63 => ~Instruction(l, v).mode4
         /\ v \notin 32 .. 63 => (Instruction(l, v).mode4 <=> l.mode4)
<1>1. ASSUME v \in 32 .. 63 PROVE Instruction(l, v).mode4 <=> ~Bit(v, 16)
  <2>1. Instruction(l, v).mode4 = ~Bit(v, 16)
    BY <1>1 DEF Instruction, Lcds, Bit
  <2> QED BY <2>1 DEF Bit
<1>2. ASSUME v \notin 32 .. 63 PROVE Instruction(l, v).mode4 <=> l.mode4
  BY <1>2 DEF Instruction, Lcds
<1> QED BY <1>1, <1>2 DEF Bit

\* The mode as one number: the pending half of an instruction, NoNibble, or
\* EightBit; and where a nibble of a ladder takes it.
EightBit == 17
Mode(l) == IF l.mode4 THEN l.pending ELSE EightBit
NextMode(m, nibble) ==
  IF m = EightBit THEN (IF nibble = 2 THEN NoNibble ELSE EightBit)
  ELSE IF m = NoNibble THEN nibble
  ELSE IF m = 3 THEN EightBit ELSE NoNibble

\* An edge with a nibble of a ladder on the lines moves the mode as NextMode says.
LEMMA LatchMode ==
  ASSUME NEW l \in Lcds, NEW nib \in {0, 2, 3}, NEW m \in Latch(l, nib, 0)
  PROVE  Mode(m) = NextMode(Mode(l), nib)
<1>1. CASE ~l.mode4
  <2>1. PICK low \in 0 .. 15 : m = [Execute(l, 0, nib * 16 + low) EXCEPT !.pending = NoNibble]
    BY <1>1 DEF Latch
  <2> DEFINE v == nib * 16 + low
             e == Instruction(l, v)
  <2>2. v \in 0 .. 255 /\ (nib = 2 => v \in 32 .. 47) /\ (nib = 3 => v \in 48 .. 63)
        /\ (nib = 0 => v \notin 32 .. 63)
    OBVIOUS
  <2>3. m = [e EXCEPT !.pending = NoNibble]
    BY <2>1 DEF Execute
  <2> HIDE DEF v
  <2>4. e \in Lcds /\ (nib = 2 => e.mode4) /\ (nib # 2 => ~e.mode4)
    <3>1. e \in Lcds
      BY <2>2, InstructionType
    <3>2. /\ v \in 32 .. 47 => e.mode4
          /\ v \in 48 .. 63 => ~e.mode4
          /\ v \notin 32 .. 63 => ~e.mode4
      BY <1>1, <2>2, InstructionMode
    <3> QED BY <2>2, <3>1, <3>2
  <2> HIDE DEF e
  <2>5. (nib = 2 => m.mode4) /\ (nib # 2 => ~m.mode4) /\ m.pending = NoNibble
    BY <2>3, <2>4 DEF Lcds
  <2> QED BY <1>1, <2>5 DEF Mode, NextMode, EightBit, NoNibble
<1>2. CASE l.mode4 /\ l.pending = NoNibble
  <2>1. m.mode4 /\ m.pending = nib
    BY <1>2, LatchFirst DEF Lcds
  <2> QED BY <1>2, <2>1 DEF Mode, NextMode, EightBit, NoNibble
<1>3. CASE l.mode4 /\ l.pending # NoNibble
  <2> DEFINE c == [l EXCEPT !.pending = NoNibble]
             v == l.pending * 16 + nib
  <2>1. v \in 0 .. 255 /\ c \in Lcds /\ m = Execute(c, 0, v)
    <3>1. nib \in 0 .. 15 /\ 0 \in {0, 1}
      OBVIOUS
    <3> QED BY <1>3, <3>1, LatchSecond, Zenon
  <2>2. /\ l.pending \in 0 .. 15
        /\ l.pending = 3 => v \in 48 .. 63
        /\ l.pending = 2 => v \in 32 .. 47
        /\ l.pending \notin {2, 3} => v \notin 32 .. 63
    BY <1>3 DEF Lcds, NoNibble
  <2>3. c.mode4 /\ c.pending = NoNibble
    BY <1>3 DEF Lcds
  <2> HIDE DEF c, v
  <2>4. m.pending = NoNibble /\ (l.pending # 3 => m.mode4) /\ (l.pending = 3 => ~m.mode4)
    <3>1. m = Instruction(c, v)
      BY <2>1 DEF Execute
    <3>2. m.pending = NoNibble
      BY <2>1, <2>3, <3>1, InstructionType, Zenon
    <3>3. /\ v \in 32 .. 47 => m.mode4
          /\ v \in 48 .. 63 => ~m.mode4
          /\ v \notin 32 .. 63 => m.mode4
      BY <2>1, <2>3, <3>1, InstructionMode
    <3> QED BY <2>2, <3>2, <3>3
  <2> QED BY <1>3, <2>2, <2>4 DEF Mode, NextMode, EightBit, NoNibble
<1> QED BY <1>1, <1>2, <1>3

-----------------------------------------------------------------------------
(***************************************************************************)
(* The bytes of a program.                                                 *)
(***************************************************************************)
\* What a call may be.
CallSet == [rs : {0, 1}, v : 0 .. 255]

\* What the assumption on the two lines says of their characters.
LEMMA LineLengths ==
  /\ Len(Line1) \in 0 .. 40 /\ Len(Line2) \in 0 .. 40
  /\ \A i \in 1 .. Len(Line1) : Line1[i] \in 0 .. 255
  /\ \A i \in 1 .. Len(Line2) : Line2[i] \in 0 .. 255
<1>1. Line1 \in Seq(0 .. 255) /\ Line2 \in Seq(0 .. 255)
  BY LinesAssumption
<1>2. Len(Line1) \in Nat /\ Len(Line2) \in Nat
  BY <1>1
<1>3. Len(Line1) <= 40 /\ Len(Line2) <= 40
  BY LinesAssumption
<1>4. /\ \A i \in 1 .. Len(Line1) : Line1[i] \in 0 .. 255
      /\ \A i \in 1 .. Len(Line2) : Line2[i] \in 0 .. 255
  BY <1>1, ElementOfSeq
<1>5. Len(Line1) \in 0 .. 40 /\ Len(Line2) \in 0 .. 40
  <2>1. \A n \in Nat : n <= 40 => n \in 0 .. 40
    OBVIOUS
  <2> QED BY <1>2, <1>3, <2>1, Zenon
<1> QED BY <1>4, <1>5, Zenon

\* The six writes of a call.
LEMMA CallBytesAt ==
  ASSUME NEW p \in Programs, NEW call \in CallSet, NEW j \in 1 .. 6
  PROVE  CallBytes(p, call)[j] = Byte(IF j <= 3 THEN call.v \div 16 ELSE call.v % 16, call.rs,
                                      IF j \in {2, 5} THEN 1 ELSE 0)
<1>1. CASE p = "c"
  BY <1>1 DEF CallBytes, Write4Bits, FourBits
<1>2. CASE p = "python"
  BY <1>2 DEF CallBytes, LcdWrite, FourBits
<1> QED BY <1>1, <1>2 DEF Programs

\* A program's ladder: the nibbles it clocks in, and the writes each takes.
Nibbles(p) == IF p = "c" THEN <<3, 3, 3, 2>> ELSE <<0, 3, 0, 3, 0, 3, 0, 2>>
Width(p) == IF p = "c" THEN 2 ELSE 3
PortBytes == [nib : 0 .. 15, rs : {0, 1}, en : {0, 1}]

\* The C driver's ladder, write by write, and the Python driver's.
LEMMA ResetFunctionAt ==
  /\ ResetFunction \in Seq(PortBytes) /\ Len(ResetFunction) = 8
  /\ \A i \in 1 .. 8 :
       ResetFunction[i] = Byte(Nibbles("c")[((i - 1) \div Width("c")) + 1], 0,
                               IF i % Width("c") = Width("c") - 1 THEN 1 ELSE 0)
BY DEF Width, ResetFunction, Strobe, Byte, PortBytes, Nibbles

LEMMA PythonLadderAt ==
  /\ PythonLadder \in Seq(PortBytes) /\ Len(PythonLadder) = 24
  /\ \A i \in 1 .. 24 :
       PythonLadder[i] = Byte(Nibbles("python")[((i - 1) \div Width("python")) + 1], 0,
                              IF i % Width("python") = Width("python") - 1 THEN 1 ELSE 0)
<1>1. PythonLadder \in Seq(PortBytes)
  BY DEF PythonLadder, LcdWrite, FourBits, Byte, PortBytes
<1>2. /\ Len(PythonLadder) = 24
      /\ \A i \in 1 .. 24 :
           PythonLadder[i] = Byte(Nibbles("python")[((i - 1) \div Width("python")) + 1], 0,
                              IF i % Width("python") = Width("python") - 1 THEN 1 ELSE 0)
  BY DEF PythonLadder, LcdWrite, FourBits, Byte, Nibbles, Width
<1> QED BY <1>1, <1>2

\* Both ladders at once: EN is high in the last write but one of each nibble.
LEMMA LadderAt ==
  ASSUME NEW p \in Programs
  PROVE  /\ Ladder(p) \in Seq(PortBytes)
         /\ Len(Ladder(p)) = IF p = "c" THEN 8 ELSE 24
         /\ \A i \in 1 .. Len(Ladder(p)) :
              Ladder(p)[i] = Byte(Nibbles(p)[((i - 1) \div Width(p)) + 1], 0,
                                  IF i % Width(p) = Width(p) - 1 THEN 1 ELSE 0)
<1>1. CASE p = "c"
  <2>1. Ladder("c") = ResetFunction
    BY DEF Ladder
  <2> QED BY <1>1, <2>1, ResetFunctionAt, Zenon
<1>2. CASE p = "python"
  <2>1. Ladder("python") = PythonLadder /\ "python" # "c"
    BY DEF Ladder
  <2> QED BY <1>2, <2>1, PythonLadderAt, Zenon
<1> QED BY <1>1, <1>2 DEF Programs

\* The calls, in the order they are made: the opening commands, the first
\* line, the address of the second row and the second line.
Opening(p) == IF p = "c" THEN <<40, 12, 6, 20, 1, 2, 128>> ELSE <<40, 12, 1, 6, 128>>

\* The calls of a text are its characters.
LEMMA CharsAt ==
  ASSUME NEW text \in Seq(0 .. 255)
  PROVE  /\ Chars(text) \in Seq(CallSet) /\ Len(Chars(text)) = Len(text)
         /\ \A i \in 1 .. Len(text) : Chars(text)[i] = [rs |-> 1, v |-> text[i]]
<1>1. DOMAIN text = 1 .. Len(text) /\ Len(text) \in Nat
  BY LenProperties
<1>2. \A i \in 1 .. Len(text) : text[i] \in 0 .. 255
  BY ElementOfSeq
<1>3. Chars(text) = [i \in 1 .. Len(text) |-> [rs |-> 1, v |-> text[i]]]
  BY <1>1 DEF Chars
<1>4. Chars(text) \in [1 .. Len(text) -> CallSet]
  BY <1>2, <1>3 DEF CallSet
<1> QED BY <1>1, <1>3, <1>4, SeqDef, LenProperties

\* Two sequences one after the other.
LEMMA JoinedLen ==
  ASSUME NEW S, NEW s \in Seq(S), NEW t \in Seq(S)
  PROVE  Len(s \o t) = Len(s) + Len(t)
OBVIOUS

LEMMA JoinedIn ==
  ASSUME NEW S, NEW s \in Seq(S), NEW t \in Seq(S)
  PROVE  s \o t \in Seq(S)
OBVIOUS

LEMMA JoinedLeft ==
  ASSUME NEW S, NEW s \in Seq(S), NEW t \in Seq(S)
  PROVE  \A i \in 1 .. Len(s) : (s \o t)[i] = s[i]
OBVIOUS

LEMMA JoinedRight ==
  ASSUME NEW S, NEW s \in Seq(S), NEW t \in Seq(S)
  PROVE  \A i \in 1 .. Len(t) : (s \o t)[Len(s) + i] = t[i]
OBVIOUS

\* The list of calls, part by part.
LEMMA CallsAt ==
  ASSUME NEW p \in Programs
  PROVE  /\ Calls(p) \in Seq(CallSet)
         /\ Len(Calls(p)) = Len(Opening(p)) + 1 + Len(Line1) + Len(Line2)
         /\ \A i \in 1 .. Len(Opening(p)) : Calls(p)[i] = Cmd(Opening(p)[i])
         /\ \A i \in 1 .. Len(Line1) : Calls(p)[Len(Opening(p)) + i] = [rs |-> 1, v |-> Line1[i]]
         /\ Calls(p)[Len(Opening(p)) + 1 + Len(Line1)] = Cmd(192)
         /\ \A i \in 1 .. Len(Line2) :
              Calls(p)[Len(Opening(p)) + 1 + Len(Line1) + i] = [rs |-> 1, v |-> Line2[i]]
<1> DEFINE one == Chars(Line1)
           two == Chars(Line2)
           row == <<Cmd(192)>>
           h == Len(Opening(p))
           n1 == Len(Line1)
           n2 == Len(Line2)
<1>1. row \in Seq(CallSet) /\ Len(row) = 1 /\ row[1] = Cmd(192)
  BY DEF Cmd, CallSet
<1>2. /\ one \in Seq(CallSet) /\ Len(one) = n1
      /\ \A i \in 1 .. n1 : one[i] = [rs |-> 1, v |-> Line1[i]]
      /\ two \in Seq(CallSet) /\ Len(two) = n2
      /\ \A i \in 1 .. n2 : two[i] = [rs |-> 1, v |-> Line2[i]]
  BY LinesAssumption, CharsAt
<1>3. n1 \in Nat /\ n2 \in Nat
  BY LineLengths
<1>4. \E head \in Seq(CallSet) :
        /\ Len(head) = h /\ h \in Nat
        /\ \A i \in 1 .. h : head[i] = Cmd(Opening(p)[i])
        /\ Calls(p) = head \o one \o row \o two
  <2>1. CASE p = "c"
    <3> DEFINE head == <<Cmd(40), Cmd(12), Cmd(6), Cmd(20), Cmd(1), Cmd(2), SetCursor(0, 0)>>
    <3>1. SetCursor(0, 0) = Cmd(128) /\ SetCursor(0, 1) = Cmd(192)
      BY DEF SetCursor, COLUMNS
    <3>2. /\ head \in Seq(CallSet) /\ Len(head) = h /\ h \in Nat
          /\ \A i \in 1 .. h : head[i] = Cmd(Opening(p)[i])
      BY <2>1, <3>1 DEF Opening, Cmd, CallSet
    <3>3. Calls(p) = head \o one \o row \o two
      BY <2>1, <3>1 DEF Calls, MainCalls
    <3> HIDE DEF head
    <3> QED BY <3>2, <3>3
  <2>2. CASE p = "python"
    <3> DEFINE four == <<Cmd(40), Cmd(12), Cmd(1), Cmd(6)>>
               first == <<Cmd(128)>>
               head == four \o first
    <3>1. four \in Seq(CallSet) /\ first \in Seq(CallSet)
      BY DEF Cmd, CallSet
    <3>2. /\ head \in Seq(CallSet) /\ Len(head) = h /\ h \in Nat
          /\ \A i \in 1 .. h : head[i] = Cmd(Opening(p)[i])
      BY <2>2 DEF Opening, Cmd, CallSet
    <3>3. Calls(p) = four \o (first \o one) \o (row \o two)
      BY <2>2 DEF Calls, PythonCalls, DisplayString
    <3> HIDE DEF four, first, one, two, row, h, n1, n2
    <3>4. \A u, v, w \in Seq(CallSet) : u \o (v \o w) = (u \o v) \o w
      BY ConcatAssociative
    <3>5. four \o (first \o one) = head \o one
      BY <1>2, <3>1, <3>4, Zenon DEF head
    <3>6. head \o one \in Seq(CallSet)
      BY <1>2, <3>2
    <3>7. (head \o one) \o (row \o two) = ((head \o one) \o row) \o two
      BY <1>1, <1>2, <3>4, <3>6, Zenon
    <3>8. Calls(p) = head \o one \o row \o two
      BY <3>3, <3>5, <3>7
    <3> HIDE DEF head
    <3> QED BY <3>2, <3>8
  <2> QED BY <2>1, <2>2 DEF Programs
<1> DEFINE calls == Calls(p)
<1>5. PICK head \in Seq(CallSet) :
        /\ Len(head) = h /\ h \in Nat
        /\ \A i \in 1 .. h : head[i] = Cmd(Opening(p)[i])
        /\ calls = head \o one \o row \o two
  BY <1>4
<1> HIDE DEF one, two, row, h, n1, n2, calls
<1> DEFINE a == head \o one
           b == a \o row
           c == b \o two
<1>18. head \in Seq(CallSet) /\ one \in Seq(CallSet) /\ row \in Seq(CallSet) /\ two \in Seq(CallSet)
  BY <1>1, <1>2, <1>5
<1>6. /\ a \in Seq(CallSet)
      /\ Len(a) = Len(head) + Len(one)
      /\ \A i \in 1 .. Len(head) : a[i] = head[i]
      /\ \A i \in 1 .. Len(one) : a[Len(head) + i] = one[i]
  <2>1. head \in Seq(CallSet) /\ one \in Seq(CallSet)
    BY <1>18
  <2>2. a \in Seq(CallSet)
    BY <2>1, JoinedIn, Zenon
  <2>3. Len(a) = Len(head) + Len(one)
    BY <2>1, JoinedLen, Zenon
  <2>4. \A i \in 1 .. Len(head) : a[i] = head[i]
    BY <2>1, JoinedLeft, Zenon
  <2>5. \A i \in 1 .. Len(one) : a[Len(head) + i] = one[i]
    BY <2>1, JoinedRight, Zenon
  <2> QED BY <2>2, <2>3, <2>4, <2>5, Zenon
<1> HIDE DEF a
<1>7. /\ b \in Seq(CallSet)
      /\ Len(b) = Len(a) + Len(row)
      /\ \A i \in 1 .. Len(a) : b[i] = a[i]
      /\ \A i \in 1 .. Len(row) : b[Len(a) + i] = row[i]
  <2>1. a \in Seq(CallSet) /\ row \in Seq(CallSet)
    BY <1>18, <1>6
  <2>2. b \in Seq(CallSet)
    BY <2>1, JoinedIn, Zenon
  <2>3. Len(b) = Len(a) + Len(row)
    BY <2>1, JoinedLen, Zenon
  <2>4. \A i \in 1 .. Len(a) : b[i] = a[i]
    BY <2>1, JoinedLeft, Zenon
  <2>5. \A i \in 1 .. Len(row) : b[Len(a) + i] = row[i]
    BY <2>1, JoinedRight, Zenon
  <2> QED BY <2>2, <2>3, <2>4, <2>5, Zenon
<1> HIDE DEF b
<1>8. /\ c \in Seq(CallSet)
      /\ Len(c) = Len(b) + Len(two)
      /\ \A i \in 1 .. Len(b) : c[i] = b[i]
      /\ \A i \in 1 .. Len(two) : c[Len(b) + i] = two[i]
  <2>1. b \in Seq(CallSet) /\ two \in Seq(CallSet)
    BY <1>18, <1>7
  <2>2. c \in Seq(CallSet)
    BY <2>1, JoinedIn, Zenon
  <2>3. Len(c) = Len(b) + Len(two)
    BY <2>1, JoinedLen, Zenon
  <2>4. \A i \in 1 .. Len(b) : c[i] = b[i]
    BY <2>1, JoinedLeft, Zenon
  <2>5. \A i \in 1 .. Len(two) : c[Len(b) + i] = two[i]
    BY <2>1, JoinedRight, Zenon
  <2> QED BY <2>2, <2>3, <2>4, <2>5, Zenon
<1> HIDE DEF c
<1>19. /\ h \in Nat /\ n1 \in Nat /\ n2 \in Nat
       /\ Len(head) = h /\ Len(one) = n1 /\ Len(row) = 1 /\ Len(two) = n2
  BY <1>1, <1>2, <1>3, <1>5
<1>9. Len(a) = h + n1 /\ Len(b) = h + 1 + n1 /\ Len(c) = h + 1 + n1 + n2
  BY <1>6, <1>7, <1>8, <1>19
<1>10. \A i \in 1 .. h : c[i] = head[i]
  BY <1>6, <1>7, <1>8, <1>9, <1>19
<1>11. \A i \in 1 .. n1 : c[h + i] = one[i]
  <2>1. \A i \in 1 .. n1 : h + i \in 1 .. h + n1 /\ h + i \in 1 .. h + 1 + n1
    BY <1>19
  <2> QED BY <1>6, <1>7, <1>8, <1>9, <1>19, <2>1
<1>12. c[h + 1 + n1] = row[1]
  <2>1. b[h + n1 + 1] = row[1]
    BY <1>7, <1>9, <1>19
  <2>2. h + n1 + 1 = h + 1 + n1 /\ h + 1 + n1 \in 1 .. h + 1 + n1
    BY <1>19
  <2> QED BY <1>8, <1>9, <2>1, <2>2
<1>13. \A i \in 1 .. n2 : c[h + 1 + n1 + i] = two[i]
  BY <1>8, <1>9, <1>19
<1>14. calls = c
  BY <1>5 DEF a, b, c
<1>15. \A i \in 1 .. h : calls[i] = Cmd(Opening(p)[i])
  BY <1>5, <1>10, <1>14
<1>16. \A i \in 1 .. n1 : calls[h + i] = [rs |-> 1, v |-> Line1[i]]
  BY <1>2, <1>11, <1>14
<1>17. \A i \in 1 .. n2 : calls[h + 1 + n1 + i] = [rs |-> 1, v |-> Line2[i]]
  BY <1>2, <1>13, <1>14
<1> QED BY <1>1, <1>8, <1>9, <1>12, <1>14, <1>15, <1>16, <1>17, Zenon DEF h, n1, n2, calls

\* Every call has a register and a byte.
LEMMA CallsType ==
  ASSUME NEW p \in Programs
  PROVE  /\ Len(Calls(p)) \in Nat
         /\ \A k \in 1 .. Len(Calls(p)) : Calls(p)[k] \in CallSet
<1>1. Calls(p) \in Seq(CallSet)
  BY CallsAt
<1> QED BY <1>1, ElementOfSeq

\* A byte and its two halves.
LEMMA HalfBytes ==
  ASSUME NEW v \in 0 .. 255
  PROVE  v \div 16 \in 0 .. 15 /\ v % 16 \in 0 .. 15 /\ (v \div 16) * 16 + (v % 16) = v
<1> DEFINE q == v \div 16
           r == v % 16
<1>1. q \in Int /\ 16 * q <= v /\ v < 16 * q + 16 /\ r = v - 16 * q
  OBVIOUS
<1> HIDE DEF q, r
<1>2. q \in 0 .. 15 /\ r \in 0 .. 15 /\ q * 16 + r = v
  BY <1>1
<1> QED BY <1>2, Zenon DEF q, r

\* The bytes of a program: its ladder, then six for each call.
LEMMA BytesAt ==
  ASSUME NEW p \in Programs
  PROVE  /\ Len(Bytes(p)) = Len(Ladder(p)) + 6 * Len(Calls(p))
         /\ \A i \in 1 .. Len(Ladder(p)) : Bytes(p)[i] = Ladder(p)[i]
         /\ \A d \in 0 .. 6 * Len(Calls(p)) - 1 :
              Bytes(p)[Len(Ladder(p)) + 1 + d]
                = CallBytes(p, Calls(p)[d \div 6 + 1])[(d % 6) + 1]
<1> DEFINE n == 6 * Len(Calls(p))
           f(i) == CallBytes(p, Calls(p)[(i - 1) \div 6 + 1])[((i - 1) % 6) + 1]
           tail == [i \in 1 .. n |-> f(i)]
           ladder == Ladder(p)
<1>1. n \in Nat
  BY CallsType
<1>2. Bytes(p) = ladder \o tail
  BY DEF Bytes, CBytes, PythonBytes, BytesOf, Programs
<1>3. ladder \in Seq(PortBytes)
  BY LadderAt
<1>4. ASSUME NEW i \in 1 .. n PROVE f(i) \in PortBytes
  <2> DEFINE k == (i - 1) \div 6 + 1
             j == ((i - 1) % 6) + 1
             call == Calls(p)[k]
  <2>1. k \in 1 .. Len(Calls(p)) /\ j \in 1 .. 6
    BY CallsType
  <2> HIDE DEF k, j
  <2>2. call \in CallSet
    BY <2>1, CallsType
  <2> HIDE DEF call
  <2>3. CallBytes(p, call)[j]
          = Byte(IF j <= 3 THEN call.v \div 16 ELSE call.v % 16, call.rs, IF j \in {2, 5} THEN 1 ELSE 0)
    BY <2>1, <2>2, CallBytesAt
  <2>4. call.v \div 16 \in 0 .. 15 /\ call.v % 16 \in 0 .. 15 /\ call.rs \in {0, 1}
    <3>1. call.v \in 0 .. 255 /\ call.rs \in {0, 1}
      BY <2>2, Zenon DEF CallSet
    <3> QED BY <3>1, HalfBytes, Zenon
  <2>5. CallBytes(p, call)[j] \in PortBytes
    BY <2>3, <2>4 DEF Byte, PortBytes
  <2> QED BY <2>5 DEF k, j, call
<1> HIDE DEF f
<1>5. tail \in [1 .. n -> PortBytes]
  BY <1>4
<1>6. tail \in Seq(PortBytes) /\ Len(tail) = n
  <2>1. tail \in Seq(PortBytes)
    BY <1>1, <1>5, SeqDef
  <2> QED BY <1>1, <2>1, <1>5, LenProperties
<1>7. \A d \in 0 .. n - 1 : tail[1 + d] = f(1 + d)
  BY <1>1
<1> HIDE DEF n, tail, ladder
<1>8. /\ Len(ladder \o tail) = Len(ladder) + Len(tail)
      /\ \A i \in 1 .. Len(ladder) : (ladder \o tail)[i] = ladder[i]
      /\ \A i \in 1 .. Len(tail) : (ladder \o tail)[Len(ladder) + i] = tail[i]
  <2>1. Len(ladder \o tail) = Len(ladder) + Len(tail)
    BY <1>3, <1>6, JoinedLen, Zenon
  <2>2. \A i \in 1 .. Len(ladder) : (ladder \o tail)[i] = ladder[i]
    BY <1>3, <1>6, JoinedLeft, Zenon
  <2>3. \A i \in 1 .. Len(tail) : (ladder \o tail)[Len(ladder) + i] = tail[i]
    BY <1>3, <1>6, JoinedRight, Zenon
  <2> QED BY <2>1, <2>2, <2>3, Zenon
<1>9. Len(ladder) \in Nat
  BY <1>3, LenProperties
<1>10. ASSUME NEW d \in 0 .. n - 1
       PROVE  Bytes(p)[Len(ladder) + 1 + d] = f(1 + d)
  <2>1. 1 + d \in 1 .. Len(tail)
    BY <1>1, <1>6
  <2>2. Len(ladder) + 1 + d = Len(ladder) + (1 + d)
    BY <1>1, <1>9
  <2>3. (ladder \o tail)[Len(ladder) + (1 + d)] = tail[1 + d]
    BY <1>8, <2>1, Zenon
  <2> QED BY <1>2, <1>7, <2>2, <2>3, Zenon
<1>11. ASSUME NEW d \in 0 .. n - 1
       PROVE  f(1 + d) = CallBytes(p, Calls(p)[d \div 6 + 1])[(d % 6) + 1]
  <2>1. (1 + d) - 1 = d
    BY <1>1
  <2> QED BY <2>1, Zenon DEF f
<1>12. \A d \in 0 .. n - 1 :
         Bytes(p)[Len(ladder) + 1 + d] = CallBytes(p, Calls(p)[d \div 6 + 1])[(d % 6) + 1]
  BY <1>10, <1>11, Zenon
<1>13. Len(Bytes(p)) = Len(ladder) + n
  BY <1>2, <1>6, <1>8, Zenon
<1> QED BY <1>2, <1>8, <1>12, <1>13, Zenon DEF n, ladder

-----------------------------------------------------------------------------
(***************************************************************************)
(* What the calls leave in the display.                                    *)
(***************************************************************************)
\* The number of opening calls, and which of them sets the entry mode and
\* which clears the display.
Prefix(p) == IF p = "c" THEN 7 ELSE 5
EntryMode(p) == IF p = "c" THEN 3 ELSE 4
Clear(p) == IF p = "c" THEN 5 ELSE 3
\* The cells, and the address counter, after m calls that follow the opening:
\* as much of the first line, then the address of the second row, then as much
\* of the second line.
Partial(m) ==
  [c \in Cells |-> IF c < 64 THEN (IF c < m /\ c < Len(Line1) THEN Line1[c + 1] ELSE Blank)
                   ELSE (IF c - 64 < m - Len(Line1) - 1 THEN Line2[c - 63] ELSE Blank)]
Address(m) == IF m <= Len(Line1) THEN (IF m = 40 THEN 64 ELSE m)
              ELSE (IF m - Len(Line1) - 1 = 40 THEN 0 ELSE 64 + m - Len(Line1) - 1)
\* What the first k calls of program p have made of the display.
Shown(p, k, l) ==
  /\ k >= 1 => l.twoLines
  /\ k >= 2 => l.on
  /\ k >= EntryMode(p) => l.inc /\ ~l.shift
  /\ k >= Clear(p) => l.ddram = Partial(k - Prefix(p))
  /\ k >= Prefix(p) => l.addr = Address(k - Prefix(p))

\* A cleared display, which is also what there is before the first character.
Blanks == [c \in Cells |-> Blank]

LEMMA PartialNone ==
  ASSUME NEW m \in Int, m <= 0
  PROVE  Partial(m) = Blanks /\ Address(0) = 0
<1>1. Len(Line1) \in 0 .. 40
  BY LineLengths
<1>2. \A c \in Cells : c \in 0 .. 127
  BY CellsAssumption
<1>3. Address(0) = 0
  BY <1>1 DEF Address
<1>4. ASSUME NEW c \in Cells
      PROVE  (IF c < 64 THEN (IF c < m /\ c < Len(Line1) THEN Line1[c + 1] ELSE Blank)
              ELSE (IF c - 64 < m - Len(Line1) - 1 THEN Line2[c - 63] ELSE Blank)) = Blank
  <2> DEFINE n == Len(Line1)
  <2>1. n \in 0 .. 40 /\ c \in 0 .. 127
    BY <1>1, <1>2
  <2> HIDE DEF n
  <2>2. ~(c < m) /\ (~(c < 64) => ~(c - 64 < m - n - 1))
    BY <2>1
  <2> QED BY <2>2, Zenon DEF n
<1> QED BY <1>3, <1>4 DEF Partial, Blanks

\* The commands the programs use.
LEMMA FunctionSet ==
  ASSUME NEW l \in Lcds
  PROVE  LET r == Instruction(l, 40)
         IN /\ r.mode4 /\ r.twoLines
            /\ r.on <=> l.on
            /\ r.inc <=> l.inc
            /\ r.shift <=> l.shift
            /\ r.ddram = l.ddram /\ r.addr = l.addr
<1>1. Instruction(l, 40) = [l EXCEPT !.mode4 = ~Bit(40, 16), !.twoLines = Bit(40, 8)]
  BY DEF Instruction
<1>2. ~Bit(40, 16) /\ Bit(40, 8)
  BY DEF Bit
<1> QED BY <1>1, <1>2 DEF Lcds

LEMMA DisplayOn ==
  ASSUME NEW l \in Lcds
  PROVE  LET r == Instruction(l, 12)
         IN /\ r.mode4 <=> l.mode4
            /\ r.twoLines <=> l.twoLines
            /\ r.on
            /\ r.inc <=> l.inc
            /\ r.shift <=> l.shift
            /\ r.ddram = l.ddram /\ r.addr = l.addr
<1>1. Instruction(l, 12) = [l EXCEPT !.on = Bit(12, 4)]
  BY DEF Instruction
<1>2. Bit(12, 4)
  BY DEF Bit
<1> QED BY <1>1, <1>2 DEF Lcds

LEMMA EntryModeSet ==
  ASSUME NEW l \in Lcds
  PROVE  LET r == Instruction(l, 6)
         IN /\ r.mode4 <=> l.mode4
            /\ r.twoLines <=> l.twoLines
            /\ r.on <=> l.on
            /\ r.inc /\ ~r.shift
            /\ r.ddram = l.ddram /\ r.addr = l.addr
<1>1. Instruction(l, 6) = [l EXCEPT !.inc = Bit(6, 2), !.shift = Bit(6, 1)]
  BY DEF Instruction
<1>2. Bit(6, 2) /\ ~Bit(6, 1)
  BY DEF Bit
<1> QED BY <1>1, <1>2 DEF Lcds

LEMMA CursorShift ==
  ASSUME NEW l \in Lcds
  PROVE  LET r == Instruction(l, 20)
         IN /\ r.mode4 <=> l.mode4
            /\ r.twoLines <=> l.twoLines
            /\ r.on <=> l.on
            /\ r.inc <=> l.inc
            /\ r.shift <=> l.shift
            /\ r.ddram = l.ddram
<1>1. Instruction(l, 20) = [l EXCEPT !.addr = NextAddr(@, Bit(20, 4))]
  BY DEF Instruction
<1> DEFINE a == NextAddr(l.addr, Bit(20, 4))
<1>2. Instruction(l, 20) = [l EXCEPT !.addr = a]
  BY <1>1
<1> HIDE DEF a
<1> QED BY <1>2 DEF Lcds

LEMMA ClearAndHome ==
  ASSUME NEW l \in Lcds
  PROVE  LET r == Instruction(l, 1)
         IN /\ r.mode4 <=> l.mode4
            /\ r.twoLines <=> l.twoLines
            /\ r.on <=> l.on
            /\ r.inc
            /\ r.shift <=> l.shift
            /\ r.ddram = Blanks /\ r.addr = 0
<1>1. Instruction(l, 1) = [l EXCEPT !.addr = 0, !.inc = TRUE, !.ddram = Blanks]
  BY DEF Instruction, Blanks
<1> QED BY <1>1 DEF Lcds

LEMMA SetAddress ==
  ASSUME NEW l \in Lcds, NEW v \in {2, 128, 192}
  PROVE  LET r == Instruction(l, v)
         IN /\ r.mode4 <=> l.mode4
            /\ r.twoLines <=> l.twoLines
            /\ r.on <=> l.on
            /\ r.inc <=> l.inc
            /\ r.shift <=> l.shift
            /\ r.ddram = l.ddram
            /\ r.addr = IF v = 192 THEN 64 ELSE 0
<1>1. Instruction(l, v) = [l EXCEPT !.addr = IF v = 192 THEN 64 ELSE 0]
  BY DEF Instruction
<1> QED BY <1>1 DEF Lcds

LEMMA WriteCharacter ==
  ASSUME NEW l \in Lcds, NEW v \in 0 .. 255
  PROVE  LET r == Character(l, v)
         IN /\ r.mode4 <=> l.mode4
            /\ r.twoLines <=> l.twoLines
            /\ r.on <=> l.on
            /\ r.inc <=> l.inc
            /\ r.shift <=> l.shift
            /\ r.ddram = [c \in Cells |-> IF c = l.addr THEN v ELSE l.ddram[c]]
            /\ r.addr = NextAddr(l.addr, l.inc)
<1> DEFINE a == NextAddr(l.addr, l.inc)
           d == [c \in Cells |-> IF c = l.addr THEN v ELSE l.ddram[c]]
<1>1. Character(l, v) = [l EXCEPT !.addr = a, !.ddram = d]
  BY DEF Character
<1> HIDE DEF a, d
<1>2. /\ Character(l, v).mode4 <=> l.mode4
      /\ Character(l, v).twoLines <=> l.twoLines
      /\ Character(l, v).on <=> l.on
      /\ Character(l, v).inc <=> l.inc
      /\ Character(l, v).shift <=> l.shift
      /\ Character(l, v).ddram = d
      /\ Character(l, v).addr = a
  BY <1>1 DEF Lcds
<1> QED BY <1>2 DEF a, d

\* The opening commands together: each settles what it is about and leaves the
\* rest as it was.
OpeningCommands == {40, 12, 6, 20, 1, 2, 128}

LEMMA CommandEffect ==
  ASSUME NEW l \in Lcds, NEW v \in OpeningCommands
  PROVE  LET r == Instruction(l, v)
         IN /\ r.mode4 <=> (v = 40 \/ l.mode4)
            /\ r.twoLines <=> (v = 40 \/ l.twoLines)
            /\ r.on <=> (v = 12 \/ l.on)
            /\ r.inc <=> (v \in {1, 6} \/ l.inc)
            /\ r.shift <=> (v # 6 /\ l.shift)
            /\ r.ddram = IF v = 1 THEN Blanks ELSE l.ddram
            /\ v \in {1, 2, 128} => r.addr = 0
<1>1. CASE v = 40
  BY <1>1, FunctionSet
<1>2. CASE v = 12
  BY <1>2, DisplayOn
<1>3. CASE v = 6
  BY <1>3, EntryModeSet
<1>4. CASE v = 20
  BY <1>4, CursorShift
<1>5. CASE v = 1
  BY <1>5, ClearAndHome
<1>6. CASE v \in {2, 128}
  BY <1>6, SetAddress
<1> QED BY <1>1, <1>2, <1>3, <1>4, <1>5, <1>6 DEF OpeningCommands

\* An opening command takes the display one call further.
LEMMA OpeningStep ==
  ASSUME NEW p \in Programs, NEW k \in 0 .. Prefix(p) - 1, NEW l \in Lcds, l.mode4, Shown(p, k, l)
  PROVE  LET r == Instruction(l, Opening(p)[k + 1])
         IN r.mode4 /\ Shown(p, k + 1, r)
<1> DEFINE v == Opening(p)[k + 1]
           r == Instruction(l, v)
           before == Partial(k - Prefix(p))
           after == Partial((k + 1) - Prefix(p))
           home == Address((k + 1) - Prefix(p))
<1>1. /\ Prefix(p) \in {5, 7} /\ k \in 0 .. 6
      /\ k - Prefix(p) \in Int /\ k - Prefix(p) <= 0
      /\ (k + 1) - Prefix(p) \in Int /\ k + 1 - Prefix(p) <= 0
  BY DEF Prefix
<1>2. before = Blanks /\ after = Blanks /\ Address(0) = 0
  BY <1>1, PartialNone
<1>3. k + 1 >= Prefix(p) => home = 0
  <2>1. k + 1 >= Prefix(p) => (k + 1) - Prefix(p) = 0
    BY <1>1
  <2> QED BY <1>2, <2>1, Zenon
<1>4. v \in OpeningCommands
  BY DEF Opening, OpeningCommands, Prefix, Programs
<1>5. /\ k >= 1 => l.twoLines
      /\ k >= 2 => l.on
      /\ k >= EntryMode(p) => l.inc /\ ~l.shift
      /\ k >= Clear(p) => l.ddram = before
  BY DEF Shown
<1>6. /\ k = 0 <=> v = 40
      /\ k = 1 <=> v = 12
      /\ k + 1 = EntryMode(p) <=> v = 6
      /\ k + 1 = Clear(p) <=> v = 1
      /\ k + 1 >= Prefix(p) => v = 128
      /\ EntryMode(p) \in 1 .. 7 /\ Clear(p) \in 1 .. 7
  BY DEF Opening, Prefix, EntryMode, Clear, Programs
<1> HIDE DEF v, before, after, home
<1>7. /\ r.mode4 <=> (v = 40 \/ l.mode4)
      /\ r.twoLines <=> (v = 40 \/ l.twoLines)
      /\ r.on <=> (v = 12 \/ l.on)
      /\ r.inc <=> (v \in {1, 6} \/ l.inc)
      /\ r.shift <=> (v # 6 /\ l.shift)
      /\ r.ddram = IF v = 1 THEN Blanks ELSE l.ddram
      /\ v \in {1, 2, 128} => r.addr = 0
  BY <1>4, CommandEffect
<1> HIDE DEF r
<1>8. r.mode4
  BY <1>7
<1>9. k + 1 >= 1 => r.twoLines
  BY <1>1, <1>5, <1>6, <1>7
<1>10. k + 1 >= 2 => r.on
  BY <1>1, <1>5, <1>6, <1>7
<1>11. k + 1 >= EntryMode(p) => r.inc /\ ~r.shift
  BY <1>1, <1>5, <1>6, <1>7
<1>12. k + 1 >= Clear(p) => r.ddram = after
  BY <1>1, <1>2, <1>5, <1>6, <1>7
<1>13. k + 1 >= Prefix(p) => r.addr = home
  BY <1>1, <1>3, <1>6, <1>7
<1>14. Shown(p, k + 1, r)
  BY <1>9, <1>10, <1>11, <1>12, <1>13 DEF Shown, after, home
<1> QED BY <1>8, <1>14, Zenon DEF r, v

\* Once the opening is over, flags and address are settled.
LEMMA Opened ==
  ASSUME NEW p \in Programs, NEW m \in Nat, NEW l
  PROVE  Shown(p, Prefix(p) + m, l) <=>
           /\ l.twoLines /\ l.on /\ l.inc /\ ~l.shift
           /\ l.ddram = Partial(m) /\ l.addr = Address(m)
<1> DEFINE k == Prefix(p) + m
<1>1. k >= 1 /\ k >= 2 /\ k >= EntryMode(p) /\ k >= Clear(p) /\ k >= Prefix(p)
  BY DEF Prefix, EntryMode, Clear
<1>2. k - Prefix(p) = m
  BY DEF Prefix
<1> HIDE DEF k
<1>3. Shown(p, k, l) <=>
           /\ l.twoLines /\ l.on /\ l.inc /\ ~l.shift
           /\ l.ddram = Partial(m) /\ l.addr = Address(m)
  BY <1>1, <1>2, Zenon DEF Shown
<1> QED BY <1>3 DEF k

\* The cells after a character of a line, and after the address of the second
\* row.
LEMMA PartialAt ==
  ASSUME NEW c \in Cells, NEW m
  PROVE  /\ c < 64 /\ c < m /\ c < Len(Line1) => Partial(m)[c] = Line1[c + 1]
         /\ c < 64 /\ ~(c < m /\ c < Len(Line1)) => Partial(m)[c] = Blank
         /\ ~(c < 64) /\ c - 64 < m - Len(Line1) - 1 => Partial(m)[c] = Line2[c - 63]
         /\ ~(c < 64) /\ ~(c - 64 < m - Len(Line1) - 1) => Partial(m)[c] = Blank
BY Zenon DEF Partial

LEMMA FirstLineStep ==
  ASSUME NEW m \in 0 .. Len(Line1) - 1
  PROVE  /\ Address(m) = m
         /\ NextAddr(m, TRUE) = Address(m + 1)
         /\ [c \in Cells |-> IF c = m THEN Line1[m + 1] ELSE Partial(m)[c]] = Partial(m + 1)
<1> DEFINE n == Len(Line1)
<1>1. n \in 0 .. 40
  BY LineLengths
<1>6. m \in 0 .. n - 1
  OBVIOUS
<1>2. Address(m) = m /\ NextAddr(m, TRUE) = Address(m + 1)
  <2>1. m \in 0 .. n - 1
    OBVIOUS
  <2> HIDE DEF n
  <2>2. m \in 0 .. 39 /\ m <= n /\ m + 1 <= n
    BY <1>1, <2>1
  <2>3. Address(m) = m /\ Address(m + 1) = IF m + 1 = 40 THEN 64 ELSE m + 1
    BY <2>2 DEF Address, n
  <2> QED BY <2>2, <2>3 DEF NextAddr
<1>3. ASSUME NEW c \in Cells
      PROVE  (IF c = m THEN Line1[m + 1] ELSE Partial(m)[c]) = Partial(m + 1)[c]
  <2>1. c \in 0 .. 127
    BY CellsAssumption
  <2> HIDE DEF n
  <2>2. CASE c >= 64
    <3>1. ~(c < 64) /\ c # m /\ ~(c - 64 < m - n - 1) /\ ~(c - 64 < m + 1 - n - 1)
      BY <1>1, <1>6, <2>1, <2>2
    <3> QED BY <3>1, PartialAt DEF n
  <2>3. CASE c = m
    <3>1. c < 64 /\ c < m + 1 /\ c < n
      BY <1>1, <1>6, <2>1, <2>3
    <3> QED BY <2>3, <3>1, PartialAt DEF n
  <2>4. CASE c < 64 /\ c # m
    <3>1. c < m <=> c < m + 1
      BY <1>1, <1>6, <2>1, <2>4
    <3> QED BY <2>4, <3>1, PartialAt DEF n
  <2> QED BY <2>1, <2>2, <2>3, <2>4
<1>4. [c \in Cells |-> IF c = m THEN Line1[m + 1] ELSE Partial(m)[c]] = [c \in Cells |-> Partial(m + 1)[c]]
  BY <1>3
<1>5. [c \in Cells |-> Partial(m + 1)[c]] = Partial(m + 1)
  BY DEF Partial
<1> QED BY <1>2, <1>4, <1>5

LEMMA SecondRowStep ==
  /\ Address(Len(Line1) + 1) = 64
  /\ Partial(Len(Line1) + 1) = Partial(Len(Line1))
<1> DEFINE n == Len(Line1)
<1>1. n \in 0 .. 40
  BY LineLengths
<1>2. Address(n + 1) = 64
  BY <1>1 DEF Address
<1>3. ASSUME NEW c \in Cells
      PROVE  Partial(n + 1)[c] = Partial(n)[c]
  <2>1. c \in 0 .. 127
    BY CellsAssumption
  <2> HIDE DEF n
  <2>2. CASE c < 64
    <3>1. (c < n + 1 /\ c < n) <=> (c < n /\ c < n)
      BY <1>1, <2>1
    <3> QED BY <2>2, <3>1, PartialAt DEF n
  <2>3. CASE ~(c < 64)
    <3>1. ~(c - 64 < n + 1 - n - 1) /\ ~(c - 64 < n - n - 1)
      BY <1>1, <2>1, <2>3
    <3> QED BY <2>3, <3>1, PartialAt DEF n
  <2> QED BY <2>2, <2>3
<1> QED BY <1>2, <1>3 DEF Partial

LEMMA SecondLineStep ==
  ASSUME NEW t \in 0 .. Len(Line2) - 1
  PROVE  LET m == Len(Line1) + 1 + t
         IN /\ Address(m) = 64 + t
            /\ NextAddr(64 + t, TRUE) = Address(m + 1)
            /\ [c \in Cells |-> IF c = 64 + t THEN Line2[t + 1] ELSE Partial(m)[c]] = Partial(m + 1)
<1> DEFINE n == Len(Line1)
           m == n + 1 + t
<1>1. n \in 0 .. 40 /\ t \in 0 .. 39
  <2>1. Len(Line1) \in 0 .. 40 /\ Len(Line2) \in 0 .. 40
    BY LineLengths, Zenon
  <2> DEFINE w == Len(Line2)
  <2>2. t \in 0 .. w - 1 /\ w \in 0 .. 40
    BY <2>1
  <2> HIDE DEF w
  <2>3. t \in 0 .. 39
    BY <2>2
  <2> QED BY <2>1, <2>3
<1>2. Address(m) = 64 + t /\ NextAddr(64 + t, TRUE) = Address(m + 1)
  BY <1>1 DEF Address, NextAddr
<1>3. ASSUME NEW c \in Cells
      PROVE  (IF c = 64 + t THEN Line2[t + 1] ELSE Partial(m)[c]) = Partial(m + 1)[c]
  <2>1. c \in 0 .. 127
    BY CellsAssumption
  <2> HIDE DEF n
  <2>2. CASE c < 64
    <3>1. c # 64 + t /\ ((c < m /\ c < n) <=> (c < m + 1 /\ c < n))
      BY <1>1, <2>1, <2>2
    <3> QED BY <2>2, <3>1, PartialAt DEF n
  <2>3. CASE c = 64 + t
    <3>1. ~(c < 64) /\ c - 64 < m + 1 - n - 1 /\ c - 63 = t + 1
      BY <1>1, <2>1, <2>3
    <3> QED BY <2>3, <3>1, PartialAt DEF n
  <2>4. CASE ~(c < 64) /\ c # 64 + t
    <3>1. c - 64 < m - n - 1 <=> c - 64 < m + 1 - n - 1
      BY <1>1, <2>1, <2>4
    <3> QED BY <2>4, <3>1, PartialAt DEF n
  <2> QED BY <2>2, <2>3, <2>4
<1>4. [c \in Cells |-> IF c = 64 + t THEN Line2[t + 1] ELSE Partial(m)[c]]
        = [c \in Cells |-> Partial(m + 1)[c]]
  BY <1>3
<1>5. [c \in Cells |-> Partial(m + 1)[c]] = Partial(m + 1)
  BY DEF Partial
<1> QED BY <1>2, <1>4, <1>5

\* The opening calls are counted by Prefix.
LEMMA OpeningLength ==
  ASSUME NEW p \in Programs
  PROVE  Len(Opening(p)) = Prefix(p) /\ Prefix(p) \in {5, 7}
BY DEF Opening, Prefix, Programs

\* Every call takes the contents one step further.
LEMMA ShownStep ==
  ASSUME NEW p \in Programs, NEW k \in 0 .. Len(Calls(p)) - 1, NEW l \in Lcds, l.mode4, Shown(p, k, l)
  PROVE  LET r == Execute(l, Calls(p)[k + 1].rs, Calls(p)[k + 1].v)
         IN r.mode4 /\ Shown(p, k + 1, r)
<1> DEFINE call == Calls(p)[k + 1]
           r == Execute(l, call.rs, call.v)
           h == Prefix(p)
           n1 == Len(Line1)
           n2 == Len(Line2)
<1>1. n1 \in 0 .. 40 /\ n2 \in 0 .. 40
  BY LineLengths, Zenon
<1>2. /\ Len(Calls(p)) = h + 1 + n1 + n2
      /\ \A i \in 1 .. h : Calls(p)[i] = Cmd(Opening(p)[i])
      /\ \A i \in 1 .. n1 : Calls(p)[h + i] = [rs |-> 1, v |-> Line1[i]]
      /\ Calls(p)[h + 1 + n1] = Cmd(192)
      /\ \A i \in 1 .. n2 : Calls(p)[h + 1 + n1 + i] = [rs |-> 1, v |-> Line2[i]]
  <2> DEFINE o == Len(Opening(p))
  <2>1. o = h
    BY OpeningLength
  <2>2. /\ Len(Calls(p)) = o + 1 + n1 + n2
        /\ \A i \in 1 .. o : Calls(p)[i] = Cmd(Opening(p)[i])
        /\ \A i \in 1 .. n1 : Calls(p)[o + i] = [rs |-> 1, v |-> Line1[i]]
        /\ Calls(p)[o + 1 + n1] = Cmd(192)
        /\ \A i \in 1 .. n2 : Calls(p)[o + 1 + n1 + i] = [rs |-> 1, v |-> Line2[i]]
    BY CallsAt, Zenon
  <2> HIDE DEF o, h, n1, n2
  <2> QED BY <2>1, <2>2, Zenon
<1>3. h \in {5, 7} /\ k \in 0 .. (h + 1 + n1 + n2) - 1
  BY <1>2, OpeningLength
<1>4. /\ \A i \in 1 .. n1 : Line1[i] \in 0 .. 255
      /\ \A i \in 1 .. n2 : Line2[i] \in 0 .. 255
  BY LineLengths
<1> HIDE DEF h, n1, n2
<1>5. \/ k \in 0 .. h - 1
      \/ \E m \in 0 .. n1 - 1 : k = h + m
      \/ k = h + n1
      \/ \E t \in 0 .. n2 - 1 : k = h + (n1 + 1 + t)
  <2>1. \/ k \in 0 .. h - 1
        \/ k - h \in 0 .. n1 - 1 /\ k = h + (k - h)
        \/ k = h + n1
        \/ k - h - n1 - 1 \in 0 .. n2 - 1 /\ k = h + (n1 + 1 + (k - h - n1 - 1))
    BY <1>1, <1>3
  <2> QED BY <2>1, Zenon
<1>6. CASE k \in 0 .. h - 1
  <2>1. call = Cmd(Opening(p)[k + 1])
    BY <1>2, <1>3, <1>6
  <2>2. r = Instruction(l, Opening(p)[k + 1])
    BY <2>1 DEF Cmd, Execute
  <2> QED BY <1>6, <2>2, OpeningStep, Zenon DEF h
<1>7. ASSUME NEW m \in 0 .. n1 - 1, k = h + m
      PROVE  r.mode4 /\ Shown(p, k + 1, r)
  <2>1. m + 1 \in 1 .. n1 /\ k + 1 = h + (m + 1) /\ m \in Nat /\ m + 1 \in Nat
    BY <1>1, <1>3, <1>7
  <2> DEFINE v == Line1[m + 1]
  <2>2. v \in 0 .. 255
    BY <1>4, <2>1
  <2>3. call = [rs |-> 1, v |-> v]
    BY <1>2, <2>1, Zenon
  <2>4. r = Character(l, v)
    BY <2>3 DEF Execute
  <2>5. /\ l.twoLines /\ l.on /\ l.inc /\ ~l.shift
        /\ l.ddram = Partial(m) /\ l.addr = Address(m)
    BY <1>7, <2>1, Opened DEF h
  <2>6. /\ Address(m) = m
        /\ NextAddr(m, TRUE) = Address(m + 1)
        /\ [c \in Cells |-> IF c = m THEN v ELSE Partial(m)[c]] = Partial(m + 1)
    BY FirstLineStep, Zenon DEF n1
  <2> HIDE DEF v, r
  <2>7. /\ r.mode4 /\ r.twoLines /\ r.on /\ r.inc /\ ~r.shift
        /\ r.ddram = [c \in Cells |-> IF c = l.addr THEN v ELSE l.ddram[c]]
        /\ r.addr = NextAddr(l.addr, l.inc)
    <3>1. /\ r.mode4 <=> l.mode4
          /\ r.twoLines <=> l.twoLines
          /\ r.on <=> l.on
          /\ r.inc <=> l.inc
          /\ r.shift <=> l.shift
          /\ r.ddram = [c \in Cells |-> IF c = l.addr THEN v ELSE l.ddram[c]]
          /\ r.addr = NextAddr(l.addr, l.inc)
      BY <2>2, <2>4, WriteCharacter, Zenon
    <3> QED BY <2>5, <3>1
  <2>8. r.ddram = Partial(m + 1) /\ r.addr = Address(m + 1)
    <3>1. l.inc = TRUE
      BY <2>5 DEF Lcds
    <3>2. l.addr = m /\ NextAddr(l.addr, l.inc) = Address(m + 1)
      BY <3>1, <2>5, <2>6, Zenon
    <3>3. [c \in Cells |-> IF c = l.addr THEN v ELSE l.ddram[c]]
            = [c \in Cells |-> IF c = m THEN v ELSE Partial(m)[c]]
      BY <2>5, <3>2
    <3> QED BY <2>6, <2>7, <3>2, <3>3, Zenon
  <2>9. Shown(p, h + (m + 1), r)
    BY <2>1, <2>7, <2>8, Opened DEF h
  <2> QED BY <2>1, <2>7, <2>9
<1>8. CASE k = h + n1
  <2>1. k + 1 = h + (n1 + 1) /\ h + 1 + n1 = k + 1 /\ n1 \in Nat /\ n1 + 1 \in Nat
    BY <1>1, <1>3, <1>8
  <2>2. call = Cmd(192)
    BY <1>2, <2>1
  <2>3. r = Instruction(l, 192)
    BY <2>2 DEF Cmd, Execute
  <2>4. /\ l.twoLines /\ l.on /\ l.inc /\ ~l.shift
        /\ l.ddram = Partial(n1) /\ l.addr = Address(n1)
    BY <1>8, <2>1, Opened DEF h
  <2>5. Address(n1 + 1) = 64 /\ Partial(n1 + 1) = Partial(n1)
    BY SecondRowStep DEF n1
  <2>6. /\ r.mode4 /\ r.twoLines /\ r.on /\ r.inc /\ ~r.shift
        /\ r.ddram = l.ddram /\ r.addr = 64
    BY <2>3, <2>4, SetAddress
  <2> HIDE DEF r
  <2>7. Shown(p, h + (n1 + 1), r)
    BY <2>1, <2>4, <2>5, <2>6, Opened DEF h
  <2> QED BY <2>1, <2>6, <2>7, Zenon DEF r, call
<1>9. ASSUME NEW t \in 0 .. n2 - 1, k = h + (n1 + 1 + t)
      PROVE  r.mode4 /\ Shown(p, k + 1, r)
  <2> DEFINE m == n1 + 1 + t
             v == Line2[t + 1]
  <2>1. /\ t + 1 \in 1 .. n2 /\ k + 1 = h + (m + 1) /\ k + 1 = h + 1 + n1 + (t + 1)
        /\ m \in Nat /\ m + 1 \in Nat
    BY <1>1, <1>3, <1>9
  <2>2. v \in 0 .. 255
    BY <1>4, <2>1
  <2>3. call = [rs |-> 1, v |-> v]
    BY <1>2, <2>1, Zenon
  <2>4. r = Character(l, v)
    BY <2>3 DEF Execute
  <2>5. /\ Address(m) = 64 + t
        /\ NextAddr(64 + t, TRUE) = Address(m + 1)
        /\ [c \in Cells |-> IF c = 64 + t THEN v ELSE Partial(m)[c]] = Partial(m + 1)
    BY SecondLineStep, Zenon DEF n1, n2
  <2>6. k = h + m
    BY <1>9
  <2> HIDE DEF m, v, r
  <2>7. /\ l.twoLines /\ l.on /\ l.inc /\ ~l.shift
        /\ l.ddram = Partial(m) /\ l.addr = Address(m)
    BY <2>1, <2>6, Opened DEF h
  <2>8. /\ r.mode4 /\ r.twoLines /\ r.on /\ r.inc /\ ~r.shift
        /\ r.ddram = [c \in Cells |-> IF c = l.addr THEN v ELSE l.ddram[c]]
        /\ r.addr = NextAddr(l.addr, l.inc)
    <3>1. /\ r.mode4 <=> l.mode4
          /\ r.twoLines <=> l.twoLines
          /\ r.on <=> l.on
          /\ r.inc <=> l.inc
          /\ r.shift <=> l.shift
          /\ r.ddram = [c \in Cells |-> IF c = l.addr THEN v ELSE l.ddram[c]]
          /\ r.addr = NextAddr(l.addr, l.inc)
      BY <2>2, <2>4, WriteCharacter, Zenon
    <3> QED BY <2>7, <3>1
  <2>9. r.ddram = Partial(m + 1) /\ r.addr = Address(m + 1)
    <3>1. l.inc = TRUE
      BY <2>7 DEF Lcds
    <3>2. l.addr = 64 + t /\ NextAddr(l.addr, l.inc) = Address(m + 1)
      BY <3>1, <2>5, <2>7, Zenon
    <3>3. [c \in Cells |-> IF c = l.addr THEN v ELSE l.ddram[c]]
            = [c \in Cells |-> IF c = 64 + t THEN v ELSE Partial(m)[c]]
      BY <2>7, <3>2
    <3> QED BY <2>5, <2>8, <3>2, <3>3, Zenon
  <2>10. Shown(p, h + (m + 1), r)
    BY <2>1, <2>8, <2>9, Opened DEF h
  <2> QED BY <2>1, <2>8, <2>10
<1> QED BY <1>5, <1>6, <1>7, <1>8, <1>9

\* At the end both lines are there.
LEMMA ShownAtEnd ==
  ASSUME NEW p \in Programs, NEW l, Shown(p, Len(Calls(p)), l)
  PROVE  l.ddram = Text /\ l.on /\ l.twoLines /\ ~l.shift
<1> DEFINE n == Len(Line1)
           w == Len(Line2)
           m == n + 1 + w
<1>1. n \in 0 .. 40 /\ w \in 0 .. 40
  BY LineLengths, Zenon
<1>2. Len(Calls(p)) = Prefix(p) + m /\ m \in Nat
  <2>1. Len(Calls(p)) = Prefix(p) + 1 + n + w /\ Prefix(p) \in Nat
    BY CallsAt, OpeningLength
  <2> HIDE DEF n, w
  <2> QED BY <1>1, <2>1
<1>3. l.ddram = Partial(m) /\ l.on /\ l.twoLines /\ ~l.shift
  <2> HIDE DEF m
  <2> QED BY <1>2, Opened
<1>4. ASSUME NEW c \in Cells
      PROVE  Partial(m)[c] = IF c < 64 THEN (IF c < n THEN Line1[c + 1] ELSE Blank)
                             ELSE (IF c - 64 < w THEN Line2[c - 63] ELSE Blank)
  <2>1. c \in 0 .. 127
    BY CellsAssumption
  <2> HIDE DEF n, w
  <2>2. /\ c < n => c < m
        /\ c - 64 < m - n - 1 <=> c - 64 < w
    BY <1>1, <2>1
  <2> QED BY <2>2, PartialAt DEF n
<1>5. [c \in Cells |-> Partial(m)[c]] = Text
  BY <1>4 DEF Text
<1>6. [c \in Cells |-> Partial(m)[c]] = Partial(m)
  BY DEF Partial
<1> QED BY <1>3, <1>5, <1>6

-----------------------------------------------------------------------------
(***************************************************************************)
(* The ladder.                                                             *)
(***************************************************************************)
\* The modes the controller may be in before each nibble of a ladder, and after
\* the last one.
Anywhere == 0 .. EightBit
Modes(p) ==
  IF p = "c"
    THEN <<Anywhere, {EightBit, NoNibble, 3}, {EightBit, 3}, {EightBit}, {NoNibble}>>
    ELSE <<Anywhere, {EightBit, NoNibble, 0}, {EightBit, NoNibble, 3}, {EightBit, 0},
           {EightBit, NoNibble}, {EightBit, 0}, {EightBit, NoNibble}, {EightBit, 0}, {NoNibble}>>

\* Every nibble takes each of these modes to one of the next set.
LEMMA ModesStep ==
  ASSUME NEW p \in Programs, NEW e \in 1 .. Len(Nibbles(p)), NEW m \in Modes(p)[e]
  PROVE  /\ Nibbles(p)[e] \in {0, 2, 3}
         /\ NextMode(m, Nibbles(p)[e]) \in Modes(p)[e + 1]
<1>1. CASE p = "c"
  <2>1. e \in {1, 2, 3, 4}
    BY <1>1 DEF Nibbles
  <2> USE <1>1 DEF Nibbles, Modes, NextMode, EightBit, NoNibble, Anywhere
  <2>2. CASE e = 1
    BY <2>2
  <2>3. CASE e = 2
    BY <2>3
  <2>4. CASE e = 3
    BY <2>4
  <2>5. CASE e = 4
    BY <2>5
  <2> QED BY <2>1, <2>2, <2>3, <2>4, <2>5
<1>2. CASE p = "python"
  <2>1. e \in {1, 2, 3, 4, 5, 6, 7, 8}
    BY <1>2 DEF Nibbles
  <2> USE <1>2 DEF Nibbles, Modes, NextMode, EightBit, NoNibble, Anywhere
  <2>2. CASE e = 1
    BY <2>2
  <2>3. CASE e = 2
    BY <2>3
  <2>4. CASE e \in {3, 5, 7}
    BY <2>4
  <2>5. CASE e \in {4, 6}
    BY <2>5
  <2>6. CASE e = 8
    BY <2>6
  <2> QED BY <2>1, <2>2, <2>3, <2>4, <2>5, <2>6
<1> QED BY <1>1, <1>2 DEF Programs

\* The length of a ladder; it starts anywhere and ends in step.
LEMMA LadderShape ==
  ASSUME NEW p \in Programs
  PROVE  /\ Width(p) \in {2, 3}
         /\ Len(Nibbles(p)) \in {4, 8}
         /\ Len(Ladder(p)) = Width(p) * Len(Nibbles(p))
         /\ Len(Ladder(p)) \in {8, 24}
         /\ Modes(p)[1] = Anywhere
         /\ Modes(p)[Len(Nibbles(p)) + 1] = {NoNibble}
<1>1. Len(Ladder(p)) = IF p = "c" THEN 8 ELSE 24
  BY LadderAt
<1>2. /\ Width(p) \in {2, 3}
      /\ Len(Nibbles(p)) \in {4, 8}
      /\ Width(p) * Len(Nibbles(p)) = IF p = "c" THEN 8 ELSE 24
  BY DEF Width, Nibbles
<1>3. Modes(p)[1] = Anywhere /\ Modes(p)[Len(Nibbles(p)) + 1] = {NoNibble}
  <2>1. CASE p = "c"
    BY <2>1 DEF Modes, Nibbles
  <2>2. CASE p = "python"
    BY <2>2 DEF Modes, Nibbles
  <2> QED BY <2>1, <2>2 DEF Programs
<1> QED BY <1>1, <1>2, <1>3

\* Where a byte stands in the ladder.
LEMMA LadderPlace ==
  ASSUME NEW p \in Programs, NEW i \in 1 .. Len(Ladder(p))
  PROVE  /\ (i - 1) \div Width(p) + 1 \in 1 .. Len(Nibbles(p))
         /\ i % Width(p) = 0 =>
              /\ i > 1
              /\ (i - 2) \div Width(p) = (i - 1) \div Width(p)
              /\ (i - 1) % Width(p) = Width(p) - 1
              /\ i \div Width(p) = (i - 1) \div Width(p) + 1
         /\ i % Width(p) # 0 =>
              /\ i \div Width(p) = (i - 1) \div Width(p)
              /\ (i - 1) % Width(p) # Width(p) - 1
         /\ i = Len(Ladder(p)) =>
              i % Width(p) = 0 /\ i \div Width(p) = Len(Nibbles(p))
<1>1. CASE p = "c"
  <2>1. Width(p) = 2 /\ Len(Nibbles(p)) = 4 /\ Len(Ladder(p)) = 8
    BY <1>1, LadderAt DEF Width, Nibbles
  <2>2. i \in 1 .. 8
    BY <2>1
  <2> HIDE DEF Width
  <2> QED BY <2>1, <2>2
<1>2. CASE p = "python"
  <2>1. Width(p) = 3 /\ Len(Nibbles(p)) = 8 /\ Len(Ladder(p)) = 24
    BY <1>2, LadderAt DEF Width, Nibbles
  <2>2. i \in 1 .. 24
    BY <2>1
  <2> QED BY <2>1, <2>2
<1> QED BY <1>1, <1>2 DEF Programs

\* From one byte of the calls to the next.
LEMMA DivMod ==
  ASSUME NEW d \in Nat
  PROVE  /\ d \div 6 \in Nat /\ d % 6 \in 0 .. 5
         /\ d = 6 * (d \div 6) + (d % 6)
         /\ d % 6 = 5 => (d + 1) \div 6 = (d \div 6) + 1 /\ (d + 1) % 6 = 0
         /\ d % 6 < 5 => (d + 1) \div 6 = d \div 6 /\ (d + 1) % 6 = (d % 6) + 1
OBVIOUS

\* The byte of a call, and the byte on the pins before it.
LEMMA CallByte ==
  ASSUME NEW p \in Programs, NEW d \in 0 .. 6 * Len(Calls(p)) - 1
  PROVE  LET call == Calls(p)[d \div 6 + 1]
         IN /\ d \div 6 \in 0 .. Len(Calls(p)) - 1
            /\ call \in CallSet
            /\ Bytes(p)[Len(Ladder(p)) + 1 + d]
                 = Byte(IF d % 6 < 3 THEN call.v \div 16 ELSE call.v % 16, call.rs,
                        IF d % 6 \in {1, 4} THEN 1 ELSE 0)
<1> DEFINE n == Len(Calls(p))
           k == d \div 6
           q == d % 6
           j == q + 1
           call == Calls(p)[k + 1]
           b == Bytes(p)[Len(Ladder(p)) + 1 + d]
<1>1. n \in Nat /\ d \in Nat /\ d < 6 * n
  BY CallsType
<1>2. k \in Nat /\ q \in 0 .. 5 /\ d = 6 * k + q
  BY <1>1, DivMod
<1>3. b = CallBytes(p, call)[j]
  BY BytesAt, Zenon
<1> HIDE DEF n, k, q, b
<1>4. k \in 0 .. n - 1 /\ k + 1 \in 1 .. n /\ j \in 1 .. 6
  BY <1>1, <1>2
<1>5. call \in CallSet
  BY <1>4, CallsType DEF n
<1> HIDE DEF call
<1>6. b = Byte(IF j <= 3 THEN call.v \div 16 ELSE call.v % 16, call.rs, IF j \in {2, 5} THEN 1 ELSE 0)
  BY <1>3, <1>4, <1>5, CallBytesAt, Zenon
<1>7. (j <= 3 <=> q < 3) /\ (j \in {2, 5} <=> q \in {1, 4})
  BY <1>2
<1>8. b = Byte(IF q < 3 THEN call.v \div 16 ELSE call.v % 16, call.rs, IF q \in {1, 4} THEN 1 ELSE 0)
  BY <1>6, <1>7
<1> QED BY <1>4, <1>5, <1>8, Zenon DEF n, k, q, b, call

\* EN falls with the third and the sixth byte of a call only, and the data lines
\* are the same before and after.
LEMMA ByteBefore ==
  ASSUME NEW p \in Programs, NEW d \in 0 .. 6 * Len(Calls(p)) - 1
  PROVE  LET a == Bytes(p)[Len(Ladder(p)) + d]
             b == Bytes(p)[Len(Ladder(p)) + 1 + d]
         IN /\ a.en = IF d % 6 \in {2, 5} THEN 1 ELSE 0
            /\ b.en = IF d % 6 \in {1, 4} THEN 1 ELSE 0
            /\ d % 6 \in {2, 5} => a.nib = b.nib /\ a.rs = b.rs
<1> DEFINE L == Len(Ladder(p))
           a == Bytes(p)[L + d]
           b == Bytes(p)[L + 1 + d]
           q == d % 6
           k == d \div 6
           call == Calls(p)[k + 1]
<1>1. L \in {8, 24} /\ d \in Nat /\ L \in 1 .. L /\ (d = 0 => L + d = L)
  <2>1. L \in {8, 24} /\ d \in Nat
    BY LadderShape, CallsType
  <2> HIDE DEF L
  <2> QED BY <2>1
<1>2. b = Byte(IF q < 3 THEN call.v \div 16 ELSE call.v % 16, call.rs, IF q \in {1, 4} THEN 1 ELSE 0)
  BY CallByte, Zenon
<1>3. q \in 0 .. 5
  BY <1>1, DivMod
<1>4. CASE d = 0
  <2>1. q = 0
    BY <1>4
  <2>2. a = Ladder(p)[L]
    <3>1. L \in 1 .. L /\ L + d = L
      BY <1>1, <1>4
    <3> QED BY <3>1, BytesAt, Zenon
  <2>3. a.en = 0
    <3>1. L \in 1 .. L
      BY <1>1
    <3>2. L % Width(p) = 0 /\ Width(p) \in {2, 3}
      BY <3>1, LadderPlace, LadderShape
    <3>3. Ladder(p)[L] = Byte(Nibbles(p)[((L - 1) \div Width(p)) + 1], 0,
                              IF L % Width(p) = Width(p) - 1 THEN 1 ELSE 0)
      BY <3>1, LadderAt, Zenon
    <3>4. ~(L % Width(p) = Width(p) - 1)
      BY <3>2
    <3> QED BY <2>2, <3>3, <3>4 DEF Byte
  <2>4. b.en = 0
    BY <1>2, <2>1 DEF Byte
  <2> QED BY <2>1, <2>3, <2>4
<1>5. CASE d > 0
  <2> DEFINE c == d - 1
             q0 == c % 6
             k0 == c \div 6
             call0 == Calls(p)[k0 + 1]
  <2>1. c \in 0 .. 6 * Len(Calls(p)) - 1 /\ c \in Nat /\ c + 1 = d /\ L + 1 + c = L + d
    BY <1>1, <1>5, CallsType
  <2>2. /\ q0 \in 0 .. 5
        /\ q0 = 5 => q = 0
        /\ q0 < 5 => k = k0 /\ q = q0 + 1
    BY <2>1, DivMod
  <2>3. Bytes(p)[L + 1 + c]
          = Byte(IF q0 < 3 THEN call0.v \div 16 ELSE call0.v % 16, call0.rs, IF q0 \in {1, 4} THEN 1 ELSE 0)
    BY <2>1, CallByte, Zenon
  <2>4. a = Byte(IF q0 < 3 THEN call0.v \div 16 ELSE call0.v % 16, call0.rs, IF q0 \in {1, 4} THEN 1 ELSE 0)
    BY <2>1, <2>3
  <2>5. /\ q0 \in {1, 4} <=> q \in {2, 5}
        /\ q \in {2, 5} => call0 = call /\ (q0 < 3 <=> q < 3)
    BY <2>2
  <2> HIDE DEF a, b, q, k, c, q0, k0, call, call0
  <2>6. a.en = IF q \in {2, 5} THEN 1 ELSE 0
    BY <2>4, <2>5 DEF Byte
  <2>7. b.en = IF q \in {1, 4} THEN 1 ELSE 0
    BY <1>2 DEF Byte
  <2>8. ASSUME q \in {2, 5} PROVE a.nib = b.nib /\ a.rs = b.rs
    BY <1>2, <2>4, <2>5, <2>8 DEF Byte
  <2> QED BY <2>6, <2>7, <2>8, Zenon DEF a, b, q
<1> QED BY <1>1, <1>4, <1>5

-----------------------------------------------------------------------------
(***************************************************************************)
(* Type correctness.                                                       *)
(***************************************************************************)
\* A program writes bytes of the port.
LEMMA BytesType ==
  ASSUME NEW p \in Programs
  PROVE  /\ Len(Bytes(p)) \in Nat
         /\ \A i \in 1 .. Len(Bytes(p)) : Bytes(p)[i] \in PortBytes
<1> DEFINE L == Len(Ladder(p))
           n == Len(Calls(p))
<1>1. L \in {8, 24} /\ n \in Nat
  BY LadderShape, CallsType
<1>2. Len(Bytes(p)) = L + 6 * n
  BY BytesAt
<1>3. ASSUME NEW i \in 1 .. L PROVE Bytes(p)[i] \in PortBytes
  <2>1. Bytes(p)[i] = Ladder(p)[i]
    BY BytesAt
  <2>2. Ladder(p) \in Seq(PortBytes)
    BY LadderAt
  <2> QED BY <2>1, <2>2, ElementOfSeq
<1>4. ASSUME NEW d \in 0 .. 6 * n - 1 PROVE Bytes(p)[L + 1 + d] \in PortBytes
  <2> DEFINE call == Calls(p)[d \div 6 + 1]
  <2>1. call \in CallSet
    BY CallByte, Zenon
  <2>2. Bytes(p)[L + 1 + d]
                 = Byte(IF d % 6 < 3 THEN call.v \div 16 ELSE call.v % 16, call.rs,
                        IF d % 6 \in {1, 4} THEN 1 ELSE 0)
    BY CallByte, Zenon
  <2> HIDE DEF call
  <2>3. call.v \in 0 .. 255 /\ call.rs \in {0, 1}
    BY <2>1 DEF CallSet
  <2>4. call.v \div 16 \in 0 .. 15 /\ call.v % 16 \in 0 .. 15
    BY <2>3, HalfBytes, Zenon
  <2> QED BY <2>2, <2>3, <2>4 DEF Byte, PortBytes
<1> HIDE DEF L, n
<1>5. ASSUME NEW i \in 1 .. L + 6 * n, i > L PROVE Bytes(p)[i] \in PortBytes
  <2>1. i - L - 1 \in 0 .. 6 * n - 1 /\ L + 1 + (i - L - 1) = i
    BY <1>1, <1>5
  <2> QED BY <1>4, <2>1
<1>6. \A i \in 1 .. L + 6 * n : i \in 1 .. L \/ i > L
  BY <1>1
<1>7. L + 6 * n \in Nat
  BY <1>1
<1> QED BY <1>2, <1>3, <1>5, <1>6, <1>7, Zenon

\* A write to the port: what the controller may see of it.
LEMMA Written ==
  ASSUME TypeOK, WriteByte
  PROVE  /\ prog \in Programs /\ prog' = prog
         /\ pc \in 1 .. Len(Bytes(prog)) /\ pc' = pc + 1
         /\ port' = Bytes(prog)[pc] /\ port' \in PortBytes
         /\ lcd' \in Lcds
         /\ ~(port.en = 1 /\ port'.en = 0) => lcd' = lcd
         /\ port.en = 1 /\ port'.en = 0 /\ port.nib = port'.nib /\ port.rs = port'.rs
              => lcd' \in Latch(lcd, port'.nib, port'.rs)
<1>1. prog \in Programs /\ prog' = prog /\ pc' = pc + 1 /\ port' = Bytes(prog)[pc]
  BY DEF TypeOK, WriteByte
<1>2. pc \in 1 .. Len(Bytes(prog))
  <2>1. Len(Bytes(prog)) \in Nat
    BY <1>1, BytesType
  <2>2. pc \in 1 .. Len(Bytes(prog)) + 1 /\ pc <= Len(Bytes(prog))
    BY <1>1 DEF TypeOK, WriteByte
  <2> QED BY <2>1, <2>2
<1>3. port' \in PortBytes
  BY <1>1, <1>2, BytesType
<1>4. IF port.en = 1 /\ port'.en = 0
        THEN \/ lcd' \in Latch(lcd, port'.nib, port'.rs)
             \/ /\ <<port.nib, port.rs>> # <<port'.nib, port'.rs>>
                /\ lcd' \in {lcd} \cup Latch(lcd, port.nib, port.rs)
        ELSE lcd' = lcd
  BY <1>1 DEF WriteByte
<1>5. /\ lcd \in Lcds
      /\ Latch(lcd, port.nib, port.rs) \subseteq Lcds
      /\ Latch(lcd, port'.nib, port'.rs) \subseteq Lcds
  <2>1. lcd \in Lcds /\ port.nib \in 0 .. 15 /\ port.rs \in {0, 1}
    BY DEF TypeOK
  <2>2. port'.nib \in 0 .. 15 /\ port'.rs \in {0, 1}
    BY <1>3 DEF PortBytes
  <2> QED BY <2>1, <2>2, LatchType, Zenon
<1>6. lcd' \in Lcds
  BY <1>4, <1>5
<1>7. ~(port.en = 1 /\ port'.en = 0) => lcd' = lcd
  BY <1>4
<1>8. port.en = 1 /\ port'.en = 0 /\ port.nib = port'.nib /\ port.rs = port'.rs
              => lcd' \in Latch(lcd, port'.nib, port'.rs)
  BY <1>4
<1> QED BY <1>1, <1>2, <1>3, <1>6, <1>7, <1>8, Zenon

\* The initial states are states of the types given, and every step stays there.
LEMMA TypeInit == Init => TypeOK
<1> SUFFICES ASSUME Init PROVE TypeOK
  OBVIOUS
<1>1. prog \in Programs \cup {NoProgram} /\ pc \in Nat /\ prog = NoProgram
  BY DEF Init
<1>2. port \in [nib : 0 .. 15, rs : {0, 1}, en : {0, 1}]
  BY DEF Init, Byte
<1>3. lcd \in Lcds
  <2> DEFINE zeros == [Cells -> {0}]
             off == {FALSE}
  <2>1. zeros \subseteq [Cells -> 0 .. 255] /\ off \subseteq BOOLEAN
    OBVIOUS
  <2>2. lcd \in [mode4 : BOOLEAN, pending : {NoNibble}, addr : {0}, inc : BOOLEAN, shift : off,
                 on : off, twoLines : BOOLEAN, ddram : zeros]
    BY DEF Init
  <2> HIDE DEF zeros, off
  <2> QED BY <2>1, <2>2 DEF Lcds, NoNibble
<1> QED BY <1>1, <1>2, <1>3 DEF TypeOK

LEMMA TypeStep == TypeOK /\ [Next]_vars => TypeOK'
<1> SUFFICES ASSUME TypeOK, [Next]_vars PROVE TypeOK'
  OBVIOUS
<1>1. ASSUME NEW p \in Programs, Start(p) PROVE TypeOK'
  <2>1. 1 \in 1 .. Len(Bytes(p)) + 1
    BY BytesType
  <2>2. prog' \in Programs \cup {NoProgram} /\ pc' = 1 /\ prog' = p
    BY <1>1 DEF Start
  <2>3. pc' \in Nat /\ (prog' # NoProgram => pc' \in 1 .. Len(Bytes(prog')) + 1)
    BY <2>1, <2>2
  <2> QED BY <1>1, <2>2, <2>3 DEF TypeOK, Start
<1>2. CASE WriteByte
  <2>1. /\ prog \in Programs /\ prog' = prog /\ pc \in 1 .. Len(Bytes(prog)) /\ pc' = pc + 1
        /\ port' \in PortBytes /\ lcd' \in Lcds
    BY <1>2, Written
  <2>2. Len(Bytes(prog)) \in Nat
    BY <2>1, BytesType
  <2>3. pc' \in Nat /\ pc' \in 1 .. Len(Bytes(prog)) + 1
    BY <2>1, <2>2
  <2> QED BY <2>1, <2>3 DEF TypeOK, PortBytes
<1>3. CASE Interrupted \/ Finish
  <2>1. prog' = NoProgram /\ pc' = 0 /\ UNCHANGED <<port, lcd>>
    BY <1>3 DEF Interrupted, Finish
  <2> QED BY <2>1 DEF TypeOK
<1>4. CASE UNCHANGED vars
  BY <1>4 DEF TypeOK, vars
<1> QED BY <1>1, <1>2, <1>3, <1>4 DEF Next

\* The variables of LcdPort always have the values its actions expect: the byte
\* counter never leaves the program, and whatever an ambiguous edge delivers, the
\* controller is in one of its states.
THEOREM TypeCorrect == Spec => []TypeOK
BY TypeInit, TypeStep, PTL DEF Spec

-----------------------------------------------------------------------------
(***************************************************************************)
(* The inductive invariant.                                                *)
(***************************************************************************)
\* How many bytes of the current call were written.
Phase == (pc - 1 - Len(Ladder(prog))) % 6
\* On the ladder, the mode is one of those the nibbles so far leave possible.
OnLadder ==
  pc <= Len(Ladder(prog)) + 1 => Mode(lcd) \in Modes(prog)[(pc - 1) \div Width(prog) + 1]
\* Among the calls: 4-bit mode, the upper half pending once it was clocked in,
\* and on the display what the calls so far must have left there.
InCalls ==
  pc > Len(Ladder(prog)) =>
    /\ lcd.mode4
    /\ lcd.pending = IF Phase < 3 THEN NoNibble ELSE Calls(prog)[CallsDone + 1].v \div 16
    /\ Shown(prog, CallsDone, lcd)
\* The pins carry the byte written last; with the parts above, the inductive
\* invariant.
OnPins == pc > 1 => port = Bytes(prog)[pc - 1]
Running == prog # NoProgram => OnPins /\ OnLadder /\ InCalls
IInv == TypeOK /\ Running

\* A byte of the ladder moves the controller as the nibble on the lines says.
LEMMA LadderWrite ==
  ASSUME IInv, WriteByte, pc <= Len(Ladder(prog))
  PROVE  Mode(lcd') \in Modes(prog)[pc \div Width(prog) + 1]
<1> DEFINE L == Len(Ladder(prog))
           W == Width(prog)
           e == (pc - 1) \div W + 1
           nib == Nibbles(prog)[e]
<1>1. /\ prog \in Programs /\ pc \in 1 .. Len(Bytes(prog))
      /\ port' = Bytes(prog)[pc] /\ lcd' \in Lcds /\ lcd \in Lcds
      /\ ~(port.en = 1 /\ port'.en = 0) => lcd' = lcd
      /\ port.en = 1 /\ port'.en = 0 /\ port.nib = port'.nib /\ port.rs = port'.rs
           => lcd' \in Latch(lcd, port'.nib, port'.rs)
  BY Written DEF IInv, TypeOK
<1>2. /\ Mode(lcd) \in Modes(prog)[e]
      /\ pc > 1 => port = Bytes(prog)[pc - 1]
  <2>1. prog # NoProgram
    BY <1>1, NoProgramAssumption
  <2>2. pc <= L + 1
    <3>1. L \in {8, 24}
      BY <1>1, LadderShape
    <3> HIDE DEF L
    <3>2. pc \in Nat /\ pc <= L
      BY <1>1 DEF L
    <3> QED BY <3>1, <3>2
  <2> QED BY <2>1, <2>2 DEF IInv, Running, OnPins, OnLadder
<1>3. pc \in 1 .. L /\ W \in {2, 3} /\ L \in {8, 24}
  <2>1. W \in {2, 3} /\ L \in {8, 24}
    BY <1>1, LadderShape
  <2>2. pc \in Nat /\ pc >= 1 /\ pc <= L
    BY <1>1
  <2> HIDE DEF L
  <2> QED BY <2>1, <2>2
<1>4. /\ e \in 1 .. Len(Nibbles(prog))
      /\ pc % W = 0 =>
           /\ pc > 1
           /\ (pc - 2) \div W = (pc - 1) \div W
           /\ (pc - 1) % W = W - 1
           /\ pc \div W = (pc - 1) \div W + 1
      /\ pc % W # 0 =>
           /\ pc \div W = (pc - 1) \div W
           /\ (pc - 1) % W # W - 1
  BY <1>1, <1>3, LadderPlace, Zenon
<1>5. port' = Byte(nib, 0, IF pc % W = W - 1 THEN 1 ELSE 0)
  BY <1>1, <1>3, BytesAt, LadderAt, Zenon
<1>6. nib \in {0, 2, 3} /\ NextMode(Mode(lcd), nib) \in Modes(prog)[e + 1]
  BY <1>1, <1>2, <1>4, ModesStep, Zenon
<1>7. pc > 1 => port = Byte(Nibbles(prog)[(pc - 2) \div W + 1], 0, IF (pc - 1) % W = W - 1 THEN 1 ELSE 0)
  <2>1. CASE pc > 1
    <3>1. pc - 1 \in 1 .. L /\ (pc - 1) - 1 = pc - 2
      <4> HIDE DEF L
      <4> QED BY <1>3, <2>1
    <3>2. port = Ladder(prog)[pc - 1]
      BY <1>1, <1>2, <2>1, <3>1, BytesAt, Zenon
    <3>3. Ladder(prog)[pc - 1]
            = Byte(Nibbles(prog)[((pc - 1) - 1) \div W + 1], 0, IF (pc - 1) % W = W - 1 THEN 1 ELSE 0)
      BY <1>1, <3>1, LadderAt, Zenon
    <3> QED BY <3>1, <3>2, <3>3, Zenon
  <2> QED BY <2>1
<1>8. CASE pc % W = 0
  <2>1. port' = Byte(nib, 0, 0)
    <3>1. pc % W # W - 1
      BY <1>3, <1>8
    <3> QED BY <1>5, <3>1, Zenon
  <2>2. port = Byte(nib, 0, 1)
    BY <1>4, <1>7, <1>8, Zenon
  <2>3. lcd' \in Latch(lcd, nib, 0)
    <3> HIDE DEF nib
    <3> QED BY <1>1, <2>1, <2>2 DEF Byte
  <2>4. Mode(lcd') = NextMode(Mode(lcd), nib)
    BY <1>1, <1>6, <2>3, LatchMode, Zenon
  <2>5. pc \div W + 1 = e + 1
    BY <1>4, <1>8, Zenon
  <2> QED BY <1>6, <2>4, <2>5, Zenon
<1>9. CASE pc % W # 0
  <2>1. pc \div W + 1 = e
    BY <1>4, <1>9, Zenon
  <2>2. CASE pc > 1
    <3>1. port = Byte(Nibbles(prog)[(pc - 2) \div W + 1], 0, 0)
      BY <1>4, <1>7, <1>9, <2>2, Zenon
    <3>2. port.en # 1
      BY <3>1 DEF Byte
    <3> QED BY <1>1, <1>2, <2>1, <3>2, Zenon
  <2>3. CASE pc = 1
    <3>1. e = 1
      BY <1>3, <2>3
    <3>2. Modes(prog)[1] = Anywhere
      BY <1>1, LadderShape
    <3>3. Mode(lcd') \in Anywhere
      BY <1>1 DEF Mode, Anywhere, EightBit, Lcds, NoNibble
    <3> QED BY <2>1, <3>1, <3>2, <3>3, Zenon
  <2> QED BY <1>3, <2>2, <2>3
<1> QED BY <1>8, <1>9

\* A byte of a call: nothing happens but at the two falling edges.
LEMMA CallWrite ==
  ASSUME IInv, WriteByte, pc > Len(Ladder(prog))
  PROVE  LET call == Calls(prog)[CallsDone + 1]
         IN /\ CallsDone \in 0 .. Len(Calls(prog)) - 1 /\ Phase \in 0 .. 5
            /\ call \in CallSet
            /\ Phase \notin {2, 5} => lcd' = lcd
            /\ Phase = 2 => lcd' = [lcd EXCEPT !.pending = call.v \div 16]
            /\ Phase = 5 => lcd' = Execute([lcd EXCEPT !.pending = NoNibble], call.rs, call.v)
            /\ Phase < 5 => CallsDone' = CallsDone /\ Phase' = Phase + 1
            /\ Phase = 5 => CallsDone' = CallsDone + 1 /\ Phase' = 0
<1> DEFINE L == Len(Ladder(prog))
           n == Len(Calls(prog))
           d == pc - 1 - L
           call == Calls(prog)[d \div 6 + 1]
<1>1. /\ prog \in Programs /\ prog' = prog /\ pc \in 1 .. Len(Bytes(prog)) /\ pc' = pc + 1
      /\ port' = Bytes(prog)[pc] /\ port' \in PortBytes /\ lcd \in Lcds
      /\ ~(port.en = 1 /\ port'.en = 0) => lcd' = lcd
      /\ port.en = 1 /\ port'.en = 0 /\ port.nib = port'.nib /\ port.rs = port'.rs
           => lcd' \in Latch(lcd, port'.nib, port'.rs)
  BY Written DEF IInv, TypeOK
<1>2. L \in {8, 24} /\ n \in Nat /\ pc \in 1 .. L + 6 * n /\ pc > L
  BY <1>1, LadderShape, CallsType, BytesAt
<1>3. prog # NoProgram
  BY <1>1, NoProgramAssumption
<1>4. /\ d \in 0 .. 6 * n - 1 /\ d \in Nat /\ L + 1 + d = pc /\ L + d = pc - 1 /\ pc > 1 /\ ~(pc <= L)
      /\ ~(pc + 1 <= L) /\ (pc + 1) - 1 - L = d + 1
  <2> HIDE DEF L, n
  <2> QED BY <1>2
<1>5. CallsDone = d \div 6 /\ Phase = d % 6
  BY <1>3, <1>4, Zenon DEF CallsDone, Phase
<1>6. CallsDone' = (d + 1) \div 6 /\ Phase' = (d + 1) % 6
  BY <1>1, <1>3, <1>4, Zenon DEF CallsDone, Phase
<1>7. /\ port = Bytes(prog)[L + d] /\ lcd.mode4
      /\ lcd.pending = IF Phase < 3 THEN NoNibble ELSE call.v \div 16
  BY <1>3, <1>4, <1>5, <1>2, Zenon DEF IInv, Running, OnPins, InCalls
<1>8. /\ d \div 6 \in 0 .. n - 1
      /\ call \in CallSet
      /\ port' = Byte(IF d % 6 < 3 THEN call.v \div 16 ELSE call.v % 16, call.rs,
                      IF d % 6 \in {1, 4} THEN 1 ELSE 0)
  BY <1>1, <1>4, CallByte, Zenon
<1>9. /\ port.en = IF d % 6 \in {2, 5} THEN 1 ELSE 0
      /\ port'.en = IF d % 6 \in {1, 4} THEN 1 ELSE 0
      /\ d % 6 \in {2, 5} => port.nib = port'.nib /\ port.rs = port'.rs
  <2> DEFINE a == Bytes(prog)[L + d]
             b == Bytes(prog)[L + 1 + d]
  <2>1. /\ a.en = IF d % 6 \in {2, 5} THEN 1 ELSE 0
        /\ b.en = IF d % 6 \in {1, 4} THEN 1 ELSE 0
        /\ d % 6 \in {2, 5} => a.nib = b.nib /\ a.rs = b.rs
    BY <1>1, <1>4, ByteBefore, Zenon
  <2>2. port = a /\ port' = b
    BY <1>1, <1>4, <1>7, Zenon
  <2> HIDE DEF a, b
  <2> QED BY <2>1, <2>2, Zenon
<1>10. /\ d % 6 \in 0 .. 5
       /\ d % 6 = 5 => (d + 1) \div 6 = (d \div 6) + 1 /\ (d + 1) % 6 = 0
       /\ d % 6 < 5 => (d + 1) \div 6 = d \div 6 /\ (d + 1) % 6 = (d % 6) + 1
  BY <1>4, DivMod, Zenon
<1> DEFINE q == d % 6
           k == d \div 6
<1>11. Phase = q /\ CallsDone = k /\ call = Calls(prog)[k + 1]
  BY <1>5
<1> HIDE DEF L, n, d, call, q, k
<1>12. call.v \in 0 .. 255 /\ call.rs \in {0, 1}
  BY <1>8 DEF CallSet
<1>13. /\ call.v \div 16 \in 0 .. 15 /\ call.v % 16 \in 0 .. 15
       /\ (call.v \div 16) * 16 + (call.v % 16) = call.v
  BY <1>12, HalfBytes, Zenon
<1>14. q \notin {2, 5} => lcd' = lcd
  BY <1>1, <1>9 DEF q
<1>15. q \in {2, 5} =>
         lcd' \in Latch(lcd, IF q < 3 THEN call.v \div 16 ELSE call.v % 16, call.rs)
  BY <1>1, <1>8, <1>9 DEF Byte, q
<1>16. ASSUME q = 2 PROVE lcd' = [lcd EXCEPT !.pending = call.v \div 16]
  <2>1. lcd.pending = NoNibble /\ lcd' \in Latch(lcd, call.v \div 16, call.rs)
    BY <1>7, <1>11, <1>15, <1>16
  <2> QED BY <1>1, <1>7, <2>1, LatchFirst, Zenon
<1>17. ASSUME q = 5 PROVE lcd' = Execute([lcd EXCEPT !.pending = NoNibble], call.rs, call.v)
  <2>1. lcd.pending = call.v \div 16 /\ lcd' \in Latch(lcd, call.v % 16, call.rs)
    BY <1>7, <1>11, <1>15, <1>17
  <2>2. lcd.pending # NoNibble
    BY <1>13, <2>1 DEF NoNibble
  <2>3. lcd' = Execute([lcd EXCEPT !.pending = NoNibble], call.rs, lcd.pending * 16 + (call.v % 16))
    <3> DEFINE nib == call.v % 16
               rs == call.rs
    <3>1. /\ lcd \in Lcds /\ lcd.mode4 /\ lcd.pending # NoNibble
          /\ nib \in 0 .. 15 /\ rs \in {0, 1} /\ lcd' \in Latch(lcd, nib, rs)
      BY <1>1, <1>7, <1>12, <1>13, <2>1, <2>2, Zenon
    <3> HIDE DEF nib, rs
    <3>2. lcd' = Execute([lcd EXCEPT !.pending = NoNibble], rs, lcd.pending * 16 + nib)
      BY <3>1, LatchSecond, Zenon
    <3> QED BY <3>2 DEF nib, rs
  <2>4. lcd.pending * 16 + (call.v % 16) = call.v
    BY <1>13, <2>1, Zenon
  <2> QED BY <2>3, <2>4, Zenon
<1>18. /\ q \in 0 .. 5 /\ k \in 0 .. n - 1
       /\ q < 5 => CallsDone' = k /\ Phase' = q + 1
       /\ q = 5 => CallsDone' = k + 1 /\ Phase' = 0
  BY <1>6, <1>8, <1>10, Zenon DEF q, k
<1> QED BY <1>8, <1>11, <1>14, <1>16, <1>17, <1>18, Zenon DEF n

\* No driver runs at power-on.
LEMMA IInvInit == Init => IInv
<1>1. Init => prog = NoProgram
  BY DEF Init
<1> QED BY <1>1, TypeInit DEF IInv, Running

\* The last byte of the ladder leaves the controller between two instructions.
LEMMA LadderDone ==
  ASSUME NEW p \in Programs, NEW l \in Lcds, Mode(l) \in Modes(p)[Len(Nibbles(p)) + 1]
  PROVE  l.mode4 /\ l.pending = NoNibble
<1>1. Mode(l) = NoNibble
  BY LadderShape
<1> QED BY <1>1 DEF Mode, EightBit, NoNibble

\* Before the first call nothing is asked of the display.
LEMMA ShownNothing ==
  ASSUME NEW p, NEW l
  PROVE  Shown(p, 0, l)
<1>1. ~(0 >= 1) /\ ~(0 >= 2) /\ ~(0 >= EntryMode(p)) /\ ~(0 >= Clear(p)) /\ ~(0 >= Prefix(p))
  BY DEF EntryMode, Clear, Prefix
<1> QED BY <1>1, Zenon DEF Shown

\* A byte of the ladder preserves the invariant.
LEMMA StepLadder ==
  ASSUME IInv, WriteByte, pc <= Len(Ladder(prog))
  PROVE  Running'
<1> DEFINE L == Len(Ladder(prog))
           W == Width(prog)
<1>1. /\ prog \in Programs /\ prog' = prog /\ pc \in 1 .. Len(Bytes(prog)) /\ pc' = pc + 1
      /\ port' = Bytes(prog)[pc] /\ lcd' \in Lcds
  BY Written DEF IInv
<1>2. Mode(lcd') \in Modes(prog)[pc \div W + 1]
  BY LadderWrite, Zenon
<1>3. L \in {8, 24} /\ pc \in 1 .. L
  <2>1. L \in {8, 24} /\ pc \in Nat /\ pc >= 1 /\ pc <= L
    BY <1>1, LadderShape
  <2> HIDE DEF L
  <2> QED BY <2>1
<1>4. (pc + 1) - 1 = pc /\ (pc + 1 > L <=> pc = L)
  <2> HIDE DEF L
  <2> QED BY <1>3
<1>5. OnPins'
  BY <1>1, <1>4, Zenon DEF OnPins
<1>6. OnLadder'
  BY <1>1, <1>2, <1>4, Zenon DEF OnLadder
<1>7. InCalls'
  <2> SUFFICES ASSUME pc' > L PROVE InCalls'
    BY <1>1, Zenon DEF InCalls
  <2>1. pc = L
    BY <1>1, <1>4
  <2>2. pc \div W = Len(Nibbles(prog))
    BY <1>1, <1>3, <2>1, LadderPlace, Zenon
  <2>3. lcd'.mode4 /\ lcd'.pending = NoNibble
    BY <1>1, <1>2, <2>2, LadderDone, Zenon
  <2>4. pc' - 1 - L = 0 /\ ~(pc' <= L)
    <3> HIDE DEF L
    <3> QED BY <1>1, <1>3, <2>1
  <2>5. Phase' = 0 /\ CallsDone' = 0
    <3>1. prog # NoProgram
      BY <1>1, NoProgramAssumption
    <3>2. 0 % 6 = 0 /\ 0 \div 6 = 0
      OBVIOUS
    <3> QED BY <1>1, <2>4, <3>1, <3>2, Zenon DEF Phase, CallsDone
  <2>6. Shown(prog', CallsDone', lcd')
    BY <2>5, ShownNothing, Zenon
  <2>7. Phase' < 3
    BY <2>5
  <2> QED BY <2>3, <2>6, <2>7, Zenon DEF InCalls
<1> QED BY <1>5, <1>6, <1>7 DEF Running

\* Shown does not look at what is pending.
LEMMA ShownPending ==
  ASSUME NEW p \in Programs, NEW k, NEW l \in Lcds, NEW x
  PROVE  Shown(p, k, [l EXCEPT !.pending = x]) <=> Shown(p, k, l)
<1> DEFINE m == [l EXCEPT !.pending = x]
<1>1. /\ m.twoLines = l.twoLines /\ m.on = l.on /\ m.inc = l.inc /\ m.shift = l.shift
      /\ m.ddram = l.ddram /\ m.addr = l.addr
  BY DEF Lcds
<1> HIDE DEF m
<1>2. Shown(p, k, m) <=> Shown(p, k, l)
  BY <1>1, Zenon DEF Shown
<1> QED BY <1>2 DEF m

\* Dropping what is pending is a change of that field only.
LEMMA NothingPending ==
  ASSUME NEW l \in Lcds, l.mode4
  PROVE  /\ [l EXCEPT !.pending = NoNibble] \in Lcds
         /\ [l EXCEPT !.pending = NoNibble].mode4
         /\ [l EXCEPT !.pending = NoNibble].pending = NoNibble
BY DEF Lcds, NoNibble

\* A byte of a call preserves the invariant; with its sixth byte the call is
\* executed.
LEMMA StepCall ==
  ASSUME IInv, WriteByte, pc > Len(Ladder(prog))
  PROVE  Running'
<1> DEFINE L == Len(Ladder(prog))
           n == Len(Calls(prog))
           k == CallsDone
           call == Calls(prog)[k + 1]
<1>1. /\ prog \in Programs /\ prog' = prog /\ pc \in 1 .. Len(Bytes(prog)) /\ pc' = pc + 1
      /\ port' = Bytes(prog)[pc] /\ lcd \in Lcds
  BY Written DEF IInv, TypeOK
<1>2. L \in {8, 24} /\ pc \in Nat /\ pc > L
  BY <1>1, LadderShape
<1>3. (pc + 1) - 1 = pc /\ ~(pc + 1 <= L + 1)
  <2> HIDE DEF L
  <2> QED BY <1>2
<1>4. /\ k \in 0 .. n - 1 /\ Phase \in 0 .. 5
      /\ call \in CallSet
      /\ Phase \notin {2, 5} => lcd' = lcd
      /\ Phase = 2 => lcd' = [lcd EXCEPT !.pending = call.v \div 16]
      /\ Phase = 5 => lcd' = Execute([lcd EXCEPT !.pending = NoNibble], call.rs, call.v)
      /\ Phase < 5 => CallsDone' = k /\ Phase' = Phase + 1
      /\ Phase = 5 => CallsDone' = k + 1 /\ Phase' = 0
  BY CallWrite, Zenon
<1>5. prog # NoProgram
  BY <1>1, NoProgramAssumption
<1>6. /\ lcd.mode4
      /\ lcd.pending = IF Phase < 3 THEN NoNibble ELSE call.v \div 16
      /\ Shown(prog, k, lcd)
  BY <1>2, <1>5 DEF IInv, Running, InCalls
<1>7. OnPins'
  BY <1>1, <1>3, Zenon DEF OnPins
<1>8. OnLadder'
  BY <1>1, <1>3, Zenon DEF OnLadder
<1> DEFINE half == call.v \div 16
<1> SUFFICES /\ lcd'.mode4
             /\ lcd'.pending = IF Phase' < 3 THEN NoNibble ELSE Calls(prog)[CallsDone' + 1].v \div 16
             /\ Shown(prog, CallsDone', lcd')
  BY <1>1, <1>7, <1>8, Zenon DEF Running, InCalls
<1>9. CASE Phase = 5
  <2> DEFINE c == [lcd EXCEPT !.pending = NoNibble]
  <2>1. c \in Lcds /\ c.mode4 /\ c.pending = NoNibble
    <3>1. lcd \in Lcds /\ lcd.mode4
      BY <1>1, <1>6, Zenon
    <3> QED BY <3>1, NothingPending, Zenon
  <2>2. Shown(prog, k, c)
    BY <1>1, <1>6, ShownPending, Zenon
  <2> HIDE DEF c
  <2>3. lcd'.mode4 /\ Shown(prog, k + 1, lcd')
    <3>1. Execute(c, call.rs, call.v).mode4 /\ Shown(prog, k + 1, Execute(c, call.rs, call.v))
      <4> HIDE DEF k
      <4> QED BY <1>1, <1>4, <2>1, <2>2, ShownStep, Zenon
    <3> QED BY <1>4, <1>9, <3>1, Zenon DEF c
  <2>4. lcd'.pending = NoNibble
    <3>1. call.rs \in {0, 1} /\ call.v \in 0 .. 255
      <4> HIDE DEF call
      <4> QED BY <1>4 DEF CallSet
    <3>2. Execute(c, call.rs, call.v).pending = c.pending
      <4> DEFINE rs == call.rs
                 v == call.v
      <4>1. rs \in {0, 1} /\ v \in 0 .. 255
        BY <3>1, Zenon
      <4> HIDE DEF rs, v
      <4>2. Execute(c, rs, v).pending = c.pending
        BY <2>1, <4>1, ExecuteType
      <4> QED BY <4>2 DEF rs, v
    <3> QED BY <1>4, <1>9, <2>1, <3>2, Zenon DEF c
  <2>5. CallsDone' = k + 1 /\ Phase' = 0 /\ 0 < 3
    BY <1>4, <1>9
  <2> QED BY <2>3, <2>4, <2>5, Zenon
<1>10. CASE Phase = 2
  <2>1. lcd' = [lcd EXCEPT !.pending = half] /\ CallsDone' = k /\ Phase' = 3
    <3> HIDE DEF half
    <3> QED BY <1>4, <1>10 DEF half
  <2>2. Shown(prog, k, lcd')
    BY <1>1, <1>6, <2>1, ShownPending, Zenon
  <2>3. lcd'.mode4 /\ lcd'.pending = half
    <3> HIDE DEF half
    <3> QED BY <1>1, <1>6, <2>1 DEF Lcds
  <2>4. ~(Phase' < 3)
    BY <2>1
  <2> QED BY <2>1, <2>2, <2>3, <2>4, Zenon
<1>11. CASE Phase \in {0, 1, 3, 4}
  <2>1. lcd' = lcd /\ CallsDone' = k /\ (Phase' < 3 <=> Phase < 3)
    BY <1>4, <1>11
  <2> QED BY <1>6, <2>1, Zenon
<1> QED BY <1>4, <1>9, <1>10, <1>11

\* Every step preserves the invariant.
LEMMA IInvStep == IInv /\ [Next]_vars => IInv'
<1> SUFFICES ASSUME IInv, [Next]_vars PROVE IInv'
  OBVIOUS
<1>1. TypeOK'
  BY TypeStep DEF IInv
<1>2. ASSUME NEW p \in Programs, Start(p) PROVE Running'
  <2>1. prog' = p /\ pc' = 1 /\ lcd' = lcd
    BY <1>2 DEF Start
  <2>2. Len(Ladder(p)) \in {8, 24} /\ Width(p) \in {2, 3} /\ Modes(p)[1] = Anywhere
    BY LadderShape
  <2>3. Mode(lcd) \in Anywhere
    BY DEF IInv, TypeOK, Mode, Anywhere, EightBit, Lcds, NoNibble
  <2>4. (1 - 1) \div Width(p) + 1 = 1
    BY <2>2
  <2>5. OnLadder'
    <3>1. Mode(lcd') \in Modes(p)[(1 - 1) \div Width(p) + 1]
      BY <2>1, <2>2, <2>3, <2>4, Zenon
    <3> QED BY <2>1, <3>1, Zenon DEF OnLadder
  <2>6. ~(1 > 1) /\ ~(1 > Len(Ladder(p)))
    <3> DEFINE L == Len(Ladder(p))
    <3>1. L \in {8, 24}
      BY <2>2, Zenon
    <3> HIDE DEF L
    <3>2. ~(1 > 1) /\ ~(1 > L)
      BY <3>1
    <3> QED BY <3>2, Zenon DEF L
  <2>7. OnPins' /\ InCalls'
    BY <2>1, <2>6, Zenon DEF OnPins, InCalls
  <2> QED BY <2>5, <2>7 DEF Running
<1>3. ASSUME WriteByte PROVE Running'
  <2>1. pc \in Nat /\ Len(Ladder(prog)) \in {8, 24}
    BY <1>3, Written, LadderShape DEF IInv
  <2>2. pc <= Len(Ladder(prog)) \/ pc > Len(Ladder(prog))
    <3> DEFINE L == Len(Ladder(prog))
    <3> HIDE DEF L
    <3>1. pc <= L \/ pc > L
      BY <2>1 DEF L
    <3> QED BY <3>1 DEF L
  <2> QED BY <1>3, <2>2, StepLadder, StepCall
<1>4. ASSUME Interrupted \/ Finish PROVE Running'
  BY <1>4 DEF Interrupted, Finish, Running
<1>5. ASSUME UNCHANGED vars PROVE Running'
  BY <1>5 DEF IInv, vars, Running, OnPins, OnLadder, InCalls, Phase, CallsDone
<1>6. Running'
  BY <1>2, <1>3, <1>4, <1>5 DEF Next
<1> QED BY <1>1, <1>6 DEF IInv

\* The invariant holds in every state that can be reached.
LEMMA IInvCorrect == Spec => []IInv
BY IInvInit, IInvStep, PTL DEF Spec

-----------------------------------------------------------------------------
(***************************************************************************)
(* The theorems.                                                           *)
(***************************************************************************)
\* Whatever the previous run left behind (any byte on the pins, EN high, half an
\* instruction pending, 8-bit mode), after the ladder of either driver the
\* controller is in 4-bit mode with nothing pending whenever the driver stands
\* between two calls.
THEOREM StaysInStep == Spec => []InStep
<1>1. IInv => InStep
  <2> SUFFICES ASSUME IInv, Between PROVE lcd.mode4 /\ lcd.pending = NoNibble
    BY DEF InStep
  <2>1. Phase < 3
    BY DEF Between, Phase
  <2> QED BY <2>1 DEF Between, IInv, Running, InCalls
<1> QED BY <1>1, IInvCorrect, PTL

\* A run of either driver that gets to its last byte leaves both lines at the
\* start of the two rows, the rest of the observed cells blank, and the display
\* on, with two lines and unshifted.
THEOREM FinishedRunShowsText == Spec => []TextShown
<1>1. IInv => TextShown
  <2> SUFFICES ASSUME IInv, prog # NoProgram, pc = Len(Bytes(prog)) + 1
               PROVE  lcd.ddram = Text /\ lcd.on /\ lcd.twoLines /\ ~lcd.shift
    BY DEF TextShown
  <2> DEFINE L == Len(Ladder(prog))
             n == Len(Calls(prog))
  <2>1. prog \in Programs
    BY DEF IInv, TypeOK
  <2>2. L \in {8, 24} /\ n \in Nat /\ Len(Bytes(prog)) = L + 6 * n
    BY <2>1, LadderShape, CallsType, BytesAt
  <2>3. pc > L /\ ~(pc <= L) /\ pc - 1 - L = 6 * n /\ (6 * n) \div 6 = n
    <3> HIDE DEF L, n
    <3> QED BY <2>2
  <2>4. CallsDone = n
    BY <2>3, Zenon DEF CallsDone
  <2>5. Shown(prog, n, lcd)
    BY <2>3, <2>4, Zenon DEF IInv, Running, InCalls
  <2> QED BY <2>1, <2>5, ShownAtEnd, Zenon
<1> QED BY <1>1, IInvCorrect, PTL

\* The abstract display executes what the controller executes.
LEMMA SameExecute ==
  ASSUME NEW l, NEW rs, NEW v
  PROVE  Display!Execute(l, rs, v) = Execute(l, rs, v)
BY Zenon DEF Display!Execute, Execute, Display!Character, Character, Display!Instruction, Instruction,
       Display!NextAddr, NextAddr, Display!Bit, Bit

\* The refinement: no driver runs, no call is done.
LEMMA DisplayInit == Init => Display!Init
BY DEF Init, Display!Init, CallsDone

\* The last byte of a call is its execution, the other bytes of a call change
\* nothing the callers see, and everything else is a step out of step.
LEMMA DisplayStep == IInv /\ [Next]_vars => [Display!Next]_(Display!vars)
<1> SUFFICES ASSUME IInv, [Next]_vars PROVE [Display!Next]_(Display!vars)
  OBVIOUS
<1> DEFINE L == Len(Ladder(prog))
           shown == [lcd EXCEPT !.pending = NoNibble]
           synced == prog # NoProgram /\ pc > L
<1>1. ASSUME NEW p \in Programs, Start(p) PROVE Display!Unsynced
  <2>1. prog = NoProgram /\ prog' = p /\ pc' = 1 /\ p # NoProgram
    BY <1>1, NoProgramAssumption DEF Start
  <2>2. Len(Ladder(p)) \in {8, 24}
    BY LadderShape
  <2>3. CallsDone' = 0
    <3> DEFINE M == Len(Ladder(p))
    <3>1. M \in {8, 24}
      BY <2>2
    <3> HIDE DEF M
    <3>2. 1 <= M
      BY <3>1
    <3> QED BY <2>1, <3>2, Zenon DEF CallsDone, M
  <2> QED BY <2>1, <2>3, Zenon DEF Display!Unsynced
<1>2. ASSUME Interrupted \/ Finish PROVE Display!Unsynced
  <2>1. prog' = NoProgram /\ lcd' = lcd
    BY <1>2 DEF Interrupted, Finish
  <2>2. CallsDone' = 0
    BY <2>1, Zenon DEF CallsDone
  <2> QED BY <2>1, <2>2, Zenon DEF Display!Unsynced
<1>3. ASSUME WriteByte, pc <= L PROVE Display!Unsynced
  <2>1. prog \in Programs /\ prog' = prog /\ pc' = pc + 1 /\ pc \in Nat /\ prog # NoProgram
    BY <1>3, Written, NoProgramAssumption DEF IInv
  <2>2. L \in {8, 24}
    BY <2>1, LadderShape
  <2>3. ~(pc > L) /\ ~(pc' <= L) => pc' - 1 - L = 0
    <3> HIDE DEF L
    <3> QED BY <1>3, <2>1, <2>2
  <2>4. ~(pc > L)
    <3> HIDE DEF L
    <3> QED BY <1>3, <2>1, <2>2
  <2>5. CallsDone' = 0
    <3>1. 0 \div 6 = 0
      OBVIOUS
    <3> QED BY <2>1, <2>3, <2>4, <3>1, Zenon DEF CallsDone
  <2> QED BY <2>1, <2>4, <2>5, Zenon DEF Display!Unsynced
<1>4. ASSUME WriteByte, pc > L PROVE [Display!ExecuteCall]_(Display!vars)
  <2> DEFINE n == Len(Calls(prog))
             k == CallsDone
             call == Calls(prog)[k + 1]
             v == call.v
             rs == call.rs
  <2>1. prog \in Programs /\ prog' = prog /\ pc' = pc + 1 /\ pc \in Nat /\ prog # NoProgram /\ lcd \in Lcds
    BY <1>4, Written, NoProgramAssumption DEF IInv, TypeOK
  <2>2. L \in {8, 24} /\ n \in Nat
    BY <2>1, LadderShape, CallsType
  <2>3. pc' > L
    <3> HIDE DEF L
    <3> QED BY <1>4, <2>1, <2>2
  <2>4. /\ k \in 0 .. n - 1 /\ Phase \in 0 .. 5
        /\ call \in CallSet
        /\ Phase \notin {2, 5} => lcd' = lcd
        /\ Phase = 2 => lcd' = [lcd EXCEPT !.pending = v \div 16]
        /\ Phase = 5 => lcd' = Execute([lcd EXCEPT !.pending = NoNibble], rs, v)
        /\ Phase < 5 => CallsDone' = k
        /\ Phase = 5 => CallsDone' = k + 1
    BY <1>4, CallWrite, Zenon
  <2>5. rs \in {0, 1} /\ v \in 0 .. 255
    <3> HIDE DEF call
    <3> QED BY <2>4 DEF CallSet
  <2>6. synced /\ synced'
    BY <1>4, <2>1, <2>3, Zenon
  <2>7. CASE Phase = 5
    <3> HIDE DEF v, rs
    <3>1. shown \in Lcds /\ shown.pending = NoNibble
      BY <2>1 DEF Lcds, NoNibble
    <3>2. lcd' \in Lcds /\ lcd'.pending = NoNibble
      <4>1. lcd' = Execute(shown, rs, v)
        BY <2>4, <2>7, Zenon
      <4> HIDE DEF shown
      <4>2. Execute(shown, rs, v) \in Lcds /\ Execute(shown, rs, v).pending = shown.pending
        BY <2>5, <3>1, ExecuteType
      <4> QED BY <3>1, <4>1, <4>2, Zenon
    <3>3. shown' = lcd'
      BY <3>2 DEF Lcds
    <3>4. shown' = Display!Execute(shown, rs, v)
      BY <2>4, <2>7, <3>3, SameExecute, Zenon
    <3>5. k < n /\ CallsDone' = k + 1
      <4> HIDE DEF k, n
      <4> QED BY <2>2, <2>4, <2>7 DEF k
    <3>6. Display!ExecuteCall
      BY <2>1, <2>6, <3>4, <3>5, Zenon DEF Display!ExecuteCall, v, rs
    <3> QED BY <3>6
  <2>8. CASE Phase # 5
    <3>1. shown' = shown
      <4>1. CASE Phase = 2
        <5> HIDE DEF v
        <5>1. lcd' = [lcd EXCEPT !.pending = v \div 16]
          BY <2>4, <4>1, Zenon
        <5> QED BY <2>1, <5>1 DEF Lcds
      <4>2. CASE Phase # 2
        <5>1. lcd' = lcd
          BY <2>4, <2>8, <4>2
        <5> QED BY <5>1, Zenon
      <4> QED BY <4>1, <4>2
    <3>2. CallsDone' = CallsDone
      <4>1. Phase < 5
        BY <2>4, <2>8
      <4> QED BY <2>4, <4>1, Zenon
    <3>3. synced' <=> synced
      BY <2>6
    <3>4. synced' = synced
      BY <2>6
    <3> QED BY <2>1, <3>1, <3>2, <3>4, Zenon DEF Display!vars
  <2> QED BY <2>7, <2>8
<1>5. ASSUME UNCHANGED vars PROVE UNCHANGED Display!vars
  BY <1>5 DEF vars, Display!vars, CallsDone
<1>6. pc <= L \/ pc > L \/ ~WriteByte
  <2> SUFFICES ASSUME WriteByte PROVE pc <= L \/ pc > L
    OBVIOUS
  <2>1. pc \in Nat /\ L \in {8, 24}
    BY Written, LadderShape DEF IInv
  <2> HIDE DEF L
  <2> QED BY <2>1
<1> QED BY <1>1, <1>2, <1>3, <1>4, <1>5, <1>6 DEF Next, Display!Next

\* The bytes of both drivers implement the display of CallDisplay: after the
\* reset, every call is executed once, whole, and in the order of the calls, and
\* a run that was interrupted is never resumed.
THEOREM CallsAreExecutedInOrder == Spec => CallsAreAtomic
BY DisplayInit, DisplayStep, IInvCorrect, PTL DEF Spec, CallsAreAtomic, Display!Spec
=============================================================================

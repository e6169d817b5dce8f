--------------------------------- MODULE Crc8 ---------------------------------
(***************************************************************************)
(* The checksum that an SHT30 sends behind each 16 bit word: how sht30.c   *)
(* computes it, the remainder that defines it (polynomial 0x31, initial     *)
(* value 0xff), and what of a word that noise has hit is printed.  A byte  *)
(* or a word is the set of the positions of its bits that are 1.           *)
(***************************************************************************)
EXTENDS Integers

Xor(a, b) == (a \ b) \cup (b \ a)

HighByte(word) == {b - 8 : b \in word \cap 8 .. 15}
LowByte(word) == word \cap 0 .. 7

\* One round of the inner loop: crc << 1 within eight bits, and ^ 0x31 if bit 7 was 1.
Shift(crc) ==
  Xor({b + 1 : b \in crc \cap 0 .. 6}, IF 7 \in crc THEN {5, 4, 0} ELSE {})

EightShifts(crc) ==
  Shift(Shift(Shift(Shift(Shift(Shift(Shift(Shift(crc))))))))

\* Mutant: the low byte is left out.
SenderCrcCalculateHigh(word) == EightShifts(Xor(0 .. 7, HighByte(word)))

\* sender_crc_calculate: from 0xff, each byte is added and shifted through.
SenderCrcCalculate(word) ==
  EightShifts(Xor(EightShifts(Xor(0 .. 7, HighByte(word))), LowByte(word)))

\* A step of the long division by x^8 + x^5 + x^4 + 1, which takes the term x^i away.
Reduce(rest, i) == IF i \in rest THEN Xor(rest, {i, i - 3, i - 4, i - 8}) ELSE rest

FourReductions(rest, i) == Reduce(Reduce(Reduce(Reduce(rest, i), i - 1), i - 2), i - 3)

Rest(a) ==
  FourReductions(FourReductions(FourReductions(FourReductions(a, 23), 19), 15), 11)

\* The remainder of word * x^8, with its first eight bits inverted.
Remainder(word) == Rest(Xor({b + 8 : b \in word}, 16 .. 23))

\* Noise flips up to three of the 24 bits of a word and its checksum, or any within
\* eight in a row.
ThreeBits == {{at[1], at[2], at[3]} : at \in [1 .. 3 -> 0 .. 23]}
Burst(place) == {{b + place : b \in bits} : bits \in SUBSET (0 .. 7)}
Noise == {{}} \cup ThreeBits \cup UNION {Burst(place) : place \in 0 .. 16}

\* What is printed of a word, received with its checksum under noise.
PrintedOf(word, noise) ==
  LET sent == {b + 8 : b \in word} \cup Remainder(word)
      received == Xor(sent, noise)
      data == {b - 8 : b \in received \cap 8 .. 23}
  IN IF SenderCrcCalculate(data) = received \cap 0 .. 7 THEN {data} ELSE {}
==============================================================================

-------------------------- MODULE BusProgramsProofs --------------------------
(***************************************************************************)
(* Proofs about BusPrograms for every number of processes, whichever of    *)
(* the programs they run: what a program tells of its transfers is so, and *)
(* what it prints answers its own request or arrived intact, whatever word *)
(* the sensor measured.                                                    *)
(***************************************************************************)
EXTENDS BusPrograms, SequenceTheorems, TLAPS

Replies == {"idle", "answer", "version"}

Labels == {"open", "configure", "transfer", "done", "exited", "failed", "read", "sleep"}

\* The types of what a process keeps.
Typed ==
  /\ program \in [Processes -> DOMAIN Programs]
  /\ pc \in [Processes -> Labels]
  /\ step \in [Processes -> Nat \ {0}]
  /\ fd \in [Processes -> {"none", "device", "stdin", "closed"}]
  /\ got = [p \in Processes |-> got[p]]
  /\ lsb_first \in BOOLEAN /\ reply \in Replies

\* A process is at one of its settings or transfers; only sht30 loops, for ever.
Place(p) ==
  /\ pc[p] = "configure" => step[p] \in 1 .. Len(P(p).settings) /\ fd[p] = "device"
  /\ pc[p] = "transfer" => step[p] \in 1 .. Len(P(p).transfers)
  /\ pc[p] \in {"read", "sleep"} => program[p] = "sht30"
  /\ pc[p] = "done" => program[p] # "sht30"

\* A program that has got past its first setting has reset the bit order.
BitOrder(p) ==
  /\ P(p).bus = "spi" /\ fd[p] = "device"
  /\ pc[p] = "transfer" \/ (pc[p] = "configure" /\ step[p] > 1)
  => ~lsb_first

\* The transfers before the next one were heard.
Heard(p) ==
  program[p] # "sht30" =>
    /\ pc[p] = "transfer" => \A i \in 1 .. step[p] - 1 : <<p, i>> \in heard
    /\ pc[p] = "done" => \A i \in 1 .. Len(P(p).transfers) : <<p, i>> \in heard

\* The next transfer and those after it were not; sht30's are not counted.
Unheard(p) ==
  /\ pc[p] \in {"open", "configure", "exited"} \/ program[p] = "sht30" =>
       \A i \in 1 .. Len(P(p).transfers) : <<p, i>> \notin heard
  /\ pc[p] = "transfer" => \A i \in step[p] .. Len(P(p).transfers) : <<p, i>> \notin heard
  /\ pc[p] = "failed" => \E i \in 1 .. Len(P(p).transfers) : <<p, i>> \notin heard

\* Between the two transfers of spi_master_rx the answer waits in the device.
Answered(p) ==
  /\ program[p] = "spi_master_rx" /\ p \notin disturbed =>
       /\ pc[p] = "transfer" /\ step[p] = 2 => reply = "answer"
       /\ pc[p] = "done" => got[p][1] = "answer"
  /\ program[p] = "read_ver_reg" /\ pc[p] = "done" => Len(got[p]) = 2 /\ got[p][2] = "version"

Good(p) == Place(p) /\ BitOrder(p) /\ Heard(p) /\ Unheard(p) /\ Answered(p)

IInv == Typed /\ \A p \in Processes : Good(p)

-----------------------------------------------------------------------------
(***************************************************************************)
(* The programs and the bytes.                                             *)
(***************************************************************************)
\* Every program has settings and transfers, and on the SPI bus sets the mode first.
LEMMA ProgramFacts ==
  ASSUME NEW f \in DOMAIN Programs
  PROVE  /\ Len(Programs[f].settings) \in {1, 4} /\ Len(Programs[f].transfers) \in {1, 2}
         /\ Programs[f].bus = "spi" => f # "sht30" /\ Programs[f].settings[1] = "WR_MODE"
         /\ Programs[f].bus # "spi" => f \in {"pcf8574", "sht30"}
         /\ f = "sht30" => Len(Programs[f].transfers) = 2
         /\ Programs[f].unopened \in {"stdin", "exited", "failed"}
         /\ Programs[f].unset \in {"close", "exited", "failed"}
BY DEF Programs, SpiMasterTx, SpiMasterTxCpp, SpiMasterTxPy, SpiMasterTxClass,
       SpiMasterTxCstruct, SpiMasterTxStruct, SpiMasterRx, ReadVerReg, Pcf8574, Sht30,
       FourSettings

\* The transfers of the two programs that receive.
LEMMA ReceiverFacts ==
  /\ Len(SpiMasterRx.transfers) = 2
  /\ Len(SpiMasterRx.transfers[1]) = 1 /\ SpiMasterRx.transfers[1][1] = "REQ_SND"
  /\ Len(SpiMasterRx.transfers[2]) = 2
  /\ Len(ReadVerReg.transfers) = 1
  /\ Len(ReadVerReg.transfers[1]) = 2 /\ ReadVerReg.transfers[1][1] = "VER_REG"
  /\ Programs["spi_master_rx"] = SpiMasterRx /\ Programs["read_ver_reg"] = ReadVerReg
BY DEF SpiMasterRx, ReadVerReg, Programs

\* A transfer on the SPI bus is one or two units long.
LEMMA TransferLengths ==
  ASSUME NEW f \in DOMAIN Programs, f # "sht30", NEW i \in 1 .. Len(Programs[f].transfers)
  PROVE  Len(Programs[f].transfers[i]) \in {1, 2}
<1>1. /\ Len(SpiMasterTx.transfers) = 1 /\ Len(SpiMasterTx.transfers[1]) = 1
      /\ SpiMasterTxCpp.transfers = SpiMasterTx.transfers
      /\ SpiMasterTxPy.transfers = SpiMasterTx.transfers
  BY DEF SpiMasterTx, SpiMasterTxCpp, SpiMasterTxPy
<1>2. Len(SpiMasterTxClass.transfers) = 1 /\ Len(SpiMasterTxClass.transfers[1]) = 1
  BY DEF SpiMasterTxClass, SpiMasterTxPy
<1>3. Len(SpiMasterTxCstruct.transfers) = 1 /\ Len(SpiMasterTxCstruct.transfers[1]) = 1
  BY DEF SpiMasterTxCstruct, SpiMasterTxPy
<1>4. Len(SpiMasterTxStruct.transfers) = 1 /\ Len(SpiMasterTxStruct.transfers[1]) = 1
  BY DEF SpiMasterTxStruct
<1>5. Len(Pcf8574.transfers) = 1 /\ Len(Pcf8574.transfers[1]) = 1
  BY DEF Pcf8574
<1>6. Programs[f].transfers \in {SpiMasterTx.transfers, SpiMasterTxClass.transfers,
        SpiMasterTxCstruct.transfers, SpiMasterTxStruct.transfers, SpiMasterRx.transfers,
        ReadVerReg.transfers, Pcf8574.transfers}
  BY <1>1 DEF Programs
<1>7. \A n \in {1, 2} : \A k \in 1 .. n : k = 1 \/ (k = 2 /\ n = 2)
  OBVIOUS
<1> QED BY <1>1, <1>2, <1>3, <1>4, <1>5, <1>6, <1>7, ReceiverFacts

\* A transfer shifts in what the device held, and then what it answered to all
\* bytes but the last.
LEMMA ShiftedIn ==
  ASSUME NEW S, NEW r \in S, NEW n \in {1, 2}, NEW answers \in [1 .. n -> S]
  PROVE  /\ Len(SubSeq(<<r>> \o answers, 1, n)) = n
         /\ SubSeq(<<r>> \o answers, 1, n)[1] = r
         /\ n = 2 => SubSeq(<<r>> \o answers, 1, n)[2] = answers[1]
<1> DEFINE all == <<r>> \o answers
<1>1. answers \in Seq(S) /\ Len(answers) = n
  BY LenProperties, SeqDef
<1>2. <<r>> \in Seq(S) /\ Len(<<r>>) = 1 /\ <<r>>[1] = r
  OBVIOUS
<1>3. all \in Seq(S) /\ Len(all) = n + 1
      /\ \A i \in 1 .. n + 1 : all[i] = IF i <= 1 THEN <<r>>[i] ELSE answers[i - 1]
  BY <1>1, <1>2, ConcatProperties
<1>4. all[1] = r /\ all[2] = answers[1]
  BY <1>2, <1>3
<1> HIDE DEF all
<1>5. Len(SubSeq(all, 1, n)) = n /\ \A i \in 1 .. n : SubSeq(all, 1, n)[i] = all[i]
  BY <1>3, SubSeqProperties
<1> QED BY <1>4, <1>5 DEF all

-----------------------------------------------------------------------------
(***************************************************************************)
(* Steps of a process.                                                     *)
(***************************************************************************)
\* Goto moves one process, whose program stays what it is.
LEMMA GotoMoves ==
  ASSUME Typed, NEW p \in Processes, NEW label, NEW n, Goto(p, label, n)
  PROVE  /\ pc' = [pc EXCEPT ![p] = label] /\ step' = [step EXCEPT ![p] = n]
         /\ pc'[p] = label /\ step'[p] = n /\ program' = program
         /\ \A o \in Processes \ {p} : pc'[o] = pc[o] /\ step'[o] = step[o]
         /\ P(p)' = P(p)
  BY DEF Goto, Typed, P

\* What is good of every other process stays so, as long as the bit order is not
\* inverted, what was heard of it does not change, and whoever takes the device's reply is
\* held to have disturbed those who wait for one.
LEMMA OthersStayGood ==
  ASSUME IInv, NEW p \in Processes, NEW o \in Processes \ {p},
         program' = program,
         pc'[o] = pc[o], step'[o] = step[o], fd'[o] = fd[o], got'[o] = got[o],
         lsb_first' => lsb_first, \A i : <<o, i>> \in heard' <=> <<o, i>> \in heard, disturbed \subseteq disturbed',
         reply' = reply \/ (pc[o] = "transfer" /\ step[o] > 1 => o \in disturbed')
  PROVE  Good(o)'
<1>1. P(o)' = P(o) /\ Good(o)
  BY DEF P, IInv
<1>2. Place(o)'
  BY <1>1 DEF Good, Place
<1>3. BitOrder(o)'
  BY <1>1 DEF Good, BitOrder
<1>4. Heard(o)'
  BY <1>1 DEF Good, Heard
<1>5. Unheard(o)'
  BY <1>1 DEF Good, Unheard
<1>6. Answered(o)'
  BY <1>1 DEF Good, Answered
<1> QED BY <1>2, <1>3, <1>4, <1>5, <1>6 DEF Good

\* A process that leaves the bus alone keeps the others good.
LEMMA AloneStep ==
  ASSUME IInv, NEW p \in Processes, NEW label, NEW n, Goto(p, label, n), Typed', Good(p)',
         \A o \in Processes \ {p} : fd'[o] = fd[o],
         UNCHANGED <<got, disturbed, reply, heard>>, lsb_first' => lsb_first
  PROVE  IInv'
<1>1. \A o \in Processes \ {p} : Good(o)'
  BY GotoMoves, OthersStayGood DEF IInv
<1> QED BY <1>1 DEF IInv

\* Opening the bus: a program without it is on standard input, and has sent nothing.
LEMMA OpenStep ==
  ASSUME IInv, NEW p \in Processes, Open(p)
  PROVE  IInv'
<1>1. UNCHANGED <<got, disturbed, lsb_first, reply, heard>> /\ Typed
  BY DEF Open, spiVars, IInv
<1>0. pc[p] = "open" /\ Good(p)
  BY DEF Open, IInv
<1>2. 1 \in 1 .. Len(P(p).settings) /\ 1 \in 1 .. Len(P(p).transfers) /\ 1 .. 1 - 1 = {}
  <2>1. Len(P(p).settings) \in {1, 4} /\ Len(P(p).transfers) \in {1, 2}
    BY <1>1, ProgramFacts DEF P, Typed
  <2>2. \A n \in {1, 2, 4} : 1 \in 1 .. n
    OBVIOUS
  <2>3. 1 .. 1 - 1 = {}
    OBVIOUS
  <2> QED BY <2>1, <2>2, <2>3, Zenon
<1>3. CASE Goto(p, "configure", 1) /\ fd' = [fd EXCEPT ![p] = "device"]
  <2>1. fd'[p] = "device" /\ \A o \in Processes \ {p} : fd'[o] = fd[o]
    BY <1>1, <1>3 DEF Typed
  <2>2. Typed'
    BY <1>1, <1>3, GotoMoves DEF Typed, Labels
  <2>3. Good(p)'
    BY <1>0, <1>1, <1>2, <1>3, <2>1, GotoMoves DEF Good, Place, BitOrder, Heard, Unheard, Answered
  <2> QED BY <1>1, <1>3, <2>1, <2>2, <2>3, AloneStep
<1>4. CASE P(p).unopened # "stdin" /\ Goto(p, P(p).unopened, 1) /\ fd' = fd
  <2>0. P(p).unopened \in {"exited", "failed"}
    BY <1>1, <1>4, ProgramFacts DEF P, Typed
  <2>1. Typed'
    BY <1>1, <1>4, <2>0, GotoMoves DEF Typed, Labels
  <2>2. Good(p)'
    BY <1>0, <1>1, <1>2, <1>4, <2>0, GotoMoves DEF Good, Place, BitOrder, Heard, Unheard, Answered
  <2> QED BY <1>1, <1>4, <2>1, <2>2, AloneStep
<1>5. CASE Goto(p, "transfer", 1) /\ fd' = [fd EXCEPT ![p] = "stdin"]
  <2>1. fd'[p] = "stdin" /\ \A o \in Processes \ {p} : fd'[o] = fd[o]
    BY <1>1, <1>5 DEF Typed
  <2>2. Typed'
    BY <1>1, <1>5, GotoMoves DEF Typed, Labels
  <2>3. Good(p)'
    BY <1>0, <1>1, <1>2, <1>5, <2>1, GotoMoves DEF Good, Place, BitOrder, Heard, Unheard, Answered
  <2> QED BY <1>1, <1>5, <2>1, <2>2, <2>3, AloneStep
<1> QED BY <1>3, <1>4, <1>5 DEF Open

\* A setting: the first one on the SPI bus leaves the most significant bit first.
LEMMA ConfigureStep ==
  ASSUME IInv, NEW p \in Processes, Configure(p)
  PROVE  IInv'
<1>1. /\ UNCHANGED <<got, disturbed, reply, heard>> /\ Typed /\ pc[p] = "configure"
      /\ Place(p) /\ BitOrder(p) /\ Unheard(p)
  BY DEF Configure, IInv, Good
<1>2. /\ Len(P(p).settings) \in {1, 4} /\ Len(P(p).transfers) \in {1, 2}
      /\ P(p).bus = "spi" => P(p).settings[1] = "WR_MODE"
  BY <1>1, ProgramFacts DEF P, Typed
<1>3. step[p] \in 1 .. Len(P(p).settings) /\ fd[p] = "device"
  BY <1>1 DEF Place
<1>4. CASE /\ NextSetting(p) /\ fd' = fd
           /\ lsb_first' = (lsb_first /\ P(p).settings[step[p]] # "WR_MODE")
  <2>1. lsb_first' => lsb_first
    BY <1>4
  <2>2. lsb_first' \in BOOLEAN
    BY <1>1, <1>4 DEF Typed
  <2>3. P(p).bus = "spi" => ~lsb_first'
    <3>1. step[p] = 1 \/ step[p] > 1
      BY <1>2, <1>3
    <3>2. CASE step[p] = 1
      BY <1>2, <1>4, <3>2
    <3>3. CASE step[p] > 1
      BY <1>1, <1>3, <2>1, <3>3 DEF BitOrder
    <3> QED BY <3>1, <3>2, <3>3
  <2>4. CASE step[p] = Len(P(p).settings)
    <3>1. Goto(p, "transfer", 1)
      BY <1>4, <2>4 DEF NextSetting
    <3>2. Typed'
      BY <1>1, <1>4, <2>2, <3>1, GotoMoves DEF Typed, Labels
    <3>3. 1 \in 1 .. Len(P(p).transfers) /\ 1 .. 1 - 1 = {}
      <4>1. \A n \in {1, 2} : 1 \in 1 .. n
        OBVIOUS
      <4>2. 1 .. 1 - 1 = {}
        OBVIOUS
      <4> QED BY <1>2, <4>1, <4>2, Zenon
    <3>4. Good(p)'
      BY <1>1, <2>3, <3>1, <3>3, GotoMoves DEF Good, Place, BitOrder, Heard, Unheard, Answered
    <3> QED BY <1>1, <1>4, <2>1, <3>1, <3>2, <3>4, AloneStep
  <2>5. CASE step[p] # Len(P(p).settings)
    <3>1. Goto(p, "configure", step[p] + 1)
      BY <1>4, <2>5 DEF NextSetting
    <3>2. step[p] + 1 \in 1 .. Len(P(p).settings) /\ step[p] + 1 \in Nat \ {0}
      BY <1>2, <1>3, <2>5
    <3>3. Typed'
      <4>1. /\ pc' = [pc EXCEPT ![p] = "configure"] /\ program' = program
            /\ step' = [step EXCEPT ![p] = step[p] + 1]
        BY <1>1, <3>1, GotoMoves
      <4>2. step' \in [Processes -> Nat \ {0}]
        BY <1>1, <3>2, <4>1 DEF Typed
      <4> QED BY <1>1, <1>4, <2>2, <4>1, <4>2 DEF Typed, Labels
    <3>4. Good(p)'
      BY <1>1, <1>3, <1>4, <2>3, <3>1, <3>2, GotoMoves DEF Good, Place, BitOrder, Heard, Unheard, Answered
    <3> QED BY <1>1, <1>4, <2>1, <3>1, <3>3, <3>4, AloneStep
  <2> QED BY <2>4, <2>5
<1>5. CASE P(p).unset # "close" /\ Goto(p, P(p).unset, 1) /\ fd' = fd /\ lsb_first' = lsb_first
  <2>0. P(p).unset \in {"exited", "failed"} /\ 1 \in 1 .. Len(P(p).transfers)
    <3>1. P(p).unset \in {"exited", "failed"}
      BY <1>1, <1>5, ProgramFacts DEF P, Typed
    <3>2. \A n \in {1, 2} : 1 \in 1 .. n
      OBVIOUS
    <3> QED BY <1>2, <3>1, <3>2
  <2>1. Typed'
    <3>1. P(p).unset \in Labels
      BY <2>0 DEF Labels
    <3>2. /\ pc' = [pc EXCEPT ![p] = P(p).unset] /\ step' = [step EXCEPT ![p] = 1]
          /\ program' = program
      BY <1>5 DEF Goto
    <3> QED BY <1>1, <1>5, <3>1, <3>2 DEF Typed
  <2>2. Good(p)'
    BY <1>1, <1>5, <2>0, GotoMoves DEF Good, Place, BitOrder, Heard, Unheard, Answered
  <2> QED BY <1>1, <1>5, <2>1, <2>2, AloneStep
<1>6. CASE Goto(p, "transfer", 1) /\ fd' = [fd EXCEPT ![p] = "closed"] /\ lsb_first' = lsb_first
  <2>1. fd'[p] = "closed" /\ \A o \in Processes \ {p} : fd'[o] = fd[o]
    BY <1>1, <1>6 DEF Typed
  <2>2. Typed'
    BY <1>1, <1>6, GotoMoves DEF Typed, Labels
  <2>3. Good(p)'
    BY <1>1, <1>2, <1>6, <2>1, GotoMoves DEF Good, Place, BitOrder, Heard, Unheard, Answered
  <2> QED BY <1>1, <1>6, <2>1, <2>2, <2>3, AloneStep
<1> QED BY <1>4, <1>5, <1>6 DEF Configure

\* After a transfer that was heard comes the next one, or all were heard.
LEMMA TransferMoves ==
  ASSUME IInv, NEW p \in Processes, pc[p] = "transfer", program[p] # "sht30", NextTransfer(p),
         heard' = heard \cup {<<p, step[p]>>}
  PROVE  /\ step[p] \in 1 .. Len(P(p).transfers) /\ Len(P(p).transfers) \in {1, 2}
         /\ \/ step[p] = Len(P(p).transfers) /\ Goto(p, "done", step[p])
            \/ step[p] < Len(P(p).transfers) /\ Goto(p, "transfer", step[p] + 1)
         /\ program' = program /\ pc' \in [Processes -> Labels]
         /\ step' \in [Processes -> Nat \ {0}]
         /\ \A o \in Processes \ {p} : pc'[o] = pc[o] /\ step'[o] = step[o]
         /\ disturbed \subseteq disturbed'
         /\ \A o \in Processes \ {p} : pc[o] = "transfer" /\ step[o] > 1 => o \in disturbed'
         /\ Place(p)' /\ Heard(p)' /\ Unheard(p)'
<1>1. Typed /\ Place(p) /\ Heard(p) /\ Unheard(p)
  BY DEF IInv, Good
<1>2. step[p] \in 1 .. Len(P(p).transfers) /\ Len(P(p).transfers) \in {1, 2}
  BY <1>1, ProgramFacts DEF Place, Typed, P
<1>3. step[p] = 1 \/ (step[p] = 2 /\ Len(P(p).transfers) = 2)
  <2>1. \A n \in {1, 2} : \A k \in 1 .. n : k = 1 \/ (k = 2 /\ n = 2)
    OBVIOUS
  <2> QED BY <1>2, <2>1, Zenon
<1>4. \/ step[p] = Len(P(p).transfers) /\ Goto(p, "done", step[p])
      \/ step[p] = 1 /\ Len(P(p).transfers) = 2 /\ Goto(p, "transfer", step[p] + 1)
  BY <1>2, <1>3 DEF NextTransfer
<1>5. \A i \in 1 .. step[p] : <<p, i>> \in heard'
  <2>1. \A i \in 1 .. step[p] - 1 : <<p, i>> \in heard
    BY <1>1 DEF Heard
  <2>2. \A i \in 1 .. step[p] : i \in 1 .. step[p] - 1 \/ i = step[p]
    BY <1>3
  <2> QED BY <2>1, <2>2
<1>6. CASE step[p] = Len(P(p).transfers) /\ Goto(p, "done", step[p])
  <2>1. /\ pc' = [pc EXCEPT ![p] = "done"] /\ step' = [step EXCEPT ![p] = step[p]]
        /\ program' = program /\ P(p)' = P(p) /\ pc'[p] = "done"
    BY <1>1, <1>6, GotoMoves
  <2>2. Place(p)' /\ Heard(p)' /\ Unheard(p)'
    BY <1>5, <1>6, <2>1 DEF Place, Heard, Unheard
  <2> QED BY <1>1, <1>2, <1>6, <2>1, <2>2 DEF NextTransfer, Typed, Labels
<1>7. CASE step[p] = 1 /\ Len(P(p).transfers) = 2 /\ Goto(p, "transfer", step[p] + 1)
  <2>1. /\ pc' = [pc EXCEPT ![p] = "transfer"] /\ step' = [step EXCEPT ![p] = 2]
        /\ program' = program /\ P(p)' = P(p) /\ pc'[p] = "transfer" /\ step'[p] = 2
    BY <1>1, <1>7, GotoMoves
  <2>2. 2 \in 1 .. Len(P(p).transfers) /\ \A i \in 1 .. 2 - 1 : i \in 1 .. step[p]
    BY <1>7
  <2>3. Place(p)' /\ Heard(p)'
    BY <1>5, <2>1, <2>2 DEF Place, Heard
  <2>5. Unheard(p)'
    <3>1. \A i \in 2 .. Len(P(p).transfers) : i \in step[p] .. Len(P(p).transfers) /\ i # step[p]
      BY <1>7
    <3>2. \A i \in 2 .. Len(P(p).transfers) : <<p, i>> \notin heard'
      BY <1>1, <3>1 DEF Unheard
    <3> QED BY <2>1, <3>2 DEF Unheard
  <2>4. step[p] < Len(P(p).transfers)
    BY <1>7
  <2> QED BY <1>1, <1>2, <1>7, <2>1, <2>3, <2>4, <2>5 DEF NextTransfer, Typed, Labels
<1> QED BY <1>4, <1>6, <1>7

\* A transfer on the SPI bus: most significant bit first, and whoever waits for a reply
\* is disturbed.
LEMMA SpiTransferStep ==
  ASSUME IInv, NEW p \in Processes, SpiTransfer(p)
  PROVE  IInv'
<1> DEFINE bytes == P(p).transfers[step[p]]
<1>1. /\ pc[p] = "transfer" /\ fd[p] = "device" /\ P(p).bus = "spi"
      /\ NextTransfer(p) /\ UNCHANGED <<fd, lsb_first, sensor>> /\ Typed /\ Good(p)
  BY DEF SpiTransfer, IInv
<1>2. ~lsb_first /\ program[p] \in DOMAIN Programs /\ program[p] # "sht30"
  BY <1>1, ProgramFacts DEF Good, BitOrder, Typed, P
<1>3. heard' = heard \cup {<<p, step[p]>>}
  BY <1>2 DEF SpiTransfer
<1>4. PICK answers \in [1 .. Len(bytes) -> Replies] :
        /\ \A i \in 1 .. Len(bytes) : answers[i] \in Answers(bytes[i])
        /\ got' = [got EXCEPT ![p] = SubSeq(<<reply>> \o answers, 1, Len(bytes))]
        /\ reply' = answers[Len(bytes)]
  BY DEF SpiTransfer, Replies
<1>5. /\ step[p] \in 1 .. Len(P(p).transfers) /\ Len(P(p).transfers) \in {1, 2}
      /\ \/ step[p] = Len(P(p).transfers) /\ Goto(p, "done", step[p])
         \/ step[p] < Len(P(p).transfers) /\ Goto(p, "transfer", step[p] + 1)
      /\ program' = program /\ pc' \in [Processes -> Labels]
      /\ step' \in [Processes -> Nat \ {0}]
      /\ \A o \in Processes \ {p} : pc'[o] = pc[o] /\ step'[o] = step[o]
      /\ disturbed \subseteq disturbed'
      /\ \A o \in Processes \ {p} : pc[o] = "transfer" /\ step[o] > 1 => o \in disturbed'
      /\ Place(p)' /\ Heard(p)' /\ Unheard(p)'
  BY <1>1, <1>2, <1>3, TransferMoves
<1>6. Len(bytes) \in {1, 2}
  BY <1>2, <1>5, TransferLengths DEF P
<1>7. got'[p] = SubSeq(<<reply>> \o answers, 1, Len(bytes)) /\ got' = [q \in Processes |-> got'[q]]
      /\ \A o \in Processes \ {p} : got'[o] = got[o]
  BY <1>1, <1>4 DEF Typed
<1>8. Len(got'[p]) = Len(bytes) /\ got'[p][1] = reply
      /\ (Len(bytes) = 2 => got'[p][2] = answers[1])
  <2> HIDE DEF bytes
  <2>1. reply \in Replies
    BY <1>1 DEF Typed
  <2>2. /\ Len(SubSeq(<<reply>> \o answers, 1, Len(bytes))) = Len(bytes)
        /\ SubSeq(<<reply>> \o answers, 1, Len(bytes))[1] = reply
        /\ Len(bytes) = 2 => SubSeq(<<reply>> \o answers, 1, Len(bytes))[2] = answers[1]
    BY <1>6, <2>1, ShiftedIn
  <2> QED BY <1>7, <2>2, Zenon
<1>9. reply' \in Replies
  <2> HIDE DEF bytes
  <2>1. Len(bytes) \in 1 .. Len(bytes)
    BY <1>6
  <2> QED BY <1>4, <2>1
<1>10. Typed'
  BY <1>1, <1>5, <1>7, <1>9 DEF Typed
<1>11. BitOrder(p)'
  BY <1>1, <1>2 DEF BitOrder
<1>12. Answered(p)'
  <2>1. ASSUME program[p] = "spi_master_rx"
        PROVE  p \notin disturbed' =>
                 /\ pc'[p] = "transfer" /\ step'[p] = 2 => reply' = "answer"
                 /\ pc'[p] = "done" => got'[p][1] = "answer"
    <3>1. P(p) = SpiMasterRx /\ Len(P(p).transfers) = 2
      BY <2>1, ReceiverFacts DEF P
    <3>2. CASE step[p] = 1
      <4>1. Len(bytes) = 1 /\ bytes[1] = "REQ_SND"
        BY <3>1, <3>2, ReceiverFacts
      <4>2. answers[1] = "answer" /\ reply' = answers[1]
        BY <1>2, <1>4, <4>1 DEF Answers
      <4>3. pc'[p] = "transfer"
        BY <1>1, <1>5, <3>1, <3>2, GotoMoves
      <4> QED BY <4>2, <4>3
    <3>3. CASE step[p] = 2
      <4>1. pc'[p] = "done"
        BY <1>1, <1>5, <3>1, <3>3, GotoMoves
      <4> QED BY <1>1, <1>5, <1>8, <2>1, <3>3, <4>1 DEF Good, Answered
    <3>4. step[p] = 1 \/ step[p] = 2
      BY <1>5, <3>1
    <3> QED BY <3>2, <3>3, <3>4
  <2>2. ASSUME program[p] = "read_ver_reg"
        PROVE  Len(got'[p]) = 2 /\ got'[p][2] = "version"
    <3>1. P(p) = ReadVerReg /\ step[p] = 1
      BY <1>5, <2>2, ReceiverFacts DEF P
    <3>2. Len(bytes) = 2 /\ bytes[1] = "VER_REG"
      BY <3>1, ReceiverFacts
    <3>3. answers[1] = "version"
      BY <1>2, <1>4, <3>2 DEF Answers
    <3> QED BY <1>8, <3>2, <3>3
  <2> QED BY <1>5, <2>1, <2>2 DEF Answered
<1>13. Good(p)'
  BY <1>5, <1>11, <1>12 DEF Good
<1>14. \A o \in Processes \ {p} : Good(o)'
  BY <1>1, <1>3, <1>5, <1>7, OthersStayGood
<1> QED BY <1>10, <1>13, <1>14 DEF IInv

\* The one transfer of pcf8574.
LEMMA I2cWriteStep ==
  ASSUME IInv, NEW p \in Processes, I2cWrite(p)
  PROVE  IInv'
<1>1. /\ pc[p] = "transfer" /\ program[p] = "pcf8574" /\ heard' = heard \cup {<<p, step[p]>>}
      /\ NextTransfer(p) /\ UNCHANGED <<fd, got, lsb_first, reply>> /\ Typed /\ Good(p)
  BY DEF I2cWrite, IInv
<1>2. /\ program' = program /\ pc' \in [Processes -> Labels]
      /\ step' \in [Processes -> Nat \ {0}]
      /\ \A o \in Processes \ {p} : pc'[o] = pc[o] /\ step'[o] = step[o]
      /\ disturbed \subseteq disturbed' /\ Place(p)' /\ Heard(p)' /\ Unheard(p)'
  BY <1>1, TransferMoves
<1>3. Typed'
  BY <1>1, <1>2 DEF Typed
<1>4. P(p)' = P(p) /\ P(p).bus = "i2c"
  BY <1>1, <1>2 DEF P, Programs, Pcf8574
<1>5. Good(p)'
  BY <1>1, <1>2, <1>4 DEF Good, BitOrder, Answered
<1>6. \A o \in Processes \ {p} : Good(o)'
  BY <1>1, <1>2, OthersStayGood
<1> QED BY <1>3, <1>5, <1>6 DEF IInv

\* A program that ends where a transfer fails has not made it; sht30 may also end where
\* it cannot read.
LEMMA ExitStep ==
  ASSUME IInv, NEW p \in Processes, UNCHANGED <<fd, spiVars, heard>>,
         \/ pc[p] = "transfer" /\ Goto(p, "failed", 1)
         \/ program[p] = "sht30" /\ Goto(p, "exited", 1)
  PROVE  IInv'
<1>1. Typed /\ Good(p) /\ UNCHANGED <<got, disturbed, lsb_first, reply>>
  BY DEF IInv, spiVars
<1>2. Typed'
  BY <1>1, GotoMoves DEF Typed, Labels
<1>3. pc[p] = "transfer" => \E i \in 1 .. Len(P(p).transfers) : <<p, i>> \notin heard
  <2> SUFFICES ASSUME pc[p] = "transfer"
               PROVE  \E i \in 1 .. Len(P(p).transfers) : <<p, i>> \notin heard
    OBVIOUS
  <2>1. step[p] \in 1 .. Len(P(p).transfers)
    BY <1>1 DEF Good, Place
  <2>2. step[p] \in step[p] .. Len(P(p).transfers)
    BY <2>1
  <2> QED BY <1>1, <2>1, <2>2 DEF Good, Unheard
<1>4. Good(p)'
  BY <1>1, <1>3, GotoMoves DEF Good, Place, BitOrder, Heard, Unheard, Answered
<1> QED BY <1>1, <1>2, <1>4, AloneStep

\* sht30 goes round its loop.
LEMMA LoopStep ==
  ASSUME IInv, NEW p \in Processes, program[p] = "sht30",
         NEW label \in {"transfer", "read", "sleep"}, Goto(p, label, 2),
         UNCHANGED <<fd, spiVars, heard>>
  PROVE  IInv'
<1>1. Typed /\ UNCHANGED <<got, disturbed, lsb_first, reply>>
  BY DEF IInv, spiVars
<1>2. /\ pc' = [pc EXCEPT ![p] = label] /\ step' = [step EXCEPT ![p] = 2] /\ program' = program
      /\ pc'[p] = label /\ step'[p] = 2 /\ P(p)' = P(p)
  BY <1>1, GotoMoves
<1>3. Typed'
  BY <1>1, <1>2 DEF Typed, Labels
<1>4. 2 \in 1 .. Len(P(p).transfers) /\ P(p).bus = "i2c"
  BY DEF P, Programs, Sht30
<1>5. Unheard(p)'
  <2>1. \A i \in 1 .. Len(P(p).transfers) : <<p, i>> \notin heard
    BY DEF IInv, Good, Unheard
  <2>2. \A i \in 2 .. Len(P(p).transfers) : i \in 1 .. Len(P(p).transfers)
    BY <1>4
  <2> QED BY <1>2, <2>1, <2>2 DEF Unheard
<1>6. Good(p)'
  BY <1>1, <1>2, <1>4, <1>5 DEF Good, Place, BitOrder, Heard, Answered
<1> QED BY <1>1, <1>3, <1>6, AloneStep

\* The calls of sht30's loop, and a transfer that fails.
LEMMA SensorStep ==
  ASSUME IInv, NEW p \in Processes,
         CommandWrite(p) \/ TransferFails(p) \/ Read(p) \/ ReadFails(p) \/ Sleep(p)
  PROVE  IInv'
<1>1. UNCHANGED <<fd, spiVars, heard>>
  BY DEF CommandWrite, TransferFails, Read, ReadFails, Sleep
<1>2. pc[p] \in {"read", "sleep"} => program[p] = "sht30"
  BY DEF IInv, Good, Place
<1>3. \/ pc[p] = "transfer" /\ Goto(p, "failed", 1)
      \/ program[p] = "sht30" /\ Goto(p, "exited", 1)
      \/ program[p] = "sht30" /\ \E label \in {"transfer", "read", "sleep"} : Goto(p, label, 2)
  BY <1>2 DEF CommandWrite, TransferFails, Read, ReadFails, Sleep
<1> QED BY <1>1, <1>3, ExitStep, LoopStep

-----------------------------------------------------------------------------
(***************************************************************************)
(* The checksum.  What the program shifts and what the sensor divides is   *)
(* linear in the bits: the checksum of a sum is the sum of the checksums,  *)
(* and noise is seen when its own bits leave a syndrome.                   *)
(***************************************************************************)
\* Eight bits.
Byte == SUBSET (0 .. 7)

\* What sender_crc_calculate computes with the initial value 0.
Linear(word) == EightShifts(Xor(EightShifts(HighByte(word)), LowByte(word)))

\* Of the 24 bits of a word and its checksum: the word, and what the checksum from the
\* initial value 0 differs by from the one that came.
Data(a) == {b - 8 : b \in a \cap 8 .. 23}
Syndrome(a) == Xor(Linear(Data(a)), a \cap 0 .. 7)


\* Adding nothing changes nothing, and a set added to itself is gone.
LEMMA XorEmpty ==
  ASSUME NEW a
  PROVE  Xor(a, {}) = a /\ Xor({}, a) = a /\ Xor(a, a) = {}
BY DEF Xor

\* Only equal sets cancel.
LEMMA XorEqual ==
  ASSUME NEW a, NEW b
  PROVE  Xor(a, b) = {} <=> a = b
BY DEF Xor

\* Bytes are closed under it.
LEMMA XorByte ==
  ASSUME NEW a \in Byte, NEW b \in Byte
  PROVE  Xor(a, b) \in Byte
BY DEF Xor, Byte

\* The order of the terms does not matter.
LEMMA XorSwap ==
  ASSUME NEW a, NEW b, NEW c, NEW d
  PROVE  Xor(Xor(a, b), Xor(c, d)) = Xor(Xor(a, c), Xor(b, d))
BY DEF Xor

\* A shift bit by bit: bit 7 comes out and turns bits 5, 4 and 0.
LEMMA ShiftBits ==
  ASSUME NEW c \in Byte
  PROVE  /\ Shift(c) \in Byte
         /\ 0 \in Shift(c) <=> 7 \in c
         /\ 1 \in Shift(c) <=> 0 \in c
         /\ 2 \in Shift(c) <=> 1 \in c
         /\ 3 \in Shift(c) <=> 2 \in c
         /\ 4 \in Shift(c) <=> ~(3 \in c <=> 7 \in c)
         /\ 5 \in Shift(c) <=> ~(4 \in c <=> 7 \in c)
         /\ 6 \in Shift(c) <=> 5 \in c
         /\ 7 \in Shift(c) <=> 6 \in c
<1> DEFINE up == {b + 1 : b \in c \cap 0 .. 6}
<1> USE DEF Byte
<1>1. /\ up \in SUBSET (1 .. 7) 
      /\ 1 \in up <=> 0 \in c
      /\ 2 \in up <=> 1 \in c
      /\ 3 \in up <=> 2 \in c
      /\ 4 \in up <=> 3 \in c
      /\ 5 \in up <=> 4 \in c
      /\ 6 \in up <=> 5 \in c
      /\ 7 \in up <=> 6 \in c
  OBVIOUS
<1> HIDE DEF up
<1>2. CASE 7 \in c
  <2>1. Shift(c) = Xor(up, {5, 4, 0})
    BY <1>2 DEF Shift, up
  <2> QED BY <1>1, <1>2, <2>1 DEF Xor
<1>3. CASE 7 \notin c
  <2>1. Shift(c) = Xor(up, {})
    BY <1>3 DEF Shift, up
  <2> QED BY <1>1, <1>3, <2>1 DEF Xor
<1> QED BY <1>2, <1>3

\* Bytes with the same bits are the same.
LEMMA SameByte ==
  ASSUME NEW a \in Byte, NEW b \in Byte,
         0 \in a <=> 0 \in b, 1 \in a <=> 1 \in b, 2 \in a <=> 2 \in b, 3 \in a <=> 3 \in b,
         4 \in a <=> 4 \in b, 5 \in a <=> 5 \in b, 6 \in a <=> 6 \in b, 7 \in a <=> 7 \in b
  PROVE  a = b
<1>1. \A x \in 0 .. 7 : x \in a <=> x \in b
  <2>1. \A x \in 0 .. 7 : x \in {0, 1, 2, 3, 4, 5, 6, 7}
    OBVIOUS
  <2> QED BY <2>1, Zenon
<1> QED BY <1>1 DEF Byte

\* A shift adds up: what it makes of a sum is the sum of what it makes of the terms.
LEMMA ShiftXor ==
  ASSUME NEW a \in Byte, NEW b \in Byte
  PROVE  Shift(Xor(a, b)) = Xor(Shift(a), Shift(b))
<1> DEFINE x == Xor(a, b)
           y == Xor(Shift(a), Shift(b))
<1>1. x \in Byte /\ Shift(a) \in Byte /\ Shift(b) \in Byte
      /\ y \in Byte /\ Shift(x) \in Byte
  <2>1. x \in Byte
    BY XorByte
  <2>2. Shift(a) \in Byte /\ Shift(b) \in Byte /\ Shift(x) \in Byte
    BY <2>1, ShiftBits
  <2> QED BY <2>1, <2>2, XorByte
<1>2. \A n : /\ n \in x <=> ~(n \in a <=> n \in b)
             /\ n \in y <=> ~(n \in Shift(a) <=> n \in Shift(b))
  BY DEF Xor
<1> HIDE DEF x, y
<1>3. /\ 0 \in Shift(x) <=> 0 \in y
      /\ 1 \in Shift(x) <=> 1 \in y
      /\ 2 \in Shift(x) <=> 2 \in y
      /\ 3 \in Shift(x) <=> 3 \in y
      /\ 4 \in Shift(x) <=> 4 \in y
      /\ 5 \in Shift(x) <=> 5 \in y
      /\ 6 \in Shift(x) <=> 6 \in y
      /\ 7 \in Shift(x) <=> 7 \in y
  BY <1>1, <1>2, ShiftBits
<1>4. Shift(x) = y
  BY <1>1, <1>3, SameByte
<1> QED BY <1>4 DEF x, y

\* So do eight of them.
LEMMA EightXor ==
  ASSUME NEW a \in Byte, NEW b \in Byte
  PROVE  /\ EightShifts(Xor(a, b)) = Xor(EightShifts(a), EightShifts(b))
         /\ EightShifts(a) \in Byte
<1>1. \A c, d \in Byte : Shift(c) \in Byte /\ Shift(Xor(c, d)) = Xor(Shift(c), Shift(d))
  BY ShiftBits, ShiftXor
<1> DEFINE Two(c) == Shift(Shift(c))
           Four(c) == Two(Two(c))
<1>2. \A c, d \in Byte : Two(c) \in Byte /\ Two(Xor(c, d)) = Xor(Two(c), Two(d))
  BY <1>1, Zenon
<1> HIDE DEF Two
<1>3. \A c, d \in Byte : Four(c) \in Byte /\ Four(Xor(c, d)) = Xor(Four(c), Four(d))
  BY <1>2, Zenon
<1> HIDE DEF Four
<1>4. Four(Four(a)) \in Byte /\ Four(Four(Xor(a, b))) = Xor(Four(Four(a)), Four(Four(b)))
  BY <1>3, Zenon
<1> QED BY <1>4 DEF EightShifts, Four, Two

\* And the parts of a word and its checksum.
LEMMA DataXor ==
  ASSUME NEW a \in SUBSET (0 .. 23), NEW b \in SUBSET (0 .. 23)
  PROVE  /\ Data(a) \in SUBSET (0 .. 15)
         /\ Data(Xor(a, b)) = Xor(Data(a), Data(b))
         /\ Xor(a, b) \cap 0 .. 7 = Xor(a \cap 0 .. 7, b \cap 0 .. 7)
<1>1. Data(a) \in SUBSET (0 .. 15)
  BY DEF Data
<1>2. \A c \in SUBSET (0 .. 23) : \A n : n \in Data(c) <=> n \in 0 .. 15 /\ n + 8 \in c
  BY DEF Data
<1>3. Data(Xor(a, b)) = Xor(Data(a), Data(b))
  BY <1>2 DEF Xor
<1>4. Xor(a, b) \cap 0 .. 7 = Xor(a \cap 0 .. 7, b \cap 0 .. 7)
  BY DEF Xor
<1> QED BY <1>1, <1>3, <1>4

\* And the checksum from the initial value 0.
LEMMA LinearXor ==
  ASSUME NEW v \in SUBSET (0 .. 15), NEW w \in SUBSET (0 .. 15)
  PROVE  /\ Linear(Xor(v, w)) = Xor(Linear(v), Linear(w))
         /\ Linear(v) \in Byte
<1>1. \A u \in SUBSET (0 .. 15) : HighByte(u) \in Byte /\ LowByte(u) \in Byte
  BY DEF HighByte, LowByte, Byte
<1>2. HighByte(Xor(v, w)) = Xor(HighByte(v), HighByte(w))
  <2>1. \A c \in SUBSET (0 .. 15) : \A n : n \in HighByte(c) <=> n \in 0 .. 7 /\ n + 8 \in c
    BY DEF HighByte
  <2> QED BY <2>1 DEF Xor
<1>3. LowByte(Xor(v, w)) = Xor(LowByte(v), LowByte(w))
  BY DEF Xor, LowByte
<1> DEFINE hv == HighByte(v)  hw == HighByte(w)
           lv == LowByte(v)  lw == LowByte(w)
<1>4. EightShifts(Xor(hv, hw)) = Xor(EightShifts(hv), EightShifts(hw))
      /\ EightShifts(hv) \in Byte /\ EightShifts(hw) \in Byte
  BY <1>1, EightXor
<1>5. Xor(Xor(EightShifts(hv), EightShifts(hw)), Xor(lv, lw))
        = Xor(Xor(EightShifts(hv), lv), Xor(EightShifts(hw), lw))
  BY XorSwap
<1>6. Xor(EightShifts(hv), lv) \in Byte /\ Xor(EightShifts(hw), lw) \in Byte
  BY <1>1, <1>4, XorByte, Zenon
<1>7. EightShifts(Xor(Xor(EightShifts(hv), lv), Xor(EightShifts(hw), lw)))
        = Xor(EightShifts(Xor(EightShifts(hv), lv)), EightShifts(Xor(EightShifts(hw), lw)))
      /\ EightShifts(Xor(EightShifts(hv), lv)) \in Byte
  BY <1>6, EightXor
<1> QED BY <1>2, <1>3, <1>4, <1>5, <1>7, Zenon DEF Linear

\* And the syndrome.
LEMMA SyndromeXor ==
  ASSUME NEW a \in SUBSET (0 .. 23), NEW b \in SUBSET (0 .. 23)
  PROVE  /\ Syndrome(Xor(a, b)) = Xor(Syndrome(a), Syndrome(b))
         /\ Syndrome(a) \in Byte
<1>1. /\ Data(a) \in SUBSET (0 .. 15) /\ Data(b) \in SUBSET (0 .. 15)
      /\ Data(Xor(a, b)) = Xor(Data(a), Data(b))
      /\ Xor(a, b) \cap 0 .. 7 = Xor(a \cap 0 .. 7, b \cap 0 .. 7)
  BY DataXor
<1>2. /\ Linear(Xor(Data(a), Data(b))) = Xor(Linear(Data(a)), Linear(Data(b)))
      /\ Linear(Data(a)) \in Byte
  BY <1>1, LinearXor
<1>3. a \cap 0 .. 7 \in Byte
  BY DEF Byte
<1>4. Syndrome(a) \in Byte
  BY <1>2, <1>3, XorByte DEF Syndrome
<1>5. Xor(Xor(Linear(Data(a)), Linear(Data(b))), Xor(a \cap 0 .. 7, b \cap 0 .. 7))
        = Xor(Xor(Linear(Data(a)), a \cap 0 .. 7), Xor(Linear(Data(b)), b \cap 0 .. 7))
  BY XorSwap
<1> QED BY <1>1, <1>2, <1>4, <1>5, Zenon DEF Syndrome

-----------------------------------------------------------------------------
(***************************************************************************)
(* Single bits.                                                            *)
(***************************************************************************)
\* The remainders of x^0, x^1, ..., x^23.
Residues ==
  <<{0}, {1}, {2}, {3}, {4}, {5},
    {6}, {7}, {0, 4, 5}, {1, 5, 6}, {2, 6, 7}, {0, 3, 4, 5, 7},
    {0, 1, 6}, {1, 2, 7}, {0, 2, 3, 4, 5}, {1, 3, 4, 5, 6}, {2, 4, 5, 6, 7}, {0, 3, 4, 6, 7},
    {0, 1, 7}, {0, 1, 2, 4, 5}, {1, 2, 3, 5, 6}, {2, 3, 4, 6, 7}, {0, 3, 7}, {0, 1, 5}>>

\* The table, place by place.
LEMMA ResidueValues ==
  /\ Residues[1] = {0}
  /\ Residues[2] = {1}
  /\ Residues[3] = {2}
  /\ Residues[4] = {3}
  /\ Residues[5] = {4}
  /\ Residues[6] = {5}
  /\ Residues[7] = {6}
  /\ Residues[8] = {7}
  /\ Residues[9] = {0, 4, 5}
  /\ Residues[10] = {1, 5, 6}
  /\ Residues[11] = {2, 6, 7}
  /\ Residues[12] = {0, 3, 4, 5, 7}
  /\ Residues[13] = {0, 1, 6}
  /\ Residues[14] = {1, 2, 7}
  /\ Residues[15] = {0, 2, 3, 4, 5}
  /\ Residues[16] = {1, 3, 4, 5, 6}
  /\ Residues[17] = {2, 4, 5, 6, 7}
  /\ Residues[18] = {0, 3, 4, 6, 7}
  /\ Residues[19] = {0, 1, 7}
  /\ Residues[20] = {0, 1, 2, 4, 5}
  /\ Residues[21] = {1, 2, 3, 5, 6}
  /\ Residues[22] = {2, 3, 4, 6, 7}
  /\ Residues[23] = {0, 3, 7}
  /\ Residues[24] = {0, 1, 5}
BY DEF Residues

\* Each remainder is the one before it, shifted.
LEMMA NextResidue ==
  ASSUME NEW i \in 1 .. 23
  PROVE  Shift(Residues[i]) = Residues[i + 1]
<1>1. Shift({0}) = {1}
  BY ShiftBits, SameByte DEF Byte
<1>2. Shift({1}) = {2}
  BY ShiftBits, SameByte DEF Byte
<1>3. Shift({2}) = {3}
  BY ShiftBits, SameByte DEF Byte
<1>4. Shift({3}) = {4}
  BY ShiftBits, SameByte DEF Byte
<1>5. Shift({4}) = {5}
  BY ShiftBits, SameByte DEF Byte
<1>6. Shift({5}) = {6}
  BY ShiftBits, SameByte DEF Byte
<1>7. Shift({6}) = {7}
  BY ShiftBits, SameByte DEF Byte
<1>8. Shift({7}) = {0, 4, 5}
  BY ShiftBits, SameByte DEF Byte
<1>9. Shift({0, 4, 5}) = {1, 5, 6}
  BY ShiftBits, SameByte DEF Byte
<1>10. Shift({1, 5, 6}) = {2, 6, 7}
  BY ShiftBits, SameByte DEF Byte
<1>11. Shift({2, 6, 7}) = {0, 3, 4, 5, 7}
  BY ShiftBits, SameByte DEF Byte
<1>12. Shift({0, 3, 4, 5, 7}) = {0, 1, 6}
  BY ShiftBits, SameByte DEF Byte
<1>13. Shift({0, 1, 6}) = {1, 2, 7}
  BY ShiftBits, SameByte DEF Byte
<1>14. Shift({1, 2, 7}) = {0, 2, 3, 4, 5}
  BY ShiftBits, SameByte DEF Byte
<1>15. Shift({0, 2, 3, 4, 5}) = {1, 3, 4, 5, 6}
  BY ShiftBits, SameByte DEF Byte
<1>16. Shift({1, 3, 4, 5, 6}) = {2, 4, 5, 6, 7}
  BY ShiftBits, SameByte DEF Byte
<1>17. Shift({2, 4, 5, 6, 7}) = {0, 3, 4, 6, 7}
  BY ShiftBits, SameByte DEF Byte
<1>18. Shift({0, 3, 4, 6, 7}) = {0, 1, 7}
  BY ShiftBits, SameByte DEF Byte
<1>19. Shift({0, 1, 7}) = {0, 1, 2, 4, 5}
  BY ShiftBits, SameByte DEF Byte
<1>20. Shift({0, 1, 2, 4, 5}) = {1, 2, 3, 5, 6}
  BY ShiftBits, SameByte DEF Byte
<1>21. Shift({1, 2, 3, 5, 6}) = {2, 3, 4, 6, 7}
  BY ShiftBits, SameByte DEF Byte
<1>22. Shift({2, 3, 4, 6, 7}) = {0, 3, 7}
  BY ShiftBits, SameByte DEF Byte
<1>23. Shift({0, 3, 7}) = {0, 1, 5}
  BY ShiftBits, SameByte DEF Byte
<1>24. /\ Shift(Residues[1]) = Residues[2]
      /\ Shift(Residues[2]) = Residues[3]
      /\ Shift(Residues[3]) = Residues[4]
      /\ Shift(Residues[4]) = Residues[5]
      /\ Shift(Residues[5]) = Residues[6]
      /\ Shift(Residues[6]) = Residues[7]
  BY <1>1, <1>2, <1>3, <1>4, <1>5, <1>6, ResidueValues, Zenon
<1>25. /\ Shift(Residues[7]) = Residues[8]
      /\ Shift(Residues[8]) = Residues[9]
      /\ Shift(Residues[9]) = Residues[10]
      /\ Shift(Residues[10]) = Residues[11]
      /\ Shift(Residues[11]) = Residues[12]
      /\ Shift(Residues[12]) = Residues[13]
  BY <1>7, <1>8, <1>9, <1>10, <1>11, <1>12, ResidueValues, Zenon
<1>26. /\ Shift(Residues[13]) = Residues[14]
      /\ Shift(Residues[14]) = Residues[15]
      /\ Shift(Residues[15]) = Residues[16]
      /\ Shift(Residues[16]) = Residues[17]
      /\ Shift(Residues[17]) = Residues[18]
      /\ Shift(Residues[18]) = Residues[19]
  BY <1>13, <1>14, <1>15, <1>16, <1>17, <1>18, ResidueValues, Zenon
<1>27. /\ Shift(Residues[19]) = Residues[20]
      /\ Shift(Residues[20]) = Residues[21]
      /\ Shift(Residues[21]) = Residues[22]
      /\ Shift(Residues[22]) = Residues[23]
      /\ Shift(Residues[23]) = Residues[24]
  BY <1>19, <1>20, <1>21, <1>22, <1>23, ResidueValues, Zenon
<1> HIDE DEF Residues
<1> QED BY <1>24, <1>25, <1>26, <1>27

\* Eight shifts lead eight places on.
LEMMA EighthResidue ==
  ASSUME NEW i \in 1 .. 16
  PROVE  EightShifts(Residues[i]) = Residues[i + 8]
BY NextResidue DEF EightShifts

\* A byte with an even number of bits.
Even(c) ==
  0 \in c <=> (1 \in c <=> (2 \in c <=> (3 \in c <=> (4 \in c <=> (5 \in c <=>
    (6 \in c <=> 7 \in c))))))

\* The sum of two bytes is even when both or none of them are.
LEMMA EvenXor ==
  ASSUME NEW a, NEW b
  PROVE  Even(Xor(a, b)) <=> (Even(a) <=> Even(b))
BY DEF Even, Xor

\* Every remainder has an odd number of bits: x + 1 divides the polynomial.
LEMMA ResiduesOdd ==
  ASSUME NEW i \in 1 .. 24
  PROVE  ~Even(Residues[i]) /\ Residues[i] \in Byte
BY ResidueValues DEF Even, Byte

\* No two of the 24 remainders are the same.
LEMMA ResiduesDiffer ==
  ASSUME NEW i \in 1 .. 24, NEW j \in 1 .. 24, Residues[i] = Residues[j]
  PROVE  i = j
BY ResidueValues

\* Where a single bit is.
LEMMA BitPlaces ==
  ASSUME NEW i \in 0 .. 23
  PROVE  /\ i < 8 => Data({i}) = {} /\ {i} \cap 0 .. 7 = {i}
         /\ i >= 8 => Data({i}) = {i - 8} /\ {i} \cap 0 .. 7 = {}
         /\ i < 8 => HighByte({i}) = {} /\ LowByte({i}) = {i}
         /\ i >= 8 /\ i < 16 => HighByte({i}) = {i - 8} /\ LowByte({i}) = {}
         /\ HighByte({}) = {} /\ LowByte({}) = {}
<1>1. HighByte({}) = {} /\ LowByte({}) = {}
  BY DEF HighByte, LowByte
<1>2. \A a, b : (i \in a .. b => {i} \cap a .. b = {i}) /\ (i \notin a .. b => {i} \cap a .. b = {})
  BY Zenon
<1>3. CASE i < 8
  <2>1. i \in 0 .. 7 /\ i \notin 8 .. 15 /\ i \notin 8 .. 23
    BY <1>3
  <2>2. {i} \cap 0 .. 7 = {i} /\ {i} \cap 8 .. 15 = {} /\ {i} \cap 8 .. 23 = {}
    BY <1>2, <2>1, Zenon
  <2>3. ~(i >= 8)
    BY <1>3
  <2> QED BY <1>1, <2>2, <2>3 DEF Data, HighByte, LowByte
<1>4. CASE i \in 8 .. 15
  <2>1. i \notin 0 .. 7 /\ i \in 8 .. 15 /\ i \in 8 .. 23
    BY <1>4
  <2>2. {i} \cap 0 .. 7 = {} /\ {i} \cap 8 .. 15 = {i} /\ {i} \cap 8 .. 23 = {i}
    BY <1>2, <2>1, Zenon
  <2>3. ~(i < 8)
    BY <1>4
  <2> QED BY <1>1, <2>2, <2>3 DEF Data, HighByte, LowByte
<1>5. CASE i \in 16 .. 23
  <2>1. i \notin 0 .. 7 /\ i \in 8 .. 23
    BY <1>5
  <2>2. {i} \cap 0 .. 7 = {} /\ {i} \cap 8 .. 23 = {i}
    BY <1>2, <2>1, Zenon
  <2>3. ~(i < 8) /\ ~(i < 16)
    BY <1>5
  <2> QED BY <1>1, <2>2, <2>3 DEF Data, HighByte, LowByte
<1> QED BY <1>3, <1>4, <1>5

\* The syndrome of the one bit i is the remainder of x^i.
LEMMA SyndromeOfBit ==
  ASSUME NEW i \in 0 .. 23
  PROVE  Syndrome({i}) = Residues[i + 1]
<1>1. EightShifts({}) = {}
  <2>1. Shift({}) = {}
    BY DEF Shift, Xor
  <2> QED BY <2>1 DEF EightShifts
<1>0. /\ Linear({}) = {}
      /\ \A b : HighByte(b) = {} => Linear(b) = EightShifts(LowByte(b))
      /\ \A b : LowByte(b) = {} => Linear(b) = EightShifts(EightShifts(HighByte(b)))
  BY <1>1, XorEmpty, BitPlaces DEF Linear
<1>2. CASE i \in 0 .. 7
  <2>1. Data({i}) = {} /\ {i} \cap 0 .. 7 = {i} /\ HighByte({}) = {} /\ LowByte({}) = {}
    BY <1>2, BitPlaces
  <2>2. Syndrome({i}) = {i}
    BY <1>0, <2>1, XorEmpty DEF Syndrome
  <2>3. Residues[i + 1] = {i}
    BY <1>2, ResidueValues
  <2> QED BY <2>2, <2>3
<1>3. CASE i \in 8 .. 15
  <2>1. Data({i}) = {i - 8} /\ {i} \cap 0 .. 7 = {}
    BY <1>3, BitPlaces
  <2>2. HighByte({i - 8}) = {} /\ LowByte({i - 8}) = {i - 8}
    BY <1>3, BitPlaces
  <2>3. Syndrome({i}) = EightShifts({i - 8})
    BY <1>0, <2>1, <2>2, XorEmpty DEF Syndrome
  <2>4. Residues[i - 7] = {i - 8}
    BY <1>3, ResidueValues
  <2>5. i - 7 \in 1 .. 16 /\ i - 7 + 8 = i + 1
    BY <1>3
  <2> QED BY <2>3, <2>4, <2>5, EighthResidue, Zenon
<1>4. CASE i \in 16 .. 23
  <2>1. Data({i}) = {i - 8} /\ {i} \cap 0 .. 7 = {}
    BY <1>4, BitPlaces
  <2>2. HighByte({i - 8}) = {i - 16} /\ LowByte({i - 8}) = {}
    <3>1. i - 8 \in 0 .. 23 /\ i - 8 >= 8 /\ i - 8 < 16 /\ i - 8 - 8 = i - 16
      BY <1>4
    <3> QED BY <3>1, BitPlaces
  <2>3. Syndrome({i}) = EightShifts(EightShifts({i - 16}))
    BY <1>0, <2>1, <2>2, XorEmpty DEF Syndrome
  <2>4. Residues[i - 15] = {i - 16}
    BY <1>4, ResidueValues
  <2>5. i - 15 \in 1 .. 16 /\ i - 15 + 8 = i - 7 /\ i - 7 \in 1 .. 16 /\ i - 7 + 8 = i + 1
    BY <1>4
  <2>6. EightShifts(Residues[i - 15]) = Residues[i - 7]
    BY <2>5, EighthResidue, Zenon
  <2>7. EightShifts(Residues[i - 7]) = Residues[i + 1]
    BY <2>5, EighthResidue, Zenon
  <2> QED BY <2>3, <2>4, <2>6, <2>7, Zenon
<1> QED BY <1>2, <1>3, <1>4

\* x^i + x^(i-3) has the remainder of x^(i-4) + x^(i-8).
LEMMA DivisorResidues ==
  ASSUME NEW i \in 8 .. 23
  PROVE  Xor(Residues[i + 1], Residues[i - 2]) = Xor(Residues[i - 3], Residues[i - 7])
<1>1. Xor({0, 4, 5}, {5}) = Xor({4}, {0})
  BY DEF Xor
<1>2. Xor({1, 5, 6}, {6}) = Xor({5}, {1})
  BY DEF Xor
<1>3. Xor({2, 6, 7}, {7}) = Xor({6}, {2})
  BY DEF Xor
<1>4. Xor({0, 3, 4, 5, 7}, {0, 4, 5}) = Xor({7}, {3})
  BY DEF Xor
<1>5. Xor({0, 1, 6}, {1, 5, 6}) = Xor({0, 4, 5}, {4})
  BY DEF Xor
<1>6. Xor({1, 2, 7}, {2, 6, 7}) = Xor({1, 5, 6}, {5})
  BY DEF Xor
<1>7. Xor({0, 2, 3, 4, 5}, {0, 3, 4, 5, 7}) = Xor({2, 6, 7}, {6})
  BY DEF Xor
<1>8. Xor({1, 3, 4, 5, 6}, {0, 1, 6}) = Xor({0, 3, 4, 5, 7}, {7})
  BY DEF Xor
<1>9. Xor({2, 4, 5, 6, 7}, {1, 2, 7}) = Xor({0, 1, 6}, {0, 4, 5})
  BY DEF Xor
<1>10. Xor({0, 3, 4, 6, 7}, {0, 2, 3, 4, 5}) = Xor({1, 2, 7}, {1, 5, 6})
  BY DEF Xor
<1>11. Xor({0, 1, 7}, {1, 3, 4, 5, 6}) = Xor({0, 2, 3, 4, 5}, {2, 6, 7})
  BY DEF Xor
<1>12. Xor({0, 1, 2, 4, 5}, {2, 4, 5, 6, 7}) = Xor({1, 3, 4, 5, 6}, {0, 3, 4, 5, 7})
  BY DEF Xor
<1>13. Xor({1, 2, 3, 5, 6}, {0, 3, 4, 6, 7}) = Xor({2, 4, 5, 6, 7}, {0, 1, 6})
  BY DEF Xor
<1>14. Xor({2, 3, 4, 6, 7}, {0, 1, 7}) = Xor({0, 3, 4, 6, 7}, {1, 2, 7})
  BY DEF Xor
<1>15. Xor({0, 3, 7}, {0, 1, 2, 4, 5}) = Xor({0, 1, 7}, {0, 2, 3, 4, 5})
  BY DEF Xor
<1>16. Xor({0, 1, 5}, {1, 2, 3, 5, 6}) = Xor({0, 1, 2, 4, 5}, {1, 3, 4, 5, 6})
  BY DEF Xor
<1>17. /\ Xor(Residues[9], Residues[6]) = Xor(Residues[5], Residues[1])
       /\ Xor(Residues[10], Residues[7]) = Xor(Residues[6], Residues[2])
       /\ Xor(Residues[11], Residues[8]) = Xor(Residues[7], Residues[3])
       /\ Xor(Residues[12], Residues[9]) = Xor(Residues[8], Residues[4])
  BY <1>1, <1>2, <1>3, <1>4, ResidueValues, Zenon
<1>18. /\ Xor(Residues[13], Residues[10]) = Xor(Residues[9], Residues[5])
       /\ Xor(Residues[14], Residues[11]) = Xor(Residues[10], Residues[6])
       /\ Xor(Residues[15], Residues[12]) = Xor(Residues[11], Residues[7])
       /\ Xor(Residues[16], Residues[13]) = Xor(Residues[12], Residues[8])
  BY <1>5, <1>6, <1>7, <1>8, ResidueValues, Zenon
<1>19. /\ Xor(Residues[17], Residues[14]) = Xor(Residues[13], Residues[9])
       /\ Xor(Residues[18], Residues[15]) = Xor(Residues[14], Residues[10])
       /\ Xor(Residues[19], Residues[16]) = Xor(Residues[15], Residues[11])
       /\ Xor(Residues[20], Residues[17]) = Xor(Residues[16], Residues[12])
  BY <1>9, <1>10, <1>11, <1>12, ResidueValues, Zenon
<1>20. /\ Xor(Residues[21], Residues[18]) = Xor(Residues[17], Residues[13])
       /\ Xor(Residues[22], Residues[19]) = Xor(Residues[18], Residues[14])
       /\ Xor(Residues[23], Residues[20]) = Xor(Residues[19], Residues[15])
       /\ Xor(Residues[24], Residues[21]) = Xor(Residues[20], Residues[16])
  BY <1>13, <1>14, <1>15, <1>16, ResidueValues, Zenon
<1> QED BY <1>17, <1>18, <1>19, <1>20

\* The divisor shifted to any place has no syndrome.
LEMMA DivisorVanishes ==
  ASSUME NEW i \in 8 .. 23
  PROVE  Syndrome({i, i - 3, i - 4, i - 8}) = {}
<1> DEFINE a == {i}  b == {i - 3}  c == {i - 4}  d == {i - 8}
<1>1. {i, i - 3, i - 4, i - 8} = Xor(Xor(a, b), Xor(c, d))
  BY DEF Xor
<1>2. /\ a \in SUBSET (0 .. 23) /\ b \in SUBSET (0 .. 23)
      /\ c \in SUBSET (0 .. 23) /\ d \in SUBSET (0 .. 23)
      /\ Xor(a, b) \in SUBSET (0 .. 23) /\ Xor(c, d) \in SUBSET (0 .. 23)
  BY DEF Xor
<1>3. /\ Syndrome(a) = Residues[i + 1] /\ Syndrome(b) = Residues[i - 2]
      /\ Syndrome(c) = Residues[i - 3] /\ Syndrome(d) = Residues[i - 7]
  <2>1. /\ i \in 0 .. 23 /\ i - 3 \in 0 .. 23 /\ i - 4 \in 0 .. 23 /\ i - 8 \in 0 .. 23
        /\ i - 3 + 1 = i - 2 /\ i - 4 + 1 = i - 3 /\ i - 8 + 1 = i - 7
    OBVIOUS
  <2> QED BY <2>1, SyndromeOfBit
<1> HIDE DEF a, b, c, d
<1>4. Syndrome(Xor(Xor(a, b), Xor(c, d)))
        = Xor(Xor(Syndrome(a), Syndrome(b)), Xor(Syndrome(c), Syndrome(d)))
  BY <1>2, SyndromeXor, Zenon
<1>5. Xor(Residues[i + 1], Residues[i - 2]) = Xor(Residues[i - 3], Residues[i - 7])
  BY DivisorResidues
<1>6. Syndrome(Xor(Xor(a, b), Xor(c, d)))
        = Xor(Xor(Residues[i + 1], Residues[i - 2]), Xor(Residues[i - 3], Residues[i - 7]))
  BY <1>3, <1>4, Zenon
<1>7. Syndrome(Xor(Xor(a, b), Xor(c, d))) = {}
  BY <1>5, <1>6, XorEmpty, Zenon
<1> QED BY <1>1, <1>7, Zenon

-----------------------------------------------------------------------------
(***************************************************************************)
(* The long division, and what noise does.                                 *)
(***************************************************************************)
\* A step of the division takes the highest bit away and leaves the syndrome.
LEMMA ReduceStep ==
  ASSUME NEW i \in 8 .. 23, NEW a \in SUBSET (0 .. i)
  PROVE  Reduce(a, i) \in SUBSET (0 .. i - 1) /\ Syndrome(Reduce(a, i)) = Syndrome(a)
<1> DEFINE divisor == {i, i - 3, i - 4, i - 8}
<1>1. CASE i \in a
  <2>1. Reduce(a, i) = Xor(a, divisor)
    BY <1>1 DEF Reduce
  <2>2. Xor(a, divisor) \in SUBSET (0 .. i - 1)
    BY <1>1 DEF Xor
  <2>3. a \in SUBSET (0 .. 23) /\ divisor \in SUBSET (0 .. 23)
    OBVIOUS
  <2>4. Syndrome(divisor) = {}
    BY DivisorVanishes
  <2> HIDE DEF divisor
  <2>5. Syndrome(Xor(a, divisor)) = Xor(Syndrome(a), {})
    BY <2>3, <2>4, SyndromeXor, Zenon
  <2> QED BY <2>1, <2>2, <2>5, XorEmpty
<1>2. CASE i \notin a
  BY <1>2 DEF Reduce
<1> QED BY <1>1, <1>2

\* So do four of them.
LEMMA FourReductionsStep ==
  ASSUME NEW i \in 11 .. 23, NEW a \in SUBSET (0 .. i)
  PROVE  /\ FourReductions(a, i) \in SUBSET (0 .. i - 4)
         /\ Syndrome(FourReductions(a, i)) = Syndrome(a)
<1> DEFINE b == Reduce(a, i)
           c == Reduce(b, i - 1)
           d == Reduce(c, i - 2)
           e == Reduce(d, i - 3)
<1>1. /\ i \in 8 .. 23 /\ i - 1 \in 8 .. 23 /\ i - 2 \in 8 .. 23 /\ i - 3 \in 8 .. 23
      /\ i - 1 - 1 = i - 2 /\ i - 2 - 1 = i - 3 /\ i - 3 - 1 = i - 4
  OBVIOUS
<1>2. FourReductions(a, i) = e
  BY DEF FourReductions
<1>3. b \in SUBSET (0 .. i - 1) /\ Syndrome(b) = Syndrome(a)
  BY <1>1, ReduceStep
<1> HIDE DEF b
<1>4. c \in SUBSET (0 .. i - 2) /\ Syndrome(c) = Syndrome(b)
  BY <1>1, <1>3, ReduceStep, Zenon
<1> HIDE DEF c
<1>5. d \in SUBSET (0 .. i - 3) /\ Syndrome(d) = Syndrome(c)
  BY <1>1, <1>4, ReduceStep, Zenon
<1> HIDE DEF d
<1>6. e \in SUBSET (0 .. i - 4) /\ Syndrome(e) = Syndrome(d)
  BY <1>1, <1>5, ReduceStep, Zenon
<1> QED BY <1>2, <1>3, <1>4, <1>5, <1>6, Zenon

\* A byte is its own syndrome.
LEMMA ByteIsSyndrome ==
  ASSUME NEW c \in SUBSET (0 .. 7)
  PROVE  Syndrome(c) = c
<1>1. c \cap 8 .. 23 = {}
  <2>1. \A n \in 0 .. 7 : n \notin 8 .. 23
    OBVIOUS
  <2> QED BY <2>1, Zenon
<1>2. Data(c) = {} /\ c \cap 0 .. 7 = c
  BY <1>1 DEF Data
<1>3. Linear({}) = {}
  <2>1. Shift({}) = {}
    BY DEF Shift, Xor
  <2> QED BY <2>1, BitPlaces, XorEmpty DEF Linear, EightShifts
<1> QED BY <1>2, <1>3, XorEmpty DEF Syndrome

\* The long division ends with the syndrome.
LEMMA RestIsSyndrome ==
  ASSUME NEW a \in SUBSET (0 .. 23)
  PROVE  Rest(a) = Syndrome(a)
<1> DEFINE b == FourReductions(a, 23)
           c == FourReductions(b, 19)
           d == FourReductions(c, 15)
           e == FourReductions(d, 11)
<1>1. b \in SUBSET (0 .. 19) /\ Syndrome(b) = Syndrome(a)
  BY FourReductionsStep
<1> HIDE DEF b
<1>2. c \in SUBSET (0 .. 15) /\ Syndrome(c) = Syndrome(b)
  BY <1>1, FourReductionsStep
<1> HIDE DEF c
<1>3. d \in SUBSET (0 .. 11) /\ Syndrome(d) = Syndrome(c)
  BY <1>2, FourReductionsStep
<1> HIDE DEF d
<1>4. e \in SUBSET (0 .. 7) /\ Syndrome(e) = Syndrome(d)
  BY <1>3, FourReductionsStep
<1>5. Rest(a) = e
  BY DEF Rest, b, c, d
<1> HIDE DEF e
<1>6. Syndrome(e) = e
  BY <1>4, ByteIsSyndrome
<1> QED BY <1>1, <1>2, <1>3, <1>4, <1>5, <1>6, Zenon

\* The receiver's register for a word, which starts from 0xff, is the linear part of
\* the word with its first byte inverted.
LEMMA SenderIsLinear ==
  ASSUME NEW word \in SUBSET (0 .. 15)
  PROVE  SenderCrcCalculate(word) = Linear(Xor(word, 8 .. 15))
<1>1. HighByte(Xor(word, 8 .. 15)) = Xor(0 .. 7, HighByte(word))
  <2>1. \A c : \A n : n \in HighByte(c) <=> n \in 0 .. 7 /\ n + 8 \in c
    BY DEF HighByte
  <2>2. \A n \in 0 .. 7 : n + 8 \in 8 .. 15
    OBVIOUS
  <2>3. \A n : n \in HighByte(Xor(word, 8 .. 15)) <=> n \in Xor(0 .. 7, HighByte(word))
    BY <2>1, <2>2 DEF Xor
  <2> QED BY <2>3
<1>2. LowByte(Xor(word, 8 .. 15)) = LowByte(word)
  BY DEF LowByte, Xor
<1> QED BY <1>1, <1>2 DEF SenderCrcCalculate, Linear

\* A word and a checksum fit together when, with the first byte inverted, they have no syndrome.
LEMMA AcceptedIff ==
  ASSUME NEW r \in SUBSET (0 .. 23)
  PROVE  SenderCrcCalculate(Data(r)) = r \cap 0 .. 7 <=> Syndrome(Xor(r, 16 .. 23)) = {}
<1>1. Data(r) \in SUBSET (0 .. 15) /\ 16 .. 23 \in SUBSET (0 .. 23)
  <2>1. 16 .. 23 \in SUBSET (0 .. 23)
    OBVIOUS
  <2> QED BY <2>1, DataXor, Zenon
<1>2. Data(16 .. 23) = 8 .. 15 /\ (16 .. 23) \cap 0 .. 7 = {}
  BY DEF Data
<1>3. /\ Data(Xor(r, 16 .. 23)) = Xor(Data(r), 8 .. 15)
      /\ Xor(r, 16 .. 23) \cap 0 .. 7 = r \cap 0 .. 7
  <2>1. /\ Data(Xor(r, 16 .. 23)) = Xor(Data(r), Data(16 .. 23))
        /\ Xor(r, 16 .. 23) \cap 0 .. 7 = Xor(r \cap 0 .. 7, (16 .. 23) \cap 0 .. 7)
    BY <1>1, DataXor, Zenon
  <2> QED BY <1>2, <2>1, XorEmpty, Zenon
<1>4. Syndrome(Xor(r, 16 .. 23)) = Xor(SenderCrcCalculate(Data(r)), r \cap 0 .. 7)
  BY <1>1, <1>3, SenderIsLinear DEF Syndrome
<1> QED BY <1>4, XorEqual, Zenon

\* What the sensor sends fits together.
LEMMA SentFits ==
  ASSUME NEW word \in SUBSET (0 .. 15), NEW sent, sent = {b + 8 : b \in word} \cup Remainder(word)
  PROVE  sent \in SUBSET (0 .. 23) /\ Data(sent) = word /\ Syndrome(Xor(sent, 16 .. 23)) = {}
<1> DEFINE up == {b + 8 : b \in word}
           inverted == Xor(up, 16 .. 23)
           rest == Remainder(word)
<1>1. up \in SUBSET (8 .. 23)
  OBVIOUS
<1>2. inverted \in SUBSET (8 .. 23)
  BY <1>1 DEF Xor
<1>3. rest = Syndrome(inverted)
  BY <1>2, RestIsSyndrome DEF Remainder
<1>4. rest \in SUBSET (0 .. 7)
  BY <1>2, <1>3, SyndromeXor DEF Byte
<1>5. Data(sent) = word
  <2>1. sent \cap 8 .. 23 = up
    <3>1. \A n \in 0 .. 7 : n \notin 8 .. 23
      OBVIOUS
    <3> HIDE DEF up, rest
    <3>2. sent = up \cup rest
      BY DEF up, rest
    <3> QED BY <1>1, <1>4, <3>1, <3>2, Zenon
  <2>2. Data(sent) = {b - 8 : b \in up}
    BY <2>1 DEF Data
  <2>3. {b - 8 : b \in up} = word
    <3>1. \A n \in word : n + 8 \in up /\ (n + 8) - 8 = n
      BY DEF up
    <3>2. \A b \in up : b - 8 \in word
      BY DEF up
    <3> HIDE DEF up
    <3>3. ASSUME NEW n \in word PROVE n \in {b - 8 : b \in up}
      <4>1. n + 8 \in up /\ n = (n + 8) - 8
        BY <3>1
      <4> QED BY <4>1, Zenon
    <3>4. ASSUME NEW b \in up PROVE b - 8 \in word
      BY <3>2
    <3> QED BY <3>3, <3>4
  <2> QED BY <2>2, <2>3
<1> HIDE DEF up, rest
<1>6. Xor(sent, 16 .. 23) = Xor(inverted, rest)
  BY <1>1, <1>4 DEF Xor, up, rest
<1> HIDE DEF inverted
<1>7. Syndrome(rest) = rest
  BY <1>4, ByteIsSyndrome
<1>8. Syndrome(Xor(inverted, rest)) = Xor(Syndrome(inverted), Syndrome(rest))
  <2>1. inverted \in SUBSET (0 .. 23) /\ rest \in SUBSET (0 .. 23)
    BY <1>2, <1>4
  <2> QED BY <2>1, SyndromeXor
<1>9. Syndrome(Xor(sent, 16 .. 23)) = {}
  BY <1>3, <1>6, <1>7, <1>8, XorEmpty, Zenon
<1>10. sent \in SUBSET (0 .. 23)
  BY <1>1, <1>4 DEF up, rest
<1> QED BY <1>5, <1>9, <1>10

\* Up to three flipped bits have a syndrome: one or three by their parity, two
\* because no two places have the same remainder.
LEMMA ThreeBitsShow ==
  ASSUME NEW noise \in ThreeBits
  PROVE  noise \in SUBSET (0 .. 23) /\ Syndrome(noise) # {}
<1>1. PICK i \in 0 .. 23, j \in 0 .. 23, k \in 0 .. 23 : noise = {i, j, k}
  <2>1. PICK at \in [1 .. 3 -> 0 .. 23] : noise = {at[1], at[2], at[3]}
    BY DEF ThreeBits
  <2>2. at[1] \in 0 .. 23 /\ at[2] \in 0 .. 23 /\ at[3] \in 0 .. 23
    OBVIOUS
  <2> QED BY <2>1, <2>2, Zenon
<1>2. Even({})
  BY DEF Even
<1>3. \A n \in 0 .. 23 : {n} \in SUBSET (0 .. 23) /\ ~Even(Syndrome({n}))
  <2> TAKE n \in 0 .. 23
  <2>1. n + 1 \in 1 .. 24 /\ {n} \in SUBSET (0 .. 23)
    OBVIOUS
  <2> QED BY <2>1, SyndromeOfBit, ResiduesOdd, Zenon
<1>4. \A m, n \in 0 .. 23 : Syndrome({m}) = Syndrome({n}) => m = n
  <2> TAKE m, n \in 0 .. 23
  <2>1. m + 1 \in 1 .. 24 /\ n + 1 \in 1 .. 24
    OBVIOUS
  <2> HAVE Syndrome({m}) = Syndrome({n})
  <2>2. Residues[m + 1] = Residues[n + 1]
    <3>1. Syndrome({m}) = Residues[m + 1] /\ Syndrome({n}) = Residues[n + 1]
      BY SyndromeOfBit
    <3> QED BY <3>1, Zenon
  <2>3. m + 1 = n + 1
    BY <2>1, <2>2, ResiduesDiffer, Zenon
  <2> QED BY <2>3
<1>5. \A m \in 0 .. 23 : Syndrome({m}) # {}
  BY <1>2, <1>3
<1>6. \A m, n \in 0 .. 23 : m # n => Syndrome({m, n}) # {} /\ Even(Syndrome({m, n}))
  <2> TAKE m, n \in 0 .. 23
  <2> HAVE m # n
  <2>1. {m, n} = Xor({m}, {n})
    BY DEF Xor
  <2>2. Syndrome({m, n}) = Xor(Syndrome({m}), Syndrome({n}))
    BY <1>3, <2>1, SyndromeXor, Zenon
  <2>3. Xor(Syndrome({m}), Syndrome({n})) # {}
    <3>1. Syndrome({m}) # Syndrome({n})
      BY <1>4
    <3> QED BY <3>1, XorEqual, Zenon
  <2> QED BY <1>3, <2>2, <2>3, EvenXor
<1>7. CASE i # j /\ j # k /\ i # k
  <2>1. noise = Xor({i}, {j, k}) /\ {j, k} \in SUBSET (0 .. 23)
    BY <1>1, <1>7 DEF Xor
  <2>2. Syndrome(noise) = Xor(Syndrome({i}), Syndrome({j, k}))
    BY <1>3, <2>1, SyndromeXor, Zenon
  <2>3. ~Even(Syndrome(noise))
    BY <1>3, <1>6, <1>7, <2>2, EvenXor, Zenon
  <2> QED BY <1>2, <2>3, <1>1
<1>8. CASE i = j
  BY <1>1, <1>5, <1>6, <1>8
<1>9. CASE j = k
  BY <1>1, <1>5, <1>6, <1>9
<1>10. CASE i = k
  BY <1>1, <1>5, <1>6, <1>10
<1> QED BY <1>7, <1>8, <1>9, <1>10

\* Moving all 24 bits one place up shifts the syndrome.
LEMMA SyndromeShifts ==
  ASSUME NEW a \in SUBSET (0 .. 22)
  PROVE  {b + 1 : b \in a} \in SUBSET (0 .. 23) /\ Syndrome({b + 1 : b \in a}) = Shift(Syndrome(a))
<1> DEFINE up == {b + 1 : b \in a}
           h == HighByte(Data(a))   l == LowByte(Data(a))   c == a \cap 0 .. 7
           h1 == HighByte(Data(up))  l1 == LowByte(Data(up))  c1 == up \cap 0 .. 7
           lowCarry == IF 15 \in a THEN {0} ELSE {}
           crcCarry == IF 7 \in a THEN {0} ELSE {}
<1>1. /\ up \in SUBSET (0 .. 23)
      /\ \A n \in 0 .. 22 : n + 1 \in up <=> n \in a
      /\ 0 \notin up
  OBVIOUS
<1>2. /\ h \in Byte /\ l \in Byte /\ c \in Byte /\ h1 \in Byte /\ l1 \in Byte /\ c1 \in Byte
      /\ \A n \in 0 .. 7 : /\ n \in h <=> n + 16 \in a
                           /\ n \in l <=> n + 8 \in a
                           /\ n \in c <=> n \in a
                           /\ n \in h1 <=> n + 16 \in up
                           /\ n \in l1 <=> n + 8 \in up
                           /\ n \in c1 <=> n \in up
  <2> HIDE DEF up
  <2>1. ASSUME NEW d \in SUBSET (0 .. 23)
        PROVE  /\ HighByte(Data(d)) \in Byte /\ LowByte(Data(d)) \in Byte /\ d \cap 0 .. 7 \in Byte
               /\ \A n \in 0 .. 7 : /\ n \in HighByte(Data(d)) <=> n + 16 \in d
                                    /\ n \in LowByte(Data(d)) <=> n + 8 \in d
                                    /\ n \in d \cap 0 .. 7 <=> n \in d
    <3>1. \A n : n \in Data(d) <=> n \in 0 .. 15 /\ n + 8 \in d
      BY DEF Data
    <3>2. \A n \in 0 .. 7 : n \in HighByte(Data(d)) <=> n + 8 \in Data(d)
      BY DEF HighByte
    <3>3. \A n \in 0 .. 7 : n + 8 \in Data(d) <=> n + 16 \in d
      BY <3>1
    <3>4. \A n \in 0 .. 7 : n \in LowByte(Data(d)) <=> n + 8 \in d
      BY <3>1 DEF LowByte
    <3>5. HighByte(Data(d)) \in Byte /\ LowByte(Data(d)) \in Byte /\ d \cap 0 .. 7 \in Byte
      BY DEF HighByte, LowByte, Byte
    <3> QED BY <3>2, <3>3, <3>4, <3>5
  <2>2. a \in SUBSET (0 .. 23)
    OBVIOUS
  <2> QED BY <1>1, <2>1, <2>2
<1> HIDE DEF up, h, l, c, h1, l1, c1
<1>3. /\ Shift(h) \in Byte /\ Shift(l) \in Byte /\ Shift(c) \in Byte
      /\ lowCarry \in Byte /\ crcCarry \in Byte
      /\ EightShifts(lowCarry) = IF 15 \in a THEN {5, 4, 0} ELSE {}
      /\ EightShifts(crcCarry) = IF 7 \in a THEN {5, 4, 0} ELSE {}
  <2>1. EightShifts({}) = {}
    <3>1. Shift({}) = {}
      BY DEF Shift, Xor
    <3> QED BY <3>1 DEF EightShifts
  <2>2. EightShifts({0}) = {5, 4, 0}
    <3>1. EightShifts(Residues[1]) = Residues[1 + 8] /\ 1 + 8 = 9
      BY EighthResidue
    <3>2. Residues[1] = {0} /\ Residues[9] = {0, 4, 5}
      BY ResidueValues
    <3>3. {0, 4, 5} = {5, 4, 0}
      OBVIOUS
    <3> QED BY <3>1, <3>2, <3>3, Zenon
  <2>3. lowCarry \in Byte /\ crcCarry \in Byte
    BY DEF Byte
  <2> QED BY <1>2, <2>1, <2>2, <2>3, ShiftBits
<1> DEFINE lowFeed == EightShifts(lowCarry)   crcFeed == EightShifts(crcCarry)
<1>4. lowFeed \in Byte /\ crcFeed \in Byte
  BY <1>3 DEF Byte
<1>5. h1 = Xor(Shift(h), lowCarry)
  <2>1. Xor(Shift(h), lowCarry) \in Byte
    BY <1>3, XorByte
  <2>2. /\ 0 \in h1 <=> 15 \in a
        /\ 1 \in h1 <=> 0 \in h
        /\ 2 \in h1 <=> 1 \in h
        /\ 3 \in h1 <=> 2 \in h
        /\ 4 \in h1 <=> 3 \in h
        /\ 5 \in h1 <=> 4 \in h
        /\ 6 \in h1 <=> 5 \in h
        /\ 7 \in h1 <=> 6 \in h
        /\ 7 \notin h
    BY <1>1, <1>2
  <2>3. /\ 0 \in Shift(h) <=> 7 \in h
        /\ 1 \in Shift(h) <=> 0 \in h
        /\ 2 \in Shift(h) <=> 1 \in h
        /\ 3 \in Shift(h) <=> 2 \in h
        /\ 4 \in Shift(h) <=> ~(3 \in h <=> 7 \in h)
        /\ 5 \in Shift(h) <=> ~(4 \in h <=> 7 \in h)
        /\ 6 \in Shift(h) <=> 5 \in h
        /\ 7 \in Shift(h) <=> 6 \in h
    BY <1>2, ShiftBits
  <2>4. \A n : n \in lowCarry <=> n = 0 /\ 15 \in a
    OBVIOUS
  <2> HIDE DEF lowCarry
  <2> QED BY <1>2, <2>1, <2>2, <2>3, <2>4, SameByte DEF Xor
<1>6. l1 = Xor(Xor(Shift(l), lowFeed), crcCarry)
  <2>1. Xor(Xor(Shift(l), lowFeed), crcCarry) \in Byte
    BY <1>3, <1>4, XorByte
  <2>2. /\ 0 \in l1 <=> 7 \in a
        /\ 1 \in l1 <=> 0 \in l
        /\ 2 \in l1 <=> 1 \in l
        /\ 3 \in l1 <=> 2 \in l
        /\ 4 \in l1 <=> 3 \in l
        /\ 5 \in l1 <=> 4 \in l
        /\ 6 \in l1 <=> 5 \in l
        /\ 7 \in l1 <=> 6 \in l
        /\ 7 \in l <=> 15 \in a
    BY <1>1, <1>2
  <2>3. /\ 0 \in Shift(l) <=> 7 \in l
        /\ 1 \in Shift(l) <=> 0 \in l
        /\ 2 \in Shift(l) <=> 1 \in l
        /\ 3 \in Shift(l) <=> 2 \in l
        /\ 4 \in Shift(l) <=> ~(3 \in l <=> 7 \in l)
        /\ 5 \in Shift(l) <=> ~(4 \in l <=> 7 \in l)
        /\ 6 \in Shift(l) <=> 5 \in l
        /\ 7 \in Shift(l) <=> 6 \in l
    BY <1>2, ShiftBits
  <2>4. \A n : n \in lowFeed <=> n \in {0, 4, 5} /\ 15 \in a
    BY <1>3
  <2>5. \A n : n \in crcCarry <=> n = 0 /\ 7 \in a
    OBVIOUS
  <2> HIDE DEF lowCarry, crcCarry, lowFeed, crcFeed
  <2> QED BY <1>2, <2>1, <2>2, <2>3, <2>4, <2>5, SameByte DEF Xor
<1>7. c1 = Xor(Shift(c), crcFeed)
  <2>1. Xor(Shift(c), crcFeed) \in Byte
    BY <1>3, <1>4, XorByte
  <2>2. /\ 0 \notin c1
        /\ 1 \in c1 <=> 0 \in c
        /\ 2 \in c1 <=> 1 \in c
        /\ 3 \in c1 <=> 2 \in c
        /\ 4 \in c1 <=> 3 \in c
        /\ 5 \in c1 <=> 4 \in c
        /\ 6 \in c1 <=> 5 \in c
        /\ 7 \in c1 <=> 6 \in c
        /\ 7 \in c <=> 7 \in a
    BY <1>1, <1>2
  <2>3. /\ 0 \in Shift(c) <=> 7 \in c
        /\ 1 \in Shift(c) <=> 0 \in c
        /\ 2 \in Shift(c) <=> 1 \in c
        /\ 3 \in Shift(c) <=> 2 \in c
        /\ 4 \in Shift(c) <=> ~(3 \in c <=> 7 \in c)
        /\ 5 \in Shift(c) <=> ~(4 \in c <=> 7 \in c)
        /\ 6 \in Shift(c) <=> 5 \in c
        /\ 7 \in Shift(c) <=> 6 \in c
    BY <1>2, ShiftBits
  <2>4. \A n : n \in crcFeed <=> n \in {0, 4, 5} /\ 7 \in a
    BY <1>3
  <2> HIDE DEF lowCarry, crcCarry, lowFeed, crcFeed
  <2> QED BY <1>2, <2>1, <2>2, <2>3, <2>4, SameByte DEF Xor
<1> HIDE DEF lowCarry, crcCarry, lowFeed, crcFeed
<1> DEFINE first == EightShifts(h)
<1>8. /\ first \in Byte /\ Xor(first, l) \in Byte /\ EightShifts(Xor(first, l)) \in Byte
      /\ Shift(first) \in Byte
  BY <1>2, EightXor, XorByte, ShiftBits
<1>9. \A d : EightShifts(Shift(d)) = Shift(EightShifts(d))
  BY DEF EightShifts
<1>10. Xor(EightShifts(h1), l1) = Xor(Shift(Xor(first, l)), crcCarry)
  <2>1. EightShifts(h1) = Xor(Shift(first), lowFeed)
    BY <1>3, <1>5, <1>9, EightXor DEF lowFeed
  <2>2. Xor(Xor(Shift(first), lowFeed), Xor(Xor(Shift(l), lowFeed), crcCarry))
          = Xor(Xor(Shift(first), Shift(l)), crcCarry)
    BY DEF Xor
  <2>3. Xor(Shift(first), Shift(l)) = Shift(Xor(first, l))
    BY <1>2, <1>8, ShiftXor
  <2> QED BY <1>6, <2>1, <2>2, <2>3, Zenon
<1>11. EightShifts(Xor(EightShifts(h1), l1)) = Xor(Shift(EightShifts(Xor(first, l))), crcFeed)
  <2>1. Shift(Xor(first, l)) \in Byte
    BY <1>8, ShiftBits
  <2>2. EightShifts(Xor(Shift(Xor(first, l)), crcCarry))
          = Xor(EightShifts(Shift(Xor(first, l))), EightShifts(crcCarry))
    BY <1>3, <2>1, EightXor
  <2> QED BY <1>9, <1>10, <2>2, Zenon DEF crcFeed
<1>12. Syndrome(up) = Xor(Shift(EightShifts(Xor(first, l))), Shift(c))
  <2>1. Syndrome(up) = Xor(EightShifts(Xor(EightShifts(h1), l1)), c1)
    BY DEF Syndrome, Linear, h1, l1, c1
  <2>2. Xor(Xor(Shift(EightShifts(Xor(first, l))), crcFeed), Xor(Shift(c), crcFeed))
          = Xor(Shift(EightShifts(Xor(first, l))), Shift(c))
    BY DEF Xor
  <2> QED BY <1>7, <1>11, <2>1, <2>2, Zenon
<1>13. Shift(Syndrome(a)) = Xor(Shift(EightShifts(Xor(first, l))), Shift(c))
  <2>1. Syndrome(a) = Xor(EightShifts(Xor(first, l)), c)
    BY DEF Syndrome, Linear, h, l, c
  <2> QED BY <1>2, <1>8, <2>1, ShiftXor
<1> QED BY <1>1, <1>12, <1>13 DEF up

\* A shift loses nothing.
LEMMA ShiftZero ==
  ASSUME NEW c \in Byte, Shift(c) = {}
  PROVE  c = {}
<1>1. /\ 0 \notin c /\ 1 \notin c /\ 2 \notin c /\ 3 \notin c
      /\ 4 \notin c /\ 5 \notin c /\ 6 \notin c /\ 7 \notin c
  BY ShiftBits
<1>2. {} \in Byte
  BY DEF Byte
<1> QED BY <1>1, <1>2, SameByte

\* A burst within eight bits, wherever it begins, has a syndrome.
LEMMA BurstShows ==
  ASSUME NEW bits \in Byte, bits # {}, NEW place \in 0 .. 16
  PROVE  {b + place : b \in bits} \in SUBSET (0 .. 23) /\ Syndrome({b + place : b \in bits}) # {}
<1> DEFINE at(p) == {b + p : b \in bits}
           Seen(p) == Syndrome(at(p)) # {}
<1>1. \A p \in 0 .. 16 : at(p) \in SUBSET (0 .. p + 7)
  BY DEF Byte
<1>2. Seen(0)
  <2>1. at(0) = bits
    <3>1. \A b \in bits : b + 0 = b
      BY DEF Byte
    <3> QED BY <3>1
  <2> QED BY <2>1, ByteIsSyndrome DEF Byte
<1>3. ASSUME NEW p \in 0 .. 15, Seen(p) PROVE Seen(p + 1)
  <2>1. at(p) \in SUBSET (0 .. 22)
    BY DEF Byte
  <2>2. at(p + 1) = {b + 1 : b \in at(p)}
    <3>1. \A b \in bits : b + (p + 1) = (b + p) + 1
      BY DEF Byte
    <3> QED BY <3>1
  <2> HIDE DEF at
  <2>3. Syndrome(at(p + 1)) = Shift(Syndrome(at(p))) /\ Syndrome(at(p)) \in Byte
    <3>1. at(p) \in SUBSET (0 .. 23)
      BY <2>1
    <3> QED BY <2>1, <2>2, <3>1, SyndromeShifts, SyndromeXor
  <2> QED BY <1>3, <2>3, ShiftZero
<1> HIDE DEF Seen
<1>4. Seen(1) /\ Seen(2) /\ Seen(3) /\ Seen(4)
  BY <1>2, <1>3
<1>5. Seen(5) /\ Seen(6) /\ Seen(7) /\ Seen(8)
  BY <1>4, <1>3
<1>6. Seen(9) /\ Seen(10) /\ Seen(11) /\ Seen(12)
  BY <1>5, <1>3
<1>7. Seen(13) /\ Seen(14) /\ Seen(15) /\ Seen(16)
  BY <1>6, <1>3
<1>8. Seen(place)
  BY <1>2, <1>4, <1>5, <1>6, <1>7
<1>9. at(place) \in SUBSET (0 .. 23)
  BY <1>1
<1> QED BY <1>8, <1>9 DEF Seen

\* All the noise there is shows.
LEMMA NoiseShows ==
  ASSUME NEW noise \in Noise, noise # {}
  PROVE  noise \in SUBSET (0 .. 23) /\ Syndrome(noise) # {}
<1>1. CASE noise \in ThreeBits
  BY <1>1, ThreeBitsShow
<1>2. CASE noise \notin ThreeBits
  <2>1. PICK place \in 0 .. 16 : noise \in Burst(place)
    BY <1>2 DEF Noise
  <2>2. PICK bits \in SUBSET (0 .. 7) : noise = {b + place : b \in bits}
    BY <2>1 DEF Burst
  <2>3. bits \in Byte /\ bits # {}
    BY <2>2 DEF Byte
  <2> QED BY <2>2, <2>3, BurstShows
<1> QED BY <1>1, <1>2

\* Every word that arrives as it was sent is printed, and nothing that noise has made
\* of it or of its checksum.
LEMMA ChecksumTells ==
  ASSUME NEW word \in SUBSET (0 .. 15), NEW noise \in Noise
  PROVE  PrintedOf(word, noise) = IF noise = {} THEN {word} ELSE {}
<1> DEFINE sent == {b + 8 : b \in word} \cup Remainder(word)
           received == Xor(sent, noise)
<1>1. sent \in SUBSET (0 .. 23) /\ Data(sent) = word /\ Syndrome(Xor(sent, 16 .. 23)) = {}
  BY SentFits
<1>2. PrintedOf(word, noise) =
        IF SenderCrcCalculate(Data(received)) = received \cap 0 .. 7 THEN {Data(received)} ELSE {}
  BY DEF PrintedOf, Data
<1> HIDE DEF sent
<1>3. noise \in SUBSET (0 .. 23)
  BY NoiseShows
<1>4. received \in SUBSET (0 .. 23)
  BY <1>1, <1>3 DEF Xor
<1>5. Xor(received, 16 .. 23) = Xor(Xor(sent, 16 .. 23), noise)
  BY DEF Xor
<1>6. Syndrome(Xor(received, 16 .. 23)) = Syndrome(noise)
  <2>1. Xor(sent, 16 .. 23) \in SUBSET (0 .. 23)
    BY <1>1 DEF Xor
  <2>2. Syndrome(Xor(Xor(sent, 16 .. 23), noise)) = Xor(Syndrome(Xor(sent, 16 .. 23)), Syndrome(noise))
    BY <1>3, <2>1, SyndromeXor
  <2> QED BY <1>1, <1>5, <2>2, XorEmpty, Zenon
<1>7. CASE noise = {}
  <2>1. received = sent
    BY <1>7, XorEmpty
  <2>2. Syndrome(Xor(received, 16 .. 23)) = {}
    BY <1>1, <2>1
  <2> QED BY <1>1, <1>2, <1>4, <1>7, <2>1, <2>2, AcceptedIff
<1>8. CASE noise # {}
  <2>1. Syndrome(Xor(received, 16 .. 23)) # {}
    BY <1>6, <1>8, NoiseShows
  <2> QED BY <1>2, <1>4, <1>8, <2>1, AcceptedIff
<1> QED BY <1>7, <1>8

-----------------------------------------------------------------------------
(***************************************************************************)
(* The theorems.                                                           *)
(***************************************************************************)
\* No process has begun.
LEMMA InitIInv == Init => IInv
<1> SUFFICES ASSUME Init PROVE IInv
  OBVIOUS
<1>1. Typed
  BY DEF Init, Typed, Replies, Labels
<1>2. \A p \in Processes : Good(p)
  BY DEF Init, Good, Place, BitOrder, Heard, Unheard, Answered
<1> QED BY <1>1, <1>2 DEF IInv

\* Whichever call of whichever process comes next, succeeding or failing, the
\* invariant goes on.
LEMMA NextIInv == IInv /\ [Next]_vars => IInv'
<1> SUFFICES ASSUME IInv, [Next]_vars PROVE IInv'
  OBVIOUS
<1>1. CASE \E p \in Processes : Read(p)
  BY <1>1, SensorStep
<1>2. ASSUME NEW p \in Processes,
             \/ Open(p) \/ Configure(p) \/ SpiTransfer(p) \/ I2cWrite(p)
             \/ CommandWrite(p) \/ TransferFails(p) \/ ReadFails(p) \/ Sleep(p)
      PROVE  IInv'
  BY <1>2, OpenStep, ConfigureStep, SpiTransferStep, I2cWriteStep, SensorStep
<1>3. ASSUME UNCHANGED <<procVars, spiVars, heard>> PROVE IInv'
  BY <1>3 DEF procVars, spiVars, IInv, Typed, Good, Place, BitOrder, Heard, Unheard, Answered, P
<1>4. CASE Measure
  BY <1>3, <1>4 DEF Measure
<1>5. CASE UNCHANGED vars
  BY <1>3, <1>5 DEF vars
<1> QED BY <1>1, <1>2, <1>4, <1>5 DEF Next

\* It holds throughout.
LEMMA Invariance == Spec => []IInv
BY InitIInv, NextIInv, PTL DEF Spec

\* However many programs are on the bus, whatever bit order they find and whichever
\* calls fail: one that gets to the end of main had each of its transfers reach the
\* device, most significant bit first, one that fails had not, and one that ends early
\* with status 0 had none.
THEOREM SuccessWasHeard == Spec => []SaidIsHeard
<1>1. IInv => SaidIsHeard
  <2> SUFFICES ASSUME IInv, NEW p \in Processes
               PROVE  LET own == {<<p, i>> : i \in 1 .. Len(P(p).transfers)} IN
                        /\ pc[p] = "done" => own \subseteq heard
                        /\ program[p] = "spi_master_rx" /\ pc[p] = "transfer" /\ step[p] = 2
                             => <<p, 1>> \in heard
                        /\ pc[p] = "failed" => ~(own \subseteq heard)
                        /\ pc[p] = "exited" => own \cap heard = {}
    BY DEF SaidIsHeard
  <2>1. Place(p) /\ Heard(p) /\ Unheard(p)
    BY DEF IInv, Good
  <2>2. 1 \in 1 .. 2 - 1
    OBVIOUS
  <2> QED BY <2>1, <2>2 DEF Place, Heard, Unheard
<1> QED BY <1>1, Invariance, PTL

\* Whichever programs share the bus, spi_master_rx.c prints the answer to its own
\* request if no transfer came between its two, and read_ver_reg.c the version always.
THEOREM RepliesAreOwn == Spec => []AnswersAreOwn
<1>1. IInv => AnswersAreOwn
  BY DEF IInv, Good, Answered, AnswersAreOwn
<1> QED BY <1>1, Invariance, PTL

\* Whatever the sensor measures, sht30.c prints each word of a frame that arrived as
\* it was sent, and none that noise has changed in up to three places or in a burst of
\* eight bits, be they in the word or in its checksum.
THEOREM PrintedWordsAreIntact == Spec => []PrintedIffIntact
<1>1. Init => PrintedIffIntact
  BY DEF Init, PrintedIffIntact
<1>2. PrintedIffIntact /\ [Next]_vars => PrintedIffIntact'
  <2> SUFFICES ASSUME PrintedIffIntact, [Next]_vars PROVE PrintedIffIntact'
    OBVIOUS
  <2>1. ASSUME NEW p \in Processes, Read(p) PROVE PrintedIffIntact'
    <3>1. PICK words \in [Quantities -> Words], q \in Quantities, e \in Noise :
            frame' = [r \in Quantities |->
              [sent |-> words[r], noise |-> IF r = q THEN e ELSE {},
               printed |-> Printed[<<words[r], IF r = q THEN e ELSE {}>>]]]
      BY <2>1 DEF Read
    <3>2. {} \in Noise
      BY DEF Noise
    <3>3. ASSUME NEW word \in Words, NEW noise \in Noise
          PROVE  Printed[<<word, noise>>] = IF noise = {} THEN {word} ELSE {}
      <4>1. word \in SUBSET (0 .. 15)
        BY WordsAssumption
      <4>2. Printed[<<word, noise>>] = PrintedOf(word, noise)
        BY DEF Printed
      <4> QED BY <4>1, <4>2, ChecksumTells
    <3>4. ASSUME NEW r \in Quantities
          PROVE  frame'[r].printed = IF frame'[r].noise = {} THEN {frame'[r].sent} ELSE {}
      <4> DEFINE noise == IF r = q THEN e ELSE {}
      <4>1. words[r] \in Words /\ noise \in Noise
        BY <3>2
      <4>2. frame'[r] = [sent |-> words[r], noise |-> noise, printed |-> Printed[<<words[r], noise>>]]
        BY <3>1
      <4> HIDE DEF noise
      <4>3. /\ frame'[r].sent = words[r] /\ frame'[r].noise = noise
            /\ frame'[r].printed = Printed[<<words[r], noise>>]
        BY <4>2
      <4> QED BY <3>3, <4>1, <4>3, Zenon
    <3> QED BY <3>4 DEF PrintedIffIntact
  <2>2. CASE frame' = <<>>
    BY <2>2 DEF PrintedIffIntact
  <2>3. CASE UNCHANGED vars
    BY <2>3 DEF vars, PrintedIffIntact
  <2> QED BY <2>1, <2>2, <2>3 DEF Next
<1> QED BY <1>1, <1>2, PTL DEF Spec
=============================================================================

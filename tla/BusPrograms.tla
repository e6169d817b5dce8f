----------------------------- MODULE BusPrograms -----------------------------
(***************************************************************************)
(* The user space programs that talk to a device on the SPI bus (six that  *)
(* send a message, spi_master_rx.c that asks for one and the RFID reader's *)
(* read_ver_reg.c) or on the I2C bus (pcf8574.c and sht30.c).              *)
(*                                                                         *)
(* Each opens the bus, configures it and makes its transfers.  The         *)
(* programs differ in what they do when a call fails: some end with a      *)
(* status that says so, some with the status of success, three go on with  *)
(* the 0 that spi_bus_init returns, which is their standard input, three   *)
(* with the descriptor they have just closed.  These differences are data  *)
(* here; the calls are the actions.                                        *)
(*                                                                         *)
(* Two programs use the same bus at once.  The kernel carries out one      *)
(* transfer after the other, but nothing keeps the transfers of a program  *)
(* together, and the settings of an SPI device outlive the program.        *)
(***************************************************************************)
EXTENDS Integers, Sequences, Crc8

CONSTANTS
  Processes,   \* of the instance
  Words        \* what the SHT30 may measure

VARIABLES
  program,     \* of each process
  pc,          \* "open", "configure", "transfer" or how it ended: "done" (to the end of
               \*   main), "exited" (earlier, with status 0) or "failed" (with another
               \*   status); sht30 also "read" and "sleep"
  step,        \* index of the setting or transfer that comes next
  fd,          \* "none", "device", "stdin" or "closed"
  got,         \* what the last transfer shifted in
  disturbed,   \* another process's transfer came between two of this one's
  lsb_first,   \* a setting of the SPI device
  reply,       \* what the SPI device will shift out first
  heard,       \* transfers that reached a device as they were meant
  sensor,      \* the SHT30: "idle", "measuring" or "ready"
  frame        \* the frame that sht30 read in this step and what it prints of it

procVars == <<program, pc, step, fd>>
spiVars == <<got, disturbed, lsb_first, reply>>
vars == <<procVars, spiVars, heard, sensor, frame>>

-----------------------------------------------------------------------------
(***************************************************************************)
(* The programs: how they end or go on without a bus and when a setting    *)
(* fails, the settings, and the bytes of each transfer.                    *)
(***************************************************************************)
FourSettings == <<"WR_MODE", "WR_BITS_PER_WORD", "WR_MAX_SPEED_HZ", "RD_LSB_FIRST">>

\* Mutant: the bit order is left to RD_LSB_FIRST.
SpiMasterTxNoMode ==
  [bus |-> "spi", unopened |-> "stdin", unset |-> "exited", settings |-> Tail(FourSettings),
   transfers |-> <<<<"message">>>>]
SpiMasterTx ==
  [bus |-> "spi", unopened |-> "stdin", unset |-> "exited", settings |-> FourSettings,
   transfers |-> <<<<"message">>>>]
SpiMasterTxCpp ==
  [bus |-> "spi", unopened |-> "exited", unset |-> "exited", settings |-> FourSettings,
   transfers |-> <<<<"message">>>>]
\* In Python a failing call raises an exception that nobody catches.
SpiMasterTxPy ==
  [bus |-> "spi", unopened |-> "failed", unset |-> "failed", settings |-> FourSettings,
   transfers |-> <<<<"message">>>>]
SpiMasterTxClass == [SpiMasterTxPy EXCEPT !.transfers = <<<<"object">>>>]
SpiMasterTxCstruct == [SpiMasterTxPy EXCEPT !.transfers = <<<<"object">>>>]
SpiMasterTxStruct ==
  [bus |-> "spi", unopened |-> "stdin", unset |-> "close", settings |-> <<"WR_MODE">>,
   transfers |-> <<<<"struct">>>>]
\* rx_buf is longer than the dummy that is sent for it: the stack follows.
SpiMasterRx ==
  [bus |-> "spi", unopened |-> "stdin", unset |-> "close", settings |-> <<"WR_MODE">>,
   transfers |-> <<<<"REQ_SND">>, <<"dummy", "stack">>>>]
\* Mutant: command and answer are two transfers.
ReadVerRegApart ==
  [bus |-> "spi", unopened |-> "exited", unset |-> "close", settings |-> <<"WR_MODE">>,
   transfers |-> <<<<"VER_REG">>, <<"dummy">>>>]
ReadVerReg ==
  [bus |-> "spi", unopened |-> "exited", unset |-> "close", settings |-> <<"WR_MODE">>,
   transfers |-> <<<<"VER_REG", "dummy">>>>]
Pcf8574 ==
  [bus |-> "i2c", unopened |-> "failed", unset |-> "failed", settings |-> <<"I2C_SLAVE">>,
   transfers |-> <<<<"0x01">>>>]
\* The command that is written once before the loop and once in every round of it.
Sht30 ==
  [bus |-> "i2c", unopened |-> "failed", unset |-> "failed", settings |-> <<"I2C_SLAVE">>,
   transfers |-> <<<<"command">>, <<"temp">>>>]
Programs ==
  [spi_master_tx |-> SpiMasterTx, spi_master_tx_cpp |-> SpiMasterTxCpp,
   spi_master_tx_py |-> SpiMasterTxPy, spi_master_tx_class |-> SpiMasterTxClass,
   spi_master_tx_cstruct |-> SpiMasterTxCstruct, spi_master_tx_struct |-> SpiMasterTxStruct,
   spi_master_rx |-> SpiMasterRx, read_ver_reg |-> ReadVerReg,
   pcf8574 |-> Pcf8574, sht30 |-> Sht30]

P(p) == Programs[program[p]]
Quantities == {"temperature", "humidity"}

\* What sht30.c prints of a word under noise.
Printed == [it \in Words \X Noise |-> PrintedOf(it[1], it[2])]

ASSUME WordsAssumption == Words \subseteq SUBSET (0 .. 15)

-----------------------------------------------------------------------------
Init ==
  /\ program \in {f \in [Processes -> DOMAIN Programs] :
                    \A p, q \in Processes : Programs[f[p]].bus = Programs[f[q]].bus}
  /\ pc = [p \in Processes |-> "open"] /\ step = [p \in Processes |-> 1]
  /\ fd = [p \in Processes |-> "none"] /\ got = [p \in Processes |-> <<>>]
  /\ disturbed = {} /\ heard = {}
  /\ lsb_first \in BOOLEAN /\ reply \in {"idle", "answer", "version"}
  /\ \A p \in Processes : P(p).bus = "i2c" => ~lsb_first /\ reply = "idle"
  /\ sensor = "idle" /\ frame = <<>>

Goto(p, label, n) ==
  /\ pc' = [pc EXCEPT ![p] = label]
  /\ step' = [step EXCEPT ![p] = n]
  /\ UNCHANGED program

\* open(): a failure ends the program, or spi_bus_init returns 0.
Open(p) ==
  /\ pc[p] = "open"
  /\ \/ Goto(p, "configure", 1) /\ fd' = [fd EXCEPT ![p] = "device"]
     \/ P(p).unopened # "stdin" /\ Goto(p, P(p).unopened, 1) /\ UNCHANGED fd
     \/ P(p).unopened = "stdin" /\ Goto(p, "transfer", 1) /\ fd' = [fd EXCEPT ![p] = "stdin"]
  /\ UNCHANGED <<spiVars, heard, sensor>>

NextSetting(p) ==
  IF step[p] = Len(P(p).settings) THEN Goto(p, "transfer", 1) ELSE Goto(p, "configure", step[p] + 1)

\* One ioctl of spi_bus_init.  WR_MODE sets the whole mode, the bit order with
\* it; RD_LSB_FIRST sets nothing, whatever the variable it is given holds.
Configure(p) ==
  /\ pc[p] = "configure"
  /\ \/ /\ NextSetting(p)
        /\ lsb_first' = (lsb_first /\ P(p).settings[step[p]] # "WR_MODE")
        /\ UNCHANGED fd
     \/ P(p).unset # "close" /\ Goto(p, P(p).unset, 1) /\ UNCHANGED <<fd, lsb_first>>
     \/ P(p).unset = "close" /\ Goto(p, "transfer", 1) /\ fd' = [fd EXCEPT ![p] = "closed"]
        /\ UNCHANGED lsb_first
  /\ UNCHANGED <<got, disturbed, reply, heard, sensor>>

-----------------------------------------------------------------------------
(***************************************************************************)
(* Transfers                                                               *)
(***************************************************************************)
\* What the SPI device may shift out behind a byte.
Answers(byte) ==
  CASE lsb_first          -> {"idle"}
    [] byte = "REQ_SND"   -> {"answer"}
    [] byte = "VER_REG"   -> {"version"}
    [] byte = "stack"     -> {"idle", "answer", "version"}
    [] OTHER              -> {"idle"}

NextTransfer(p) ==
  /\ IF step[p] = Len(P(p).transfers) THEN Goto(p, "done", step[p])
                                      ELSE Goto(p, "transfer", step[p] + 1)
  /\ disturbed' = disturbed \cup {q \in Processes \ {p} : pc[q] = "transfer" /\ step[q] > 1}

\* ioctl(SPI_IOC_MESSAGE(1)): a reply comes one byte after what it replies to.
SpiTransfer(p) ==
  LET bytes == P(p).transfers[step[p]] IN
  /\ pc[p] = "transfer" /\ fd[p] = "device" /\ P(p).bus = "spi"
  /\ \E answers \in [1 .. Len(bytes) -> {"idle", "answer", "version"}] :
       /\ \A i \in 1 .. Len(bytes) : answers[i] \in Answers(bytes[i])
       /\ got' = [got EXCEPT ![p] = SubSeq(<<reply>> \o answers, 1, Len(bytes))]
       /\ reply' = answers[Len(bytes)]
  /\ heard' = IF lsb_first THEN heard ELSE heard \cup {<<p, step[p]>>}
  /\ NextTransfer(p)
  /\ UNCHANGED <<fd, lsb_first, sensor>>

\* write() of pcf8574.c: one byte of an int.
I2cWrite(p) ==
  /\ pc[p] = "transfer" /\ program[p] = "pcf8574"
  /\ heard' = heard \cup {<<p, step[p]>>}
  /\ NextTransfer(p)
  /\ UNCHANGED <<fd, got, lsb_first, reply, sensor>>

\* write() of sht30.c.  A sensor that measures does not acknowledge.
CommandWrite(p) ==
  /\ pc[p] = "transfer" /\ program[p] = "sht30" /\ sensor # "measuring"
  /\ sensor' = "measuring"
  /\ IF step[p] = 1 THEN Goto(p, "transfer", 2) ELSE Goto(p, "read", 2)
  /\ UNCHANGED <<fd, spiVars, heard>>

\* A failing transfer ends the program with a status that says so; sht30.c does
\* not look at the result of the write in its loop.
TransferFails(p) ==
  /\ pc[p] = "transfer"
  /\ IF program[p] = "sht30" /\ step[p] = 2 THEN Goto(p, "read", 2)
                                            ELSE Goto(p, "failed", 1)
  /\ UNCHANGED <<fd, spiVars, heard, sensor>>

-----------------------------------------------------------------------------
(***************************************************************************)
(* The loop of sht30.c                                                     *)
(***************************************************************************)
Measure ==
  /\ sensor = "measuring" /\ sensor' = "ready"
  /\ UNCHANGED <<procVars, spiVars, heard>>

\* read(): the sensor stretches the clock until it has measured, and gives a
\* measurement once.  Noise hits one of the two words.
Read(p) ==
  /\ pc[p] = "read" /\ sensor = "ready" /\ sensor' = "idle"
  /\ \E words \in [Quantities -> Words], q \in Quantities, e \in Noise :
       LET noise == [r \in Quantities |-> IF r = q THEN e ELSE {}]
       IN frame' = [r \in Quantities |-> [sent |-> words[r], noise |-> noise[r],
                                          printed |-> Printed[<<words[r], noise[r]>>]]]
  /\ Goto(p, "sleep", 2)
  /\ UNCHANGED <<fd, spiVars, heard>>

\* The read fails, and so it does when no measurement was asked for: break, and
\* off the end of main.
ReadFails(p) ==
  /\ pc[p] = "read" /\ Goto(p, "exited", 1)
  /\ UNCHANGED <<fd, spiVars, heard, sensor>>

Sleep(p) ==
  /\ pc[p] = "sleep" /\ Goto(p, "transfer", 2)
  /\ UNCHANGED <<fd, spiVars, heard, sensor>>

Next ==
  \/ \E p \in Processes : Read(p)
  \/ /\ frame' = <<>>
     /\ \/ Measure
        \/ \E p \in Processes :
             \/ Open(p) \/ Configure(p) \/ SpiTransfer(p) \/ I2cWrite(p)
             \/ CommandWrite(p) \/ TransferFails(p) \/ ReadFails(p) \/ Sleep(p)

Spec == Init /\ [][Next]_vars

-----------------------------------------------------------------------------
(***************************************************************************)
(* Properties                                                              *)
(***************************************************************************)
\* What a program tells of its transfers is so.  One that gets to the end of main
\* ("Message sent successfully", or pcf8574.c's status) had every transfer of its
\* own reach the device, most significant bit first: neither standard input, a
\* closed descriptor nor the bit order an earlier program left in the device is
\* taken for it; nor is it where spi_master_rx.c says "Send request message to SPI
\* slave successfully".  One that ends with another status left one unsent.  Status
\* 0 tells nothing: exit(0) and return 0 follow failing calls too; but then not one
\* transfer was made.  (sht30.c, whose writes are not counted, claims nothing.)
SaidIsHeard ==
  \A p \in Processes : LET own == {<<p, i>> : i \in 1 .. Len(P(p).transfers)} IN
    /\ pc[p] = "done" => own \subseteq heard
    /\ program[p] = "spi_master_rx" /\ pc[p] = "transfer" /\ step[p] = 2 => <<p, 1>> \in heard
    /\ pc[p] = "failed" => ~(own \subseteq heard)
    /\ pc[p] = "exited" => own \cap heard = {}

\* What spi_master_rx.c prints begins with the answer to its own request, unless
\* another program's transfer came between its two; read_ver_reg.c, which asks
\* and receives in one transfer, prints the version whatever else is on the bus.
AnswersAreOwn ==
  \A p \in Processes : pc[p] = "done" =>
    /\ program[p] = "spi_master_rx" /\ p \notin disturbed => got[p][1] = "answer"
    /\ program[p] = "read_ver_reg" => got[p][Len(got[p])] = "version"

\* sht30.c prints a word exactly when it arrived with its checksum as the sensor
\* sent them: no bits that Noise flips are taken for a measurement, and no
\* measurement that arrived intact is dropped.
PrintedIffIntact ==
  frame # <<>> => \A q \in Quantities :
    frame[q].printed = IF frame[q].noise = {} THEN {frame[q].sent} ELSE {}
==============================================================================

------------------------- MODULE GpioRegistersProofs -------------------------
(***************************************************************************)
(* Proofs about GpioRegisters for every choice of programs: the variables  *)
(* keep their types, and pins keep the functions that a program gave them  *)
(* unless two changes of a register have overlapped.                       *)
(***************************************************************************)
EXTENDS GpioRegisters, TLAPS

USE InstancesAssumption

\* The pins that /dev/mem, sysfs and /dev/gpiochip0 are used for.
ChangedPins == {2, 3, 4}
SysfsPins == {14, 15}

\* The types, and the part of TypeOK that pc and copy need to be functions.
Typed ==
  /\ TypeOK
  /\ pc \in [programs -> Nat] /\ status \in [programs -> {0, 1}]
  /\ copy = [p \in programs |-> copy[p]]

\* A program has a copy only in the middle of a change; unless changes overlapped,
\* only one program has, and what it read is still so.
CopiesFresh ==
  /\ \A p \in programs :
       copy[p] # NoCopy => /\ At(p, "and") \/ At(p, "or")
                           /\ ~overlapped => \A q \in Register(Pin(p)) : copy[p][q] = fsel[q]
  /\ ~overlapped => \A p, o \in programs : Changing(p) /\ Changing(o) => p = o

\* How far a program has come says which functions its pins have.
Configured ==
  /\ ~overlapped /\ "blink" \in programs =>
       /\ pc["blink"] = 2 => fsel[4] = 0
       /\ pc["blink"] > 2 => fsel[4] = 1
  /\ ~overlapped /\ "button" \in programs =>
       /\ pc["button"] = 2 => fsel[3] = 0
       /\ pc["button"] > 2 => fsel[3] = 1
       /\ pc["button"] > 3 => fsel[2] = 0
  /\ "gpio_write" \in programs /\ pc["gpio_write"] > 1 => 15 \notin exported /\ fsel[15] = 1

IInv == Typed /\ CopiesFresh /\ Configured

-----------------------------------------------------------------------------
(***************************************************************************)
(* The programs' operations.                                               *)
(***************************************************************************)
\* The programs there are.
LEMMA Programs ==
  AllPrograms = {"blink", "button", "sysfs_button", "sysfs_blink", "sysfs_read", "gpio_write",
                 "gpio_read"}
  BY DEF AllPrograms, Setup

\* The operations of the program that blinks through /dev/mem, in order.
LEMMA BlinkBody ==
  /\ Len(Body("blink")) = 4 /\ Len(Setup["blink"]) = 2 /\ Loop["blink"] # <<>>
  /\ Body("blink")[1] = Op("and", 4) /\ Body("blink")[2] = Op("or", 4)
  /\ Body("blink")[3] = Op("set", 4) /\ Body("blink")[4] = Op("clr", 4)
BY DEF Body, Setup, Loop, GpioOut, GpioInp

\* The operations of the program that shows its button.
LEMMA ButtonBody ==
  /\ Len(Body("button")) = 5 /\ Len(Setup["button"]) = 3 /\ Loop["button"] # <<>>
  /\ Body("button")[1] = Op("and", 3) /\ Body("button")[2] = Op("or", 3)
  /\ Body("button")[3] = Op("and", 2)
  /\ Body("button")[4] = Op("get", 2) /\ Body("button")[5] = Op("put", 3)
BY DEF Body, Setup, Loop, GpioOut, GpioInp

\* The operations of the program that writes to a line.
LEMMA WriteBody ==
  /\ Len(Body("gpio_write")) = 3 /\ Loop["gpio_write"] = <<>>
  /\ Body("gpio_write")[1] = Op("request_out", 15)
  /\ Body("gpio_write")[2] = Op("set", 15) /\ Body("gpio_write")[3] = Op("clr", 15)
BY DEF Body, Setup, Loop, GpioWrite

\* The other programs' operations neither change registers nor request an output.
LEMMA OtherBody ==
  ASSUME NEW p \in AllPrograms \ {"blink", "button", "gpio_write"}
  PROVE  /\ Len(Body(p)) \in 1 .. 4
         /\ Loop[p] # <<>> => Len(Setup[p]) \in 0 .. Len(Body(p)) - 1
         /\ \A i \in 1 .. Len(Body(p)) :
              \/ /\ Body(p)[i].what \in {"direction_out", "direction_in", "value", "value_1", "value_0"}
                 /\ Body(p)[i].pin \in SysfsPins
              \/ Body(p)[i].what = "get" /\ Body(p)[i].pin \in {15, 56}
              \/ Body(p)[i].what = "request_in" /\ Body(p)[i].pin = 56
<1>1. CASE p = "sysfs_button"
  <2>1. /\ Len(Body(p)) = 4 /\ Len(Setup[p]) = 2
        /\ Body(p)[1] = Op("direction_out", 14) /\ Body(p)[2] = Op("direction_in", 15)
        /\ Body(p)[3] = Op("get", 15) /\ Body(p)[4] = Op("value", 14)
    BY <1>1 DEF Body, Setup, Loop
  <2>2. \A i \in 1 .. Len(Body(p)) : i = 1 \/ i = 2 \/ i = 3 \/ i = 4
    BY <2>1
  <2> QED BY <2>1, <2>2 DEF Op, SysfsPins
<1>2. CASE p = "sysfs_blink"
  <2>1. /\ Len(Body(p)) = 3 /\ Len(Setup[p]) = 1
        /\ Body(p)[1] = Op("direction_out", 14)
        /\ Body(p)[2] = Op("value_1", 14) /\ Body(p)[3] = Op("value_0", 14)
    BY <1>2 DEF Body, Setup, Loop, SysfsBlinkSetup, SysfsBlinkLoop
  <2> QED BY <2>1 DEF Op, SysfsPins
<1>3. CASE p = "sysfs_read"
  <2>1. /\ Len(Body(p)) = 2 /\ Len(Setup[p]) = 1
        /\ Body(p)[1] = Op("direction_in", 15) /\ Body(p)[2] = Op("get", 15)
    BY <1>3 DEF Body, Setup, Loop
  <2> QED BY <2>1 DEF Op, SysfsPins
<1>4. CASE p = "gpio_read"
  <2>1. /\ Len(Body(p)) = 2 /\ Loop[p] = <<>>
        /\ Body(p)[1] = Op("request_in", 56) /\ Body(p)[2] = Op("get", 56)
    BY <1>4 DEF Body, Setup, Loop, GpioRead
  <2> QED BY <2>1 DEF Op, SysfsPins
<1> QED BY <1>1, <1>2, <1>3, <1>4, Programs

\* What each operation is made on, and by whom.
LEMMA Operations ==
  ASSUME NEW p \in AllPrograms, NEW i \in 1 .. Len(Body(p))
  PROVE  /\ Body(p)[i].pin \in Pins
         /\ Body(p)[i].what \in {"and", "or"} =>
              /\ Body(p)[i].pin \in ChangedPins
              /\ (p = "blink" /\ i \in 1 .. 2) \/ (p = "button" /\ i \in 1 .. 3)
         /\ Body(p)[i].what \in {"direction_out", "direction_in"} =>
              Body(p)[i].pin \in SysfsPins
         /\ Body(p)[i].what = "request_out" => p = "gpio_write" /\ i = 1 /\ Body(p)[i].pin = 15
         /\ Body(p)[i].what = "request_in" => Body(p)[i].pin = 56
<1> USE DEF Op, Pins, ChangedPins, SysfsPins
<1>1. CASE p = "blink"
  BY <1>1, BlinkBody
<1>2. CASE p = "button"
  BY <1>2, ButtonBody
<1>3. CASE p = "gpio_write"
  BY <1>3, WriteBody
<1>4. CASE p \notin {"blink", "button", "gpio_write"}
  BY <1>4, OtherBody
<1> QED BY <1>1, <1>2, <1>3, <1>4

\* A program goes from an operation to another of its operations, or ends.
LEMMA BodyLength ==
  ASSUME NEW p \in AllPrograms
  PROVE  /\ Len(Body(p)) \in 1 .. 5
         /\ Loop[p] # <<>> => Len(Setup[p]) \in 0 .. Len(Body(p)) - 1
<1>1. CASE p = "blink"
  BY <1>1, BlinkBody
<1>2. CASE p = "button"
  BY <1>2, ButtonBody
<1>3. CASE p = "gpio_write"
  BY <1>3, WriteBody
<1>4. CASE p \notin {"blink", "button", "gpio_write"}
  BY <1>4, OtherBody
<1> QED BY <1>1, <1>2, <1>3, <1>4

\* The pins that are changed share a register, in which no other pin is.
LEMMA OneRegister ==
  /\ \A pin \in ChangedPins : Register(pin) = ChangedPins
  /\ SysfsPins \cap ChangedPins = {} /\ 56 \notin ChangedPins
  BY DEF ChangedPins, SysfsPins, Register, Pins

-----------------------------------------------------------------------------
(***************************************************************************)
(* Steps of a program.                                                     *)
(***************************************************************************)
\* The operation a running program makes next is one of its own.
LEMMA Running ==
  ASSUME Typed, NEW p \in programs
  PROVE  /\ p \in AllPrograms /\ pc[p] \in 0 .. Len(Body(p))
         /\ pc[p] > 0 => pc[p] \in 1 .. Len(Body(p)) /\ Pin(p) \in Pins
<1>1. p \in AllPrograms /\ pc[p] \in 0 .. Len(Body(p))
  BY DEF Typed, TypeOK
<1>2. pc[p] > 0 => pc[p] \in 1 .. Len(Body(p))
  BY <1>1, BodyLength
<1> QED BY <1>1, <1>2, Operations DEF Pin

\* A step of p moves p alone, to another of its operations or to its end.
LEMMA StepMoves ==
  ASSUME Typed, NEW p \in programs, pc[p] > 0, Step(p)
  PROVE  /\ pc' \in [programs -> Nat] /\ pc'[p] \in 0 .. Len(Body(p))
         /\ \A o \in programs \ {p} : pc'[o] = pc[o]
         /\ pc[p] < Len(Body(p)) => pc'[p] = pc[p] + 1
         /\ pc[p] = Len(Body(p)) => pc'[p] = IF Loop[p] = <<>> THEN 0 ELSE Len(Setup[p]) + 1
<1>1. p \in AllPrograms /\ pc[p] \in 1 .. Len(Body(p))
  BY Running
<1>2. Len(Body(p)) \in 1 .. 5 /\ (Loop[p] # <<>> => Len(Setup[p]) \in 0 .. Len(Body(p)) - 1)
  BY <1>1, BodyLength
<1> QED BY <1>1, <1>2 DEF Step, Typed

\* A step that is none of the changes of a function finds the program's pins configured.
LEMMA QuietMoves ==
  ASSUME Typed, NEW p \in programs, pc[p] > 0, Step(p), NEW w, At(p, w),
         w \notin {"and", "or", "request_out"}
  PROVE  /\ p = "blink" => pc[p] > 2 /\ pc'[p] > 2
         /\ p = "button" => pc[p] > 3 /\ pc'[p] > 3
         /\ p = "gpio_write" => pc[p] > 1
<1>1. pc[p] \in 1 .. Len(Body(p)) /\ Body(p)[pc[p]].what \notin {"and", "or", "request_out"}
  BY Running DEF At
<1>0. /\ pc[p] < Len(Body(p)) => pc'[p] = pc[p] + 1
      /\ pc[p] = Len(Body(p)) => pc'[p] = IF Loop[p] = <<>> THEN 0 ELSE Len(Setup[p]) + 1
  BY StepMoves
<1>2. CASE p = "blink"
  <2>1. pc[p] \in 3 .. 4
    BY <1>1, <1>2, BlinkBody DEF Op
  <2>2. Len(Body(p)) = 4 /\ Len(Setup[p]) = 2 /\ Loop[p] # <<>>
    BY <1>2, BlinkBody
  <2>3. pc'[p] = IF pc[p] < 4 THEN pc[p] + 1 ELSE 3
    BY <1>0, <2>1, <2>2
  <2> QED BY <1>2, <2>1, <2>3
<1>3. CASE p = "button"
  <2>1. pc[p] \in 4 .. 5
    BY <1>1, <1>3, ButtonBody DEF Op
  <2>2. Len(Body(p)) = 5 /\ Len(Setup[p]) = 3 /\ Loop[p] # <<>>
    BY <1>3, ButtonBody
  <2>3. pc'[p] = IF pc[p] < 5 THEN pc[p] + 1 ELSE 4
    BY <1>0, <2>1, <2>2
  <2> QED BY <1>3, <2>1, <2>3
<1>4. CASE p = "gpio_write"
  BY <1>1, <1>4, WriteBody DEF Op
<1> QED BY <1>2, <1>3, <1>4

\* A program that changes a register is one of two, in its setup, and all changes are
\* of one register.
LEMMA ChangingPlace ==
  ASSUME Typed, NEW p \in programs, At(p, "and") \/ At(p, "or")
  PROVE  /\ Pin(p) \in ChangedPins /\ Register(Pin(p)) = ChangedPins
         /\ (p = "blink" /\ pc[p] \in 1 .. 2) \/ (p = "button" /\ pc[p] \in 1 .. 3)
<1>1. pc[p] \in 1 .. Len(Body(p)) /\ Body(p)[pc[p]].what \in {"and", "or"}
  BY Running DEF At
<1> QED BY <1>1, Running, Operations, OneRegister DEF Pin

\* What is said of a program that does not move.
LEMMA OthersStay ==
  ASSUME NEW o, pc'[o] = pc[o]
  PROVE  Pin(o)' = Pin(o) /\ Register(Pin(o))' = Register(Pin(o))
         /\ At(o, "and")' = At(o, "and") /\ At(o, "or")' = At(o, "or")
  BY DEF Pin, At, Register

\* The types, when p moves or changes its copy, and its pin the rest.
LEMMA TypedStep ==
  ASSUME Typed, NEW p \in programs, programs' = programs, exported' = exported,
         pc' \in [programs -> Nat], pc'[p] \in 0 .. Len(Body(p)),
         \A o \in programs \ {p} : pc'[o] = pc[o],
         copy' = [q \in programs |-> copy'[q]],
         \A o \in programs \ {p} : copy'[o] = copy[o],
         (copy[p] = NoCopy \/ copy[p] \in [Register(Pin(p)) -> 0 .. 7])',
         status' \in [programs -> {0, 1}], fsel' \in [Pins -> 0 .. 7], latch' \in [Pins -> {0, 1}],
         pressed' \in {0, 1}, overlapped' \in BOOLEAN
  PROVE  Typed'
<1>1. \A o \in programs : pc'[o] \in 0 .. Len(Body(o)) /\ status'[o] \in {0, 1}
  BY DEF Typed, TypeOK
<1>2. \A o \in programs : (copy[o] = NoCopy \/ copy[o] \in [Register(Pin(o)) -> 0 .. 7])'
  <2> TAKE o \in programs
  <2>1. CASE o = p
    BY <2>1
  <2>2. CASE o # p
    BY <2>2, OthersStay DEF Typed, TypeOK
  <2> QED BY <2>1, <2>2
<1> QED BY <1>1, <1>2 DEF Typed, TypeOK

\* A step that leaves the functions and copies alone keeps everything.
LEMMA QuietStep ==
  ASSUME IInv, NEW p \in programs, SetOrClr(p) \/ Get(p) \/ Put(p) \/ Value(p)
  PROVE  IInv'
<1>1. PICK w \in {"set", "clr", "get", "put", "value", "value_0", "value_1"} : At(p, w)
  BY DEF SetOrClr, Get, Put, Value
<1>2. /\ pc[p] > 0 /\ Step(p)
      /\ UNCHANGED <<programs, copy, fsel, pressed, exported, overlapped>>
  BY <1>1 DEF SetOrClr, Get, Put, Value, At
<1>3. copy[p] = NoCopy
  BY <1>1 DEF IInv, CopiesFresh, At
<1>4. /\ pc' \in [programs -> Nat] /\ pc'[p] \in 0 .. Len(Body(p))
      /\ \A o \in programs \ {p} : pc'[o] = pc[o]
  BY <1>2, StepMoves DEF IInv
<1>5. status' \in [programs -> {0, 1}] /\ latch' \in [Pins -> {0, 1}]
  <2>1. Pin(p) \in Pins /\ Levels(Pin(p)) \subseteq {0, 1} /\ status \in [programs -> {0, 1}]
    BY <1>2, Running DEF IInv, Typed, TypeOK, Levels
  <2> QED BY <2>1 DEF SetOrClr, Get, Put, Value, Drive, IInv, Typed, TypeOK
<1>6. Typed'
  BY <1>2, <1>3, <1>4, <1>5, TypedStep DEF IInv, Typed, TypeOK
<1>7. CopiesFresh'
  BY <1>2, <1>3, <1>4, OthersStay DEF IInv, CopiesFresh, Changing
<1>8. Configured'
  <2>1. /\ p = "blink" => pc[p] > 2 /\ pc'[p] > 2
        /\ p = "button" => pc[p] > 3 /\ pc'[p] > 3
        /\ p = "gpio_write" => pc[p] > 1
    BY <1>1, <1>2, QuietMoves DEF IInv
  <2>2. pc'[p] \in Nat /\ pc[p] \in Nat
    BY <1>4 DEF IInv, Typed
  <2> QED BY <1>2, <1>4, <2>1, <2>2 DEF IInv, Configured
<1> QED BY <1>6, <1>7, <1>8 DEF IInv

\* A function that the kernel sets is of a pin outside of the register.
LEMMA KernelStep ==
  ASSUME IInv, NEW p \in programs, Direction(p) \/ Request(p)
  PROVE  IInv'
<1>1. PICK w \in {"direction_out", "direction_in", "request_out", "request_in"} : At(p, w)
  BY DEF Direction, Request
<1>2. /\ pc[p] \in 1 .. Len(Body(p)) /\ p \in AllPrograms /\ Step(p)
      /\ UNCHANGED <<programs, copy, status, pressed, exported, overlapped>>
  BY Running DEF Direction, Request, IInv
<1>3. copy[p] = NoCopy
  BY <1>1 DEF IInv, CopiesFresh, At
<1>4. /\ pc' \in [programs -> Nat] /\ pc'[p] \in 0 .. Len(Body(p))
      /\ \A o \in programs \ {p} : pc'[o] = pc[o]
  BY <1>2, StepMoves DEF IInv
<1>5. /\ Pin(p) \in Pins \ ChangedPins /\ p \notin {"blink", "button"}
      /\ At(p, "request_out") => p = "gpio_write" /\ Pin(p) = 15
      /\ At(p, "request_in") => Pin(p) = 56
      /\ p = "gpio_write" => pc[p] = 1 /\ At(p, "request_out")
  <2>1. /\ Body(p)[pc[p]].what = w /\ Pin(p) = Body(p)[pc[p]].pin
        /\ \A v : At(p, v) => v = w
    BY <1>1 DEF At, Pin
  <2>2. /\ Pin(p) \in Pins \ ChangedPins /\ (w = "request_out" => p = "gpio_write" /\ Pin(p) = 15)
        /\ w = "request_in" => Pin(p) = 56
    BY <1>2, <2>1, Operations DEF SysfsPins, ChangedPins
  <2>3. p # "blink"
    BY <1>2, <2>1, BlinkBody DEF Op
  <2>4. p # "button"
    BY <1>2, <2>1, ButtonBody DEF Op
  <2>5. p = "gpio_write" => pc[p] = 1 /\ w = "request_out"
    BY <1>2, <2>1, WriteBody DEF Op
  <2> QED BY <1>1, <2>1, <2>2, <2>3, <2>4, <2>5
<1>6. /\ fsel' \in [Pins -> 0 .. 7] /\ latch' \in [Pins -> {0, 1}]
      /\ \A q \in Pins \ {Pin(p)} : fsel'[q] = fsel[q]
  <2>1. fsel \in [Pins -> 0 .. 7] /\ latch \in [Pins -> {0, 1}] /\ Pin(p) \in Pins
    BY <1>5 DEF IInv, Typed, TypeOK
  <2>2. /\ \/ fsel' = fsel
           \/ fsel' = [fsel EXCEPT ![Pin(p)] = 0]
           \/ fsel' = [fsel EXCEPT ![Pin(p)] = 1]
        /\ latch' = latch \/ latch' = [latch EXCEPT ![Pin(p)] = 0]
    BY DEF Direction, Request, Drive
  <2> QED BY <2>1, <2>2
<1>7. Typed'
  BY <1>2, <1>3, <1>4, <1>6, TypedStep DEF IInv, Typed, TypeOK
<1>8. CopiesFresh'
  <2>1. \A o \in programs : At(o, "and") \/ At(o, "or") => Register(Pin(o)) = ChangedPins
    BY ChangingPlace DEF IInv
  <2>2. \A q \in ChangedPins : fsel'[q] = fsel[q]
    BY <1>5, <1>6 DEF ChangedPins, Pins
  <2> QED BY <1>2, <1>3, <1>4, <2>1, <2>2, OthersStay DEF IInv, CopiesFresh, Changing
<1>9. Configured'
  <2>1. fsel'[2] = fsel[2] /\ fsel'[3] = fsel[3] /\ fsel'[4] = fsel[4]
    BY <1>5, <1>6 DEF ChangedPins, Pins
  <2>2. CASE p = "gpio_write"
    <3>1. At(p, "request_out") /\ Pin(p) = 15 /\ ~At(p, "direction_out") /\ ~At(p, "direction_in")
          /\ ~At(p, "request_in")
      BY <1>5, <2>2 DEF At
    <3>2. 15 \notin exported /\ fsel'[15] = 1
      BY <3>1 DEF Direction, Request, Drive, IInv, Typed, TypeOK, Pins
    <3> QED BY <1>2, <1>4, <1>5, <2>1, <2>2, <3>2 DEF IInv, Configured
  <2>3. CASE p # "gpio_write"
    <3>1. 15 \notin exported => fsel'[15] = fsel[15]
      <4>1. 15 \notin exported => Pin(p) # 15
        BY <1>5, <2>3 DEF Direction, Request
      <4> QED BY <1>6, <4>1 DEF Pins
    <3> QED BY <1>2, <1>4, <1>5, <2>1, <2>3, <3>1 DEF IInv, Configured
  <2> QED BY <2>2, <2>3
<1> QED BY <1>7, <1>8, <1>9 DEF IInv

\* A program that reads the register to change it has a fresh copy, and unless
\* changes overlap is the only one.
LEMMA LoadStep ==
  ASSUME IInv, NEW p \in programs, Load(p)
  PROVE  IInv'
<1>1. /\ At(p, "and") \/ At(p, "or")
      /\ copy' = [copy EXCEPT ![p] = [q \in Register(Pin(p)) |-> fsel[q]]]
      /\ overlapped' = (overlapped \/ \E o \in programs \ {p} :
                                        Changing(o) /\ Pin(o) \in Register(Pin(p)))
      /\ UNCHANGED <<programs, pc, status, fsel, latch, pressed, exported>>
  BY DEF Load
<1>2. Register(Pin(p)) = ChangedPins /\ ChangedPins \subseteq Pins
  BY <1>1, ChangingPlace DEF IInv, ChangedPins, Pins
<1>3. /\ copy' = [q \in programs |-> copy'[q]] /\ copy'[p] = [q \in ChangedPins |-> fsel[q]]
      /\ \A o \in programs \ {p} : copy'[o] = copy[o]
  BY <1>1, <1>2 DEF IInv, Typed
<1>4. \A o \in programs : Pin(o)' = Pin(o) /\ Register(Pin(o))' = Register(Pin(o))
                          /\ At(o, "and")' = At(o, "and") /\ At(o, "or")' = At(o, "or")
  BY <1>1, OthersStay
<1>5. overlapped' \in BOOLEAN
  <2>1. overlapped \in BOOLEAN
    BY DEF IInv, Typed, TypeOK
  <2> QED BY <1>1, <2>1, Zenon
<1>6. Typed'
  <2>1. copy'[p] \in [Register(Pin(p))' -> 0 .. 7]
    BY <1>2, <1>3, <1>4 DEF IInv, Typed, TypeOK
  <2>2. pc'[p] \in 0 .. Len(Body(p))
    BY <1>1 DEF IInv, Typed, TypeOK
  <2> QED BY <1>1, <1>3, <1>5, <2>1, <2>2, TypedStep DEF IInv, Typed, TypeOK
<1>7. ~overlapped' => ~overlapped /\ \A o \in programs \ {p} : ~Changing(o)
  <2>1. \A o \in programs : Changing(o) => Pin(o) \in ChangedPins
    BY ChangingPlace DEF IInv, CopiesFresh, Changing
  <2> QED BY <1>1, <1>2, <2>1
<1>8. CopiesFresh'
  <2>1. (\A o \in programs :
           copy[o] # NoCopy => /\ At(o, "and") \/ At(o, "or")
                               /\ ~overlapped => \A q \in Register(Pin(o)) : copy[o][q] = fsel[q])'
    BY <1>1, <1>2, <1>3, <1>4, <1>7 DEF IInv, CopiesFresh
  <2>2. (~overlapped => \A o, n \in programs : Changing(o) /\ Changing(n) => o = n)'
    BY <1>1, <1>3, <1>7 DEF Changing
  <2> QED BY <2>1, <2>2 DEF CopiesFresh
<1>9. Configured'
  BY <1>1, <1>7 DEF IInv, Configured
<1> QED BY <1>6, <1>8, <1>9 DEF IInv

\* Writing the copy back changes the function of the program's pin alone, unless
\* changes overlapped.
LEMMA StoreStep ==
  ASSUME IInv, NEW p \in programs, Store(p)
  PROVE  IInv'
<1>1. /\ pc[p] > 0 /\ copy[p] # NoCopy /\ Step(p) /\ copy' = [copy EXCEPT ![p] = NoCopy]
      /\ fsel' = [q \in Pins |->
                    IF q = Pin(p) THEN Changed(Body(p)[pc[p]].what, copy[p][q])
                    ELSE IF q \in DOMAIN copy[p] THEN copy[p][q] ELSE fsel[q]]
      /\ UNCHANGED <<programs, status, latch, pressed, exported, overlapped>>
  BY DEF Store, Changing
<1>2. /\ At(p, "and") \/ At(p, "or")
      /\ ~overlapped => \A q \in ChangedPins : copy[p][q] = fsel[q]
      /\ ~overlapped => \A o \in programs \ {p} : ~Changing(o)
  BY <1>1, ChangingPlace DEF IInv, CopiesFresh, Changing
<1>3. /\ Pin(p) \in ChangedPins /\ Pin(p) = Body(p)[pc[p]].pin /\ ChangedPins \subseteq Pins
      /\ copy[p] \in [ChangedPins -> 0 .. 7]
      /\ (p = "blink" /\ pc[p] \in 1 .. 2) \/ (p = "button" /\ pc[p] \in 1 .. 3)
  BY <1>1, <1>2, ChangingPlace DEF IInv, Typed, TypeOK, Pin, ChangedPins, Pins
<1>4. /\ pc' \in [programs -> Nat] /\ pc'[p] \in 0 .. Len(Body(p))
      /\ \A o \in programs \ {p} : pc'[o] = pc[o]
  BY <1>1, StepMoves DEF IInv
<1>5. /\ copy' = [q \in programs |-> copy'[q]] /\ copy'[p] = NoCopy
      /\ \A o \in programs \ {p} : copy'[o] = copy[o]
  BY <1>1 DEF IInv, Typed
<1>6. \A f \in 0 .. 7, w \in {"and", "or"} : Changed(w, f) \in 0 .. 7
  BY DEF Changed
<1>7. Typed'
  <2>1. fsel' \in [Pins -> 0 .. 7]
    <3>1. Body(p)[pc[p]].what \in {"and", "or"}
      BY <1>2 DEF At
    <3>2. Changed(Body(p)[pc[p]].what, copy[p][Pin(p)]) \in 0 .. 7
      BY <1>3, <1>6, <3>1
    <3> QED BY <1>1, <1>3, <3>2 DEF IInv, Typed, TypeOK
  <2> QED BY <1>1, <1>4, <1>5, <2>1, TypedStep DEF IInv, Typed, TypeOK
<1>8. CopiesFresh'
  <2>1. \A o \in programs \ {p} :
          /\ Register(Pin(o))' = Register(Pin(o)) /\ copy'[o] = copy[o] /\ pc'[o] = pc[o]
          /\ At(o, "and")' = At(o, "and") /\ At(o, "or")' = At(o, "or")
    BY <1>4, <1>5, OthersStay
  <2>2. ~overlapped => \A o \in programs : copy'[o] = NoCopy
    <3>1. \A o \in programs : copy[o] # NoCopy => Changing(o)
      BY DEF IInv, CopiesFresh, Changing, At
    <3> QED BY <1>2, <1>5, <3>1
  <2>3. (\A o \in programs :
           copy[o] # NoCopy => /\ At(o, "and") \/ At(o, "or")
                               /\ ~overlapped => \A q \in Register(Pin(o)) : copy[o][q] = fsel[q])'
    BY <1>1, <1>5, <2>1, <2>2 DEF IInv, CopiesFresh
  <2>4. (~overlapped => \A o, n \in programs : Changing(o) /\ Changing(n) => o = n)'
    BY <1>1, <2>2 DEF Changing
  <2> QED BY <2>3, <2>4 DEF CopiesFresh
<1>9. Configured'
  <2>1. fsel'[15] = fsel[15]
    BY <1>1, <1>3 DEF ChangedPins, Pins
  <2>2. ~overlapped => \A q \in ChangedPins \ {Pin(p)} : fsel'[q] = fsel[q]
    BY <1>1, <1>2, <1>3 DEF ChangedPins, Pins
  <2>3. ~overlapped => fsel'[Pin(p)] = Changed(Body(p)[pc[p]].what, fsel[Pin(p)])
    BY <1>1, <1>2, <1>3
  <2>4. pc[p] < Len(Body(p)) => pc'[p] = pc[p] + 1
    BY <1>1, StepMoves DEF IInv
  <2>5. CASE p = "blink"
    <3>1. pc'[p] = pc[p] + 1 /\ Pin(p) = 4
          /\ Body(p)[pc[p]].what = IF pc[p] = 1 THEN "and" ELSE "or"
      BY <1>3, <2>4, <2>5, BlinkBody DEF Op
    <3>2. ~overlapped /\ pc[p] = 1 => fsel'[4] = 0
      BY <2>3, <3>1 DEF Changed
    <3>3. ~overlapped /\ pc[p] = 2 => fsel'[4] = 1
      BY <2>3, <2>5, <3>1 DEF Changed, IInv, Configured
    <3>4. ~overlapped => fsel'[2] = fsel[2] /\ fsel'[3] = fsel[3]
      BY <2>2, <3>1 DEF ChangedPins
    <3> QED BY <1>1, <1>3, <1>4, <2>1, <2>5, <3>1, <3>2, <3>3, <3>4 DEF IInv, Configured
  <2>6. CASE p = "button"
    <3>1. /\ pc'[p] = pc[p] + 1 /\ Pin(p) = IF pc[p] = 3 THEN 2 ELSE 3
          /\ Body(p)[pc[p]].what = IF pc[p] = 2 THEN "or" ELSE "and"
      BY <1>3, <2>4, <2>6, ButtonBody DEF Op
    <3>2. ~overlapped /\ pc[p] = 1 => fsel'[3] = 0
      BY <2>3, <3>1 DEF Changed
    <3>3. ~overlapped /\ pc[p] = 2 => fsel'[3] = 1
      BY <2>3, <2>6, <3>1 DEF Changed, IInv, Configured
    <3>4. ~overlapped /\ pc[p] = 3 => fsel'[2] = 0 /\ fsel'[3] = 1
      BY <2>2, <2>3, <2>6, <3>1 DEF Changed, IInv, Configured, ChangedPins
    <3>5. ~overlapped => fsel'[4] = fsel[4]
      BY <2>2, <3>1 DEF ChangedPins
    <3> QED BY <1>1, <1>3, <1>4, <2>1, <2>6, <3>1, <3>2, <3>3, <3>4, <3>5 DEF IInv, Configured
  <2> QED BY <1>3, <2>5, <2>6
<1> QED BY <1>7, <1>8, <1>9 DEF IInv

\* Starting a program says nothing of its pins yet, and killing one nothing anymore.
LEMMA UserStep ==
  ASSUME IInv, NEW p \in programs, Start(p) \/ Exit(p)
  PROVE  IInv'
<1>1. /\ UNCHANGED <<programs, fsel, latch, pressed, exported, overlapped>>
      /\ pc' \in [programs -> Nat] /\ pc'[p] \in 0 .. 1
      /\ \A o \in programs \ {p} : pc'[o] = pc[o]
      /\ status' \in [programs -> {0, 1}]
  BY DEF Start, Exit, IInv, Typed
<1>2. copy[p] # NoCopy => pc[p] > 0
  BY DEF IInv, CopiesFresh, At
<1>3. /\ copy' = [q \in programs |-> copy'[q]] /\ copy'[p] = NoCopy
      /\ \A o \in programs \ {p} : copy'[o] = copy[o]
  <2>1. CASE Start(p)
    <3>1. pc[p] = 0 /\ copy' = copy
      BY <2>1 DEF Start
    <3> QED BY <1>2, <3>1 DEF IInv, Typed
  <2>2. CASE Exit(p)
    BY <2>2 DEF Exit, IInv, Typed
  <2> QED BY <2>1, <2>2
<1>4. pc'[p] \in 0 .. Len(Body(p))
  <2>1. p \in AllPrograms
    BY Running DEF IInv
  <2>2. Len(Body(p)) \in 1 .. 5
    BY <2>1, BodyLength
  <2>3. \A n \in 1 .. 5 : 0 .. 1 \subseteq 0 .. n
    OBVIOUS
  <2>4. 0 .. 1 \subseteq 0 .. Len(Body(p))
    BY <2>2, <2>3
  <2> QED BY <1>1, <2>4
<1>5. Typed'
  BY <1>1, <1>3, <1>4, TypedStep DEF IInv, Typed, TypeOK
<1>6. CopiesFresh'
  BY <1>1, <1>3, OthersStay DEF IInv, CopiesFresh, Changing
<1>7. Configured'
  BY <1>1 DEF IInv, Configured
<1> QED BY <1>5, <1>6, <1>7 DEF IInv

-----------------------------------------------------------------------------
(***************************************************************************)
(* The theorems.                                                           *)
(***************************************************************************)
\* No program runs yet.
LEMMA InitIInv == Init => IInv
<1> SUFFICES ASSUME Init PROVE IInv
  OBVIOUS
<1>1. \A p \in programs : pc[p] = 0 /\ copy[p] = NoCopy /\ status[p] = 0
  BY DEF Init
<1>2. \A p \in programs : pc[p] \in 0 .. Len(Body(p))
  <2>1. programs \subseteq AllPrograms
    BY DEF Init
  <2>2. \A p \in programs : Len(Body(p)) \in 1 .. 5
    BY <2>1, BodyLength
  <2> QED BY <1>1, <2>2
<1>3. Typed
  <2>1. fsel \in [Pins -> 0 .. 7] /\ latch \in [Pins -> {0, 1}]
    BY DEF Init
  <2>2. /\ programs \in Instances /\ pressed \in {0, 1} /\ exported \subseteq {14, 15}
        /\ pc \in [programs -> Nat] /\ status \in [programs -> {0, 1}]
        /\ copy = [p \in programs |-> copy[p]]
    BY DEF Init
  <2>3. overlapped \in BOOLEAN
    BY DEF Init
  <2> QED BY <1>1, <1>2, <2>1, <2>2, <2>3 DEF Typed, TypeOK
<1>4. CopiesFresh /\ Configured
  BY <1>1 DEF CopiesFresh, Configured, Changing
<1> QED BY <1>3, <1>4 DEF IInv

\* Whatever the programs, the kernel and the user do, the invariant goes on.
LEMMA NextIInv == IInv /\ [Next]_vars => IInv'
<1> SUFFICES ASSUME IInv, [Next]_vars PROVE IInv'
  OBVIOUS
<1>1. ASSUME NEW p \in programs, Run(p) PROVE IInv'
  BY <1>1, LoadStep, StoreStep, QuietStep, KernelStep DEF Run
<1>2. ASSUME NEW p \in programs, Start(p) \/ Exit(p) PROVE IInv'
  BY <1>2, UserStep
<1>3. ASSUME UNCHANGED <<programs, pc, copy, status, fsel, latch, exported, overlapped>>,
             pressed' \in {0, 1}
      PROVE  IInv'
  <2>1. \A o \in programs : Pin(o)' = Pin(o) /\ Register(Pin(o))' = Register(Pin(o))
                            /\ At(o, "and")' = At(o, "and") /\ At(o, "or")' = At(o, "or")
    BY <1>3, OthersStay
  <2>2. Typed'
    BY <1>3, <2>1 DEF IInv, Typed, TypeOK
  <2>3. CopiesFresh'
    BY <1>3, <2>1 DEF IInv, CopiesFresh, Changing
  <2>4. Configured'
    BY <1>3 DEF IInv, Configured
  <2> QED BY <2>2, <2>3, <2>4 DEF IInv
<1>4. CASE PressOrRelease
  BY <1>3, <1>4 DEF PressOrRelease, IInv, Typed, TypeOK
<1>5. CASE UNCHANGED vars
  BY <1>3, <1>5 DEF vars, IInv, Typed, TypeOK
<1> QED BY <1>1, <1>2, <1>4, <1>5 DEF Next

\* It holds throughout.
LEMMA Invariance == Spec => []IInv
BY InitIInv, NextIInv, PTL DEF Spec

\* The variables keep their types: a program is at one of its operations, and what
\* it has read of a register are the functions of the pins of that register.
THEOREM TypeCorrect == Spec => []TypeOK
<1>1. IInv => TypeOK
  BY DEF IInv, Typed
<1> QED BY <1>1, Invariance, PTL

\* The pins that GPIO_OUT, GPIO_INP and GPIO_GET_LINEHANDLE_IOCTL have set up keep
\* their functions, whichever of the programs run beside them, wherever those are
\* killed, and whatever the functions were, unless two changes of one register
\* have overlapped.
THEOREM FunctionsAreHeld == Spec => []FunctionsHold
<1>1. IInv => FunctionsHold
  <2>1. Looping("blink") => "blink" \in programs /\ pc["blink"] > 2
    BY BlinkBody DEF Looping
  <2>2. Looping("button") => "button" \in programs /\ pc["button"] > 3
    BY ButtonBody DEF Looping
  <2>3. ASSUME IInv, "button" \in programs, pc["button"] > 3 PROVE pc["button"] > 2
    BY <2>3 DEF IInv, Typed
  <2> QED BY <2>1, <2>2, <2>3 DEF IInv, Configured, FunctionsHold
<1> QED BY <1>1, Invariance, PTL
=============================================================================

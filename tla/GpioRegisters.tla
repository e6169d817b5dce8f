---------------------------- MODULE GpioRegisters ----------------------------
(***************************************************************************)
(* The programs of "Physical layer/GPIO" that work on pins from user       *)
(* space: direct_register_access_control_gpio.c and ..._led_with_button.c  *)
(* through /dev/mem; sysfs_button_control_led.c, sysfs_blink_led.c and     *)
(* sysfs_read_button.c through sysfs; linux_gpio_write_output_gpio.c and   *)
(* linux_gpio_read_input_gpio.c through /dev/gpiochip0.  Each may be       *)
(* killed and started again at any time.                                   *)
(*                                                                         *)
(* Ten pins share one function select register.  GPIO_OUT and GPIO_INP     *)
(* read it, change three of its bits and write it back without a lock, so  *)
(* that programs on different pins can undo each other's configuration.    *)
(* A program is data, a sequence of operations; operations are actions.    *)
(***************************************************************************)
EXTENDS Naturals, Sequences, FiniteSets

CONSTANTS
  Instances,   \* the sets of programs that are started on one board
  NoCopy

VARIABLES
  programs,    \* the programs of this behaviour
  pc,          \* per program the operation it makes next, 0 if it is not running
  copy,        \* what a program has read of the register it is changing
  status,      \* the level it has read from its button
  fsel,        \* the function of each pin: 0 input, 1 output, else alternate
  latch,       \* the level an output drives
  pressed,     \* the level outside of an input
  exported,    \* the pins that the user gave to sysfs: no other handle on them
  overlapped   \* two changes of one register have been under way at once

vars == <<programs, pc, copy, status, fsel, latch, pressed, exported, overlapped>>

-----------------------------------------------------------------------------
Op(what, pin) == [what |-> what, pin |-> pin]

\* Mutant: the pin's three bits are not cleared first.
GpioOutOrOnly(pin) == <<Op("or", pin)>>
GpioOut(pin) == <<Op("and", pin), Op("or", pin)>>
GpioInp(pin) == <<Op("and", pin)>>

SysfsBlinkSetup == <<Op("direction_out", 14)>>
SysfsBlinkLoop == <<Op("value_1", 14), Op("value_0", 14)>>
\* These two have no loop.
GpioWrite == <<Op("request_out", 15), Op("set", 15), Op("clr", 15)>>
GpioRead == <<Op("request_in", 56), Op("get", 56)>>

Setup ==
  [blink |-> GpioOut(4),
   button |-> GpioOut(3) \o GpioInp(2),
   sysfs_button |-> <<Op("direction_out", 14), Op("direction_in", 15)>>,
   sysfs_blink |-> SysfsBlinkSetup,
   sysfs_read |-> <<Op("direction_in", 15)>>,
   gpio_write |-> GpioWrite,
   gpio_read |-> GpioRead]

\* Mutant: the button is read once, before the loop.
LoopWithoutGet ==
  [blink |-> <<Op("set", 4), Op("clr", 4)>>,
   button |-> <<Op("put", 3)>>,
   sysfs_button |-> <<Op("get", 15), Op("value", 14)>>,
   sysfs_blink |-> SysfsBlinkLoop,
   sysfs_read |-> <<Op("get", 15)>>,
   gpio_write |-> <<>>, gpio_read |-> <<>>]

Loop ==
  [blink |-> <<Op("set", 4), Op("clr", 4)>>,
   button |-> <<Op("get", 2), Op("put", 3)>>,
   sysfs_button |-> <<Op("get", 15), Op("value", 14)>>,
   sysfs_blink |-> SysfsBlinkLoop,
   sysfs_read |-> <<Op("get", 15)>>,
   gpio_write |-> <<>>, gpio_read |-> <<>>]

AllPrograms == DOMAIN Setup
ASSUME InstancesAssumption == Instances \subseteq SUBSET AllPrograms

Pins == {2, 3, 4, 14, 15, 56}
\* The pins of the register that holds a pin's function.
Register(pin) == {q \in Pins : q \div 10 = pin \div 10}

Init ==
  /\ programs \in Instances
  /\ pc = [p \in programs |-> 0] /\ copy = [p \in programs |-> NoCopy]
  /\ status = [p \in programs |-> 0]
  /\ fsel \in {[q \in Pins |-> f] : f \in {0, 1, 4}}
  /\ latch = [q \in Pins |-> 0] /\ pressed \in {0, 1}
  /\ exported \in SUBSET {14, 15} /\ overlapped = FALSE

\* What an input, or a button's pin with another function, reads.
Levels(pin) == IF fsel[pin] = 0 THEN {pressed} ELSE IF fsel[pin] = 1 THEN {latch[pin]} ELSE {0, 1}

Body(p) == Setup[p] \o Loop[p]
At(p, what) == pc[p] > 0 /\ Body(p)[pc[p]].what = what
Pin(p) == Body(p)[pc[p]].pin

\* On to the next operation, from the last one back to the start of the loop or
\* out of a program that has none.
Step(p) ==
  pc' = [pc EXCEPT ![p] = IF @ < Len(Body(p)) THEN @ + 1
                          ELSE IF Loop[p] = <<>> THEN 0 ELSE Len(Setup[p]) + 1]

Start(p) ==
  /\ pc[p] = 0
  /\ pc' = [pc EXCEPT ![p] = 1] /\ status' = [status EXCEPT ![p] = 0]
  /\ UNCHANGED <<programs, copy, fsel, latch, pressed, exported, overlapped>>

\* The user stops the program, or opening a file in sysfs, getting a line or
\* setting its value fails and it returns; its line is given back.
Exit(p) ==
  /\ pc[p] > 0
  /\ pc' = [pc EXCEPT ![p] = 0] /\ copy' = [copy EXCEPT ![p] = NoCopy]
  /\ UNCHANGED <<programs, status, fsel, latch, pressed, exported, overlapped>>

(***************************************************************************)
(* GPIO_OUT and GPIO_INP: &= and |= on the register are a load and a       *)
(* store.                                                                  *)
(***************************************************************************)
Changing(p) == pc[p] > 0 /\ copy[p] # NoCopy

Load(p) ==
  /\ At(p, "and") \/ At(p, "or")
  /\ copy[p] = NoCopy
  /\ copy' = [copy EXCEPT ![p] = [q \in Register(Pin(p)) |-> fsel[q]]]
  /\ overlapped' = (overlapped \/ \E o \in programs \ {p} :
                                    Changing(o) /\ Pin(o) \in Register(Pin(p)))
  /\ UNCHANGED <<programs, pc, status, fsel, latch, pressed, exported>>

Changed(what, f) == IF what = "and" THEN 0 ELSE IF f % 2 = 0 THEN f + 1 ELSE f

Store(p) ==
  /\ Changing(p)
  /\ fsel' = [q \in Pins |->
                IF q = Pin(p) THEN Changed(Body(p)[pc[p]].what, copy[p][q])
                ELSE IF q \in DOMAIN copy[p] THEN copy[p][q] ELSE fsel[q]]
  /\ copy' = [copy EXCEPT ![p] = NoCopy]
  /\ Step(p)
  /\ UNCHANGED <<programs, status, latch, pressed, exported, overlapped>>

(***************************************************************************)
(* GPSET0 and GPCLR0 act on the pins whose bit is written and on no other, *)
(* as GPIOHANDLE_SET_LINE_VALUES_IOCTL does on its line.                   *)
(***************************************************************************)
Drive(p, v) == latch' = [latch EXCEPT ![Pin(p)] = v]

SetOrClr(p) ==
  /\ \/ At(p, "set") /\ Drive(p, 1)
     \/ At(p, "clr") /\ Drive(p, 0)
  /\ Step(p)
  /\ UNCHANGED <<programs, copy, status, fsel, pressed, exported, overlapped>>

Get(p) ==
  /\ At(p, "get")
  /\ \E v \in Levels(Pin(p)) : status' = [status EXCEPT ![p] = v]
  /\ Step(p)
  /\ UNCHANGED <<programs, copy, fsel, latch, pressed, exported, overlapped>>

Put(p) ==
  /\ At(p, "put") /\ Drive(p, status[p])
  /\ Step(p)
  /\ UNCHANGED <<programs, copy, status, fsel, pressed, exported, overlapped>>

(***************************************************************************)
(* sysfs.  The programs test write with !, so that its -1 passes for       *)
(* success: the direction may silently stay what it was.                   *)
(***************************************************************************)
\* An output starts at 0.
Direction(p) ==
  /\ pc[p] > 0 /\ Pin(p) \in exported
  /\ \/ /\ At(p, "direction_out")
        /\ fsel' = [fsel EXCEPT ![Pin(p)] = 1] /\ latch' = [latch EXCEPT ![Pin(p)] = 0]
     \/ At(p, "direction_in") /\ fsel' = [fsel EXCEPT ![Pin(p)] = 0] /\ UNCHANGED latch
     \/ (At(p, "direction_out") \/ At(p, "direction_in")) /\ UNCHANGED <<fsel, latch>>
  /\ Step(p)
  /\ UNCHANGED <<programs, copy, status, pressed, exported, overlapped>>

\* The kernel refuses the value of a pin that is not an output.
Value(p) ==
  /\ \E v \in {0, 1} :
       /\ \/ At(p, "value") /\ v = status[p]
          \/ At(p, "value_1") /\ v = 1
          \/ At(p, "value_0") /\ v = 0
       /\ IF fsel[Pin(p)] = 1 THEN Drive(p, v) ELSE UNCHANGED latch
  /\ Step(p)
  /\ UNCHANGED <<programs, copy, status, fsel, pressed, exported, overlapped>>

\* GPIO_GET_LINEHANDLE_IOCTL: the kernel gives a line to one user at a time.
Request(p) ==
  /\ pc[p] > 0 /\ Pin(p) \notin exported
  /\ \/ At(p, "request_out") /\ fsel' = [fsel EXCEPT ![Pin(p)] = 1] /\ Drive(p, 0)
     \/ At(p, "request_in") /\ fsel' = [fsel EXCEPT ![Pin(p)] = 0] /\ UNCHANGED latch
  /\ Step(p)
  /\ UNCHANGED <<programs, copy, status, pressed, exported, overlapped>>

PressOrRelease ==
  /\ pressed' = 1 - pressed
  /\ UNCHANGED <<programs, pc, copy, status, fsel, latch, exported, overlapped>>

Run(p) ==
  \/ Load(p) \/ Store(p) \/ SetOrClr(p) \/ Get(p) \/ Put(p)
  \/ Direction(p) \/ Value(p) \/ Request(p)

Next ==
  \/ \E p \in programs : Run(p) \/ Start(p) \/ Exit(p)
  \/ PressOrRelease

\* The scheduler runs every program that is running.
Spec ==
  /\ Init /\ [][Next]_vars
  /\ \A p \in AllPrograms : WF_vars(p \in programs /\ Run(p))

-----------------------------------------------------------------------------
(***************************************************************************)
(* Properties.                                                             *)
(***************************************************************************)
TypeOK ==
  /\ programs \in Instances
  /\ \A p \in programs : pc[p] \in 0 .. Len(Body(p)) /\ status[p] \in {0, 1}
  /\ \A p \in programs :
       copy[p] = NoCopy \/ copy[p] \in [Register(Pin(p)) -> 0 .. 7]
  /\ fsel \in [Pins -> 0 .. 7] /\ latch \in [Pins -> {0, 1}]
  /\ pressed \in {0, 1} /\ exported \subseteq {14, 15} /\ overlapped \in BOOLEAN

Looping(p) == p \in programs /\ pc[p] > Len(Setup[p])

\* Unless two changes of the register overlapped, a program that has set up
\* its pins has them as it wants them from then on, whatever functions they
\* had before, whatever another program configures, and wherever that one, or
\* an earlier run of its own, was killed.  A line that linux_gpio_write_output
\* has got stays an output although sysfs_read_button wants it for an input.
FunctionsHold ==
  ~overlapped =>
    /\ Looping("blink") => fsel[4] = 1
    /\ Looping("button") => fsel[3] = 1 /\ fsel[2] = 0
    /\ "gpio_write" \in programs /\ pc["gpio_write"] > 1 => fsel[15] = 1

\* A program that goes on running determines its LED, provided that its pins have
\* their functions: a button that is held, or left alone, for long enough does
\* so in the two button programs, and the two blink programs switch theirs on
\* and off for ever.
LedsObey ==
  /\ \A b \in {0, 1} :
       /\ <>[](Looping("button") /\ fsel[2] = 0 /\ pressed = b) => <>[](latch[3] = b)
       /\ <>[](Looping("sysfs_button") /\ fsel[14] = 1 /\ fsel[15] = 0 /\ pressed = b)
            => <>[](latch[14] = b)
  /\ \A v \in {0, 1} :
       /\ <>[](Looping("blink") /\ fsel[4] = 1) => []<>(latch[4] = v)
       /\ <>[](Looping("sysfs_blink") /\ fsel[14] = 1) => []<>(latch[14] = v)
=============================================================================

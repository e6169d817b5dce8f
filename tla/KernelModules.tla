---------------------------- MODULE KernelModules ----------------------------
(***************************************************************************)
(* The kernel modules that acquire things one after the other when they    *)
(* are loaded and give them back when they are unloaded:                   *)
(*                                                                         *)
(*   - the four LED threads of Kernel/GPIO, which write to a mapping of    *)
(*     the GPIO registers;                                                 *)
(*   - the platform drivers of "Kernel/Device tree/src": a thread that     *)
(*     lights three LEDs one after the other, and one or two interrupt     *)
(*     handlers that count;                                                *)
(*   - Kernel/I2C/i2c_driver_pcf8574.c, a character device together with   *)
(*     an I2C client and driver.                                           *)
(*                                                                         *)
(* Each is a sequence of calls in init_module, perhaps one in dt_probe, a  *)
(* loop in a thread and a sequence of calls in cleanup_module.  The        *)
(* drivers differ in these sequences, which are data here, and share the   *)
(* calls, which are the actions.  insmod and rmmod run concurrently with   *)
(* the thread, the handlers and the users of the device file.              *)
(*                                                                         *)
(* The hazards are the order of cleanup_module (a mapping goes before its  *)
(* thread does), the order of init_module (the thread may run before the   *)
(* pin is an output) and calls whose failure is not turned into an error:  *)
(* a platform driver's init_module never learns what dt_probe returned,    *)
(* and cleanup_module undoes what may not have been done.                  *)
(***************************************************************************)
EXTENDS Naturals, Sequences, Functions

CONSTANTS
  Drivers,   \* the drivers of the instance
  MaxTimes   \* bound on the interrupts counted by one handler

VARIABLES
  driver,       \* the module this behaviour loads and unloads
  phase,        \* "unloaded", "init", "probe", "unwind" (of a failed probe), "live",
                \*   "cleanup", or "oops": the task died in the kernel
  pc,           \* index of the call that phase makes next
  present,      \* the platform device is in the device tree
  probe,        \* dt_probe: "none" (it was not called), "ok" or "failed"
  held,         \* what the module has acquired, of Resources
  opened,       \* a user has the device file open
  warned,       \* the kernel warned of something that was not registered
  irqs,         \* requested interrupts
  running,      \* interrupts whose handler is executing
  freeing,      \* devm_free_irq waits for a handler
  times,        \* gpio_2_irq_times, gpio_3_irq_times and irq_times
  thread,       \* "none", "err" (an ERR_PTR), "created", "running", "done"
                \*   (returned) or "killed" (died of a fault)
  tpc,          \* index of the access the thread makes next, 0 at its loop's test
  should_stop,  \* kthread_stop was called
  status,       \* the button level the thread read last
  gpios,        \* gpio_2, gpio_3 and gpio_4 as far as they are valid
  lost,         \* LEDs whose direction was refused, or that another consumer took
                \*   since gpiod_put gave them back (history)
  outputs,      \* LEDs whose pin is an output
  level,        \* the level of each LED's pin
  button        \* the level of the button's pin

taskVars == <<phase, pc>>
heldVars == <<driver, present, probe, held, opened, warned>>
irqVars == <<irqs, running, freeing, times>>
threadVars == <<thread, tpc, should_stop, status>>
pinVars == <<gpios, lost, outputs, level, button>>
vars == <<taskVars, heldVars, irqVars, threadVars, pinVars>>

-----------------------------------------------------------------------------
(***************************************************************************)
(* The drivers.  An interrupt's name stands for the call that requests it  *)
(* in dt_probe and for the call that frees it in cleanup_module.           *)
(***************************************************************************)
BlinkIoremapInit == <<"ioremap", "kthread_create", "wake_up_process", "GPIO_OUT">>
BlinkIoremapCleanup == <<"iounmap", "kthread_stop">>
Blink == <<<<"SET", 1>>, <<"CLR", 1>>>>

BlinkIowriteInit == <<"ioremap", "GPIO_OUT", "kthread_create", "wake_up_process">>
\* Mutant: the thread is never stopped.
BlinkIowriteCleanupNoStop == <<"iounmap">>
BlinkIowriteCleanup == <<"iounmap", "kthread_stop">>

\* Mutant: the thread starts before the pins are configured.
ButtonIoreadInitLate == <<"ioremap", "kthread_create", "wake_up_process", "GPIO_OUT">>
ButtonIoreadInit == <<"ioremap", "GPIO_OUT", "kthread_create", "wake_up_process">>
\* Mutant: the level read is not written to the LED.
ButtonIoreadLoopReadOnly == <<<<"READ", 1>>>>
ButtonIoreadLoop == <<<<"READ", 1>>, <<"WRITE", 1>>>>
ButtonIoreadCleanup == <<"iounmap", "kthread_stop">>

BlinkDevmInit ==
  <<"create_character_device", "ioremap", "kthread_create", "wake_up_process", "GPIO_OUT">>
BlinkDevmCleanup == <<"destroy_character_device", "devm_iounmap", "kthread_stop">>

GpioControlInit == <<"platform_driver_register", "kthread_create", "wake_up_process">>
\* Mutant: dt_probe leaves the direction to gpiod_get_index.
GpioControlProbeNoDirection == <<"gpiod_get_index", "gpiod_put">>
GpioControlProbe == <<"gpiod_get_index", "gpiod_put", "gpiod_direction_output">>
GpioControlLoop ==
  <<<<"SET", 2>>, <<"SET", 3>>, <<"SET", 4>>, <<"CLR", 4>>, <<"CLR", 3>>, <<"CLR", 2>>>>
GpioControlCleanup == <<"kthread_stop", "platform_driver_unregister">>

InterruptProbe == <<"irq_number">>
InterruptCleanup == <<"irq_number", "platform_driver_unregister">>

ByNameProbe == <<"gpio_2_irq", "gpio_3_irq">>
\* Mutant: the driver is unregistered first.
ByNameCleanupUnregisterFirst == <<"platform_driver_unregister", "gpio_2_irq", "gpio_3_irq">>
ByNameCleanup == <<"gpio_2_irq", "gpio_3_irq", "platform_driver_unregister">>

Pcf8574Init ==
  <<"create_character_device", "i2c_get_adapter", "i2c_new_client_device", "i2c_add_driver",
    "i2c_put_adapter", "i2c_master_send">>
Pcf8574Cleanup == <<"destroy_character_device", "i2c_unregister_device", "i2c_del_driver">>

KthreadDrivers == {"blink_ioremap", "blink_iowrite32", "button_ioread32", "blink_devm"}
AllDrivers == KthreadDrivers \cup {"gpio_control", "interrupt", "interrupt_by_name", "pcf8574"}

ASSUME DriversAssumption == Drivers \subseteq AllDrivers
ASSUME MaxTimesAssumption == MaxTimes \in Nat

InitCalls ==
  [blink_ioremap |-> BlinkIoremapInit, blink_iowrite32 |-> BlinkIowriteInit,
   button_ioread32 |-> ButtonIoreadInit, blink_devm |-> BlinkDevmInit,
   gpio_control |-> GpioControlInit, interrupt |-> <<"platform_driver_register">>,
   interrupt_by_name |-> <<"platform_driver_register">>, pcf8574 |-> Pcf8574Init]
ProbeCalls ==
  [gpio_control |-> GpioControlProbe, interrupt |-> InterruptProbe,
   interrupt_by_name |-> ByNameProbe]
LoopCalls ==
  [blink_ioremap |-> Blink, blink_iowrite32 |-> Blink, button_ioread32 |-> ButtonIoreadLoop,
   blink_devm |-> Blink, gpio_control |-> GpioControlLoop]
CleanupCalls ==
  [blink_ioremap |-> BlinkIoremapCleanup, blink_iowrite32 |-> BlinkIowriteCleanup,
   button_ioread32 |-> ButtonIoreadCleanup, blink_devm |-> BlinkDevmCleanup,
   gpio_control |-> GpioControlCleanup, interrupt |-> InterruptCleanup,
   interrupt_by_name |-> ByNameCleanup, pcf8574 |-> Pcf8574Cleanup]

Irqs == {"irq_number", "gpio_2_irq", "gpio_3_irq"}
Gpiods == 2 .. 4   \* the LEDs of gpio_control
Leds == 1 .. 4     \* 1 is the LED of a mapped driver, and pin 0 of the PCF8574
Resources == {"chrdev", "mapping", "driver", "adapter", "client"}

-----------------------------------------------------------------------------
\* The registers of the pins outlive the module, so it may find a pin in either
\* direction and at either level.
Init ==
  /\ driver \in Drivers
  /\ phase = "unloaded" /\ pc = 0
  /\ present = FALSE /\ probe = "none" /\ held = {} /\ opened = FALSE /\ warned = FALSE
  /\ irqs = {} /\ running = {} /\ freeing = FALSE /\ times = [i \in Irqs |-> 0]
  /\ thread = "none" /\ tpc = 0 /\ should_stop = FALSE /\ status = 0
  /\ gpios = {} /\ lost = {} /\ outputs \in {{}, Leds} /\ level \in {[l \in Leds |-> v] : v \in {0, 1}}
  /\ button \in {0, 1}

\* A module starts with its globals cleared; a platform driver finds the device
\* tree with its device or without.
Insmod ==
  /\ phase = "unloaded"
  /\ phase' = "init" /\ pc' = 1
  /\ present' \in (IF driver \in DOMAIN ProbeCalls THEN BOOLEAN ELSE {FALSE})
  /\ probe' = "none" /\ warned' = FALSE /\ times' = [i \in Irqs |-> 0]
  /\ thread' = "none" /\ tpc' = 0 /\ should_stop' = FALSE /\ status' = 0
  /\ gpios' = {} /\ lost' = {}
  /\ UNCHANGED <<driver, held, opened, irqs, running, freeing, outputs, level, button>>

\* cdev's owner is the module: it cannot be unloaded with its file open.
Rmmod ==
  /\ phase = "live" /\ ~opened
  /\ phase' = "cleanup" /\ pc' = 1
  /\ UNCHANGED <<heldVars, irqVars, threadVars, pinVars>>

\* A user of the device file, which can be opened while init_module is still
\* running.  The handlers of blink_devm only print.  dev_write of the PCF8574 also
\* clears its buffer of 100 bytes and copies into it what the user writes, however
\* long: the buffer is only printed, and it is not modelled.
DevOpen ==
  /\ "chrdev" \in held /\ phase \in {"init", "live"} /\ ~opened
  /\ opened' = TRUE
  /\ UNCHANGED <<taskVars, driver, present, probe, held, warned, irqVars, threadVars, pinVars>>

DevClose ==
  /\ opened /\ opened' = FALSE
  /\ UNCHANGED <<taskVars, driver, present, probe, held, warned, irqVars, threadVars, pinVars>>

Calls == CASE phase = "init" -> InitCalls[driver]
           [] phase = "probe" -> ProbeCalls[driver]
           [] phase = "cleanup" -> CleanupCalls[driver]
           [] OTHER -> <<>>

\* The running init_module, dt_probe or cleanup_module is about to make this call.
At(call) == pc \in DOMAIN Calls /\ Calls[pc] = call

Step == pc' = pc + 1 /\ UNCHANGED phase
SkipTo(n) == pc' = n /\ UNCHANGED phase
Oops == phase' = "oops" /\ UNCHANGED pc
Refused == phase' = "unloaded" /\ pc' = 0

\* What a call that only acquires or releases leaves alone.
Unaffected == UNCHANGED <<driver, present, probe, opened, irqVars, threadVars, pinVars>>

\* init_module returns 0, whatever dt_probe returned; cleanup_module returns.
Return ==
  /\ phase \in {"init", "cleanup"} /\ pc = Len(Calls) + 1
  /\ phase' = IF phase = "init" THEN "live" ELSE "unloaded"
  /\ pc' = 0
  /\ UNCHANGED <<heldVars, irqVars, threadVars, pinVars>>

(***************************************************************************)
(* The character device.                                                   *)
(***************************************************************************)
\* Only alloc_chrdev_region is looked at; class_create and device_create may
\* leave an ERR_PTR, and cdev_alloc a NULL that is written through.
CreateCharacterDevice ==
  /\ At("create_character_device")
  /\ \/ Step /\ held' \in {held, held \cup {"chrdev"}}
     \/ (Refused \/ Oops) /\ UNCHANGED held
  /\ Unaffected /\ UNCHANGED warned

\* device_destroy dies on a class that is an ERR_PTR, one of the reasons why there
\* is no device.  It drops the last reference to the device, which releases the
\* mapping that devm_ioremap made for it.
DestroyCharacterDevice ==
  /\ At("destroy_character_device")
  /\ \/ Step /\ held' = held \ {"chrdev", "mapping"}
     \/ "chrdev" \notin held /\ Oops /\ UNCHANGED held
  /\ Unaffected /\ UNCHANGED warned

(***************************************************************************)
(* The mapping of the registers.                                           *)
(***************************************************************************)
\* devm_ioremap dies on a device that is an ERR_PTR.
Unmappable == driver = "blink_devm" /\ "chrdev" \notin held

\* Mutant: a failed mapping is not noticed.
IoremapUnchecked ==
  /\ At("ioremap")
  /\ Step /\ held' \in {held, held \cup {"mapping"}}
  /\ Unaffected /\ UNCHANGED warned

\* A failed mapping is only printed: the rest of init_module is skipped and it
\* returns 0, so that the module is loaded without a thread.
Ioremap ==
  /\ At("ioremap")
  /\ \/ Unmappable /\ Oops /\ UNCHANGED held
     \/ ~Unmappable /\ Step /\ held' = held \cup {"mapping"}
     \/ ~Unmappable /\ SkipTo(Len(Calls) + 1) /\ UNCHANGED held
  /\ Unaffected /\ UNCHANGED warned

Iounmap ==
  /\ At("iounmap")
  /\ Step /\ held' = held \ {"mapping"}
  /\ Unaffected /\ UNCHANGED warned

\* devm_iounmap is given the device that was just destroyed: undefined, it may
\* find nothing to release or die on the freed device.
DevmIounmap ==
  /\ At("devm_iounmap")
  /\ Step \/ Oops
  /\ Unaffected /\ UNCHANGED <<held, warned>>

GpioOut ==
  /\ At("GPIO_OUT")
  /\ Step
  /\ outputs' = outputs \cup {1}
  /\ UNCHANGED <<heldVars, irqVars, threadVars, gpios, lost, level, button>>

(***************************************************************************)
(* The I2C client and driver.                                              *)
(***************************************************************************)
\* Without the adapter the block that uses it is skipped, up to i2c_master_send.
I2cGetAdapter ==
  /\ At("i2c_get_adapter")
  /\ \/ Step /\ held' = held \cup {"adapter"}
     \/ SkipTo(6) /\ UNCHANGED held
  /\ Unaffected /\ UNCHANGED warned

\* A failure is an ERR_PTR, which passes the test for NULL.
I2cNewClientDevice ==
  /\ At("i2c_new_client_device")
  /\ Step /\ held' \in {held, held \cup {"client"}}
  /\ Unaffected /\ UNCHANGED warned

\* Whatever i2c_add_driver returns, init_module goes on.
I2cAddDriver ==
  /\ At("i2c_add_driver")
  /\ Step /\ held' \in {held, held \cup {"driver"}}
  /\ Unaffected /\ UNCHANGED warned

I2cPutAdapter ==
  /\ At("i2c_put_adapter")
  /\ Step /\ held' = held \ {"adapter"}
  /\ Unaffected /\ UNCHANGED warned

\* It dies on a NULL and on an ERR_PTR; its result is not looked at.
I2cMasterSend ==
  /\ At("i2c_master_send")
  /\ IF "client" \in held THEN Step /\ level' \in {level, [level EXCEPT ![1] = 1]}
                          ELSE Oops /\ UNCHANGED level
  /\ UNCHANGED <<heldVars, irqVars, threadVars, gpios, lost, outputs, button>>

\* It does nothing for a NULL and for an ERR_PTR.
I2cUnregisterDevice ==
  /\ At("i2c_unregister_device")
  /\ Step /\ held' = held \ {"client"}
  /\ Unaffected /\ UNCHANGED warned

I2cDelDriver ==
  /\ At("i2c_del_driver")
  /\ Step /\ held' = held \ {"driver"}
  /\ warned' = ("driver" \notin held)
  /\ Unaffected

(***************************************************************************)
(* The platform driver and its managed interrupts.                         *)
(***************************************************************************)
\* The registration fails, or succeeds and calls dt_probe for the device.
PlatformDriverRegister ==
  /\ At("platform_driver_register")
  /\ \/ Refused /\ UNCHANGED held
     \/ /\ held' = held \cup {"driver"}
        /\ IF present THEN phase' = "probe" /\ pc' = 1 ELSE Step
  /\ Unaffected /\ UNCHANGED warned

\* dt_probe returned, and init_module goes on behind the registration.
ProbeReturned(result) ==
  /\ phase' = "init" /\ pc' = 2 /\ probe' = result
  /\ UNCHANGED <<driver, present, held, opened, warned, running, freeing, times, threadVars,
                 pinVars>>

ProbeSucceeds ==
  /\ phase = "probe" /\ pc = Len(Calls) + 1
  /\ ProbeReturned("ok") /\ UNCHANGED irqs

\* devm_request_threaded_irq; if it fails, for want of the interrupt or for
\* another reason, dt_probe returns -ENXIO.
DevmRequestIrq ==
  /\ phase = "probe"
  /\ \E i \in Irqs :
       /\ At(i)
       /\ \/ irqs' = irqs \cup {i} /\ Step
          \/ phase' = "unwind" /\ UNCHANGED <<irqs, pc>>
  /\ UNCHANGED <<heldVars, running, freeing, times, threadVars, pinVars>>

\* The driver core frees a device's managed interrupts one by one, each when
\* its handler is not running; here the next one of them.
ReleaseNext ==
  /\ irqs # {} /\ running \subseteq irqs
  /\ \E i \in irqs : irqs' = irqs \ {i}
Released == irqs = {} /\ running = {}

Unwind ==
  /\ phase = "unwind"
  /\ \/ /\ ReleaseNext
        /\ UNCHANGED <<taskVars, heldVars, running, freeing, times, threadVars, pinVars>>
     \/ Released /\ ProbeReturned("failed") /\ UNCHANGED irqs

\* devm_free_irq: it dies on the null dev of a device that was never probed,
\* warns of an interrupt that is not requested, and otherwise waits for the
\* handler.
DevmFreeIrq ==
  /\ phase = "cleanup"
  /\ \E i \in Irqs :
       /\ At(i)
       /\ \/ probe = "none" /\ Oops /\ UNCHANGED <<irqs, freeing, warned>>
          \/ /\ probe # "none" /\ i \in irqs
             /\ irqs' = irqs \ {i} /\ freeing' = TRUE /\ UNCHANGED <<taskVars, warned>>
          \/ /\ freeing /\ i \notin running
             /\ freeing' = FALSE /\ Step /\ UNCHANGED <<irqs, warned>>
          \/ /\ probe # "none" /\ i \notin irqs /\ ~freeing
             /\ warned' = TRUE /\ Step /\ UNCHANGED <<irqs, freeing>>
  /\ UNCHANGED <<driver, present, probe, held, opened, running, times, threadVars, pinVars>>

\* The driver core releases what is left of the device before it lets go.
PlatformDriverUnregister ==
  /\ At("platform_driver_unregister")
  /\ \/ ReleaseNext /\ UNCHANGED <<taskVars, held>>
     \/ Released /\ Step /\ held' = held \ {"driver"} /\ UNCHANGED irqs
  /\ UNCHANGED <<driver, present, probe, opened, warned, running, freeing, times, threadVars,
                 pinVars>>

\* An interrupt; an edge during its handler calls the handler once more.
Interrupt(i) ==
  /\ i \in irqs /\ i \notin running /\ times[i] < MaxTimes
  /\ running' = running \cup {i}
  /\ UNCHANGED <<taskVars, heldVars, irqs, freeing, times, threadVars, pinVars>>

\* Mutant: the handler is given as THREAD_FN too, and counts twice.
IrqHandlerThreaded(i) ==
  /\ i \in running
  /\ times' = [times EXCEPT ![i] = @ + 2]
  /\ running' = running \ {i}
  /\ UNCHANGED <<taskVars, heldVars, irqs, freeing, threadVars, pinVars>>

IrqHandler(i) ==
  /\ i \in running
  /\ times' = [times EXCEPT ![i] = @ + 1]
  /\ running' = running \ {i}
  /\ UNCHANGED <<taskVars, heldVars, irqs, freeing, threadVars, pinVars>>

(***************************************************************************)
(* The GPIO descriptors.                                                   *)
(***************************************************************************)
\* Each gpiod_get_index may fail and leave an ERR_PTR; the others make their
\* pin an output and set it.
GpiodGetIndex ==
  /\ At("gpiod_get_index")
  /\ gpios' \in SUBSET Gpiods
  /\ outputs' = outputs \cup gpios'
  /\ level' = [l \in Leds |-> IF l \in gpios' THEN 1 ELSE level[l]]
  /\ Step
  /\ UNCHANGED <<heldVars, irqVars, threadVars, lost, button>>

\* gpiod_put may die on an ERR_PTR.  A pin that is put back may become an
\* input, but the pointer to it still works.
GpiodPut ==
  /\ At("gpiod_put")
  /\ \/ gpios # Gpiods /\ Oops /\ UNCHANGED outputs
     \/ Step /\ outputs' \in {outputs, outputs \ gpios}
  /\ UNCHANGED <<heldVars, irqVars, threadVars, gpios, lost, level, button>>

\* Each of the three calls may be refused, which nobody looks at: the pin stays
\* what gpiod_put, or another consumer, made of it.
GpiodDirectionOutput ==
  /\ At("gpiod_direction_output")
  /\ \E refused \in SUBSET gpios :
       /\ lost' = lost \cup refused
       /\ outputs' = outputs \cup (gpios \ refused)
       /\ level' = [l \in Leds |-> IF l \in gpios \ refused THEN 1 ELSE level[l]]
  /\ Step
  /\ UNCHANGED <<heldVars, irqVars, threadVars, gpios, button>>

\* A line that gpiod_put gave back is free: another consumer may take it, in either
\* direction and at either level, while the thread still uses its descriptor.
OtherConsumer(l) ==
  /\ driver = "gpio_control" /\ l \in gpios /\ ~At("gpiod_put")
  /\ lost' = lost \cup {l}
  /\ outputs' \in {outputs \cup {l}, outputs \ {l}}
  /\ level' \in {[level EXCEPT ![l] = v] : v \in {0, 1}}
  /\ UNCHANGED <<taskVars, heldVars, irqVars, threadVars, gpios, button>>

-----------------------------------------------------------------------------
(***************************************************************************)
(* The thread.                                                             *)
(***************************************************************************)
\* kthread_create reports an error with an ERR_PTR, never with the NULL that
\* init_module compares with.
KthreadCreate ==
  /\ At("kthread_create")
  /\ Step
  /\ thread' \in {"created", "err"}
  /\ UNCHANGED <<heldVars, irqVars, tpc, should_stop, status, pinVars>>

WakeUpProcess ==
  /\ At("wake_up_process")
  /\ IF thread = "err" THEN Oops /\ UNCHANGED thread
                       ELSE Step /\ thread' = "running"
  /\ UNCHANGED <<heldVars, irqVars, tpc, should_stop, status, pinVars>>

\* kthread_stop(NULL) dies, and on a thread that is gone already, whose
\* task_struct may be freed, it may; otherwise it raises the flag and waits.
KthreadStop ==
  /\ At("kthread_stop")
  /\ \/ thread \in {"none", "killed"} /\ ~should_stop /\ Oops /\ UNCHANGED should_stop
     \/ thread # "none" /\ ~should_stop /\ should_stop' = TRUE /\ UNCHANGED taskVars
     \/ should_stop /\ thread \in {"done", "killed"} /\ Step /\ UNCHANGED should_stop
  /\ UNCHANGED <<heldVars, irqVars, thread, tpc, status, pinVars>>

\* Mutant: told to stop, the thread goes to sleep instead of returning.
LoopTestSleeps ==
  /\ thread = "running" /\ tpc = 0
  /\ ~should_stop /\ tpc' = 1
  /\ UNCHANGED <<taskVars, heldVars, irqVars, thread, should_stop, status, pinVars>>

LoopTest ==
  /\ thread = "running" /\ tpc = 0
  /\ IF should_stop THEN thread' = "done" /\ UNCHANGED tpc
                    ELSE tpc' = 1 /\ UNCHANGED thread
  /\ UNCHANGED <<taskVars, heldVars, irqVars, should_stop, status, pinVars>>

\* gpiod_set_value does nothing for a NULL and for an ERR_PTR; a mapped
\* register is the pin itself.
Reaches(led) == led \in Gpiods => led \in gpios

\* One access to the LED or the button.  Without a mapping the thread dies,
\* unless the processor still has the translation of the old one.
Access ==
  /\ thread = "running" /\ tpc > 0
  /\ LET op == LoopCalls[driver][tpc][1]
         led == LoopCalls[driver][tpc][2]
     IN \/ /\ tpc' = (IF tpc = Len(LoopCalls[driver]) THEN 0 ELSE tpc + 1)
           /\ status' = IF op = "READ" THEN button ELSE status
           /\ level' = IF op = "READ" \/ ~Reaches(led) THEN level
                       ELSE [level EXCEPT ![led] = CASE op = "SET" -> 1
                                                     [] op = "CLR" -> 0
                                                     [] op = "WRITE" -> status]
           /\ UNCHANGED thread
        \/ /\ led = 1 /\ "mapping" \notin held
           /\ thread' = "killed" /\ UNCHANGED <<tpc, status, level>>
  /\ UNCHANGED <<taskVars, heldVars, irqVars, should_stop, gpios, lost, outputs, button>>

PressOrRelease ==
  /\ driver = "button_ioread32"   \* no other thread reads the button
  /\ button' = 1 - button
  /\ UNCHANGED <<taskVars, heldVars, irqVars, threadVars, gpios, lost, outputs, level>>

Module ==
  \/ CreateCharacterDevice \/ DestroyCharacterDevice \/ Ioremap \/ Iounmap \/ DevmIounmap
  \/ GpioOut \/ I2cGetAdapter \/ I2cNewClientDevice \/ I2cAddDriver \/ I2cPutAdapter
  \/ I2cMasterSend \/ I2cUnregisterDevice \/ I2cDelDriver
  \/ PlatformDriverRegister \/ ProbeSucceeds \/ DevmRequestIrq \/ Unwind \/ DevmFreeIrq
  \/ PlatformDriverUnregister \/ GpiodGetIndex \/ GpiodPut \/ GpiodDirectionOutput
  \/ KthreadCreate \/ WakeUpProcess \/ KthreadStop \/ Return
Thread == LoopTest \/ Access

Next ==
  \/ Insmod \/ Rmmod \/ DevOpen \/ DevClose \/ Module \/ Thread \/ PressOrRelease
  \/ \E i \in Irqs : Interrupt(i) \/ IrqHandler(i)
  \/ \E l \in Gpiods : OtherConsumer(l)

\* The kernel runs the task in init_module or cleanup_module, the thread, and a
\* handler to its end; nobody is obliged to load, to unload, to press or
\* to take a line.
Spec ==
  /\ Init /\ [][Next]_vars
  /\ WF_vars(Module) /\ WF_vars(Thread) /\ \A i \in Irqs : WF_vars(IrqHandler(i))

-----------------------------------------------------------------------------
(***************************************************************************)
(* Properties.                                                             *)
(***************************************************************************)
TypeOK ==
  /\ driver \in Drivers
  /\ phase \in {"unloaded", "init", "probe", "unwind", "live", "cleanup", "oops"}
  /\ pc \in 0 .. 7 /\ tpc \in 0 .. 6
  /\ {present, opened, freeing, warned, should_stop} \subseteq BOOLEAN
  /\ probe \in {"none", "ok", "failed"} /\ held \subseteq Resources
  /\ irqs \subseteq Irqs /\ running \subseteq Irqs /\ times \in [Irqs -> 0 .. MaxTimes]
  /\ thread \in {"none", "err", "created", "running", "done", "killed"}
  /\ gpios \subseteq Gpiods /\ lost \subseteq Gpiods /\ outputs \subseteq Leds /\ level \in [Leds -> {0, 1}]
  /\ status \in {0, 1} /\ button \in {0, 1}

\* When rmmod, or an insmod that fails, comes back, nothing of the module can be
\* entered any more (no thread, no handler, no open file) and it holds nothing:
\* no mapping, device, driver, client or adapter.  A dt_probe that fails leaves
\* no handler behind, however far it got.
NothingLeftBehind ==
  /\ phase = "unloaded" =>
       held = {} /\ ~opened /\ running = {} /\ thread \notin {"created", "running"}
  /\ phase = "unloaded" \/ probe = "failed" => irqs = {} /\ running = {}

\* init_module swallows the failures of its calls and of dt_probe, so that a loaded
\* module may lack what they should have given it, but never one half of it: the
\* thread over a mapping is there with its mapping, or neither is, and it meets no
\* unmapped register before the module is unloaded; the thread of gpio_control runs,
\* whatever dt_probe found; of a driver's interrupts all are requested or none; the
\* PCF8574 module has its client and keeps no adapter, though it may lack its device
\* file and its driver.
LoadedConsistent ==
  /\ phase \in {"init", "live"} => thread # "killed"
  /\ phase = "live" =>
       /\ driver \in KthreadDrivers =>
            thread = IF "mapping" \in held THEN "running" ELSE "none"
       /\ driver = "gpio_control" => thread = "running"
       /\ driver \in DOMAIN ProbeCalls =>
            irqs = IF probe = "ok" THEN Irqs \cap Range(ProbeCalls[driver]) ELSE {}
       /\ driver = "pcf8574" => held \cap {"adapter", "client"} = {"client"}

\* Unloading a module whose dt_probe succeeded frees exactly what it has
\* requested: no warning, and no oops but the one of a thread that could not
\* be created.
ProbedUnloadIsClean ==
  probe = "ok" => ~warned /\ (phase = "oops" => thread = "err")

\* blink_led_with_iowrite32 and control_led_with_ioread32 start their thread
\* only when the LED's pin is an output.
ConfiguredBeforeDriven ==
  driver \in {"blink_iowrite32", "button_ioread32"} /\ thread = "running" => 1 \in outputs

\* rmmod always comes to an end (perhaps in an oops): the thread looks at
\* kthread_should_stop again and again, and handlers return.
UnloadEnds == phase = "cleanup" ~> phase \in {"unloaded", "oops"}

Lit == 1 \in outputs /\ level[1] = 1

\* A button that is held, or left alone, for long enough determines the LED of
\* control_led_with_ioread32.
LedFollowsButton ==
  \A b \in {0, 1} :
    <>[](driver = "button_ioread32" /\ phase = "live" /\ thread = "running" /\ button = b)
       => <>[](Lit <=> b = 1)

\* As long as device_tree_gpio_control stays loaded, all its LEDs are on again and
\* again and all of them off again and again, although it gave their lines back
\* before it set their direction: only a direction call that is refused, or another
\* consumer that takes a line meanwhile, can keep it from that.
Waves ==
  <>[](phase = "live" /\ gpios = Gpiods /\ lost = {})
    => /\ []<>(Gpiods \subseteq outputs /\ \A l \in Gpiods : level[l] = 1)
       /\ []<>(Gpiods \subseteq outputs /\ \A l \in Gpiods : level[l] = 0)

\* The thread never touches a register through a mapping that is not there.
NoUnmappedAccess == thread # "killed"
=============================================================================

------------------------ MODULE KernelModulesProofs ------------------------
(***************************************************************************)
(* Proofs about KernelModules for every set of drivers and every bound on  *)
(* the interrupts: that the variables keep their types, that nothing is    *)
(* left behind by a module that is gone, that no part of a loaded module   *)
(* is there by half, that unloading a probed driver is clean, and that two *)
(* of the threads start behind the configuration of their pin.             *)
(*                                                                         *)
(* The inductive invariant has a part for each of the four kinds of driver *)
(* that says what the module holds at each of its calls.                   *)
(***************************************************************************)
EXTENDS KernelModules, TLAPS

InterruptDrivers == {"interrupt", "interrupt_by_name"}

\* The number of calls in a driver's init_module and cleanup_module.
InitLength ==
  CASE driver = "blink_devm" -> 5
    [] driver \in KthreadDrivers \ {"blink_devm"} -> 4
    [] driver = "gpio_control" -> 3
    [] driver \in InterruptDrivers -> 1
    [] driver = "pcf8574" -> 6
CleanupLength ==
  CASE driver = "blink_devm" -> 3
    [] driver \in KthreadDrivers \ {"blink_devm"} -> 2
    [] driver = "gpio_control" -> 2
    [] driver = "interrupt" -> 2
    [] driver = "interrupt_by_name" -> 3
    [] driver = "pcf8574" -> 3
ProbeLength ==
  CASE driver = "gpio_control" -> 3
    [] driver = "interrupt" -> 1
    [] driver = "interrupt_by_name" -> 2

Typed ==
  /\ TypeOK
  /\ \A i \in running : times[i] < MaxTimes

\* The call that is next is one of the phase, or the phase returns.
Places ==
  /\ phase \in {"unloaded", "live"} => pc = 0
  /\ phase = "init" => pc \in 1 .. InitLength + 1
  /\ phase = "probe" => driver \in DOMAIN ProbeCalls /\ pc \in 1 .. ProbeLength + 1
  /\ phase = "unwind" => driver \in InterruptDrivers
  /\ phase = "cleanup" => pc \in 1 .. CleanupLength + 1
  /\ opened => "chrdev" \in held /\ phase \in {"init", "live", "oops"}
  /\ phase = "unloaded" => held = {} /\ thread \in {"none", "done", "killed"}
  /\ phase \in {"init", "probe", "unwind", "live"} =>
       ~should_stop /\ thread \in {"none", "err", "created", "running"}

\* The calls of init_module behind ioremap, and those at which the threads over a
\* mapping are created and started.
MappedFrom == IF driver = "blink_devm" THEN 3 ELSE 2
CreateAt == IF driver = "blink_ioremap" THEN 2 ELSE 3
WakeUpAt == IF driver = "blink_ioremap" THEN 3 ELSE 4

\* While a thread over a mapping may run, the mapping is there, until cleanup_module
\* gives it back and waits for the thread.
Mapped ==
  driver \in KthreadDrivers =>
    /\ phase \notin {"probe", "unwind"} /\ probe = "none"
    /\ irqs = {} /\ running = {} /\ ~freeing /\ ~warned
    /\ held \subseteq (IF driver = "blink_devm" THEN {"chrdev", "mapping"} ELSE {"mapping"})
    /\ phase = "init" =>
         /\ pc = 1 => held = {}
         /\ pc < MappedFrom => "mapping" \notin held
         /\ pc <= CreateAt => thread = "none"
         /\ pc \in MappedFrom .. InitLength => "mapping" \in held
         /\ pc = WakeUpAt => thread \in {"created", "err"}
         /\ pc > WakeUpAt => thread \in {"none", "running"}
         /\ pc > WakeUpAt /\ thread = "none" => "mapping" \notin held
    /\ phase \in {"init", "live"} /\ thread # "none" => "mapping" \in held
    /\ phase = "live" /\ thread = "none" => "mapping" \notin held
    /\ phase \in {"live", "cleanup"} => thread \in {"none", "running", "done", "killed"}
    /\ phase = "cleanup" /\ pc >= 2 => held = {}
    /\ phase = "cleanup" /\ pc = CleanupLength + 1 => thread \in {"done", "killed"}
    /\ tpc <= 2
    /\ driver \in {"blink_iowrite32", "button_ioread32"}
         /\ (thread # "none" \/ (phase = "init" /\ pc \in 3 .. 4)) => 1 \in outputs

\* The thread of gpio_control is stopped before its driver is unregistered.
Descriptors ==
  driver = "gpio_control" =>
    /\ phase # "unwind"
    /\ irqs = {} /\ running = {} /\ ~freeing /\ ~warned
    /\ phase \in {"probe", "live"} => held = {"driver"}
    /\ phase = "probe" => probe = "none" /\ thread = "none"
    /\ phase = "init" =>
         /\ held = IF pc = 1 THEN {} ELSE {"driver"}
         /\ pc = 1 => probe = "none"
         /\ pc <= 2 => thread = "none"
         /\ pc = 3 => thread \in {"created", "err"}
         /\ pc = 4 => thread = "running"
    /\ phase = "live" => thread = "running"
    /\ phase = "cleanup" =>
         /\ held = IF pc = 3 THEN {} ELSE {"driver"}
         /\ pc = 1 => thread \in {"running", "done"}
         /\ pc > 1 => thread = "done"
    /\ probe # "failed"
    /\ phase = "oops" /\ probe = "ok" => thread = "err"

\* The interrupts of the driver's dt_probe, those requested before the call at n, and
\* those not freed yet in cleanup_module.
ProbeIrqs == IF driver = "interrupt" THEN {"irq_number"} ELSE {"gpio_2_irq", "gpio_3_irq"}
Before(n) == IF n = 1 THEN {}
             ELSE IF n = 2 /\ driver = "interrupt_by_name" THEN {"gpio_2_irq"} ELSE ProbeIrqs

\* A probed interrupt driver has all its interrupts until cleanup_module frees them
\* in turn, and one whose probe failed, or was not called, has none.
Requested ==
  driver \in InterruptDrivers =>
    /\ thread = "none" /\ irqs \subseteq ProbeIrqs
    /\ phase \in {"probe", "unwind"} => probe = "none"
    /\ phase \in {"probe", "unwind", "live"} => held = {"driver"}
    /\ phase = "init" =>
         /\ held = IF pc = 1 THEN {} ELSE {"driver"}
         /\ pc = 1 => probe = "none"
    /\ phase = "cleanup" => held = IF pc = CleanupLength + 1 THEN {} ELSE {"driver"}
    /\ phase = "unloaded" \/ (phase = "cleanup" /\ pc = CleanupLength + 1) =>
         irqs = {} /\ running = {}
    /\ probe # "ok" /\ phase \notin {"probe", "unwind"} => irqs = {} /\ running = {} /\ ~freeing
    /\ phase = "probe" => irqs = Before(pc)
    /\ freeing => phase = "cleanup"
    /\ phase \in {"init", "probe", "unwind"} => ~warned
    /\ probe = "ok" =>
         /\ ~warned /\ phase # "oops"
         /\ phase \in {"init", "live"} => irqs = ProbeIrqs
         /\ phase = "cleanup" /\ pc < CleanupLength =>
              irqs = ProbeIrqs \ (IF freeing THEN Before(pc + 1) ELSE Before(pc))
         /\ freeing => pc < CleanupLength

\* What the module of the PCF8574 holds: it is loaded only with its client.
Client ==
  driver = "pcf8574" =>
    /\ phase \notin {"probe", "unwind"} /\ probe = "none" /\ thread = "none"
    /\ irqs = {} /\ running = {} /\ ~freeing
    /\ held \subseteq {"chrdev", "adapter", "client", "driver"}
    /\ phase = "init" =>
         /\ pc = 1 => held = {}
         /\ pc = 2 => held \subseteq {"chrdev"}
         /\ pc = 7 => "client" \in held
         /\ pc \in {6, 7} => "adapter" \notin held
    /\ phase = "live" => "client" \in held /\ "adapter" \notin held
    /\ phase = "cleanup" =>
         held \subseteq CASE pc = 1 -> {"chrdev", "client", "driver"}
                          [] pc = 2 -> {"client", "driver"}
                          [] pc = 3 -> {"driver"}
                          [] OTHER -> {}

IInv == Typed /\ Places /\ Mapped /\ Descriptors /\ Requested /\ Client

USE DriversAssumption, MaxTimesAssumption

-----------------------------------------------------------------------------
(***************************************************************************)
(* Where a call can be next.                                               *)
(***************************************************************************)
\* The calls of the drivers that map the registers.
LEMMA MappedAt ==
  ASSUME driver \in KthreadDrivers, phase \notin {"probe", "unwind"}, NEW call, At(call)
  PROVE  \/ /\ phase = "init"
            /\ \/ call = "create_character_device" /\ driver = "blink_devm" /\ pc = 1
               \/ call = "ioremap" /\ pc = IF driver = "blink_devm" THEN 2 ELSE 1
               \/ call = "kthread_create" /\ pc = CreateAt
               \/ call = "wake_up_process" /\ pc = WakeUpAt
               \/ /\ call = "GPIO_OUT"
                  /\ pc = CASE driver = "blink_devm" -> 5 [] driver = "blink_ioremap" -> 4 [] OTHER -> 2
         \/ /\ phase = "cleanup"
            /\ \/ call = "destroy_character_device" /\ driver = "blink_devm" /\ pc = 1
               \/ call = "iounmap" /\ driver # "blink_devm" /\ pc = 1
               \/ call = "devm_iounmap" /\ driver = "blink_devm" /\ pc = 2
               \/ call = "kthread_stop" /\ pc = CleanupLength
<1>1. CASE phase = "init"
  <2> USE <1>1 DEF At, Calls, CreateAt, WakeUpAt
  <2>1. CASE driver = "blink_ioremap"
    BY <2>1 DEF InitCalls, BlinkIoremapInit
  <2>2. CASE driver = "blink_iowrite32"
    BY <2>2 DEF InitCalls, BlinkIowriteInit
  <2>3. CASE driver = "button_ioread32"
    BY <2>3 DEF InitCalls, ButtonIoreadInit
  <2>4. CASE driver = "blink_devm"
    BY <2>4 DEF InitCalls, BlinkDevmInit
  <2> QED BY <2>1, <2>2, <2>3, <2>4 DEF KthreadDrivers
<1>2. CASE phase = "cleanup"
  <2> USE <1>2 DEF At, Calls, CleanupLength
  <2>1. CASE driver = "blink_ioremap"
    BY <2>1 DEF CleanupCalls, BlinkIoremapCleanup, KthreadDrivers
  <2>2. CASE driver = "blink_iowrite32"
    BY <2>2 DEF CleanupCalls, BlinkIowriteCleanup, KthreadDrivers
  <2>3. CASE driver = "button_ioread32"
    BY <2>3 DEF CleanupCalls, ButtonIoreadCleanup, KthreadDrivers
  <2>4. CASE driver = "blink_devm"
    BY <2>4 DEF CleanupCalls, BlinkDevmCleanup, KthreadDrivers
  <2> QED BY <2>1, <2>2, <2>3, <2>4 DEF KthreadDrivers
<1>3. CASE phase \notin {"init", "cleanup"}
  BY <1>3 DEF At, Calls
<1> QED BY <1>1, <1>2, <1>3

\* The calls of gpio_control.
LEMMA DescriptorsAt ==
  ASSUME driver = "gpio_control", NEW call, At(call)
  PROVE  \/ /\ phase = "init"
            /\ \/ call = "platform_driver_register" /\ pc = 1
               \/ call = "kthread_create" /\ pc = 2
               \/ call = "wake_up_process" /\ pc = 3
         \/ /\ phase = "probe"
            /\ \/ call = "gpiod_get_index" /\ pc = 1
               \/ call = "gpiod_put" /\ pc = 2
               \/ call = "gpiod_direction_output" /\ pc = 3
         \/ /\ phase = "cleanup"
            /\ \/ call = "kthread_stop" /\ pc = 1
               \/ call = "platform_driver_unregister" /\ pc = 2
<1> USE DEF At, Calls
<1>1. CASE phase = "init"
  BY <1>1 DEF InitCalls, GpioControlInit
<1>2. CASE phase = "probe"
  BY <1>2 DEF ProbeCalls, GpioControlProbe
<1>3. CASE phase = "cleanup"
  BY <1>3 DEF CleanupCalls, GpioControlCleanup
<1>4. CASE phase \notin {"init", "probe", "cleanup"}
  BY <1>4
<1> QED BY <1>1, <1>2, <1>3, <1>4

\* The calls of the drivers that count interrupts.
LEMMA InterruptAt ==
  ASSUME driver \in InterruptDrivers, NEW call, At(call)
  PROVE  \/ /\ phase = "init" /\ call = "platform_driver_register" /\ pc = 1
         \/ /\ phase \in {"probe", "cleanup"}
            /\ \/ driver = "interrupt" /\ call = "irq_number" /\ pc = 1
               \/ driver = "interrupt_by_name" /\ call = "gpio_2_irq" /\ pc = 1
               \/ driver = "interrupt_by_name" /\ call = "gpio_3_irq" /\ pc = 2
         \/ /\ phase = "cleanup" /\ call = "platform_driver_unregister" /\ pc = CleanupLength
<1> USE DEF At, Calls, InterruptDrivers
<1>1. CASE phase = "init"
  BY <1>1 DEF InitCalls
<1>2. CASE phase = "probe"
  BY <1>2 DEF ProbeCalls, InterruptProbe, ByNameProbe
<1>3. CASE phase = "cleanup"
  BY <1>3 DEF CleanupCalls, InterruptCleanup, ByNameCleanup, CleanupLength, KthreadDrivers
<1>4. CASE phase \notin {"init", "probe", "cleanup"}
  BY <1>4
<1> QED BY <1>1, <1>2, <1>3, <1>4

\* The calls of the PCF8574 module.
LEMMA ClientAt ==
  ASSUME driver = "pcf8574", phase \notin {"probe", "unwind"}, NEW call, At(call)
  PROVE  \/ /\ phase = "init"
            /\ \/ call = "create_character_device" /\ pc = 1
               \/ call = "i2c_get_adapter" /\ pc = 2
               \/ call = "i2c_new_client_device" /\ pc = 3
               \/ call = "i2c_add_driver" /\ pc = 4
               \/ call = "i2c_put_adapter" /\ pc = 5
               \/ call = "i2c_master_send" /\ pc = 6
         \/ /\ phase = "cleanup"
            /\ \/ call = "destroy_character_device" /\ pc = 1
               \/ call = "i2c_unregister_device" /\ pc = 2
               \/ call = "i2c_del_driver" /\ pc = 3
<1> USE DEF At, Calls
<1>1. CASE phase = "init"
  BY <1>1 DEF InitCalls, Pcf8574Init
<1>2. CASE phase = "cleanup"
  BY <1>2 DEF CleanupCalls, Pcf8574Cleanup
<1>3. CASE phase \notin {"init", "cleanup"}
  BY <1>3
<1> QED BY <1>1, <1>2, <1>3

\* Where each phase returns.
LEMMA CallsEnd ==
  ASSUME driver \in AllDrivers
  PROVE  /\ phase = "init" => Len(Calls) = InitLength
         /\ phase = "cleanup" => Len(Calls) = CleanupLength
         /\ phase = "probe" /\ driver \in DOMAIN ProbeCalls => Len(Calls) = ProbeLength
<1> USE DEF Calls, InitLength, CleanupLength, ProbeLength, InitCalls, CleanupCalls, ProbeCalls,
         KthreadDrivers, InterruptDrivers
<1>1. CASE driver = "blink_ioremap"
  BY <1>1 DEF BlinkIoremapInit, BlinkIoremapCleanup
<1>2. CASE driver = "blink_iowrite32"
  BY <1>2 DEF BlinkIowriteInit, BlinkIowriteCleanup
<1>3. CASE driver = "button_ioread32"
  BY <1>3 DEF ButtonIoreadInit, ButtonIoreadCleanup
<1>4. CASE driver = "blink_devm"
  BY <1>4 DEF BlinkDevmInit, BlinkDevmCleanup
<1>5. CASE driver = "gpio_control"
  BY <1>5 DEF GpioControlInit, GpioControlProbe, GpioControlCleanup
<1>6. CASE driver = "interrupt"
  BY <1>6 DEF InterruptProbe, InterruptCleanup
<1>7. CASE driver = "interrupt_by_name"
  BY <1>7 DEF ByNameProbe, ByNameCleanup
<1>8. CASE driver = "pcf8574"
  BY <1>8 DEF Pcf8574Init, Pcf8574Cleanup
<1> QED BY <1>1, <1>2, <1>3, <1>4, <1>5, <1>6, <1>7, <1>8 DEF AllDrivers

\* A call is one of the first six, and not behind the last of its phase.
LEMMA AtBounds ==
  ASSUME IInv, NEW call, At(call)
  PROVE  /\ pc \in 1 .. 6
         /\ \/ phase = "init" /\ pc <= InitLength
            \/ phase = "probe" /\ pc <= ProbeLength /\ driver \in DOMAIN ProbeCalls
            \/ phase = "cleanup" /\ pc <= CleanupLength
<1>1. driver \in AllDrivers
  BY DEF IInv, Typed, TypeOK
<1>2. CASE driver \in KthreadDrivers
  <2>1. phase \notin {"probe", "unwind"}
    BY <1>2 DEF IInv, Mapped
  <2>2. InitLength = (IF driver = "blink_devm" THEN 5 ELSE 4)
    BY <1>2 DEF InitLength, KthreadDrivers, InterruptDrivers
  <2>3. CleanupLength = (IF driver = "blink_devm" THEN 3 ELSE 2)
    BY <1>2 DEF CleanupLength, KthreadDrivers
  <2>4. CASE phase = "init"
    BY <1>2, <2>1, <2>2, <2>4, MappedAt DEF CreateAt, WakeUpAt
  <2>5. CASE phase # "init"
    BY <1>2, <2>1, <2>3, <2>5, MappedAt
  <2> QED BY <2>4, <2>5
<1>3. CASE driver = "gpio_control"
  BY <1>3, DescriptorsAt DEF InitLength, CleanupLength, ProbeLength, KthreadDrivers,
     InterruptDrivers, ProbeCalls
<1>4. CASE driver \in InterruptDrivers
  BY <1>4, InterruptAt DEF InitLength, CleanupLength, ProbeLength, KthreadDrivers,
     InterruptDrivers, ProbeCalls
<1>5. CASE driver = "pcf8574"
  BY <1>5, ClientAt DEF IInv, Client, InitLength, CleanupLength, KthreadDrivers, InterruptDrivers
<1> QED BY <1>1, <1>2, <1>3, <1>4, <1>5 DEF AllDrivers, InterruptDrivers

-----------------------------------------------------------------------------
(***************************************************************************)
(* Types.                                                                  *)
(***************************************************************************)
\* The accesses in the loops of the threads.
LEMMA LoopAccesses ==
  ASSUME driver \in KthreadDrivers \/ driver = "gpio_control"
  PROVE  /\ Len(LoopCalls[driver]) = IF driver = "gpio_control" THEN 6 ELSE 2
         /\ \A n \in 1 .. Len(LoopCalls[driver]) :
              /\ LoopCalls[driver][n][1] \in {"SET", "CLR", "READ", "WRITE"}
              /\ LoopCalls[driver][n][2] \in IF driver = "gpio_control" THEN Gpiods ELSE {1}
<1>1. CASE driver \in {"blink_ioremap", "blink_iowrite32", "blink_devm"}
  <2>1. LoopCalls[driver] = Blink
    BY <1>1 DEF LoopCalls
  <2> QED BY <1>1, <2>1 DEF Blink
<1>2. CASE driver = "button_ioread32"
  BY <1>2 DEF LoopCalls, ButtonIoreadLoop
<1>3. CASE driver = "gpio_control"
  BY <1>3 DEF LoopCalls, GpioControlLoop, Gpiods
<1> QED BY <1>1, <1>2, <1>3 DEF KthreadDrivers

\* Only the drivers with a loop have a thread that runs.
LEMMA ThreadDrivers ==
  ASSUME IInv, thread = "running"
  PROVE  driver \in KthreadDrivers \/ driver = "gpio_control"
BY DEF IInv, Typed, TypeOK, AllDrivers, Requested, InterruptDrivers, Client

\* What an access does to the thread and to the levels.
LEMMA AccessEffect ==
  ASSUME IInv, Access
  PROVE  /\ tpc' \in 0 .. 6 /\ (driver \in KthreadDrivers => tpc' <= 2)
         /\ thread = "running"
         /\ \/ thread' = "running"
            \/ thread' = "killed" /\ driver \in KthreadDrivers /\ "mapping" \notin held
         /\ status' \in {0, 1} /\ level' \in [Leds -> {0, 1}]
<1>1. thread = "running" /\ tpc > 0
  BY DEF Access
<1>2. driver \in KthreadDrivers \/ driver = "gpio_control"
  BY <1>1, ThreadDrivers
<1>3. tpc \in 1 .. Len(LoopCalls[driver])
  BY <1>1, <1>2, LoopAccesses DEF IInv, Typed, TypeOK, Mapped, KthreadDrivers
<1> DEFINE op == LoopCalls[driver][tpc][1]
           led == LoopCalls[driver][tpc][2]
<1>4. op \in {"SET", "CLR", "READ", "WRITE"} /\ led \in IF driver = "gpio_control" THEN Gpiods ELSE {1}
  BY <1>2, <1>3, LoopAccesses
<1>5. status \in {0, 1} /\ button \in {0, 1} /\ level \in [Leds -> {0, 1}]
  BY DEF IInv, Typed, TypeOK
<1> HIDE DEF op, led
<1>6. CASE /\ tpc' = (IF tpc = Len(LoopCalls[driver]) THEN 0 ELSE tpc + 1)
           /\ status' = IF op = "READ" THEN button ELSE status
           /\ level' = IF op = "READ" \/ ~Reaches(led) THEN level
                       ELSE [level EXCEPT ![led] = CASE op = "SET" -> 1
                                                     [] op = "CLR" -> 0
                                                     [] op = "WRITE" -> status]
           /\ UNCHANGED thread
  <2>1. tpc' \in 0 .. 6 /\ (driver \in KthreadDrivers => tpc' <= 2)
    BY <1>2, <1>3, <1>6, LoopAccesses DEF KthreadDrivers
  <2> QED BY <1>1, <1>4, <1>5, <1>6, <2>1
<1>7. CASE led = 1 /\ "mapping" \notin held /\ thread' = "killed" /\ UNCHANGED <<tpc, status, level>>
  BY <1>1, <1>2, <1>3, <1>4, <1>5, <1>7, LoopAccesses DEF KthreadDrivers, Gpiods
<1> QED BY <1>6, <1>7 DEF Access, op, led

\* The calls that acquire or release keep the types.
LEMMA HeldTyped ==
  ASSUME IInv,
         \/ CreateCharacterDevice \/ DestroyCharacterDevice \/ Ioremap \/ Iounmap \/ DevmIounmap
         \/ I2cGetAdapter \/ I2cNewClientDevice \/ I2cAddDriver \/ I2cPutAdapter
         \/ I2cUnregisterDevice \/ I2cDelDriver
  PROVE  Typed'
<1>1. pc \in 0 .. 6
  BY AtBounds DEF CreateCharacterDevice, DestroyCharacterDevice, Ioremap, Iounmap, DevmIounmap,
     I2cGetAdapter, I2cNewClientDevice, I2cAddDriver, I2cPutAdapter, I2cUnregisterDevice, I2cDelDriver
<1>2. Unaffected
  BY DEF CreateCharacterDevice, DestroyCharacterDevice, Ioremap, Iounmap, DevmIounmap,
     I2cGetAdapter, I2cNewClientDevice, I2cAddDriver, I2cPutAdapter, I2cUnregisterDevice, I2cDelDriver
<1>3. held' \in SUBSET Resources /\ warned' \in BOOLEAN
  <2>1. held \in SUBSET Resources /\ warned \in BOOLEAN
    BY DEF IInv, Typed, TypeOK
  <2> QED
    BY <2>1 DEF CreateCharacterDevice, DestroyCharacterDevice, Ioremap, Iounmap, DevmIounmap,
       I2cGetAdapter, I2cNewClientDevice, I2cAddDriver, I2cPutAdapter, I2cUnregisterDevice,
       I2cDelDriver, Resources
<1>4. CASE phase' = phase /\ pc' \in 0 .. 7
  BY <1>2, <1>3, <1>4 DEF IInv, Typed, TypeOK, Unaffected, irqVars, threadVars, pinVars
<1>5. CASE Oops \/ Refused
  BY <1>2, <1>3, <1>5 DEF Oops, Refused, IInv, Typed, TypeOK, Unaffected, irqVars, threadVars, pinVars
<1>6. Oops \/ Refused \/ (phase' = phase /\ pc' \in 0 .. 7)
  <2>1. CASE Ioremap
    <3>1. Len(Calls) + 1 \in 0 .. 7
      <4>1. phase = "init" /\ driver \in AllDrivers
        BY <2>1, MappedAt, DescriptorsAt, InterruptAt, ClientAt
           DEF Ioremap, IInv, Typed, TypeOK, Mapped, Client, AllDrivers, InterruptDrivers
      <4>2. InitLength \in 1 .. 6
        BY <4>1 DEF InitLength, AllDrivers, KthreadDrivers, InterruptDrivers
      <4> QED BY <4>1, <4>2, CallsEnd
    <3> QED BY <1>1, <2>1, <3>1 DEF Ioremap, Step, SkipTo
  <2>2. CASE I2cGetAdapter
    BY <1>1, <2>2 DEF I2cGetAdapter, Step, SkipTo
  <2>3. CASE CreateCharacterDevice \/ DestroyCharacterDevice \/ DevmIounmap
    BY <1>1, <2>3 DEF CreateCharacterDevice, DestroyCharacterDevice, DevmIounmap, Step
  <2>4. CASE Iounmap \/ I2cNewClientDevice \/ I2cAddDriver \/ I2cPutAdapter
             \/ I2cUnregisterDevice \/ I2cDelDriver
    BY <1>1, <2>4 DEF Iounmap, I2cNewClientDevice, I2cAddDriver, I2cPutAdapter,
       I2cUnregisterDevice, I2cDelDriver, Step
  <2> QED BY <2>1, <2>2, <2>3, <2>4
<1> QED BY <1>4, <1>5, <1>6

\* The calls for interrupts and the platform driver keep the types.
LEMMA PlatformTyped ==
  ASSUME IInv,
         \/ PlatformDriverRegister \/ ProbeSucceeds \/ DevmRequestIrq \/ Unwind \/ DevmFreeIrq
         \/ PlatformDriverUnregister
  PROVE  Typed'
<1> USE DEF heldVars, threadVars, pinVars, taskVars
<1>1. CASE PlatformDriverRegister
  <2>1. pc \in 1 .. 6
    BY <1>1, AtBounds DEF PlatformDriverRegister
  <2>2. Unaffected /\ UNCHANGED warned /\ held' \in {held, held \cup {"driver"}}
    BY <1>1 DEF PlatformDriverRegister
  <2>3. phase' \in {"unloaded", "probe", phase} /\ pc' \in 0 .. 7
    BY <1>1, <2>1 DEF PlatformDriverRegister, Refused, Step
  <2> QED BY <2>2, <2>3 DEF Unaffected, irqVars, IInv, Typed, TypeOK, Resources
<1>2. CASE ProbeSucceeds
  BY <1>2 DEF ProbeSucceeds, ProbeReturned, IInv, Typed, TypeOK
<1>3. CASE DevmRequestIrq
  <2>1. pc \in 1 .. 6
    BY <1>3, AtBounds DEF DevmRequestIrq
  <2> QED BY <1>3, <2>1 DEF DevmRequestIrq, Step, IInv, Typed, TypeOK
<1>4. CASE Unwind
  BY <1>4 DEF Unwind, ReleaseNext, ProbeReturned, IInv, Typed, TypeOK
<1>5. CASE DevmFreeIrq
  <2>1. pc \in 1 .. 6
    BY <1>5, AtBounds DEF DevmFreeIrq
  <2>2. /\ irqs' \subseteq irqs /\ freeing' \in BOOLEAN /\ warned' \in BOOLEAN
        /\ phase' \in {"oops", phase} /\ pc' \in 0 .. 7
    <3>1. freeing \in BOOLEAN /\ warned \in BOOLEAN
      BY DEF IInv, Typed, TypeOK
    <3>2. \/ Oops /\ UNCHANGED <<irqs, freeing, warned>>
          \/ irqs' \subseteq irqs /\ freeing' = TRUE /\ UNCHANGED <<taskVars, warned>>
          \/ freeing' = FALSE /\ Step /\ UNCHANGED <<irqs, warned>>
          \/ warned' = TRUE /\ Step /\ UNCHANGED <<irqs, freeing>>
      BY <1>5 DEF DevmFreeIrq
    <3>3. freeing' \in BOOLEAN /\ warned' \in BOOLEAN
      BY <3>1, <3>2, Zenon
    <3>4. irqs' \subseteq irqs /\ phase' \in {"oops", phase} /\ pc' \in 0 .. 7
      BY <2>1, <3>2 DEF Step, Oops, taskVars
    <3> QED BY <3>3, <3>4
  <2>3. UNCHANGED <<driver, present, probe, held, opened, running, times, threadVars, pinVars>>
    BY <1>5 DEF DevmFreeIrq
  <2> QED BY <2>2, <2>3 DEF IInv, Typed, TypeOK
<1>6. CASE PlatformDriverUnregister
  <2>1. pc \in 1 .. 6
    BY <1>6, AtBounds DEF PlatformDriverUnregister
  <2> QED BY <1>6, <2>1 DEF PlatformDriverUnregister, ReleaseNext, Step, IInv, Typed, TypeOK
<1> QED BY <1>1, <1>2, <1>3, <1>4, <1>5, <1>6

\* The other calls keep the types.
LEMMA OtherTyped ==
  ASSUME IInv,
         \/ GpioOut \/ I2cMasterSend \/ GpiodGetIndex \/ GpiodPut \/ GpiodDirectionOutput
         \/ KthreadCreate \/ WakeUpProcess \/ KthreadStop \/ Return
  PROVE  Typed'
<1> USE DEF heldVars, irqVars
<1>1. CASE GpioOut
  BY <1>1, AtBounds DEF GpioOut, Step, threadVars, IInv, Typed, TypeOK, Leds
<1>2. CASE I2cMasterSend
  BY <1>2, AtBounds DEF I2cMasterSend, Step, Oops, threadVars, IInv, Typed, TypeOK, Leds
<1>3. CASE GpiodGetIndex
  BY <1>3, AtBounds DEF GpiodGetIndex, Step, threadVars, IInv, Typed, TypeOK, Leds, Gpiods
<1>4. CASE GpiodPut
  BY <1>4, AtBounds DEF GpiodPut, Step, Oops, threadVars, IInv, Typed, TypeOK
<1>5. CASE GpiodDirectionOutput
  <2>1. PICK refused \in SUBSET gpios :
          /\ lost' = lost \cup refused /\ outputs' = outputs \cup (gpios \ refused)
          /\ level' = [l \in Leds |-> IF l \in gpios \ refused THEN 1 ELSE level[l]]
    BY <1>5 DEF GpiodDirectionOutput
  <2>2. lost' \subseteq Gpiods /\ outputs' \subseteq Leds /\ level' \in [Leds -> {0, 1}]
    BY <2>1 DEF IInv, Typed, TypeOK, Leds, Gpiods
  <2> QED BY <1>5, <2>2, AtBounds DEF GpiodDirectionOutput, Step, threadVars, IInv, Typed, TypeOK
<1>6. CASE KthreadCreate
  BY <1>6, AtBounds DEF KthreadCreate, Step, pinVars, IInv, Typed, TypeOK
<1>7. CASE WakeUpProcess
  BY <1>7, AtBounds DEF WakeUpProcess, Step, Oops, pinVars, IInv, Typed, TypeOK
<1>8. CASE KthreadStop
  <2>1. pc \in 1 .. 6
    BY <1>8, AtBounds DEF KthreadStop
  <2>2. phase' \in {"oops", phase} /\ pc' \in 0 .. 7
    BY <1>8, <2>1 DEF KthreadStop, Step, Oops, taskVars
  <2>4. should_stop' \in BOOLEAN
    <3>1. should_stop \in BOOLEAN
      BY DEF IInv, Typed, TypeOK
    <3> QED BY <1>8, <3>1, Zenon DEF KthreadStop
  <2>3. UNCHANGED <<heldVars, irqVars, thread, tpc, status, pinVars>>
    BY <1>8 DEF KthreadStop
  <2> QED BY <2>2, <2>3, <2>4 DEF pinVars, IInv, Typed, TypeOK
<1>9. CASE Return
  BY <1>9 DEF Return, threadVars, pinVars, IInv, Typed, TypeOK
<1> QED BY <1>1, <1>2, <1>3, <1>4, <1>5, <1>6, <1>7, <1>8, <1>9

\* No driver has interrupts while it is not loaded.
LEMMA EmptyUnloaded ==
  ASSUME IInv, phase = "unloaded" PROVE irqs = {} /\ running = {}
  BY DEF IInv, Typed, TypeOK, Mapped, Descriptors, Requested, Client, AllDrivers, InterruptDrivers

\* Every step keeps the types.
LEMMA NextTyped == IInv /\ [Next]_vars => Typed'
<1> SUFFICES ASSUME IInv, [Next]_vars PROVE Typed'
  OBVIOUS
<1> USE DEF taskVars, heldVars, irqVars, threadVars, pinVars
<1>1. CASE Insmod
  <2>1. running = {}
    BY <1>1, EmptyUnloaded DEF Insmod
  <2>2. present' \in BOOLEAN
    BY <1>1 DEF Insmod
  <2>3. times' \in [Irqs -> 0 .. MaxTimes]
    BY <1>1 DEF Insmod
  <2>4. warned' \in BOOLEAN /\ should_stop' \in BOOLEAN
    BY <1>1, Zenon DEF Insmod
  <2>5. /\ phase' = "init" /\ pc' = 1 /\ probe' = "none" /\ thread' = "none" /\ tpc' = 0
        /\ status' = 0 /\ gpios' = {} /\ lost' = {}
        /\ UNCHANGED <<driver, held, opened, irqs, running, freeing, outputs, level, button>>
    BY <1>1 DEF Insmod
  <2> QED BY <2>1, <2>2, <2>3, <2>4, <2>5 DEF IInv, Typed, TypeOK
<1>2. CASE Rmmod \/ DevOpen \/ DevClose
  <2>1. opened' \in BOOLEAN
    <3>1. opened \in BOOLEAN
      BY DEF IInv, Typed, TypeOK
    <3> QED BY <1>2, <3>1, Zenon DEF Rmmod, DevOpen, DevClose
  <2>2. phase' \in {"cleanup", phase} /\ pc' \in {1, pc}
    BY <1>2 DEF Rmmod, DevOpen, DevClose
  <2>3. UNCHANGED <<driver, present, probe, held, warned, irqVars, threadVars, pinVars>>
    BY <1>2 DEF Rmmod, DevOpen, DevClose
  <2> QED BY <2>1, <2>2, <2>3 DEF IInv, Typed, TypeOK
<1>9. CASE PressOrRelease
  <2>1. button' \in {0, 1}
    BY <1>9 DEF PressOrRelease, IInv, Typed, TypeOK
  <2> QED BY <1>9, <2>1 DEF PressOrRelease, IInv, Typed, TypeOK
<1>3. CASE Module
  BY <1>3, HeldTyped, PlatformTyped, OtherTyped DEF Module
<1>4. CASE LoopTest
  BY <1>4 DEF LoopTest, IInv, Typed, TypeOK
<1>5. CASE Access
  <2>1. UNCHANGED <<taskVars, heldVars, irqVars, should_stop, gpios, lost, outputs, button>>
    BY <1>5 DEF Access
  <2>2. /\ tpc' \in 0 .. 6 /\ thread' \in {"running", "killed"}
        /\ status' \in {0, 1} /\ level' \in [Leds -> {0, 1}]
    BY <1>5, AccessEffect
  <2> QED BY <2>1, <2>2 DEF IInv, Typed, TypeOK
<1>6. ASSUME NEW i \in Irqs, Interrupt(i) PROVE Typed'
  BY <1>6 DEF Interrupt, IInv, Typed, TypeOK
<1>7. ASSUME NEW i \in Irqs, IrqHandler(i) PROVE Typed'
  BY <1>7 DEF IrqHandler, IInv, Typed, TypeOK
<1>8. CASE UNCHANGED vars
  BY <1>8 DEF vars, IInv, Typed, TypeOK
<1>10. ASSUME NEW l \in Gpiods, OtherConsumer(l) PROVE Typed'
  <2>1. PICK v \in {0, 1} : level' = [level EXCEPT ![l] = v]
    BY <1>10 DEF OtherConsumer
  <2>2. level' \in [Leds -> {0, 1}]
    BY <2>1 DEF IInv, Typed, TypeOK
  <2>3. lost' \subseteq Gpiods /\ outputs' \subseteq Leds
    BY <1>10 DEF OtherConsumer, IInv, Typed, TypeOK, Leds, Gpiods
  <2> QED BY <1>10, <2>2, <2>3 DEF OtherConsumer, IInv, Typed, TypeOK
<1> QED BY <1>1, <1>2, <1>3, <1>4, <1>5, <1>6, <1>7, <1>8, <1>9, <1>10 DEF Next, Thread

-----------------------------------------------------------------------------
(***************************************************************************)
(* The drivers that map the registers.                                     *)
(***************************************************************************)
\* A behaviour is about one driver, whose calls are fixed.
LEMMA DriverKept ==
  ASSUME Next
  PROVE  driver' = driver
BY DEF Next, Insmod, Rmmod, DevOpen, DevClose, PressOrRelease, Module, Thread, Interrupt, IrqHandler,
   LoopTest, Access, CreateCharacterDevice, DestroyCharacterDevice, Ioremap, Iounmap, DevmIounmap,
   GpioOut, I2cGetAdapter, I2cNewClientDevice, I2cAddDriver, I2cPutAdapter, I2cMasterSend,
   I2cUnregisterDevice, I2cDelDriver, PlatformDriverRegister, ProbeSucceeds, DevmRequestIrq, Unwind,
   DevmFreeIrq, PlatformDriverUnregister, GpiodGetIndex, GpiodPut, GpiodDirectionOutput,
   KthreadCreate, WakeUpProcess, KthreadStop, Return, ProbeReturned, Unaffected, OtherConsumer,
   heldVars

\* The lengths and places that depend on the driver alone stay.
LEMMA LengthsKept ==
  ASSUME driver' = driver
  PROVE  /\ InitLength' = InitLength /\ CleanupLength' = CleanupLength /\ ProbeLength' = ProbeLength
         /\ CreateAt' = CreateAt /\ WakeUpAt' = WakeUpAt /\ MappedFrom' = MappedFrom
         /\ ProbeIrqs' = ProbeIrqs
BY DEF InitLength, CleanupLength, ProbeLength, CreateAt, WakeUpAt, MappedFrom, ProbeIrqs

\* The lengths of the drivers that map the registers.
LEMMA MappedLengths ==
  ASSUME driver \in KthreadDrivers
  PROVE  /\ InitLength = (IF driver = "blink_devm" THEN 5 ELSE 4)
         /\ CleanupLength = (IF driver = "blink_devm" THEN 3 ELSE 2)
BY DEF InitLength, CleanupLength, KthreadDrivers, InterruptDrivers

\* What a step of these drivers has to keep.
MappedPart == Places /\ Mapped

\* The calls of init_module keep the part of the drivers that map the registers.
LEMMA MappedInit ==
  ASSUME IInv, driver \in KthreadDrivers, driver' = driver,
         \/ CreateCharacterDevice \/ Ioremap \/ GpioOut \/ KthreadCreate \/ WakeUpProcess
  PROVE  MappedPart'
<1> USE LengthsKept, MappedLengths DEF MappedPart, Places, Mapped, IInv, CreateAt, WakeUpAt, MappedFrom
<1>0. pc \in Nat /\ phase \notin {"probe", "unwind"}
  BY DEF Typed, TypeOK
<1>1. CASE CreateCharacterDevice
  <2>1. phase = "init" /\ driver = "blink_devm" /\ pc = 1
    BY <1>0, <1>1, MappedAt DEF CreateCharacterDevice
  <2> QED BY <1>1, <2>1 DEF CreateCharacterDevice, Step, Refused, Oops, Unaffected, irqVars, threadVars, pinVars
<1>2. CASE Ioremap
  <2>1. phase = "init" /\ pc = IF driver = "blink_devm" THEN 2 ELSE 1
    BY <1>0, <1>2, MappedAt DEF Ioremap
  <2>2. Len(Calls) = InitLength
    BY <2>1, CallsEnd DEF AllDrivers
  <2> QED BY <1>2, <2>1, <2>2 DEF Ioremap, Step, SkipTo, Oops, Unaffected, irqVars, threadVars, pinVars
<1>3. CASE GpioOut
  <2>1. phase = "init" /\ pc = CASE driver = "blink_devm" -> 5 [] driver = "blink_ioremap" -> 4 [] OTHER -> 2
    BY <1>0, <1>3, MappedAt DEF GpioOut
  <2> QED BY <1>3, <2>1 DEF GpioOut, Step, heldVars, irqVars, threadVars
<1>4. CASE KthreadCreate
  <2>1. phase = "init" /\ pc = CreateAt
    BY <1>0, <1>4, MappedAt DEF KthreadCreate
  <2> QED BY <1>4, <2>1 DEF KthreadCreate, Step, heldVars, irqVars, pinVars
<1>5. CASE WakeUpProcess
  <2>1. phase = "init" /\ pc = WakeUpAt
    BY <1>0, <1>5, MappedAt DEF WakeUpProcess
  <2> QED BY <1>5, <2>1 DEF WakeUpProcess, Step, Oops, heldVars, irqVars, pinVars
<1> QED BY <1>1, <1>2, <1>3, <1>4, <1>5

\* The calls of cleanup_module do, too.
LEMMA MappedCleanup ==
  ASSUME IInv, driver \in KthreadDrivers, driver' = driver,
         DestroyCharacterDevice \/ Iounmap \/ DevmIounmap \/ KthreadStop
  PROVE  MappedPart'
<1> USE LengthsKept, MappedLengths DEF MappedPart, Places, Mapped, IInv
<1>0. pc \in Nat /\ phase \notin {"probe", "unwind"}
  BY DEF Typed, TypeOK
<1>1. CASE DestroyCharacterDevice
  <2>1. phase = "cleanup" /\ driver = "blink_devm" /\ pc = 1
    BY <1>0, <1>1, MappedAt DEF DestroyCharacterDevice
  <2> QED BY <1>1, <2>1 DEF DestroyCharacterDevice, Step, Oops, Unaffected, irqVars, threadVars, pinVars
<1>2. CASE Iounmap
  <2>1. phase = "cleanup" /\ driver # "blink_devm" /\ pc = 1
    BY <1>0, <1>2, MappedAt DEF Iounmap
  <2> QED BY <1>2, <2>1 DEF Iounmap, Step, Unaffected, irqVars, threadVars, pinVars
<1>3. CASE DevmIounmap
  <2>1. phase = "cleanup" /\ driver = "blink_devm" /\ pc = 2
    BY <1>0, <1>3, MappedAt DEF DevmIounmap
  <2> QED BY <1>3, <2>1 DEF DevmIounmap, Step, Oops, Unaffected, irqVars, threadVars, pinVars
<1>4. CASE KthreadStop
  <2>1. phase = "cleanup" /\ pc = CleanupLength
    BY <1>0, <1>4, MappedAt DEF KthreadStop
  <2> QED BY <1>4, <2>1 DEF KthreadStop, Step, Oops, taskVars, heldVars, irqVars, pinVars
<1> QED BY <1>1, <1>2, <1>3, <1>4

\* Loading, unloading, the users and the thread do, too.
LEMMA MappedElsewhere ==
  ASSUME IInv, driver \in KthreadDrivers, driver' = driver,
         Insmod \/ Rmmod \/ DevOpen \/ DevClose \/ Thread \/ PressOrRelease \/ Return
  PROVE  MappedPart'
<1> USE LengthsKept, MappedLengths
    DEF MappedPart, Places, Mapped, IInv, taskVars, heldVars, irqVars, threadVars, pinVars
<1>0. pc \in Nat /\ tpc \in Nat /\ phase \notin {"probe", "unwind"}
  BY DEF Typed, TypeOK
<1>1. CASE Insmod
  BY <1>1 DEF Insmod, CreateAt, WakeUpAt, MappedFrom
<1>2. CASE Rmmod
  BY <1>2 DEF Rmmod
<1>3. CASE DevOpen \/ DevClose \/ PressOrRelease
  BY <1>3 DEF DevOpen, DevClose, PressOrRelease
<1>4. CASE LoopTest
  BY <1>0, <1>4 DEF LoopTest, CreateAt, WakeUpAt
<1>5. CASE Access
  <2>1. UNCHANGED <<taskVars, heldVars, irqVars, should_stop, gpios, lost, outputs, button>>
    BY <1>5 DEF Access
  <2> HIDE DEF Mapped
  <2>2. /\ tpc' <= 2 /\ thread = "running"
        /\ thread' = "running" \/ (thread' = "killed" /\ "mapping" \notin held)
    BY <1>5, AccessEffect
  <2> QED BY <1>0, <2>1, <2>2 DEF Mapped, CreateAt, WakeUpAt
<1>6. CASE Return
  <2>1. Len(Calls) = IF phase = "init" THEN InitLength ELSE CleanupLength
    BY <1>6, CallsEnd DEF Return, AllDrivers
  <2> QED BY <1>0, <1>6, <2>1 DEF Return, CreateAt, WakeUpAt, MappedFrom
<1> QED BY <1>1, <1>2, <1>3, <1>4, <1>5, <1>6 DEF Thread

\* No other step is one of these drivers.
LEMMA MappedStep ==
  ASSUME IInv, Next, driver \in KthreadDrivers
  PROVE  MappedPart'
<1>1. /\ ~At("i2c_get_adapter") /\ ~At("i2c_new_client_device") /\ ~At("i2c_add_driver")
      /\ ~At("i2c_put_adapter") /\ ~At("i2c_master_send") /\ ~At("i2c_unregister_device")
      /\ ~At("i2c_del_driver") /\ ~At("platform_driver_register")
      /\ ~At("platform_driver_unregister") /\ ~At("gpiod_get_index") /\ ~At("gpiod_put")
      /\ ~At("gpiod_direction_output") /\ \A i \in Irqs : ~At(i)
  BY MappedAt DEF IInv, Mapped, Irqs
<1>2. phase \notin {"probe", "unwind"} /\ irqs = {} /\ running = {}
  BY DEF IInv, Mapped
<1>3. \/ CreateCharacterDevice \/ Ioremap \/ GpioOut \/ KthreadCreate \/ WakeUpProcess
      \/ DestroyCharacterDevice \/ Iounmap \/ DevmIounmap \/ KthreadStop
      \/ Insmod \/ Rmmod \/ DevOpen \/ DevClose \/ Thread \/ PressOrRelease \/ Return
  BY <1>1, <1>2 DEF Next, Module, I2cGetAdapter, I2cNewClientDevice, I2cAddDriver, I2cPutAdapter,
     I2cMasterSend, I2cUnregisterDevice, I2cDelDriver, PlatformDriverRegister, ProbeSucceeds,
     DevmRequestIrq, Unwind, DevmFreeIrq, PlatformDriverUnregister, GpiodGetIndex, GpiodPut,
     GpiodDirectionOutput, Interrupt, IrqHandler, OtherConsumer, KthreadDrivers
<1> QED BY <1>3, DriverKept, MappedInit, MappedCleanup, MappedElsewhere

-----------------------------------------------------------------------------
(***************************************************************************)
(* gpio_control.                                                           *)
(***************************************************************************)
\* The lengths of gpio_control.
LEMMA DescriptorsLengths ==
  ASSUME driver = "gpio_control"
  PROVE  InitLength = 3 /\ CleanupLength = 2 /\ ProbeLength = 3
BY DEF InitLength, CleanupLength, ProbeLength, KthreadDrivers, InterruptDrivers

DescriptorsPart == Places /\ Descriptors

\* The calls of init_module and dt_probe keep the part of gpio_control.
LEMMA DescriptorsInit ==
  ASSUME IInv, driver = "gpio_control", driver' = driver,
         \/ PlatformDriverRegister \/ ProbeSucceeds \/ GpiodGetIndex \/ GpiodPut
         \/ GpiodDirectionOutput \/ KthreadCreate \/ WakeUpProcess
  PROVE  DescriptorsPart'
<1> USE LengthsKept, DescriptorsLengths
    DEF DescriptorsPart, Places, Descriptors, IInv, heldVars, irqVars, threadVars, pinVars
<1>1. CASE PlatformDriverRegister
  <2>1. phase = "init" /\ pc = 1
    BY <1>1, DescriptorsAt DEF PlatformDriverRegister
  <2> QED BY <1>1, <2>1 DEF PlatformDriverRegister, Step, Refused, Unaffected, ProbeCalls
<1>2. CASE ProbeSucceeds
  BY <1>2 DEF ProbeSucceeds, ProbeReturned
<1>3. CASE GpiodGetIndex
  <2>1. phase = "probe" /\ pc = 1
    BY <1>3, DescriptorsAt DEF GpiodGetIndex
  <2> QED BY <1>3, <2>1 DEF GpiodGetIndex, Step
<1>4. CASE GpiodPut
  <2>1. phase = "probe" /\ pc = 2
    BY <1>4, DescriptorsAt DEF GpiodPut
  <2> QED BY <1>4, <2>1 DEF GpiodPut, Step, Oops
<1>5. CASE GpiodDirectionOutput
  <2>1. phase = "probe" /\ pc = 3
    BY <1>5, DescriptorsAt DEF GpiodDirectionOutput
  <2> QED BY <1>5, <2>1 DEF GpiodDirectionOutput, Step
<1>6. CASE KthreadCreate
  <2>1. phase = "init" /\ pc = 2
    BY <1>6, DescriptorsAt DEF KthreadCreate
  <2> QED BY <1>6, <2>1 DEF KthreadCreate, Step
<1>7. CASE WakeUpProcess
  <2>1. phase = "init" /\ pc = 3
    BY <1>7, DescriptorsAt DEF WakeUpProcess
  <2> QED BY <1>7, <2>1 DEF WakeUpProcess, Step, Oops
<1> QED BY <1>1, <1>2, <1>3, <1>4, <1>5, <1>6, <1>7

\* Unloading, loading and the thread do, too.
LEMMA DescriptorsElsewhere ==
  ASSUME IInv, driver = "gpio_control", driver' = driver,
         \/ KthreadStop \/ PlatformDriverUnregister
         \/ Insmod \/ Rmmod \/ DevOpen \/ DevClose \/ Thread \/ Return
         \/ \E l \in Gpiods : OtherConsumer(l)
  PROVE  DescriptorsPart'
<1> USE LengthsKept, DescriptorsLengths
    DEF DescriptorsPart, Places, Descriptors, IInv, taskVars, heldVars, irqVars, threadVars, pinVars
<1>1. CASE KthreadStop
  <2>1. phase = "cleanup" /\ pc = 1
    BY <1>1, DescriptorsAt DEF KthreadStop
  <2> QED BY <1>1, <2>1 DEF KthreadStop, Step, Oops
<1>2. CASE PlatformDriverUnregister
  <2>1. phase = "cleanup" /\ pc = 2
    BY <1>2, DescriptorsAt DEF PlatformDriverUnregister
  <2> QED BY <1>2, <2>1 DEF PlatformDriverUnregister, ReleaseNext, Step
<1>3. CASE Insmod
  BY <1>3 DEF Insmod
<1>4. CASE Rmmod \/ DevOpen \/ DevClose
  BY <1>4 DEF Rmmod, DevOpen, DevClose
<1>5. CASE LoopTest
  BY <1>5 DEF LoopTest
<1>6. CASE Access
  <2>1. UNCHANGED <<taskVars, heldVars, irqVars, should_stop, gpios, lost, outputs, button>>
    BY <1>6 DEF Access
  <2>2. thread = "running" /\ thread' = "running"
    BY <1>6, AccessEffect DEF KthreadDrivers
  <2> QED BY <2>1, <2>2
<1>7. CASE Return
  <2>1. Len(Calls) = IF phase = "init" THEN InitLength ELSE CleanupLength
    BY <1>7, CallsEnd DEF Return, AllDrivers
  <2> QED BY <1>7, <2>1 DEF Return
<1>8. ASSUME NEW l \in Gpiods, OtherConsumer(l) PROVE DescriptorsPart'
  BY <1>8 DEF OtherConsumer
<1> QED BY <1>1, <1>2, <1>3, <1>4, <1>5, <1>6, <1>7, <1>8 DEF Thread

\* No other step is one of gpio_control.
LEMMA DescriptorsStep ==
  ASSUME IInv, Next, driver = "gpio_control"
  PROVE  DescriptorsPart'
<1>1. /\ ~At("create_character_device") /\ ~At("destroy_character_device") /\ ~At("ioremap")
      /\ ~At("iounmap") /\ ~At("devm_iounmap") /\ ~At("GPIO_OUT")
      /\ ~At("i2c_get_adapter") /\ ~At("i2c_new_client_device") /\ ~At("i2c_add_driver")
      /\ ~At("i2c_put_adapter") /\ ~At("i2c_master_send") /\ ~At("i2c_unregister_device")
      /\ ~At("i2c_del_driver") /\ \A i \in Irqs : ~At(i)
  BY DescriptorsAt DEF Irqs
<1>2. phase # "unwind" /\ irqs = {} /\ running = {}
  BY DEF IInv, Descriptors
<1>3. \/ PlatformDriverRegister \/ ProbeSucceeds \/ GpiodGetIndex \/ GpiodPut
      \/ GpiodDirectionOutput \/ KthreadCreate \/ WakeUpProcess
      \/ KthreadStop \/ PlatformDriverUnregister
      \/ Insmod \/ Rmmod \/ DevOpen \/ DevClose \/ Thread \/ Return
      \/ \E l \in Gpiods : OtherConsumer(l)
  BY <1>1, <1>2 DEF Next, Module, CreateCharacterDevice, DestroyCharacterDevice, Ioremap, Iounmap,
     DevmIounmap, GpioOut, I2cGetAdapter, I2cNewClientDevice, I2cAddDriver, I2cPutAdapter,
     I2cMasterSend, I2cUnregisterDevice, I2cDelDriver, DevmRequestIrq, Unwind, DevmFreeIrq,
     Interrupt, IrqHandler, PressOrRelease
<1> QED BY <1>3, DriverKept, DescriptorsInit, DescriptorsElsewhere

-----------------------------------------------------------------------------
(***************************************************************************)
(* The drivers that count interrupts.                                      *)
(***************************************************************************)
\* The lengths of these drivers.
LEMMA InterruptLengths ==
  ASSUME driver \in InterruptDrivers
  PROVE  /\ InitLength = 1 /\ driver \in DOMAIN ProbeCalls
         /\ ProbeLength = (IF driver = "interrupt" THEN 1 ELSE 2)
         /\ CleanupLength = ProbeLength + 1
BY DEF InitLength, CleanupLength, ProbeLength, KthreadDrivers, InterruptDrivers, ProbeCalls

\* The interrupts a driver deals with before one of its calls.
LEMMA BeforeCall ==
  ASSUME driver \in InterruptDrivers, phase \in {"probe", "cleanup"}, NEW i \in Irqs, At(i)
  PROVE  /\ pc \in 1 .. ProbeLength /\ i \in ProbeIrqs
         /\ i \notin Before(pc) /\ Before(pc + 1) = Before(pc) \cup {i}
         /\ Before(1) = {} /\ Before(ProbeLength + 1) = ProbeIrqs
<1>1. CASE driver = "interrupt"
  BY <1>1, InterruptAt, InterruptLengths DEF Before, ProbeIrqs, Irqs
<1>2. CASE driver = "interrupt_by_name"
  BY <1>2, InterruptAt, InterruptLengths DEF Before, ProbeIrqs, Irqs
<1> QED BY <1>1, <1>2 DEF InterruptDrivers

\* A step of the same driver leaves the order of its interrupts alone.
LEMMA BeforeKept ==
  ASSUME driver' = driver, NEW n, n' = n
  PROVE  Before(n)' = Before(n)
BY LengthsKept DEF Before

RequestedPart == Places /\ Requested

\* Loading such a driver keeps its part.
LEMMA RequestedInit ==
  ASSUME IInv, driver \in InterruptDrivers, driver' = driver,
         PlatformDriverRegister \/ ProbeSucceeds \/ DevmRequestIrq \/ Unwind
  PROVE  RequestedPart'
<1> USE LengthsKept, InterruptLengths
    DEF RequestedPart, Places, Requested, IInv, heldVars, irqVars, threadVars, pinVars, taskVars
<1>1. CASE PlatformDriverRegister
  <2>1. phase = "init" /\ pc = 1
    BY <1>1, InterruptAt DEF PlatformDriverRegister, Irqs
  <2> QED BY <1>1, <2>1 DEF PlatformDriverRegister, Step, Refused, Unaffected, Before
<1>2. CASE ProbeSucceeds
  <2>1. phase = "probe" /\ pc = ProbeLength + 1
    BY <1>2, CallsEnd DEF ProbeSucceeds, AllDrivers, InterruptDrivers
  <2>2. irqs = ProbeIrqs
    BY <2>1 DEF Before, InterruptDrivers
  <2> QED BY <1>2, <2>1, <2>2 DEF ProbeSucceeds, ProbeReturned
<1>3. CASE DevmRequestIrq
  <2>1. PICK i \in Irqs : /\ At(i)
                          /\ \/ irqs' = irqs \cup {i} /\ Step
                             \/ phase' = "unwind" /\ UNCHANGED <<irqs, pc>>
    BY <1>3 DEF DevmRequestIrq
  <2>2. phase = "probe" /\ UNCHANGED <<heldVars, running, freeing, times, threadVars, pinVars>>
    BY <1>3 DEF DevmRequestIrq
  <2>3. pc \in 1 .. ProbeLength /\ i \in ProbeIrqs /\ Before(pc + 1) = Before(pc) \cup {i}
    BY <2>1, <2>2, BeforeCall
  <2>4. CASE irqs' = irqs \cup {i} /\ Step
    <3>1. (irqs = Before(pc))'
      BY <2>2, <2>3, <2>4 DEF Step, Before
    <3> QED BY <2>2, <2>3, <2>4, <3>1 DEF Step
  <2>5. CASE phase' = "unwind" /\ UNCHANGED <<irqs, pc>>
    BY <2>2, <2>5
  <2> QED BY <2>1, <2>4, <2>5
<1>4. CASE Unwind
  BY <1>4 DEF Unwind, ReleaseNext, Released, ProbeReturned
<1> QED BY <1>1, <1>2, <1>3, <1>4

\* Freeing the interrupts and unregistering the driver keep it.
LEMMA RequestedCleanup ==
  ASSUME IInv, driver \in InterruptDrivers, driver' = driver,
         DevmFreeIrq \/ PlatformDriverUnregister
  PROVE  RequestedPart'
<1> USE LengthsKept, InterruptLengths
    DEF RequestedPart, Places, Requested, IInv, taskVars, threadVars, pinVars
<1>1. CASE DevmFreeIrq
  <2>1. PICK i \in Irqs :
          /\ At(i)
          /\ \/ probe = "none" /\ Oops /\ UNCHANGED <<irqs, freeing, warned>>
             \/ /\ probe # "none" /\ i \in irqs
                /\ irqs' = irqs \ {i} /\ freeing' = TRUE /\ UNCHANGED <<taskVars, warned>>
             \/ /\ freeing /\ i \notin running
                /\ freeing' = FALSE /\ Step /\ UNCHANGED <<irqs, warned>>
             \/ /\ probe # "none" /\ i \notin irqs /\ ~freeing
                /\ warned' = TRUE /\ Step /\ UNCHANGED <<irqs, freeing>>
    BY <1>1 DEF DevmFreeIrq
  <2>2. /\ phase = "cleanup"
        /\ UNCHANGED <<driver, present, probe, held, opened, running, times, threadVars, pinVars>>
    BY <1>1 DEF DevmFreeIrq
  <2>3. /\ pc \in 1 .. ProbeLength /\ i \in ProbeIrqs
        /\ i \notin Before(pc) /\ Before(pc + 1) = Before(pc) \cup {i}
    BY <2>1, <2>2, BeforeCall
  <2>4. CASE probe = "none" /\ Oops /\ UNCHANGED <<irqs, freeing, warned>>
    BY <2>2, <2>3, <2>4 DEF Oops
  <2>5. CASE /\ probe # "none" /\ i \in irqs
             /\ irqs' = irqs \ {i} /\ freeing' = TRUE /\ UNCHANGED <<taskVars, warned>>
    <3>1. Before(pc)' = Before(pc) /\ Before(pc + 1)' = Before(pc + 1)
      BY <2>5, BeforeKept
    <3> QED BY <2>2, <2>3, <2>5, <3>1
  <2>6. CASE /\ freeing /\ i \notin running
             /\ freeing' = FALSE /\ Step /\ UNCHANGED <<irqs, warned>>
    <3>1. Before(pc)' = Before(pc + 1)
      BY <2>3, <2>6 DEF Step, Before
    <3> QED BY <2>2, <2>3, <2>6, <3>1 DEF Step
  <2>7. CASE /\ probe # "none" /\ i \notin irqs /\ ~freeing
             /\ warned' = TRUE /\ Step /\ UNCHANGED <<irqs, freeing>>
    <3>1. probe # "ok"
      BY <2>2, <2>3, <2>7
    <3> QED BY <2>2, <2>3, <2>7, <3>1 DEF Step
  <2> QED BY <2>1, <2>4, <2>5, <2>6, <2>7
<1>2. CASE PlatformDriverUnregister
  <2>1. phase = "cleanup" /\ pc = CleanupLength
    BY <1>2, InterruptAt DEF PlatformDriverUnregister
  <2> QED BY <1>2, <2>1 DEF PlatformDriverUnregister, ReleaseNext, Released, Step
<1> QED BY <1>1, <1>2

\* Loading, unloading and the interrupts keep it.
LEMMA RequestedElsewhere ==
  ASSUME IInv, driver \in InterruptDrivers, driver' = driver,
         \/ Insmod \/ Rmmod \/ DevOpen \/ DevClose \/ Return
         \/ \E i \in Irqs : Interrupt(i) \/ IrqHandler(i)
  PROVE  RequestedPart'
<1> USE LengthsKept, InterruptLengths
    DEF RequestedPart, Places, Requested, IInv, taskVars, heldVars, irqVars, threadVars, pinVars
<1>1. CASE Insmod
  BY <1>1 DEF Insmod
<1>2. CASE Rmmod
  BY <1>2 DEF Rmmod, Before
<1>3. CASE DevOpen \/ DevClose
  BY <1>3, BeforeKept DEF DevOpen, DevClose
<1>4. ASSUME NEW i \in Irqs, Interrupt(i) PROVE RequestedPart'
  BY <1>4, BeforeKept DEF Interrupt
<1>5. ASSUME NEW i \in Irqs, IrqHandler(i) PROVE RequestedPart'
  BY <1>5, BeforeKept DEF IrqHandler
<1>6. CASE Return
  <2>1. Len(Calls) = IF phase = "init" THEN InitLength ELSE CleanupLength
    BY <1>6, CallsEnd DEF Return, AllDrivers, InterruptDrivers
  <2> QED BY <1>6, <2>1 DEF Return
<1> QED BY <1>1, <1>2, <1>3, <1>4, <1>5, <1>6

\* No other step is one of these drivers.
LEMMA RequestedStep ==
  ASSUME IInv, Next, driver \in InterruptDrivers
  PROVE  RequestedPart'
<1>1. /\ ~At("create_character_device") /\ ~At("destroy_character_device") /\ ~At("ioremap")
      /\ ~At("iounmap") /\ ~At("devm_iounmap") /\ ~At("GPIO_OUT")
      /\ ~At("i2c_get_adapter") /\ ~At("i2c_new_client_device") /\ ~At("i2c_add_driver")
      /\ ~At("i2c_put_adapter") /\ ~At("i2c_master_send") /\ ~At("i2c_unregister_device")
      /\ ~At("i2c_del_driver") /\ ~At("gpiod_get_index") /\ ~At("gpiod_put")
      /\ ~At("gpiod_direction_output")
      /\ ~At("kthread_create") /\ ~At("wake_up_process") /\ ~At("kthread_stop")
  BY InterruptAt
<1>2. thread # "running"
  BY DEF IInv, Requested
<1>3. \/ PlatformDriverRegister \/ ProbeSucceeds \/ DevmRequestIrq \/ Unwind
      \/ DevmFreeIrq \/ PlatformDriverUnregister
      \/ Insmod \/ Rmmod \/ DevOpen \/ DevClose \/ Return
      \/ \E i \in Irqs : Interrupt(i) \/ IrqHandler(i)
  BY <1>1, <1>2 DEF Next, Module, CreateCharacterDevice, DestroyCharacterDevice, Ioremap, Iounmap,
     DevmIounmap, GpioOut, I2cGetAdapter, I2cNewClientDevice, I2cAddDriver, I2cPutAdapter,
     I2cMasterSend, I2cUnregisterDevice, I2cDelDriver, GpiodGetIndex, GpiodPut,
     GpiodDirectionOutput, KthreadCreate, WakeUpProcess, KthreadStop, Thread, LoopTest, Access,
     PressOrRelease, OtherConsumer, InterruptDrivers
<1> QED BY <1>3, DriverKept, RequestedInit, RequestedCleanup, RequestedElsewhere

-----------------------------------------------------------------------------
(***************************************************************************)
(* The module of the PCF8574.                                              *)
(***************************************************************************)
\* The lengths of this module.
LEMMA ClientLengths ==
  ASSUME driver = "pcf8574"
  PROVE  InitLength = 6 /\ CleanupLength = 3
BY DEF InitLength, CleanupLength, KthreadDrivers, InterruptDrivers

ClientPart == Places /\ Client

\* Loading the module keeps its part.
LEMMA ClientInit ==
  ASSUME IInv, driver = "pcf8574", driver' = driver,
         \/ CreateCharacterDevice \/ I2cGetAdapter \/ I2cNewClientDevice \/ I2cAddDriver
         \/ I2cPutAdapter \/ I2cMasterSend
  PROVE  ClientPart'
<1> USE LengthsKept, ClientLengths
    DEF ClientPart, Places, Client, IInv, heldVars, irqVars, threadVars, pinVars
<1>1. CASE CreateCharacterDevice
  <2>1. phase = "init" /\ pc = 1
    BY <1>1, ClientAt DEF CreateCharacterDevice
  <2> QED BY <1>1, <2>1 DEF CreateCharacterDevice, Step, Refused, Oops, Unaffected
<1>2. CASE I2cGetAdapter
  <2>1. phase = "init" /\ pc = 2
    BY <1>2, ClientAt DEF I2cGetAdapter
  <2> QED BY <1>2, <2>1 DEF I2cGetAdapter, Step, SkipTo, Unaffected
<1>3. CASE I2cNewClientDevice
  <2>1. phase = "init" /\ pc = 3
    BY <1>3, ClientAt DEF I2cNewClientDevice
  <2> QED BY <1>3, <2>1 DEF I2cNewClientDevice, Step, Unaffected
<1>4. CASE I2cAddDriver
  <2>1. phase = "init" /\ pc = 4
    BY <1>4, ClientAt DEF I2cAddDriver
  <2> QED BY <1>4, <2>1 DEF I2cAddDriver, Step, Unaffected
<1>5. CASE I2cPutAdapter
  <2>1. phase = "init" /\ pc = 5
    BY <1>5, ClientAt DEF I2cPutAdapter
  <2> QED BY <1>5, <2>1 DEF I2cPutAdapter, Step, Unaffected
<1>6. CASE I2cMasterSend
  <2>1. phase = "init" /\ pc = 6
    BY <1>6, ClientAt DEF I2cMasterSend
  <2> QED BY <1>6, <2>1 DEF I2cMasterSend, Step, Oops
<1> QED BY <1>1, <1>2, <1>3, <1>4, <1>5, <1>6

\* Unloading it, and its users, do, too.
LEMMA ClientElsewhere ==
  ASSUME IInv, driver = "pcf8574", driver' = driver,
         \/ DestroyCharacterDevice \/ I2cUnregisterDevice \/ I2cDelDriver
         \/ Insmod \/ Rmmod \/ DevOpen \/ DevClose \/ Return
  PROVE  ClientPart'
<1> USE LengthsKept, ClientLengths
    DEF ClientPart, Places, Client, IInv, taskVars, heldVars, irqVars, threadVars, pinVars
<1>1. CASE DestroyCharacterDevice
  <2>1. phase = "cleanup" /\ pc = 1
    BY <1>1, ClientAt DEF DestroyCharacterDevice
  <2> QED BY <1>1, <2>1 DEF DestroyCharacterDevice, Step, Oops, Unaffected
<1>2. CASE I2cUnregisterDevice
  <2>1. phase = "cleanup" /\ pc = 2
    BY <1>2, ClientAt DEF I2cUnregisterDevice
  <2> QED BY <1>2, <2>1 DEF I2cUnregisterDevice, Step, Unaffected
<1>3. CASE I2cDelDriver
  <2>1. phase = "cleanup" /\ pc = 3
    BY <1>3, ClientAt DEF I2cDelDriver
  <2> QED BY <1>3, <2>1 DEF I2cDelDriver, Step, Unaffected
<1>4. CASE Insmod
  BY <1>4 DEF Insmod
<1>5. CASE Rmmod
  BY <1>5 DEF Rmmod
<1>6. CASE DevOpen \/ DevClose
  BY <1>6 DEF DevOpen, DevClose
<1>7. CASE Return
  <2>1. Len(Calls) = IF phase = "init" THEN InitLength ELSE CleanupLength
    BY <1>7, CallsEnd DEF Return, AllDrivers
  <2> QED BY <1>7, <2>1 DEF Return
<1> QED BY <1>1, <1>2, <1>3, <1>4, <1>5, <1>6, <1>7

\* No other step is one of this module.
LEMMA ClientStep ==
  ASSUME IInv, Next, driver = "pcf8574"
  PROVE  ClientPart'
<1>1. phase \notin {"probe", "unwind"} /\ thread # "running" /\ irqs = {} /\ running = {}
  BY DEF IInv, Client
<1>2. /\ ~At("ioremap") /\ ~At("iounmap") /\ ~At("devm_iounmap") /\ ~At("GPIO_OUT")
      /\ ~At("platform_driver_register") /\ ~At("platform_driver_unregister")
      /\ ~At("gpiod_get_index") /\ ~At("gpiod_put") /\ ~At("gpiod_direction_output")
      /\ ~At("kthread_create") /\ ~At("wake_up_process") /\ ~At("kthread_stop")
      /\ \A i \in Irqs : ~At(i)
  BY <1>1, ClientAt DEF Irqs
<1>3. \/ CreateCharacterDevice \/ I2cGetAdapter \/ I2cNewClientDevice \/ I2cAddDriver
      \/ I2cPutAdapter \/ I2cMasterSend
      \/ DestroyCharacterDevice \/ I2cUnregisterDevice \/ I2cDelDriver
      \/ Insmod \/ Rmmod \/ DevOpen \/ DevClose \/ Return
  BY <1>1, <1>2 DEF Next, Module, Ioremap, Iounmap, DevmIounmap, GpioOut, PlatformDriverRegister,
     ProbeSucceeds, DevmRequestIrq, Unwind, DevmFreeIrq, PlatformDriverUnregister, GpiodGetIndex,
     GpiodPut, GpiodDirectionOutput, KthreadCreate, WakeUpProcess, KthreadStop, Thread, LoopTest,
     Access, PressOrRelease, Interrupt, IrqHandler, OtherConsumer
<1> QED BY <1>3, DriverKept, ClientInit, ClientElsewhere

-----------------------------------------------------------------------------
(***************************************************************************)
(* The invariant and the theorems.                                         *)
(***************************************************************************)
\* The invariant holds before the module is loaded.
LEMMA InitIInv == Init => IInv
<1> SUFFICES ASSUME Init PROVE IInv
  OBVIOUS
<1> USE DEF Init
<1>1. Typed
  <2>1. level \in [Leds -> {0, 1}] /\ outputs \subseteq Leds /\ times \in [Irqs -> 0 .. MaxTimes]
    OBVIOUS
  <2>2. {present, opened, freeing, warned, should_stop} \subseteq BOOLEAN
    OBVIOUS
  <2> QED BY <2>1, <2>2 DEF Typed, TypeOK
<1>2. Places /\ Mapped /\ Descriptors /\ Requested /\ Client
  BY DEF Places, Mapped, Descriptors, Requested, Client
<1> QED BY <1>1, <1>2 DEF IInv

\* Every step keeps it.
LEMMA NextIInv == IInv /\ [Next]_vars => IInv'
<1> SUFFICES ASSUME IInv, [Next]_vars PROVE IInv'
  OBVIOUS
<1>1. Typed'
  BY NextTyped
<1>2. CASE UNCHANGED vars
  <2>1. driver' = driver
    BY <1>2 DEF vars, heldVars
  <2> USE <1>2, <2>1, LengthsKept DEF IInv, vars, taskVars, heldVars, irqVars, threadVars, pinVars
  <2>2. Places' /\ Client'
    BY DEF Places, Client
  <2>3. Mapped'
    BY DEF Mapped
  <2>4. Descriptors'
    BY DEF Descriptors
  <2>5. Requested'
    BY DEF Requested, Before
  <2> QED BY <1>1, <2>2, <2>3, <2>4, <2>5
<1>3. CASE Next
  <2>1. driver \in AllDrivers /\ driver' = driver
    BY <1>3, DriverKept DEF IInv, Typed, TypeOK
  <2>2. CASE driver \in KthreadDrivers
    BY <1>1, <1>3, <2>1, <2>2, MappedStep
       DEF IInv, MappedPart, Descriptors, Requested, Client, KthreadDrivers, InterruptDrivers
  <2>3. CASE driver = "gpio_control"
    BY <1>1, <1>3, <2>1, <2>3, DescriptorsStep
       DEF IInv, DescriptorsPart, Mapped, Requested, Client, KthreadDrivers, InterruptDrivers
  <2>4. CASE driver \in InterruptDrivers
    BY <1>1, <1>3, <2>1, <2>4, RequestedStep
       DEF IInv, RequestedPart, Mapped, Descriptors, Client, KthreadDrivers, InterruptDrivers
  <2>5. CASE driver = "pcf8574"
    BY <1>1, <1>3, <2>1, <2>5, ClientStep
       DEF IInv, ClientPart, Mapped, Descriptors, Requested, KthreadDrivers, InterruptDrivers
  <2> QED BY <2>1, <2>2, <2>3, <2>4, <2>5 DEF AllDrivers, InterruptDrivers
<1> QED BY <1>2, <1>3

\* The inductive invariant holds in every state.
LEMMA Invariance == Spec => []IInv
  BY InitIInv, NextIInv, PTL DEF Spec

\* Every variable of the kernel modules has its type: among others, no call is made
\* behind the last of its function, and no handler counts beyond the bound.
THEOREM TypeCorrect == Spec => []TypeOK
<1>1. IInv => TypeOK
  BY DEF IInv, Typed
<1> QED BY <1>1, Invariance, PTL

\* When rmmod comes back, or an insmod that fails, nothing of the module is left, and
\* a dt_probe that fails leaves no handler.
THEOREM NothingIsLeftBehind == Spec => []NothingLeftBehind
<1>1. IInv => NothingLeftBehind
  <2> SUFFICES ASSUME IInv PROVE NothingLeftBehind
    OBVIOUS
  <2>1. phase = "unloaded" =>
          held = {} /\ ~opened /\ running = {} /\ thread \notin {"created", "running"}
    BY EmptyUnloaded DEF IInv, Places
  <2>2. probe = "failed" => irqs = {} /\ running = {}
    BY DEF IInv, Typed, TypeOK, AllDrivers, InterruptDrivers, Mapped, Descriptors, Requested, Client
  <2> QED BY <2>1, <2>2, EmptyUnloaded DEF NothingLeftBehind
<1> QED BY <1>1, Invariance, PTL

\* No part of a loaded module is there by half, whichever calls failed: its thread
\* with its mapping or neither, all of its interrupts or none, and of the PCF8574
\* module the client without the adapter.
THEOREM LoadedModulesAreConsistent == Spec => []LoadedConsistent
<1>1. IInv => LoadedConsistent
  <2> SUFFICES ASSUME IInv PROVE LoadedConsistent
    OBVIOUS
  <2>1. phase \in {"init", "live"} => thread # "killed"
    BY DEF IInv, Places
  <2>2. ASSUME phase = "live", driver \in KthreadDrivers
        PROVE  thread = IF "mapping" \in held THEN "running" ELSE "none"
    BY <2>2 DEF IInv, Mapped, Places
  <2>3. phase = "live" /\ driver = "gpio_control" => thread = "running"
    BY DEF IInv, Descriptors
  <2>4. ASSUME phase = "live", driver \in DOMAIN ProbeCalls
        PROVE  irqs = IF probe = "ok" THEN Irqs \cap Range(ProbeCalls[driver]) ELSE {}
    <3>1. CASE driver = "gpio_control"
      BY <2>4, <3>1 DEF IInv, Descriptors, ProbeCalls, GpioControlProbe, Irqs, Range
    <3>2. CASE driver \in InterruptDrivers
      <4>1. Irqs \cap Range(ProbeCalls[driver]) = ProbeIrqs
        BY <3>2 DEF ProbeCalls, InterruptProbe, ByNameProbe, Irqs, Range, ProbeIrqs, InterruptDrivers
      <4> QED BY <2>4, <3>2, <4>1 DEF IInv, Requested
    <3> QED BY <2>4, <3>1, <3>2 DEF ProbeCalls, InterruptDrivers
  <2>5. phase = "live" /\ driver = "pcf8574" => held \cap {"adapter", "client"} = {"client"}
    BY DEF IInv, Client
  <2> QED BY <2>1, <2>2, <2>3, <2>4, <2>5 DEF LoadedConsistent
<1> QED BY <1>1, Invariance, PTL

\* Unloading a driver whose dt_probe succeeded frees exactly what it requested.
THEOREM ProbedUnloadsAreClean == Spec => []ProbedUnloadIsClean
<1>1. IInv => ProbedUnloadIsClean
  BY DEF IInv, Typed, TypeOK, AllDrivers, InterruptDrivers, Mapped, Descriptors, Requested, Client,
     ProbedUnloadIsClean
<1> QED BY <1>1, Invariance, PTL

\* Two of the drivers start their thread only when the LED's pin is an output.
THEOREM ConfiguredFirst == Spec => []ConfiguredBeforeDriven
<1>1. IInv => ConfiguredBeforeDriven
  BY DEF IInv, Mapped, ConfiguredBeforeDriven, KthreadDrivers
<1> QED BY <1>1, Invariance, PTL
=============================================================================

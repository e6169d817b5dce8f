# TLA+ models of Raspberry-Pi-GNU

The repository collects programs for a Raspberry Pi: kernel modules, user-space
drivers, sensor and display drivers, and small client/server systems. They share
no code, but they meet the same hazards: a thread or callback that outlives the
module it belongs to, a call that fails after earlier ones acquired something, a
peripheral that keeps its state over a restart, posts that get lost or late.
Each model takes one such program, or a family of programs with the same
structure, with the environment it runs in (kernel, peripheral, network, user).

Paths below are relative to `src/`. Line numbers of every definition are in
`PROJECT.json` under `map`.

## 1. Inventory

| Part | Source | State | Operations | Interacts with | What is hard |
|---|---|---|---|---|---|
| GPIO edge counter | `Physical layer/GPIO/linux_gpio_irq_epoll.c` | descriptors, `happened_event`, `total_irq` | open, request line event, create and add epoll, wait, read | kernel event FIFO, epoll | one read per edge-triggered wakeup; a stale `events` flag; six error branches |
| LED threads over mapped registers | `Kernel/GPIO/blink_led_with_ioremap.c`, `blink_led_with_iowrite32.c`, `control_led_with_ioread32.c`, `blink_led_with_devm_ioremap.c` | `gpio_base`, `kthread_1`, character device, pin function and level | `init_module`, `thread_function`, `cleanup_module` | kthread API, GPIO registers, rmmod | rmmod while the thread runs; failing calls that are not reported |
| Timer and interrupt modules | `Kernel/GPIO/blink_led.c`, `control_led_with_button.c`, `gpio_interrupt_toggle_led.c` | timer or IRQ registration, `led_status`, `triggered_times` | load, callback, unload | timer softirq, interrupt controller | callback against `del_timer` / `free_irq`; merged edges |
| HD44780 behind PCF8574 | `Sensors and Modules/src/pcf8574_hd44780_lcd.c`, `PCF8574 HD44780 LCD/lcd_driver.py`, `lcd_i2c_lib.py` | the controller's mode, pending nibble, address, DDRAM; the port's pins | reset ladder, command, character, cursor, string | I2C bus, display | an interrupted run leaves the display between two nibbles; there is no reset line |
| HTTP server | `Kernel/Build Raspbian from scratch/Networking/multithread_http_server_loopback_interface.c` | `http_client_fd_list`, descriptors, threads | accept, push_back, pthread_create, read, answer, erase, close | clients, kernel descriptor numbers | unlocked vector, reused descriptor numbers, SIGPIPE, ignored results |
| IoT device | `Application layer/HTTP/HTTP multithread client to send and receive data/main.c` | `buttonState`, `delay_value`, `temp` | three threads: button, curl, blink | `get_post.php`, network, button | lost and late posts; digits copied without a bound into an array that is never terminated, and turned into an int |
| Dashboard | same directory, `index.php`, `script.js` | database row; page, timer and answer of each browser | poll, ON, OFF, SETDELAY, SETNAME, reload | the device's row | polls racing forms and their answers; failed polls; malformed SQL |
| Sender and status server | `HTTP multithread client to send data/httpClient.c`, `httpServer.php` | `buttonState`; rows of `device`, `device_status` | three threads as above; INSERT, SELECT, UPDATE or INSERT | MySQL, network, button | several statements per request; an UPDATE that always throws |
| Device tree LED | `Kernel/Device tree/src/device_tree_gpio_control.c` | GPIO descriptors, thread, driver registration | probe, init, thread, cleanup | device tree, kthread | a failing thread after the registration; GPIOs given back before they are used |
| Platform interrupt drivers | `Kernel/Device tree/src/platform_driver_interrupt.c`, `get_interrupt_by_name.c` | IRQ numbers, registration | probe, handler, init, cleanup | platform bus | second interrupt failing; cleanup without probe, and with handlers running |
| Device tree changesets | `Kernel/Device tree/src/update_property_for_node_*.c`, `remove_and_add_a_new_prop.c`, `update_refcount.c` | the live and the dead properties of a node, changeset entries, reference counts | make, apply, revert, kfree | live device tree | revert order; a freed property that the kernel still lists |
| Property reader | `Kernel/Device tree/src/platform_driver_read_dt_node_properties.c` | registration, binding | probe, init, cleanup | device tree, platform bus | a node that another module has changed; absent or mistyped properties |
| GPIO from user space | `Physical layer/GPIO/direct_register_access_*.c`, `sysfs_*.c`, `linux_gpio_*.c` | GPFSEL registers, exported pins | configure, set, clear, read | `/dev/mem`, sysfs | read-modify-write of a shared register; programs killed halfway |
| SPI, RFID | `Physical layer/SPI/` (seven programs), `Physical layer/RFID/read_ver_reg.c` | descriptor, the SPI device's settings and its pending reply | open, configure, transfer | SPI device, other programs on the bus | failures that are not errors, or end with the status of success; a full-duplex answer comes one byte late |
| I2C port, SHT30 | `Sensors and Modules/src/pcf8574.c`, `sht30.c` | descriptor, the sensor's state, the frame | write, read, CRC | I2C bus | CRC-8 in an 8 bit register; a write that is not looked at |
| I2C kernel driver | `Kernel/I2C/i2c_driver_pcf8574.c` | character device, adapter, client, driver | `device_init`, `device_exit` | I2C core | four results that are not looked at, or compared with the wrong value |
| Firmware scripts | `Kernel/Build Raspbian from scratch/Firmware update by Uboot/` | loop devices, partitions | attach, format, write | block layer | failure in the middle |

What makes each part correct is stated by the properties in section 3. Left
aside: the firmware and build scripts, snippets inside Markdown documents,
overlays, pictures (section 5 says why).

## 2. Modules

| Module | Role |
|---|---|
| `EdgeCounter` | abstract: what any counter of GPIO edges promises |
| `GpioEpoll` | the epoll program, shown to implement `EdgeCounter` |
| `GpioEpollProofs` | TLAPS proofs about `GpioEpoll` for every FIFO capacity and number of edges |
| `KernelModules` | the eight kernel modules that acquire things call by call: four LED threads, three platform drivers, the I2C driver |
| `CallbackLed` | the three modules that work from a timer or an interrupt |
| `HD44780` | operators: what the display controller does with a nibble |
| `LcdPort` | both LCD drivers, byte by byte |
| `CallDisplay` | abstract: a display that executes one call at a time |
| `MCLcdPort` | instance of `LcdPort`: texts and observed cells |
| `HttpServer` | the multithreaded HTTP server and its clients |
| `IotDevice`, `MCIotDevice` | `main.c` and `httpClient.c` with their servers and the network; the instance's commands |
| `Dashboard` | `index.php` and `script.js` with several open pages |
| `CallbackLedProofs`, `LcdPortProofs`, `DeviceTreeProofs`, `KernelModulesProofs`, `GpioRegistersProofs`, `BusProgramsProofs` | TLAPS proofs about these six, for every value of their constants |
| `WebProofs` | TLAPS proofs about `HttpServer` and `Dashboard` |
| `DeviceTree` | the modules that change and read the live device tree |
| `BusPrograms` | the user space programs on the SPI and on the I2C bus |
| `Crc8` | operators: the SHT30's checksum as `sht30.c` computes it and as a polynomial remainder, noise, and what is printed under it |
| `GpioRegisters` | the programs on GPIO registers, sysfs and the GPIO character device, several at once |

Composition: `HD44780` is the peripheral `LcdPort` writes to and the one whose
calls `CallDisplay` executes. `DeviceTree` composes five modules over one tree.
`IotDevice` and `Dashboard` are the two sides of the database row: each models
the other as an environment that may write its columns at any time
(`SetCommand` in the one; of the other only the Command is kept, which the device
never writes), which includes what the other side really does.

Definitions marked "Mutant" are defective variants of the definition that
follows them. No specification uses them; substituting one for its original
must break a property, which shows that the property depends on that code.

### How the state and the actions correspond to the code

**GpioEpoll.** `pc` is the next system call of `main`. `OpenChip`,
`RequestLineEvent`, `CreateEpoll` and `AddToEpoll` are the calls before the loop,
each with its error branch; `Return(closed)` is that branch, with the
descriptors it closes. `WaitReports`, `WaitTimesOut` and `WaitFails` are the
outcomes of `epoll_wait`; the code then tests `happened_event.events` and not
`nfds`, so that after a timeout the flag of an earlier wakeup (`happened`) makes
it read again. `Edge` is the kernel: it appends to the FIFO and puts the
descriptor on the ready list, or drops the edge when the FIFO is full.

**KernelModules.** A driver is data: the sequences of calls of its
`init_module`, `dt_probe` and `cleanup_module` (`InitCalls`, `ProbeCalls`,
`CleanupCalls`) and the accesses of its thread (`LoopCalls`), copied in their
order from the C file. The calls are the actions, one each, and are shared by the
drivers. `Ioremap` failing skips to the end of `init_module`, which returns 0.
`kthread_create` returns an `ERR_PTR` on failure, which passes the comparison
with NULL, so `WakeUpProcess` dies; `device_create`, `i2c_new_client_device` and
`gpiod_get_index` may leave an `ERR_PTR` too, and `cdev_alloc` a NULL. `Access` is one access of the
thread; without a mapping it dies, or goes on through a translation the processor
still holds. `PlatformDriverRegister` enters `dt_probe` if the device is
`present`; a failing `DevmRequestIrq` is followed by `Unwind`, the driver core's
release of what the probe had requested, and then by the rest of `init_module`,
which does not learn of it. An interrupt's name stands for its request in
`dt_probe` and its release in `cleanup_module`. `DevmFreeIrq` dies on the null
`dev` of a device that was never probed, warns of an interrupt that is not
requested, and waits for a running handler. `GpiodPut` may turn the pins into
inputs, and from then on `OtherConsumer` may take a line that was given back;
`GpiodDirectionOutput` may be refused for any of them, which the code does not look
at. `lost` is history: the lines to which one or the other has happened. `DevOpen`
keeps the module loaded.
`phase = "oops"` is a task that died in the kernel: nothing unloads the module any
more. `held` is what has to be given back.

**CallbackLed.** A callback has two halves, the write of the LED
(`BlinkCallback`, `ButtonCallback`, `IrqHandler`) and what follows (`ModTimer`,
`IrqReturn`), so that `rmmod` and edges come between them. `TimerCleanup` is
`del_timer`, which does not wait for a running callback; `FreeIrq` and
`IrqCleanup` are `free_irq`, which does. What a callback does after its module is
gone is undefined: it may go on or die (`FreedCode`). A module whose last life
left such a callback behind is not loaded again.

**LcdPort.** A program is the sequence of bytes it writes to the PCF8574:
`Ladder(p)`, then six bytes per call. `WriteByte` is one I2C write; the
controller latches on the falling edge of EN. `Interrupted` ends a run at any
byte, and the next run, of either driver, finds the port and the controller as
they were left. The two texts fit the forty cells a row has (`LinesAssumption`), as
those of `main` and of the driver's README do. When the data lines change in the same write as EN falls the
controller may take the old or the new nibble, or none.

**HttpServer.** `Accept`, `PushBackBegin`/`PushBackEnd` and `PthreadCreate` are
the loop of `main`; `HandlerRead`, `HandlerEof`, `FindBegin`/`EraseEnd` and
`CloseFd` the handler thread. An operation on the vector has a beginning and an
end; two threads inside at once make its content undefined (`raced`), after which
any operation on it may kill the process. `HandlerRead` writing to a client that
hung up may raise SIGPIPE. `Complete` says which answers have as many bytes as
their Content-Length.

**IotDevice.** `FuncThreadButton`, `FuncThreadBlink` (a change of the LED and the
delay it is followed by) and the steps of `func_thread_curl` (`Post`, `CurlFails`,
and `Parse` in `main.c` or `FinishSending` in `httpClient.c`). `temp` is an array of
16 characters, of which the digits at its beginning are kept. It keeps its
characters between two answers, because the function's frame stays where it is
and nothing clears the array; `Copied` overwrites its beginning, and a Command longer
than the array overwrites what lies behind it (`ParseOverruns`, after which nothing is
claimed of the program). `Atoi` is the conversion: the number the digits say, if they
end within the array and it fits an int; otherwise `Undetermined`, since the
conversion may read on behind the array and the C standard leaves its overflow open.
`GetPost` is one statement of the
server that stores the post: `get_post.php` is not in the repository and is taken,
from how `main.c` reads its answer, to store the post's data in one row and to
answer with the row's Command, which a `#` or the end of the answer follows;
`httpServer.php` makes one row of a post, and a second one when `device_status` has
none for the device (`Rows`). If it has one, the UPDATE throws after the row was
stored. Nobody writes `device_status`. `left` counts the
statements to come, `late` has the posts that curl gave up and that the server may
still receive or go on with.

**Dashboard.** (`PageInit`, `PageNext`, `PageSpec`, `PageTypeOK`: one module proves
about it and about `HttpServer`.) `LoadXMLDoc`, `Request`, `OnReadyStateChange` and `PollFails` are
one poll of a page. A form (`On`, `Off`, `SetDelay`, `SetName`) or a reload starts a
navigation (`Navigate`), in the place of one under way; `Update` is the server's part
of it, and `NewPage` the arrival of its answer, which replaces the page and gives up
its poll. Until then the old page polls and shows on. Request or answer may be
lost (`NavigationFails`: the browser shows its error page), and a form whose browser
no longer waits for it may be stored later, or never (`late`, `LateUpdate`). `SetName`
stores nothing: its SQL lacks a quote (`index.php:72`). Of the row the model keeps the
Command, the column that the forms write; the others are fetched and shown with it.
A page is `"stalled"` when no timer is armed any more.

**DeviceTree.** `MakeChangeset` is `init_module` up to
`of_changeset_update_property`, which remembers the property that is live then
(`old`); `Apply`, `Revert` and `Kfree` are the calls after it, each atomic under
the kernel's own `of_mutex`. The `of_mutex` that the modules define is another
one in each of them and excludes nobody, so it has no state here; it is left
locked by the early return, and initialised again by the next load. A replaced
property goes to the front of the node's list of dead properties (`dead`), which
`Apply` and `Revert` walk (`Walks`): a freed one on it is a fault. `RemoveAndAdd`
applies both entries or neither. `UpdateRefcount` and `RegisterReader` find the
node by the `compatible` string, if it is the original one. `nested` is history:
whether so far the updaters were loaded and unloaded like brackets, the last one
first (`Last`, by the number of its load), with no load or unload within another
one. `Loaded` are those that have not been unloaded.

**BusPrograms.** A program is data: how it ends or goes on without a bus (`unopened`)
and when a setting fails (`unset`), its settings, and the bytes of its transfers. It
ends `"done"` at the end of `main`, `"failed"` with a status that says so, or
`"exited"` before that with status 0, as `exit(0)` in `spi_master_tx.c:50`, `:57`,
`:64` and `:71`, in `spi_master_tx.cpp`, and `return 0` in `read_ver_reg.c:47` do
after a call that failed.
`Open`, `Configure`, `SpiTransfer`, `I2cWrite` and `CommandWrite` are its calls,
each of which may fail (`TransferFails`, `ReadFails`). Where `spi_bus_init`
returns 0, or the descriptor it has closed, the program goes on with `fd` as
`"stdin"` or `"closed"` and only the transfer can stop it. An SPI transfer shifts
out the bytes and in what the device had ready before each of them (`reply`), so
an answer comes one byte late. `lsb_first` outlives the program. `Read` gives
sht30 a measured word and its checksum, disturbed by a pattern of `Noise`, and
`PrintedOf`, the test and the words of `sht30.c`, is what it prints of them.
`Crc8` takes a byte or a word for the set of the places of its 1 bits, so that `^` is
the symmetric difference (`Xor`) and no bitwise operator is needed, of which the
prover has no theory. `Shift` is a round of the inner loop of `sender_crc_calculate`, in
a register of 8 bits, `SenderCrcCalculate` the whole of it, and `Remainder` the long
division that defines the checksum, which the sensor does. `char` is
unsigned, as it is on ARM: with a signed one `sht30.c:72` would drop every word
whose checksum is 128 or more.

**GpioRegisters.** A program is a sequence of operations, `Setup` and then `Loop`
for ever (`linux_gpio_*` have no loop and end). `Load` and `Store` are the two
halves of each `&=` and `|=` in `GPIO_OUT` and `GPIO_INP`; a store writes the
functions of all ten pins of the register as they were loaded. `overlapped`
records that another program had loaded the same register in between.
`SetOrClr`, `Get` and `Put` are `GPIO_SET`, `GPIO_CLR` and `GPIO_GET`, and the
same on a requested line; `Direction` and `Value` the writes to sysfs, whose
results the programs do not see (`!write(...)` is false for -1). `Request` gets a
line of the character device, which the kernel refuses for a pin that the user
exported to sysfs before the programs started (`exported`). `Exit` ends a
program anywhere, `Start` runs it again.

## 3. Runs

| Run | Shows |
|---|---|
| `epoll` | Edges are accounted for (counted, queued or dropped by a full FIFO), no wakeup is lost although one edge is read per report, every error branch closes all descriptors, and `EdgeCounter` is implemented, fairness included: each queued edge is eventually read. Had the code tested `nfds`, or cleared `happened_event`, edges would stay unread: the mutants. |
| `kernel_modules` | In all eight modules, in every interleaving and whichever call fails: rmmod, or a refused insmod, leaves nothing behind that can still run or that is still held; a module that is loaded although calls of it failed may lack what they should have given it, but has no half of it (a thread over registers is there with its mapping or not at all, of a driver's interrupts all or none, the PCF8574's client without its adapter); unloading a module whose probe succeeded frees what it requested and nothing else; two drivers configure the pin before they drive it (`blink_led_with_ioremap`, which wakes its thread before `GPIO_OUT`, does not); rmmod ends (in an oops, perhaps); the LED follows the button, and the three LEDs wave although the probe gave the GPIOs back before configuring them, unless a direction call was refused or another consumer took a line since. |
| `kernel_unmapped` | Violated: `iounmap` before `kthread_stop`, the thread accesses an unmapped register. |
| `callbacks` | rmmod leaves no callback behind unless `del_timer` overlapped a running one, and only that overlap runs freed code; each edge toggles the LED once or merges with one that does; the button's LED follows it. |
| `lcd` | From every state an interrupted run, or power-on, can leave, both ladders bring the controller into step; then every call is executed once, whole and in order (`CallDisplay`), and a run that ends shows exactly its text. |
| `http_server` | The vector is exact until two threads meet in it, although descriptor numbers are reused; a handler has a client of its own; requests are read and descriptors come back, unless the process dies. |
| `iot_device` | With the server up for good, a held button reaches the database for good, whatever posts were lost or arrive late, whole or in part and between the rows of others; a positive command that stays reaches the LED as the first digits of its delay, provided that these and the digits behind them in `temp` end in it and fit an int, and no command was longer than `temp`. |
| `iot_delay` | Violated: the delay taken over is not the one sent, old digits follow it. |
| `dashboard` | From the moment a form's answer is there, the page that stored the last form never shows an older command, whatever polls were under way (before it, it may; and a form that was given up may be stored behind a newer one); a page left open and not stalled ends up with the row in the database. |
| `gpio_registers` | A program that is in its loop has its pins configured, whatever functions they had, whoever was killed where, unless two changes of the register overlapped; a requested line stays an output although a sysfs program wants it as an input; a held button determines the LEDs of the button programs, and the blink programs blink. |
| `bus_programs` | A program that gets to the end of `main` was heard, most significant bit first, one that ends with a status other than 0 was not, or not wholly, and status 0 alone tells nothing, since it may have ended early: then nothing was sent. This holds although a missing bus, a failed setting and the order of the bits go unnoticed at first: the transfer fails on standard input and on a closed descriptor, and WR_MODE sets the order that RD_LSB_FIRST does not. An answer belongs to its request, unless another program came between the two transfers of `spi_master_rx.c`. sht30 prints exactly the intact words. |
| `device_tree` | When all updaters are unloaded the tree is what it was, provided that they were unloaded in the opposite order of loading; what can go wrong otherwise, and why: a missing node, a freed property on the list of dead ones, a property live and dead at once. The platform driver is bound whenever the tree is restored; the node's count covers its users. |

Each violated property is a sentence of the repository (quoted in
`PROJECT.json`, `findings`) that the code does not meet. Four more divergences
show in the models without a run of their own: `blink_led_with_ioremap.c:57` makes
its pin an output after it woke the thread that drives it, `main.c:98` ignores the
Command 0 that the OFF button stores, and the UPDATEs of `index.php:72` and
`httpServer.php:36` are malformed.

### Bounds

- `epoll`: a FIFO of 3 edges (16 in the kernel) and 9 edges. The program's
  logic depends on the FIFO being empty, partly filled or full; 9 edges fill it
  and overflow it three times over. The proofs hold for every size.
- `kernel_modules`: three counted interrupts per handler, enough for one before,
  one during and one after any other step; loading and unloading repeat without
  limit. The LEDs' pins may all be inputs or all outputs at first, at either
  level.
- `callbacks`: `MaxEdges = 5` edges per load: enough for one that calls the
  handler, one that is remembered, two that merge, and one after them.
- `lcd`: texts of two characters and six observed cells, one more in each row
  than the text fills. Calls are executed independently of one another, so a
  longer text adds only more of the same bytes; interruption at every byte, any
  number of times.
- `http_server`: three clients, two descriptors, a queue of two: descriptors run
  out, are reused, and two handlers meet the main thread. One unread request
  (two pieces) per client. The instance sends `GET /` only: with the file there
  or not it has both kinds of answers, and its second piece is handled as a POST
  is; other kinds add names, not behaviour.
- `iot_device`: no command yet, OFF, ON, a delay of ten nines, which does not fit an
  int, and one of seventeen, which does not fit `temp`; `temp` begins with three digits
  or is full of them. `iot_delay`: delays of one and of two digits, in a `temp` that
  begins with none. Two values of the button and one or
  two rows to come make `late` a set of at most four posts; several late posts with
  the same state act as one.
- `dashboard`: two browsers, one delay, and one form at a time of those that may be
  stored late (`MaxLate`): enough for one behind a newer one of either page.
- `gpio_registers`: the two register programs together, the two sysfs button
  programs together (their pins are in another register), `sysfs_blink` with
  `linux_gpio_write` and `sysfs_read` on its pin, and `linux_gpio_read`, whose pin
  nobody shares. All pins start as inputs, outputs or with an alternate
  function; pins 14 and 15 are exported or not. Restarts are not limited.
- `bus_programs`: two processes, every pair of programs on one bus (a third would
  disturb as a second does). Two measured words, one that has a bit set in both bytes and
  one that has none; the checksum is linear in word and noise, so whether noise is
  detected does not depend on the word, as `BusProgramsProofs` shows. All patterns of
  up to three flipped bits among the 24, and all within eight bits in a row: what
  this checksum always detects (some patterns of four bits pass).
- `device_tree`: four loads of the modules that keep references, which is enough
  for both updaters twice over: a changeset made against another's property, one
  reverted under another, and a freed property met by a third.

### Fairness

- Tasks and threads are scheduled: `WF(Setup \/ Loop)`, `WF(Module)`,
  `WF(Thread)`, `WF(Kernel)`, `WF(Main)`, `WF(Handler(fd))`, the three threads of
  `IotDevice`, `WF(IrqHandler(i))`, `WF(Run(p))` of a running program.
  Each is one sequential thread, or the kernel running the one callback there is. A blocked `read`, `accept` or `kthread_stop` is a disabled
  action. Failures of calls are under no fairness of their own.
- `WF(GetPost)`, `WF(Poll(b))`, `WF(Answer(b))`: a server that is up answers and a request ends in
  an answer or an error, which curl's timeout and the browser guarantee.
  `WF(LatePost)`: a delayed post is received or dropped some day.
- Users owe nothing: loading, unloading, pressing, hanging up, submitting have no
  fairness. `LedFollowsButton`, `LedsObey`, `ButtonReachesDatabase`,
  `CommandReachesLed` and `DashboardFollows` assume, in their statement, that the
  user or the network leaves things alone from some time on; `Waves` that the
  module stays loaded.

### Deadlock

`GpioEpoll` ends when `main` returns; `CallbackLed` and `KernelModules` stop in
`"oops"`; `HttpServer` stops when the process dies, and may have all clients
waiting for the rest of an answer; `DeviceTree` stops when the kernel does, or at
the bound of the loads; the programs of `BusPrograms` end: these runs switch the
check off. The others never stop.

`DeviceTree` and `BusPrograms` state no fairness: the first is about users who may
or may not load and unload, the second about programs that end.

## 4. Proofs

Each proof module shows `Init => IInv` and `IInv /\ [Next]_vars => IInv'`, one
step per action, and derives its theorems from `Spec => []IInv`. `TypeOK`, or
what the theorems need of it (`Typed`), is a part of every `IInv`. The parts that are no property of their own are there for
the reasons below. TLC has checked every `IInv` as an invariant of the instance
of its run.

**GpioEpollProofs**, for every `Capacity \in Nat \ {0}` and `MaxEdges \in Nat`
(`CapacityAssumption`, `MaxEdgesAssumption`):

- `TypeCorrect`: including that the FIFO never exceeds its capacity.
- `AllEdgesAccounted`, `WakeupsNotLost`, `DescriptorsClosed`: the three safety
  invariants of the run `epoll`.
- `ImplementsCounter`: `Spec => Counter!SafeSpec`, the safety part of the
  refinement.

`HeldFds` says exactly which descriptors are open at each call; without it "closes
everything it lists" does not imply "closes everything that is open".
`NothingQueued` says that the FIFO is empty before the line is requested; the step
from `"open"` or `"request"` to an error needs it to map to the abstract `Stop`,
which empties the queue. `SeenBeforeRead` says that a read happens only after an
EPOLLIN was seen: after a read the program is in `epoll_wait` with possibly more
edges queued and nothing on the ready list, and it is this flag, never cleared,
that makes `NoLostWakeup` inductive across `ReadEvent`. `ReturnTypeOK`,
`ReturnIInv` and `ReturnStops` deal once with the error branches all calls share.

**CallbackLedProofs**, for every set of drivers and every `MaxEdges`
(`DriversAssumption`, `MaxEdgesAssumption`): `TypeCorrect`, `UnloadsCleanly`,
`OopsOnlyOverlapped` and `EdgesToggle`. `Unloading` says that only the interrupt
driver waits in its unloading, its line already off, and that it never overlaps;
`IrqCleanup` needs it to be clean. `EdgesSomewhere` accounts for the edges while a
handler runs: `TogglesPerEdge` speaks of an idle line only and says nothing of the
edge in the handler or the one the line remembers. `StatusIsParity` follows
`led_status` and the LED through the handler's first half; its step rests on
`Parity`, how `% 2` goes on.

**LcdPortProofs**, for every pair of lines of at most forty characters, every set of
observed cells and every code of a blank (`LinesAssumption`, `CellsAssumption`,
`BlankAssumption`, `NoProgramAssumption`): `TypeCorrect`, `StaysInStep`,
`FinishedRunShowsText`, and the refinement `CallsAreExecutedInOrder`, which is
`Spec => Display!Spec`. The invariant has one part for the ladder and one for what
follows. `Mode` is 8-bit or 4-bit with this or that half pending, and `Modes(p)[e]`
the modes that the controller of program `p` may be in before the ladder's nibble `e`:
all of them at first, whatever an ambiguous edge after an interrupted run has
delivered, and 4-bit with nothing pending after the last (`ModesStep`, from
`LatchMode`: where one nibble takes a mode). Behind the ladder `InCalls` says that the
upper half of a call is pending from its third byte on and that the calls so far have
left in the display what `Shown` says: the flags, as many characters as were written
(`Partial`) and the address counter, which jumps from the last cell of one row to the
first of the other (`Address`). `OnPins`, that the pins carry the byte written last, is
why an edge inside a run is never ambiguous and why only the third and the sixth byte
of a call do anything (`CallWrite`). `CallsAt` and `BytesAt` say which call stands
where in the program, and which byte; that takes no induction because the bytes are
given by the call and the place in it.

**WebProofs** on `HttpServer`, for any number of clients, descriptors and pending
connections (`BoundsAssumption`, `RequestsAssumption`, `NoClientAssumption`):
`TypeCorrect`, `HandlersServeOneClient` and `ListIsExact`. `Owned` says where a
client is (away, queued once, or behind one descriptor), without which `Accept`
could put a client behind a second descriptor, and that the main thread's
descriptor has no handler until `pthread_create`. `ListHolds` is `ListExact` with
"no duplicates" in place of the cardinality: that is what `push_back` of a number
not in the vector and `RemoveFirstInjective` (what `find` and `erase` do to a vector
without duplicates) preserve. `DistinctLength` turns it back into the cardinality.
`FreeFdIsFree` says that `accept` returns a free number if there is one, from the
well-ordering of the naturals.

**WebProofs** on `Dashboard`, for any number of pages, every set of delays and any
number of late forms (`NoRowAssumption`, `MaxLateAssumption`): `PageTypeCorrect` and
`OwnWritesRead`. `ReplyIsNews` adds that, once the form's answer is there, an answer on
its way to the page that stored the last form carries the row's command or no row,
because the new page has given up the old one's poll.

**DeviceTreeProofs**, for every bound on the loads (`MaxLoadsAssumption`):
`TreeRestored`, `BreaksOnlyWithCause`, `CountCoversHolders`, and the action property
`NodeIsFound`. The core is `Stack`: under a nested history each changeset remembers
the property of the updater that was loaded before it (`Beneath`), only the last
one can be between its two calls, and the property of the last one applied is live,
or the original one when there is none. `RestoresTree` says of loaded updaters only
that no freed property is live, which reverting one of them does not keep, unless it
is known what it puts back. The invariant speaks of the updaters' order through the
numbers of their loads, which is what any number of them needs (`OwnProperties`:
the numbers are different and not freed). `RefsKept` and `MakeChangesetCovered` count
the holders by the cardinality theorems.

**KernelModulesProofs**, for every subset of the eight drivers and every number of
interrupts (`DriversAssumption`, `MaxTimesAssumption`): `TypeCorrect`,
`NothingIsLeftBehind`, `LoadedModulesAreConsistent`, `ProbedUnloadsAreClean` and
`ConfiguredFirst`. A driver is data, so the invariant says call by call what the
driver holds: `Places` where each phase may be, and then one part for each kind of
driver (`Mapped` the threads over registers, `Descriptors` the LED thread of the
device tree driver, `Requested` the two interrupt drivers, `Client` the I2C driver).
`NothingLeftBehind` says nothing of a cleanup that is under way: without "the
mapping is given back by its first call and its last call has stopped the thread",
"`irqs` are those that the calls so far have not freed", the step that returns to
`"unloaded"` could leave anything behind. `MappedAt`, `DescriptorsAt`, `InterruptAt`
and `ClientAt` unfold each driver's calls once, and the steps are proved from them.

**GpioRegistersProofs**, for every choice of programs that are started together, all
seven included (`InstancesAssumption`): `TypeCorrect` and `FunctionsAreHeld`.
`CopiesFresh` is the reason why nothing but an overlap can undo a function: as long as
there was none, one program at most is between its load and its store, and what it has
loaded is what the register holds, because a function that the kernel sets is never
one of that register's. `Configured` follows the functions of the pins from the
first operation of the setup on; `FunctionsHold` begins at its end, where it would
have to be true at once. For a requested line it adds that the user has not exported
it. `BlinkBody`, `ButtonBody`, `WriteBody` and `OtherBody` say what each program is
made of; `QuietMoves`, that one which changes no function has its pins set up.

**BusProgramsProofs**, for any number of processes, each with any of the programs
and any words of 16 bits (`WordsAssumption`):
`SuccessWasHeard`, `RepliesAreOwn` and `PrintedWordsAreIntact`. `BitOrder` says that past its first setting a
program on the SPI device has the most significant bit first, which holds because no
program ever sets the other order; the transfers heard so far (`Heard`) rest on it.
`Unheard` says that those from the next one on were not: the early ends and the failed
transfers need it.
`Answered` says that between the two transfers of `spi_master_rx.c` the device still
has its answer, unless `disturbed` says otherwise. `OthersStayGood` states once what a
step of one process must not do to the others; `ShiftedIn` is what an SPI transfer of
one or two units returns.

The checksum needs no invariant over time but an argument about bits. `Shift` is linear
(`ShiftXor`), and with it the `Syndrome` of the 24 bits of a word and its checksum: what
the checksum that came differs by from the one computed from initial value 0. A step of
the long division leaves the syndrome (`ReduceStep`, as the divisor has none), so the
remainder is the syndrome of the word with its first byte inverted (`RestIsSyndrome`),
which is what `sender_crc_calculate` computes (`SenderIsLinear`): every intact word is
printed. Noise is seen exactly when its own bits have a syndrome (`AcceptedIff`).
One bit has the remainder of its power of x (`SyndromeOfBit`, from the table
`Residues`). All 24 are different, so two bits show, and all have an odd number of ones,
so one or three do (`ThreeBitsShow`). A burst moved up by a place has its syndrome shifted
(`SyndromeShifts`), and a shift makes nothing vanish, so every burst shows (`BurstShows`).

Only model-checked:

- Liveness (the fairness of `CountsEdges` and every liveness property), which is
  beyond the prover.
- The runs of `IotDevice` state liveness only, apart from the violated
  `DelayIsCommand`.
- The `TypeOK` of `IotDevice` and `DeviceTree`, which documents their
  variables; TLC has checked it on the instances of their runs. `DeviceTreeProofs` proves
  the types of what its theorems need; that of `dead` is out of reach, since what
  `SelectSeq` leaves of a sequence is shown by induction over it.

## 5. What the models leave out

- Time. There is no clock: delays, the LCD's busy times (the Python driver waits
  about 1.5 ms after CLEAR) and the lengths of sleeps are not modelled.
- Weak memory between threads of `main.c`: a write of an `int` is seen at once.
- `LcdPort`: `set_cursor` for rows 2 and 3 reads past `DRAM_OFFSET`; `main` does
  not call it so and the model has the two rows it does call. The backlight bit,
  and the functions of `lcd_i2c_lib.py` that `lcd_driver.py` does not call.
- `HttpServer`: URIs fit their buffers and `index.html` does not change between
  the test for it and its being read. Socket setup is the initial state.
- `IotDevice`: frame and serial number; digits that stand in `temp` behind another
  character, which show once an answer is copied up to them. The button is the pin that is read; the
  pin that is configured is another one.
- `Dashboard`: layout of the page; `webpage.php`, an older copy.
- `KernelModules`: the device files' handlers. Those of
  `blink_led_with_devm_ioremap.c` only print; `dev_write` of `i2c_driver_pcf8574.c`
  clears a buffer of 100 bytes and copies into it what the user writes, with no
  bound (lines 76 to 83), and nothing but its output uses the buffer. Removal of a device while its driver
  is bound; `gpio_direction_input`, whose failure is only printed.
- `DeviceTree`: failing memory allocations. A NULL `old_prop` in
  `remove_and_add_a_new_prop.c:24` is refused by the kernel, or met where it prints the
  name of what it could not remove; the model has both. `kmalloc(sizeof(struct property*))` in
  `update_property_for_node_by_single_functions.c:20` and `:23` asks for less than is
  written; the allocator's smallest object on a Raspberry Pi holds it.
- `BusPrograms`: what the transfers print, the conversion to degrees, and the
  contents of the messages, which are tokens. `PERIODIC_MODE` is compiled out.
  `sht30.c:65` reads fewer than six bytes only in the case of a failure.
- The firmware scripts: three straight-line scripts that a user runs by hand on a
  host; what a failing `losetup` or `mount` leaves behind is the matter of those
  tools, which would be most of such a model. The build scripts keep no state.
- `GpioRegisters`: a build that keeps the register in the processor between
  `&=` and `|=` has fewer interleavings than the two loads and stores modelled;
  `GPIO_PULL`, which no program calls.

## 6. Plan

Done: all programs of the inventory that keep state, except the scripts; proofs of
every safety property that a passing run checks.

Next, in this order:

1. The type invariant of `IotDevice` as a theorem.
2. An end-to-end composition of `IotDevice` and `Dashboard` over one row.

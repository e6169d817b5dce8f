----------------------------- MODULE CallbackLed -----------------------------
(***************************************************************************)
(* The kernel modules that work from a callback of the kernel: blink_led.c *)
(* and control_led_with_button.c from a timer that the callback re-arms,   *)
(* gpio_interrupt_toggle_led.c from an interrupt.                          *)
(*                                                                         *)
(* rmmod runs concurrently with the callback.  free_irq waits for a        *)
(* handler that is running; del_timer takes a pending timer off the queue  *)
(* but does not wait, so that a callback which is running just then arms   *)
(* the timer of a module that is no longer there.                          *)
(***************************************************************************)
EXTENDS Integers

CONSTANTS
  Drivers,     \* the modules of the instance
  MaxEdges     \* bound on the edges of one load of the interrupt driver

Timers == {"blink_led", "control_led_with_button"}
ASSUME DriversAssumption == Drivers \subseteq Timers \cup {"gpio_interrupt_toggle_led"}
ASSUME MaxEdgesAssumption == MaxEdges \in Nat

VARIABLES
  driver,      \* the module this behaviour loads and unloads
  module,      \* "unloaded", "loaded", "unloading" (in free_irq) or "oops"
  armed,       \* the timer is queued, or the handler is registered
  callback,    \* "idle", "entered", or "written" (the LED is set)
  pending,     \* an edge that came while the handler ran will call it again
  led_status, led,
  button,      \* the level of the button's pin
  input,       \* the button's pin is an input
  triggered_times,
  edges,       \* edges while the handler was registered
  merged,      \* edges that came while another one was already pending
  overlapped   \* a callback was running when del_timer returned

counters == <<triggered_times, edges, merged>>
pins == <<led, button, input>>
vars == <<driver, module, armed, callback, pending, led_status, pins, counters, overlapped>>

Irq == driver = "gpio_interrupt_toggle_led"

TypeOK ==
  /\ driver \in Drivers
  /\ module \in {"unloaded", "loaded", "unloading", "oops"}
  /\ callback \in {"idle", "entered", "written"}
  /\ {armed, pending, input, overlapped} \subseteq BOOLEAN
  /\ {led_status, led, button} \subseteq {0, 1}
  /\ {triggered_times, edges, merged} \subseteq 0 .. MaxEdges

Init ==
  /\ driver \in Drivers
  /\ module = "unloaded" /\ callback = "idle"
  /\ armed = FALSE /\ pending = FALSE /\ overlapped = FALSE
  /\ led_status = 0 /\ led \in {0, 1} /\ button \in {0, 1} /\ input \in BOOLEAN
  /\ triggered_times = 0 /\ edges = 0 /\ merged = 0

\* What all init_module functions share.  A module whose last life left a
\* callback behind is not loaded again.
Load ==
  /\ module = "unloaded" /\ ~overlapped
  /\ module' = "loaded"
  /\ led_status' = 0
  /\ triggered_times' = 0 /\ edges' = 0 /\ merged' = 0
  /\ UNCHANGED <<driver, callback, pending, led, button, overlapped>>

BlinkInit == driver = "blink_led" /\ Load /\ armed' = TRUE /\ UNCHANGED input

\* gpio_request and gpio_direction_input may fail; init_module goes on.
ButtonInit ==
  /\ driver = "control_led_with_button" /\ Load
  /\ armed' = TRUE
  /\ input' \in {input, TRUE}

\* So does this one, even if request_irq fails.
IrqInit == Irq /\ Load /\ armed' \in BOOLEAN /\ UNCHANGED input

\* A timer expires; if its module is gone the kernel jumps into freed memory.
Expire ==
  /\ ~Irq /\ armed /\ callback = "idle" /\ module # "oops"
  /\ armed' = FALSE
  /\ IF module = "loaded" THEN callback' = "entered" /\ UNCHANGED module
                          ELSE module' = "oops" /\ UNCHANGED callback
  /\ UNCHANGED <<driver, pending, led_status, pins, counters, overlapped>>

\* The button's pin rises.  The line stays masked while the handler runs and
\* remembers one edge.
Edge ==
  /\ Irq /\ armed /\ edges < MaxEdges
  /\ edges' = edges + 1
  /\ IF callback = "idle" THEN callback' = "entered" /\ UNCHANGED <<pending, merged>>
     ELSE pending' = TRUE /\ merged' = (IF pending THEN merged + 1 ELSE merged)
                         /\ UNCHANGED callback
  /\ UNCHANGED <<driver, module, armed, led_status, pins, triggered_times, overlapped>>

\* What a callback of an unloaded module does is undefined: it may go on as
\* before, or the memory it is in is already reused.
FreedCode ==
  /\ module = "unloaded" /\ callback # "idle"
  /\ module' = "oops"
  /\ UNCHANGED <<driver, armed, callback, pending, led_status, pins, counters, overlapped>>

\* The first half of a callback sets the LED.
Written == module # "oops" /\ callback = "entered" /\ callback' = "written"

BlinkCallback ==
  /\ driver = "blink_led" /\ Written
  /\ led_status' = 1 - led_status /\ led' = led_status'
  /\ UNCHANGED <<driver, module, armed, pending, button, input, counters, overlapped>>

\* A pin that is not an input does not show the button.
ButtonCallback ==
  /\ driver = "control_led_with_button" /\ Written
  /\ IF input THEN led' = button ELSE led' \in {0, 1}
  /\ UNCHANGED <<driver, module, armed, pending, led_status, button, input, counters, overlapped>>

\* Mutant: the status is counted up instead of inverted.
IrqHandlerIncrements ==
  /\ Irq /\ Written
  /\ led_status' = led_status + 1 /\ led' = IF led_status' = 0 THEN 0 ELSE 1
  /\ triggered_times' = triggered_times + 1
  /\ UNCHANGED <<driver, module, armed, pending, button, input, edges, merged, overlapped>>

IrqHandler ==
  /\ Irq /\ Written
  /\ led_status' = 1 - led_status /\ led' = led_status'
  /\ triggered_times' = triggered_times + 1
  /\ UNCHANGED <<driver, module, armed, pending, button, input, edges, merged, overlapped>>

\* Mutant: only the first module re-arms its timer.
ModTimerBlinkOnly ==
  /\ ~Irq /\ callback = "written" /\ module # "oops"
  /\ callback' = "idle" /\ armed' = (driver = "blink_led")
  /\ UNCHANGED <<driver, module, pending, led_status, pins, counters, overlapped>>

\* mod_timer, the last call of both timer callbacks.
ModTimer ==
  /\ ~Irq /\ callback = "written" /\ module # "oops"
  /\ callback' = "idle" /\ armed' = TRUE
  /\ UNCHANGED <<driver, module, pending, led_status, pins, counters, overlapped>>

\* Mutant: the edge that came during the handler is forgotten.
IrqReturnForgets ==
  /\ Irq /\ callback = "written"
  /\ callback' = "idle" /\ pending' = FALSE
  /\ UNCHANGED <<driver, module, armed, led_status, pins, counters, overlapped>>

\* The handler returns IRQ_HANDLED; the kernel calls it again for the edge it
\* remembered.
IrqReturn ==
  /\ Irq /\ callback = "written"
  /\ callback' = IF pending THEN "entered" ELSE "idle"
  /\ pending' = FALSE
  /\ UNCHANGED <<driver, module, armed, led_status, pins, counters, overlapped>>

\* Mutant: cleanup_module forgets del_timer.
TimerCleanupKeepsTimer ==
  /\ ~Irq /\ module = "loaded"
  /\ module' = "unloaded" /\ UNCHANGED armed
  /\ overlapped' = (callback # "idle")
  /\ UNCHANGED <<driver, callback, pending, led_status, pins, counters>>

\* del_timer, then the module is gone.
TimerCleanup ==
  /\ ~Irq /\ module = "loaded"
  /\ module' = "unloaded" /\ armed' = FALSE
  /\ overlapped' = (callback # "idle")
  /\ UNCHANGED <<driver, callback, pending, led_status, pins, counters>>

\* Mutant: the module goes without free_irq.
FreeIrqMissing ==
  /\ Irq /\ module = "loaded"
  /\ module' = "unloading"
  /\ UNCHANGED <<driver, armed, callback, pending, led_status, pins, counters, overlapped>>

\* free_irq takes the handler off the line, then waits until it is not running.
FreeIrq ==
  /\ Irq /\ module = "loaded"
  /\ module' = "unloading" /\ armed' = FALSE /\ pending' = FALSE
  /\ merged' = IF pending THEN merged + 1 ELSE merged
  /\ UNCHANGED <<driver, callback, led_status, pins, triggered_times, edges, overlapped>>

IrqCleanup ==
  /\ module = "unloading" /\ callback = "idle"
  /\ module' = "unloaded"
  /\ UNCHANGED <<driver, armed, callback, pending, led_status, pins, counters, overlapped>>

PressOrRelease ==
  /\ module # "oops"
  /\ button' = 1 - button
  /\ UNCHANGED <<driver, module, armed, callback, pending, led_status, led, input, counters,
                 overlapped>>

Kernel ==
  \/ Expire \/ BlinkCallback \/ ButtonCallback \/ ModTimer
  \/ IrqHandler \/ IrqReturn \/ IrqCleanup
Environment ==
  \/ BlinkInit \/ ButtonInit \/ IrqInit \/ TimerCleanup \/ FreeIrq
  \/ FreedCode \/ Edge \/ PressOrRelease

Next == Kernel \/ Environment

\* The kernel runs its timers and handlers; loading, unloading and pressing
\* are up to the user.
Spec == Init /\ [][Next]_vars /\ WF_vars(Kernel)

-----------------------------------------------------------------------------
(***************************************************************************)
(* Properties.                                                             *)
(***************************************************************************)
\* After rmmod no callback of the module runs or can be started, unless
\* del_timer found the timer's callback running; free_irq rules even that out.
UnloadIsClean ==
  module = "unloaded" /\ (Irq \/ ~overlapped) => ~armed /\ callback = "idle"

\* The only way to run freed code is a callback that overlapped del_timer.
OopsOnlyAfterOverlap == module = "oops" => overlapped

\* Every edge either calls the handler or merges with one that does, and
\* after each call the LED is on for an odd number of calls: on for the first
\* press, off for the next.
TogglesPerEdge ==
  Irq /\ callback = "idle" =>
    /\ edges = triggered_times + merged
    /\ triggered_times > 0 => led = triggered_times % 2

\* A button held, or left alone, for long enough determines the LED.
LedFollowsButton ==
  \A b \in {0, 1} :
    <>[](driver = "control_led_with_button" /\ module = "loaded" /\ input /\ button = b)
      => <>[](led = b)
=============================================================================

------------------------- MODULE CallbackLedProofs -------------------------
(***************************************************************************)
(* Proofs about CallbackLed for every set of drivers and every bound on    *)
(* the number of edges: type correctness, what rmmod leaves behind, and    *)
(* how edges turn into toggles of the LED.                                 *)
(***************************************************************************)
EXTENDS CallbackLed, TLAPS

\* free_irq has taken the handler off the line before it waits, and only the
\* timers can be overtaken by rmmod.
Unloading ==
  /\ module = "unloading" => Irq /\ ~armed /\ ~pending
  /\ Irq => ~overlapped

One(b) == IF b THEN 1 ELSE 0

\* Where each edge is: in a call that was counted, in one that was not yet, in
\* the one that the line remembers, or merged.
EdgesSomewhere ==
  Irq =>
    /\ pending => callback # "idle"
    /\ edges = triggered_times + merged + One(pending) + One(callback = "entered")

\* led_status is the parity of the calls, and the LED shows it.
StatusIsParity ==
  Irq =>
    /\ led_status = triggered_times % 2
    /\ triggered_times > 0 => led = led_status

IInv ==
  /\ TypeOK
  /\ Unloading
  /\ UnloadIsClean
  /\ OopsOnlyAfterOverlap
  /\ EdgesSomewhere
  /\ StatusIsParity

USE DriversAssumption, MaxEdgesAssumption

LEMMA Parity == \A n \in Nat : n % 2 \in {0, 1} /\ (n + 1) % 2 = 1 - (n % 2)
  BY SMT

LEMMA InitIInv == Init => IInv
<1> SUFFICES ASSUME Init PROVE IInv
  OBVIOUS
<1> USE DEF Init
<1>1. TypeOK
  <2>1. {armed, pending, input, overlapped} \subseteq BOOLEAN
    OBVIOUS
  <2>2. 0 \in 0 .. MaxEdges
    OBVIOUS
  <2>3. /\ {led_status, led, button} \subseteq {0, 1}
        /\ {triggered_times, edges, merged} \subseteq 0 .. MaxEdges
    BY <2>2
  <2> QED BY <2>1, <2>3 DEF TypeOK
<1>2. Unloading /\ UnloadIsClean /\ OopsOnlyAfterOverlap
  BY DEF Unloading, UnloadIsClean, OopsOnlyAfterOverlap
<1>3. EdgesSomewhere
  BY DEF EdgesSomewhere, One
<1>4. StatusIsParity
  BY Parity DEF StatusIsParity
<1> QED BY <1>1, <1>2, <1>3, <1>4 DEF IInv

\* What the three init_module functions share keeps the invariant: the module
\* that is loaded left nothing behind, so that all counts start at 0.
LEMMA LoadIInv ==
  ASSUME IInv, Load, armed' \in BOOLEAN, input' \in BOOLEAN
  PROVE  IInv'
<1> USE DEF IInv, Load, pins
<1>1. TypeOK'
  BY DEF TypeOK
<1>2. callback = "idle" /\ callback' = "idle" /\ ~overlapped'
  BY DEF UnloadIsClean, TypeOK
<1>3. Unloading' /\ UnloadIsClean' /\ OopsOnlyAfterOverlap'
  BY <1>2 DEF Unloading, UnloadIsClean, OopsOnlyAfterOverlap, Irq
<1>4. EdgesSomewhere'
  BY <1>2 DEF EdgesSomewhere, One, Irq, TypeOK
<1>5. StatusIsParity'
  BY Parity DEF StatusIsParity, Irq
<1> QED BY <1>1, <1>3, <1>4, <1>5

\* A step that leaves the interrupt's part of the state alone.
LEMMA TimerStep ==
  ASSUME IInv, ~Irq, driver' = driver, TypeOK', module' # "unloading",
         UnloadIsClean', OopsOnlyAfterOverlap'
  PROVE  IInv'
BY DEF IInv, Unloading, EdgesSomewhere, StatusIsParity, Irq

LEMMA NextIInv == IInv /\ [Next]_vars => IInv'
<1> SUFFICES ASSUME IInv, [Next]_vars PROVE IInv'
  OBVIOUS
<1> USE DEF pins, counters
<1>1. CASE BlinkInit \/ ButtonInit \/ IrqInit
  BY <1>1, LoadIInv DEF BlinkInit, ButtonInit, IrqInit, IInv, TypeOK
<1>2. CASE Expire
  <2>1. TypeOK'
    BY <1>2 DEF Expire, IInv, TypeOK
  <2>2. module # "unloading" /\ module \in {"unloaded", "loaded"}
    BY <1>2 DEF Expire, IInv, TypeOK, Unloading
  <2>3. UnloadIsClean' /\ OopsOnlyAfterOverlap'
    BY <1>2, <2>2 DEF Expire, IInv, TypeOK, UnloadIsClean, OopsOnlyAfterOverlap, Irq
  <2> QED BY <1>2, <2>1, <2>2, <2>3, TimerStep DEF Expire
<1>3. CASE BlinkCallback \/ ButtonCallback
  <2>1. TypeOK'
    BY <1>3 DEF BlinkCallback, ButtonCallback, Written, IInv, TypeOK
  <2>2. ~Irq /\ module' = module /\ driver' = driver /\ overlapped' = overlapped
    BY <1>3 DEF BlinkCallback, ButtonCallback, Irq
  <2>3. UnloadIsClean' /\ OopsOnlyAfterOverlap'
    BY <1>3, <2>2 DEF BlinkCallback, ButtonCallback, Written, IInv, UnloadIsClean,
       OopsOnlyAfterOverlap, Irq
  <2> QED BY <2>1, <2>2, <2>3, TimerStep DEF IInv, Unloading
<1>4. CASE ModTimer
  <2>1. TypeOK'
    BY <1>4 DEF ModTimer, IInv, TypeOK
  <2>2. UnloadIsClean' /\ OopsOnlyAfterOverlap'
    BY <1>4 DEF ModTimer, IInv, UnloadIsClean, OopsOnlyAfterOverlap, Irq
  <2> QED BY <1>4, <2>1, <2>2, TimerStep DEF ModTimer, IInv, Unloading
<1>5. CASE TimerCleanup
  <2>1. TypeOK'
    BY <1>5 DEF TimerCleanup, IInv, TypeOK
  <2>2. UnloadIsClean' /\ OopsOnlyAfterOverlap'
    BY <1>5 DEF TimerCleanup, UnloadIsClean, OopsOnlyAfterOverlap, Irq
  <2> QED BY <1>5, <2>1, <2>2, TimerStep DEF TimerCleanup
<1>6. CASE FreedCode
  <2>1. overlapped /\ ~Irq
    BY <1>6 DEF FreedCode, IInv, UnloadIsClean, Unloading
  <2>2. TypeOK' /\ UnloadIsClean' /\ OopsOnlyAfterOverlap'
    BY <1>6, <2>1 DEF FreedCode, IInv, TypeOK, UnloadIsClean, OopsOnlyAfterOverlap
  <2> QED BY <1>6, <2>1, <2>2, TimerStep DEF FreedCode
<1>7. CASE Edge
  <2> USE <1>7 DEF Edge
  <2>1. UNCHANGED <<driver, module, armed, overlapped>> /\ Irq /\ armed
    OBVIOUS
  <2>2. edges' = edges + 1 /\ edges' <= MaxEdges /\ edges \in Nat /\ merged \in Nat
          /\ triggered_times \in Nat /\ pending \in BOOLEAN
    BY DEF IInv, TypeOK
  <2>3. EdgesSomewhere' /\ merged' \in 0 .. MaxEdges
    <3>1. CASE callback = "idle"
      BY <2>2, <3>1 DEF IInv, TypeOK, EdgesSomewhere, One, Irq
    <3>2. CASE callback # "idle" /\ pending
      BY <2>2, <3>2 DEF IInv, TypeOK, EdgesSomewhere, One, Irq
    <3>3. CASE callback # "idle" /\ ~pending
      BY <2>2, <3>3 DEF IInv, TypeOK, EdgesSomewhere, One, Irq
    <3> QED BY <2>2, <3>1, <3>2, <3>3
  <2>4. TypeOK'
    <3>1. callback' \in {"idle", "entered", "written"} /\ pending' \in BOOLEAN
      BY DEF IInv, TypeOK
    <3> QED BY <2>1, <2>2, <2>3, <3>1 DEF IInv, TypeOK
  <2>5. Unloading' /\ UnloadIsClean' /\ OopsOnlyAfterOverlap'
    BY <2>1 DEF IInv, Unloading, UnloadIsClean, OopsOnlyAfterOverlap, Irq
  <2>6. StatusIsParity'
    BY DEF IInv, StatusIsParity, Irq
  <2> QED BY <2>3, <2>4, <2>5, <2>6 DEF IInv
<1>8. CASE IrqHandler
  <2> USE <1>8 DEF IrqHandler, Written
  <2>1. triggered_times \in Nat /\ triggered_times' = triggered_times + 1 /\ led' = led_status'
          /\ led_status' = 1 - led_status /\ led_status \in {0, 1}
          /\ edges \in 0 .. MaxEdges /\ merged \in Nat /\ pending \in BOOLEAN
    BY DEF IInv, TypeOK
  <2>2. EdgesSomewhere' /\ triggered_times' <= edges
    <3>1. CASE pending
      BY <2>1, <3>1 DEF IInv, EdgesSomewhere, One, Irq
    <3>2. CASE ~pending
      BY <2>1, <3>2 DEF IInv, EdgesSomewhere, One, Irq
    <3> QED BY <2>1, <3>1, <3>2
  <2>3. TypeOK'
    BY <2>1, <2>2 DEF IInv, TypeOK
  <2>4. StatusIsParity'
    BY <2>1, Parity DEF IInv, StatusIsParity, Irq
  <2>5. Unloading' /\ UnloadIsClean' /\ OopsOnlyAfterOverlap'
    BY DEF IInv, Unloading, UnloadIsClean, OopsOnlyAfterOverlap, Irq
  <2> QED BY <2>2, <2>3, <2>4, <2>5 DEF IInv
<1>9. CASE IrqReturn
  <2> USE <1>9 DEF IrqReturn
  <2>1. TypeOK'
    BY DEF IInv, TypeOK
  <2>2. EdgesSomewhere'
    BY DEF IInv, TypeOK, EdgesSomewhere, One, Irq
  <2>3. StatusIsParity'
    BY DEF IInv, StatusIsParity, Irq
  <2>4. Unloading' /\ UnloadIsClean' /\ OopsOnlyAfterOverlap'
    BY DEF IInv, Unloading, UnloadIsClean, OopsOnlyAfterOverlap, Irq
  <2> QED BY <2>1, <2>2, <2>3, <2>4 DEF IInv
<1>10. CASE FreeIrq
  <2> USE <1>10 DEF FreeIrq
  <2>1. EdgesSomewhere' /\ merged' \in 0 .. MaxEdges
    BY DEF IInv, TypeOK, EdgesSomewhere, One, Irq
  <2>2. TypeOK'
    BY <2>1 DEF IInv, TypeOK
  <2>3. StatusIsParity'
    BY DEF IInv, StatusIsParity, Irq
  <2>4. Unloading' /\ UnloadIsClean' /\ OopsOnlyAfterOverlap'
    BY DEF IInv, Unloading, UnloadIsClean, OopsOnlyAfterOverlap, Irq
  <2> QED BY <2>1, <2>2, <2>3, <2>4 DEF IInv
<1>11. CASE IrqCleanup
  <2> USE <1>11 DEF IrqCleanup
  <2>1. TypeOK' /\ EdgesSomewhere' /\ StatusIsParity'
    BY DEF IInv, TypeOK, EdgesSomewhere, One, StatusIsParity, Irq
  <2>2. Unloading' /\ UnloadIsClean' /\ OopsOnlyAfterOverlap'
    BY DEF IInv, Unloading, UnloadIsClean, OopsOnlyAfterOverlap, Irq
  <2> QED BY <2>1, <2>2 DEF IInv
<1>12. CASE PressOrRelease
  <2> USE <1>12 DEF PressOrRelease
  <2>1. TypeOK'
    BY DEF IInv, TypeOK
  <2>2. EdgesSomewhere' /\ StatusIsParity'
    BY DEF IInv, EdgesSomewhere, One, StatusIsParity, Irq
  <2>3. Unloading' /\ UnloadIsClean' /\ OopsOnlyAfterOverlap'
    BY DEF IInv, Unloading, UnloadIsClean, OopsOnlyAfterOverlap, Irq
  <2> QED BY <2>1, <2>2, <2>3 DEF IInv
<1>13. CASE UNCHANGED vars
  BY <1>13 DEF vars, IInv, TypeOK, Unloading, UnloadIsClean, OopsOnlyAfterOverlap,
     EdgesSomewhere, One, StatusIsParity, Irq
<1> QED
  BY <1>1, <1>2, <1>3, <1>4, <1>5, <1>6, <1>7, <1>8, <1>9, <1>10, <1>11, <1>12, <1>13
  DEF Next, Kernel, Environment

LEMMA Invariance == Spec => []IInv
  BY InitIInv, NextIInv, PTL DEF Spec

\* The state is well-typed in every reachable state; in particular no counter
\* exceeds the number of edges.
THEOREM TypeCorrect == Spec => []TypeOK
<1>1. IInv => TypeOK
  BY DEF IInv
<1> QED BY <1>1, Invariance, PTL

\* rmmod leaves no callback behind, unless del_timer found one running.
THEOREM UnloadsCleanly == Spec => []UnloadIsClean
<1>1. IInv => UnloadIsClean
  BY DEF IInv
<1> QED BY <1>1, Invariance, PTL

\* Only a callback that overlapped del_timer runs freed code.
THEOREM OopsOnlyOverlapped == Spec => []OopsOnlyAfterOverlap
<1>1. IInv => OopsOnlyAfterOverlap
  BY DEF IInv
<1> QED BY <1>1, Invariance, PTL

\* However many edges come, and however they merge, the LED shows the parity of
\* the calls, and no edge is lost but by merging.
THEOREM EdgesToggle == Spec => []TogglesPerEdge
<1>1. IInv => TogglesPerEdge
  <2> SUFFICES ASSUME IInv, Irq, callback = "idle" PROVE TogglesPerEdge
    BY DEF TogglesPerEdge
  <2>1. edges = triggered_times + merged
    BY DEF IInv, TypeOK, EdgesSomewhere, One
  <2>2. triggered_times > 0 => led = triggered_times % 2
    BY DEF IInv, StatusIsParity
  <2> QED BY <2>1, <2>2 DEF TogglesPerEdge
<1> QED BY <1>1, Invariance, PTL
=============================================================================

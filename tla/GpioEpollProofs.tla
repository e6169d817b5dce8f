-------------------------- MODULE GpioEpollProofs --------------------------
(***************************************************************************)
(* Proofs about GpioEpoll for every FIFO capacity and every bound on the   *)
(* number of edges: type correctness, the accounting of edges, the absence *)
(* of lost wakeups and of descriptor leaks, and that the program's steps   *)
(* implement the abstract EdgeCounter.                                     *)
(***************************************************************************)
EXTENDS GpioEpoll, SequenceTheorems, TLAPS

\* What main holds open at each of its calls.
HeldFds ==
  /\ pc \in {"open", "exited"} => fds = {}
  /\ pc = "request" => fds = {"gpiochip_fd"}
  /\ pc = "create" => fds = {"gpiochip_fd", "req.fd"}
  /\ pc \in {"add", "wait", "read"} => fds = Descriptors

\* A read is only attempted once an EPOLLIN has been seen, and the flag is
\* never cleared: that is what keeps timeouts from losing queued edges.
SeenBeforeRead == pc = "read" => happened

\* No edge is queued before the line is requested.
NothingQueued == pc \in {"open", "request"} => fifo = <<>>

IInv ==
  /\ HeldFds
  /\ SeenBeforeRead
  /\ NothingQueued
  /\ EdgesAccounted
  /\ NoLostWakeup

USE CapacityAssumption, MaxEdgesAssumption

\* The empty FIFO is a sequence of edges, and holds none.
LEMMA EmptyFifo == \A s : s = <<>> => s \in Seq(Nat) /\ Len(s) = 0
  OBVIOUS

\* Every error branch ends in a well-typed state.
LEMMA ReturnTypeOK ==
  ASSUME TypeOK, NEW closed, Return(closed)
  PROVE  TypeOK'
<1>1. pc' \in Pcs /\ fds' \subseteq Descriptors /\ ready' \in BOOLEAN
  BY DEF Return, TypeOK, Pcs
<1>2. fifo' \in Seq(Nat) /\ Len(fifo') <= Capacity
  <2>1. fifo' = <<>> \/ fifo' = fifo
    BY DEF Return
  <2> QED BY <2>1, EmptyFifo DEF TypeOK
<1> QED BY <1>1, <1>2 DEF Return, TypeOK

\* The state is well-typed in every reachable state (the kernel's FIFO never
\* exceeds its capacity).
THEOREM TypeCorrect == Spec => []TypeOK
<1>1. Init => TypeOK
  <2> SUFFICES ASSUME Init PROVE TypeOK
    OBVIOUS
  <2>1. fifo \in Seq(Nat) /\ Len(fifo) <= Capacity
    BY EmptyFifo DEF Init
  <2> QED BY <2>1 DEF Init, TypeOK, Pcs, SetupPcs
<1>2. TypeOK /\ [Next]_vars => TypeOK'
  <2> SUFFICES ASSUME TypeOK, [Next]_vars PROVE TypeOK'
    OBVIOUS
  <2> USE DEF TypeOK, Pcs, SetupPcs
  <2>1. CASE OpenChip
    BY <2>1, ReturnTypeOK DEF OpenChip, loopVars, Descriptors
  <2>2. CASE RequestLineEvent
    BY <2>2, ReturnTypeOK DEF RequestLineEvent, loopVars, Descriptors
  <2>3. CASE CreateEpoll
    BY <2>3, ReturnTypeOK DEF CreateEpoll, loopVars, Descriptors
  <2>4. CASE AddToEpoll
    BY <2>4, ReturnTypeOK DEF AddToEpoll
  <2>5. CASE WaitReports
    BY <2>5 DEF WaitReports
  <2>6. CASE WaitTimesOut
    BY <2>6 DEF WaitTimesOut, loopVars
  <2>7. CASE ReadEvent
    BY <2>7 DEF ReadEvent
  <2>8. CASE WaitFails \/ ReadFails
    BY <2>8, ReturnTypeOK DEF WaitFails, ReadFails
  <2>9. CASE Edge
    <3>1. CASE Len(fifo) < Capacity
      <4>1. fifo' = Append(fifo, raised + 1)
        BY <2>9, <3>1 DEF Edge
      <4>2. fifo' \in Seq(Nat) /\ Len(fifo') = Len(fifo) + 1
        BY <4>1
      <4> QED BY <2>9, <3>1, <4>2 DEF Edge
    <3>2. CASE ~(Len(fifo) < Capacity)
      BY <2>9, <3>2 DEF Edge
    <3> QED BY <3>1, <3>2
  <2>10. CASE UNCHANGED vars
    BY <2>10 DEF vars
  <2> QED
    BY <2>1, <2>2, <2>3, <2>4, <2>5, <2>6, <2>7, <2>8, <2>9, <2>10
       DEF Next, Setup, Loop, Failure
<1> QED BY <1>1, <1>2, PTL DEF Spec, SafeSpec

-----------------------------------------------------------------------------
\* An error branch that closes all main holds open preserves the invariant.
LEMMA ReturnIInv ==
  ASSUME TypeOK, IInv, NEW closed, Return(closed), fds \subseteq closed
  PROVE  IInv'
BY DEF Return, IInv, HeldFds, SeenBeforeRead, NothingQueued, EdgesAccounted, NoLostWakeup

\* IInv is inductive.
LEMMA IInvInvariant == Spec => []IInv
<1>1. Init => IInv
  <2> SUFFICES ASSUME Init PROVE IInv
    OBVIOUS
  <2>1. Len(fifo) = 0
    BY EmptyFifo DEF Init
  <2> QED BY <2>1 DEF Init, IInv, HeldFds, SeenBeforeRead, NothingQueued, EdgesAccounted,
                      NoLostWakeup
<1>2. TypeOK /\ TypeOK' /\ IInv /\ [Next]_vars => IInv'
  <2> SUFFICES ASSUME TypeOK, TypeOK', IInv, [Next]_vars PROVE IInv'
    OBVIOUS
  <2> USE DEF IInv, HeldFds, SeenBeforeRead, NothingQueued, EdgesAccounted, NoLostWakeup,
              Descriptors
  <2>1. CASE OpenChip
    BY <2>1, ReturnIInv DEF OpenChip, loopVars
  <2>2. CASE RequestLineEvent
    BY <2>2, ReturnIInv DEF RequestLineEvent, loopVars
  <2>3. CASE CreateEpoll
    BY <2>3, ReturnIInv DEF CreateEpoll, loopVars
  <2>4. CASE AddToEpoll
    BY <2>4, ReturnIInv DEF AddToEpoll
  <2>5. CASE WaitReports
    BY <2>5 DEF WaitReports
  <2>6. CASE WaitTimesOut
    BY <2>6 DEF WaitTimesOut, loopVars
  <2>7. CASE ReadEvent
    <3>1. Len(fifo') = Len(fifo) - 1
      BY <2>7 DEF ReadEvent, TypeOK
    <3> QED BY <2>7, <3>1 DEF ReadEvent, TypeOK
  <2>8. CASE WaitFails \/ ReadFails
    BY <2>8, ReturnIInv DEF WaitFails, ReadFails
  <2>9. CASE Edge
    <3>1. /\ pc \in {"create", "add", "wait", "read"}
          /\ UNCHANGED <<pc, fds, happened, total_irq>> /\ raised' = raised + 1
      BY <2>9 DEF Edge, TypeOK, Pcs, SetupPcs
    <3>2. CASE Len(fifo) < Capacity
      <4>1. fifo' = Append(fifo, raised') /\ dropped' = dropped
        BY <2>9, <3>2 DEF Edge
      <4>2. Len(fifo') = Len(fifo) + 1
        BY <4>1 DEF TypeOK
      <4>3. pc = "wait" => ready'
        BY <2>9, <3>2 DEF Edge
      <4> QED BY <3>1, <4>1, <4>2, <4>3 DEF TypeOK
    <3>3. CASE ~(Len(fifo) < Capacity)
      BY <2>9, <3>1, <3>3 DEF Edge, TypeOK
    <3> QED BY <3>2, <3>3
  <2>10. CASE UNCHANGED vars
    BY <2>10 DEF vars
  <2> QED
    BY <2>1, <2>2, <2>3, <2>4, <2>5, <2>6, <2>7, <2>8, <2>9, <2>10
       DEF Next, Setup, Loop, Failure
<1> QED BY <1>1, <1>2, TypeCorrect, PTL DEF Spec, SafeSpec

\* Every edge is counted, queued, or was dropped by a full FIFO.
THEOREM AllEdgesAccounted == Spec => []EdgesAccounted
BY IInvInvariant, PTL DEF IInv

\* The program never sleeps in epoll_wait on a queued edge that neither
\* epoll nor the stale EPOLLIN flag will make it read.
THEOREM WakeupsNotLost == Spec => []NoLostWakeup
BY IInvInvariant, PTL DEF IInv

\* main returns with no descriptor open, whichever call failed.
THEOREM DescriptorsClosed == Spec => []NoDescriptorLeak
<1>1. IInv => NoDescriptorLeak
  BY DEF IInv, HeldFds, NoDescriptorLeak
<1> QED BY <1>1, IInvInvariant, PTL

-----------------------------------------------------------------------------
\* An error branch is the abstract counter's Stop.
LEMMA ReturnStops ==
  ASSUME TypeOK, IInv, NEW closed, Return(closed), fds \subseteq closed, pc # "exited"
  PROVE  Counter!Stop
<1>1. fifo' = <<>>
  BY DEF Return, TypeOK, Pcs, SetupPcs, IInv, HeldFds, NothingQueued, Descriptors
<1>2. Phase # "stopped" /\ Phase' = "stopped"
  BY DEF Phase, Return
<1> QED BY <1>1, <1>2 DEF Counter!Stop, Return

\* Every step of the program is a step of the abstract edge counter or leaves
\* the counter's state alone: edges are queued in order, lost only when the
\* FIFO is full, counted once each and in order.
THEOREM ImplementsCounter == Spec => Counter!SafeSpec
<1>1. Init => Counter!Init
  BY DEF Init, Counter!Init, Phase
<1>2. TypeOK /\ IInv /\ [Next]_vars => [Counter!Next]_(Counter!vars)
  <2> SUFFICES ASSUME TypeOK, IInv, [Next]_vars, ~UNCHANGED Counter!vars
               PROVE Counter!Next
    OBVIOUS
  <2> USE DEF IInv, HeldFds, Counter!Next, Counter!vars, Phase, Descriptors
  <2>1. CASE OpenChip
    BY <2>1, ReturnStops DEF OpenChip, loopVars
  <2>2. CASE RequestLineEvent
    <3>1. CASE Return({"gpiochip_fd"})
      BY <2>2, <3>1, ReturnStops DEF RequestLineEvent
    <3>2. CASE pc' = "create" /\ UNCHANGED loopVars
      BY <2>2, <3>2 DEF RequestLineEvent, loopVars, Counter!Listen
    <3> QED BY <2>2, <3>1, <3>2 DEF RequestLineEvent
  <2>3. CASE CreateEpoll
    BY <2>3, ReturnStops DEF CreateEpoll, loopVars
  <2>4. CASE AddToEpoll
    BY <2>4, ReturnStops DEF AddToEpoll
  <2>5. CASE WaitReports \/ WaitTimesOut
    BY <2>5 DEF WaitReports, WaitTimesOut, loopVars
  <2>6. CASE ReadEvent
    BY <2>6 DEF ReadEvent, Counter!Count
  <2>7. CASE WaitFails \/ ReadFails
    BY <2>7, ReturnStops DEF WaitFails, ReadFails
  <2>8. CASE Edge
    BY <2>8 DEF Edge, Counter!Raise, TypeOK, Pcs, SetupPcs
  <2>9. CASE UNCHANGED vars
    BY <2>9 DEF vars
  <2> QED
    BY <2>1, <2>2, <2>3, <2>4, <2>5, <2>6, <2>7, <2>8, <2>9
       DEF Next, Setup, Loop, Failure
<1> QED BY <1>1, <1>2, TypeCorrect, IInvInvariant, PTL DEF Spec, SafeSpec, Counter!SafeSpec
=============================================================================

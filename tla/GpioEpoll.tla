----------------------------- MODULE GpioEpoll -----------------------------
(***************************************************************************)
(* linux_gpio_irq_epoll.c: a program that counts the rising edges of one   *)
(* GPIO line.  It requests the line's event descriptor, registers it with  *)
(* an epoll instance in edge-triggered mode and loops on epoll_wait with a *)
(* timeout.  The kernel queues the edges in a FIFO of bounded size.        *)
(*                                                                         *)
(* Two details decide whether an edge can be forgotten.  The loop reads    *)
(* ONE edge per wakeup although an edge-triggered epoll reports a          *)
(* descriptor once per arrival, not once per queued edge.  And it looks at *)
(* happened_event.events without looking at nfds, so that after a timeout  *)
(* the flag of an earlier wakeup is still there and one more read is made. *)
(***************************************************************************)
EXTENDS Naturals, Sequences

CONSTANTS
  MaxEdges,   \* bound on the edges of one behaviour
  Capacity    \* edges the kernel's FIFO holds (16 in the kernel)

ASSUME CapacityAssumption == Capacity \in Nat \ {0}
ASSUME MaxEdgesAssumption == MaxEdges \in Nat

VARIABLES
  pc,         \* the call the program makes next; "exited" after main returned
  fds,        \* descriptors the program holds open
  fifo,       \* edges queued on the line's event descriptor, oldest first
  ready,      \* the descriptor is on epoll's ready list
  happened,   \* EPOLLIN is set in the program's happened_event.events
  total_irq,  \* the program's counter
  event,      \* the edge read last, 0 before the first
  raised,     \* edges the line has raised since it was requested
  dropped     \* edges the kernel dropped because the FIFO was full

vars == <<pc, fds, fifo, ready, happened, total_irq, event, raised, dropped>>
loopVars == <<fifo, ready, happened, total_irq, event, raised, dropped>>

SetupPcs == {"open", "request", "create", "add"}
Pcs == SetupPcs \cup {"wait", "read", "exited"}
Descriptors == {"gpiochip_fd", "req.fd", "epoll_fd"}

TypeOK ==
  /\ pc \in Pcs
  /\ fds \subseteq Descriptors
  /\ fifo \in Seq(Nat) /\ Len(fifo) <= Capacity
  /\ ready \in BOOLEAN /\ happened \in BOOLEAN
  /\ total_irq \in Nat /\ event \in Nat /\ raised \in Nat /\ dropped \in Nat

Init ==
  /\ pc = "open"
  /\ fds = {}
  /\ fifo = <<>>
  /\ ready = FALSE
  /\ happened = FALSE
  /\ total_irq = 0 /\ event = 0 /\ raised = 0 /\ dropped = 0

\* Mutant: an error branch that forgets the epoll descriptor.
ReturnLeaksEpoll(closed) ==
  /\ pc' = "exited"
  /\ fds' = fds \ (closed \ {"epoll_fd"})
  /\ fifo' = <<>> /\ ready' = FALSE
  /\ UNCHANGED <<happened, total_irq, event, raised, dropped>>

\* An error branch: the descriptors it closes, then return -1.  Closing the
\* line's descriptor discards the edges still queued on it.
Return(closed) ==
  /\ pc' = "exited"
  /\ fds' = fds \ closed
  /\ fifo' = IF "req.fd" \in closed THEN <<>> ELSE fifo
  /\ ready' = FALSE
  /\ UNCHANGED <<happened, total_irq, event, raised, dropped>>

(***************************************************************************)
(* The calls of main before its loop; each may fail.                       *)
(***************************************************************************)
OpenChip ==
  /\ pc = "open"
  /\ \/ pc' = "request" /\ fds' = {"gpiochip_fd"} /\ UNCHANGED loopVars
     \/ Return({})

RequestLineEvent ==
  /\ pc = "request"
  /\ \/ pc' = "create" /\ fds' = fds \cup {"req.fd"} /\ UNCHANGED loopVars
     \/ Return({"gpiochip_fd"})

CreateEpoll ==
  /\ pc = "create"
  /\ \/ pc' = "add" /\ fds' = fds \cup {"epoll_fd"} /\ UNCHANGED loopVars
     \/ Return({"req.fd", "gpiochip_fd"})

\* EPOLL_CTL_ADD polls the descriptor once: edges queued before it make the
\* descriptor ready.
AddToEpoll ==
  /\ pc = "add"
  /\ \/ /\ pc' = "wait"
        /\ ready' = (fifo # <<>>)
        /\ UNCHANGED <<fds, fifo, happened, total_irq, event, raised, dropped>>
     \/ Return({"req.fd", "gpiochip_fd", "epoll_fd"})

(***************************************************************************)
(* The loop.  epoll_wait reports the descriptor if it is on the ready list *)
(* and still readable, and takes it off the list; a ready descriptor whose *)
(* FIFO was drained meanwhile is taken off silently.                       *)
(***************************************************************************)
WaitReports ==
  /\ pc = "wait" /\ ready
  /\ ready' = FALSE
  /\ IF fifo # <<>> THEN happened' = TRUE /\ pc' = "read"
                    ELSE UNCHANGED <<happened, pc>>
  /\ UNCHANGED <<fds, fifo, total_irq, event, raised, dropped>>

\* Mutant: happened_event is cleared before each epoll_wait.
WaitTimesOutCleared ==
  /\ pc = "wait" /\ ~ready
  /\ happened' = FALSE
  /\ UNCHANGED <<pc, fds, fifo, ready, total_irq, event, raised, dropped>>

\* Mutant: the loop handles an event only if nfds > 0.
WaitTimesOutIgnored ==
  /\ pc = "wait" /\ ~ready
  /\ UNCHANGED vars

\* nfds = 0: happened_event keeps what an earlier wakeup wrote.
WaitTimesOut ==
  /\ pc = "wait" /\ ~ready
  /\ pc' = IF happened THEN "read" ELSE "wait"
  /\ UNCHANGED <<fds, loopVars>>

\* Mutant: nfds is added to the count, and its -1 is not tested.
WaitFailsCounted ==
  /\ pc = "wait"
  /\ total_irq' = total_irq - 1
  /\ UNCHANGED <<pc, fds, fifo, ready, happened, event, raised, dropped>>

WaitFails ==
  /\ pc = "wait"
  /\ Return({"req.fd", "gpiochip_fd", "epoll_fd"})

\* Mutant: one read takes everything that is queued and counts one edge.
ReadEventDrains ==
  /\ pc = "read" /\ fifo # <<>>
  /\ event' = Head(fifo) /\ fifo' = <<>>
  /\ total_irq' = total_irq + 1
  /\ pc' = "wait"
  /\ UNCHANGED <<fds, ready, happened, raised, dropped>>

\* The line's descriptor is blocking: read waits until an edge is queued.
ReadEvent ==
  /\ pc = "read" /\ fifo # <<>>
  /\ event' = Head(fifo)
  /\ fifo' = Tail(fifo)
  /\ total_irq' = total_irq + 1
  /\ pc' = "wait"
  /\ UNCHANGED <<fds, ready, happened, raised, dropped>>

ReadFails ==
  /\ pc = "read"
  /\ Return({"req.fd", "gpiochip_fd", "epoll_fd"})

(***************************************************************************)
(* The kernel's interrupt thread: queue the edge and wake the descriptor's *)
(* waiters, or drop the edge without waking anybody.                       *)
(***************************************************************************)
Edge ==
  /\ "req.fd" \in fds
  /\ raised < MaxEdges
  /\ raised' = raised + 1
  /\ IF Len(fifo) < Capacity
       THEN /\ fifo' = Append(fifo, raised')
            /\ ready' = (pc \in {"wait", "read"})
            /\ UNCHANGED dropped
       ELSE /\ dropped' = dropped + 1
            /\ UNCHANGED <<fifo, ready>>
  /\ UNCHANGED <<pc, fds, happened, total_irq, event>>

Setup == OpenChip \/ RequestLineEvent \/ CreateEpoll \/ AddToEpoll
Loop == WaitReports \/ WaitTimesOut \/ ReadEvent
Failure == WaitFails \/ ReadFails

Next == Setup \/ Loop \/ Failure \/ Edge

SafeSpec == Init /\ [][Next]_vars

\* The scheduler keeps running the program's one thread: its calls return,
\* epoll_wait's timer expires and a blocked read is woken by a queued edge.
Spec == SafeSpec /\ WF_vars(Setup \/ Loop)

-----------------------------------------------------------------------------
(***************************************************************************)
(* Properties.                                                             *)
(***************************************************************************)

\* Every edge raised since the request is either counted, still queued or
\* was dropped because the FIFO was full: the loop neither loses an edge nor
\* counts one twice.
EdgesAccounted ==
  pc # "exited" => raised = total_irq + Len(fifo) + dropped

\* No lost wakeup: whenever the program is about to sleep in epoll_wait while
\* edges are queued, either epoll still has the descriptor on its ready list
\* or the stale EPOLLIN flag makes the next timeout read an edge.
NoLostWakeup ==
  pc = "wait" /\ fifo # <<>> => ready \/ happened

\* Whatever call fails, main returns with every descriptor closed.
NoDescriptorLeak ==
  pc = "exited" => fds = {}

(***************************************************************************)
(* The program implements the abstract edge counter.                       *)
(***************************************************************************)
Phase ==
  IF pc = "exited" THEN "stopped"
  ELSE IF pc \in {"open", "request"} THEN "idle" ELSE "listening"

Counter == INSTANCE EdgeCounter
             WITH phase <- Phase, pending <- fifo, last <- event, counted <- total_irq

CountsEdges == Counter!Spec
=============================================================================

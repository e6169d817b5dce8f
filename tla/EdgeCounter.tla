---------------------------- MODULE EdgeCounter ----------------------------
(***************************************************************************)
(* What a program that counts the edges of a GPIO line promises, however   *)
(* it waits for them: once it listens, every edge is queued in the order   *)
(* of its occurrence, an edge is lost only while the queue is full, each   *)
(* queued edge is counted exactly once and in order, and as long as the    *)
(* program runs no queued edge waits for ever.                             *)
(***************************************************************************)
EXTENDS Naturals, Sequences

CONSTANTS
  MaxEdges,   \* bound on the edges of one behaviour
  Capacity    \* edges the queue holds

VARIABLES
  phase,      \* "idle", "listening" or "stopped"
  raised,     \* number of edges so far: edge n is the n-th one
  pending,    \* queued edges, oldest first
  last,       \* the edge counted last, 0 before the first
  counted     \* number of edges counted

vars == <<phase, raised, pending, last, counted>>

Init ==
  /\ phase = "idle"
  /\ raised = 0
  /\ pending = <<>>
  /\ last = 0
  /\ counted = 0

Listen ==
  /\ phase = "idle"
  /\ phase' = "listening"
  /\ UNCHANGED <<raised, pending, last, counted>>

Raise ==
  /\ phase = "listening"
  /\ raised < MaxEdges
  /\ raised' = raised + 1
  /\ pending' = IF Len(pending) < Capacity THEN Append(pending, raised') ELSE pending
  /\ UNCHANGED <<phase, last, counted>>

Count ==
  /\ phase = "listening"
  /\ pending # <<>>
  /\ last' = Head(pending)
  /\ pending' = Tail(pending)
  /\ counted' = counted + 1
  /\ UNCHANGED <<phase, raised>>

Stop ==
  /\ phase # "stopped"
  /\ phase' = "stopped"
  /\ pending' = <<>>
  /\ UNCHANGED <<raised, last, counted>>

Next == Listen \/ Raise \/ Count \/ Stop

SafeSpec == Init /\ [][Next]_vars
Spec == SafeSpec /\ WF_vars(Count)
=============================================================================

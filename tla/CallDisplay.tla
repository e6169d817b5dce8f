---------------------------- MODULE CallDisplay ----------------------------
(***************************************************************************)
(* What the callers of an LCD driver rely on: once the display is reset,   *)
(* every call is executed by the display as one instruction or character,  *)
(* in the order of the calls, none of them twice and none of them split.   *)
(* Until then, and after the driver was interrupted, nothing is promised.  *)
(***************************************************************************)
EXTENDS HD44780, Sequences

CONSTANTS NoProgram, Calls(_)

VARIABLES
  program,   \* the running driver, or NoProgram
  done,      \* how many of its calls were executed
  state,     \* the display
  synced     \* the reset is complete

vars == <<program, done, state, synced>>

Init == program = NoProgram /\ done = 0 /\ ~synced

\* Between runs and during the reset the display may do anything; a run that
\* was interrupted is never resumed.
Unsynced ==
  /\ program = NoProgram \/ ~synced \/ program' = NoProgram
  /\ done' = 0
  /\ program' = NoProgram => ~synced'
  /\ synced => state' = state

ExecuteCall ==
  /\ synced /\ synced'
  /\ done < Len(Calls(program))
  /\ state' = Execute(state, Calls(program)[done + 1].rs, Calls(program)[done + 1].v)
  /\ done' = done + 1
  /\ UNCHANGED program

Next == Unsynced \/ ExecuteCall

Spec == Init /\ [][Next]_vars
=============================================================================

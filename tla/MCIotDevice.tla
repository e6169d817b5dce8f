---------------------------- MODULE MCIotDevice ----------------------------
(* Model-checking instances of IotDevice.  The one: no Command yet, the OFF  *)
(* and the ON button, a delay that does not fit an int and one that does not *)
(* fit temp, which begins with some digits or is full of them.  The other:   *)
(* delays of one and of two digits, in a temp that begins with none.         *)
EXTENDS IotDevice

Nines(n) == [i \in 1 .. n |-> 9]
MCCommands == {<<>>, <<0>>, <<1>>, Nines(10), Nines(17)}
MCStaleDigits == {3, 16}

MCDelays == {<<>>, <<1>>, <<5, 0>>}
MCNoStaleDigits == {0}
=============================================================================

---------------------------- MODULE MCShutdown ----------------------------
(***************************************************************************)
(* Shutdown with ON and one ordinary key in a matrix of one row, a timer   *)
(* that interrupts and one that only wakes, a queue with room for ON       *)
(* behind the other key, and a return stack of one slot, so that an        *)
(* interrupt can land on an empty and on a full stack.                     *)
(***************************************************************************)
EXTENDS Shutdown

MCAddr == {0, 1}

MCButton == {0, 44}

MCRow == {4}

MCRowOf == [b \in {0} |-> 4]

MCCol == [b \in {0} |-> "c0"]

MCRepeating == {}

MCT1Ctrl == {{INT}}

MCT2Ctrl == {{LOW, WKE}}
=============================================================================

------------------------------ MODULE MCClock ------------------------------
(***************************************************************************)
(* Clock with halves of six values: while time goes by, the calculator's   *)
(* time and then the phone's run over the lower word of 36.  The time is   *)
(* set on a little, or back by more than timer 2 can hold.                 *)
(***************************************************************************)
EXTENDS Clock

MCSetting == {-38, 5}
=============================================================================

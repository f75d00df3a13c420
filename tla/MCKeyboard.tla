---------------------------- MODULE MCKeyboard ----------------------------
(***************************************************************************)
(* Keyboard with two ordinary buttons and ON on a matrix of two rows.  The *)
(* ordinary buttons share a column, the first is one of the repeating      *)
(* keys, so a scan that drives both rows takes the second for it.          *)
(***************************************************************************)
EXTENDS Keyboard

MCButton == {0, 1, 44}

MCRow == {4, 6}

MCRowOf == [b \in {0, 1} |-> IF b = 0 THEN 4 ELSE 6]

MCCol == [b \in {0, 1} |-> "c0"]

MCRepeating == {<<4, "c0">>}
=============================================================================

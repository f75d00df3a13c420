---------------------------- MODULE MCControl ----------------------------
(***************************************************************************)
(* Control on a stack of three slots and four addresses, all instructions  *)
(* one address long.  Three slots let an interrupt land below, between and *)
(* above calls and be pushed out by them; four addresses tell the vector,  *)
(* the empty stack's 0 and two program addresses apart.                    *)
(***************************************************************************)
EXTENDS Control

MCAddr == 0 .. 3

MCInstrLen == {1}
=============================================================================

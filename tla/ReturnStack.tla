---------------------------- MODULE ReturnStack ----------------------------
(***************************************************************************)
(* The hardware return stack RSTK of the Saturn processor (actions.c).     *)
(*                                                                         *)
(* The C code keeps it in two fields of the global `saturn': the array     *)
(* rstk and the index rstkp of its top slot, -1 when it is empty.  A push  *)
(* on a full stack drops the oldest entry; a pop of an empty one yields    *)
(* address 0.  The operators here act on any record that has the two       *)
(* fields, so that the specifications can apply them to a whole processor. *)
(***************************************************************************)
EXTENDS Integers

CONSTANTS NR_RSTK,   \* slots of the stack: 8 in hp48.h
          Addr       \* the addresses a program may use (20 bits wide in the code)

ASSUME ReturnStackAssumption ==
    /\ NR_RSTK \in Nat \ {0}
    /\ Addr \subseteq Nat
    /\ 0 \in Addr

Slot == 0 .. NR_RSTK - 1

StackPointer == -1 .. NR_RSTK - 1

\* Mutant: the comparison of push_return_addr with > for >=.
FullTooLate(s) == s.rstkp + 1 > NR_RSTK

Full(s) == s.rstkp + 1 >= NR_RSTK

\* Mutant: the loop of push_return_addr starts at 2, so slot 0 is not shifted.
ShiftedFromTwo(rstk) ==
    [i \in Slot |-> IF i > 0 /\ i < NR_RSTK - 1 THEN rstk[i + 1] ELSE rstk[i]]

\* Every entry one slot down: the oldest is lost, the top slot keeps its value.
Shifted(rstk) ==
    [i \in Slot |-> IF i < NR_RSTK - 1 THEN rstk[i + 1] ELSE rstk[i]]

push_return_addr(s, addr) ==
    LET top  == IF Full(s) THEN s.rstkp ELSE s.rstkp + 1
        base == IF Full(s) THEN Shifted(s.rstk) ELSE s.rstk
    IN  [s EXCEPT !.rstkp = top, !.rstk = [base EXCEPT ![top] = addr]]

\* Mutant: rstk[--rstkp] for rstk[rstkp--].
TopAfterDecrement(s) == IF s.rstkp < 1 THEN 0 ELSE s.rstk[s.rstkp - 1]

\* The value pop_return_addr returns ...
top_return_addr(s) == IF s.rstkp < 0 THEN 0 ELSE s.rstk[s.rstkp]

\* ... and what it leaves behind: the popped slot keeps its stale content.
pop_return_addr(s) ==
    [s EXCEPT !.rstkp = IF s.rstkp < 0 THEN s.rstkp ELSE s.rstkp - 1]
=============================================================================

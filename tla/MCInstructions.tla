--------------------------- MODULE MCInstructions ---------------------------
(***************************************************************************)
(* Instructions at both ends of the address space.  The registers hold     *)
(* numbers that carry through several nibbles, that differ in one, and     *)
(* that are no decimal numbers; P is in the address field, behind it, and  *)
(* 0; SB is set and is not.                                                *)
(***************************************************************************)
EXTENDS Instructions

MCStartPC == {4, 1048573}

MCOperands == {0, 9}

Times(k, m) == [i \in 0 .. 15 |-> (i * k + 3) % m]
All(x) == [i \in 0 .. 15 |-> x]
Pointing(a) == [i \in 0 .. 15 |-> IF i < 5 THEN (a \div 16 ^ i) % 16 ELSE 0]

Valuation(x, y, p, mode) ==
    [reg |-> [A |-> x, B |-> y, C |-> [y EXCEPT ![1] = (@ + 1) % mode], D |-> Times(7, mode),
              R0 |-> All(1), R1 |-> x, R2 |-> Times(5, mode), R3 |-> All(9), R4 |-> y,
              D0 |-> Pointing(1048574), D1 |-> Pointing(6)],
     P |-> p, CARRY |-> 0, SB |-> IF p = 4 THEN 1 ELSE 0, hexmode |-> mode,
     PSTAT |-> [i \in 0 .. 15 |-> IF i \in {0, 3, 14} THEN 1 ELSE 0], mem |-> <<>>]

MCSamples ==
    {Valuation(v[1], v[2], p, m) : p \in {0, 4, 15}, m \in {10, 16},
        v \in {<<All(9), All(0)>>, <<Times(3, 10), [Times(3, 10) EXCEPT ![2] = 1]>>}}
    \cup {Valuation(All(15), Times(11, 16), p, m) : p \in {0, 4, 15}, m \in {10, 16}}
=============================================================================

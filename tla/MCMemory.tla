------------------------------ MODULE MCMemory ------------------------------
(***************************************************************************)
(* Memory with the addresses the decoders ask for, one nobody asks for     *)
(* (or a chip ahead of those that are asked for there) where that tells    *)
(* something apart, and the boundaries of all the windows as probes.       *)
(***************************************************************************)
EXTENDS Memory

Elsewhere == Base(2)

Sizes(gx, i) ==
    IF i # SysRAM THEN {Size256K}
    ELSE {Size8K, Size16K, Size64K} \cup (IF gx THEN {Size256K} ELSE {})

BasesSX(i) == CASE i = 0 -> {IO, Elsewhere}
                [] i = 1 -> {Base(7), Base(15)}
                [] i \in {2, 3} -> {Base(8), Base(12)}
                [] OTHER -> {Elsewhere}

BasesGX(i) == CASE i = 0 -> {IO, Base(9), Base(12)}
                [] i = 1 -> {Base(4), Base(8), Base(12)}
                [] i = 2 -> {Bank7, Base(9)}
                [] i = 3 -> {Card7, Base(10), Base(12)}
                [] i = 4 -> {Card7, Base(11), Base(12)}
                [] OTHER -> {Elsewhere}

MCConf == [gx \in BOOLEAN |-> [i \in Controller |-> [j \in 0 .. 1 |->
              IF j = 1 THEN Sizes(gx, i) ELSE IF gx THEN BasesGX(i) ELSE BasesSX(i)]]]

MCPort1 == [gx \in BOOLEAN |-> Base(1)]

MCPort2 == [gx \in BOOLEAN |-> IF gx THEN Base(8) ELSE Base(4)]

MCProbe ==
    {IO - 1, IO, IO + 63, IO + 64, Base(6), Bank7 + 64, Bank7 + 127, Bank7 + 128,
     Base(9) + 64, Card7, Bank7 - 1, Bank7}
    \cup {Base(p) : p \in {4, 7, 8, 9, 10, 11, 12, 13, 15}}
    \cup {Base(p) - 1 : p \in {5, 8, 9, 10, 11, 12, 13, 16}}
    \cup UNION {{Base(p) + 2 * K4 - 1, Base(p) + 2 * K4, Base(p) + 4 * K4} : p \in {7, 8}}
=============================================================================

---------------------------- MODULE Instruction ----------------------------
(***************************************************************************)
(* The words in which Executor (emulate.c) and Disassembler (disasm.c) say *)
(* what an instruction does, and the readers of nibbles both use.  An      *)
(* instruction is a function `n' from 0 .. LastNibble: n[i] is what        *)
(* read_nibble(PC + i) returns.                                            *)
(***************************************************************************)
EXTENDS Integers, Sequences

LastNibble == 20
Nibble == 0 .. 15

P_FIELD == 0
B_FIELD == 6
W_FIELD == 7
A_FIELD == 15
IN_FIELD == 16
OUT_FIELD == 17
OUTS_FIELD == 18

None == "none"        \* no register, no text
NoField == -1
NoAddress == -1

(***************************************************************************)
(* An operation: what is done (`kind'), to which register, from which,     *)
(* within which field, with which small number.  "sub" takes `from' away   *)
(* from `to', "rsub" takes `to' away from `from'.                          *)
(***************************************************************************)
Op(kind, to, from, field, n) ==
    [kind |-> kind, to |-> to, from |-> from, field |-> field, n |-> n]

Named(kind) == Op(kind, None, None, NoField, 0)
One(kind, reg, field) == Op(kind, reg, None, field, 0)
Two(kind, pair, field) == Op(kind, pair[1], pair[2], field, 0)

Nothing == Named(None)

Reg(x) == <<"A", "B", "C", "D">>[(x % 4) + 1]

Address(a) == a % 1048576      \* 20 bits

\* The number in the `len' nibbles from i, the lowest first.
read_nibbles(n, i, len) ==
    n[i] + 16 * n[i + 1]
         + (IF len > 2 THEN 256 * n[i + 2] ELSE 0)
         + (IF len > 3 THEN 4096 * n[i + 3] ELSE 0)
         + (IF len > 4 THEN 65536 * n[i + 4] ELSE 0)

\* A displacement of `len' nibbles, with its sign.
Signed(d, len) == IF d >= 8 * 16 ^ (len - 1) THEN d - 16 ^ len ELSE d
=============================================================================

------------------------------ MODULE Executor ------------------------------
(***************************************************************************)
(* The instruction decoder of the emulator (emulate.c): step_instruction   *)
(* and the functions it is split into.  For the nibbles at PC it says what *)
(* is done (`op'), how many nibbles are looked at (`reads'), by how many   *)
(* PC advances if it is not set otherwise (`next'), how control goes on:   *)
(*   "on"       behind the instruction;                                    *)
(*   "test"     to `target' if the test (or the carry) says so, or, with   *)
(*              NoAddress, to where the return stack says; else behind;    *)
(*   "jump"     to `target';    "call"  the same, with `back' pushed;      *)
(*   "return"   to where the return stack says;                            *)
(*   "dynamic"  to where a register says;                                  *)
(*   "illegal"  step_instruction returns 1, PC is left alone.              *)
(***************************************************************************)
EXTENDS Instruction

Decoded(op, reads, next, flow, target, back) ==
    [op |-> op, reads |-> reads, next |-> next,
     flow |-> flow, target |-> target, back |-> back]

On(len, op) == Decoded(op, len, len, "on", NoAddress, NoAddress)
Illegal(reads) == Decoded(Nothing, reads, 0, "illegal", NoAddress, NoAddress)
Return(op) == Decoded(op, 2, 0, "return", NoAddress, NoAddress)
Jump(len, op, target) == Decoded(op, len, 0, "jump", target, NoAddress)
Dynamic(len, op) == Decoded(op, len, 0, "dynamic", NoAddress, NoAddress)

\* Mutant: a taken branch counts from behind its displacement.
TestFromBehind(pc, n, at, op) ==
    LET d == read_nibbles(n, at, 2)
    IN  Decoded(op, at + 2, at + 2, "test",
                IF d = 0 THEN NoAddress ELSE Address(pc + at + 2 + Signed(d, 2)), NoAddress)

\* A test with a displacement behind it, from nibble `at' on.
Test(pc, n, at, op) ==
    LET d == read_nibbles(n, at, 2)
    IN  Decoded(op, at + 2, at + 2, "test",
                IF d = 0 THEN NoAddress ELSE Address(pc + at + Signed(d, 2)), NoAddress)

(***************************************************************************)
(* Tables of operations on A, B, C and D, sixteen to a table.              *)
(***************************************************************************)
Pair(x) == << <<"A", "B">>, <<"B", "C">>, <<"C", "A">>, <<"D", "C">>,
              <<"B", "A">>, <<"C", "B">>, <<"A", "C">>, <<"C", "D">> >>[x + 1]

add_table(x, f) ==
    CASE x \in 0 .. 3  -> Two("add", Pair(x), f)
      [] x \in 4 .. 7  -> Op("add", Reg(x), Reg(x), f, 0)
      [] x \in 8 .. 11 -> Two("add", Pair(x - 4), f)
      [] OTHER         -> One("dec", Reg(x), f)

move_table(x, f) ==
    CASE x \in 0 .. 3  -> One("zero", Reg(x), f)
      [] x \in 4 .. 11 -> Two("copy", Pair(x - 4), f)
      [] OTHER         -> Two("exchange", << <<"A", "B">>, <<"B", "C">>,
                                      <<"A", "C">>, <<"C", "D">> >>[x - 11], f)

\* Mutant: the reverse subtractions take the same way round as the others.
SubTableOneWay(x, f) ==
    CASE x \in 0 .. 3  -> Two("sub", Pair(x), f)
      [] x \in 4 .. 7  -> One("inc", Reg(x), f)
      [] x \in 8 .. 11 -> Two("sub", Pair(x - 4), f)
      [] OTHER         -> Two("sub", Pair(x - 12), f)

sub_table(x, f) ==
    CASE x \in 0 .. 3  -> Two("sub", Pair(x), f)
      [] x \in 4 .. 7  -> One("inc", Reg(x), f)
      [] x \in 8 .. 11 -> Two("sub", Pair(x - 4), f)
      [] OTHER         -> Two("rsub", Pair(x - 12), f)

shift_table(x, f) ==
    One(<<"sl", "sr", "neg", "not">>[(x \div 4) + 1], Reg(x), f)

equal_table(x, f) ==
    LET kind == IF (x \div 4) % 2 = 0 THEN "=" ELSE "#"
        pair == << <<"A", "B">>, <<"B", "C">>, <<"A", "C">>, <<"C", "D">> >>[(x % 4) + 1]
    IN  IF x < 8 THEN Two(kind, pair, f) ELSE Op(kind, Reg(x), "0", f, 0)

order_table(x, f) == Two(<<">", "<", ">=", "<=">>[(x \div 4) + 1], Pair(x % 4), f)

logic_table(x, f) == Two(IF x < 8 THEN "and" ELSE "or", Pair(x % 8), f)

(***************************************************************************)
(* Groups 80 and 808: the bus, interrupts, single bits, P and C.           *)
(***************************************************************************)
decode_808(pc, n) ==
    CASE n[3] = 0 -> On(4, Named("INTON"))
      [] n[3] = 1 -> On(5, Named("RSI"))
      [] n[3] = 2 -> On(6 + n[4], Op("load", "A", None, NoField, n[4] + 1))
      [] n[3] = 3 -> On(4, Named("BUSCB"))
      [] n[3] \in {4, 5, 8, 9} ->
            On(5, Op(IF n[3] % 2 = 0 THEN "bit=0" ELSE "bit=1",
                     IF n[3] < 8 THEN "A" ELSE "C", None, NoField, n[4]))
      [] n[3] \in {6, 7, 10, 11} ->
            Test(pc, n, 5, Op(IF n[3] \in {6, 10} THEN "?bit=0" ELSE "?bit=1",
                              IF n[3] < 8 THEN "A" ELSE "C", None, NoField, n[4]))
      [] n[3] = 12 -> Dynamic(4, Named("PC=@A"))
      [] n[3] = 13 -> On(4, Named("BUSCD"))
      [] n[3] = 14 -> Dynamic(4, Named("PC=@C"))
      [] n[3] = 15 -> On(4, Named("INTOFF"))

decode_80_bus(n) ==
    On(3, Named(<<"OUT=CS", "OUT=C", "A=IN", "C=IN",
                  "UNCNFG", "CONFIG", "C=ID", "SHUTDN">>[n[2] + 1]))

decode_80_p(n) ==
    CASE n[2] = 9  -> On(3, Named("C+P+1"))
      [] n[2] = 10 -> On(3, Named("RESET"))
      [] n[2] = 11 -> On(3, Named("BUSCC"))
      [] n[2] = 12 -> On(4, Op("copy", "C", "P", NoField, n[3]))
      [] n[2] = 13 -> On(4, Op("copy", "P", "C", NoField, n[3]))
      [] n[2] = 14 -> On(3, Named("SREQ?"))
      [] n[2] = 15 -> On(4, Op("exchange", "C", "P", NoField, n[3]))

decode_group_80(pc, n) ==
    CASE n[2] < 8 -> decode_80_bus(n)
      [] n[2] = 8 -> decode_808(pc, n)
      [] OTHER    -> decode_80_p(n)

(***************************************************************************)
(* Group 1: scratch registers, pointers, memory.                           *)
(***************************************************************************)
\* R0 .. R4; 5, 6 and 7 are R1, R2 and R3 again.
Scratch(x) == <<"R0", "R1", "R2", "R3", "R4", "R1", "R2", "R3">>[(x % 8) + 1]
AorC(high) == IF high THEN "C" ELSE "A"

save_scratch(x, f) == Op("copy", Scratch(x), AorC(x >= 8), f, 0)
recall_scratch(x, f) == Op("copy", AorC(x >= 8), Scratch(x), f, 0)
exchange_scratch(x, f) == Op("exchange", AorC(x >= 8), Scratch(x), f, 0)

Pointer(x) == IF x % 2 = 0 THEN "D0" ELSE "D1"

\* 13x: A or C against D0 or D1, five nibbles or (8 and up) four.
decode_13(n) ==
    LET f == IF n[2] < 8 THEN A_FIELD ELSE IN_FIELD
        r == AorC((n[2] \div 4) % 2 = 1)
    IN  On(3, IF (n[2] \div 2) % 2 = 0 THEN Op("copy", Pointer(n[2]), r, f, 0)
                                       ELSE Op("exchange", r, Pointer(n[2]), f, 0))

\* Memory at D0 or D1: 0, 1 store A; 2, 3 recall A; 4 .. 7 the same with C.
Transfer(x, f, count) ==
    LET r == AorC((x \div 4) % 2 = 1)
        dat == IF x % 2 = 0 THEN "DAT0" ELSE "DAT1"
    IN  IF (x \div 2) % 2 = 0 THEN Op("copy", dat, r, f, count)
                              ELSE Op("copy", r, dat, f, count)

decode_14(n) == On(3, Transfer(n[2], IF n[2] < 8 THEN A_FIELD ELSE B_FIELD, 0))

decode_15(n) == On(4, IF n[2] >= 8 THEN Transfer(n[2], NoField, n[3] + 1)
                                   ELSE Transfer(n[2], n[3], 0))

decode_pointer(n) ==
    LET d == IF n[1] \in {6, 8, 9, 10, 11} THEN "D0" ELSE "D1"
        sum == IF n[1] \in {6, 7} THEN "addcon" ELSE "subcon"
    IN  CASE n[1] \in {6, 7, 8, 12} -> On(3, Op(sum, d, None, NoField, n[2] + 1))
          [] n[1] \in {9, 13}       -> On(4, Op("load", d, None, NoField, 2))
          [] n[1] \in {10, 14}      -> On(6, Op("load", d, None, NoField, 4))
          [] n[1] \in {11, 15}      -> On(7, Op("load", d, None, NoField, 5))

decode_group_1(n) ==
    CASE n[1] = 0 -> On(3, save_scratch(n[2], W_FIELD))
      [] n[1] = 1 -> On(3, recall_scratch(n[2], W_FIELD))
      [] n[1] = 2 -> On(3, exchange_scratch(n[2], W_FIELD))
      [] n[1] = 3 -> decode_13(n)
      [] n[1] = 4 -> decode_14(n)
      [] n[1] = 5 -> decode_15(n)
      [] OTHER    -> decode_pointer(n)

(***************************************************************************)
(* Groups 8 to F: arithmetic, tests, long jumps and calls.                 *)
(***************************************************************************)
decode_81_circular(n) == On(3, One(IF n[2] < 4 THEN "slc" ELSE "src", Reg(n[2]), W_FIELD))

decode_818(n) ==
    On(6, Op(IF n[4] < 8 THEN "addcon" ELSE "subcon", Reg(n[4]), None, n[3], n[5] + 1))

decode_819(n) == On(5, One("srb", Reg(n[4]), n[3]))

decode_81a_copy(n) ==
    On(6, IF n[4] = 0 THEN save_scratch(n[5], n[3]) ELSE recall_scratch(n[5], n[3]))

decode_81a(n) ==
    CASE n[4] < 2 -> decode_81a_copy(n)
      [] n[4] = 2 -> On(6, exchange_scratch(n[5], n[3]))
      [] OTHER    -> Illegal(6)

decode_81b(n) ==
    CASE n[3] = 2 -> Dynamic(4, Named("PC=A"))
      [] n[3] = 3 -> Dynamic(4, Named("PC=C"))
      [] n[3] = 4 -> On(4, Named("A=PC"))
      [] n[3] = 5 -> On(4, Named("C=PC"))
      [] n[3] = 6 -> Dynamic(4, Named("APCEX"))
      [] n[3] = 7 -> Dynamic(4, Named("CPCEX"))
      [] OTHER    -> Illegal(4)

decode_81_srb(n) == On(3, One("srb", Reg(n[2]), W_FIELD))

decode_81(n) ==
    CASE n[2] < 8  -> decode_81_circular(n)
      [] n[2] = 8  -> decode_818(n)
      [] n[2] = 9  -> decode_819(n)
      [] n[2] = 10 -> decode_81a(n)
      [] n[2] = 11 -> decode_81b(n)
      [] OTHER     -> decode_81_srb(n)

\* Hardware status bits, program status bits, P.
decode_82(n) == On(3, Op("HST=0", None, None, NoField, n[2]))
decode_83(pc, n) == Test(pc, n, 3, Op("?HST=0", None, None, NoField, n[2]))
decode_84_85(n) == On(3, Op(IF n[1] = 4 THEN "ST=0" ELSE "ST=1", None, None, NoField, n[2]))
decode_86_87(pc, n) ==
    Test(pc, n, 3, Op(IF n[1] = 6 THEN "?ST=0" ELSE "?ST=1", None, None, NoField, n[2]))
decode_88_89(pc, n) ==
    Test(pc, n, 3, Op(IF n[1] = 8 THEN "?P#" ELSE "?P=", None, None, NoField, n[2]))

decode_8a(pc, n) == Test(pc, n, 3, equal_table(n[2], A_FIELD))
decode_8b(pc, n) == Test(pc, n, 3, order_table(n[2], A_FIELD))

decode_long(pc, n) ==
    LET d == Signed(read_nibbles(n, 2, 4), 4)
        a == read_nibbles(n, 2, 5)
    IN  CASE n[1] = 12 -> Jump(6, Named("GOLONG"), Address(pc + 2 + d))
          [] n[1] = 13 -> Jump(7, Named("GOVLNG"), a)
          [] n[1] = 14 -> Decoded(Named("GOSUBL"), 6, 0, "call", Address(pc + 6 + d), pc + 6)
          [] n[1] = 15 -> Decoded(Named("GOSBVL"), 7, 0, "call", a, pc + 7)

decode_8(pc, n) ==
    CASE n[1] = 0 -> decode_group_80(pc, n)
      [] n[1] = 1 -> decode_81(n)
      [] n[1] = 2 -> decode_82(n)
      [] n[1] = 3 -> decode_83(pc, n)
      [] n[1] \in {4, 5} -> decode_84_85(n)
      [] n[1] \in {6, 7} -> decode_86_87(pc, n)
      [] n[1] \in {8, 9} -> decode_88_89(pc, n)
      [] n[1] = 10 -> decode_8a(pc, n)
      [] n[1] = 11 -> decode_8b(pc, n)
      [] OTHER -> decode_long(pc, n)

decode_9(pc, n) ==
    Test(pc, n, 3, IF n[1] < 8 THEN equal_table(n[2], n[1]) ELSE order_table(n[2], n[1] - 8))
decode_a(n) == On(3, IF n[1] < 8 THEN add_table(n[2], n[1]) ELSE move_table(n[2], n[1] - 8))
decode_b(n) == On(3, IF n[1] < 8 THEN sub_table(n[2], n[1]) ELSE shift_table(n[2], n[1] - 8))
decode_c(n) == On(2, add_table(n[1], A_FIELD))
decode_d(n) == On(2, move_table(n[1], A_FIELD))
decode_e(n) == On(2, sub_table(n[1], A_FIELD))
decode_f(n) == On(2, shift_table(n[1], A_FIELD))

(***************************************************************************)
(* Group 0, constants, short jumps and calls.                              *)
(***************************************************************************)
decode_0(n) ==
    CASE n[1] \in 0 .. 3  -> Return(Named(<<"RTNSXM", "RTN", "RTNSC", "RTNCC">>[n[1] + 1]))
      [] n[1] \in 4 .. 13 -> On(2, Named(<<"SETHEX", "SETDEC", "RSTK=C", "C=RSTK", "CLRST",
                                           "C=ST", "ST=C", "CSTEX", "P=P+1", "P=P-1">>[n[1] - 3]))
      [] n[1] = 15 -> Return(Named("RTI"))

decode_0e(n) == On(4, logic_table(n[3], n[2]))

load_p(n) == On(2, Op("load", "P", None, NoField, n[1]))

\* Mutant: the nibble that counts the constant's is left out.
LoadCShort(n) == On(2 + n[1], Op("load", "C", None, NoField, n[1] + 1))

load_c(n) == On(3 + n[1], Op("load", "C", None, NoField, n[1] + 1))

decode_4_5(pc, n) ==
    IF n[0] = 4 /\ read_nibbles(n, 1, 2) = 2
    THEN On(3, Named("NOP3"))
    ELSE Test(pc, n, 1, Named(IF n[0] = 4 THEN "GOC" ELSE "GONC"))

decode_6(pc, n) ==
    LET d == read_nibbles(n, 1, 3)
    IN  CASE d = 3 -> On(4, Named("NOP4"))
          [] d = 4 -> IF n[4] = 0 THEN On(5, Named("NOP5"))
                      ELSE Decoded(Nothing, 5, 5, "illegal", NoAddress, NoAddress)  \* a trap
          [] OTHER -> Jump(4, Named("GOTO"), Address(pc + 1 + Signed(d, 3)))

\* Mutant: a call returns to its displacement.
Decode7Early(pc, n) ==
    Decoded(Named("GOSUB"), 4, 0, "call",
            Address(pc + 4 + Signed(read_nibbles(n, 1, 3), 3)), pc + 1)

decode_7(pc, n) ==
    Decoded(Named("GOSUB"), 4, 0, "call",
            Address(pc + 4 + Signed(read_nibbles(n, 1, 3), 3)), pc + 4)

step_instruction(pc, n) ==
    CASE n[0] = 0 -> IF n[1] = 14 THEN decode_0e(n) ELSE decode_0(n)
      [] n[0] = 1 -> decode_group_1(n)
      [] n[0] = 2 -> load_p(n)
      [] n[0] = 3 -> load_c(n)
      [] n[0] \in {4, 5} -> decode_4_5(pc, n)
      [] n[0] = 6 -> decode_6(pc, n)
      [] n[0] = 7 -> decode_7(pc, n)
      [] n[0] = 8 -> decode_8(pc, n)
      [] n[0] = 9 -> decode_9(pc, n)
      [] n[0] = 10 -> decode_a(n)
      [] n[0] = 11 -> decode_b(n)
      [] n[0] = 12 -> decode_c(n)
      [] n[0] = 13 -> decode_d(n)
      [] n[0] = 14 -> decode_e(n)
      [] n[0] = 15 -> decode_f(n)
=============================================================================

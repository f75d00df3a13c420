---------------------------- MODULE Disassembler ----------------------------
(***************************************************************************)
(* The disassembler (disasm.c), which decodes the same nibbles a second    *)
(* time, with tables of its own: what the text it writes says is done      *)
(* (`op', Nothing when it writes none), how far it moves on (`len'), and   *)
(* the address it shows as a branch's (`target'; NoAddress for RTNYES,     *)
(* RTNC and RTNNC).  `mode' is disassembler_mode: "class", the default, or *)
(* "HP".  append_addr writes the low 20 bits of an address.                *)
(***************************************************************************)
EXTENDS Instruction

Shown(len, op) == [op |-> op, len |-> len, target |-> NoAddress]
ShownTo(len, op, target) == [op |-> op, len |-> len, target |-> Address(target)]

\* append_r_addr: `disp' of `len' nibbles, counted from `base'.
Relative(base, disp, len) == base + Signed(disp, len)

\* A test whose displacement starts at nibble `at'.
Branch(pc, n, at, op) ==
    LET disp == read_nibbles(n, at, 2)
    IN  IF disp = 0 THEN Shown(at + 2, op)
                    ELSE ShownTo(at + 2, op, Relative(pc + at, disp, 2))

RegAC(c) == IF c THEN "C" ELSE "A"

(***************************************************************************)
(* disasm_1                                                                *)
(***************************************************************************)
\* The register is numbered by three bits of the nibble, and whether it is A or C is asked
\* of what they leave, so that it is A.
RNumber(x) == <<"R0", "R1", "R2", "R3", "R4", "R1", "R2", "R3">>[(x % 8) + 1]

disasm_1_moves(n) ==
    Shown(3, IF n[1] = 0 THEN Op("copy", RNumber(n[2]), "A", W_FIELD, 0)
                         ELSE Op("copy", "A", RNumber(n[2]), W_FIELD, 0))

disasm_1_exchanges(n) == Shown(3, Op("exchange", "A", RNumber(n[2]), W_FIELD, 0))

DigitD(x) == IF x % 2 = 1 THEN "D1" ELSE "D0"

disasm_1_pointers(n) ==
    LET c == RegAC((n[2] \div 4) % 2 = 1)
        f == IF n[2] < 8 THEN A_FIELD ELSE IN_FIELD
    IN  Shown(3, IF (n[2] \div 2) % 2 = 1 THEN Op("exchange", c, DigitD(n[2]), f, 0)
                                          ELSE Op("copy", DigitD(n[2]), c, f, 0))

op_str_1(x) == << <<"DAT0", "A">>, <<"DAT1", "A">>, <<"A", "DAT0">>, <<"A", "DAT1">>,
                  <<"DAT0", "C">>, <<"DAT1", "C">>, <<"C", "DAT0">>, <<"C", "DAT1">> >>[x + 1]

disasm_1_memory(n) ==
    LET p == op_str_1(n[2] % 8)
    IN  CASE n[1] = 4              -> Shown(3, Two("copy", p, IF n[2] < 8 THEN A_FIELD ELSE B_FIELD))
          [] n[1] = 5 /\ n[2] < 8 -> Shown(4, Two("copy", p, n[3]))
          [] OTHER                 -> Shown(4, Op("copy", p[1], p[2], NoField, n[3] + 1))

\* `*addr++' reads the nibble and leaves the address where it was.
disasm_1_add(n) ==
    Shown(2, Op(IF n[1] < 8 THEN "addcon" ELSE "subcon",
                IF n[1] \in {6, 8} THEN "D0" ELSE "D1", None, NoField, n[2] + 1))

disasm_1_load(n) ==
    LET k == <<2, 4, 5>>[n[1] % 4]
    IN  Shown(2 + k, Op("load", IF n[1] < 13 THEN "D0" ELSE "D1", None, NoField, k))

disasm_1(n) ==
    CASE n[1] \in {0, 1} -> disasm_1_moves(n)
      [] n[1] = 2 -> disasm_1_exchanges(n)
      [] n[1] = 3 -> disasm_1_pointers(n)
      [] n[1] \in {4, 5} -> disasm_1_memory(n)
      [] n[1] \in {6, 7, 8, 12} -> disasm_1_add(n)
      [] OTHER -> disasm_1_load(n)

(***************************************************************************)
(* disasm_8.  Its p is null when a table has no text; disassemble stores   *)
(* its closing zero through what is returned.                              *)
(***************************************************************************)
Dead == Shown(0, Named("null-store"))

in_str_80(x) == <<"OUT=CS", "OUT=C", "A=IN", "C=IN", "UNCNFG", "CONFIG", "C=ID", "SHUTDN",
                  None, "C+P+1", "RESET", "BUSCC", None, None, "SREQ?", None>>[x + 1]

in_str_808(x) == <<"INTON", None, None, "BUSCB", None, None, None, None,
                   None, None, None, None, "PC=@A", "BUSCD", "PC=@C", "INTOFF">>[x + 1]

disasm_808(pc, n) ==
    LET c == RegAC(n[3] >= 8)
        one == n[3] % 2 = 1
    IN  CASE in_str_808(n[3]) # None -> Shown(4, Named(in_str_808(n[3])))
          [] n[3] = 1 -> IF n[4] = 0 THEN Shown(5, Named("RSI")) ELSE Dead
          [] n[3] = 2 -> Shown(6 + n[4], Op("load", "A", None, NoField, n[4] + 1))
          [] n[3] \in {4, 5, 8, 9} ->
                Shown(5, Op(IF one THEN "bit=1" ELSE "bit=0", c, None, NoField, n[4]))
          [] n[3] \in {6, 7, 10, 11} ->
                Branch(pc, n, 5, Op(IF one THEN "?bit=1" ELSE "?bit=0", c, None, NoField, n[4]))

\* In class mnemonics, which name the source first, 80C and 80D are the wrong way round.
disasm_80_p(n, mode) ==
    IF n[2] = 15 THEN Shown(4, Op("exchange", "C", "P", NoField, n[3]))
    ELSE Shown(4, IF (n[2] = 12) = (mode = "HP") THEN Op("copy", "C", "P", NoField, n[3])
                                                 ELSE Op("copy", "P", "C", NoField, n[3]))

disasm_80(pc, n, mode) ==
    CASE in_str_80(n[2]) # None -> Shown(3, Named(in_str_80(n[2])))
      [] n[2] = 8 -> disasm_808(pc, n)
      [] OTHER    -> disasm_80_p(n, mode)

op_str_81(x) == <<"A", "B", "C", "D">>[(x % 4) + 1]

disasm_81_shift(n) ==
    CASE n[2] \in 0 .. 3 -> Shown(3, One("slc", op_str_81(n[2]), W_FIELD))
      [] n[2] \in 4 .. 7 -> Shown(3, One("src", op_str_81(n[2]), W_FIELD))
      [] n[2] = 9        -> Shown(4, One("srb", op_str_81(n[2]), n[3]))      \* n is 9 here
      [] OTHER           -> Shown(3, One("srb", op_str_81(n[2]), W_FIELD))

disasm_818(n) ==
    Shown(6, Op(IF n[4] < 8 THEN "addcon" ELSE "subcon", op_str_81(n[4]), None, n[3], n[5] + 1))

disasm_81a(n) ==
    LET r == <<"R0", "R1", "R2", "R3", "R4">>[(n[5] % 8) + 1]
        c == RegAC(n[5] >= 8)
        named == n[5] % 8 < 5
    IN  CASE n[4] > 2            -> Shown(5, Nothing)
          [] n[4] < 3 /\ ~named -> Shown(6, Nothing)
          [] n[4] = 0 /\ named  -> Shown(6, Op("copy", r, c, n[3], 0))
          [] n[4] = 1 /\ named  -> Shown(6, Op("copy", c, r, n[3], 0))
          [] n[4] = 2 /\ named  -> Shown(6, Op("exchange", c, r, n[3], 0))

disasm_81b(n) ==
    Shown(4, IF n[3] < 2 \/ n[3] > 7 THEN Nothing
             ELSE Named(<<"PC=A", "PC=C", "A=PC", "C=PC", "APCEX", "CPCEX">>[n[3] - 1]))

disasm_81(n) ==
    CASE n[2] = 8  -> disasm_818(n)
      [] n[2] = 10 -> disasm_81a(n)
      [] n[2] = 11 -> disasm_81b(n)
      [] OTHER     -> disasm_81_shift(n)

disasm_82(n) == Shown(3, Op("HST=0", None, None, NoField, n[2]))
disasm_83(pc, n) == Branch(pc, n, 3, Op("?HST=0", None, None, NoField, n[2]))
disasm_84_85(n) == Shown(3, Op(IF n[1] = 4 THEN "ST=0" ELSE "ST=1", None, None, NoField, n[2]))
disasm_86_87(pc, n) ==
    Branch(pc, n, 3, Op(IF n[1] = 6 THEN "?ST=0" ELSE "?ST=1", None, None, NoField, n[2]))
disasm_88_89(pc, n) ==
    Branch(pc, n, 3, Op(IF n[1] = 8 THEN "?P#" ELSE "?P=", None, None, NoField, n[2]))

disasm_8c_8e(pc, n) ==
    IF n[1] = 12
    THEN ShownTo(6, Named("GOLONG"), Relative(pc + 2, read_nibbles(n, 2, 4), 4))
    ELSE ShownTo(6, Named("GOSUBL"), Relative(pc + 2 + 4, read_nibbles(n, 2, 4), 4))

\* Both are written as GOSBVL, as the test for GOVLNG is `fn == 0xc'.
disasm_8d_8f(n) == ShownTo(7, Named("GOSBVL"), read_nibbles(n, 2, 5))

disasm_8(pc, n, mode) ==
    CASE n[1] = 0 -> disasm_80(pc, n, mode)
      [] n[1] = 1 -> disasm_81(n)
      [] n[1] = 2 -> disasm_82(n)
      [] n[1] = 3 -> disasm_83(pc, n)
      [] n[1] \in {4, 5} -> disasm_84_85(n)
      [] n[1] \in {6, 7} -> disasm_86_87(pc, n)
      [] n[1] \in {8, 9} -> disasm_88_89(pc, n)
      [] n[1] \in {12, 14} -> disasm_8c_8e(pc, n)
      [] n[1] \in {13, 15} -> disasm_8d_8f(n)

(***************************************************************************)
(* disassemble                                                             *)
(***************************************************************************)
opcode_0_tbl(x) == <<"RTNSXM", "RTN", "RTNSC", "RTNCC", "SETHEX", "SETDEC", "RSTK=C", "C=RSTK",
                     "CLRST", "C=ST", "ST=C", "CSTEX", "P=P+1", "P=P-1", None, "RTI">>[x + 1]

op_str_0(x) == << <<"A", "B">>, <<"B", "C">>, <<"C", "A">>, <<"D", "C">>,
                  <<"B", "A">>, <<"C", "B">>, <<"A", "C">>, <<"C", "D">> >>[x + 1]

disasm_0(n) ==
    IF n[1] # 14 THEN Shown(2, Named(opcode_0_tbl(n[1])))
    ELSE Shown(4, Two(IF n[3] < 8 THEN "and" ELSE "or", op_str_0(n[3] % 8), n[2]))

disasm_2(n) == Shown(2, Op("load", "P", None, NoField, n[1]))
disasm_3(n) == Shown(3 + n[1], Op("load", "C", None, NoField, n[1] + 1))

disasm_4_5(pc, n) ==
    IF read_nibbles(n, 1, 2) = 2 THEN Shown(3, Named("NOP3"))
    ELSE Branch(pc, n, 1, Named(IF n[0] = 4 THEN "GOC" ELSE "GONC"))

disasm_6(pc, n) ==
    LET disp == read_nibbles(n, 1, 3)
    IN  CASE disp = 3 -> Shown(4, Named("NOP4"))
          [] disp = 4 -> Shown(4, Named("NOP5"))
          [] OTHER    -> ShownTo(4, Named("GOTO"), Relative(pc + 1, disp, 3))

disasm_7(pc, n) == ShownTo(4, Named("GOSUB"), Relative(pc + 1 + 3, read_nibbles(n, 1, 3), 3))

op_str_9(x) == << <<"A", "B">>, <<"B", "C">>, <<"C", "A">>, <<"D", "C">>,
                  <<"A", "0">>, <<"B", "0">>, <<"C", "0">>, <<"D", "0">> >>[x + 1]
in_str_9(x) == <<"=", "#", "=", "#", ">", "<", ">=", "<=">>[x + 1]

\* Groups 9, 8A and 8B.
disasm_9(pc, n) ==
    LET c == IF n[0] = 8 THEN n[1] # 10 ELSE n[1] >= 8
        fn == IF n[0] = 8 THEN A_FIELD ELSE n[1] % 8
        kind == in_str_9((n[2] \div 4) + (IF c THEN 4 ELSE 0))
    IN  Branch(pc, n, 3, Two(kind, op_str_9((n[2] % 4) + (IF ~c /\ n[2] >= 8 THEN 4 ELSE 0)), fn))

op_str_af(x) == << <<"A", "B">>, <<"B", "C">>, <<"C", "A">>, <<"D", "C">>,
                   <<"A", "A">>, <<"B", "B">>, <<"C", "C">>, <<"D", "D">>,
                   <<"B", "A">>, <<"C", "B">>, <<"A", "C">>, <<"C", "D">>,
                   <<"A", "B">>, <<"B", "C">>, <<"C", "A">>, <<"D", "C">> >>[x + 1]
hp_reg_1_af(x) == <<"A", "B", "C", "D", "A", "B", "C", "D",
                    "B", "C", "A", "C", "A", "B", "A", "C">>[x + 1]
hp_reg_2_af(x) == <<"0", "0", "0", "0", "B", "C", "A", "C",
                    "A", "B", "C", "D", "B", "C", "C", "D">>[x + 1]
Letter(x) == <<"A", "B", "C", "D">>[(x % 4) + 1]

\* Groups A, C and D: x is the last nibble, c the upper half of the group.
disasm_add_move(x, c, fn, mode) ==
    LET pair == IF mode = "HP" THEN <<hp_reg_1_af(x), hp_reg_2_af(x)>>
                ELSE op_str_af(IF x < 8 THEN x - 4 ELSE x)
    IN  CASE ~c /\ x < 12 -> Two("add", op_str_af(x), fn)
          [] ~c /\ x >= 12 -> One("dec", Letter(x), fn)
          [] c /\ x < 4 -> One("zero", Letter(x), fn)
          [] c /\ x >= 12 -> Two("exchange", pair, fn)
          [] OTHER -> Two("copy", pair, fn)

\* Groups B, E and F.  With HP mnemonics "A=-A" comes out as "A=A-1".
disasm_sub_shift(x, c, fn, mode) ==
    CASE ~c /\ x >= 12 -> Two("rsub", op_str_af(x), fn)
      [] ~c /\ x \in 4 .. 7 -> One("inc", Letter(x - 4), fn)
      [] ~c /\ x \in (0 .. 3) \cup (8 .. 11) -> Two("sub", op_str_af(x), fn)
      [] c /\ x < 4 -> One("sl", Letter(x), fn)
      [] c /\ x \in 4 .. 7 -> One("sr", Letter(x), fn)
      [] c /\ x \in 8 .. 11 -> One(IF mode = "HP" THEN "dec" ELSE "neg", Letter(x), fn)
      [] OTHER -> One("not", Letter(x), fn)

disasm_a_f(n, mode) ==
    CASE n[0] = 10 -> Shown(3, disasm_add_move(n[2], n[1] >= 8, n[1] % 8, mode))
      [] n[0] = 11 -> Shown(3, disasm_sub_shift(n[2], n[1] >= 8, n[1] % 8, mode))
      [] n[0] \in {12, 13} -> Shown(2, disasm_add_move(n[1], n[0] = 13, A_FIELD, mode))
      [] OTHER -> Shown(2, disasm_sub_shift(n[1], n[0] = 15, A_FIELD, mode))

disassemble(pc, n, mode) ==
    CASE n[0] = 0 -> disasm_0(n)
      [] n[0] = 1 -> disasm_1(n)
      [] n[0] = 2 -> disasm_2(n)
      [] n[0] = 3 -> disasm_3(n)
      [] n[0] \in {4, 5} -> disasm_4_5(pc, n)
      [] n[0] = 6 -> disasm_6(pc, n)
      [] n[0] = 7 -> disasm_7(pc, n)
      [] n[0] = 8 -> IF n[1] \in {10, 11} THEN disasm_9(pc, n) ELSE disasm_8(pc, n, mode)
      [] n[0] = 9 -> disasm_9(pc, n)
      [] OTHER -> disasm_a_f(n, mode)
=============================================================================

------------------------ MODULE Instructions_proofs -------------------------
(***************************************************************************)
(* That the emulator and its disassembler, which decode instructions with  *)
(* code of their own, agree on the length, the target and the operation of *)
(* every instruction, but for the deviations Instructions lists; and what  *)
(* the instructions do to the registers, for every number in them, every   *)
(* field, both modes and every value of P.                                 *)
(*                                                                         *)
(* The loops of register.c are recursive functions, and what they compute  *)
(* is shown by induction over nibbles.                                     *)
(***************************************************************************)
EXTENDS Instructions, TLAPS, WellFoundedInduction, FiniteSetTheorems

USE DEF LastNibble

InstructionWord == [0 .. LastNibble -> Nibble]

\* What ContinuesBehind says of a decoded instruction at a.
GoesOn(a, d) ==
    CASE d.flow \in {"on", "test"} -> d.next = d.reads
      [] d.flow = "call"           -> d.back = a + d.reads
      [] OTHER                     -> d.next \in {0, d.reads}

\* A listing, and a decoded instruction, of so many nibbles that name no address.
Plain(s, len) == s.len = len /\ s.target = NoAddress
Straight(a, d, len) == d.reads = len /\ d.target = NoAddress /\ GoesOn(a, d)

\* A listing and a decoded instruction of so many nibbles with the same address.
SameBranch(a, s, d, len) ==
    s.len = len /\ d.reads = len /\ s.target = d.target /\ GoesOn(a, d)

\* What is to be shown of every word n.
Agree(a, n, mode) ==
    LET s == disassemble(a, n, mode)
        d == step_instruction(a, n)
    IN  /\ s.len # d.reads <=> OtherLength(n)
        /\ s.target # d.target <=> SecondNop3(n)
        /\ GoesOn(a, d)

----------------------------------------------------------------------------
(* Words, listings and decodings.                                          *)

\* Every nibble of an instruction is a number below 16.
LEMMA NibblesAreNibbles ==
    ASSUME NEW n \in InstructionWord
    PROVE  \A i \in 0 .. LastNibble : n[i] \in 0 .. 15
BY SMT DEF InstructionWord, Nibble

\* The two lists of deviations, by the nibbles they name.
LEMMA Prefixes ==
    ASSUME NEW n
    PROVE  /\ SecondNop3(n) <=> n[0] = 5 /\ n[1] = 2 /\ n[2] = 0
           /\ OtherLength(n) <=>
                 \/ n[0] = 1 /\ n[1] \in {6, 7, 8, 12}
                 \/ n[0] = 6 /\ n[1] = 4 /\ n[2] = 0 /\ n[3] = 0
                 \/ n[0] = 8 /\ n[1] = 1 /\ n[2] = 9
                 \/ n[0] = 8 /\ n[1] = 1 /\ n[2] = 10 /\ n[4] > 2
                 \/ n[0] = 8 /\ n[1] = 0 /\ n[2] = 8 /\ n[3] = 1 /\ n[4] # 0
BY SMT DEF Starts, SecondNop3, NullStore, OtherLength

\* What the two ways of writing a line of the listing say.
LEMMA Listings ==
    \A len, op, t : /\ Plain(Shown(len, op), len)
                    /\ ShownTo(len, op, t).len = len
                    /\ ShownTo(len, op, t).target = Address(t)
BY SMT DEF Plain, Shown, ShownTo

\* What the ways of ending an instruction say of its length and target.
LEMMA Decodings ==
    \A a, len, op, t :
        /\ Straight(a, On(len, op), len)
        /\ Straight(a, Dynamic(len, op), len)
        /\ Straight(a, Return(op), 2)
        /\ Straight(a, Illegal(len), len)
        /\ Jump(len, op, t).reads = len /\ Jump(len, op, t).target = t
        /\ GoesOn(a, Jump(len, op, t))
BY SMT DEF Straight, GoesOn, Decoded, On, Dynamic, Return, Illegal, Jump

\* A conditional branch is listed with the target it has, wherever its displacement is.
LEMMA Branches ==
    \A a, n, at, op, q : SameBranch(a, Branch(a, n, at, q), Test(a, n, at, op), at + 2)
BY SMT DEF SameBranch, GoesOn, Branch, Test, Shown, ShownTo, Relative, Decoded

\* The ways in which the two decoders are found to agree.
LEMMA AgreePlain ==
    ASSUME NEW a, NEW n, NEW mode, NEW k, NEW l,
           Plain(disassemble(a, n, mode), k), Straight(a, step_instruction(a, n), l),
           k # l <=> OtherLength(n), ~SecondNop3(n)
    PROVE  Agree(a, n, mode)
BY SMT DEF Agree, Plain, Straight

\* The same of an instruction that names an address.
LEMMA AgreeBranch ==
    ASSUME NEW a, NEW n, NEW mode, NEW l,
           SameBranch(a, disassemble(a, n, mode), step_instruction(a, n), l),
           ~OtherLength(n), ~SecondNop3(n)
    PROVE  Agree(a, n, mode)
BY SMT DEF Agree, SameBranch

----------------------------------------------------------------------------
(* Length and target, group by group.                                      *)

\* Opcodes A to F: arithmetic on registers.
LEMMA AgreeA_F ==
    ASSUME NEW a, NEW n \in InstructionWord, NEW mode, n[0] \in 10 .. 15
    PROVE  Agree(a, n, mode)
<1>1. n[0] \in 10 .. 15 /\ ~SecondNop3(n) /\ ~OtherLength(n)
  BY Prefixes, SMT
<1>2. disassemble(a, n, mode) = disasm_a_f(n, mode)
  BY <1>1, SMT DEF disassemble
<1>3. CASE n[0] \in {10, 11}
  <2>1. Plain(disasm_a_f(n, mode), 3)
    BY <1>3, Listings, SMT DEF disasm_a_f
  <2>2. Straight(a, decode_a(n), 3) /\ Straight(a, decode_b(n), 3)
    BY Decodings, Zenon DEF decode_a, decode_b
  <2>3. Straight(a, step_instruction(a, n), 3)
    BY <1>3, <2>2, SMT DEF step_instruction
  <2> QED BY <1>1, <1>2, <2>1, <2>3, AgreePlain
<1>4. CASE n[0] \in 12 .. 15
  <2>1. Plain(disasm_a_f(n, mode), 2)
    BY <1>4, Listings, SMT DEF disasm_a_f
  <2>2. /\ Straight(a, decode_c(n), 2) /\ Straight(a, decode_d(n), 2)
        /\ Straight(a, decode_e(n), 2) /\ Straight(a, decode_f(n), 2)
    BY Decodings, Zenon DEF decode_c, decode_d, decode_e, decode_f
  <2>3. Straight(a, step_instruction(a, n), 2)
    BY <1>4, <2>2, SMT DEF step_instruction
  <2> QED BY <1>1, <1>2, <2>1, <2>3, AgreePlain
<1> QED BY <1>1, <1>3, <1>4, SMT

\* Opcode 1: scratch registers, pointers, memory and constants for the pointers.
LEMMA Agree1 ==
    ASSUME NEW a, NEW n \in InstructionWord, NEW mode, n[0] = 1
    PROVE  Agree(a, n, mode)
<1>1. /\ n[1] \in 0 .. 15
      /\ disassemble(a, n, mode) = disasm_1(n)
      /\ step_instruction(a, n) = decode_group_1(n)
  BY NibblesAreNibbles, SMT DEF disassemble, step_instruction
<1>2. ~SecondNop3(n) /\ (OtherLength(n) <=> n[1] \in {6, 7, 8, 12})
  BY Prefixes, SMT
<1>3. CASE n[1] \in 0 .. 4
  <2>1. /\ Plain(disasm_1_moves(n), 3) /\ Plain(disasm_1_exchanges(n), 3)
        /\ Plain(disasm_1_pointers(n), 3)
    BY Listings, Zenon DEF disasm_1_moves, disasm_1_exchanges, disasm_1_pointers
  <2>2. n[1] = 4 => Plain(disasm_1_memory(n), 3)
    BY Listings, SMT DEF disasm_1_memory
  <2>3. Plain(disasm_1(n), 3)
    BY <1>3, <2>1, <2>2, SMT DEF disasm_1
  <2>4. Straight(a, decode_13(n), 3) /\ Straight(a, decode_14(n), 3)
    BY Decodings, Zenon DEF decode_13, decode_14
  <2>5. Straight(a, decode_group_1(n), 3)
    BY <1>3, <2>4, Decodings, SMT DEF decode_group_1
  <2> QED BY <1>1, <1>2, <1>3, <2>3, <2>5, AgreePlain, SMT
<1>4. CASE n[1] = 5
  <2>1. Plain(disasm_1_memory(n), 4)
    BY <1>4, Listings, SMT DEF disasm_1_memory
  <2>2. Plain(disasm_1(n), 4)
    BY <1>4, <2>1, SMT DEF disasm_1
  <2>3. Straight(a, decode_15(n), 4)
    BY Decodings, Zenon DEF decode_15
  <2>4. Straight(a, decode_group_1(n), 4)
    BY <1>4, <2>3, SMT DEF decode_group_1
  <2> QED BY <1>1, <1>2, <1>4, <2>2, <2>4, AgreePlain, SMT
<1>5. CASE n[1] \in {6, 7, 8, 12}
  <2>1. Plain(disasm_1_add(n), 2)
    BY Listings, Zenon DEF disasm_1_add
  <2>2. Plain(disasm_1(n), 2)
    BY <1>5, <2>1, SMT DEF disasm_1
  <2>3. Straight(a, decode_pointer(n), 3)
    <3>1. n[1] \notin {9, 13} /\ n[1] \notin {10, 14} /\ n[1] \notin {11, 15}
      BY <1>5, SMT
    <3> QED BY <1>5, <3>1, Decodings, Zenon DEF decode_pointer
  <2>4. Straight(a, decode_group_1(n), 3)
    BY <1>5, <2>3, SMT DEF decode_group_1
  <2> QED BY <1>1, <1>2, <1>5, <2>2, <2>4, AgreePlain, SMT
<1>6. CASE n[1] \in {9, 10, 11, 13, 14, 15}
  <2>1. disasm_1(n) = disasm_1_load(n) /\ decode_group_1(n) = decode_pointer(n)
    BY <1>6, SMT DEF disasm_1, decode_group_1
  <2>2. CASE n[1] \in {9, 13}
    <3>1. /\ n[1] \notin {6, 7, 8, 12} /\ n[1] \notin {10, 14} /\ n[1] \notin {11, 15}
          /\ 2 + <<2, 4, 5>>[n[1] % 4] = 4
      BY <2>2, SMT
    <3>2. Plain(disasm_1_load(n), 4)
      BY <3>1, Listings, Zenon DEF disasm_1_load
    <3>3. Straight(a, decode_pointer(n), 4)
      BY <2>2, <3>1, Decodings, Zenon DEF decode_pointer
    <3> QED BY <1>1, <1>2, <1>6, <2>1, <3>2, <3>3, AgreePlain, SMT
  <2>3. CASE n[1] \in {10, 14}
    <3>1. /\ n[1] \notin {6, 7, 8, 12} /\ n[1] \notin {9, 13} /\ n[1] \notin {11, 15}
          /\ 2 + <<2, 4, 5>>[n[1] % 4] = 6
      BY <2>3, SMT
    <3>2. Plain(disasm_1_load(n), 6)
      BY <3>1, Listings, Zenon DEF disasm_1_load
    <3>3. Straight(a, decode_pointer(n), 6)
      BY <2>3, <3>1, Decodings, Zenon DEF decode_pointer
    <3> QED BY <1>1, <1>2, <1>6, <2>1, <3>2, <3>3, AgreePlain, SMT
  <2>4. CASE n[1] \in {11, 15}
    <3>1. /\ n[1] \notin {6, 7, 8, 12} /\ n[1] \notin {9, 13} /\ n[1] \notin {10, 14}
          /\ 2 + <<2, 4, 5>>[n[1] % 4] = 7
      BY <2>4, SMT
    <3>2. Plain(disasm_1_load(n), 7)
      BY <3>1, Listings, Zenon DEF disasm_1_load
    <3>3. Straight(a, decode_pointer(n), 7)
      BY <2>4, <3>1, Decodings, Zenon DEF decode_pointer
    <3> QED BY <1>1, <1>2, <1>6, <2>1, <3>2, <3>3, AgreePlain, SMT
  <2> QED BY <1>6, <2>2, <2>3, <2>4
<1> QED BY <1>1, <1>3, <1>4, <1>5, <1>6, SMT

\* Opcode 808: bits, interrupts and the jumps through memory.
LEMMA Agree808 ==
    ASSUME NEW a, NEW n \in InstructionWord, NEW mode, n[0] = 8, n[1] = 0, n[2] = 8
    PROVE  Agree(a, n, mode)
<1>1. n[3] \in 0 .. 15 /\ n[4] \in 0 .. 15
  BY NibblesAreNibbles, SMT
<1>2. /\ ~SecondNop3(n) /\ (OtherLength(n) <=> n[3] = 1 /\ n[4] # 0)
      /\ step_instruction(a, n) = decode_808(a, n)
      /\ disassemble(a, n, mode) = disasm_80(a, n, mode)
  BY Prefixes, SMT DEF step_instruction, decode_8, decode_group_80, disassemble, disasm_8
<1>3. disassemble(a, n, mode) = disasm_808(a, n)
  <2>1. in_str_80(8) = None
    BY SMT DEF in_str_80, None
  <2> QED BY <1>2, <2>1, Zenon DEF disasm_80
<1>4. /\ \A x \in {0, 3, 12, 13, 14, 15} : in_str_808(x) # None
      /\ \A x \in {1, 2, 4, 5, 6, 7, 8, 9, 10, 11} : in_str_808(x) = None
  BY SMT DEF in_str_808, None
<1>5. CASE n[3] \in {0, 3, 12, 13, 14, 15}
  <2>1. Plain(disasm_808(a, n), 4)
    BY <1>4, <1>5, Listings, SMT DEF disasm_808
  <2>2. Straight(a, decode_808(a, n), 4)
    <3>1. n[3] \in {0, 3} => Straight(a, decode_808(a, n), 4)
      BY Decodings, SMT DEF decode_808
    <3>2. n[3] \in {13, 15} => Straight(a, decode_808(a, n), 4)
      BY Decodings, SMT DEF decode_808
    <3>3. n[3] \in {12, 14} => Straight(a, decode_808(a, n), 4)
      BY Decodings, SMT DEF decode_808
    <3> QED BY <1>5, <3>1, <3>2, <3>3
  <2> QED BY <1>2, <1>3, <1>5, <2>1, <2>2, AgreePlain, SMT
<1>6. CASE n[3] = 1
  <2>1. Straight(a, decode_808(a, n), 5)
    BY <1>6, Decodings, SMT DEF decode_808
  <2>2. CASE n[4] = 0
    <3>1. Plain(disasm_808(a, n), 5)
      BY <1>4, <1>6, <2>2, Listings, SMT DEF disasm_808
    <3> QED BY <1>2, <1>3, <1>6, <2>1, <2>2, <3>1, AgreePlain, SMT
  <2>3. CASE n[4] # 0
    <3>1. Plain(disasm_808(a, n), 0)
      BY <1>4, <1>6, <2>3, Listings, SMT DEF disasm_808, Dead
    <3> QED BY <1>2, <1>3, <1>6, <2>1, <2>3, <3>1, AgreePlain, SMT
  <2> QED BY <2>2, <2>3
<1>7. CASE n[3] = 2
  <2>1. Plain(disasm_808(a, n), 6 + n[4])
    BY <1>4, <1>7, Listings, SMT DEF disasm_808
  <2>2. Straight(a, decode_808(a, n), 6 + n[4])
    BY <1>7, Decodings, SMT DEF decode_808
  <2> QED BY <1>2, <1>3, <1>7, <2>1, <2>2, AgreePlain, SMT
<1>8. CASE n[3] \in {4, 5, 8, 9}
  <2>1. Plain(disasm_808(a, n), 5)
    BY <1>4, <1>8, Listings, SMT DEF disasm_808
  <2>2. Straight(a, decode_808(a, n), 5)
    BY <1>8, Decodings, SMT DEF decode_808
  <2> QED BY <1>2, <1>3, <1>8, <2>1, <2>2, AgreePlain, SMT
<1>9. CASE n[3] \in {6, 7, 10, 11}
  <2>1. \E op, q : /\ disasm_808(a, n) = Branch(a, n, 5, q)
                   /\ decode_808(a, n) = Test(a, n, 5, op)
    BY <1>4, <1>9, SMT DEF disasm_808, decode_808
  <2>2. SameBranch(a, disasm_808(a, n), decode_808(a, n), 5 + 2)
    BY <2>1, Branches, Zenon
  <2> QED BY <1>2, <1>3, <1>9, <2>2, AgreeBranch, SMT
<1> QED BY <1>1, <1>5, <1>6, <1>7, <1>8, <1>9, SMT

\* Opcode 80 otherwise: the bus and P.
LEMMA Agree80 ==
    ASSUME NEW a, NEW n \in InstructionWord, NEW mode, n[0] = 8, n[1] = 0, n[2] # 8
    PROVE  Agree(a, n, mode)
<1>1. n[2] \in 0 .. 15
  BY NibblesAreNibbles, SMT
<1>2. /\ ~SecondNop3(n) /\ ~OtherLength(n)
      /\ step_instruction(a, n) = decode_group_80(a, n)
      /\ disassemble(a, n, mode) = disasm_80(a, n, mode)
  BY Prefixes, SMT DEF step_instruction, decode_8, disassemble, disasm_8
<1>3. /\ \A x \in {0, 1, 2, 3, 4, 5, 6, 7, 9, 10, 11, 14} : in_str_80(x) # None
      /\ \A x \in {12, 13, 15} : in_str_80(x) = None
  BY SMT DEF in_str_80, None
<1>4. CASE n[2] \in 0 .. 7 \cup {9, 10, 11, 14}
  <2>1. in_str_80(n[2]) # None
    BY <1>3, <1>4, SMT
  <2>2. Plain(disasm_80(a, n, mode), 3)
    BY <2>1, Listings, SMT DEF disasm_80
  <2>3. Straight(a, decode_80_bus(n), 3)
    BY Decodings, Zenon DEF decode_80_bus
  <2>4. n[2] \in {9, 10, 11, 14} => Straight(a, decode_80_p(n), 3)
    BY Decodings, SMT DEF decode_80_p
  <2>5. Straight(a, decode_group_80(a, n), 3)
    BY <1>4, <2>3, <2>4, SMT DEF decode_group_80
  <2> QED BY <1>2, <2>2, <2>5, AgreePlain
<1>5. CASE n[2] \in {12, 13, 15}
  <2>1. in_str_80(n[2]) = None
    BY <1>3, <1>5, SMT
  <2>2. Plain(disasm_80_p(n, mode), 4)
    BY Listings, Zenon DEF disasm_80_p
  <2>3. Plain(disasm_80(a, n, mode), 4)
    BY <1>5, <2>1, <2>2, SMT DEF disasm_80
  <2>4. Straight(a, decode_80_p(n), 4)
    BY <1>5, Decodings, SMT DEF decode_80_p
  <2>5. Straight(a, decode_group_80(a, n), 4)
    BY <1>5, <2>4, SMT DEF decode_group_80
  <2> QED BY <1>2, <2>3, <2>5, AgreePlain
<1> QED BY <1>1, <1>4, <1>5, SMT

\* Opcode 81: shifts, constants, scratch registers by field, PC.
LEMMA Agree81 ==
    ASSUME NEW a, NEW n \in InstructionWord, NEW mode, n[0] = 8, n[1] = 1
    PROVE  Agree(a, n, mode)
<1>1. n[2] \in 0 .. 15 /\ n[4] \in 0 .. 15
  BY NibblesAreNibbles, SMT
<1>2. /\ ~SecondNop3(n) /\ (OtherLength(n) <=> n[2] = 9 \/ (n[2] = 10 /\ n[4] > 2))
      /\ step_instruction(a, n) = decode_81(n)
      /\ disassemble(a, n, mode) = disasm_81(n)
  BY Prefixes, SMT DEF step_instruction, decode_8, disassemble, disasm_8
<1>3. CASE n[2] \in 0 .. 7 \cup 12 .. 15
  <2>1. Plain(disasm_81_shift(n), 3)
    BY <1>3, Listings, SMT DEF disasm_81_shift
  <2>2. Plain(disasm_81(n), 3)
    BY <1>3, <2>1, SMT DEF disasm_81
  <2>3. Straight(a, decode_81_circular(n), 3) /\ Straight(a, decode_81_srb(n), 3)
    BY Decodings, Zenon DEF decode_81_circular, decode_81_srb
  <2>4. Straight(a, decode_81(n), 3)
    BY <1>3, <2>3, SMT DEF decode_81
  <2> QED BY <1>2, <1>3, <2>2, <2>4, AgreePlain, SMT
<1>4. CASE n[2] = 8
  <2>1. Plain(disasm_818(n), 6) /\ Straight(a, decode_818(n), 6)
    BY Listings, Decodings, Zenon DEF disasm_818, decode_818
  <2>2. Plain(disasm_81(n), 6) /\ Straight(a, decode_81(n), 6)
    BY <1>4, <2>1, SMT DEF disasm_81, decode_81
  <2> QED BY <1>2, <1>4, <2>2, AgreePlain, SMT
<1>5. CASE n[2] = 9
  <2>1. Plain(disasm_81_shift(n), 4)
    BY <1>5, Listings, SMT DEF disasm_81_shift
  <2>2. Straight(a, decode_819(n), 5)
    BY Decodings, Zenon DEF decode_819
  <2>3. Plain(disasm_81(n), 4) /\ Straight(a, decode_81(n), 5)
    BY <1>5, <2>1, <2>2, SMT DEF disasm_81, decode_81
  <2> QED BY <1>2, <1>5, <2>3, AgreePlain, SMT
<1>6. CASE n[2] = 10
  <2>1. Straight(a, decode_81a(n), 6)
    <3>1. Straight(a, decode_81a_copy(n), 6)
      BY Decodings, Zenon DEF decode_81a_copy
    <3> QED BY <3>1, Decodings, SMT DEF decode_81a
  <2>2. disassemble(a, n, mode) = disasm_81a(n) /\ step_instruction(a, n) = decode_81a(n)
    BY <1>2, <1>6, SMT DEF disasm_81, decode_81
  <2>3. CASE n[4] > 2
    <3>1. Plain(disasm_81a(n), 5)
      BY <1>1, <2>3, Listings, SMT DEF disasm_81a
    <3> QED BY <1>2, <1>6, <2>1, <2>2, <2>3, <3>1, AgreePlain, SMT
  <2>4. CASE n[4] \in {0, 1, 2}
    <3>1. n[4] = 0 => Plain(disasm_81a(n), 6)
      BY Listings, SMT DEF disasm_81a
    <3>2. n[4] = 1 => Plain(disasm_81a(n), 6)
      BY Listings, SMT DEF disasm_81a
    <3>3. n[4] = 2 => Plain(disasm_81a(n), 6)
      BY Listings, SMT DEF disasm_81a
    <3> QED BY <1>2, <1>6, <2>1, <2>2, <2>4, <3>1, <3>2, <3>3, AgreePlain, SMT
  <2> QED BY <1>1, <2>3, <2>4, SMT
<1>7. CASE n[2] = 11
  <2>1. Plain(disasm_81b(n), 4)
    BY Listings, Zenon DEF disasm_81b
  <2>2. Straight(a, decode_81b(n), 4)
    BY Decodings, SMT DEF decode_81b
  <2>3. Plain(disasm_81(n), 4) /\ Straight(a, decode_81(n), 4)
    BY <1>7, <2>1, <2>2, SMT DEF disasm_81, decode_81
  <2> QED BY <1>2, <1>7, <2>3, AgreePlain, SMT
<1> QED BY <1>1, <1>3, <1>4, <1>5, <1>6, <1>7, SMT

\* What displacements and addresses come to, and which words are the NOPs among the jumps.
LEMMA Displacements ==
    ASSUME NEW n \in InstructionWord
    PROVE  /\ read_nibbles(n, 1, 2) = 2 <=> n[1] = 2 /\ n[2] = 0
           /\ read_nibbles(n, 1, 3) = 4 <=> n[1] = 4 /\ n[2] = 0 /\ n[3] = 0
           /\ read_nibbles(n, 1, 3) \in Int
           /\ read_nibbles(n, 2, 4) \in Int
           /\ read_nibbles(n, 2, 5) \in Nat /\ read_nibbles(n, 2, 5) < 1048576
<1> DEFINE u == n[1]  v == n[2]  w == n[3]  x == n[4]  y == n[5]  z == n[6]
<1>1. /\ u \in Nat /\ u < 16 /\ v \in Nat /\ v < 16 /\ w \in Nat /\ w < 16
      /\ x \in Nat /\ x < 16 /\ y \in Nat /\ y < 16 /\ z \in Nat /\ z < 16
  BY NibblesAreNibbles, SMT
<1>2. /\ read_nibbles(n, 1, 2) = u + 16 * v
      /\ read_nibbles(n, 1, 3) = u + 16 * v + 256 * w
      /\ read_nibbles(n, 2, 4) = v + 16 * w + 256 * x + 4096 * y
      /\ read_nibbles(n, 2, 5) = v + 16 * w + 256 * x + 4096 * y + 65536 * z
  BY <1>1, SMT DEF read_nibbles
<1> HIDE DEF u, v, w, x, y, z
<1>3. u + 16 * v = 2 <=> u = 2 /\ v = 0
  BY <1>1, SMT
<1>4. u + 16 * v + 256 * w = 4 <=> u = 4 /\ v = 0 /\ w = 0
  BY <1>1, SMT
<1>5. /\ u + 16 * v + 256 * w \in Int
      /\ v + 16 * w + 256 * x + 4096 * y \in Int
      /\ v + 16 * w + 256 * x + 4096 * y + 65536 * z \in Nat
      /\ v + 16 * w + 256 * x + 4096 * y + 65536 * z < 1048576
  BY <1>1, SMT
<1>6. read_nibbles(n, 1, 2) = 2 <=> u = 2 /\ v = 0
  BY <1>2, <1>3
<1>7. read_nibbles(n, 1, 3) = 4 <=> u = 4 /\ v = 0 /\ w = 0
  BY <1>2, <1>4
<1>8. /\ read_nibbles(n, 1, 3) \in Int
      /\ read_nibbles(n, 2, 4) \in Int
      /\ read_nibbles(n, 2, 5) \in Nat /\ read_nibbles(n, 2, 5) < 1048576
  BY <1>2, <1>5
<1> QED BY <1>6, <1>7, <1>8 DEF u, v, w

\* A sign-extended displacement is an integer.
LEMMA SignedIsInteger ==
    /\ \A d \in Int : Signed(d, 3) \in Int /\ Signed(d, 4) \in Int
    /\ Signed(2, 2) = 2
BY SMT DEF Signed

\* Opcode 8 otherwise: status bits, tests and the long jumps.
LEMMA Agree8 ==
    ASSUME NEW a \in Nat, NEW n \in InstructionWord, NEW mode, n[0] = 8, n[1] \notin {0, 1}
    PROVE  Agree(a, n, mode)
<1>1. n[1] \in 2 .. 15
  BY NibblesAreNibbles, SMT
<1>2. /\ ~SecondNop3(n) /\ ~OtherLength(n)
      /\ step_instruction(a, n) = decode_8(a, n)
  BY Prefixes, SMT DEF step_instruction
<1>3. CASE n[1] \in {10, 11}
  <2>1. disassemble(a, n, mode) = disasm_9(a, n)
    BY <1>3, SMT DEF disassemble
  <2>2. \E op : decode_8(a, n) = Test(a, n, 3, op)
    BY <1>3, SMT DEF decode_8, decode_8a, decode_8b
  <2>3. \E q : disasm_9(a, n) = Branch(a, n, 3, q)
    BY Zenon DEF disasm_9
  <2> QED BY <1>2, <2>1, <2>2, <2>3, Branches, AgreeBranch
<1>4. CASE n[1] \in {2, 4, 5}
  <2>1. /\ Plain(disasm_82(n), 3) /\ Plain(disasm_84_85(n), 3)
        /\ Straight(a, decode_82(n), 3) /\ Straight(a, decode_84_85(n), 3)
    BY Listings, Decodings, Zenon DEF disasm_82, disasm_84_85, decode_82, decode_84_85
  <2>2. Plain(disassemble(a, n, mode), 3)
    BY <1>4, <2>1, SMT DEF disassemble, disasm_8
  <2>3. Straight(a, decode_8(a, n), 3)
    BY <1>4, <2>1, SMT DEF decode_8
  <2> QED BY <1>2, <2>2, <2>3, AgreePlain
<1>5. CASE n[1] \in {3, 6, 7, 8, 9}
  <2>1. /\ SameBranch(a, disasm_83(a, n), decode_83(a, n), 3 + 2)
        /\ SameBranch(a, disasm_86_87(a, n), decode_86_87(a, n), 3 + 2)
        /\ SameBranch(a, disasm_88_89(a, n), decode_88_89(a, n), 3 + 2)
    BY Branches, Zenon DEF disasm_83, disasm_86_87, disasm_88_89, decode_83, decode_86_87, decode_88_89
  <2>2. SameBranch(a, disassemble(a, n, mode), decode_8(a, n), 3 + 2)
    BY <1>5, <2>1, SMT DEF disassemble, disasm_8, decode_8
  <2> QED BY <1>2, <2>2, AgreeBranch
<1>6. CASE n[1] \in 12 .. 15
  <2>1. /\ Signed(read_nibbles(n, 2, 4), 4) \in Int
        /\ Address(read_nibbles(n, 2, 5)) = read_nibbles(n, 2, 5)
    BY Displacements, SignedIsInteger, SMT DEF Address
  <2>2. n[1] = 12 => SameBranch(a, disasm_8c_8e(a, n), decode_long(a, n), 6)
    BY Listings, Decodings, SMT DEF disasm_8c_8e, decode_long, Relative, SameBranch
  <2>3. n[1] = 14 => SameBranch(a, disasm_8c_8e(a, n), decode_long(a, n), 6)
    BY <2>1, Listings, SMT DEF disasm_8c_8e, decode_long, Relative, SameBranch, GoesOn, Decoded
  <2>4. n[1] = 13 => SameBranch(a, disasm_8d_8f(n), decode_long(a, n), 7)
    BY <2>1, Listings, Decodings, SMT DEF disasm_8d_8f, decode_long, SameBranch
  <2>5. n[1] = 15 => SameBranch(a, disasm_8d_8f(n), decode_long(a, n), 7)
    BY <2>1, Listings, SMT DEF disasm_8d_8f, decode_long, SameBranch, GoesOn, Decoded
  <2>6. decode_8(a, n) = decode_long(a, n)
    BY <1>6, SMT DEF decode_8
  <2>7. disassemble(a, n, mode) = IF n[1] \in {12, 14} THEN disasm_8c_8e(a, n) ELSE disasm_8d_8f(n)
    BY <1>6, SMT DEF disassemble, disasm_8
  <2> QED BY <1>2, <1>6, <2>2, <2>3, <2>4, <2>5, <2>6, <2>7, AgreeBranch, SMT
<1> QED BY <1>1, <1>3, <1>4, <1>5, <1>6, SMT

\* Opcodes 6 and 7: GOTO and GOSUB.
LEMMA AgreeJumps ==
    ASSUME NEW a \in Nat, NEW n \in InstructionWord, NEW mode, n[0] \in {6, 7}
    PROVE  Agree(a, n, mode)
<1>1. ~SecondNop3(n) /\ (OtherLength(n) <=> n[0] = 6 /\ read_nibbles(n, 1, 3) = 4)
  BY Prefixes, Displacements, SMT
<1>2. CASE n[0] = 6
  <2>1. /\ disassemble(a, n, mode) = disasm_6(a, n)
        /\ step_instruction(a, n) = decode_6(a, n)
    BY <1>2, SMT DEF disassemble, step_instruction
  <2>2. CASE read_nibbles(n, 1, 3) = 3
    <3>1. Plain(disasm_6(a, n), 4) /\ Straight(a, decode_6(a, n), 4)
      BY <2>2, Listings, Decodings, SMT DEF disasm_6, decode_6
    <3> QED BY <1>1, <2>1, <2>2, <3>1, AgreePlain, SMT
  <2>3. CASE read_nibbles(n, 1, 3) = 4
    <3>1. Plain(disasm_6(a, n), 4)
      BY <2>3, Listings, SMT DEF disasm_6
    <3>2. Straight(a, decode_6(a, n), 5)
      BY <2>3, SMT DEF decode_6, On, Decoded, Straight, GoesOn
    <3> QED BY <1>1, <1>2, <2>1, <2>3, <3>1, <3>2, AgreePlain, SMT
  <2>4. CASE read_nibbles(n, 1, 3) \notin {3, 4}
    <3>1. SameBranch(a, disasm_6(a, n), decode_6(a, n), 4)
      BY <2>4, Listings, Decodings, SMT DEF disasm_6, decode_6, Relative, SameBranch
    <3> QED BY <1>1, <2>1, <2>4, <3>1, AgreeBranch, SMT
  <2> QED BY <2>2, <2>3, <2>4
<1>3. CASE n[0] = 7
  <2>1. Signed(read_nibbles(n, 1, 3), 3) \in Int
    BY Displacements, SignedIsInteger, SMT
  <2>2. SameBranch(a, disasm_7(a, n), decode_7(a, n), 4)
    BY <2>1, Listings, SMT DEF disasm_7, decode_7, Relative, SameBranch, GoesOn, Decoded
  <2>3. /\ disassemble(a, n, mode) = disasm_7(a, n)
        /\ step_instruction(a, n) = decode_7(a, n)
    BY <1>3, SMT DEF disassemble, step_instruction
  <2> QED BY <1>1, <1>3, <2>2, <2>3, AgreeBranch, SMT
<1> QED BY <1>2, <1>3

\* Opcodes 4 and 5: branches on the carry.
LEMMA AgreeCarry ==
    ASSUME NEW a \in Nat, NEW n \in InstructionWord, NEW mode, n[0] \in {4, 5}
    PROVE  Agree(a, n, mode)
<1>1. ~OtherLength(n) /\ (SecondNop3(n) <=> n[0] = 5 /\ read_nibbles(n, 1, 2) = 2)
  BY Prefixes, Displacements, SMT
<1>2. /\ disassemble(a, n, mode) = disasm_4_5(a, n)
      /\ step_instruction(a, n) = decode_4_5(a, n)
  BY SMT DEF disassemble, step_instruction
<1>3. CASE read_nibbles(n, 1, 2) # 2
  <2>1. SameBranch(a, disasm_4_5(a, n), decode_4_5(a, n), 1 + 2)
    BY <1>3, Branches, Zenon DEF disasm_4_5, decode_4_5
  <2> QED BY <1>1, <1>2, <1>3, <2>1, AgreeBranch
<1>4. CASE read_nibbles(n, 1, 2) = 2
  <2>1. Plain(disasm_4_5(a, n), 3)
    BY <1>4, Listings, Zenon DEF disasm_4_5
  <2>2. CASE n[0] = 4
    <3>1. Straight(a, decode_4_5(a, n), 3)
      BY <1>4, <2>2, Decodings, Zenon DEF decode_4_5
    <3> QED BY <1>1, <1>2, <2>1, <2>2, <3>1, AgreePlain, SMT
  <2>3. CASE n[0] = 5
    <3>1. /\ decode_4_5(a, n).reads = 3 /\ decode_4_5(a, n).target = Address(a + 1 + 2)
          /\ GoesOn(a, decode_4_5(a, n))
      BY <1>4, <2>3, SignedIsInteger, SMT DEF decode_4_5, Test, GoesOn, Decoded
    <3>2. Address(a + 1 + 2) # NoAddress
      BY SMT DEF Address, NoAddress
    <3> QED BY <1>1, <1>2, <1>4, <2>1, <2>3, <3>1, <3>2, SMT DEF Agree, Plain
  <2> QED BY <2>2, <2>3
<1> QED BY <1>3, <1>4

\* Opcodes 0, 2, 3 and 9.
LEMMA AgreeOthers ==
    ASSUME NEW a \in Nat, NEW n \in InstructionWord, NEW mode, n[0] \in {0, 2, 3, 9}
    PROVE  Agree(a, n, mode)
<1>1. n[1] \in 0 .. 15 /\ ~SecondNop3(n) /\ ~OtherLength(n)
  BY NibblesAreNibbles, Prefixes, SMT
<1>2. CASE n[0] = 0 /\ n[1] = 14
  <2>1. Plain(disasm_0(n), 4) /\ Straight(a, decode_0e(n), 4)
    BY <1>2, Listings, Decodings, Zenon DEF disasm_0, decode_0e
  <2>2. /\ disassemble(a, n, mode) = disasm_0(n)
        /\ step_instruction(a, n) = decode_0e(n)
    BY <1>2, SMT DEF disassemble, step_instruction
  <2> QED BY <1>1, <2>1, <2>2, AgreePlain
<1>3. CASE n[0] = 0 /\ n[1] # 14
  <2>1. Plain(disasm_0(n), 2)
    BY <1>3, Listings, Zenon DEF disasm_0
  <2>2. Straight(a, decode_0(n), 2)
    BY <1>1, <1>3, Decodings, SMT DEF decode_0
  <2>3. /\ disassemble(a, n, mode) = disasm_0(n)
        /\ step_instruction(a, n) = decode_0(n)
    BY <1>3, SMT DEF disassemble, step_instruction
  <2> QED BY <1>1, <2>1, <2>2, <2>3, AgreePlain
<1>4. CASE n[0] = 2
  <2>1. Plain(disasm_2(n), 2) /\ Straight(a, load_p(n), 2)
    BY Listings, Decodings, Zenon DEF disasm_2, load_p
  <2>2. disassemble(a, n, mode) = disasm_2(n) /\ step_instruction(a, n) = load_p(n)
    BY <1>4, SMT DEF disassemble, step_instruction
  <2> QED BY <1>1, <2>1, <2>2, AgreePlain
<1>5. CASE n[0] = 3
  <2>1. Plain(disasm_3(n), 3 + n[1]) /\ Straight(a, load_c(n), 3 + n[1])
    BY Listings, Decodings, Zenon DEF disasm_3, load_c
  <2>2. disassemble(a, n, mode) = disasm_3(n) /\ step_instruction(a, n) = load_c(n)
    BY <1>5, SMT DEF disassemble, step_instruction
  <2> QED BY <1>1, <2>1, <2>2, AgreePlain
<1>6. CASE n[0] = 9
  <2>1. SameBranch(a, disasm_9(a, n), decode_9(a, n), 3 + 2)
    BY Branches, Zenon DEF disasm_9, decode_9
  <2>2. disassemble(a, n, mode) = disasm_9(a, n) /\ step_instruction(a, n) = decode_9(a, n)
    BY <1>6, SMT DEF disassemble, step_instruction
  <2> QED BY <1>1, <2>1, <2>2, AgreeBranch
<1> QED BY <1>2, <1>3, <1>4, <1>5, <1>6

\* For every word at every address.
LEMMA EveryWordAgrees ==
    ASSUME NEW a \in Nat, NEW n \in InstructionWord, NEW mode
    PROVE  Agree(a, n, mode)
<1>1. n[0] \in 0 .. 15
  BY NibblesAreNibbles, SMT
<1>2. n[0] = 8 => Agree(a, n, mode)
  BY Agree80, Agree808, Agree81, Agree8
<1> QED BY <1>1, <1>2, AgreeA_F, Agree1, AgreeJumps, AgreeCarry, AgreeOthers, SMT

\* The addresses are natural numbers, and what is fetched are nibbles.
FetchesNibbles == pc \in Nat /\ code \in Seq(Nibble)

----------------------------------------------------------------------------
(* The theorems.                                                           *)

\* Whatever program is decoded, the address is a natural number and the instruction is made of
\* nibbles: the bytes that read_nibbles puts together are below 16 (emulate.c and disasm.c).
THEOREM NibblesAreFetched == Spec => []FetchesNibbles
<1>1. Init => FetchesNibbles
  BY InstructionsAssumption, SMT DEF Init, Begin, FetchesNibbles
<1>2. FetchesNibbles /\ [Next]_vars => FetchesNibbles'
  <2> SUFFICES ASSUME FetchesNibbles, [Next]_vars PROVE FetchesNibbles'
    OBVIOUS
  <2> USE DEF FetchesNibbles
  <2>1. CASE Fetch
    <3>1. PICK x \in Following(code) : code' = Append(code, x)
      BY <2>1 DEF Fetch
    <3>2. x \in Nibble
      <4>1. CASE Selecting(code)
        BY <3>1, <4>1, Zenon DEF Following
      <4>2. CASE ~Selecting(code) /\ Len(code) < 7
        BY <3>1, <4>2, InstructionsAssumption DEF Following
      <4>3. CASE ~Selecting(code) /\ ~(Len(code) < 7)
        <5>1. x = code[Len(code)] /\ Len(code) \in 1 .. Len(code)
          BY <3>1, <4>3, SMT DEF Following
        <5> QED BY <5>1, SMT
      <4> QED BY <4>1, <4>2, <4>3
    <3> QED BY <2>1, <3>1, <3>2, SMT DEF Fetch
  <2>2. CASE Execute
    BY <2>2 DEF Execute
  <2>3. CASE Continue
    BY <2>3, InstructionsAssumption, SMT DEF Continue
  <2>4. CASE UNCHANGED vars
    BY <2>4 DEF vars
  <2> QED BY <2>1, <2>2, <2>3, <2>4 DEF Next
<1> QED BY <1>1, <1>2, PTL DEF Spec

\* The nibbles fetched, filled up, are a word of the decoders.
LEMMA WordIsAWord ==
    ASSUME FetchesNibbles
    PROVE  Word \in InstructionWord
<1>1. ASSUME NEW i \in 0 .. LastNibble
      PROVE  (IF i < Len(code) THEN code[i + 1] ELSE 0) \in Nibble
  <2>1. CASE i < Len(code)
    <3>1. i + 1 \in 1 .. Len(code)
      BY <2>1, SMT DEF FetchesNibbles
    <3>2. code[i + 1] \in Nibble
      BY <3>1, SMT DEF FetchesNibbles
    <3> QED BY <2>1, <3>2
  <2>2. CASE ~(i < Len(code))
    BY <2>2, SMT DEF Nibble
  <2> QED BY <2>1, <2>2
<1> QED BY <1>1, Zenon DEF Word, InstructionWord

\* step_instruction continues behind what it reads, and disassemble lists the same number of
\* nibbles, for every instruction at every address but the listed deviations of disasm.c.
THEOREM ProgramAndListingInStep == Spec => []InStep
<1>1. FetchesNibbles => InStep
  <2> SUFFICES ASSUME FetchesNibbles PROVE InStep
    OBVIOUS
  <2>1. pc \in Nat /\ Word \in InstructionWord
    BY WordIsAWord DEF FetchesNibbles
  <2>2. \A mode : Agree(pc, Word, mode)
    BY <2>1, EveryWordAgrees
  <2>3. ContinuesBehind
    BY <2>2, Zenon DEF Agree, GoesOn, ContinuesBehind, Decoding
  <2>4. SameLength
    BY <2>2, Zenon DEF Agree, SameLength, Decoding, Listing
  <2> QED BY <2>3, <2>4 DEF InStep
<1> QED BY <1>1, NibblesAreFetched, PTL


----------------------------------------------------------------------------
(* The tables of operations.                                               *)

\* The kind of an operation is the one it is made with.
LEMMA KindOfOp == \A kind, to, from, field, n : Op(kind, to, from, field, n).kind = kind
BY SMT DEF Op

\* Additions, of emulate.c's cases and of disasm.c's tables.
LEMMA AddTable ==
    ASSUME NEW x \in 0 .. 15, NEW f, NEW mode, NEW c \in BOOLEAN, ~c
    PROVE  SameAs(add_table(x, f), disasm_add_move(x, c, f, mode))
BY SMT DEF SameAs, add_table, disasm_add_move, op_str_af, Letter, Two, One, Op, Pair, Reg

\* Clearing, copying and exchanging.
LEMMA MoveTable ==
    ASSUME NEW x \in 0 .. 15, NEW f, NEW mode, NEW c \in BOOLEAN, c
    PROVE  SameAs(move_table(x, f), disasm_add_move(x, c, f, mode))
BY SMT DEF SameAs, Symmetric, move_table, disasm_add_move, op_str_af, hp_reg_1_af, hp_reg_2_af, Letter, Two, One, Op, Pair, Reg

\* Subtractions and decrements.
LEMMA SubTable ==
    ASSUME NEW x \in 0 .. 15, NEW f, NEW mode, NEW c \in BOOLEAN, ~c
    PROVE  sub_table(x, f) = disasm_sub_shift(x, c, f, mode)
<1>1. CASE x \in 0 .. 3
  BY <1>1, SMT DEF sub_table, disasm_sub_shift, op_str_af, Two, Pair
<1>2. CASE x \in 4 .. 7
  BY <1>2, SMT DEF sub_table, disasm_sub_shift, Letter, One, Reg
<1>3. CASE x \in 8 .. 11
  BY <1>3, SMT DEF sub_table, disasm_sub_shift, op_str_af, Two, Pair
<1>4. CASE x \in 12 .. 15
  BY <1>4, SMT DEF sub_table, disasm_sub_shift, op_str_af, Two, Pair
<1> x \in 0 .. 3 \/ x \in 4 .. 7 \/ x \in 8 .. 11 \/ x \in 12 .. 15
  BY SMT
<1> QED BY <1>1, <1>2, <1>3, <1>4

\* Shifts and complements; the HP mnemonics list r=-r as r=r-1.
LEMMA ShiftTable ==
    ASSUME NEW x \in 0 .. 15, NEW f, NEW mode, NEW c \in BOOLEAN, c
    PROVE  ~SameAs(shift_table(x, f), disasm_sub_shift(x, c, f, mode)) <=> mode = "HP" /\ x \in 8 .. 11
<1>1. CASE x \in 0 .. 3
  BY <1>1, SMT DEF SameAs, shift_table, disasm_sub_shift, Letter, One, Reg, Op
<1>2. CASE x \in 4 .. 7
  BY <1>2, SMT DEF SameAs, shift_table, disasm_sub_shift, Letter, One, Reg, Op
<1>3. CASE x \in 8 .. 11
  <2>1. shift_table(x, f) = Op("neg", Letter(x), None, f, 0)
    BY <1>3, SMT DEF shift_table, One, Letter, Reg
  <2>2. disasm_sub_shift(x, c, f, mode) = Op(IF mode = "HP" THEN "dec" ELSE "neg", Letter(x), None, f, 0)
    BY <1>3, SMT DEF disasm_sub_shift, One
  <2>3. CASE mode = "HP"
    <3>1. ~SameAs(Op("neg", Letter(x), None, f, 0), Op("dec", Letter(x), None, f, 0))
      BY KindOfOp, SMT DEF SameAs
    <3>2. disasm_sub_shift(x, c, f, mode) = Op("dec", Letter(x), None, f, 0)
      BY <2>2, <2>3, Zenon
    <3> QED BY <1>3, <2>1, <2>3, <3>1, <3>2, Zenon
  <2>4. CASE mode # "HP"
    BY <1>3, <2>1, <2>2, <2>4, Zenon DEF SameAs
  <2> QED BY <2>3, <2>4
<1>4. CASE x \in 12 .. 15
  BY <1>4, SMT DEF SameAs, shift_table, disasm_sub_shift, Letter, One, Reg, Op
<1> x \in 0 .. 3 \/ x \in 4 .. 7 \/ x \in 8 .. 11 \/ x \in 12 .. 15
  BY SMT
<1> QED BY <1>1, <1>2, <1>3, <1>4

\* Tests for equality.
LEMMA EqualTable ==
    ASSUME NEW x \in 0 .. 15, NEW f
    PROVE  SameAs(equal_table(x, f), Two(in_str_9(x \div 4), op_str_9((x % 4) + (IF x >= 8 THEN 4 ELSE 0)), f))
BY SMT DEF SameAs, Symmetric, equal_table, op_str_9, in_str_9, Two, One, Op, Pair, Reg

\* Comparisons.
LEMMA OrderTable ==
    ASSUME NEW x \in 0 .. 15, NEW f
    PROVE  order_table(x, f) = Two(in_str_9((x \div 4) + 4), op_str_9(x % 4), f)
BY SMT DEF order_table, op_str_9, in_str_9, Two, One, Op, Pair, Reg

\* disasm.c lists C with the scratch registers as A.
LEMMA Scratches ==
    ASSUME NEW x \in 0 .. 15
    PROVE  /\ SameAs(save_scratch(x, W_FIELD), Op("copy", RNumber(x), "A", W_FIELD, 0)) <=> x < 8
           /\ SameAs(recall_scratch(x, W_FIELD), Op("copy", "A", RNumber(x), W_FIELD, 0)) <=> x < 8
           /\ SameAs(exchange_scratch(x, W_FIELD), Op("exchange", "A", RNumber(x), W_FIELD, 0)) <=> x < 8
BY SMT DEF SameAs, Symmetric, save_scratch, recall_scratch, exchange_scratch, RNumber, Scratch, AorC, Two, Op

\* DAT0, DAT1 and their registers.
LEMMA Transfers ==
    ASSUME NEW x \in 0 .. 15, NEW f, NEW k
    PROVE  Transfer(x, f, k) = Op("copy", op_str_1(x % 8)[1], op_str_1(x % 8)[2], f, k)
BY SMT DEF op_str_1, Transfer, AorC, Op

----------------------------------------------------------------------------
(* Listings and decodings.                                                 *)

\* The operation a line of the listing shows.
LEMMA ShownOps ==
    /\ \A len, op : Shown(len, op).op = op
    /\ \A len, op, t : ShownTo(len, op, t).op = op
    /\ \A a, n, at, op : Branch(a, n, at, op).op = op
BY SMT DEF Shown, ShownTo, Branch

LEMMA ShownOp == \A len, op : Shown(len, op).op = op
BY ShownOps

\* The operation an instruction executes.
LEMMA DecodedOps ==
    /\ \A len, op : On(len, op).op = op /\ Dynamic(len, op).op = op
    /\ \A len, op, t : Jump(len, op, t).op = op
    /\ \A op : Return(op).op = op
    /\ \A a, n, at, op : Test(a, n, at, op).op = op
    /\ \A len : Illegal(len).op = Nothing
BY SMT DEF On, Dynamic, Jump, Return, Test, Illegal, Decoded

LEMMA OnOp == \A len, op : On(len, op).op = op
BY DecodedOps

LEMMA TestOp == \A a, n, at, op : Test(a, n, at, op).op = op
BY DecodedOps

LEMMA BranchOp == \A a, n, at, op : Branch(a, n, at, op).op = op
BY ShownOps

\* An operation is the same as itself.
LEMMA OneOperation == \A o : SameAs(o, o)
BY Zenon DEF SameAs

\* The list of deviations, by the nibbles it names.
LEMMA OtherOperations ==
    ASSUME NEW n, NEW mode
    PROVE  OtherOperation(n, mode) <=>
              \/ n[0] = 1 /\ n[1] < 3 /\ n[2] >= 8
              \/ n[0] = 8 /\ n[1] = 1 /\ n[2] = 10 /\ n[4] <= 2 /\ n[5] % 8 > 4
              \/ n[0] = 8 /\ n[1] = 0 /\ n[2] = 8 /\ n[3] = 1 /\ n[4] # 0
              \/ n[0] = 8 /\ n[1] = 1 /\ n[2] = 9 /\ n[4] % 4 # 1
              \/ n[0] = 8 /\ n[1] = 13
              \/ n[0] = 5 /\ n[1] = 2 /\ n[2] = 0
              \/ n[0] = 6 /\ n[1] = 4 /\ n[2] = 0 /\ n[3] = 0 /\ n[4] # 0
              \/ mode = "class" /\ n[0] = 8 /\ n[1] = 0 /\ n[2] \in {12, 13}
              \/ mode = "HP" /\ n[0] = 11 /\ n[1] >= 8 /\ n[2] \in 8 .. 11
              \/ mode = "HP" /\ n[0] = 15 /\ n[1] \in 8 .. 11
BY SMT DEF Starts, SecondNop3, NullStore, OtherOperation

AgreeOp(a, n, mode) ==
    ~SameAs(step_instruction(a, n).op, disassemble(a, n, mode).op) <=> OtherOperation(n, mode)

----------------------------------------------------------------------------
(* Operations, group by group.                                             *)

\* Opcodes A to F: arithmetic on registers.
LEMMA AgreeOpA_F ==
    ASSUME NEW a, NEW n \in InstructionWord, NEW mode \in Modes, n[0] \in 10 .. 15
    PROVE  AgreeOp(a, n, mode)
<1>1. n[1] \in 0 .. 15 /\ n[2] \in 0 .. 15
  BY NibblesAreNibbles, SMT
<1>2. OtherOperation(n, mode) <=>
         \/ mode = "HP" /\ n[0] = 11 /\ n[1] >= 8 /\ n[2] \in 8 .. 11
         \/ mode = "HP" /\ n[0] = 15 /\ n[1] \in 8 .. 11
  BY OtherOperations, SMT
<1>3. disassemble(a, n, mode) = disasm_a_f(n, mode)
  BY SMT DEF disassemble
<1>4. /\ n[0] = 10 => disasm_a_f(n, mode).op = disasm_add_move(n[2], n[1] >= 8, n[1] % 8, mode)
      /\ n[0] = 11 => disasm_a_f(n, mode).op = disasm_sub_shift(n[2], n[1] >= 8, n[1] % 8, mode)
  BY ShownOps, SMT DEF disasm_a_f
<1>5. /\ n[0] = 10 => step_instruction(a, n) = decode_a(n)
      /\ n[0] = 11 => step_instruction(a, n) = decode_b(n)
  BY SMT DEF step_instruction
<1>6. CASE n[0] \in {10, 11} /\ n[1] < 8
  <2>1. n[1] % 8 = n[1] /\ (n[1] >= 8) \in BOOLEAN /\ ~(n[1] >= 8)
    BY <1>1, <1>6, SMT
  <2>2. decode_a(n).op = add_table(n[2], n[1]) /\ decode_b(n).op = sub_table(n[2], n[1])
    BY <1>6, DecodedOps, SMT DEF decode_a, decode_b
  <2>3. SameAs(add_table(n[2], n[1]), disasm_add_move(n[2], n[1] >= 8, n[1] % 8, mode))
    BY <1>1, <2>1, AddTable, Zenon
  <2>4. SameAs(sub_table(n[2], n[1]), disasm_sub_shift(n[2], n[1] >= 8, n[1] % 8, mode))
    BY <1>1, <2>1, SubTable, OneOperation, Zenon
  <2>5. SameAs(step_instruction(a, n).op, disasm_a_f(n, mode).op)
    BY <1>4, <1>5, <1>6, <2>2, <2>3, <2>4, Zenon
  <2> QED BY <1>1, <1>2, <1>3, <1>6, <2>5, SMT DEF AgreeOp
<1>7. CASE n[0] \in {10, 11} /\ n[1] >= 8
  <2>1. n[1] % 8 = n[1] - 8 /\ (n[1] >= 8) \in BOOLEAN /\ ~(n[1] < 8)
    BY <1>1, <1>7, SMT
  <2>2. decode_a(n).op = move_table(n[2], n[1] - 8) /\ decode_b(n).op = shift_table(n[2], n[1] - 8)
    BY <2>1, OnOp, TestOp, Zenon DEF decode_a, decode_b
  <2>3. SameAs(move_table(n[2], n[1] - 8), disasm_add_move(n[2], n[1] >= 8, n[1] % 8, mode))
    BY <1>1, <1>7, <2>1, MoveTable, Zenon
  <2>4. ~SameAs(shift_table(n[2], n[1] - 8), disasm_sub_shift(n[2], n[1] >= 8, n[1] % 8, mode))
           <=> mode = "HP" /\ n[2] \in 8 .. 11
    BY <1>1, <1>7, <2>1, ShiftTable, Zenon
  <2>5. n[0] = 10 => SameAs(step_instruction(a, n).op, disasm_a_f(n, mode).op)
    BY <1>4, <1>5, <2>2, <2>3, Zenon
  <2>6. n[0] = 11 => (~SameAs(step_instruction(a, n).op, disasm_a_f(n, mode).op)
                         <=> mode = "HP" /\ n[2] \in 8 .. 11)
    BY <1>4, <1>5, <2>2, <2>4, Zenon
  <2> QED BY <1>1, <1>2, <1>3, <1>7, <2>5, <2>6, SMT DEF AgreeOp
<1>8. /\ n[0] \in {12, 13} => disasm_a_f(n, mode).op = disasm_add_move(n[1], n[0] = 13, A_FIELD, mode)
      /\ n[0] \in {14, 15} => disasm_a_f(n, mode).op = disasm_sub_shift(n[1], n[0] = 15, A_FIELD, mode)
  BY ShownOps, SMT DEF disasm_a_f
<1>9. /\ n[0] = 12 => step_instruction(a, n) = decode_c(n)
      /\ n[0] = 13 => step_instruction(a, n) = decode_d(n)
      /\ n[0] = 14 => step_instruction(a, n) = decode_e(n)
      /\ n[0] = 15 => step_instruction(a, n) = decode_f(n)
  BY SMT DEF step_instruction
<1>10. /\ decode_c(n).op = add_table(n[1], A_FIELD) /\ decode_d(n).op = move_table(n[1], A_FIELD)
       /\ decode_e(n).op = sub_table(n[1], A_FIELD) /\ decode_f(n).op = shift_table(n[1], A_FIELD)
  BY OnOp, TestOp, Zenon DEF decode_c, decode_d, decode_e, decode_f
<1>11. CASE n[0] = 12
  <2>1. (n[0] = 13) \in BOOLEAN /\ n[0] # 13
    BY <1>11, SMT
  <2>2. SameAs(add_table(n[1], A_FIELD), disasm_add_move(n[1], n[0] = 13, A_FIELD, mode))
    BY <1>1, <2>1, AddTable, Zenon
  <2> QED BY <1>2, <1>3, <1>8, <1>9, <1>10, <1>11, <2>2, SMT DEF AgreeOp
<1>12. CASE n[0] = 13
  <2>1. SameAs(move_table(n[1], A_FIELD), disasm_add_move(n[1], n[0] = 13, A_FIELD, mode))
    BY <1>1, <1>12, MoveTable, Zenon
  <2> QED BY <1>2, <1>3, <1>8, <1>9, <1>10, <1>12, <2>1, SMT DEF AgreeOp
<1>13. CASE n[0] = 14
  <2>1. (n[0] = 15) \in BOOLEAN /\ n[0] # 15
    BY <1>13, SMT
  <2>2. SameAs(sub_table(n[1], A_FIELD), disasm_sub_shift(n[1], n[0] = 15, A_FIELD, mode))
    BY <1>1, <2>1, SubTable, OneOperation, Zenon
  <2> QED BY <1>2, <1>3, <1>8, <1>9, <1>10, <1>13, <2>2, SMT DEF AgreeOp
<1>14. CASE n[0] = 15
  <2>1. ~SameAs(shift_table(n[1], A_FIELD), disasm_sub_shift(n[1], n[0] = 15, A_FIELD, mode))
           <=> mode = "HP" /\ n[1] \in 8 .. 11
    BY <1>1, <1>14, ShiftTable, Zenon
  <2> QED BY <1>2, <1>3, <1>8, <1>9, <1>10, <1>14, <2>1, SMT DEF AgreeOp
<1> QED BY <1>1, <1>6, <1>7, <1>11, <1>12, <1>13, <1>14, SMT

\* Opcode 1: scratch registers, pointers, memory and constants for the pointers.
LEMMA AgreeOp1 ==
    ASSUME NEW a, NEW n \in InstructionWord, NEW mode \in Modes, n[0] = 1
    PROVE  AgreeOp(a, n, mode)
<1>1. /\ n[1] \in 0 .. 15 /\ n[2] \in 0 .. 15
      /\ disassemble(a, n, mode) = disasm_1(n)
      /\ step_instruction(a, n) = decode_group_1(n)
      /\ OtherOperation(n, mode) <=> n[1] < 3 /\ n[2] >= 8
  BY NibblesAreNibbles, OtherOperations, SMT DEF disassemble, step_instruction
<1>2. CASE n[1] \in 0 .. 2
  <2>1. /\ n[1] = 0 => /\ disasm_1(n) = Shown(3, Op("copy", RNumber(n[2]), "A", W_FIELD, 0))
                       /\ decode_group_1(n) = On(3, save_scratch(n[2], W_FIELD))
        /\ n[1] = 1 => /\ disasm_1(n) = Shown(3, Op("copy", "A", RNumber(n[2]), W_FIELD, 0))
                       /\ decode_group_1(n) = On(3, recall_scratch(n[2], W_FIELD))
        /\ n[1] = 2 => /\ disasm_1(n) = Shown(3, Op("exchange", "A", RNumber(n[2]), W_FIELD, 0))
                       /\ decode_group_1(n) = On(3, exchange_scratch(n[2], W_FIELD))
    BY SMT DEF disasm_1, disasm_1_moves, disasm_1_exchanges, decode_group_1
  <2>2. SameAs(decode_group_1(n).op, disasm_1(n).op) <=> n[2] < 8
    <3>1. n[1] = 0 => (SameAs(decode_group_1(n).op, disasm_1(n).op) <=> n[2] < 8)
      BY <1>1, <2>1, Scratches, ShownOps, DecodedOps
    <3>2. n[1] = 1 => (SameAs(decode_group_1(n).op, disasm_1(n).op) <=> n[2] < 8)
      BY <1>1, <2>1, Scratches, ShownOps, DecodedOps
    <3>3. n[1] = 2 => (SameAs(decode_group_1(n).op, disasm_1(n).op) <=> n[2] < 8)
      BY <1>1, <2>1, Scratches, ShownOps, DecodedOps
    <3> QED BY <1>2, <3>1, <3>2, <3>3, SMT
  <2> QED BY <1>1, <1>2, <2>2, SMT DEF AgreeOp
<1>3. CASE n[1] = 3
  <2>1. disasm_1(n) = disasm_1_pointers(n) /\ decode_group_1(n) = decode_13(n)
    BY <1>3, SMT DEF disasm_1, decode_group_1
  <2>2. SameAs(decode_13(n).op, disasm_1_pointers(n).op)
    BY <1>1, SMT DEF SameAs, Symmetric, decode_13, disasm_1_pointers, On, Decoded, Shown,
       Pointer, DigitD, AorC, RegAC, Two, Op
  <2> QED BY <1>1, <1>3, <2>1, <2>2, SMT DEF AgreeOp
<1>4. CASE n[1] \in {4, 5}
  <2> DEFINE p == op_str_1(n[2] % 8)
             f == IF n[2] < 8 THEN A_FIELD ELSE B_FIELD
  <2>1. \A g, k : Transfer(n[2], g, k) = Op("copy", p[1], p[2], g, k)
    BY <1>1, Transfers
  <2>0. disasm_1(n) = disasm_1_memory(n)
    BY <1>4, SMT DEF disasm_1
  <2>2. n[1] = 4 => /\ disasm_1_memory(n).op = Op("copy", p[1], p[2], f, 0)
                    /\ decode_group_1(n).op = Transfer(n[2], f, 0)
    BY ShownOps, DecodedOps, SMT DEF disasm_1_memory, decode_group_1, decode_14, Two
  <2>3. n[1] = 5 /\ n[2] < 8 => /\ disasm_1_memory(n).op = Op("copy", p[1], p[2], n[3], 0)
                                /\ decode_group_1(n).op = Transfer(n[2], n[3], 0)
    <3>1. n[1] = 5 /\ n[2] < 8 => disasm_1_memory(n) = Shown(4, Two("copy", op_str_1(n[2] % 8), n[3]))
      BY SMT DEF disasm_1_memory
    <3>2. n[1] = 5 => decode_group_1(n) = decode_15(n)
      BY SMT DEF decode_group_1
    <3>3. n[2] < 8 => decode_15(n).op = Transfer(n[2], n[3], 0)
      BY <1>1, DecodedOps, SMT DEF decode_15
    <3>4. Two("copy", op_str_1(n[2] % 8), n[3]) = Op("copy", p[1], p[2], n[3], 0)
      BY Zenon DEF Two
    <3>5. Shown(4, Two("copy", op_str_1(n[2] % 8), n[3])).op = Two("copy", op_str_1(n[2] % 8), n[3])
      BY ShownOp
    <3> QED BY <3>1, <3>2, <3>3, <3>4, <3>5, Zenon
  <2>4. n[1] = 5 /\ n[2] >= 8 => /\ disasm_1_memory(n).op = Op("copy", p[1], p[2], NoField, n[3] + 1)
                                 /\ decode_group_1(n).op = Transfer(n[2], NoField, n[3] + 1)
    BY <1>1, ShownOps, DecodedOps, SMT DEF disasm_1_memory, decode_group_1, decode_15
  <2> HIDE DEF p, f
  <2>5. decode_group_1(n).op = disasm_1(n).op
    BY <1>1, <1>4, <2>0, <2>1, <2>2, <2>3, <2>4, SMT
  <2> QED BY <1>1, <1>4, <2>5, OneOperation, SMT DEF AgreeOp
<1>5. CASE n[1] \in {6, 7, 8, 12}
  <2>1. /\ disasm_1(n).op = Op(IF n[1] < 8 THEN "addcon" ELSE "subcon",
                               IF n[1] \in {6, 8} THEN "D0" ELSE "D1", None, NoField, n[2] + 1)
        /\ decode_group_1(n).op = Op(IF n[1] < 8 THEN "addcon" ELSE "subcon",
                                     IF n[1] \in {6, 8} THEN "D0" ELSE "D1", None, NoField, n[2] + 1)
    BY <1>5, SMT DEF disasm_1, disasm_1_add, decode_group_1, decode_pointer, On, Decoded, Shown
  <2> QED BY <1>1, <1>5, <2>1, OneOperation, SMT DEF AgreeOp
<1>6. CASE n[1] \in {9, 10, 11, 13, 14, 15}
  <2>1. disasm_1(n) = disasm_1_load(n) /\ decode_group_1(n) = decode_pointer(n)
    BY <1>6, SMT DEF disasm_1, decode_group_1
  <2>2. decode_pointer(n).op = disasm_1_load(n).op
    <3>1. n[1] \in {9, 13} => decode_pointer(n).op = disasm_1_load(n).op
      BY SMT DEF decode_pointer, disasm_1_load, On, Decoded, Shown
    <3>2. n[1] \in {10, 14} => decode_pointer(n).op = disasm_1_load(n).op
      BY SMT DEF decode_pointer, disasm_1_load, On, Decoded, Shown
    <3>3. n[1] \in {11, 15} => decode_pointer(n).op = disasm_1_load(n).op
      BY SMT DEF decode_pointer, disasm_1_load, On, Decoded, Shown
    <3> QED BY <1>6, <3>1, <3>2, <3>3
  <2> QED BY <1>1, <1>6, <2>1, <2>2, OneOperation, SMT DEF AgreeOp
<1> QED BY <1>1, <1>2, <1>3, <1>4, <1>5, <1>6, SMT

\* The same registers by field, which it lists right.
LEMMA Scratches81a ==
    ASSUME NEW x \in 0 .. 15, NEW f
    PROVE  LET r == <<"R0", "R1", "R2", "R3", "R4">>[(x % 8) + 1] 
               c == RegAC(x >= 8)
           IN x % 8 < 5 => 
           /\ save_scratch(x, f) = Op("copy", r, c, f, 0)
           /\ recall_scratch(x, f) = Op("copy", c, r, f, 0)
           /\ exchange_scratch(x, f) = Op("exchange", c, r, f, 0)
BY SMT DEF save_scratch, recall_scratch, exchange_scratch, Scratch, AorC, RegAC, Op

\* Opcode 808: bits, interrupts and the jumps through memory.
LEMMA AgreeOp808 ==
    ASSUME NEW a, NEW n \in InstructionWord, NEW mode \in Modes, n[0] = 8, n[1] = 0, n[2] = 8
    PROVE  AgreeOp(a, n, mode)
<1>1. n[3] \in 0 .. 15 /\ (OtherOperation(n, mode) <=> n[3] = 1 /\ n[4] # 0)
  BY NibblesAreNibbles, OtherOperations, SMT
<1>2. /\ step_instruction(a, n) = decode_808(a, n)
      /\ disassemble(a, n, mode) = disasm_80(a, n, mode)
  BY SMT DEF step_instruction, decode_8, decode_group_80, disassemble, disasm_8
<1>3. disasm_80(a, n, mode) = disasm_808(a, n)
  <2>1. in_str_80(8) = None
    BY SMT DEF in_str_80, None
  <2> QED BY <2>1, Zenon DEF disasm_80
<1>4. SUFFICES SameAs(decode_808(a, n).op, disasm_808(a, n).op) <=> ~(n[3] = 1 /\ n[4] # 0)
  BY <1>1, <1>2, <1>3, Zenon DEF AgreeOp
<1>5. /\ in_str_808(0) = "INTON" /\ in_str_808(3) = "BUSCB" /\ in_str_808(12) = "PC=@A"
      /\ in_str_808(13) = "BUSCD" /\ in_str_808(14) = "PC=@C" /\ in_str_808(15) = "INTOFF"
      /\ \A x \in {0, 3, 12, 13, 14, 15} : in_str_808(x) # None
      /\ \A x \in {1, 2, 4, 5, 6, 7, 8, 9, 10, 11} : in_str_808(x) = None
  BY SMT DEF in_str_808, None
<1>6. CASE n[3] \in {0, 3, 12, 13, 14, 15}
  <2>1. disasm_808(a, n).op = Named(in_str_808(n[3]))
    BY <1>5, <1>6, ShownOps, SMT DEF disasm_808
  <2>2. decode_808(a, n).op = Named(in_str_808(n[3]))
    <3>1. n[3] = 0 => decode_808(a, n).op = Named(in_str_808(n[3]))
      BY <1>5, DecodedOps, SMT DEF decode_808
    <3>2. n[3] = 3 => decode_808(a, n).op = Named(in_str_808(n[3]))
      BY <1>5, DecodedOps, SMT DEF decode_808
    <3>3. n[3] = 12 => decode_808(a, n).op = Named(in_str_808(n[3]))
      BY <1>5, DecodedOps, SMT DEF decode_808
    <3>4. n[3] = 13 => decode_808(a, n).op = Named(in_str_808(n[3]))
      BY <1>5, DecodedOps, SMT DEF decode_808
    <3>5. n[3] = 14 => decode_808(a, n).op = Named(in_str_808(n[3]))
      BY <1>5, DecodedOps, SMT DEF decode_808
    <3>6. n[3] = 15 => decode_808(a, n).op = Named(in_str_808(n[3]))
      BY <1>5, DecodedOps, SMT DEF decode_808
    <3> QED BY <1>6, <3>1, <3>2, <3>3, <3>4, <3>5, <3>6
  <2>3. n[3] # 1
    BY <1>6, SMT
  <2> QED BY <2>1, <2>2, <2>3, OneOperation
<1>7. CASE n[3] = 1
  <2>1. decode_808(a, n).op = Named("RSI")
    BY <1>7, DecodedOps, SMT DEF decode_808
  <2>2. CASE n[4] = 0
    <3>1. disasm_808(a, n).op = Named("RSI")
      BY <1>5, <1>7, <2>2, ShownOps, SMT DEF disasm_808
    <3> QED BY <2>1, <2>2, <3>1, OneOperation
  <2>3. CASE n[4] # 0
    <3>1. disasm_808(a, n) = Dead
      BY <1>5, <1>7, <2>3, SMT DEF disasm_808
    <3>2. disasm_808(a, n).op = Named("null-store")
      BY <3>1, ShownOp, ZenonT(40) DEF Dead
    <3>3. ~SameAs(Named("RSI"), Named("null-store"))
      BY KindOfOp, SMT DEF SameAs, Named
    <3> QED BY <1>7, <2>1, <2>3, <3>2, <3>3
  <2> QED BY <2>2, <2>3
<1>8. CASE n[3] = 2
  <2>1. disasm_808(a, n).op = Op("load", "A", None, NoField, n[4] + 1)
    BY <1>5, <1>8, ShownOps, SMT DEF disasm_808
  <2>2. decode_808(a, n).op = Op("load", "A", None, NoField, n[4] + 1)
    BY <1>8, DecodedOps, SMT DEF decode_808
  <2> QED BY <1>8, <2>1, <2>2, OneOperation, SMT
<1>9. CASE n[3] \in {4, 5, 8, 9}
  <2>1. disasm_808(a, n).op = Op(IF n[3] \in {5, 9} THEN "bit=1" ELSE "bit=0",
                                 IF n[3] \in {8, 9} THEN "C" ELSE "A", None, NoField, n[4])
    BY <1>5, <1>9, ShownOps, SMT DEF disasm_808, RegAC
  <2>2. decode_808(a, n).op = Op(IF n[3] \in {5, 9} THEN "bit=1" ELSE "bit=0",
                                 IF n[3] \in {8, 9} THEN "C" ELSE "A", None, NoField, n[4])
    BY <1>9, DecodedOps, SMT DEF decode_808
  <2> QED BY <1>9, <2>1, <2>2, OneOperation, SMT
<1>10. CASE n[3] \in {6, 7, 10, 11}
  <2>1. disasm_808(a, n).op = Op(IF n[3] \in {7, 11} THEN "?bit=1" ELSE "?bit=0",
                                 IF n[3] \in {10, 11} THEN "C" ELSE "A", None, NoField, n[4])
    BY <1>5, <1>10, ShownOps, SMT DEF disasm_808, RegAC
  <2>2. decode_808(a, n).op = Op(IF n[3] \in {7, 11} THEN "?bit=1" ELSE "?bit=0",
                                 IF n[3] \in {10, 11} THEN "C" ELSE "A", None, NoField, n[4])
    BY <1>10, DecodedOps, SMT DEF decode_808
  <2> QED BY <1>10, <2>1, <2>2, OneOperation, SMT
<1> QED BY <1>1, <1>6, <1>7, <1>8, <1>9, <1>10, SMT

\* Opcode 80 otherwise: the bus and P.
LEMMA AgreeOp80 ==
    ASSUME NEW a, NEW n \in InstructionWord, NEW mode \in Modes, n[0] = 8, n[1] = 0, n[2] # 8
    PROVE  AgreeOp(a, n, mode)
<1>1. n[2] \in 0 .. 15 /\ (OtherOperation(n, mode) <=> mode = "class" /\ n[2] \in {12, 13})
  BY NibblesAreNibbles, OtherOperations, SMT
<1>2. /\ step_instruction(a, n) = decode_group_80(a, n)
      /\ disassemble(a, n, mode) = disasm_80(a, n, mode)
  BY SMT DEF step_instruction, decode_8, disassemble, disasm_8
<1>3. /\ \A x \in {0, 1, 2, 3, 4, 5, 6, 7, 9, 10, 11, 14} : in_str_80(x) # None
      /\ \A x \in {12, 13, 15} : in_str_80(x) = None
      /\ in_str_80(9) = "C+P+1" /\ in_str_80(10) = "RESET"
      /\ in_str_80(11) = "BUSCC" /\ in_str_80(14) = "SREQ?"
  BY SMT DEF in_str_80, None
<1>4. CASE n[2] \in 0 .. 7
  <2>1. disasm_80(a, n, mode).op = Named(in_str_80(n[2]))
    BY <1>3, <1>4, ShownOps, SMT DEF disasm_80
  <2>2. decode_group_80(a, n) = decode_80_bus(n)
    BY <1>4, SMT DEF decode_group_80
  <2>3. decode_80_bus(n).op = Named(in_str_80(n[2]))
    <3>1. <<"OUT=CS", "OUT=C", "A=IN", "C=IN", "UNCNFG", "CONFIG", "C=ID", "SHUTDN">>[n[2] + 1] = in_str_80(n[2])
      BY <1>4, SMT DEF in_str_80
    <3>2. decode_80_bus(n) = On(3, Named(in_str_80(n[2])))
      BY <3>1, Zenon DEF decode_80_bus
    <3> QED BY <3>2, DecodedOps
  <2> QED BY <1>1, <1>2, <1>4, <2>1, <2>2, <2>3, OneOperation, SMT DEF AgreeOp
<1>5. CASE n[2] \in {9, 10, 11, 14}
  <2>1. disasm_80(a, n, mode).op = Named(in_str_80(n[2]))
    BY <1>3, <1>5, ShownOps, SMT DEF disasm_80
  <2>2. decode_group_80(a, n) = decode_80_p(n)
    BY <1>5, SMT DEF decode_group_80
  <2>3. decode_80_p(n).op = Named(in_str_80(n[2]))
    BY <1>3, <1>5, DecodedOps, SMT DEF decode_80_p
  <2> QED BY <1>1, <1>2, <1>5, <2>1, <2>2, <2>3, OneOperation, SMT DEF AgreeOp
<1>6. CASE n[2] \in {12, 13, 15}
  <2>1. disasm_80(a, n, mode) = disasm_80_p(n, mode) /\ decode_group_80(a, n) = decode_80_p(n)
    BY <1>3, <1>6, SMT DEF disasm_80, decode_group_80
  <2> DEFINE fromP == Op("copy", "C", "P", NoField, n[3])
             toP == Op("copy", "P", "C", NoField, n[3])
  <2>2. ~SameAs(fromP, toP) /\ ~SameAs(toP, fromP)
    BY SMT DEF SameAs, Op
  <2>3. CASE n[2] = 12
    <3>1. decode_80_p(n).op = fromP
      BY <2>3, DecodedOps, SMT DEF decode_80_p
    <3>2. disasm_80_p(n, mode).op = IF mode = "HP" THEN fromP ELSE toP
      BY <2>3, ShownOps, SMT DEF disasm_80_p
    <3> QED BY <1>1, <1>2, <2>1, <2>2, <2>3, <3>1, <3>2, OneOperation, SMT DEF AgreeOp, Modes
  <2>4. CASE n[2] = 13
    <3>1. decode_80_p(n).op = toP
      BY <2>4, DecodedOps, SMT DEF decode_80_p
    <3>2. disasm_80_p(n, mode).op = IF mode = "HP" THEN toP ELSE fromP
      BY <2>4, ShownOps, SMT DEF disasm_80_p
    <3> QED BY <1>1, <1>2, <2>1, <2>2, <2>4, <3>1, <3>2, OneOperation, SMT DEF AgreeOp, Modes
  <2>5. CASE n[2] = 15
    <3>1. decode_80_p(n).op = Op("exchange", "C", "P", NoField, n[3])
      BY <2>5, DecodedOps, SMT DEF decode_80_p
    <3>2. disasm_80_p(n, mode).op = Op("exchange", "C", "P", NoField, n[3])
      BY <2>5, ShownOps, SMT DEF disasm_80_p
    <3> QED BY <1>1, <1>2, <2>1, <2>5, <3>1, <3>2, OneOperation, SMT DEF AgreeOp
  <2> QED BY <1>6, <2>3, <2>4, <2>5
<1> QED BY <1>1, <1>4, <1>5, <1>6, SMT

\* Opcode 81: shifts, constants, scratch registers by field, PC.
LEMMA AgreeOp81 ==
    ASSUME NEW a, NEW n \in InstructionWord, NEW mode \in Modes, n[0] = 8, n[1] = 1
    PROVE  AgreeOp(a, n, mode)
<1>1. /\ n[2] \in 0 .. 15 /\ n[3] \in 0 .. 15 /\ n[4] \in 0 .. 15 /\ n[5] \in 0 .. 15
      /\ OtherOperation(n, mode) <=> \/ n[2] = 10 /\ n[4] <= 2 /\ n[5] % 8 > 4
                                     \/ n[2] = 9 /\ n[4] % 4 # 1
  BY NibblesAreNibbles, OtherOperations, SMT
<1>2. step_instruction(a, n) = decode_81(n) /\ disassemble(a, n, mode) = disasm_81(n)
  BY SMT DEF step_instruction, decode_8, disassemble, disasm_8
<1>3. \A x \in 0 .. 15 : op_str_81(x) = Reg(x)
  BY Zenon DEF op_str_81, Reg
<1>4. CASE n[2] \in 0 .. 7 \cup 12 .. 15
  <2>1. /\ n[2] \in 0 .. 3 => /\ decode_81(n).op = One("slc", Reg(n[2]), W_FIELD)
                              /\ disasm_81(n).op = One("slc", op_str_81(n[2]), W_FIELD)
        /\ n[2] \in 4 .. 7 => /\ decode_81(n).op = One("src", Reg(n[2]), W_FIELD)
                              /\ disasm_81(n).op = One("src", op_str_81(n[2]), W_FIELD)
        /\ n[2] \in 12 .. 15 => /\ decode_81(n).op = One("srb", Reg(n[2]), W_FIELD)
                                /\ disasm_81(n).op = One("srb", op_str_81(n[2]), W_FIELD)
    BY ShownOps, DecodedOps, SMT DEF decode_81, decode_81_circular, decode_81_srb, disasm_81, disasm_81_shift
  <2>2. decode_81(n).op = disasm_81(n).op
    BY <1>1, <1>3, <1>4, <2>1, SMT
  <2> QED BY <1>1, <1>2, <1>4, <2>2, OneOperation, SMT DEF AgreeOp
<1>5. CASE n[2] = 8
  <2>1. decode_81(n) = decode_818(n) /\ disasm_81(n) = disasm_818(n)
    BY <1>5, SMT DEF decode_81, disasm_81
  <2>2. decode_818(n).op = disasm_818(n).op
    <3>1. op_str_81(n[4]) = Reg(n[4])
      BY <1>1, <1>3
    <3>2. decode_818(n).op = Op(IF n[4] < 8 THEN "addcon" ELSE "subcon", Reg(n[4]), None, n[3], n[5] + 1)
      BY OnOp, TestOp, Zenon DEF decode_818
    <3>3. disasm_818(n).op = Op(IF n[4] < 8 THEN "addcon" ELSE "subcon", op_str_81(n[4]), None, n[3], n[5] + 1)
      BY ShownOp, BranchOp, Zenon DEF disasm_818
    <3> QED BY <3>1, <3>2, <3>3
  <2> QED BY <1>1, <1>2, <1>5, <2>1, <2>2, OneOperation, SMT DEF AgreeOp
<1>6. CASE n[2] = 9
  <2>1. decode_81(n).op = One("srb", Reg(n[4]), n[3])
    BY <1>6, DecodedOps, SMT DEF decode_81, decode_819
  <2>2. disasm_81(n).op = One("srb", "B", n[3])
    BY <1>6, ShownOps, SMT DEF disasm_81, disasm_81_shift, op_str_81
  <2>3. SameAs(One("srb", Reg(n[4]), n[3]), One("srb", "B", n[3])) <=> n[4] % 4 = 1
    BY <1>1, SMT DEF SameAs, One, Op, Reg
  <2> QED BY <1>1, <1>2, <1>6, <2>1, <2>2, <2>3, SMT DEF AgreeOp
<1>7. CASE n[2] = 10
  <2>1. decode_81(n) = decode_81a(n) /\ disasm_81(n) = disasm_81a(n)
    BY <1>7, SMT DEF decode_81, disasm_81
  <2>2. CASE n[4] > 2
    <3>1. decode_81a(n).op = Nothing /\ disasm_81a(n).op = Nothing
      BY <1>1, <2>2, ShownOps, DecodedOps, SMT DEF decode_81a, disasm_81a
    <3> QED BY <1>1, <1>2, <1>7, <2>1, <2>2, <3>1, OneOperation, SMT DEF AgreeOp
  <2>3. CASE n[4] \in {0, 1, 2}
    <3>1. /\ n[4] = 0 => decode_81a(n).op = save_scratch(n[5], n[3])
          /\ n[4] = 1 => decode_81a(n).op = recall_scratch(n[5], n[3])
          /\ n[4] = 2 => decode_81a(n).op = exchange_scratch(n[5], n[3])
      BY DecodedOps, SMT DEF decode_81a, decode_81a_copy
    <3>2. CASE n[5] % 8 < 5
      <4> DEFINE r == <<"R0", "R1", "R2", "R3", "R4">>[(n[5] % 8) + 1]
                 c == RegAC(n[5] >= 8)
      <4>1. /\ n[4] = 0 => disasm_81a(n).op = Op("copy", r, c, n[3], 0)
            /\ n[4] = 1 => disasm_81a(n).op = Op("copy", c, r, n[3], 0)
            /\ n[4] = 2 => disasm_81a(n).op = Op("exchange", c, r, n[3], 0)
        BY <3>2, ShownOps, SMT DEF disasm_81a
      <4>2. /\ save_scratch(n[5], n[3]) = Op("copy", r, c, n[3], 0)
            /\ recall_scratch(n[5], n[3]) = Op("copy", c, r, n[3], 0)
            /\ exchange_scratch(n[5], n[3]) = Op("exchange", c, r, n[3], 0)
        BY <1>1, <3>2, Scratches81a
      <4>3. decode_81a(n).op = disasm_81a(n).op
        BY <2>3, <3>1, <4>1, <4>2
      <4> QED BY <1>1, <1>2, <1>7, <2>1, <2>3, <3>2, <4>3, OneOperation, SMT DEF AgreeOp
    <3>3. CASE ~(n[5] % 8 < 5)
      <4>1. disasm_81a(n).op = Nothing
        BY <2>3, <3>3, ShownOps, SMT DEF disasm_81a
      <4>2. decode_81a(n).op.kind \in {"copy", "exchange"}
        BY <2>3, <3>1, KindOfOp, SMT DEF save_scratch, recall_scratch, exchange_scratch
      <4>3. Nothing.kind = "none" /\ \A o : Symmetric(o).to = o.from /\ Symmetric(o).kind = o.kind
        BY SMT DEF Nothing, Named, None, Op, Symmetric, Two
      <4>4. ~SameAs(decode_81a(n).op, Nothing)
        <5>1. SUFFICES ASSUME SameAs(decode_81a(n).op, Nothing) PROVE decode_81a(n).op.kind = "none"
          BY <4>2, Zenon
        <5> QED BY <5>1, <4>3, Zenon DEF SameAs
      <4> QED BY <1>1, <1>2, <1>7, <2>1, <2>3, <3>3, <4>1, <4>4, SMT DEF AgreeOp
    <3> QED BY <3>2, <3>3
  <2> QED BY <1>1, <2>2, <2>3, SMT
<1>8. CASE n[2] = 11
  <2>1. decode_81(n) = decode_81b(n) /\ disasm_81(n) = disasm_81b(n)
    BY <1>8, SMT DEF decode_81, disasm_81
  <2>2. CASE n[3] \in 2 .. 7
    <3>1. decode_81b(n).op = Named(<<"PC=A", "PC=C", "A=PC", "C=PC", "APCEX", "CPCEX">>[n[3] - 1])
      BY <2>2, DecodedOps, SMT DEF decode_81b
    <3>2. disasm_81b(n).op = Named(<<"PC=A", "PC=C", "A=PC", "C=PC", "APCEX", "CPCEX">>[n[3] - 1])
      BY <2>2, ShownOps, SMT DEF disasm_81b
    <3> QED BY <1>1, <1>2, <1>8, <2>1, <3>1, <3>2, OneOperation, SMT DEF AgreeOp
  <2>3. CASE n[3] \notin 2 .. 7
    <3>1. decode_81b(n).op = Nothing /\ disasm_81b(n).op = Nothing
      BY <1>1, <2>3, ShownOps, DecodedOps, SMT DEF decode_81b, disasm_81b
    <3> QED BY <1>1, <1>2, <1>8, <2>1, <3>1, OneOperation, SMT DEF AgreeOp
  <2> QED BY <2>2, <2>3
<1> QED BY <1>1, <1>4, <1>5, <1>6, <1>7, <1>8, SMT

\* Opcode 8 otherwise: status bits, tests and the long jumps.
LEMMA AgreeOp8 ==
    ASSUME NEW a, NEW n \in InstructionWord, NEW mode \in Modes, n[0] = 8, n[1] \notin {0, 1}
    PROVE  AgreeOp(a, n, mode)
<1>1. n[1] \in 2 .. 15 /\ n[2] \in 0 .. 15 /\ (OtherOperation(n, mode) <=> n[1] = 13)
  BY NibblesAreNibbles, OtherOperations, SMT
<1>2. step_instruction(a, n) = decode_8(a, n)
  BY SMT DEF step_instruction
<1>3. n[1] \notin {10, 11} => disassemble(a, n, mode) = disasm_8(a, n, mode)
  BY SMT DEF disassemble
<1>4. CASE n[1] = 10
  <2>1. decode_8(a, n).op = equal_table(n[2], A_FIELD)
    BY <1>4, DecodedOps, SMT DEF decode_8, decode_8a
  <2>2. disassemble(a, n, mode).op =
           Two(in_str_9(n[2] \div 4), op_str_9((n[2] % 4) + (IF n[2] >= 8 THEN 4 ELSE 0)), A_FIELD)
    BY <1>1, <1>4, ShownOps, SMT DEF disassemble, disasm_9
  <2> QED BY <1>1, <1>2, <1>4, <2>1, <2>2, EqualTable, SMT DEF AgreeOp
<1>5. CASE n[1] = 11
  <2>1. decode_8(a, n).op = order_table(n[2], A_FIELD)
    BY <1>5, DecodedOps, SMT DEF decode_8, decode_8b
  <2>2. disassemble(a, n, mode).op = Two(in_str_9((n[2] \div 4) + 4), op_str_9(n[2] % 4), A_FIELD)
    BY <1>1, <1>5, ShownOps, SMT DEF disassemble, disasm_9
  <2> QED BY <1>1, <1>2, <1>5, <2>1, <2>2, OrderTable, OneOperation, SMT DEF AgreeOp
<1>6. CASE n[1] \in 2 .. 9
  <2>1. /\ decode_82(n).op = disasm_82(n).op /\ decode_84_85(n).op = disasm_84_85(n).op
        /\ decode_83(a, n).op = disasm_83(a, n).op
        /\ decode_86_87(a, n).op = disasm_86_87(a, n).op
        /\ decode_88_89(a, n).op = disasm_88_89(a, n).op
    <3>1. decode_82(n).op = disasm_82(n).op
      BY ShownOps, DecodedOps, SMT DEF decode_82, disasm_82
    <3>2. decode_84_85(n).op = disasm_84_85(n).op
      BY ShownOps, DecodedOps, SMT DEF decode_84_85, disasm_84_85
    <3>3. decode_83(a, n).op = disasm_83(a, n).op
      BY ShownOps, DecodedOps, SMT DEF decode_83, disasm_83
    <3>4. decode_86_87(a, n).op = disasm_86_87(a, n).op
      BY ShownOps, DecodedOps, SMT DEF decode_86_87, disasm_86_87
    <3>5. decode_88_89(a, n).op = disasm_88_89(a, n).op
      BY ShownOps, DecodedOps, SMT DEF decode_88_89, disasm_88_89
    <3> QED BY <3>1, <3>2, <3>3, <3>4, <3>5
  <2>2. decode_8(a, n).op = disasm_8(a, n, mode).op
    BY <1>6, <2>1, SMT DEF decode_8, disasm_8
  <2> QED BY <1>1, <1>2, <1>3, <1>6, <2>2, OneOperation, SMT DEF AgreeOp
<1>7. CASE n[1] \in {12, 13, 14, 15}
  <2>1. decode_8(a, n) = decode_long(a, n)
    BY <1>7, SMT DEF decode_8
  <2>2. /\ n[1] = 12 => decode_long(a, n).op = Named("GOLONG")
        /\ n[1] = 13 => decode_long(a, n).op = Named("GOVLNG")
        /\ n[1] = 14 => decode_long(a, n).op = Named("GOSUBL")
        /\ n[1] = 15 => decode_long(a, n).op = Named("GOSBVL")
    BY SMT DEF decode_long, Jump, Decoded
  <2>3. /\ n[1] = 12 => disasm_8(a, n, mode).op = Named("GOLONG")
        /\ n[1] = 13 => disasm_8(a, n, mode).op = Named("GOSBVL")
        /\ n[1] = 14 => disasm_8(a, n, mode).op = Named("GOSUBL")
        /\ n[1] = 15 => disasm_8(a, n, mode).op = Named("GOSBVL")
    BY ShownOps, SMT DEF disasm_8, disasm_8c_8e, disasm_8d_8f
  <2>4. ~SameAs(Named("GOVLNG"), Named("GOSBVL"))
    BY KindOfOp, SMT DEF SameAs, Named
  <2> QED BY <1>1, <1>2, <1>3, <1>7, <2>1, <2>2, <2>3, <2>4, OneOperation, SMT DEF AgreeOp
<1> QED BY <1>1, <1>4, <1>5, <1>6, <1>7, SMT

\* Opcodes 6 and 7: GOTO and GOSUB.
LEMMA AgreeOpJumps ==
    ASSUME NEW a \in Nat, NEW n \in InstructionWord, NEW mode \in Modes, n[0] \in {6, 7}
    PROVE  AgreeOp(a, n, mode)
<1>1. OtherOperation(n, mode) <=> n[0] = 6 /\ read_nibbles(n, 1, 3) = 4 /\ n[4] # 0
  BY OtherOperations, Displacements, SMT
<1>2. CASE n[0] = 6
  <2>1. /\ disassemble(a, n, mode) = disasm_6(a, n)
        /\ step_instruction(a, n) = decode_6(a, n)
    BY <1>2, SMT DEF disassemble, step_instruction
  <2>2. CASE read_nibbles(n, 1, 3) = 3
    <3>1. disasm_6(a, n).op = Named("NOP4") /\ decode_6(a, n).op = Named("NOP4")
      BY <2>2, ShownOps, DecodedOps, SMT DEF disasm_6, decode_6
    <3> QED BY <1>1, <2>1, <2>2, <3>1, OneOperation, SMT DEF AgreeOp
  <2>3. CASE read_nibbles(n, 1, 3) = 4
    <3>1. disasm_6(a, n).op = Named("NOP5")
      BY <2>3, ShownOps, SMT DEF disasm_6
    <3>2. decode_6(a, n).op = IF n[4] = 0 THEN Named("NOP5") ELSE Nothing
      BY <2>3, SMT DEF decode_6, On, Decoded
    <3>3. ~SameAs(Nothing, Named("NOP5"))
      BY KindOfOp, SMT DEF SameAs, Named, Nothing, None
    <3> QED BY <1>1, <1>2, <2>1, <2>3, <3>1, <3>2, <3>3, OneOperation, SMT DEF AgreeOp
  <2>4. CASE read_nibbles(n, 1, 3) \notin {3, 4}
    <3>1. disasm_6(a, n).op = Named("GOTO") /\ decode_6(a, n).op = Named("GOTO")
      BY <2>4, ShownOps, DecodedOps, SMT DEF disasm_6, decode_6
    <3> QED BY <1>1, <2>1, <2>4, <3>1, OneOperation, SMT DEF AgreeOp
  <2> QED BY <2>2, <2>3, <2>4
<1>3. CASE n[0] = 7
  <2>1. /\ disassemble(a, n, mode) = disasm_7(a, n)
        /\ step_instruction(a, n) = decode_7(a, n)
    BY <1>3, SMT DEF disassemble, step_instruction
  <2>2. disasm_7(a, n).op = Named("GOSUB") /\ decode_7(a, n).op = Named("GOSUB")
    BY ShownOps, SMT DEF disasm_7, decode_7, Decoded
  <2> QED BY <1>1, <1>3, <2>1, <2>2, OneOperation, SMT DEF AgreeOp
<1> QED BY <1>2, <1>3

\* Opcodes 4 and 5: branches on the carry.
LEMMA AgreeOpCarry ==
    ASSUME NEW a \in Nat, NEW n \in InstructionWord, NEW mode \in Modes, n[0] \in {4, 5}
    PROVE  AgreeOp(a, n, mode)
<1>1. OtherOperation(n, mode) <=> n[0] = 5 /\ read_nibbles(n, 1, 2) = 2
  BY OtherOperations, Displacements, SMT
<1>2. /\ disassemble(a, n, mode) = disasm_4_5(a, n)
      /\ step_instruction(a, n) = decode_4_5(a, n)
  BY SMT DEF disassemble, step_instruction
<1>3. CASE read_nibbles(n, 1, 2) # 2
  <2>1. disasm_4_5(a, n).op = Named(IF n[0] = 4 THEN "GOC" ELSE "GONC")
    <3>1. disasm_4_5(a, n) = Branch(a, n, 1, Named(IF n[0] = 4 THEN "GOC" ELSE "GONC"))
      BY <1>3, Zenon DEF disasm_4_5
    <3> QED BY <3>1, BranchOp
  <2>2. decode_4_5(a, n).op = Named(IF n[0] = 4 THEN "GOC" ELSE "GONC")
    <3>1. decode_4_5(a, n) = Test(a, n, 1, Named(IF n[0] = 4 THEN "GOC" ELSE "GONC"))
      BY <1>3, Zenon DEF decode_4_5
    <3> QED BY <3>1, TestOp
  <2> QED BY <1>1, <1>2, <1>3, <2>1, <2>2, OneOperation DEF AgreeOp
<1>4. CASE read_nibbles(n, 1, 2) = 2
  <2>1. disasm_4_5(a, n).op = Named("NOP3")
    BY <1>4, ShownOp, BranchOp, Zenon DEF disasm_4_5
  <2>2. CASE n[0] = 4
    <3>1. decode_4_5(a, n).op = Named("NOP3")
      BY <1>4, <2>2, OnOp, TestOp, Zenon DEF decode_4_5
    <3> QED BY <1>1, <1>2, <2>1, <2>2, <3>1, OneOperation, SMT DEF AgreeOp
  <2>3. CASE n[0] = 5
    <3>1. decode_4_5(a, n).op = Named("GONC")
      BY <2>3, DecodedOps, SMT DEF decode_4_5
    <3>2. ~SameAs(Named("GONC"), Named("NOP3"))
      BY KindOfOp, SMT DEF SameAs, Named
    <3> QED BY <1>1, <1>2, <1>4, <2>1, <2>3, <3>1, <3>2, SMT DEF AgreeOp
  <2> QED BY <2>2, <2>3
<1> QED BY <1>3, <1>4

\* Opcodes 0, 2, 3 and 9.
LEMMA AgreeOpOthers ==
    ASSUME NEW a \in Nat, NEW n \in InstructionWord, NEW mode \in Modes, n[0] \in {0, 2, 3, 9}
    PROVE  AgreeOp(a, n, mode)
<1>1. n[1] \in 0 .. 15 /\ n[2] \in 0 .. 15 /\ n[3] \in 0 .. 15 /\ ~OtherOperation(n, mode)
  BY NibblesAreNibbles, OtherOperations, SMT
<1>2. SUFFICES SameAs(step_instruction(a, n).op, disassemble(a, n, mode).op)
  BY <1>1 DEF AgreeOp
<1>3. CASE n[0] = 0 /\ n[1] = 14
  <2>1. Pair(n[3] % 8) = op_str_0(n[3] % 8)
    BY Zenon DEF Pair, op_str_0
  <2>2. decode_0e(n).op = logic_table(n[3], n[2])
    BY OnOp, TestOp, Zenon DEF decode_0e
  <2>3. disasm_0(n).op = Two(IF n[3] < 8 THEN "and" ELSE "or", op_str_0(n[3] % 8), n[2])
    BY <1>3, ShownOps, SMT DEF disasm_0
  <2>4. /\ disassemble(a, n, mode) = disasm_0(n)
        /\ step_instruction(a, n) = decode_0e(n)
    BY <1>3, SMT DEF disassemble, step_instruction
  <2> QED BY <2>1, <2>2, <2>3, <2>4, OneOperation DEF logic_table
<1>4. CASE n[0] = 0 /\ n[1] # 14
  <2>1. disasm_0(n).op = Named(opcode_0_tbl(n[1]))
    BY <1>4, ShownOp, BranchOp, Zenon DEF disasm_0
  <2>2. decode_0(n).op = Named(opcode_0_tbl(n[1]))
    <3>1. n[1] \in 0 .. 3 => decode_0(n).op = Named(opcode_0_tbl(n[1]))
      BY DecodedOps, SMT DEF decode_0, opcode_0_tbl
    <3>2. n[1] \in 4 .. 13 => decode_0(n).op = Named(opcode_0_tbl(n[1]))
      BY DecodedOps, SMT DEF decode_0, opcode_0_tbl
    <3>3. n[1] = 15 => decode_0(n).op = Named(opcode_0_tbl(n[1]))
      BY DecodedOps, SMT DEF decode_0, opcode_0_tbl
    <3> QED BY <1>1, <1>4, <3>1, <3>2, <3>3, SMT
  <2>3. /\ disassemble(a, n, mode) = disasm_0(n)
        /\ step_instruction(a, n) = decode_0(n)
    BY <1>4, SMT DEF disassemble, step_instruction
  <2> QED BY <2>1, <2>2, <2>3, OneOperation
<1>5. CASE n[0] \in {2, 3}
  <2>1. /\ load_p(n).op = Op("load", "P", None, NoField, n[1])
        /\ load_c(n).op = Op("load", "C", None, NoField, n[1] + 1)
    BY OnOp, TestOp, Zenon DEF load_p, load_c
  <2>2. /\ disasm_2(n).op = Op("load", "P", None, NoField, n[1])
        /\ disasm_3(n).op = Op("load", "C", None, NoField, n[1] + 1)
    BY ShownOp, BranchOp, Zenon DEF disasm_2, disasm_3
  <2>3. /\ n[0] = 2 => disassemble(a, n, mode) = disasm_2(n) /\ step_instruction(a, n) = load_p(n)
        /\ n[0] = 3 => disassemble(a, n, mode) = disasm_3(n) /\ step_instruction(a, n) = load_c(n)
    BY SMT DEF disassemble, step_instruction
  <2> QED BY <1>5, <2>1, <2>2, <2>3, OneOperation
<1>6. CASE n[0] = 9
  <2>1. /\ disassemble(a, n, mode) = disasm_9(a, n)
        /\ step_instruction(a, n) = decode_9(a, n)
    BY <1>6, SMT DEF disassemble, step_instruction
  <2>2. CASE n[1] < 8
    <3>1. decode_9(a, n).op = equal_table(n[2], n[1])
      BY <2>2, DecodedOps, SMT DEF decode_9
    <3>2. disasm_9(a, n).op =
             Two(in_str_9(n[2] \div 4), op_str_9((n[2] % 4) + (IF n[2] >= 8 THEN 4 ELSE 0)), n[1])
      BY <1>1, <1>6, <2>2, ShownOps, SMT DEF disasm_9
    <3> QED BY <1>1, <2>1, <3>1, <3>2, EqualTable
  <2>3. CASE n[1] >= 8
    <3>1. decode_9(a, n).op = order_table(n[2], n[1] - 8)
      BY <1>1, <2>3, DecodedOps, SMT DEF decode_9
    <3>2. disasm_9(a, n).op = Two(in_str_9((n[2] \div 4) + 4), op_str_9(n[2] % 4), n[1] - 8)
      BY <1>1, <1>6, <2>3, ShownOps, SMT DEF disasm_9
    <3> QED BY <1>1, <2>1, <3>1, <3>2, OrderTable, OneOperation
  <2> QED BY <1>1, <2>2, <2>3, SMT
<1> QED BY <1>3, <1>4, <1>5, <1>6

\* For every word at every address.
LEMMA EveryOperationAgrees ==
    ASSUME NEW a \in Nat, NEW n \in InstructionWord, NEW mode \in Modes
    PROVE  AgreeOp(a, n, mode)
<1>1. n[0] \in 0 .. 15
  BY NibblesAreNibbles, SMT
<1>2. n[0] = 8 => AgreeOp(a, n, mode)
  BY AgreeOp80, AgreeOp808, AgreeOp81, AgreeOp8
<1> QED BY <1>1, <1>2, AgreeOpA_F, AgreeOp1, AgreeOpJumps, AgreeOpCarry, AgreeOpOthers, SMT

----------------------------------------------------------------------------
(* The theorem.                                                            *)

\* disassemble shows the operation step_instruction executes, on the same registers and field,
\* and the address it jumps to, for every instruction but the listed deviations of disasm.c.
THEOREM SameInstructionShown == Spec => []SameInstruction
<1>1. FetchesNibbles => SameInstruction
  <2> SUFFICES ASSUME FetchesNibbles PROVE SameInstruction
    OBVIOUS
  <2>1. pc \in Nat /\ Word \in InstructionWord
    BY WordIsAWord DEF FetchesNibbles
  <2>2. \A mode \in Modes : AgreeOp(pc, Word, mode)
    BY <2>1, EveryOperationAgrees
  <2>3. SameOperation
    BY <2>2, Zenon DEF AgreeOp, SameOperation, Decoding, Listing
  <2>4. SameTarget
    BY <2>1, EveryWordAgrees, Zenon DEF Agree, SameTarget, Decoding, Listing
  <2> QED BY <2>3, <2>4 DEF SameInstruction
<1> QED BY <1>1, NibblesAreFetched, PTL

----------------------------------------------------------------------------
(* Induction, on sets of numbers.                                          *)

\* Induction on natural numbers, for a set instead of a predicate.
LEMMA Inductive ==
    ASSUME NEW T, 0 \in T, \A n \in Nat : n \in T => n + 1 \in T
    PROVE  Nat \subseteq T
<1> SUFFICES ASSUME Nat \ T # {} PROVE FALSE
  OBVIOUS
<1> DEFINE R == OpToRel(<, Nat)
<1>1. IsWellFoundedOn(R, Nat)
  BY NatLessThanWellFounded
<1>2. \A x, y \in Nat : x < y => <<x, y>> \in R
  BY DEF OpToRel
<1> HIDE DEF R
<1>3. PICK x \in Nat \ T : \A y \in Nat \ T : <<y, x>> \notin R
  BY <1>1, WFMin
<1>4. x - 1 \in Nat /\ x - 1 < x /\ x - 1 + 1 = x
  OBVIOUS
<1>5. <<x - 1, x>> \in R
  BY <1>2, <1>4
<1>6. x - 1 \in T
  BY <1>3, <1>4, <1>5
<1> QED BY <1>4, <1>6

\* What holds at one end of an interval, and goes from each number to the next, holds at all.
LEMMA Upwards ==
    ASSUME NEW s \in Int, NEW e \in Int, NEW T,
           s \in T, \A i \in s .. e - 1 : i \in T => i + 1 \in T
    PROVE  s .. e \subseteq T
<1> DEFINE N == {n \in Nat : s + n \in T \/ s + n > e}
<1>1. 0 \in N
  OBVIOUS
<1>2. ASSUME NEW n \in Nat, n \in N PROVE n + 1 \in N
  <2>1. CASE s + n + 1 > e
    BY <2>1
  <2>2. CASE s + n + 1 <= e
    <3>1. s + n \in s .. e - 1 /\ s + n \in T
      BY <1>2, <2>2
    <3> QED BY <3>1
  <2> QED BY <2>1, <2>2
<1>3. Nat \subseteq N
  <2> HIDE DEF N
  <2> QED BY <1>1, <1>2, Inductive
<1>4. ASSUME NEW i \in s .. e PROVE i \in T
  <2>1. i - s \in Nat /\ s + (i - s) = i /\ ~(i > e)
    OBVIOUS
  <2>2. i - s \in N
    BY <1>3, <2>1
  <2> QED BY <2>1, <2>2
<1> QED BY <1>4

LEMMA Downwards ==
    ASSUME NEW s \in Int, NEW e \in Int, NEW T,
           e \in T, \A i \in s + 1 .. e : i \in T => i - 1 \in T
    PROVE  s .. e \subseteq T
<1> DEFINE N == {i \in Int : -i \in T}
<1>1. -e \in N
  OBVIOUS
<1>2. ASSUME NEW i \in -e .. -s - 1, i \in N PROVE i + 1 \in N
  <2>1. -i \in s + 1 .. e /\ -i \in T /\ -(i + 1) = (-i) - 1
    BY <1>2
  <2> QED BY <2>1
<1>3. -e .. -s \subseteq N
  <2>1. -e \in Int /\ -s \in Int
    OBVIOUS
  <2> HIDE DEF N
  <2> QED BY <1>1, <1>2, <2>1, Upwards
<1>4. ASSUME NEW i \in s .. e PROVE i \in T
  <2>1. -i \in -e .. -s /\ -(-i) = i
    OBVIOUS
  <2>2. -i \in N
    BY <1>3, <2>1
  <2> QED BY <2>1, <2>2
<1> QED BY <1>4

\* What is carried into a nibble is F of the nibble before and of what is carried into that.
Carried(car, s, k, F) == \A i \in -1 .. 15 : car[i] = IF i < s THEN k ELSE F[<<i, car[i - 1]>>]

LEMMA Chain ==
    ASSUME NEW K, NEW k \in K, NEW s \in 0 .. 15, NEW F \in [(0 .. 15) \X K -> K]
    PROVE  \E car \in [-1 .. 15 -> K] : Carried(car, s, k, F)
<1> DEFINE Upto(n) == \E car \in [-1 .. 15 -> K] :
              \A i \in -1 .. n : car[i] = IF i < s THEN k ELSE F[<<i, car[i - 1]>>]
           T == {n \in -1 .. 15 : Upto(n)}
<1>1. -1 \in T
  <2> DEFINE car == [i \in -1 .. 15 |-> k]
  <2>1. car \in [-1 .. 15 -> K]
    BY SMT
  <2>2. \A i \in -1 .. -1 : car[i] = IF i < s THEN k ELSE F[<<i, car[i - 1]>>]
    OBVIOUS
  <2>3. Upto(-1)
    <3> HIDE DEF car
    <3> QED BY <2>1, <2>2
  <2> QED BY <2>3
<1>2. ASSUME NEW n \in -1 .. 14, n \in T PROVE n + 1 \in T
  <2>1. PICK car \in [-1 .. 15 -> K] :
              \A i \in -1 .. n : car[i] = IF i < s THEN k ELSE F[<<i, car[i - 1]>>]
    BY <1>2
  <2> DEFINE x == IF n + 1 < s THEN k ELSE F[<<n + 1, car[n]>>]
             new == [car EXCEPT ![n + 1] = x]
  <2>2. x \in K
    OBVIOUS
  <2> HIDE DEF x
  <2>3. new \in [-1 .. 15 -> K] /\ new[n + 1] = x /\ \A i \in -1 .. n : new[i] = car[i]
    BY <2>2
  <2> HIDE DEF new
  <2>4. ASSUME NEW i \in -1 .. n + 1
        PROVE  new[i] = IF i < s THEN k ELSE F[<<i, new[i - 1]>>]
    <3>1. CASE i = n + 1
      <4>1. i - 1 = n /\ new[n] = car[n]
        BY <2>3, <3>1
      <4> QED BY <2>3, <3>1, <4>1 DEF x
    <3>2. CASE i \in -1 .. n
      <4>1. CASE i < s
        BY <2>1, <2>3, <3>2, <4>1
      <4>2. CASE ~(i < s)
        <5>1. i - 1 \in -1 .. n
          BY <3>2, <4>2
        <5> QED BY <2>1, <2>3, <3>2, <4>2, <5>1
      <4> QED BY <4>1, <4>2
    <3>3. i = n + 1 \/ i \in -1 .. n
      OBVIOUS
    <3> QED BY <3>1, <3>2, <3>3
  <2>5. Upto(n + 1)
    BY <2>3, <2>4
  <2> QED BY <2>5
<1>3. -1 .. 15 \subseteq T
  <2> HIDE DEF T
  <2> QED BY <1>1, <1>2, Upwards
<1>4. 15 \in T
  <2> HIDE DEF T
  <2> QED BY <1>3
<1> QED BY <1>4 DEF Carried

----------------------------------------------------------------------------
(* The instructions the theorems are about.                                *)

Working == {"A", "B", "C", "D"}
Wide == Working \cup {"R0", "R1", "R2", "R3", "R4"}
FieldCode == 0 .. 15

Binary == {"add", "sub", "rsub", "and", "or", "<", ">", "<=", ">="}
Unary == {"inc", "dec", "neg", "not", "zero"} \cup Shift

\* What the decoder asks for: registers that exist and, in a move, differ; fields and numbers.
Moves(o) ==
    \/ o.to \in Wide /\ o.from \in Wide /\ o.to # o.from /\ o.field \in FieldCode
    \/ o.to \in {"DAT0", "DAT1"} /\ o.from \in Working /\ o.field \in FieldCode
    \/ o.to \in {"DAT0", "DAT1"} /\ o.from \in Working /\ o.field = NoField /\ o.n \in 1 .. 16
    \/ o.to \in Working /\ o.from \in {"DAT0", "DAT1"} /\ o.field \in FieldCode \cup {NoField}
    \/ o.to \in {"D0", "D1"} /\ o.from \in Working /\ o.field \in {A_FIELD, IN_FIELD}
    \/ o.to \in {"P", "C"} /\ o.field = NoField

Exchanges(o) ==
    \/ o.to \in Wide /\ o.from \in Wide /\ o.to # o.from /\ o.field \in FieldCode
    \/ o.to \in Working /\ o.from \in {"D0", "D1"} /\ o.field \in {A_FIELD, IN_FIELD}
    \/ o.field = NoField

Sound(o) ==
    /\ o.kind \in Binary => o.to \in Working /\ o.from \in Working /\ o.field \in FieldCode
    /\ o.kind \in Unary => o.to \in Working /\ o.from = None /\ o.field \in FieldCode
    /\ o.kind \in Constant =>
          \/ o.to \in Working /\ o.field \in FieldCode /\ o.n \in 1 .. 16
          \/ o.to \in {"D0", "D1"} /\ o.field = NoField
    /\ o.kind = "copy" => Moves(o)
    /\ o.kind = "exchange" => Exchanges(o)

Checked == Binary \cup Unary \cup Constant \cup {"copy", "exchange"}

LEMMA OtherKinds ==
    ASSUME NEW o, o.kind \notin Checked
    PROVE  Sound(o)
BY DEF Sound, Checked

LEMMA SoundTables ==
    ASSUME NEW x \in 0 .. 15, NEW f \in FieldCode
    PROVE  /\ Sound(add_table(x, f)) /\ Sound(move_table(x, f)) /\ Sound(sub_table(x, f))
           /\ Sound(shift_table(x, f)) /\ Sound(order_table(x, f)) /\ Sound(equal_table(x, f))
           /\ Sound(logic_table(x, f))
<1> USE DEF Sound, Moves, Exchanges, Binary, Unary, Shift, Constant, Working, Wide, Two, One, Op,
            Pair, Reg
<1>1. Sound(add_table(x, f))
  BY SMT DEF add_table
<1>2. Sound(move_table(x, f))
  BY SMTT(30) DEF move_table
<1>3. Sound(sub_table(x, f))
  BY SMTT(30) DEF sub_table
<1>4. Sound(shift_table(x, f))
  BY SMT DEF shift_table
<1>5. Sound(order_table(x, f))
  BY SMT DEF order_table
<1>6. Sound(equal_table(x, f))
  BY SMT DEF equal_table
<1>7. Sound(logic_table(x, f))
  BY SMT DEF logic_table
<1> QED BY <1>1, <1>2, <1>3, <1>4, <1>5, <1>6, <1>7

LEMMA SoundMoves ==
    ASSUME NEW x \in 0 .. 15, NEW f \in FieldCode
    PROVE  /\ Sound(save_scratch(x, f)) /\ Sound(recall_scratch(x, f))
           /\ Sound(exchange_scratch(x, f))
           /\ \A k : Sound(Transfer(x, f, k))
           /\ \A k \in 1 .. 16 : Sound(Transfer(x, NoField, k))
<1> USE DEF Sound, Moves, Exchanges, Binary, Unary, Shift, Constant, Working, Wide, Op, Scratch,
            AorC, FieldCode
<1>1. Sound(save_scratch(x, f)) /\ Sound(recall_scratch(x, f))
  BY SMT DEF save_scratch, recall_scratch
<1>2. Sound(exchange_scratch(x, f))
  BY SMT DEF exchange_scratch
<1>3. \A k : Sound(Transfer(x, f, k))
  BY SMT DEF Transfer
<1>4. \A k \in 1 .. 16 : Sound(Transfer(x, NoField, k))
  BY SMT DEF Transfer
<1> QED BY <1>1, <1>2, <1>3, <1>4

\* An operation of a kind that nothing is claimed about.
LEMMA SoundOthers ==
    ASSUME NEW kind, kind \notin Checked
    PROVE  \A to, from, f, k : Sound(Op(kind, to, from, f, k))
BY KindOfOp, OtherKinds

LEMMA SoundNothing == Sound(Nothing)
<1>1. None \notin Checked
  BY DEF None, Checked, Binary, Unary, Shift, Constant
<1> QED BY <1>1, SoundOthers DEF Nothing, Named

LEMMA SoundPointers ==
    ASSUME NEW n \in InstructionWord, n[1] >= 3
    PROVE  Sound(decode_group_1(n).op)
<1>1. /\ n[1] \in 0 .. 15 /\ n[2] \in 0 .. 15 /\ n[3] \in 0 .. 15
  BY NibblesAreNibbles
<1>2. CASE n[1] = 3
  <2>1. decode_group_1(n).op = decode_13(n).op
    BY <1>2 DEF decode_group_1
  <2>2. PICK d \in {"D0", "D1"}, r \in Working, f \in {A_FIELD, IN_FIELD} :
          decode_13(n).op \in {Op("copy", d, r, f, 0), Op("exchange", r, d, f, 0)}
    BY DecodedOps, SMT DEF decode_13, Pointer, AorC, Working
  <2>3. Sound(Op("copy", d, r, f, 0)) /\ Sound(Op("exchange", r, d, f, 0))
    BY SMT DEF Sound, Moves, Exchanges, Binary, Unary, Shift, Constant, Op
  <2> QED BY <2>1, <2>2, <2>3
<1>3. CASE n[1] = 4
  <2>1. decode_group_1(n).op = Transfer(n[2], IF n[2] < 8 THEN A_FIELD ELSE B_FIELD, 0)
    BY <1>3, DecodedOps DEF decode_group_1, decode_14
  <2>2. A_FIELD \in FieldCode /\ B_FIELD \in FieldCode
    BY DEF FieldCode, A_FIELD, B_FIELD
  <2>3. Sound(Transfer(n[2], A_FIELD, 0)) /\ Sound(Transfer(n[2], B_FIELD, 0))
    BY <1>1, <2>2, SoundMoves
  <2> QED BY <2>1, <2>3
<1>4. CASE n[1] = 5
  <2>1. decode_group_1(n).op = IF n[2] >= 8 THEN Transfer(n[2], NoField, n[3] + 1)
                                            ELSE Transfer(n[2], n[3], 0)
    BY <1>4, DecodedOps DEF decode_group_1, decode_15
  <2>2. n[3] \in FieldCode /\ n[3] + 1 \in 1 .. 16
    BY <1>1 DEF FieldCode
  <2>3. Sound(Transfer(n[2], NoField, n[3] + 1)) /\ Sound(Transfer(n[2], n[3], 0))
    BY <1>1, <2>2, SoundMoves
  <2> QED BY <2>1, <2>3
<1>5. CASE n[1] >= 6
  <2>1. decode_group_1(n).op = decode_pointer(n).op
    BY <1>1, <1>5 DEF decode_group_1
  <2>2. CASE n[1] \in {6, 7, 8, 12}
    <3> DEFINE kind == IF n[1] \in {6, 7} THEN "addcon" ELSE "subcon"
               d == IF n[1] \in {6, 8, 9, 10, 11} THEN "D0" ELSE "D1"
    <3>1. decode_pointer(n) = On(3, Op(kind, d, None, NoField, n[2] + 1))
      BY <2>2, SMT DEF decode_pointer
    <3>2. decode_pointer(n).op = Op(kind, d, None, NoField, n[2] + 1)
      BY <3>1, OnOp
    <3>3. Sound(Op(kind, d, None, NoField, n[2] + 1))
      BY SMT DEF Sound, Binary, Unary, Shift, Constant, Op
    <3> QED BY <2>1, <3>2, <3>3
  <2>3. CASE n[1] \notin {6, 7, 8, 12}
    <3>1. \E d, k : decode_pointer(n).op = Op("load", d, None, NoField, k)
      <4>1. n[1] \in {9, 13} \/ n[1] \in {10, 14} \/ n[1] \in {11, 15}
        BY <1>1, <1>5, <2>3
      <4> QED BY <2>3, <4>1, DecodedOps, SMT DEF decode_pointer
    <3> QED BY <2>1, <3>1, SoundOthers DEF Checked, Binary, Unary, Shift, Constant
  <2> QED BY <2>2, <2>3
<1> QED BY <1>1, <1>2, <1>3, <1>4, <1>5

LEMMA SoundGroup1 ==
    ASSUME NEW n \in InstructionWord
    PROVE  Sound(decode_group_1(n).op)
<1>1. n[1] \in 0 .. 15 /\ n[2] \in 0 .. 15 /\ W_FIELD \in FieldCode
  BY NibblesAreNibbles DEF W_FIELD, FieldCode
<1>2. /\ n[1] = 0 => decode_group_1(n).op = save_scratch(n[2], W_FIELD)
      /\ n[1] = 1 => decode_group_1(n).op = recall_scratch(n[2], W_FIELD)
      /\ n[1] = 2 => decode_group_1(n).op = exchange_scratch(n[2], W_FIELD)
  BY DecodedOps DEF decode_group_1
<1> QED BY <1>1, <1>2, SoundMoves, SoundPointers

LEMMA RegIsWorking == \A x \in 0 .. 15 : Reg(x) \in Working
BY SMT DEF Reg, Working

\* Operations of a name only.
LEMMA SoundNames == \A kind : kind \notin Checked => Sound(Named(kind))
BY SoundOthers DEF Named

LEMMA SoundUnary ==
    ASSUME NEW kind \in Unary, NEW r \in Working, NEW f \in FieldCode
    PROVE  Sound(One(kind, r, f))
BY SMT DEF Sound, Binary, Unary, Shift, Constant, One, Op

LEMMA SoundConstant ==
    ASSUME NEW kind \in Constant, NEW r \in Working, NEW f \in FieldCode, NEW k \in 1 .. 16
    PROVE  Sound(Op(kind, r, None, f, k))
BY SMT DEF Sound, Binary, Unary, Shift, Constant, Op

LEMMA SoundGroup81 ==
    ASSUME NEW n \in InstructionWord
    PROVE  Sound(decode_81(n).op)
<1>1. /\ n[2] \in 0 .. 15 /\ n[3] \in 0 .. 15 /\ n[4] \in 0 .. 15 /\ n[5] \in 0 .. 15
      /\ n[5] + 1 \in 1 .. 16 /\ n[3] \in FieldCode /\ W_FIELD \in FieldCode
  BY NibblesAreNibbles DEF W_FIELD, FieldCode
<1>2. Reg(n[2]) \in Working /\ Reg(n[4]) \in Working
  BY <1>1, RegIsWorking
<1>3. CASE n[2] < 8
  <2>1. decode_81(n).op = One(IF n[2] < 4 THEN "slc" ELSE "src", Reg(n[2]), W_FIELD)
    BY <1>3, OnOp DEF decode_81, decode_81_circular
  <2>2. (IF n[2] < 4 THEN "slc" ELSE "src") \in Unary
    BY DEF Unary, Shift
  <2> QED BY <1>1, <1>2, <2>1, <2>2, SoundUnary
<1>4. CASE n[2] = 8
  <2>1. decode_81(n).op = Op(IF n[4] < 8 THEN "addcon" ELSE "subcon",
                             Reg(n[4]), None, n[3], n[5] + 1)
    BY <1>4, OnOp DEF decode_81, decode_818
  <2>2. (IF n[4] < 8 THEN "addcon" ELSE "subcon") \in Constant
    BY DEF Constant
  <2> QED BY <1>1, <1>2, <2>1, <2>2, SoundConstant
<1>5. CASE n[2] = 9
  <2>1. decode_81(n).op = One("srb", Reg(n[4]), n[3])
    BY <1>5, OnOp DEF decode_81, decode_819
  <2>2. "srb" \in Unary
    BY DEF Unary, Shift
  <2> QED BY <1>1, <1>2, <2>1, <2>2, SoundUnary
<1>6. CASE n[2] = 10
  <2>1. /\ n[4] = 0 => decode_81(n).op = save_scratch(n[5], n[3])
        /\ n[4] = 1 => decode_81(n).op = recall_scratch(n[5], n[3])
        /\ n[4] = 2 => decode_81(n).op = exchange_scratch(n[5], n[3])
        /\ n[4] > 2 => decode_81(n).op = Nothing
    BY <1>1, <1>6, DecodedOps DEF decode_81, decode_81a, decode_81a_copy
  <2> QED BY <1>1, <2>1, SoundMoves, SoundNothing
<1>7. CASE n[2] = 11
  <2>1. decode_81(n).op = decode_81b(n).op
    BY <1>7 DEF decode_81
  <2>2. \/ decode_81b(n).op = Nothing
        \/ \E kind \in {"PC=A", "PC=C", "A=PC", "C=PC", "APCEX", "CPCEX"} :
              decode_81b(n).op = Named(kind)
    BY <1>1, DecodedOps, SMT DEF decode_81b
  <2>3. \A kind \in {"PC=A", "PC=C", "A=PC", "C=PC", "APCEX", "CPCEX"} : kind \notin Checked
    BY SMT DEF Checked, Binary, Unary, Shift, Constant
  <2> QED BY <2>1, <2>2, <2>3, SoundNames, SoundNothing
<1>8. CASE n[2] > 11
  <2>1. decode_81(n).op = One("srb", Reg(n[2]), W_FIELD)
    BY <1>1, <1>8, OnOp DEF decode_81, decode_81_srb
  <2>2. "srb" \in Unary
    BY DEF Unary, Shift
  <2> QED BY <1>1, <1>2, <2>1, <2>2, SoundUnary
<1> QED BY <1>1, <1>3, <1>4, <1>5, <1>6, <1>7, <1>8

LEMMA SoundGroup80 ==
    ASSUME NEW a, NEW n \in InstructionWord
    PROVE  Sound(decode_group_80(a, n).op)
<1>1. n[2] \in 0 .. 15 /\ n[3] \in 0 .. 15
  BY NibblesAreNibbles
<1>2. CASE n[2] < 8
  <2> DEFINE kind == <<"OUT=CS", "OUT=C", "A=IN", "C=IN",
                       "UNCNFG", "CONFIG", "C=ID", "SHUTDN">>[n[2] + 1]
  <2>1. decode_group_80(a, n).op = Named(kind)
    BY <1>2, OnOp DEF decode_group_80, decode_80_bus
  <2>2. kind \notin Checked
    BY <1>1, <1>2, SMT DEF Checked, Binary, Unary, Shift, Constant
  <2> QED BY <2>1, <2>2, SoundNames
<1>3. CASE n[2] = 8
  <2>1. decode_group_80(a, n).op = decode_808(a, n).op
    BY <1>3 DEF decode_group_80
  <2> DEFINE kinds == {"INTON", "RSI", "load", "BUSCB", "bit=0", "bit=1", "?bit=0", "?bit=1",
                       "PC=@A", "BUSCD", "PC=@C", "INTOFF"}
             r == IF n[3] < 8 THEN "A" ELSE "C"
             d == decode_808(a, n)
  <2>2. \E kind \in kinds : \E to, k : d.op \in {Named(kind), Op(kind, to, None, NoField, k)}
    <3>1. CASE n[3] \in {0, 1, 3, 12, 13, 14, 15}
      <4>1. /\ n[3] = 0 => d.op = Named("INTON")
            /\ n[3] = 1 => d.op = Named("RSI")
            /\ n[3] = 3 => d.op = Named("BUSCB")
            /\ n[3] = 12 => d.op = Named("PC=@A")
            /\ n[3] = 13 => d.op = Named("BUSCD")
            /\ n[3] = 14 => d.op = Named("PC=@C")
            /\ n[3] = 15 => d.op = Named("INTOFF")
        BY DecodedOps, SMT DEF decode_808
      <4> QED BY <3>1, <4>1
    <3>2. CASE n[3] = 2
      <4>1. d.op = Op("load", "A", None, NoField, n[4] + 1)
        BY <3>2, DecodedOps, SMT DEF decode_808
      <4> QED BY <4>1
    <3>3. CASE n[3] \in {4, 5, 8, 9}
      <4>1. d.op = Op(IF n[3] % 2 = 0 THEN "bit=0" ELSE "bit=1", r, None, NoField, n[4])
        BY <3>3, DecodedOps, SMT DEF decode_808
      <4> QED BY <4>1
    <3>4. CASE n[3] \in {6, 7, 10, 11}
      <4>1. d.op = Op(IF n[3] \in {6, 10} THEN "?bit=0" ELSE "?bit=1", r, None, NoField, n[4])
        BY <3>4, DecodedOps, SMT DEF decode_808
      <4> QED BY <4>1
    <3> QED BY <1>1, <3>1, <3>2, <3>3, <3>4
  <2>3. \A kind \in kinds : kind \notin Checked
    BY SMT DEF Checked, Binary, Unary, Shift, Constant
  <2> QED BY <2>1, <2>2, <2>3, SoundNames, SoundOthers
<1>4. CASE n[2] > 8
  <2>1. decode_group_80(a, n).op = decode_80_p(n).op
    BY <1>1, <1>4 DEF decode_group_80
  <2>2. \/ \E kind \in {"C+P+1", "RESET", "BUSCC", "SREQ?"} : decode_80_p(n).op = Named(kind)
        \/ decode_80_p(n).op = Op("copy", "C", "P", NoField, n[3])
        \/ decode_80_p(n).op = Op("copy", "P", "C", NoField, n[3])
        \/ decode_80_p(n).op = Op("exchange", "C", "P", NoField, n[3])
    BY <1>1, <1>4, DecodedOps, SMT DEF decode_80_p
  <2>3. \A kind \in {"C+P+1", "RESET", "BUSCC", "SREQ?"} : kind \notin Checked
    BY SMT DEF Checked, Binary, Unary, Shift, Constant
  <2>4. /\ Sound(Op("copy", "C", "P", NoField, n[3]))
        /\ Sound(Op("copy", "P", "C", NoField, n[3]))
        /\ Sound(Op("exchange", "C", "P", NoField, n[3]))
    BY SMT DEF Sound, Moves, Exchanges, Binary, Unary, Shift, Constant, Op
  <2> QED BY <2>1, <2>2, <2>3, <2>4, SoundNames
<1> QED BY <1>1, <1>2, <1>3, <1>4

LEMMA SoundGroup8 ==
    ASSUME NEW a, NEW n \in InstructionWord
    PROVE  Sound(decode_8(a, n).op)
<1> DEFINE d == decode_8(a, n)
<1>1. n[1] \in 0 .. 15 /\ n[2] \in 0 .. 15 /\ A_FIELD \in FieldCode
  BY NibblesAreNibbles DEF A_FIELD, FieldCode
<1>2. CASE n[1] = 0
  BY <1>2, SoundGroup80 DEF decode_8
<1>3. CASE n[1] = 1
  BY <1>3, SoundGroup81 DEF decode_8
<1>4. CASE n[1] \in 2 .. 9
  <2> DEFINE kind == CASE n[1] = 2 -> "HST=0"  [] n[1] = 3 -> "?HST=0"
                       [] n[1] = 4 -> "ST=0"   [] n[1] = 5 -> "ST=1"
                       [] n[1] = 6 -> "?ST=0"  [] n[1] = 7 -> "?ST=1"
                       [] n[1] = 8 -> "?P#"    [] n[1] = 9 -> "?P="
  <2>1. d.op = Op(kind, None, None, NoField, n[2])
    BY <1>4, OnOp, TestOp, SMT
       DEF decode_8, decode_82, decode_83, decode_84_85, decode_86_87, decode_88_89
  <2>2. kind \notin Checked
    BY <1>4, SMT DEF Checked, Binary, Unary, Shift, Constant
  <2> QED BY <2>1, <2>2, SoundOthers
<1>5. CASE n[1] = 10
  <2>1. d.op = equal_table(n[2], A_FIELD)
    BY <1>5, TestOp DEF decode_8, decode_8a
  <2> QED BY <1>1, <2>1, SoundTables
<1>6. CASE n[1] = 11
  <2>1. d.op = order_table(n[2], A_FIELD)
    BY <1>6, TestOp DEF decode_8, decode_8b
  <2> QED BY <1>1, <2>1, SoundTables
<1>7. CASE n[1] > 11
  <2> DEFINE kind == CASE n[1] = 12 -> "GOLONG" [] n[1] = 13 -> "GOVLNG"
                       [] n[1] = 14 -> "GOSUBL" [] n[1] = 15 -> "GOSBVL"
  <2>1. d.op = decode_long(a, n).op
    BY <1>1, <1>7 DEF decode_8
  <2>2. decode_long(a, n).op = Named(kind)
    BY <1>1, <1>7, DecodedOps, SMT DEF decode_long, Decoded
  <2>3. kind \notin Checked
    BY <1>1, <1>7, SMT DEF Checked, Binary, Unary, Shift, Constant
  <2> QED BY <2>1, <2>2, <2>3, SoundNames
<1> QED BY <1>1, <1>2, <1>3, <1>4, <1>5, <1>6, <1>7

LEMMA SoundArithmetic ==
    ASSUME NEW a, NEW n \in InstructionWord
    PROVE  /\ Sound(decode_9(a, n).op) /\ Sound(decode_a(n).op) /\ Sound(decode_b(n).op)
           /\ Sound(decode_c(n).op) /\ Sound(decode_d(n).op) /\ Sound(decode_e(n).op)
           /\ Sound(decode_f(n).op) /\ Sound(decode_0e(n).op)
<1>1. /\ n[1] \in 0 .. 15 /\ n[2] \in 0 .. 15 /\ n[3] \in 0 .. 15
      /\ n[1] \in FieldCode /\ n[2] \in FieldCode /\ A_FIELD \in FieldCode
      /\ n[1] >= 8 => n[1] - 8 \in FieldCode
  BY NibblesAreNibbles DEF A_FIELD, FieldCode
<1>2. Sound(decode_9(a, n).op)
  <2>1. decode_9(a, n).op = IF n[1] < 8 THEN equal_table(n[2], n[1])
                                         ELSE order_table(n[2], n[1] - 8)
    BY TestOp DEF decode_9
  <2> QED BY <1>1, <2>1, SoundTables
<1>3. Sound(decode_a(n).op)
  <2>1. decode_a(n).op = IF n[1] < 8 THEN add_table(n[2], n[1]) ELSE move_table(n[2], n[1] - 8)
    BY OnOp DEF decode_a
  <2> QED BY <1>1, <2>1, SoundTables
<1>4. Sound(decode_b(n).op)
  <2>1. decode_b(n).op = IF n[1] < 8 THEN sub_table(n[2], n[1]) ELSE shift_table(n[2], n[1] - 8)
    BY OnOp DEF decode_b
  <2> QED BY <1>1, <2>1, SoundTables
<1>5. /\ decode_c(n).op = add_table(n[1], A_FIELD)
      /\ decode_d(n).op = move_table(n[1], A_FIELD)
      /\ decode_e(n).op = sub_table(n[1], A_FIELD)
      /\ decode_f(n).op = shift_table(n[1], A_FIELD)
      /\ decode_0e(n).op = logic_table(n[3], n[2])
  BY OnOp DEF decode_c, decode_d, decode_e, decode_f, decode_0e
<1>6. /\ Sound(decode_c(n).op) /\ Sound(decode_d(n).op) /\ Sound(decode_e(n).op)
      /\ Sound(decode_f(n).op) /\ Sound(decode_0e(n).op)
  BY <1>1, <1>5, SoundTables
<1> QED BY <1>2, <1>3, <1>4, <1>6

LEMMA SoundControl ==
    ASSUME NEW a, NEW n \in InstructionWord
    PROVE  /\ n[1] # 14 => Sound(decode_0(n).op)
           /\ Sound(load_p(n).op) /\ Sound(load_c(n).op) /\ Sound(decode_4_5(a, n).op)
           /\ Sound(decode_6(a, n).op) /\ Sound(decode_7(a, n).op)
<1>1. n[1] \in 0 .. 15
  BY NibblesAreNibbles
<1>2. ASSUME n[1] # 14 PROVE Sound(decode_0(n).op)
  <2>1. CASE n[1] \in 0 .. 3
    <3> DEFINE kind == <<"RTNSXM", "RTN", "RTNSC", "RTNCC">>[n[1] + 1]
    <3>1. decode_0(n).op = Named(kind)
      BY <2>1, DecodedOps DEF decode_0
    <3>2. kind \notin Checked
      BY <2>1, SMT DEF Checked, Binary, Unary, Shift, Constant
    <3> QED BY <3>1, <3>2, SoundNames
  <2>2. CASE n[1] \in 4 .. 13
    <3> DEFINE kind == <<"SETHEX", "SETDEC", "RSTK=C", "C=RSTK", "CLRST",
                         "C=ST", "ST=C", "CSTEX", "P=P+1", "P=P-1">>[n[1] - 3]
    <3>1. decode_0(n).op = Named(kind)
      BY <2>2, DecodedOps DEF decode_0
    <3>2. kind \notin Checked
      BY <2>2, SMT DEF Checked, Binary, Unary, Shift, Constant
    <3> QED BY <3>1, <3>2, SoundNames
  <2>3. CASE n[1] = 15
    <3>1. decode_0(n).op = Named("RTI")
      BY <2>3, DecodedOps DEF decode_0
    <3>2. "RTI" \notin Checked
      BY SMT DEF Checked, Binary, Unary, Shift, Constant
    <3> QED BY <3>1, <3>2, SoundNames
  <2> QED BY <1>1, <1>2, <2>1, <2>2, <2>3
<1>3. Sound(load_p(n).op) /\ Sound(load_c(n).op)
  <2>1. "load" \notin Checked
    BY SMT DEF Checked, Binary, Unary, Shift, Constant
  <2> QED BY <2>1, OnOp, SoundOthers DEF load_p, load_c
<1>4. \A kind \in {"NOP3", "GOC", "GONC", "NOP4", "NOP5", None, "GOTO", "GOSUB"} : Sound(Named(kind))
  <2>1. \A kind \in {"NOP3", "GOC", "GONC", "NOP4", "NOP5", None, "GOTO", "GOSUB"} : kind \notin Checked
    BY SMT DEF Checked, Binary, Unary, Shift, Constant, None
  <2> QED BY <2>1, SoundNames
<1>5. decode_4_5(a, n).op \in {Named("NOP3"), Named("GOC"), Named("GONC")}
  BY DecodedOps DEF decode_4_5
<1>6. decode_6(a, n).op \in {Named("NOP4"), Named("NOP5"), Nothing, Named("GOTO")}
  BY DecodedOps, SMT DEF decode_6, Decoded
<1>7. decode_7(a, n).op = Named("GOSUB")
  BY SMT DEF decode_7, Decoded
<1> QED BY <1>2, <1>3, <1>4, <1>5, <1>6, <1>7, SoundNothing

\* The decoder asks the functions of register.c for nothing but what they are made for.
LEMMA EveryOperationIsSound ==
    ASSUME NEW a, NEW n \in InstructionWord
    PROVE  Sound(step_instruction(a, n).op)
<1>1. n[0] \in 0 .. 15
  BY NibblesAreNibbles
<1>2. CASE n[0] \in 0 .. 3
  BY <1>2, SoundGroup1, SoundArithmetic, SoundControl DEF step_instruction
<1>3. CASE n[0] \in 4 .. 7
  BY <1>3, SoundControl DEF step_instruction
<1>4. CASE n[0] \in 8 .. 11
  BY <1>4, SoundGroup8, SoundArithmetic DEF step_instruction
<1>5. CASE n[0] \in 12 .. 15
  BY <1>5, SoundArithmetic DEF step_instruction
<1> QED BY <1>1, <1>2, <1>3, <1>4, <1>5

----------------------------------------------------------------------------
(* What is known of the registers behind an instruction.                   *)

\* The instruction behind `done' is one of the decoder's, and it was done to some processor.
Performed ==
    /\ FetchesNibbles
    /\ done => Whole /\ was \in Processor /\ cpu = perform(was, Operation, Word)

\* Whatever program is fetched and whatever the registers hold, what is behind an instruction
\* is what the functions of register.c make of what was before it (step_instruction).
LEMMA InstructionsArePerformed == Spec => []Performed
<1>1. Init => Performed
  BY InstructionsAssumption, SMT DEF Init, Begin, FetchesNibbles, Performed
<1>2. Performed /\ FetchesNibbles' /\ [Next]_vars => Performed'
  <2> SUFFICES ASSUME Performed, FetchesNibbles', [Next]_vars PROVE Performed'
    OBVIOUS
  <2>1. CASE Fetch
    <3>1. ~done
      BY <2>1 DEF Fetch, Performed
    <3> QED BY <2>1, <3>1 DEF Fetch, Performed
  <2>2. CASE Execute
    <3>1. Blank \in Samples
      BY InstructionsAssumption DEF Blank
    <3>2. PICK c \in Samples : was' = c /\ cpu' = perform(c, Decoding.op, Word)
      BY <2>2, <3>1 DEF Execute
    <3>3. Operation' = Operation /\ Word' = Word /\ Operation = Decoding.op /\ Whole'
      BY <2>2 DEF Execute, Operation, Decoding, Word, Whole
    <3>4. c \in Processor
      BY InstructionsAssumption
    <3> QED BY <3>2, <3>3, <3>4 DEF Performed
  <2>3. CASE Continue
    BY <2>3 DEF Continue, Performed
  <2>4. CASE UNCHANGED vars
    BY <2>4 DEF vars, Performed, FetchesNibbles, Operation, Decoding, Word, Whole
  <2> QED BY <2>1, <2>2, <2>3, <2>4 DEF Next
<1> QED BY <1>1, <1>2, NibblesAreFetched, PTL DEF Spec

----------------------------------------------------------------------------
(* Fields, and registers of which a field is written.                      *)

\* A processor, in the middle of a loop.
Machine(Mem) == [reg : [RegisterName -> [0 .. 15 -> 0 .. 15]], P : 0 .. 15, CARRY : 0 .. 16,
                 SB : {0, 1}, hexmode : {10, 16}, PSTAT : [0 .. 15 -> {0, 1}], mem : Mem]

Fields == 0 .. 16

LEMMA FieldEnds ==
    ASSUME NEW c, c.P \in 0 .. 15, NEW f \in Fields
    PROVE  /\ get_start(c, f) \in 0 .. 15 /\ get_end(c, f) \in 0 .. 15
           /\ get_start(c, f) <= get_end(c, f)
           /\ FieldNibbles(f, c.P) = get_start(c, f) .. get_end(c, f)
<1> USE DEF W_FIELD, A_FIELD, IN_FIELD
<1>1. CASE f \in {0, 8}
  <2>1. get_start(c, f) = c.P /\ get_end(c, f) = c.P
    BY <1>1 DEF get_start, get_end, start_fields, end_fields
  <2>2. FieldNibbles(f, c.P) = {c.P}
    BY <1>1 DEF FieldNibbles
  <2> QED BY <2>1, <2>2, {c.P} = c.P .. c.P
<1>2. CASE f \in {1, 9}
  <2>1. get_start(c, f) = 0 /\ get_end(c, f) = c.P
    BY <1>2 DEF get_start, get_end, start_fields, end_fields
  <2>2. FieldNibbles(f, c.P) = 0 .. c.P
    BY <1>2 DEF FieldNibbles
  <2> QED BY <2>1, <2>2
<1>3. CASE f \in {2, 10}
  <2>1. get_start(c, f) = 2 /\ get_end(c, f) = 2
    BY <1>3 DEF get_start, get_end, start_fields, end_fields
  <2>2. FieldNibbles(f, c.P) = {2}
    BY <1>3 DEF FieldNibbles
  <2> QED BY <2>1, <2>2, {2} = 2 .. 2
<1>4. CASE f \in {3, 11}
  <2>1. get_start(c, f) = 0 /\ get_end(c, f) = 2
    BY <1>4 DEF get_start, get_end, start_fields, end_fields
  <2>2. FieldNibbles(f, c.P) = 0 .. 2
    BY <1>4 DEF FieldNibbles
  <2> QED BY <2>1, <2>2
<1>5. CASE f \in {4, 12}
  <2>1. get_start(c, f) = 15 /\ get_end(c, f) = 15
    BY <1>5 DEF get_start, get_end, start_fields, end_fields
  <2>2. FieldNibbles(f, c.P) = {15}
    BY <1>5 DEF FieldNibbles
  <2> QED BY <2>1, <2>2, {15} = 15 .. 15
<1>6. CASE f \in {5, 13}
  <2>1. get_start(c, f) = 3 /\ get_end(c, f) = 14
    BY <1>6 DEF get_start, get_end, start_fields, end_fields
  <2>2. FieldNibbles(f, c.P) = 3 .. 14
    BY <1>6 DEF FieldNibbles
  <2> QED BY <2>1, <2>2
<1>7. CASE f \in {6, 14}
  <2>1. get_start(c, f) = 0 /\ get_end(c, f) = 1
    BY <1>7 DEF get_start, get_end, start_fields, end_fields
  <2>2. FieldNibbles(f, c.P) = 0 .. 1
    BY <1>7 DEF FieldNibbles
  <2> QED BY <2>1, <2>2
<1>8. CASE f \in {7}
  <2>1. get_start(c, f) = 0 /\ get_end(c, f) = 15
    BY <1>8 DEF get_start, get_end, start_fields, end_fields
  <2>2. FieldNibbles(f, c.P) = 0 .. 15
    BY <1>8 DEF FieldNibbles
  <2> QED BY <2>1, <2>2
<1>9. CASE f \in {15}
  <2>1. get_start(c, f) = 0 /\ get_end(c, f) = 4
    BY <1>9 DEF get_start, get_end, start_fields, end_fields
  <2>2. FieldNibbles(f, c.P) = 0 .. 4
    BY <1>9 DEF FieldNibbles
  <2> QED BY <2>1, <2>2
<1>10. CASE f \in {16}
  <2>1. get_start(c, f) = 0 /\ get_end(c, f) = 3
    BY <1>10 DEF get_start, get_end, start_fields, end_fields
  <2>2. FieldNibbles(f, c.P) = 0 .. 3
    BY <1>10 DEF FieldNibbles
  <2> QED BY <2>1, <2>2
<1> QED BY <1>1, <1>2, <1>3, <1>4, <1>5, <1>6, <1>7, <1>8, <1>9, <1>10 DEF Fields

Written(c, r, s, i, out, k) ==
    [c EXCEPT !.reg[r] = [j \in 0 .. 15 |-> IF j \in s .. i THEN out[j] ELSE c.reg[r][j]],
              !.CARRY = k]

LEMMA NothingWritten ==
    ASSUME NEW Mem, NEW c \in Machine(Mem), NEW r \in RegisterName, NEW s \in 0 .. 16, NEW out, NEW k
    PROVE  Written(c, r, s, s - 1, out, k) = [c EXCEPT !.CARRY = k]
<1> DEFINE R == [j \in 0 .. 15 |-> IF j \in s .. s - 1 THEN out[j] ELSE c.reg[r][j]]
<1>1. R = c.reg[r]
  <2>1. c.reg[r] \in [0 .. 15 -> 0 .. 15]
    BY DEF Machine
  <2> QED BY <2>1
<1> QED BY <1>1 DEF Written, Machine

\* What a step of a loop can do behind w, where the nibbles below i are written: write this one.
Puts(w, c, r, s, i, out, k) ==
    /\ \A l : [w EXCEPT !.reg[r][i] = out[i], !.CARRY = l] = Written(c, r, s, i, out, l)
    /\ [w EXCEPT !.reg[r][i] = out[i]] = Written(c, r, s, i, out, k)
    /\ w.CARRY = k /\ w.hexmode = c.hexmode
    /\ \A q \in RegisterName, j \in i .. 15 : w.reg[q][j] = c.reg[q][j]

LEMMA Writing ==
    ASSUME NEW Mem, NEW c \in Machine(Mem), NEW r \in RegisterName, NEW s \in 0 .. 15,
           NEW i \in s .. 15, NEW out \in [0 .. 15 -> 0 .. 15], NEW k
    PROVE  Puts(Written(c, r, s, i - 1, out, k), c, r, s, i, out, k)
<1> DEFINE R(n) == [j \in 0 .. 15 |-> IF j \in s .. n THEN out[j] ELSE c.reg[r][j]]
           w == Written(c, r, s, i - 1, out, k)
           With(all, l) == [c EXCEPT !.reg = all, !.CARRY = l]
           All(n) == [c.reg EXCEPT ![r] = R(n)]
           S == All(i - 1)
<1>1. \A n, l : Written(c, r, s, n, out, l) = With(All(n), l)
  BY DEF Written, Machine
<1>2. c.reg \in [RegisterName -> [0 .. 15 -> 0 .. 15]]
  BY DEF Machine
<1>3. R(i - 1) \in [0 .. 15 -> 0 .. 15]
  BY <1>2
<1>4. [R(i - 1) EXCEPT ![i] = out[i]] = R(i)
  <2>1. \A j \in 0 .. 15 : [R(i - 1) EXCEPT ![i] = out[i]][j] = R(i)[j]
    OBVIOUS
  <2>2. \A n : R(n) = [j \in 0 .. 15 |-> R(n)[j]]
    OBVIOUS
  <2> HIDE DEF R
  <2> QED BY <2>1, <2>2
<1>5. \A j \in i .. 15 : R(i - 1)[j] = c.reg[r][j]
  OBVIOUS
<1> HIDE DEF R
<1>6. [S EXCEPT ![r] = [S[r] EXCEPT ![i] = out[i]]] = All(i)
  BY <1>2, <1>3, <1>4
<1>7. \A q \in RegisterName, j \in i .. 15 : S[q][j] = c.reg[q][j]
  BY <1>2, <1>5
<1> HIDE DEF S, All
<1>8. w = With(S, k)
  BY <1>1 DEF S
<1>9. ASSUME NEW l
      PROVE  [w EXCEPT !.reg[r][i] = out[i], !.CARRY = l] = Written(c, r, s, i, out, l)
  <2>1. [w EXCEPT !.reg[r][i] = out[i], !.CARRY = l]
           = With([S EXCEPT ![r] = [S[r] EXCEPT ![i] = out[i]]], l)
    <3> HIDE DEF w
    <3> QED BY <1>8 DEF Machine
  <2> HIDE DEF w, With
  <2> QED BY <1>1, <1>6, <2>1
<1>10. [w EXCEPT !.reg[r][i] = out[i]] = Written(c, r, s, i, out, k)
  <2>1. [w EXCEPT !.reg[r][i] = out[i]]
           = With([S EXCEPT ![r] = [S[r] EXCEPT ![i] = out[i]]], k)
    <3> HIDE DEF w
    <3> QED BY <1>8 DEF Machine
  <2> HIDE DEF w, With
  <2> QED BY <1>1, <1>6, <2>1
<1> HIDE DEF w
<1>11. w.CARRY = k /\ w.hexmode = c.hexmode /\ w.reg = S
  BY <1>8 DEF Machine
<1>12. \A q \in RegisterName, j \in i .. 15 : w.reg[q][j] = c.reg[q][j]
  BY <1>7, <1>11
<1> QED BY <1>9, <1>10, <1>11, <1>12, Zenon DEF Puts, w

\* Two functions of a loop that start with the same, and make the same of the nibble before.
Alike(d, g, s) == /\ \A i \in -1 .. s - 1 : d[i] = g[i]
                  /\ \A i \in s .. 15 : d[i - 1] = g[i - 1] => d[i] = g[i]

LEMMA SameLoop ==
    ASSUME NEW s \in 0 .. 15, NEW d, NEW g, Alike(d, g, s)
    PROVE  \A i \in -1 .. 15 : d[i] = g[i]
<1> USE DEF Alike
<1> DEFINE T == {i \in -1 .. 15 : d[i] = g[i]}
<1>1. s - 1 \in T
  OBVIOUS
<1>2. \A i \in s - 1 .. 14 : i \in T => i + 1 \in T
  OBVIOUS
<1>3. s - 1 .. 15 \subseteq T
  <2> HIDE DEF T
  <2> QED BY <1>1, <1>2, Upwards
<1> QED BY <1>3

\* The loop, nibble by nibble: `car' is what CARRY holds behind each.
Upto(s, i) == IF i < s THEN s - 1 ELSE i
Course(c, r, s, out, car) ==
    [i \in -1 .. 15 |-> Written(c, r, s, Upto(s, i), out, car[Upto(s, i)])]

\* What g says of the loop, from one nibble to the next.
Runs(g, c, r, s, out, car) ==
    /\ g = [i \in -1 .. 15 |-> g[i]]
    /\ \A i \in -1 .. s - 1 : g[i] = [c EXCEPT !.CARRY = car[s - 1]]
    /\ \A i \in s .. 15 : /\ Puts(g[i - 1], c, r, s, i, out, car[i - 1])
                          /\ g[i - 1] = Written(c, r, s, i - 1, out, car[i - 1])
                          /\ g[i] = Written(c, r, s, i, out, car[i])

LEMMA Coursing ==
    ASSUME NEW Mem, NEW c \in Machine(Mem), NEW r \in RegisterName, NEW s \in 0 .. 15,
           NEW out \in [0 .. 15 -> 0 .. 15], NEW car
    PROVE  \E g : Runs(g, c, r, s, out, car)
<1> DEFINE g == Course(c, r, s, out, car)
<1>1. ASSUME NEW i \in -1 .. s - 1 PROVE g[i] = [c EXCEPT !.CARRY = car[s - 1]]
  <2>1. g[i] = Written(c, r, s, s - 1, out, car[s - 1])
    BY DEF Course, Upto
  <2> QED BY <2>1, NothingWritten
<1>2. ASSUME NEW i \in s .. 15
      PROVE  /\ g[i - 1] = Written(c, r, s, i - 1, out, car[i - 1])
             /\ g[i] = Written(c, r, s, i, out, car[i])
  <2>1. Upto(s, i) = i /\ Upto(s, i - 1) = i - 1 /\ i \in -1 .. 15 /\ i - 1 \in -1 .. 15
    BY DEF Upto
  <2> QED BY <2>1 DEF Course
<1>3. ASSUME NEW i \in s .. 15 PROVE Puts(g[i - 1], c, r, s, i, out, car[i - 1])
  BY <1>2, Writing, Zenon
<1>4. g = [i \in -1 .. 15 |-> g[i]]
  BY Zenon DEF Course
<1> HIDE DEF g
<1>5. Runs(g, c, r, s, out, car)
  BY <1>1, <1>2, <1>3, <1>4, Zenon DEF Runs
<1> QED BY <1>5

----------------------------------------------------------------------------
(* The loops.  A nibble of the result, and what is carried out of it, are  *)
(* functions of what is carried into it.                                   *)

Carry == 0 .. 16
Digits == [0 .. 15 -> 0 .. 15]
Carries == [-1 .. 15 -> Carry]
Inputs == (0 .. 15) \X Carry

Flow(out, car, s, k, V, F) ==
    /\ car[s - 1] = k
    /\ \A i \in s .. 15 : out[i] = V[<<i, car[i - 1]>>] /\ car[i] = F[<<i, car[i - 1]>>]

LEMMA Flows ==
    ASSUME NEW s \in 0 .. 15, NEW k \in Carry,
           NEW V \in [Inputs -> 0 .. 15], NEW F \in [Inputs -> Carry]
    PROVE  \E out \in Digits, car \in Carries : Flow(out, car, s, k, V, F)
<1>1. PICK car \in [-1 .. 15 -> Carry] : Carried(car, s, k, F)
  BY Chain, Zenon DEF Inputs
<1> DEFINE out == [i \in 0 .. 15 |-> V[<<i, car[i - 1]>>]]
<1>2. \A i \in 0 .. 15 : car[i - 1] \in Carry
  BY SMT
<1>3. out \in Digits
  BY <1>2, SMT DEF Digits, Inputs
<1>4. \A i \in s .. 15 : out[i] = V[<<i, car[i - 1]>>] /\ car[i] = F[<<i, car[i - 1]>>]
  BY <1>1, SMTT(30) DEF Carried
<1>5. car[s - 1] = k
  BY <1>1 DEF Carried
<1> HIDE DEF out
<1> QED BY <1>1, <1>3, <1>4, <1>5 DEF Flow, Carries

LEMMA Flowing ==
    ASSUME NEW Mem, NEW c \in Machine(Mem), NEW r \in RegisterName, NEW s \in 0 .. 15,
           NEW k \in Carry, NEW V \in [Inputs -> 0 .. 15], NEW F \in [Inputs -> Carry]
    PROVE  \E out \in Digits, car \in Carries : \E g :
              Flow(out, car, s, k, V, F) /\ Runs(g, c, r, s, out, car)
<1>1. PICK out \in Digits, car \in Carries : Flow(out, car, s, k, V, F)
  BY Flows
<1>2. out \in [0 .. 15 -> 0 .. 15]
  BY DEF Digits
<1>3. PICK g : Runs(g, c, r, s, out, car)
  BY <1>2, Coursing, Zenon
<1> QED BY <1>1, <1>3

\* From a carry of 0 or 1, with carries of 0 and 1.
LEMMA Bits ==
    ASSUME NEW s \in 0 .. 15, NEW k \in {0, 1}, NEW F \in [Inputs -> {0, 1}], NEW V, NEW out,
           NEW car \in Carries, Flow(out, car, s, k, V, F), NEW i \in s .. 15
    PROVE  car[i - 1] \in {0, 1} /\ car[i] \in {0, 1}
<1>1. ASSUME NEW j \in s .. 15 PROVE car[j] \in {0, 1}
  <2>1. <<j, car[j - 1]>> \in Inputs /\ car[j] = F[<<j, car[j - 1]>>]
    BY DEF Flow, Inputs, Carries
  <2> QED BY <2>1
<1>2. i - 1 = s - 1 \/ i - 1 \in s .. 15
  OBVIOUS
<1>3. car[s - 1] \in {0, 1}
  BY DEF Flow
<1> QED BY <1>1, <1>2, <1>3

\* The registers behind the loop, for the field f.
Ran(m, c, r, f, k, V, F) ==
    \E out \in Digits, car \in Carries :
        /\ Flow(out, car, get_start(c, f), k, V, F)
        /\ m = Written(c, r, get_start(c, f), get_end(c, f), out, car[get_end(c, f)])

LEMMA FieldsOf ==
    ASSUME NEW Mem, NEW c \in Machine(Mem), NEW f \in Fields
    PROVE  /\ get_start(c, f) \in 0 .. 15 /\ get_end(c, f) \in 0 .. 15
           /\ get_end(c, f) \in get_start(c, f) .. 15
           /\ FieldNibbles(f, c.P) = get_start(c, f) .. get_end(c, f)
           /\ \A k : /\ get_start([c EXCEPT !.CARRY = k], f) = get_start(c, f)
                     /\ get_end([c EXCEPT !.CARRY = k], f) = get_end(c, f)
<1>1. c.P \in 0 .. 15
  BY DEF Machine
<1>2. \A k : [c EXCEPT !.CARRY = k].P = c.P
  BY DEF Machine
<1>3. \A k : /\ get_start([c EXCEPT !.CARRY = k], f) = get_start(c, f)
             /\ get_end([c EXCEPT !.CARRY = k], f) = get_end(c, f)
  BY <1>2, Zenon DEF get_start, get_end
<1> DEFINE s == get_start(c, f)
           e == get_end(c, f)
<1>4. s \in 0 .. 15 /\ e \in 0 .. 15 /\ s <= e /\ FieldNibbles(f, c.P) = s .. e
  BY <1>1, FieldEnds, Zenon
<1> HIDE DEF s, e
<1>5. e \in s .. 15
  BY <1>4
<1> QED BY <1>3, <1>4, <1>5, Zenon DEF s, e

\* Before the field and in it.
LEMMA Nibbles16 ==
    ASSUME NEW s \in 0 .. 15, NEW i \in -1 .. 15
    PROVE  (i < s /\ i \in -1 .. s - 1) \/ (~(i < s) /\ i \in s .. 15)
OBVIOUS

\* What a step behind w can read, and what it has to leave for `next' to be behind it.
Stepped(w, next, c, r, i, k, V, F) ==
    /\ [w EXCEPT !.reg[r][i] = V[<<i, k>>], !.CARRY = F[<<i, k>>]] = next
    /\ F[<<i, k>>] = k => [w EXCEPT !.reg[r][i] = V[<<i, k>>]] = next
    /\ F[<<i, k>>] = k /\ V[<<i, k>>] = c.reg[r][i] => w = next
    /\ w.CARRY = k /\ w.hexmode = c.hexmode
    /\ \A q \in RegisterName, j \in i .. 15 : w.reg[q][j] = c.reg[q][j]
    /\ i \in i .. 15 /\ i \in 0 .. 15 /\ k \in Carry

LEMMA Stepping ==
    ASSUME NEW c, NEW r, NEW s \in 0 .. 15, NEW out, NEW car \in Carries, NEW g,
           Runs(g, c, r, s, out, car), NEW k, NEW V, NEW F, Flow(out, car, s, k, V, F),
           NEW i \in s .. 15
    PROVE  Stepped(g[i - 1], g[i], c, r, i, car[i - 1], V, F)
<1> DEFINE w == g[i - 1]
<1>1. /\ Puts(w, c, r, s, i, out, car[i - 1]) /\ g[i] = Written(c, r, s, i, out, car[i])
      /\ w = Written(c, r, s, i - 1, out, car[i - 1])
  BY DEF Runs
<1>2. out[i] = V[<<i, car[i - 1]>>] /\ car[i] = F[<<i, car[i - 1]>>]
  BY DEF Flow
<1>3. i \in i .. 15 /\ i \in 0 .. 15 /\ car[i - 1] \in Carry
  BY DEF Carries
<1> HIDE DEF w
<1>4. /\ \A l : [w EXCEPT !.reg[r][i] = out[i], !.CARRY = l] = Written(c, r, s, i, out, l)
      /\ [w EXCEPT !.reg[r][i] = out[i]] = Written(c, r, s, i, out, car[i - 1])
      /\ w.CARRY = car[i - 1] /\ w.hexmode = c.hexmode
      /\ \A q \in RegisterName, j \in i .. 15 : w.reg[q][j] = c.reg[q][j]
  BY <1>1, Zenon DEF Puts
<1>5. ASSUME out[i] = c.reg[r][i]
      PROVE  Written(c, r, s, i - 1, out, car[i - 1]) = Written(c, r, s, i, out, car[i - 1])
  <2> DEFINE R(n) == [j \in 0 .. 15 |-> IF j \in s .. n THEN out[j] ELSE c.reg[r][j]]
  <2>1. \A j \in 0 .. 15 : R(i - 1)[j] = R(i)[j]
    BY <1>5
  <2>2. \A n : R(n) = [j \in 0 .. 15 |-> R(n)[j]]
    OBVIOUS
  <2>3. R(i - 1) = R(i)
    <3> HIDE DEF R
    <3> QED BY <2>1, <2>2
  <2> QED BY <2>3, Zenon DEF Written
<1>6. /\ [w EXCEPT !.reg[r][i] = out[i], !.CARRY = car[i]] = g[i]
      /\ car[i] = car[i - 1] => [w EXCEPT !.reg[r][i] = out[i]] = g[i]
      /\ car[i] = car[i - 1] /\ out[i] = c.reg[r][i] => w = g[i]
  BY <1>1, <1>4, <1>5, Zenon
<1>7. Stepped(w, g[i], c, r, i, car[i - 1], V, F)
  BY <1>2, <1>3, <1>4, <1>6, Zenon DEF Stepped
<1> QED BY <1>7 DEF w

----------------------------------------------------------------------------
(* Arithmetic, nibble by nibble.                                           *)

SumDigit(x, y, h) ==
    [q \in Inputs |-> LET t == x[q[1]] + y[q[1]] + q[2] IN IF t < h THEN t % 16 ELSE (t - h) % 16]
SumCarry(x, y, h) ==
    [q \in Inputs |-> IF x[q[1]] + y[q[1]] + q[2] < h THEN 0 ELSE 1]

LEMMA Adding ==
    ASSUME NEW Mem, NEW c \in Machine(Mem), NEW res \in RegisterName, NEW r1 \in RegisterName,
           NEW r2 \in RegisterName, NEW f \in Fields
    PROVE  Ran(add_register(c, res, r1, r2, f), c, res, f, 0,
               SumDigit(c.reg[r1], c.reg[r2], c.hexmode), SumCarry(c.reg[r1], c.reg[r2], c.hexmode))
<1> DEFINE c0 == [c EXCEPT !.CARRY = 0]
           s == get_start(c0, f)
           e == get_end(c0, f)
           V == SumDigit(c.reg[r1], c.reg[r2], c.hexmode)
           F == SumCarry(c.reg[r1], c.reg[r2], c.hexmode)
           Step(m, i) ==
              LET t == m.reg[r1][i] + m.reg[r2][i] + m.CARRY
              IN  IF t < m.hexmode THEN PutCarry(m, res, i, t, 0)
                                   ELSE PutCarry(m, res, i, t - m.hexmode, 1)
           Done(d) == d = [i \in -1 .. 15 |-> IF i < s THEN c0 ELSE Step(d[i - 1], i)]
           d == CHOOSE d : Done(d)
<1>1. add_register(c, res, r1, r2, f) = d[e]
  BY Zenon DEF add_register, Up
<1>2. s = get_start(c, f) /\ e = get_end(c, f) /\ s \in 0 .. 15 /\ e \in s .. 15
  BY FieldsOf, Zenon
<1>3. V \in [Inputs -> 0 .. 15] /\ F \in [Inputs -> Carry] /\ 0 \in Carry
  BY SMTT(30) DEF Machine, Inputs, Carry, SumDigit, SumCarry
<1> HIDE DEF s, e, c0, V, F
<1>flow. PICK out \in Digits, car \in Carries : \E g :
         Flow(out, car, s, 0, V, F) /\ Runs(g, c, res, s, out, car)
  BY <1>2, <1>3, Flowing
<1>4. PICK g : Flow(out, car, s, 0, V, F) /\ Runs(g, c, res, s, out, car)
  BY <1>flow
<1>5. ASSUME NEW i \in s .. 15 PROVE Step(g[i - 1], i) = g[i]
  <2> DEFINE w == g[i - 1]
             k == car[i - 1]
             t == c.reg[r1][i] + c.reg[r2][i] + k
  <2>1. Stepped(w, g[i], c, res, i, k, V, F)
    BY <1>2, <1>4, Stepping, Zenon
  <2> HIDE DEF w, k
  <2>2. i \in 0 .. 15 /\ k \in Carry
    BY <2>1 DEF Stepped
  <2>3. /\ V[<<i, k>>] = IF t < c.hexmode THEN t % 16 ELSE (t - c.hexmode) % 16
        /\ F[<<i, k>>] = IF t < c.hexmode THEN 0 ELSE 1
    BY <2>2, SMT DEF V, F, SumDigit, SumCarry, Inputs
  <2>4. w.reg[r1][i] + w.reg[r2][i] + w.CARRY = t /\ w.hexmode = c.hexmode
    BY <2>1, Zenon DEF Stepped
  <2>5. /\ [w EXCEPT !.reg[res][i] = V[<<i, k>>], !.CARRY = F[<<i, k>>]] = g[i]
    BY <2>1, Zenon DEF Stepped
  <2> HIDE DEF t
  <2>6. Step(w, i) = g[i]
    <3>1. CASE t < c.hexmode
      BY <2>3, <2>4, <2>5, <3>1, Zenon DEF PutCarry
    <3>2. CASE ~(t < c.hexmode)
      BY <2>3, <2>4, <2>5, <3>2, Zenon DEF PutCarry
    <3> QED BY <3>1, <3>2
  <2> QED BY <2>6 DEF w
<1> HIDE DEF Step
<1>6. \A i \in -1 .. 15 : g[i] = IF i < s THEN c0 ELSE Step(g[i - 1], i)
  <2>1. ASSUME NEW i \in -1 .. s - 1 PROVE g[i] = c0
    BY <1>4 DEF Runs, Flow, c0
  <2> QED BY <1>2, <1>5, <2>1, Nibbles16, Zenon
<1>7. Done(g)
  BY <1>4, <1>6, Zenon DEF Runs
<1>8. Done(d)
  BY <1>7, Zenon
<1> HIDE DEF d
<1>9. d[e] = g[e]
  <2>1. Alike(d, g, s)
    BY <1>2, <1>5, <1>6, <1>8 DEF Alike
  <2> QED BY <1>2, <2>1, SameLoop
<1>10. d[e] = Written(c, res, s, e, out, car[e])
  BY <1>2, <1>4, <1>9 DEF Runs
<1> QED BY <1>1, <1>2, <1>4, <1>10 DEF Ran, V, F

DifferenceDigit(x, y, h) ==
    [q \in Inputs |-> LET t == x[q[1]] - y[q[1]] - q[2] IN IF t >= 0 THEN t % 16 ELSE (t + h) % 16]
DifferenceCarry(x, y, h) ==
    [q \in Inputs |-> IF x[q[1]] - y[q[1]] - q[2] >= 0 THEN 0 ELSE 1]
LEMMA Subtracting ==
    ASSUME NEW Mem, NEW c \in Machine(Mem), NEW res \in RegisterName, NEW r1 \in RegisterName,
           NEW r2 \in RegisterName, NEW f \in Fields
    PROVE  Ran(sub_register(c, res, r1, r2, f), c, res, f, 0,
               DifferenceDigit(c.reg[r1], c.reg[r2], c.hexmode),
               DifferenceCarry(c.reg[r1], c.reg[r2], c.hexmode))
<1> DEFINE c0 == [c EXCEPT !.CARRY = 0]
           s == get_start(c0, f)
           e == get_end(c0, f)
           V == DifferenceDigit(c.reg[r1], c.reg[r2], c.hexmode)
           F == DifferenceCarry(c.reg[r1], c.reg[r2], c.hexmode)
           Step(m, i) ==
              LET t == m.reg[r1][i] - m.reg[r2][i] - m.CARRY
              IN  IF t >= 0 THEN PutCarry(m, res, i, t, 0)
                            ELSE PutCarry(m, res, i, t + m.hexmode, 1)
           Done(d) == d = [i \in -1 .. 15 |-> IF i < s THEN c0 ELSE Step(d[i - 1], i)]
           d == CHOOSE d : Done(d)
<1>1. sub_register(c, res, r1, r2, f) = d[e]
  BY Zenon DEF sub_register, Up
<1>2. s = get_start(c, f) /\ e = get_end(c, f) /\ s \in 0 .. 15 /\ e \in s .. 15
  BY FieldsOf, Zenon
<1>3. V \in [Inputs -> 0 .. 15] /\ F \in [Inputs -> Carry] /\ 0 \in Carry
  <2>1. ASSUME NEW q \in Inputs
        PROVE  /\ c.reg[r1][q[1]] - c.reg[r2][q[1]] - q[2] \in Int
               /\ c.reg[r1][q[1]] - c.reg[r2][q[1]] - q[2] + c.hexmode \in Int
    BY SMT DEF Machine, Inputs, Carry
  <2>2. \A t \in Int : t % 16 \in 0 .. 15
    OBVIOUS
  <2>3. V \in [Inputs -> 0 .. 15]
    BY <2>1, <2>2 DEF DifferenceDigit
  <2> QED BY <2>3, SMT DEF Carry, DifferenceCarry
<1> HIDE DEF s, e, V, F, c0
<1>flow. PICK out \in Digits, car \in Carries : \E g :
         Flow(out, car, s, 0, V, F) /\ Runs(g, c, res, s, out, car)
  BY <1>2, <1>3, Flowing
<1>4. PICK g : Flow(out, car, s, 0, V, F) /\ Runs(g, c, res, s, out, car)
  BY <1>flow
<1>5. ASSUME NEW i \in s .. 15 PROVE Step(g[i - 1], i) = g[i]
  <2> DEFINE w == g[i - 1]
             k == car[i - 1]
             t == c.reg[r1][i] - c.reg[r2][i] - k
  <2>1. Stepped(w, g[i], c, res, i, k, V, F)
    BY <1>2, <1>4, Stepping, Zenon
  <2> HIDE DEF w, k
  <2>2. i \in 0 .. 15 /\ k \in Carry
    BY <2>1 DEF Stepped
  <2>3. /\ V[<<i, k>>] = IF t >= 0 THEN t % 16 ELSE (t + c.hexmode) % 16
        /\ F[<<i, k>>] = IF t >= 0 THEN 0 ELSE 1
    BY <2>2, SMT DEF V, F, DifferenceDigit, DifferenceCarry, Inputs
  <2>4. w.reg[r1][i] - w.reg[r2][i] - w.CARRY = t /\ w.hexmode = c.hexmode
    BY <2>1, Zenon DEF Stepped
  <2>5. [w EXCEPT !.reg[res][i] = V[<<i, k>>], !.CARRY = F[<<i, k>>]] = g[i]
    BY <2>1, Zenon DEF Stepped
  <2> HIDE DEF t
  <2>6. Step(w, i) = g[i]
    <3>1. CASE t >= 0
      BY <2>3, <2>4, <2>5, <3>1, Zenon DEF PutCarry
    <3>2. CASE ~(t >= 0)
      BY <2>3, <2>4, <2>5, <3>2, Zenon DEF PutCarry
    <3> QED BY <3>1, <3>2
  <2> QED BY <2>6 DEF w
<1> HIDE DEF Step
<1>6. \A i \in -1 .. 15 : g[i] = IF i < s THEN c0 ELSE Step(g[i - 1], i)
  <2>1. ASSUME NEW i \in -1 .. s - 1 PROVE g[i] = c0
    BY <1>4 DEF Runs, Flow, c0
  <2> QED BY <1>2, <1>5, <2>1, Nibbles16, Zenon
<1>7. Done(g)
  BY <1>4, <1>6, Zenon DEF Runs
<1>8. Done(d)
  BY <1>7, Zenon
<1> HIDE DEF d
<1>9. d[e] = g[e]
  <2>1. Alike(d, g, s)
    BY <1>2, <1>5, <1>6, <1>8 DEF Alike
  <2> QED BY <1>2, <2>1, SameLoop
<1>10. d[e] = Written(c, res, s, e, out, car[e])
  BY <1>2, <1>4, <1>9 DEF Runs
<1> QED BY <1>1, <1>2, <1>4, <1>10 DEF Ran, V, F

\* A nibble that does not carry ends an increment or a decrement; so with constants.
IncDigit(x, h) ==
    [q \in Inputs |-> LET t == x[q[1]] + q[2]
                      IN  IF q[2] = 0 THEN x[q[1]] ELSE IF t < h THEN t % 16 ELSE (t - h) % 16]
IncCarry(x, h) == [q \in Inputs |-> IF q[2] = 0 \/ x[q[1]] + q[2] < h THEN 0 ELSE 1]

DecDigit(x, h) ==
    [q \in Inputs |-> LET t == x[q[1]] - q[2]
                      IN  IF q[2] = 0 THEN x[q[1]] ELSE IF t >= 0 THEN t % 16 ELSE (t + h) % 16]
DecCarry(x, h) == [q \in Inputs |-> IF q[2] = 0 \/ x[q[1]] - q[2] >= 0 THEN 0 ELSE 1]
LEMMA Incrementing ==
    ASSUME NEW Mem, NEW c \in Machine(Mem), NEW r \in RegisterName, NEW f \in Fields
    PROVE  Ran(inc_register(c, r, f), c, r, f, 1, IncDigit(c.reg[r], c.hexmode),
               IncCarry(c.reg[r], c.hexmode))
<1> DEFINE c0 == [c EXCEPT !.CARRY = 1]
           s == get_start(c0, f)
           e == get_end(c0, f)
           V == IncDigit(c.reg[r], c.hexmode)
           F == IncCarry(c.reg[r], c.hexmode)
           Step(m, i) ==
              LET t == m.reg[r][i] + m.CARRY
              IN  CASE m.CARRY = 0 -> m
                    [] m.CARRY = 1 /\ t < m.hexmode -> PutCarry(m, r, i, t, 0)
                    [] OTHER -> PutCarry(m, r, i, t - m.hexmode, 1)
           Done(d) == d = [i \in -1 .. 15 |-> IF i < s THEN c0 ELSE Step(d[i - 1], i)]
           d == CHOOSE d : Done(d)
<1>1. inc_register(c, r, f) = d[e]
  BY Zenon DEF inc_register, Up
<1>2. s = get_start(c, f) /\ e = get_end(c, f) /\ s \in 0 .. 15 /\ e \in s .. 15
  BY FieldsOf, Zenon
<1>3. V \in [Inputs -> 0 .. 15] /\ F \in [Inputs -> Carry] /\ 1 \in Carry
  BY SMTT(30) DEF Machine, Inputs, Carry, IncDigit, IncCarry
<1> HIDE DEF s, e, V, F, c0
<1>flow. PICK out \in Digits, car \in Carries : \E g :
         Flow(out, car, s, 1, V, F) /\ Runs(g, c, r, s, out, car)
  BY <1>2, <1>3, Flowing
<1>4. PICK g : Flow(out, car, s, 1, V, F) /\ Runs(g, c, r, s, out, car)
  BY <1>flow
<1>5. ASSUME NEW i \in s .. 15 PROVE Step(g[i - 1], i) = g[i]
  <2> DEFINE w == g[i - 1]
             k == car[i - 1]
             t == c.reg[r][i] + k
  <2>1. Stepped(w, g[i], c, r, i, k, V, F)
    BY <1>2, <1>4, Stepping, Zenon
  <2> HIDE DEF w, k
  <2>2. i \in 0 .. 15 /\ k \in Carry /\ (k = 0 \/ k = 1) /\ 0 # 1
    <3>1. F \in [Inputs -> {0, 1}]
      BY SMT DEF F, IncDigit, IncCarry
    <3>2. k \in {0, 1}
      BY <1>2, <1>4, <3>1, Bits DEF k
    <3> QED BY <2>1, <3>2 DEF Stepped
  <2>3. /\ V[<<i, k>>] = IF k = 0 THEN c.reg[r][i] ELSE IF t < c.hexmode THEN t % 16 ELSE (t - c.hexmode) % 16
        /\ F[<<i, k>>] = IF k = 0 \/ t < c.hexmode THEN 0 ELSE 1
    BY <2>2, SMT DEF V, F, IncDigit, IncCarry, Inputs
  <2>4. w.reg[r][i] + w.CARRY = t /\ w.CARRY = k /\ w.hexmode = c.hexmode
    BY <2>1, Zenon DEF Stepped
  <2>5. [w EXCEPT !.reg[r][i] = V[<<i, k>>], !.CARRY = F[<<i, k>>]] = g[i]
    BY <2>1, Zenon DEF Stepped
  <2>6. k = 0 => w = g[i]
    BY <2>1, <2>3 DEF Stepped
  <2> HIDE DEF t
  <2>7. Step(w, i) = g[i]
    <3>1. CASE k = 0
      BY <2>2, <2>3, <2>4, <2>5, <2>6, <3>1, Zenon DEF PutCarry
    <3>2. CASE k # 0 /\ t < c.hexmode
      BY <2>2, <2>3, <2>4, <2>5, <2>6, <3>2, Zenon DEF PutCarry
    <3>3. CASE k # 0 /\ ~(t < c.hexmode)
      BY <2>2, <2>3, <2>4, <2>5, <2>6, <3>3, Zenon DEF PutCarry
    <3> QED BY <3>1, <3>2, <3>3
  <2> QED BY <2>7 DEF w
<1> HIDE DEF Step
<1>6. \A i \in -1 .. 15 : g[i] = IF i < s THEN c0 ELSE Step(g[i - 1], i)
  <2>1. ASSUME NEW i \in -1 .. s - 1 PROVE g[i] = c0
    BY <1>4 DEF Runs, Flow, c0
  <2> QED BY <1>2, <1>5, <2>1, Nibbles16, Zenon
<1>7. Done(g)
  BY <1>4, <1>6, Zenon DEF Runs
<1>8. Done(d)
  BY <1>7, Zenon
<1> HIDE DEF d
<1>9. d[e] = g[e]
  <2>1. Alike(d, g, s)
    BY <1>2, <1>5, <1>6, <1>8 DEF Alike
  <2> QED BY <1>2, <2>1, SameLoop
<1>10. d[e] = Written(c, r, s, e, out, car[e])
  BY <1>2, <1>4, <1>9 DEF Runs
<1> QED BY <1>1, <1>2, <1>4, <1>10 DEF Ran, V, F

LEMMA Decrementing ==
    ASSUME NEW Mem, NEW c \in Machine(Mem), NEW r \in RegisterName, NEW f \in Fields
    PROVE  Ran(dec_register(c, r, f), c, r, f, 1, DecDigit(c.reg[r], c.hexmode),
               DecCarry(c.reg[r], c.hexmode))
<1> DEFINE c0 == [c EXCEPT !.CARRY = 1]
           s == get_start(c0, f)
           e == get_end(c0, f)
           V == DecDigit(c.reg[r], c.hexmode)
           F == DecCarry(c.reg[r], c.hexmode)
           Step(m, i) ==
              LET t == m.reg[r][i] - m.CARRY
              IN  CASE m.CARRY = 0 -> m
                    [] m.CARRY = 1 /\ t >= 0 -> PutCarry(m, r, i, t, 0)
                    [] OTHER -> PutCarry(m, r, i, t + m.hexmode, 1)
           Done(d) == d = [i \in -1 .. 15 |-> IF i < s THEN c0 ELSE Step(d[i - 1], i)]
           d == CHOOSE d : Done(d)
<1>1. dec_register(c, r, f) = d[e]
  BY Zenon DEF dec_register, Up
<1>2. s = get_start(c, f) /\ e = get_end(c, f) /\ s \in 0 .. 15 /\ e \in s .. 15
  BY FieldsOf, Zenon
<1>3. V \in [Inputs -> 0 .. 15] /\ F \in [Inputs -> Carry] /\ 1 \in Carry
  BY SMTT(30) DEF Machine, Inputs, Carry, DecDigit, DecCarry
<1> HIDE DEF s, e, V, F, c0
<1>flow. PICK out \in Digits, car \in Carries : \E g :
         Flow(out, car, s, 1, V, F) /\ Runs(g, c, r, s, out, car)
  BY <1>2, <1>3, Flowing
<1>4. PICK g : Flow(out, car, s, 1, V, F) /\ Runs(g, c, r, s, out, car)
  BY <1>flow
<1>5. ASSUME NEW i \in s .. 15 PROVE Step(g[i - 1], i) = g[i]
  <2> DEFINE w == g[i - 1]
             k == car[i - 1]
             t == c.reg[r][i] - k
  <2>1. Stepped(w, g[i], c, r, i, k, V, F)
    BY <1>2, <1>4, Stepping, Zenon
  <2> HIDE DEF w, k
  <2>2. i \in 0 .. 15 /\ k \in Carry /\ (k = 0 \/ k = 1) /\ 0 # 1
    <3>1. F \in [Inputs -> {0, 1}]
      BY SMT DEF F, DecDigit, DecCarry
    <3>2. k \in {0, 1}
      BY <1>2, <1>4, <3>1, Bits DEF k
    <3> QED BY <2>1, <3>2 DEF Stepped
  <2>3. /\ V[<<i, k>>] = IF k = 0 THEN c.reg[r][i] ELSE IF t >= 0 THEN t % 16 ELSE (t + c.hexmode) % 16
        /\ F[<<i, k>>] = IF k = 0 \/ t >= 0 THEN 0 ELSE 1
    BY <2>2, SMT DEF V, F, DecDigit, DecCarry, Inputs
  <2>4. w.reg[r][i] - w.CARRY = t /\ w.CARRY = k /\ w.hexmode = c.hexmode
    BY <2>1, Zenon DEF Stepped
  <2>5. [w EXCEPT !.reg[r][i] = V[<<i, k>>], !.CARRY = F[<<i, k>>]] = g[i]
    BY <2>1, Zenon DEF Stepped
  <2>6. k = 0 => w = g[i]
    BY <2>1, <2>3 DEF Stepped
  <2> HIDE DEF t
  <2>7. Step(w, i) = g[i]
    <3>1. CASE k = 0
      BY <2>2, <2>3, <2>4, <2>5, <2>6, <3>1, Zenon DEF PutCarry
    <3>2. CASE k # 0 /\ t >= 0
      BY <2>2, <2>3, <2>4, <2>5, <2>6, <3>2, Zenon DEF PutCarry
    <3>3. CASE k # 0 /\ ~(t >= 0)
      BY <2>2, <2>3, <2>4, <2>5, <2>6, <3>3, Zenon DEF PutCarry
    <3> QED BY <3>1, <3>2, <3>3
  <2> QED BY <2>7 DEF w
<1> HIDE DEF Step
<1>6. \A i \in -1 .. 15 : g[i] = IF i < s THEN c0 ELSE Step(g[i - 1], i)
  <2>1. ASSUME NEW i \in -1 .. s - 1 PROVE g[i] = c0
    BY <1>4 DEF Runs, Flow, c0
  <2> QED BY <1>2, <1>5, <2>1, Nibbles16, Zenon
<1>7. Done(g)
  BY <1>4, <1>6, Zenon DEF Runs
<1>8. Done(d)
  BY <1>7, Zenon
<1> HIDE DEF d
<1>9. d[e] = g[e]
  <2>1. Alike(d, g, s)
    BY <1>2, <1>5, <1>6, <1>8 DEF Alike
  <2> QED BY <1>2, <2>1, SameLoop
<1>10. d[e] = Written(c, r, s, e, out, car[e])
  BY <1>2, <1>4, <1>9 DEF Runs
<1> QED BY <1>1, <1>2, <1>4, <1>10 DEF Ran, V, F

LEMMA AddingConstants ==
    ASSUME NEW Mem, NEW c \in Machine(Mem), NEW r \in RegisterName, NEW f \in Fields,
           NEW n \in 1 .. 16
    PROVE  Ran(add_register_constant(c, r, f, n), c, r, f, n, IncDigit(c.reg[r], 16),
               IncCarry(c.reg[r], 16))
<1> DEFINE c0 == [c EXCEPT !.CARRY = n]
           s == get_start(c0, f)
           e == get_end(c0, f)
           V == IncDigit(c.reg[r], 16)
           F == IncCarry(c.reg[r], 16)
           Step(m, i) ==
              LET t == m.reg[r][i] + m.CARRY
              IN  CASE m.CARRY = 0 -> m
                    [] m.CARRY # 0 /\ t < 16 -> PutCarry(m, r, i, t, 0)
                    [] OTHER -> PutCarry(m, r, i, t - 16, 1)
           Done(d) == d = [i \in -1 .. 15 |-> IF i < s THEN c0 ELSE Step(d[i - 1], i)]
           d == CHOOSE d : Done(d)
<1>1. add_register_constant(c, r, f, n) = d[e]
  BY Zenon DEF add_register_constant, Up
<1>2. s = get_start(c, f) /\ e = get_end(c, f) /\ s \in 0 .. 15 /\ e \in s .. 15
  BY FieldsOf, Zenon
<1>3. V \in [Inputs -> 0 .. 15] /\ F \in [Inputs -> Carry] /\ n \in Carry
  BY SMTT(30) DEF Machine, Inputs, Carry, IncDigit, IncCarry
<1> HIDE DEF s, e, V, F, c0
<1>flow. PICK out \in Digits, car \in Carries : \E g :
         Flow(out, car, s, n, V, F) /\ Runs(g, c, r, s, out, car)
  BY <1>2, <1>3, Flowing
<1>4. PICK g : Flow(out, car, s, n, V, F) /\ Runs(g, c, r, s, out, car)
  BY <1>flow
<1>5. ASSUME NEW i \in s .. 15 PROVE Step(g[i - 1], i) = g[i]
  <2> DEFINE w == g[i - 1]
             k == car[i - 1]
             t == c.reg[r][i] + k
  <2>1. Stepped(w, g[i], c, r, i, k, V, F)
    BY <1>2, <1>4, Stepping, Zenon
  <2> HIDE DEF w, k
  <2>2. i \in 0 .. 15 /\ k \in Carry
    BY <2>1 DEF Stepped
  <2>3. /\ V[<<i, k>>] = IF k = 0 THEN c.reg[r][i] ELSE IF t < 16 THEN t % 16 ELSE (t - 16) % 16
        /\ F[<<i, k>>] = IF k = 0 \/ t < 16 THEN 0 ELSE 1
    BY <2>2, SMT DEF V, F, IncDigit, IncCarry, Inputs
  <2>4. w.reg[r][i] + w.CARRY = t /\ w.CARRY = k /\ w.hexmode = c.hexmode
    BY <2>1, Zenon DEF Stepped
  <2>5. [w EXCEPT !.reg[r][i] = V[<<i, k>>], !.CARRY = F[<<i, k>>]] = g[i]
    BY <2>1, Zenon DEF Stepped
  <2>6. k = 0 => w = g[i]
    BY <2>1, <2>3 DEF Stepped
  <2> HIDE DEF t
  <2>7. Step(w, i) = g[i]
    <3>1. CASE k = 0
      BY <2>3, <2>4, <2>5, <2>6, <3>1, Zenon DEF PutCarry
    <3>2. CASE k # 0 /\ t < 16
      BY <2>3, <2>4, <2>5, <2>6, <3>2, Zenon DEF PutCarry
    <3>3. CASE k # 0 /\ ~(t < 16)
      BY <2>3, <2>4, <2>5, <2>6, <3>3, Zenon DEF PutCarry
    <3> QED BY <3>1, <3>2, <3>3
  <2> QED BY <2>7 DEF w
<1> HIDE DEF Step
<1>6. \A i \in -1 .. 15 : g[i] = IF i < s THEN c0 ELSE Step(g[i - 1], i)
  <2>1. ASSUME NEW i \in -1 .. s - 1 PROVE g[i] = c0
    BY <1>4 DEF Runs, Flow, c0
  <2> QED BY <1>2, <1>5, <2>1, Nibbles16, Zenon
<1>7. Done(g)
  BY <1>4, <1>6, Zenon DEF Runs
<1>8. Done(d)
  BY <1>7, Zenon
<1> HIDE DEF d
<1>9. d[e] = g[e]
  <2>1. Alike(d, g, s)
    BY <1>2, <1>5, <1>6, <1>8 DEF Alike
  <2> QED BY <1>2, <2>1, SameLoop
<1>10. d[e] = Written(c, r, s, e, out, car[e])
  BY <1>2, <1>4, <1>9 DEF Runs
<1> QED BY <1>1, <1>2, <1>4, <1>10 DEF Ran, V, F

LEMMA SubtractingConstants ==
    ASSUME NEW Mem, NEW c \in Machine(Mem), NEW r \in RegisterName, NEW f \in Fields,
           NEW n \in 1 .. 16
    PROVE  Ran(sub_register_constant(c, r, f, n), c, r, f, n, DecDigit(c.reg[r], 16),
               DecCarry(c.reg[r], 16))
<1> DEFINE c0 == [c EXCEPT !.CARRY = n]
           s == get_start(c0, f)
           e == get_end(c0, f)
           V == DecDigit(c.reg[r], 16)
           F == DecCarry(c.reg[r], 16)
           Step(m, i) ==
              LET t == m.reg[r][i] - m.CARRY
              IN  CASE m.CARRY = 0 -> m
                    [] m.CARRY # 0 /\ t >= 0 -> PutCarry(m, r, i, t, 0)
                    [] OTHER -> PutCarry(m, r, i, t + 16, 1)
           Done(d) == d = [i \in -1 .. 15 |-> IF i < s THEN c0 ELSE Step(d[i - 1], i)]
           d == CHOOSE d : Done(d)
<1>1. sub_register_constant(c, r, f, n) = d[e]
  BY Zenon DEF sub_register_constant, Up
<1>2. s = get_start(c, f) /\ e = get_end(c, f) /\ s \in 0 .. 15 /\ e \in s .. 15
  BY FieldsOf, Zenon
<1>3. V \in [Inputs -> 0 .. 15] /\ F \in [Inputs -> Carry] /\ n \in Carry
  BY SMTT(30) DEF Machine, Inputs, Carry, DecDigit, DecCarry
<1> HIDE DEF s, e, V, F, c0
<1>flow. PICK out \in Digits, car \in Carries : \E g :
         Flow(out, car, s, n, V, F) /\ Runs(g, c, r, s, out, car)
  BY <1>2, <1>3, Flowing
<1>4. PICK g : Flow(out, car, s, n, V, F) /\ Runs(g, c, r, s, out, car)
  BY <1>flow
<1>5. ASSUME NEW i \in s .. 15 PROVE Step(g[i - 1], i) = g[i]
  <2> DEFINE w == g[i - 1]
             k == car[i - 1]
             t == c.reg[r][i] - k
  <2>1. Stepped(w, g[i], c, r, i, k, V, F)
    BY <1>2, <1>4, Stepping, Zenon
  <2> HIDE DEF w, k
  <2>2. i \in 0 .. 15 /\ k \in Carry
    BY <2>1 DEF Stepped
  <2>3. /\ V[<<i, k>>] = IF k = 0 THEN c.reg[r][i] ELSE IF t >= 0 THEN t % 16 ELSE (t + 16) % 16
        /\ F[<<i, k>>] = IF k = 0 \/ t >= 0 THEN 0 ELSE 1
    BY <2>2, SMT DEF V, F, DecDigit, DecCarry, Inputs
  <2>4. w.reg[r][i] - w.CARRY = t /\ w.CARRY = k /\ w.hexmode = c.hexmode
    BY <2>1, Zenon DEF Stepped
  <2>5. [w EXCEPT !.reg[r][i] = V[<<i, k>>], !.CARRY = F[<<i, k>>]] = g[i]
    BY <2>1, Zenon DEF Stepped
  <2>6. k = 0 => w = g[i]
    BY <2>1, <2>3 DEF Stepped
  <2> HIDE DEF t
  <2>7. Step(w, i) = g[i]
    <3>1. CASE k = 0
      BY <2>3, <2>4, <2>5, <2>6, <3>1, Zenon DEF PutCarry
    <3>2. CASE k # 0 /\ t >= 0
      BY <2>3, <2>4, <2>5, <2>6, <3>2, Zenon DEF PutCarry
    <3>3. CASE k # 0 /\ ~(t >= 0)
      BY <2>3, <2>4, <2>5, <2>6, <3>3, Zenon DEF PutCarry
    <3> QED BY <3>1, <3>2, <3>3
  <2> QED BY <2>7 DEF w
<1> HIDE DEF Step
<1>6. \A i \in -1 .. 15 : g[i] = IF i < s THEN c0 ELSE Step(g[i - 1], i)
  <2>1. ASSUME NEW i \in -1 .. s - 1 PROVE g[i] = c0
    BY <1>4 DEF Runs, Flow, c0
  <2> QED BY <1>2, <1>5, <2>1, Nibbles16, Zenon
<1>7. Done(g)
  BY <1>4, <1>6, Zenon DEF Runs
<1>8. Done(d)
  BY <1>7, Zenon
<1> HIDE DEF d
<1>9. d[e] = g[e]
  <2>1. Alike(d, g, s)
    BY <1>2, <1>5, <1>6, <1>8 DEF Alike
  <2> QED BY <1>2, <2>1, SameLoop
<1>10. d[e] = Written(c, r, s, e, out, car[e])
  BY <1>2, <1>4, <1>9 DEF Runs
<1> QED BY <1>1, <1>2, <1>4, <1>10 DEF Ran, V, F

\* A complement, of 15 or of 9, to which a carry is added.
NegativeDigit(x, h) ==
    [q \in Inputs |-> LET t == h - 1 - x[q[1]] + q[2] IN IF t < h THEN t % 16 ELSE (t - h) % 16]
NegativeCarry(x, h) == [q \in Inputs |-> IF h - 1 - x[q[1]] + q[2] < h THEN 0 ELSE 1]

LEMMA Negating ==
    ASSUME NEW Mem, NEW c \in Machine(Mem), NEW r \in RegisterName, NEW f \in Fields
    PROVE  \E m : /\ Ran(m, c, r, f, 1, NegativeDigit(c.reg[r], c.hexmode),
                           NegativeCarry(c.reg[r], c.hexmode))
                  /\ complement_2_register(c, r, f) =
                        [m EXCEPT !.CARRY =
                            IF \E i \in get_start(c, f) .. get_end(c, f) : m.reg[r][i] # 0
                            THEN 1 ELSE 0]
<1> DEFINE c0 == [c EXCEPT !.CARRY = 1]
           s == get_start(c0, f)
           e == get_end(c0, f)
           V == NegativeDigit(c.reg[r], c.hexmode)
           F == NegativeCarry(c.reg[r], c.hexmode)
           Step(m, i) ==
              LET t == m.hexmode - 1 - m.reg[r][i] + m.CARRY
              IN  IF t < m.hexmode THEN PutCarry(m, r, i, t, 0)
                                   ELSE PutCarry(m, r, i, t - m.hexmode, 1)
           Done(d) == d = [i \in -1 .. 15 |-> IF i < s THEN c0 ELSE Step(d[i - 1], i)]
           d == CHOOSE d : Done(d)
<1>1. complement_2_register(c, r, f) =
         [d[e] EXCEPT !.CARRY =
             IF \E i \in get_start(c, f) .. get_end(c, f) : d[e].reg[r][i] # 0 THEN 1 ELSE 0]
  BY Zenon DEF complement_2_register, Up
<1>2. s = get_start(c, f) /\ e = get_end(c, f) /\ s \in 0 .. 15 /\ e \in s .. 15
  BY FieldsOf, Zenon
<1>3. V \in [Inputs -> 0 .. 15] /\ F \in [Inputs -> Carry] /\ 1 \in Carry
  BY SMTT(30) DEF Machine, Inputs, Carry, NegativeDigit, NegativeCarry
<1> HIDE DEF s, e, V, F, c0
<1>flow. PICK out \in Digits, car \in Carries : \E g :
         Flow(out, car, s, 1, V, F) /\ Runs(g, c, r, s, out, car)
  BY <1>2, <1>3, Flowing
<1>4. PICK g : Flow(out, car, s, 1, V, F) /\ Runs(g, c, r, s, out, car)
  BY <1>flow
<1>5. ASSUME NEW i \in s .. 15 PROVE Step(g[i - 1], i) = g[i]
  <2> DEFINE w == g[i - 1]
             k == car[i - 1]
             t == c.hexmode - 1 - c.reg[r][i] + k
  <2>1. Stepped(w, g[i], c, r, i, k, V, F)
    BY <1>2, <1>4, Stepping, Zenon
  <2> HIDE DEF w, k
  <2>2. i \in 0 .. 15 /\ k \in Carry
    BY <2>1 DEF Stepped
  <2>3. /\ V[<<i, k>>] = IF t < c.hexmode THEN t % 16 ELSE (t - c.hexmode) % 16
        /\ F[<<i, k>>] = IF t < c.hexmode THEN 0 ELSE 1
    BY <2>2, SMT DEF V, F, NegativeDigit, NegativeCarry, Inputs
  <2>4. w.hexmode - 1 - w.reg[r][i] + w.CARRY = t /\ w.hexmode = c.hexmode
    BY <2>1, Zenon DEF Stepped
  <2>5. [w EXCEPT !.reg[r][i] = V[<<i, k>>], !.CARRY = F[<<i, k>>]] = g[i]
    BY <2>1, Zenon DEF Stepped
  <2> HIDE DEF t
  <2>6. Step(w, i) = g[i]
    <3>1. CASE t < c.hexmode
      BY <2>3, <2>4, <2>5, <3>1, Zenon DEF PutCarry
    <3>2. CASE ~(t < c.hexmode)
      BY <2>3, <2>4, <2>5, <3>2, Zenon DEF PutCarry
    <3> QED BY <3>1, <3>2
  <2> QED BY <2>6 DEF w
<1> HIDE DEF Step
<1>6. \A i \in -1 .. 15 : g[i] = IF i < s THEN c0 ELSE Step(g[i - 1], i)
  <2>1. ASSUME NEW i \in -1 .. s - 1 PROVE g[i] = c0
    BY <1>4 DEF Runs, Flow, c0
  <2> QED BY <1>2, <1>5, <2>1, Nibbles16, Zenon
<1>7. Done(g)
  BY <1>4, <1>6, Zenon DEF Runs
<1>8. Done(d)
  BY <1>7, Zenon
<1> HIDE DEF d
<1>9. d[e] = g[e]
  <2>1. Alike(d, g, s)
    BY <1>2, <1>5, <1>6, <1>8 DEF Alike
  <2> QED BY <1>2, <2>1, SameLoop
<1>10. d[e] = Written(c, r, s, e, out, car[e])
  BY <1>2, <1>4, <1>9 DEF Runs
<1>11. Ran(d[e], c, r, f, 1, V, F)
  BY <1>2, <1>4, <1>10 DEF Ran
<1> HIDE DEF Done
<1> QED BY <1>1, <1>11 DEF V, F

----------------------------------------------------------------------------
(* Loops that carry nothing: CARRY stays what it was.                      *)

Keep == [q \in Inputs |-> q[2]]

NotDigit(x, h) == [q \in Inputs |-> (h - 1 - x[q[1]]) % 16]
CopyDigit(x) == [q \in Inputs |-> x[q[1]] % 16]
ZeroDigit == [q \in Inputs |-> 0 % 16]
AndNibbles(x, y) == LET And(a, b) == a * b IN NibbleWise(And, x, y)
OrNibbles(x, y) == LET Or(a, b) == IF a = 1 THEN 1 ELSE b IN NibbleWise(Or, x, y)
AndDigit(x, y) == [q \in Inputs |-> AndNibbles(x[q[1]], y[q[1]]) % 16]
OrDigit(x, y) == [q \in Inputs |-> OrNibbles(x[q[1]], y[q[1]]) % 16]

LEMMA Inverting ==
    ASSUME NEW Mem, NEW c \in Machine(Mem), NEW r \in RegisterName, NEW f \in Fields
    PROVE  \E m : /\ Ran(m, c, r, f, c.CARRY, NotDigit(c.reg[r], c.hexmode), Keep)
                  /\ complement_1_register(c, r, f) = [m EXCEPT !.CARRY = 0]
<1> DEFINE s == get_start(c, f)
           e == get_end(c, f)
           V == NotDigit(c.reg[r], c.hexmode)
           F == Keep
           Step(m, i) ==
              Put(m, r, i, m.hexmode - 1 - m.reg[r][i])
           Done(d) == d = [i \in -1 .. 15 |-> IF i < s THEN c ELSE Step(d[i - 1], i)]
           d == CHOOSE d : Done(d)
<1>1. complement_1_register(c, r, f) = [d[e] EXCEPT !.CARRY = 0]
  BY Zenon DEF complement_1_register, Up
<1>2. s = get_start(c, f) /\ e = get_end(c, f) /\ s \in 0 .. 15 /\ e \in s .. 15
  BY FieldsOf, Zenon
<1>3. V \in [Inputs -> 0 .. 15] /\ F \in [Inputs -> Carry] /\ c.CARRY \in Carry
  BY SMT DEF Machine, Inputs, Carry, NotDigit, Keep
<1> HIDE DEF s, e, V, F
<1>flow. PICK out \in Digits, car \in Carries : \E g :
         Flow(out, car, s, c.CARRY, V, F) /\ Runs(g, c, r, s, out, car)
  BY <1>2, <1>3, Flowing
<1>4. PICK g : Flow(out, car, s, c.CARRY, V, F) /\ Runs(g, c, r, s, out, car)
  BY <1>flow
<1>5. ASSUME NEW i \in s .. 15 PROVE Step(g[i - 1], i) = g[i]
  <2> DEFINE w == g[i - 1]
             k == car[i - 1]
  <2>1. Stepped(w, g[i], c, r, i, k, V, F)
    BY <1>2, <1>4, Stepping, Zenon
  <2> HIDE DEF w, k
  <2>2. i \in 0 .. 15 /\ k \in Carry
    BY <2>1 DEF Stepped
  <2>3. /\ V[<<i, k>>] = (c.hexmode - 1 - c.reg[r][i]) % 16
        /\ F[<<i, k>>] = k
    BY <2>2, SMT DEF V, F, NotDigit, Keep, Inputs
  <2>4. w.reg[r][i] = c.reg[r][i] /\ w.hexmode = c.hexmode
    BY <2>1, Zenon DEF Stepped
  <2>5. [w EXCEPT !.reg[r][i] = V[<<i, k>>]] = g[i]
    BY <2>1, <2>3, Zenon DEF Stepped
  <2>6. Step(w, i) = g[i]
    BY <2>3, <2>4, <2>5, Zenon DEF Put
  <2> QED BY <2>6 DEF w
<1> HIDE DEF Step
<1>6. \A i \in -1 .. 15 : g[i] = IF i < s THEN c ELSE Step(g[i - 1], i)
  <2>1. ASSUME NEW i \in -1 .. s - 1 PROVE g[i] = c
    BY <1>4 DEF Runs, Flow, Machine
  <2> QED BY <1>2, <1>5, <2>1, Nibbles16, Zenon
<1>7. Done(g)
  BY <1>4, <1>6, Zenon DEF Runs
<1>8. Done(d)
  BY <1>7, Zenon
<1> HIDE DEF d
<1>9. d[e] = g[e]
  <2>1. Alike(d, g, s)
    BY <1>2, <1>5, <1>6, <1>8 DEF Alike
  <2> QED BY <1>2, <2>1, SameLoop
<1>10. d[e] = Written(c, r, s, e, out, car[e])
  BY <1>2, <1>4, <1>9 DEF Runs
<1>11. Ran(d[e], c, r, f, c.CARRY, V, F)
  BY <1>2, <1>4, <1>10 DEF Ran
<1> HIDE DEF Done
<1> QED BY <1>1, <1>11 DEF V, F

LEMMA Zeroing ==
    ASSUME NEW Mem, NEW c \in Machine(Mem), NEW r \in RegisterName, NEW f \in Fields
    PROVE  Ran(zero_register(c, r, f), c, r, f, c.CARRY, ZeroDigit, Keep)
<1> DEFINE s == get_start(c, f)
           e == get_end(c, f)
           V == ZeroDigit
           F == Keep
           Step(m, i) ==
              Put(m, r, i, 0)
           Done(d) == d = [i \in -1 .. 15 |-> IF i < s THEN c ELSE Step(d[i - 1], i)]
           d == CHOOSE d : Done(d)
<1>1. zero_register(c, r, f) = d[e]
  BY Zenon DEF zero_register, Up
<1>2. s = get_start(c, f) /\ e = get_end(c, f) /\ s \in 0 .. 15 /\ e \in s .. 15
  BY FieldsOf, Zenon
<1>3. V \in [Inputs -> 0 .. 15] /\ F \in [Inputs -> Carry] /\ c.CARRY \in Carry
  BY SMT DEF Machine, Inputs, Carry, ZeroDigit, Keep
<1> HIDE DEF s, e, V, F
<1>flow. PICK out \in Digits, car \in Carries : \E g :
         Flow(out, car, s, c.CARRY, V, F) /\ Runs(g, c, r, s, out, car)
  BY <1>2, <1>3, Flowing
<1>4. PICK g : Flow(out, car, s, c.CARRY, V, F) /\ Runs(g, c, r, s, out, car)
  BY <1>flow
<1>5. ASSUME NEW i \in s .. 15 PROVE Step(g[i - 1], i) = g[i]
  <2> DEFINE w == g[i - 1]
             k == car[i - 1]
  <2>1. Stepped(w, g[i], c, r, i, k, V, F)
    BY <1>2, <1>4, Stepping, Zenon
  <2> HIDE DEF w, k
  <2>2. i \in 0 .. 15 /\ k \in Carry
    BY <2>1 DEF Stepped
  <2>3. /\ V[<<i, k>>] = 0 % 16
        /\ F[<<i, k>>] = k
    BY <2>2, SMT DEF V, F, ZeroDigit, Keep, Inputs
  <2>4. TRUE
    OBVIOUS
  <2>5. [w EXCEPT !.reg[r][i] = V[<<i, k>>]] = g[i]
    BY <2>1, <2>3, Zenon DEF Stepped
  <2>6. Step(w, i) = g[i]
    BY <2>3, <2>4, <2>5, Zenon DEF Put
  <2> QED BY <2>6 DEF w
<1> HIDE DEF Step
<1>6. \A i \in -1 .. 15 : g[i] = IF i < s THEN c ELSE Step(g[i - 1], i)
  <2>1. ASSUME NEW i \in -1 .. s - 1 PROVE g[i] = c
    BY <1>4 DEF Runs, Flow, Machine
  <2> QED BY <1>2, <1>5, <2>1, Nibbles16, Zenon
<1>7. Done(g)
  BY <1>4, <1>6, Zenon DEF Runs
<1>8. Done(d)
  BY <1>7, Zenon
<1> HIDE DEF d
<1>9. d[e] = g[e]
  <2>1. Alike(d, g, s)
    BY <1>2, <1>5, <1>6, <1>8 DEF Alike
  <2> QED BY <1>2, <2>1, SameLoop
<1>10. d[e] = Written(c, r, s, e, out, car[e])
  BY <1>2, <1>4, <1>9 DEF Runs
<1> QED BY <1>1, <1>2, <1>4, <1>10 DEF Ran, V, F

LEMMA Copying ==
    ASSUME NEW Mem, NEW c \in Machine(Mem), NEW to \in RegisterName, NEW from \in RegisterName,
           NEW f \in Fields
    PROVE  Ran(copy_register(c, to, from, f), c, to, f, c.CARRY, CopyDigit(c.reg[from]), Keep)
<1> DEFINE s == get_start(c, f)
           e == get_end(c, f)
           V == CopyDigit(c.reg[from])
           F == Keep
           Step(m, i) ==
              Put(m, to, i, m.reg[from][i])
           Done(d) == d = [i \in -1 .. 15 |-> IF i < s THEN c ELSE Step(d[i - 1], i)]
           d == CHOOSE d : Done(d)
<1>1. copy_register(c, to, from, f) = d[e]
  BY Zenon DEF copy_register, Up
<1>2. s = get_start(c, f) /\ e = get_end(c, f) /\ s \in 0 .. 15 /\ e \in s .. 15
  BY FieldsOf, Zenon
<1>3. V \in [Inputs -> 0 .. 15] /\ F \in [Inputs -> Carry] /\ c.CARRY \in Carry
  BY SMT DEF Machine, Inputs, Carry, CopyDigit, Keep
<1> HIDE DEF s, e, V, F
<1>flow. PICK out \in Digits, car \in Carries : \E g :
         Flow(out, car, s, c.CARRY, V, F) /\ Runs(g, c, to, s, out, car)
  BY <1>2, <1>3, Flowing
<1>4. PICK g : Flow(out, car, s, c.CARRY, V, F) /\ Runs(g, c, to, s, out, car)
  BY <1>flow
<1>5. ASSUME NEW i \in s .. 15 PROVE Step(g[i - 1], i) = g[i]
  <2> DEFINE w == g[i - 1]
             k == car[i - 1]
  <2>1. Stepped(w, g[i], c, to, i, k, V, F)
    BY <1>2, <1>4, Stepping, Zenon
  <2> HIDE DEF w, k
  <2>2. i \in 0 .. 15 /\ k \in Carry
    BY <2>1 DEF Stepped
  <2>3. /\ V[<<i, k>>] = c.reg[from][i] % 16
        /\ F[<<i, k>>] = k
    BY <2>2, SMT DEF V, F, CopyDigit, Keep, Inputs
  <2>4. w.reg[from][i] = c.reg[from][i]
    BY <2>1, Zenon DEF Stepped
  <2>5. [w EXCEPT !.reg[to][i] = V[<<i, k>>]] = g[i]
    BY <2>1, <2>3, Zenon DEF Stepped
  <2>6. Step(w, i) = g[i]
    BY <2>3, <2>4, <2>5, Zenon DEF Put
  <2> QED BY <2>6 DEF w
<1> HIDE DEF Step
<1>6. \A i \in -1 .. 15 : g[i] = IF i < s THEN c ELSE Step(g[i - 1], i)
  <2>1. ASSUME NEW i \in -1 .. s - 1 PROVE g[i] = c
    BY <1>4 DEF Runs, Flow, Machine
  <2> QED BY <1>2, <1>5, <2>1, Nibbles16, Zenon
<1>7. Done(g)
  BY <1>4, <1>6, Zenon DEF Runs
<1>8. Done(d)
  BY <1>7, Zenon
<1> HIDE DEF d
<1>9. d[e] = g[e]
  <2>1. Alike(d, g, s)
    BY <1>2, <1>5, <1>6, <1>8 DEF Alike
  <2> QED BY <1>2, <2>1, SameLoop
<1>10. d[e] = Written(c, to, s, e, out, car[e])
  BY <1>2, <1>4, <1>9 DEF Runs
<1> QED BY <1>1, <1>2, <1>4, <1>10 DEF Ran, V, F

LEMMA Anding ==
    ASSUME NEW Mem, NEW c \in Machine(Mem), NEW res \in RegisterName, NEW r1 \in RegisterName,
           NEW r2 \in RegisterName, NEW f \in Fields
    PROVE  Ran(and_register(c, res, r1, r2, f), c, res, f, c.CARRY, AndDigit(c.reg[r1], c.reg[r2]), Keep)
<1> DEFINE s == get_start(c, f)
           e == get_end(c, f)
           V == AndDigit(c.reg[r1], c.reg[r2])
           F == Keep
           Step(m, i) ==
              LET And(a, b) == a * b
              IN  Put(m, res, i, NibbleWise(And, m.reg[r1][i], m.reg[r2][i]))
           Done(d) == d = [i \in -1 .. 15 |-> IF i < s THEN c ELSE Step(d[i - 1], i)]
           d == CHOOSE d : Done(d)
<1>1. and_register(c, res, r1, r2, f) = d[e]
  BY Zenon DEF and_register, Up
<1>2. s = get_start(c, f) /\ e = get_end(c, f) /\ s \in 0 .. 15 /\ e \in s .. 15
  BY FieldsOf, Zenon
<1>3. V \in [Inputs -> 0 .. 15] /\ F \in [Inputs -> Carry] /\ c.CARRY \in Carry
  <2>1. ASSUME NEW x \in 0 .. 15, NEW y \in 0 .. 15
        PROVE  AndNibbles(x, y) % 16 \in 0 .. 15
    <3>1. \A k \in 0 .. 3 : Bit(x, k) \in Int /\ Bit(y, k) \in Int
      BY SMT DEF Bit
    <3>2. \A t \in Int : t % 16 \in 0 .. 15
      OBVIOUS
    <3> QED BY <3>1, <3>2 DEF NibbleWise, AndNibbles
  <2>2. \A q \in Inputs : c.reg[r1][q[1]] \in 0 .. 15 /\ c.reg[r2][q[1]] \in 0 .. 15
    BY DEF Machine, Inputs
  <2>3. V \in [Inputs -> 0 .. 15]
    BY <2>1, <2>2, Zenon DEF AndDigit
  <2> QED BY <2>3, SMT DEF Machine, Carry, Inputs, Keep
<1> HIDE DEF s, e, V, F
<1>flow. PICK out \in Digits, car \in Carries : \E g :
         Flow(out, car, s, c.CARRY, V, F) /\ Runs(g, c, res, s, out, car)
  BY <1>2, <1>3, Flowing
<1>4. PICK g : Flow(out, car, s, c.CARRY, V, F) /\ Runs(g, c, res, s, out, car)
  BY <1>flow
<1>5. ASSUME NEW i \in s .. 15 PROVE Step(g[i - 1], i) = g[i]
  <2> DEFINE w == g[i - 1]
             k == car[i - 1]
  <2>1. Stepped(w, g[i], c, res, i, k, V, F)
    BY <1>2, <1>4, Stepping, Zenon
  <2> HIDE DEF w, k
  <2>2. i \in 0 .. 15 /\ k \in Carry
    BY <2>1 DEF Stepped
  <2>3. /\ V[<<i, k>>] = AndNibbles(c.reg[r1][i], c.reg[r2][i]) % 16
        /\ F[<<i, k>>] = k
    BY <2>2, SMT DEF V, F, AndDigit, Keep, Inputs
  <2>4. w.reg[r1][i] = c.reg[r1][i] /\ w.reg[r2][i] = c.reg[r2][i]
    BY <2>1, Zenon DEF Stepped
  <2>5. [w EXCEPT !.reg[res][i] = V[<<i, k>>]] = g[i]
    BY <2>1, <2>3, Zenon DEF Stepped
  <2>6. Step(w, i) = g[i]
    BY <2>3, <2>4, <2>5, Zenon DEF Put, AndNibbles
  <2> QED BY <2>6 DEF w
<1> HIDE DEF Step
<1>6. \A i \in -1 .. 15 : g[i] = IF i < s THEN c ELSE Step(g[i - 1], i)
  <2>1. ASSUME NEW i \in -1 .. s - 1 PROVE g[i] = c
    BY <1>4 DEF Runs, Flow, Machine
  <2> QED BY <1>2, <1>5, <2>1, Nibbles16, Zenon
<1>7. Done(g)
  BY <1>4, <1>6, Zenon DEF Runs
<1>8. Done(d)
  BY <1>7, Zenon
<1> HIDE DEF d
<1>9. d[e] = g[e]
  <2>1. Alike(d, g, s)
    BY <1>2, <1>5, <1>6, <1>8 DEF Alike
  <2> QED BY <1>2, <2>1, SameLoop
<1>10. d[e] = Written(c, res, s, e, out, car[e])
  BY <1>2, <1>4, <1>9 DEF Runs
<1> QED BY <1>1, <1>2, <1>4, <1>10 DEF Ran, V, F

LEMMA Oring ==
    ASSUME NEW Mem, NEW c \in Machine(Mem), NEW res \in RegisterName, NEW r1 \in RegisterName,
           NEW r2 \in RegisterName, NEW f \in Fields
    PROVE  Ran(or_register(c, res, r1, r2, f), c, res, f, c.CARRY, OrDigit(c.reg[r1], c.reg[r2]), Keep)
<1> DEFINE s == get_start(c, f)
           e == get_end(c, f)
           V == OrDigit(c.reg[r1], c.reg[r2])
           F == Keep
           Step(m, i) ==
              LET Or(a, b) == IF a = 1 THEN 1 ELSE b
              IN  Put(m, res, i, NibbleWise(Or, m.reg[r1][i], m.reg[r2][i]))
           Done(d) == d = [i \in -1 .. 15 |-> IF i < s THEN c ELSE Step(d[i - 1], i)]
           d == CHOOSE d : Done(d)
<1>1. or_register(c, res, r1, r2, f) = d[e]
  BY Zenon DEF or_register, Up
<1>2. s = get_start(c, f) /\ e = get_end(c, f) /\ s \in 0 .. 15 /\ e \in s .. 15
  BY FieldsOf, Zenon
<1>3. V \in [Inputs -> 0 .. 15] /\ F \in [Inputs -> Carry] /\ c.CARRY \in Carry
  <2>1. ASSUME NEW x \in 0 .. 15, NEW y \in 0 .. 15
        PROVE  OrNibbles(x, y) % 16 \in 0 .. 15
    <3>1. \A k \in 0 .. 3 : Bit(x, k) \in Int /\ Bit(y, k) \in Int
      BY SMT DEF Bit
    <3>2. \A t \in Int : t % 16 \in 0 .. 15
      OBVIOUS
    <3> QED BY <3>1, <3>2 DEF NibbleWise, OrNibbles
  <2>2. \A q \in Inputs : c.reg[r1][q[1]] \in 0 .. 15 /\ c.reg[r2][q[1]] \in 0 .. 15
    BY DEF Machine, Inputs
  <2>3. V \in [Inputs -> 0 .. 15]
    BY <2>1, <2>2, Zenon DEF OrDigit
  <2> QED BY <2>3, SMT DEF Machine, Carry, Inputs, Keep
<1> HIDE DEF s, e, V, F
<1>flow. PICK out \in Digits, car \in Carries : \E g :
         Flow(out, car, s, c.CARRY, V, F) /\ Runs(g, c, res, s, out, car)
  BY <1>2, <1>3, Flowing
<1>4. PICK g : Flow(out, car, s, c.CARRY, V, F) /\ Runs(g, c, res, s, out, car)
  BY <1>flow
<1>5. ASSUME NEW i \in s .. 15 PROVE Step(g[i - 1], i) = g[i]
  <2> DEFINE w == g[i - 1]
             k == car[i - 1]
  <2>1. Stepped(w, g[i], c, res, i, k, V, F)
    BY <1>2, <1>4, Stepping, Zenon
  <2> HIDE DEF w, k
  <2>2. i \in 0 .. 15 /\ k \in Carry
    BY <2>1 DEF Stepped
  <2>3. /\ V[<<i, k>>] = OrNibbles(c.reg[r1][i], c.reg[r2][i]) % 16
        /\ F[<<i, k>>] = k
    BY <2>2, SMT DEF V, F, OrDigit, Keep, Inputs
  <2>4. w.reg[r1][i] = c.reg[r1][i] /\ w.reg[r2][i] = c.reg[r2][i]
    BY <2>1, Zenon DEF Stepped
  <2>5. [w EXCEPT !.reg[res][i] = V[<<i, k>>]] = g[i]
    BY <2>1, <2>3, Zenon DEF Stepped
  <2>6. Step(w, i) = g[i]
    BY <2>3, <2>4, <2>5, Zenon DEF Put, OrNibbles
  <2> QED BY <2>6 DEF w
<1> HIDE DEF Step
<1>6. \A i \in -1 .. 15 : g[i] = IF i < s THEN c ELSE Step(g[i - 1], i)
  <2>1. ASSUME NEW i \in -1 .. s - 1 PROVE g[i] = c
    BY <1>4 DEF Runs, Flow, Machine
  <2> QED BY <1>2, <1>5, <2>1, Nibbles16, Zenon
<1>7. Done(g)
  BY <1>4, <1>6, Zenon DEF Runs
<1>8. Done(d)
  BY <1>7, Zenon
<1> HIDE DEF d
<1>9. d[e] = g[e]
  <2>1. Alike(d, g, s)
    BY <1>2, <1>5, <1>6, <1>8 DEF Alike
  <2> QED BY <1>2, <2>1, SameLoop
<1>10. d[e] = Written(c, res, s, e, out, car[e])
  BY <1>2, <1>4, <1>9 DEF Runs
<1> QED BY <1>1, <1>2, <1>4, <1>10 DEF Ran, V, F

----------------------------------------------------------------------------
(* Shifts to the right, and recalls.                                       *)

RightDigit(x, e, last) == [q \in Inputs |-> (IF q[1] < e THEN x[q[1] + 1] ELSE last) % 16]

LEMMA SettingSB ==
    ASSUME NEW Mem, NEW c \in Machine(Mem), NEW lost
    PROVE  /\ SetSB(c, lost) \in Machine(Mem)
           /\ SetSB(c, lost).reg = c.reg /\ SetSB(c, lost).CARRY = c.CARRY
           /\ \A f : /\ get_start(SetSB(c, lost), f) = get_start(c, f)
                     /\ get_end(SetSB(c, lost), f) = get_end(c, f)
<1>1. SetSB(c, lost) \in Machine(Mem)
  BY DEF SetSB, Machine
<1>2. SetSB(c, lost).reg = c.reg /\ SetSB(c, lost).CARRY = c.CARRY /\ SetSB(c, lost).P = c.P
  BY DEF SetSB, Machine
<1> QED BY <1>1, <1>2, Zenon DEF get_start, get_end

LEMMA ShiftingRight ==
    ASSUME NEW Mem, NEW c \in Machine(Mem), NEW r \in RegisterName, NEW f \in Fields
    PROVE  Ran(shift_right_register(c, r, f), SetSB(c, c.reg[r][get_start(c, f)]), r, f, c.CARRY,
               RightDigit(c.reg[r], get_end(c, f), 0), Keep)
<1> DEFINE b == SetSB(c, c.reg[r][get_start(c, f)])
           top == get_end(c, f)
           s == get_start(b, f)
           e == get_end(b, f)
           V == RightDigit(c.reg[r], top, 0)
           F == Keep
           Step(m, i) ==
              Put(m, r, i, IF i < top THEN m.reg[r][i + 1] ELSE 0)
           Done(d) == d = [i \in -1 .. 15 |-> IF i < s THEN b ELSE Step(d[i - 1], i)]
           d == CHOOSE d : Done(d)
<1>1. shift_right_register(c, r, f) = d[e]
  BY Zenon DEF shift_right_register, Up
<1>2. b \in Machine(Mem) /\ b.reg = c.reg /\ b.CARRY = c.CARRY
  BY SettingSB, Zenon
<1>3. s = get_start(c, f) /\ e = get_end(c, f)
  BY SettingSB, Zenon
<1>4. top \in 0 .. 15
  BY FieldsOf, Zenon
<1>5. s = get_start(c, f) /\ e = get_end(c, f) /\ s \in 0 .. 15 /\ e \in s .. 15
  BY <1>3, FieldsOf, Zenon
<1>6. V \in [Inputs -> 0 .. 15] /\ F \in [Inputs -> Carry] /\ c.CARRY \in Carry
  <2>1. top \in 0 .. 15 /\ 0 \in 0 .. 15
    BY <1>4
  <2> HIDE DEF top, s, e
  <2>2. V \in [Inputs -> 0 .. 15]
    BY <2>1, SMT DEF Machine, Inputs, RightDigit
  <2> QED BY <2>2, SMT DEF Machine, Carry, Inputs, Keep
<1> HIDE DEF s, e, V, F, b
<1>flow. PICK out \in Digits, car \in Carries : \E g :
         Flow(out, car, s, c.CARRY, V, F) /\ Runs(g, b, r, s, out, car)
  BY <1>5, <1>6, Flowing, <1>2
<1>7. PICK g : Flow(out, car, s, c.CARRY, V, F) /\ Runs(g, b, r, s, out, car)
  BY <1>flow
<1>8. ASSUME NEW i \in s .. 15 PROVE Step(g[i - 1], i) = g[i]
  <2> DEFINE w == g[i - 1]
             k == car[i - 1]
  <2>1. Stepped(w, g[i], b, r, i, k, V, F)
    BY <1>5, <1>7, Stepping, Zenon
  <2> HIDE DEF w, k
  <2>2. i \in 0 .. 15 /\ k \in Carry
    BY <2>1 DEF Stepped
  <2>3. /\ V[<<i, k>>] = (IF i < top THEN c.reg[r][i + 1] ELSE 0) % 16
        /\ F[<<i, k>>] = k
    BY <2>2, SMT DEF V, F, RightDigit, Keep, Inputs
  <2>4. i < top => w.reg[r][i + 1] = c.reg[r][i + 1]
    <3>1. i < top => i + 1 \in i .. 15
      BY <1>4, <2>2
    <3>2. i < top => w.reg[r][i + 1] = b.reg[r][i + 1]
      BY <2>1, <3>1, Zenon DEF Stepped
    <3> QED BY <3>2, <1>2
  <2>5. [w EXCEPT !.reg[r][i] = V[<<i, k>>]] = g[i]
    BY <2>1, <2>3, Zenon DEF Stepped
  <2>6. Step(w, i) = g[i]
    BY <2>3, <2>4, <2>5, Zenon DEF Put
  <2> QED BY <2>6 DEF w
<1> HIDE DEF Step
<1>9. \A i \in -1 .. 15 : g[i] = IF i < s THEN b ELSE Step(g[i - 1], i)
  <2>1. ASSUME NEW i \in -1 .. s - 1 PROVE g[i] = b
    <3>1. g[i] = [b EXCEPT !.CARRY = c.CARRY]
      BY <1>7 DEF Runs, Flow
    <3>2. [b EXCEPT !.CARRY = c.CARRY] = b
      BY <1>2 DEF Machine
    <3> QED BY <3>1, <3>2, Zenon
  <2> QED BY <1>5, <1>8, <2>1, Nibbles16, Zenon
<1>10. Done(g)
  BY <1>7, <1>9, Zenon DEF Runs
<1>11. Done(d)
  BY <1>10, Zenon
<1> HIDE DEF d
<1>12. d[e] = g[e]
  <2>1. Alike(d, g, s)
    BY <1>5, <1>8, <1>9, <1>11 DEF Alike
  <2> QED BY <1>5, <2>1, SameLoop
<1>13. d[e] = Written(b, r, s, e, out, car[e])
  BY <1>5, <1>7, <1>12 DEF Runs
<1> QED BY <1>2, <1>1, <1>5, <1>7, <1>13, SettingSB, Zenon DEF Ran, V, F, b, top

LEMMA ShiftingRightRound ==
    ASSUME NEW Mem, NEW c \in Machine(Mem), NEW r \in RegisterName, NEW f \in Fields
    PROVE  \E m : /\ Ran(m, c, r, f, c.CARRY,
                         RightDigit(c.reg[r], get_end(c, f), c.reg[r][get_start(c, f)]), Keep)
                  /\ shift_right_circ_register(c, r, f) = SetSB(m, c.reg[r][get_start(c, f)])
<1> DEFINE top == get_end(c, f)
           last == c.reg[r][get_start(c, f)]
           s == get_start(c, f)
           e == get_end(c, f)
           V == RightDigit(c.reg[r], top, last)
           F == Keep
           Step(m, i) ==
              Put(m, r, i, IF i < top THEN m.reg[r][i + 1] ELSE last)
           Done(d) == d = [i \in -1 .. 15 |-> IF i < s THEN c ELSE Step(d[i - 1], i)]
           d == CHOOSE d : Done(d)
<1>1. shift_right_circ_register(c, r, f) = SetSB(d[e], last)
  BY Zenon DEF shift_right_circ_register, Up
<1>2. top \in 0 .. 15
  BY FieldsOf, Zenon
<1>3. s = get_start(c, f) /\ e = get_end(c, f) /\ s \in 0 .. 15 /\ e \in s .. 15
  BY FieldsOf, Zenon
<1>4. V \in [Inputs -> 0 .. 15] /\ F \in [Inputs -> Carry] /\ c.CARRY \in Carry
  <2>1. top \in 0 .. 15 /\ last \in 0 .. 15
    BY FieldsOf DEF Machine
  <2> HIDE DEF top, last, s, e
  <2>2. V \in [Inputs -> 0 .. 15]
    BY <2>1, SMT DEF Machine, Inputs, RightDigit
  <2> QED BY <2>2, SMT DEF Machine, Carry, Inputs, Keep
<1> HIDE DEF s, e, V, F, last
<1>flow. PICK out \in Digits, car \in Carries : \E g :
         Flow(out, car, s, c.CARRY, V, F) /\ Runs(g, c, r, s, out, car)
  BY <1>3, <1>4, Flowing
<1>5. PICK g : Flow(out, car, s, c.CARRY, V, F) /\ Runs(g, c, r, s, out, car)
  BY <1>flow
<1>6. ASSUME NEW i \in s .. 15 PROVE Step(g[i - 1], i) = g[i]
  <2> DEFINE w == g[i - 1]
             k == car[i - 1]
  <2>1. Stepped(w, g[i], c, r, i, k, V, F)
    BY <1>3, <1>5, Stepping, Zenon
  <2> HIDE DEF w, k
  <2>2. i \in 0 .. 15 /\ k \in Carry
    BY <2>1 DEF Stepped
  <2>3. /\ V[<<i, k>>] = (IF i < top THEN c.reg[r][i + 1] ELSE last) % 16
        /\ F[<<i, k>>] = k
    BY <2>2, SMT DEF V, F, RightDigit, Keep, Inputs
  <2>4. i < top => w.reg[r][i + 1] = c.reg[r][i + 1]
    <3>1. i < top => i + 1 \in i .. 15
      BY <1>2, <2>2
    <3> QED BY <2>1, <3>1, Zenon DEF Stepped
  <2>5. [w EXCEPT !.reg[r][i] = V[<<i, k>>]] = g[i]
    BY <2>1, <2>3, Zenon DEF Stepped
  <2>6. Step(w, i) = g[i]
    BY <2>3, <2>4, <2>5, Zenon DEF Put
  <2> QED BY <2>6 DEF w
<1> HIDE DEF Step
<1>7. \A i \in -1 .. 15 : g[i] = IF i < s THEN c ELSE Step(g[i - 1], i)
  <2>1. ASSUME NEW i \in -1 .. s - 1 PROVE g[i] = c
    BY <1>5 DEF Runs, Flow, Machine
  <2> QED BY <1>3, <1>6, <2>1, Nibbles16, Zenon
<1>8. Done(g)
  BY <1>5, <1>7, Zenon DEF Runs
<1>9. Done(d)
  BY <1>8, Zenon
<1> HIDE DEF d
<1>10. d[e] = g[e]
  <2>1. Alike(d, g, s)
    BY <1>3, <1>6, <1>7, <1>9 DEF Alike
  <2> QED BY <1>3, <2>1, SameLoop
<1>11. d[e] = Written(c, r, s, e, out, car[e])
  BY <1>3, <1>5, <1>10 DEF Runs
<1>12. Ran(d[e], c, r, f, c.CARRY, V, F)
  BY <1>3, <1>5, <1>11 DEF Ran
<1> HIDE DEF Done
<1> QED BY <1>1, <1>12 DEF V, F, last

RecallDigit(c, dat, s) == [q \in Inputs |-> read_nibble_crc(c, dat + (q[1] - s)) % 16]

LEMMA Recalling ==
    ASSUME NEW Mem, NEW c \in Machine(Mem), NEW r \in RegisterName, NEW f \in Fields,
           NEW dat \in Int, \A a \in Int : read_nibble_crc(c, a) \in 0 .. 15
    PROVE  Ran(recall(c, r, dat, f), c, r, f, c.CARRY, RecallDigit(c, dat, get_start(c, f)), Keep)
<1> DEFINE s == get_start(c, f)
           e == get_end(c, f)
           V == RecallDigit(c, dat, s)
           F == Keep
           Step(m, i) ==
              Put(m, r, i, read_nibble_crc(c, dat + (i - s)))
           Done(d) == d = [i \in -1 .. 15 |-> IF i < s THEN c ELSE Step(d[i - 1], i)]
           d == CHOOSE d : Done(d)
<1>1. recall(c, r, dat, f) = d[e]
  BY Zenon DEF recall, Up
<1>2. s = get_start(c, f) /\ e = get_end(c, f) /\ s \in 0 .. 15 /\ e \in s .. 15
  BY FieldsOf, Zenon
<1>3. V \in [Inputs -> 0 .. 15] /\ F \in [Inputs -> Carry] /\ c.CARRY \in Carry
  <2>1. s \in Int
    BY <1>2
  <2> HIDE DEF s, e
  <2>2. \A q \in Inputs : dat + (q[1] - s) \in Int
    BY <2>1 DEF Inputs
  <2>3. \A t \in 0 .. 15 : t % 16 \in 0 .. 15
    OBVIOUS
  <2>4. V \in [Inputs -> 0 .. 15]
    BY <2>2, <2>3, Zenon DEF RecallDigit
  <2> QED BY <2>4, SMT DEF Machine, Carry, Inputs, Keep
<1> HIDE DEF s, e, V, F
<1>flow. PICK out \in Digits, car \in Carries : \E g :
         Flow(out, car, s, c.CARRY, V, F) /\ Runs(g, c, r, s, out, car)
  BY <1>2, <1>3, Flowing
<1>4. PICK g : Flow(out, car, s, c.CARRY, V, F) /\ Runs(g, c, r, s, out, car)
  BY <1>flow
<1>5. ASSUME NEW i \in s .. 15 PROVE Step(g[i - 1], i) = g[i]
  <2> DEFINE w == g[i - 1]
             k == car[i - 1]
  <2>1. Stepped(w, g[i], c, r, i, k, V, F)
    BY <1>2, <1>4, Stepping, Zenon
  <2> HIDE DEF w, k
  <2>2. i \in 0 .. 15 /\ k \in Carry
    BY <2>1 DEF Stepped
  <2>3. /\ V[<<i, k>>] = read_nibble_crc(c, dat + (i - s)) % 16
        /\ F[<<i, k>>] = k
    BY <2>2, SMT DEF V, F, RecallDigit, Keep, Inputs
  <2>4. TRUE
    OBVIOUS
  <2>5. [w EXCEPT !.reg[r][i] = V[<<i, k>>]] = g[i]
    BY <2>1, <2>3, Zenon DEF Stepped
  <2>6. Step(w, i) = g[i]
    BY <2>3, <2>4, <2>5, Zenon DEF Put
  <2> QED BY <2>6 DEF w
<1> HIDE DEF Step
<1>6. \A i \in -1 .. 15 : g[i] = IF i < s THEN c ELSE Step(g[i - 1], i)
  <2>1. ASSUME NEW i \in -1 .. s - 1 PROVE g[i] = c
    BY <1>4 DEF Runs, Flow, Machine
  <2> QED BY <1>2, <1>5, <2>1, Nibbles16, Zenon
<1>7. Done(g)
  BY <1>4, <1>6, Zenon DEF Runs
<1>8. Done(d)
  BY <1>7, Zenon
<1> HIDE DEF d
<1>9. d[e] = g[e]
  <2>1. Alike(d, g, s)
    BY <1>2, <1>5, <1>6, <1>8 DEF Alike
  <2> QED BY <1>2, <2>1, SameLoop
<1>10. d[e] = Written(c, r, s, e, out, car[e])
  BY <1>2, <1>4, <1>9 DEF Runs
<1> QED BY <1>1, <1>2, <1>4, <1>10, Zenon DEF Ran, V, F

----------------------------------------------------------------------------
(* Loops from the highest nibble of a field to the lowest.                 *)

\* What a step can do behind w, where the nibbles above i are written: write this one.
PutsDown(w, c, r, i, e, out) ==
    /\ [w EXCEPT !.reg[r][i] = out[i]] = Written(c, r, i, e, out, c.CARRY)
    /\ \A j \in 0 .. i : w.reg[r][j] = c.reg[r][j]

LEMMA WritingDown ==
    ASSUME NEW Mem, NEW c \in Machine(Mem), NEW r \in RegisterName, NEW e \in 0 .. 15,
           NEW i \in 0 .. e, NEW out \in Digits
    PROVE  PutsDown(Written(c, r, i + 1, e, out, c.CARRY), c, r, i, e, out)
<1> DEFINE R(n) == [j \in 0 .. 15 |-> IF j \in n .. e THEN out[j] ELSE c.reg[r][j]]
           w == Written(c, r, i + 1, e, out, c.CARRY)
           With(all) == [c EXCEPT !.reg = all, !.CARRY = c.CARRY]
           All(n) == [c.reg EXCEPT ![r] = R(n)]
           S == All(i + 1)
<1>1. \A n : Written(c, r, n, e, out, c.CARRY) = With(All(n))
  BY DEF Written, Machine
<1>2. c.reg \in [RegisterName -> [0 .. 15 -> 0 .. 15]]
  BY DEF Machine
<1>3. R(i + 1) \in [0 .. 15 -> 0 .. 15]
  BY <1>2 DEF Digits
<1>4. [R(i + 1) EXCEPT ![i] = out[i]] = R(i)
  <2>1. \A j \in 0 .. 15 : [R(i + 1) EXCEPT ![i] = out[i]][j] = R(i)[j]
    OBVIOUS
  <2>2. \A n : R(n) = [j \in 0 .. 15 |-> R(n)[j]]
    OBVIOUS
  <2> HIDE DEF R
  <2> QED BY <2>1, <2>2
<1>5. \A j \in 0 .. i : R(i + 1)[j] = c.reg[r][j]
  OBVIOUS
<1> HIDE DEF R
<1>6. [S EXCEPT ![r] = [S[r] EXCEPT ![i] = out[i]]] = All(i)
  BY <1>2, <1>3, <1>4
<1>7. \A j \in 0 .. i : S[r][j] = c.reg[r][j]
  BY <1>2, <1>5
<1> HIDE DEF S, All
<1>8. w = With(S)
  BY <1>1 DEF S
<1>9. [w EXCEPT !.reg[r][i] = out[i]] = Written(c, r, i, e, out, c.CARRY)
  <2>1. [w EXCEPT !.reg[r][i] = out[i]] = With([S EXCEPT ![r] = [S[r] EXCEPT ![i] = out[i]]])
    <3> HIDE DEF w
    <3> QED BY <1>8 DEF Machine
  <2> HIDE DEF w, With
  <2> QED BY <1>1, <1>6, <2>1
<1> HIDE DEF w
<1>10. w.reg = S
  BY <1>8 DEF Machine
<1> QED BY <1>7, <1>9, <1>10, Zenon DEF PutsDown, w

\* What g says of the loop, from one nibble to the next one below.
RunsDown(g, c, r, e, out) ==
    /\ g = [i \in 0 .. 16 |-> g[i]]
    /\ \A i \in e + 1 .. 16 : g[i] = c
    /\ \A i \in 0 .. e : /\ PutsDown(g[i + 1], c, r, i, e, out)
                         /\ g[i] = Written(c, r, i, e, out, c.CARRY)

Downto(e, i) == IF i > e THEN e + 1 ELSE i

LEMMA CoursingDown ==
    ASSUME NEW Mem, NEW c \in Machine(Mem), NEW r \in RegisterName, NEW e \in 0 .. 15,
           NEW out \in Digits
    PROVE  \E g : RunsDown(g, c, r, e, out)
<1> DEFINE g == [i \in 0 .. 16 |-> Written(c, r, Downto(e, i), e, out, c.CARRY)]
<1>1. ASSUME NEW i \in e + 1 .. 16 PROVE g[i] = c
  <2>1. Downto(e, i) = e + 1 /\ i \in 0 .. 16 /\ e + 1 \in 0 .. 16 /\ (e + 1) - 1 = e
    BY DEF Downto
  <2>2. g[i] = Written(c, r, e + 1, e, out, c.CARRY)
    BY <2>1
  <2>3. Written(c, r, e + 1, (e + 1) - 1, out, c.CARRY) = [c EXCEPT !.CARRY = c.CARRY]
    <3>1. e + 1 \in 0 .. 16
      BY <2>1
    <3> QED BY <3>1, NothingWritten
  <2>4. [c EXCEPT !.CARRY = c.CARRY] = c
    BY DEF Machine
  <2> HIDE DEF g
  <2> QED BY <2>1, <2>2, <2>3, <2>4
<1>2. ASSUME NEW i \in 0 .. e
      PROVE  /\ g[i + 1] = Written(c, r, i + 1, e, out, c.CARRY)
             /\ g[i] = Written(c, r, i, e, out, c.CARRY)
  <2>1. Downto(e, i) = i /\ Downto(e, i + 1) = i + 1 /\ i \in 0 .. 16 /\ i + 1 \in 0 .. 16
    BY DEF Downto
  <2> QED BY <2>1
<1>3. ASSUME NEW i \in 0 .. e PROVE PutsDown(g[i + 1], c, r, i, e, out)
  BY <1>2, WritingDown, Zenon
<1>4. g = [i \in 0 .. 16 |-> g[i]]
  BY Zenon
<1> HIDE DEF g
<1>5. RunsDown(g, c, r, e, out)
  BY <1>1, <1>2, <1>3, <1>4, Zenon DEF RunsDown
<1> QED BY <1>5

AlikeDown(d, g, e) == /\ \A i \in e + 1 .. 16 : d[i] = g[i]
                      /\ \A i \in 0 .. e : d[i + 1] = g[i + 1] => d[i] = g[i]

LEMMA SameLoopDown ==
    ASSUME NEW e \in 0 .. 15, NEW d, NEW g, AlikeDown(d, g, e)
    PROVE  \A i \in 0 .. 16 : d[i] = g[i]
<1> USE DEF AlikeDown
<1> DEFINE T == {i \in 0 .. 16 : d[i] = g[i]}
<1>1. e + 1 \in T
  OBVIOUS
<1>2. \A i \in 0 + 1 .. e + 1 : i \in T => i - 1 \in T
  <2> TAKE i \in 0 + 1 .. e + 1
  <2>1. i - 1 \in 0 .. e /\ (i - 1) + 1 = i
    OBVIOUS
  <2> QED BY <2>1
<1>3. 0 .. e + 1 \subseteq T
  <2> HIDE DEF T
  <2>1. e + 1 \in Int /\ 0 \in Int
    OBVIOUS
  <2> QED BY <1>1, <1>2, <2>1, Downwards
<1> QED BY <1>3

\* In the field and behind it.
LEMMA Nibbles16Down ==
    ASSUME NEW e \in 0 .. 15, NEW i \in 0 .. 16
    PROVE  (i > e /\ i \in e + 1 .. 16) \/ (~(i > e) /\ i \in 0 .. e)
OBVIOUS

LeftDigits(x, s, last) == [i \in 0 .. 15 |-> (IF i > s THEN x[i - 1] ELSE last) % 16]
HalfDigits(x, e) ==
    [i \in 0 .. 15 |-> ((x[i] \div 2) + 8 * (IF i < e THEN Bit(x[i + 1], 0) ELSE 0)) % 16]

LEMMA ShiftingLeft ==
    ASSUME NEW Mem, NEW c \in Machine(Mem), NEW r \in RegisterName, NEW f \in Fields
    PROVE  shift_left_register(c, r, f) =
              Written(c, r, get_start(c, f), get_end(c, f),
                      LeftDigits(c.reg[r], get_start(c, f), 0), c.CARRY)
<1> DEFINE s == get_start(c, f)
           e == get_end(c, f)
           x == c.reg[r]
           out == LeftDigits(x, s, 0)
           Step(m, i) == Put(m, r, i, IF i > s THEN m.reg[r][i - 1] ELSE 0)
           Done(d) == d = [i \in 0 .. 16 |-> IF i > e THEN c ELSE Step(d[i + 1], i)]
           d == CHOOSE d : Done(d)
<1>1. shift_left_register(c, r, f) = d[s]
  BY Zenon DEF shift_left_register, Down
<1>2. s \in 0 .. 15 /\ e \in 0 .. 15 /\ e \in s .. 15
  BY FieldsOf, Zenon
<1>3. x \in [0 .. 15 -> 0 .. 15]
  BY DEF Machine
<1> HIDE DEF s, e, x
<1>4. out \in Digits
  BY <1>2, <1>3, SMT DEF Digits, LeftDigits
<1> HIDE DEF out
<1>5. PICK g : RunsDown(g, c, r, e, out)
  BY <1>2, <1>4, CoursingDown
<1>6. ASSUME NEW i \in 0 .. e PROVE Step(g[i + 1], i) = g[i]
  <2> DEFINE w == g[i + 1]
  <2>1. PutsDown(w, c, r, i, e, out) /\ g[i] = Written(c, r, i, e, out, c.CARRY)
    BY <1>5, Zenon DEF RunsDown
  <2> HIDE DEF w
  <2>2. [w EXCEPT !.reg[r][i] = out[i]] = g[i]
    BY <2>1, Zenon DEF PutsDown
  <2>3. i \in 0 .. i /\ i \in 0 .. 15
    BY <1>2
  <2>4. i > s => w.reg[r][i - 1] = x[i - 1]
    <3>1. i > s => i - 1 \in 0 .. i
      BY <1>2, <2>3
    <3> QED BY <2>1, <3>1, Zenon DEF PutsDown, x
  <2>5. out[i] = (IF i > s THEN x[i - 1] ELSE 0) % 16
    BY <2>3 DEF out, LeftDigits
  <2>6. Step(w, i) = g[i]
    <3>1. CASE i > s
      BY <2>2, <2>4, <2>5, <3>1, Zenon DEF Put
    <3>2. CASE ~(i > s)
      BY <2>2, <2>4, <2>5, <3>2, Zenon DEF Put
    <3> QED BY <3>1, <3>2
  <2> QED BY <2>6 DEF w
<1> HIDE DEF Step
<1>7. \A i \in 0 .. 16 : g[i] = IF i > e THEN c ELSE Step(g[i + 1], i)
  BY <1>2, <1>5, <1>6, Nibbles16Down, Zenon DEF RunsDown
<1>8. Done(g)
  BY <1>5, <1>7, Zenon DEF RunsDown
<1>9. Done(d)
  BY <1>8, Zenon
<1> HIDE DEF d
<1>10. d[s] = g[s]
  <2>1. AlikeDown(d, g, e)
    BY <1>2, <1>6, <1>7, <1>9 DEF AlikeDown
  <2> QED BY <1>2, <2>1, SameLoopDown
<1>11. d[s] = Written(c, r, s, e, out, c.CARRY)
  BY <1>2, <1>5, <1>10 DEF RunsDown
<1> QED BY <1>1, <1>11 DEF s, e, x, out

LEMMA ShiftingLeftRound ==
    ASSUME NEW Mem, NEW c \in Machine(Mem), NEW r \in RegisterName, NEW f \in Fields
    PROVE  shift_left_circ_register(c, r, f) =
              Written(c, r, get_start(c, f), get_end(c, f),
                      LeftDigits(c.reg[r], get_start(c, f), c.reg[r][get_end(c, f)]), c.CARRY)
<1> DEFINE s == get_start(c, f)
           e == get_end(c, f)
           x == c.reg[r]
           last == c.reg[r][get_end(c, f)]
           out == LeftDigits(x, s, last)
           Step(m, i) == Put(m, r, i, IF i > s THEN m.reg[r][i - 1] ELSE last)
           Done(d) == d = [i \in 0 .. 16 |-> IF i > e THEN c ELSE Step(d[i + 1], i)]
           d == CHOOSE d : Done(d)
<1>1. shift_left_circ_register(c, r, f) = d[s]
  BY Zenon DEF shift_left_circ_register, Down
<1>2. s \in 0 .. 15 /\ e \in 0 .. 15 /\ e \in s .. 15
  BY FieldsOf, Zenon
<1>3. x \in [0 .. 15 -> 0 .. 15]
  BY DEF Machine
<1> HIDE DEF s, e, x
<1>4. out \in Digits
  <2>1. last \in 0 .. 15
    BY <1>2, <1>3 DEF x, e
  <2> HIDE DEF last
  <2> QED BY <1>2, <1>3, <2>1, SMT DEF Digits, LeftDigits
<1> HIDE DEF out
<1>5. PICK g : RunsDown(g, c, r, e, out)
  BY <1>2, <1>4, CoursingDown
<1>6. ASSUME NEW i \in 0 .. e PROVE Step(g[i + 1], i) = g[i]
  <2> DEFINE w == g[i + 1]
  <2>1. PutsDown(w, c, r, i, e, out) /\ g[i] = Written(c, r, i, e, out, c.CARRY)
    BY <1>5, Zenon DEF RunsDown
  <2> HIDE DEF w
  <2>2. [w EXCEPT !.reg[r][i] = out[i]] = g[i]
    BY <2>1, Zenon DEF PutsDown
  <2>3. i \in 0 .. i /\ i \in 0 .. 15
    BY <1>2
  <2>4. i > s => w.reg[r][i - 1] = x[i - 1]
    <3>1. i > s => i - 1 \in 0 .. i
      BY <1>2, <2>3
    <3> QED BY <2>1, <3>1, Zenon DEF PutsDown, x
  <2>5. out[i] = (IF i > s THEN x[i - 1] ELSE last) % 16
    BY <2>3 DEF out, LeftDigits
  <2>6. Step(w, i) = g[i]
    <3>1. CASE i > s
      BY <2>2, <2>4, <2>5, <3>1, Zenon DEF Put
    <3>2. CASE ~(i > s)
      BY <2>2, <2>4, <2>5, <3>2, Zenon DEF Put
    <3> QED BY <3>1, <3>2
  <2> QED BY <2>6 DEF w
<1> HIDE DEF Step
<1>7. \A i \in 0 .. 16 : g[i] = IF i > e THEN c ELSE Step(g[i + 1], i)
  BY <1>2, <1>5, <1>6, Nibbles16Down, Zenon DEF RunsDown
<1>8. Done(g)
  BY <1>5, <1>7, Zenon DEF RunsDown
<1>9. Done(d)
  BY <1>8, Zenon
<1> HIDE DEF d
<1>10. d[s] = g[s]
  <2>1. AlikeDown(d, g, e)
    BY <1>2, <1>6, <1>7, <1>9 DEF AlikeDown
  <2> QED BY <1>2, <2>1, SameLoopDown
<1>11. d[s] = Written(c, r, s, e, out, c.CARRY)
  BY <1>2, <1>5, <1>10 DEF RunsDown
<1> QED BY <1>1, <1>11 DEF s, e, x, out

LEMMA ShiftingRightBit ==
    ASSUME NEW Mem, NEW c \in Machine(Mem), NEW r \in RegisterName, NEW f \in Fields
    PROVE  shift_right_bit_register(c, r, f) =
              SetSB(Written(c, r, get_start(c, f), get_end(c, f),
                            HalfDigits(c.reg[r], get_end(c, f)), c.CARRY),
                    Bit(c.reg[r][get_start(c, f)], 0))
<1> DEFINE s == get_start(c, f)
           e == get_end(c, f)
           x == c.reg[r]
           out == HalfDigits(x, e)
           Step(m, i) == 
              Put(m, r, i, (m.reg[r][i] \div 2)
                           + 8 * (IF i < e THEN Bit(c.reg[r][i + 1], 0) ELSE 0))
           Done(d) == d = [i \in 0 .. 16 |-> IF i > e THEN c ELSE Step(d[i + 1], i)]
           d == CHOOSE d : Done(d)
<1>1. shift_right_bit_register(c, r, f) = SetSB(d[s], Bit(c.reg[r][get_start(c, f)], 0))
  BY Zenon DEF shift_right_bit_register, Down
<1>2. s \in 0 .. 15 /\ e \in 0 .. 15 /\ e \in s .. 15
  BY FieldsOf, Zenon
<1>3. x \in [0 .. 15 -> 0 .. 15]
  BY DEF Machine
<1> HIDE DEF s, e, x
<1>4. out \in Digits
  <2>1. \A i \in 0 .. 15 : Bit(x[i], 0) \in 0 .. 1
    BY <1>3, SMT DEF Bit
  <2>2. ASSUME NEW i \in 0 .. 15
        PROVE  (x[i] \div 2) + 8 * (IF i < e THEN Bit(x[i + 1], 0) ELSE 0) \in 0 .. 15
    <3>1. x[i] \div 2 \in 0 .. 7
      BY <1>3
    <3>2. i < e => Bit(x[i + 1], 0) \in 0 .. 1
      BY <1>2, <2>1
    <3> QED BY <3>1, <3>2
  <2>3. \A t \in 0 .. 15 : t % 16 \in 0 .. 15
    OBVIOUS
  <2> QED BY <2>2, <2>3, Zenon DEF Digits, HalfDigits
<1> HIDE DEF out
<1>5. PICK g : RunsDown(g, c, r, e, out)
  BY <1>2, <1>4, CoursingDown
<1>6. ASSUME NEW i \in 0 .. e PROVE Step(g[i + 1], i) = g[i]
  <2> DEFINE w == g[i + 1]
  <2>1. PutsDown(w, c, r, i, e, out) /\ g[i] = Written(c, r, i, e, out, c.CARRY)
    BY <1>5, Zenon DEF RunsDown
  <2> HIDE DEF w
  <2>2. [w EXCEPT !.reg[r][i] = out[i]] = g[i]
    BY <2>1, Zenon DEF PutsDown
  <2>3. i \in 0 .. i /\ i \in 0 .. 15
    BY <1>2
  <2>4. w.reg[r][i] = x[i] /\ c.reg[r] = x
    BY <2>1, <2>3, Zenon DEF PutsDown, x
  <2>5. out[i] = ((x[i] \div 2) + 8 * (IF i < e THEN Bit(x[i + 1], 0) ELSE 0)) % 16
    BY <2>3 DEF out, HalfDigits
  <2>6. Step(w, i) = g[i]
    BY <2>2, <2>4, <2>5, Zenon DEF Put
  <2> QED BY <2>6 DEF w
<1> HIDE DEF Step
<1>7. \A i \in 0 .. 16 : g[i] = IF i > e THEN c ELSE Step(g[i + 1], i)
  BY <1>2, <1>5, <1>6, Nibbles16Down, Zenon DEF RunsDown
<1>8. Done(g)
  BY <1>5, <1>7, Zenon DEF RunsDown
<1>9. Done(d)
  BY <1>8, Zenon
<1> HIDE DEF d
<1>10. d[s] = g[s]
  <2>1. AlikeDown(d, g, e)
    BY <1>2, <1>6, <1>7, <1>9 DEF AlikeDown
  <2> QED BY <1>2, <2>1, SameLoopDown
<1>11. d[s] = Written(c, r, s, e, out, c.CARRY)
  BY <1>2, <1>5, <1>10 DEF RunsDown
<1> QED BY <1>1, <1>11, Zenon DEF s, e, x, out

----------------------------------------------------------------------------
(* Comparisons.                                                            *)

\* What a register of which a field was written holds.
WroteField(w, c, r, s, e, out, k) ==
    /\ w.CARRY = k /\ w.P = c.P /\ w.SB = c.SB /\ w.hexmode = c.hexmode /\ w.mem = c.mem
    /\ DOMAIN w.reg = RegisterName
    /\ \A q \in RegisterName : w.reg[q] = [j \in 0 .. 15 |-> w.reg[q][j]]
    /\ \A j \in s .. e : w.reg[r][j] = out[j]
    /\ \A q \in RegisterName, j \in 0 .. 15 :
          q # r \/ j \notin s .. e => w.reg[q][j] = c.reg[q][j]

LEMMA WrittenRegisters ==
    ASSUME NEW Mem, NEW c \in Machine(Mem), NEW r \in RegisterName, NEW s \in 0 .. 15,
           NEW e \in s .. 15, NEW out, NEW k
    PROVE  WroteField(Written(c, r, s, e, out, k), c, r, s, e, out, k)
<1> DEFINE R == [j \in 0 .. 15 |-> IF j \in s .. e THEN out[j] ELSE c.reg[r][j]]
           w == Written(c, r, s, e, out, k)
<1>1. w = [c EXCEPT !.reg[r] = R, !.CARRY = k]
  BY DEF Written
<1>2. \A j \in 0 .. 15 : R[j] = IF j \in s .. e THEN out[j] ELSE c.reg[r][j]
  OBVIOUS
<1> HIDE DEF R, w
<1>3. /\ w.CARRY = k /\ w.SB = c.SB /\ w.P = c.P /\ w.hexmode = c.hexmode /\ w.mem = c.mem
      /\ w.reg = [c.reg EXCEPT ![r] = R]
  BY <1>1 DEF Machine
<1>4. c.reg \in [RegisterName -> [0 .. 15 -> 0 .. 15]]
  BY DEF Machine
<1>5. DOMAIN w.reg = RegisterName /\ \A q \in RegisterName : w.reg[q] = IF q = r THEN R ELSE c.reg[q]
  BY <1>3, <1>4
<1>6. R = [j \in 0 .. 15 |-> R[j]]
  BY DEF R
<1>7. \A q \in RegisterName : w.reg[q] = [j \in 0 .. 15 |-> w.reg[q][j]]
  BY <1>4, <1>5, <1>6
<1>8. /\ \A j \in s .. e : w.reg[r][j] = out[j]
      /\ \A q \in RegisterName, j \in 0 .. 15 :
            q # r \/ j \notin s .. e => w.reg[q][j] = c.reg[q][j]
  BY <1>2, <1>5
<1> QED BY <1>3, <1>5, <1>7, <1>8, Zenon DEF w, WroteField

\* The nibbles s .. i of x are less than those of y: so is the highest that differs.
Less(x, y, s, i) == \E j \in s .. i : x[j] < y[j] /\ \A k \in j + 1 .. i : x[k] = y[k]

\* A subtraction borrows out of a nibble exactly if, up to there, it takes away the greater.
LEMMA BorrowIsLess ==
    ASSUME NEW x \in Digits, NEW y \in Digits, NEW h, NEW s \in 0 .. 15, NEW V, NEW out,
           NEW car \in Carries, Flow(out, car, s, 0, V, DifferenceCarry(x, y, h))
    PROVE  \A i \in s .. 15 : car[i] \in {0, 1} /\ (car[i] = 1 <=> Less(x, y, s, i))
<1> DEFINE T == {i \in s .. 15 : car[i] \in {0, 1} /\ (car[i] = 1 <=> Less(x, y, s, i))}
<1>1. ASSUME NEW i \in s .. 15
      PROVE  car[i] = IF x[i] - y[i] - car[i - 1] >= 0 THEN 0 ELSE 1
  <2>1. car[i - 1] \in Carry /\ i \in 0 .. 15
    BY DEF Carries
  <2>2. <<i, car[i - 1]>> \in Inputs
    BY <2>1 DEF Inputs
  <2> QED BY <2>2 DEF Flow, DifferenceCarry
<1>2. \A i \in 0 .. 15 : x[i] \in 0 .. 15 /\ y[i] \in 0 .. 15
  BY DEF Digits
<1>3. s \in T
  <2>1. car[s - 1] = 0
    BY DEF Flow
  <2>2. Less(x, y, s, s) <=> x[s] < y[s]
    BY DEF Less
  <2>3. car[s] = IF x[s] - y[s] - 0 >= 0 THEN 0 ELSE 1
    BY <1>1, <2>1
  <2> QED BY <1>2, <2>2, <2>3
<1>4. ASSUME NEW i \in s .. 14, i \in T PROVE i + 1 \in T
  <2>1. /\ i + 1 \in s .. 15 /\ (i + 1) - 1 = i /\ i + 1 \in 0 .. 15
        /\ car[i] \in {0, 1} /\ (car[i] = 1 <=> Less(x, y, s, i))
    BY <1>4
  <2>2. car[i + 1] = IF x[i + 1] - y[i + 1] - car[i] >= 0 THEN 0 ELSE 1
    BY <1>1, <2>1
  <2>3. Less(x, y, s, i + 1) <=> x[i + 1] < y[i + 1] \/ (x[i + 1] = y[i + 1] /\ Less(x, y, s, i))
    <3>1. ASSUME Less(x, y, s, i + 1)
          PROVE  x[i + 1] < y[i + 1] \/ (x[i + 1] = y[i + 1] /\ Less(x, y, s, i))
      <4>1. PICK j \in s .. i + 1 : x[j] < y[j] /\ \A k \in j + 1 .. i + 1 : x[k] = y[k]
        BY <3>1 DEF Less
      <4>2. CASE j # i + 1
        <5>1. j \in s .. i /\ i + 1 \in j + 1 .. i + 1
          BY <4>2
        <5> QED BY <4>1, <5>1 DEF Less
      <4> QED BY <4>1, <4>2
    <3>2. ASSUME x[i + 1] < y[i + 1] PROVE Less(x, y, s, i + 1)
      <4>1. i + 1 \in s .. i + 1 /\ \A k \in (i + 1) + 1 .. i + 1 : x[k] = y[k]
        OBVIOUS
      <4> QED BY <3>2, <4>1 DEF Less
    <3>3. ASSUME x[i + 1] = y[i + 1], Less(x, y, s, i) PROVE Less(x, y, s, i + 1)
      <4>1. PICK j \in s .. i : x[j] < y[j] /\ \A k \in j + 1 .. i : x[k] = y[k]
        BY <3>3 DEF Less
      <4>2. j \in s .. i + 1 /\ \A k \in j + 1 .. i + 1 : x[k] = y[k]
        BY <3>3, <4>1
      <4> QED BY <4>1, <4>2 DEF Less
    <3> QED BY <3>1, <3>2, <3>3
  <2>4. x[i + 1] \in 0 .. 15 /\ y[i + 1] \in 0 .. 15
    BY <1>2, <2>1
  <2> QED BY <2>1, <2>2, <2>3, <2>4
<1>5. s .. 15 \subseteq T
  <2> HIDE DEF T
  <2>1. \A i \in s .. 15 - 1 : i \in T => i + 1 \in T
    BY <1>4
  <2> QED BY <1>3, <2>1, Upwards
<1> QED BY <1>5

\* A processor is a machine between two instructions.
LEMMA ProcessorIsMachine == ASSUME NEW c \in Processor PROVE c \in Machine({<<>>})
BY DEF Processor, Machine, Nibble

LEMMA WorkingRegisters == Working \subseteq RegisterName /\ Wide \subseteq RegisterName
BY DEF Working, Wide, RegisterName

LEMMA BorrowOfSubtraction ==
    ASSUME NEW c \in Processor, NEW a \in RegisterName, NEW b \in RegisterName, NEW f \in FieldCode
    PROVE  sub_register(c, a, a, b, f).CARRY = 1 <=> is_less_register(c, a, b, f)
<1> DEFINE x == c.reg[a]
           y == c.reg[b]
           s == get_start(c, f)
           e == get_end(c, f)
           V == DifferenceDigit(x, y, c.hexmode)
           F == DifferenceCarry(x, y, c.hexmode)
<1>1. c \in Machine({<<>>}) /\ f \in Fields
  BY ProcessorIsMachine DEF FieldCode, Fields
<1>2. Ran(sub_register(c, a, a, b, f), c, a, f, 0, V, F)
  BY <1>1, Subtracting
<1>3. s \in 0 .. 15 /\ e \in s .. 15
  BY <1>1, FieldsOf
<1>4. x \in Digits /\ y \in Digits
  BY <1>1 DEF Machine, Digits
<1> HIDE DEF s, e, V
<1>5. PICK out \in Digits, car \in Carries :
         /\ Flow(out, car, s, 0, V, F)
         /\ sub_register(c, a, a, b, f) = Written(c, a, s, e, out, car[e])
  BY <1>2 DEF Ran, s, e
<1>6. sub_register(c, a, a, b, f).CARRY = car[e]
  <2>1. WroteField(Written(c, a, s, e, out, car[e]), c, a, s, e, out, car[e])
    BY <1>1, <1>3, WrittenRegisters, Zenon
  <2> QED BY <1>5, <2>1, Zenon DEF WroteField
<1>7. car[e] = 1 <=> Less(x, y, s, e)
  <2> HIDE DEF x, y
  <2> QED BY <1>3, <1>4, <1>5, BorrowIsLess
<1>8. Less(x, y, s, e) <=> is_less_register(c, a, b, f)
  <2>1. is_less_register(c, a, b, f) <=>
           \E i \in s .. e : x[i] < y[i] /\ \A j \in s .. e : j > i => x[j] = y[j]
    BY DEF is_less_register, AgreeAbove, Field, s, e
  <2>2. \A i \in s .. e : (\A j \in s .. e : j > i => x[j] = y[j])
                             <=> (\A k \in i + 1 .. e : x[k] = y[k])
    <3> HIDE DEF x, y
    <3> QED BY <1>3
  <2> QED BY <2>1, <2>2 DEF Less
<1> QED BY <1>6, <1>7, <1>8

\* Which function is called for an operation.
LEMMA Performing ==
    ASSUME NEW c, NEW o, NEW n
    PROVE  /\ o.kind \in Arithmetic => perform(c, o, n) = calculate(c, o)
           /\ o.kind \in Constant => perform(c, o, n) = add_constant(c, o)
           /\ o.kind \in Shift => perform(c, o, n) = shift(c, o)
           /\ o.kind = "copy" => perform(c, o, n) = copy(c, o)
           /\ o.kind = "exchange" => perform(c, o, n) = exchange(c, o)
<1> USE DEF Arithmetic, Constant, Shift, Tests, Status
<1>1. CASE o.kind \in Arithmetic
  BY <1>1, SMT DEF perform
<1>2. CASE o.kind \in Constant
  BY <1>2, SMT DEF perform
<1>3. CASE o.kind \in Shift
  BY <1>3, SMT DEF perform
<1>4. CASE o.kind = "copy"
  BY <1>4, SMT DEF perform
<1>5. CASE o.kind = "exchange"
  BY <1>5, SMT DEF perform
<1> QED BY <1>1, <1>2, <1>3, <1>4, <1>5

LEMMA PerformingTests ==
    ASSUME NEW c, NEW o, NEW n, o.kind \in Tests
    PROVE  perform(c, o, n) = [c EXCEPT !.CARRY = IF answer(c, o) THEN 1 ELSE 0]
BY SMT DEF perform, Arithmetic, Constant, Shift, Tests, Status

\* What is done is done to a processor, and what is asked for is sound.
LEMMA WhatWasPerformed ==
    ASSUME Performed, done
    PROVE  /\ was \in Processor /\ cpu = perform(was, Operation, Word)
           /\ Sound(Operation)
<1>1. Word \in InstructionWord
  BY WordIsAWord DEF Performed
<1> QED BY <1>1, EveryOperationIsSound DEF Performed, Operation, Decoding

\* The borrow of a subtraction of one register of an instruction from another, either way.
THEOREM OrderTestsAreBorrows == Spec => []OrderIsBorrow
<1>1. Performed => OrderIsBorrow
  <2> SUFFICES ASSUME Performed, Ended({"<", ">", "<=", ">="}) PROVE OrderIsBorrow
    BY DEF OrderIsBorrow
  <2> DEFINE o == Operation
             f == o.field
             less == sub_register(was, o.to, o.to, o.from, f).CARRY = 1
             greater == sub_register(was, o.from, o.from, o.to, f).CARRY = 1
             Is(yes) == cpu.CARRY = 1 <=> yes
  <2>1. done /\ o.kind \in {"<", ">", "<=", ">="}
    BY DEF Ended
  <2>2. was \in Processor /\ cpu = perform(was, o, Word) /\ Sound(o)
    BY <2>1, WhatWasPerformed
  <2>3. o.to \in RegisterName /\ o.from \in RegisterName /\ f \in FieldCode
    BY <2>1, <2>2, WorkingRegisters DEF Sound, Binary
  <2>4. cpu = [was EXCEPT !.CARRY = IF answer(was, o) THEN 1 ELSE 0]
    <3>1. perform(was, o, Word) = [was EXCEPT !.CARRY = IF answer(was, o) THEN 1 ELSE 0]
      <4>1. o.kind \in Tests
        BY <2>1 DEF Tests
      <4> HIDE DEF o
      <4> QED BY <4>1, PerformingTests
    <3> QED BY <2>2, <3>1
  <2>5. Is(answer(was, o))
    BY <2>2, <2>4 DEF Processor
  <2>6. /\ less <=> is_less_register(was, o.to, o.from, f)
        /\ greater <=> is_less_register(was, o.from, o.to, f)
    BY <2>2, <2>3, BorrowOfSubtraction
  <2>7. is_greater_register(was, o.to, o.from, f) <=> is_less_register(was, o.from, o.to, f)
    <3>1. f \in Fields /\ was \in Machine({<<>>})
      BY <2>2, <2>3, ProcessorIsMachine DEF FieldCode, Fields
    <3>2. Field(was, f) \subseteq 0 .. 15
      <4>1. get_start(was, f) \in 0 .. 15 /\ get_end(was, f) \in 0 .. 15
        BY <3>1, FieldsOf, Zenon
      <4> QED BY <4>1 DEF Field
    <3>3. \A i \in 0 .. 15 : was.reg[o.to][i] \in 0 .. 15 /\ was.reg[o.from][i] \in 0 .. 15
      BY <2>3, <3>1 DEF Machine
    <3>4. \A i \in Field(was, f) :
             /\ was.reg[o.to][i] > was.reg[o.from][i] <=> was.reg[o.from][i] < was.reg[o.to][i]
             /\ AgreeAbove(was, o.to, o.from, f, i) <=> AgreeAbove(was, o.from, o.to, f, i)
      BY <3>2, <3>3 DEF AgreeAbove
    <3> QED BY <3>4 DEF is_greater_register, is_less_register
  <2>8. /\ o.kind = "<" => Is(less)
        /\ o.kind = ">" => Is(greater)
        /\ o.kind = "<=" => Is(~greater)
        /\ o.kind = ">=" => Is(~less)
    <3>1. /\ o.kind = "<" => answer(was, o) = is_less_register(was, o.to, o.from, f)
          /\ o.kind = ">" => answer(was, o) = is_greater_register(was, o.to, o.from, f)
          /\ o.kind = "<=" => answer(was, o) = is_less_or_equal_register(was, o.to, o.from, f)
          /\ o.kind = ">=" => answer(was, o) = is_greater_or_equal_register(was, o.to, o.from, f)
      BY SMT DEF answer
    <3>2. /\ is_less_or_equal_register(was, o.to, o.from, f)
                <=> ~ is_greater_register(was, o.to, o.from, f)
          /\ is_greater_or_equal_register(was, o.to, o.from, f)
                <=> ~ is_less_register(was, o.to, o.from, f)
      BY DEF is_less_or_equal_register, is_greater_or_equal_register, is_greater_register,
             is_less_register
    <3> HIDE DEF o, less, greater
    <3> QED BY <2>5, <2>6, <2>7, <3>1, <3>2
  <2>9. OrderIsBorrow <=>
           (Numbers => Is(CASE o.kind = "<"  -> less
                            [] o.kind = ">"  -> greater
                            [] o.kind = "<=" -> ~greater
                            [] o.kind = ">=" -> ~less))
    BY <2>1 DEF OrderIsBorrow, Ended
  <2> HIDE DEF o, less, greater, Is
  <2> QED BY <2>1, <2>8, <2>9
<1> QED BY <1>1, InstructionsArePerformed, PTL

----------------------------------------------------------------------------
(* An instruction on a field leaves everything else alone.                 *)

\* In m only the field f of the registers in R may differ from c.
Framed(m, c, R, f) ==
    /\ "reg" \in DOMAIN m
    /\ \A q \in RegisterName, j \in 0 .. 15 :
          (q \in R /\ j \in FieldNibbles(f, c.P)) \/ m.reg[q][j] = c.reg[q][j]

LEMMA WrittenIsFramed ==
    ASSUME NEW Mem, NEW c \in Machine(Mem), NEW r \in RegisterName, NEW f \in Fields, NEW out, NEW k
    PROVE  Framed(Written(c, r, get_start(c, f), get_end(c, f), out, k), c, {r}, f)
<1> DEFINE s == get_start(c, f)
           e == get_end(c, f)
           w == Written(c, r, s, e, out, k)
<1>1. s \in 0 .. 15 /\ e \in s .. 15 /\ FieldNibbles(f, c.P) = s .. e
  BY FieldsOf, Zenon
<1> HIDE DEF s, e
<1>2. WroteField(w, c, r, s, e, out, k)
  BY <1>1, WrittenRegisters, Zenon
<1>3. "reg" \in DOMAIN w
  BY DEF w, Written, Machine
<1> HIDE DEF w
<1> QED BY <1>1, <1>2, <1>3 DEF WroteField, Framed, w, s, e

LEMMA RanIsFramed ==
    ASSUME NEW Mem, NEW c \in Machine(Mem), NEW r \in RegisterName, NEW f \in Fields,
           NEW m, NEW k, NEW V, NEW F, Ran(m, c, r, f, k, V, F)
    PROVE  Framed(m, c, {r}, f)
BY WrittenIsFramed, Zenon DEF Ran

\* CARRY and SB are not in the registers.
LEMMA FlagsAreNotFramed ==
    ASSUME NEW m, NEW c, NEW R, NEW f, Framed(m, c, R, f)
    PROVE  /\ \A k : Framed([m EXCEPT !.CARRY = k], c, R, f)
           /\ \A lost : Framed(SetSB(m, lost), c, R, f)
<1>1. "reg" \in DOMAIN m
  BY DEF Framed
<1>2. \A k : [m EXCEPT !.CARRY = k].reg = m.reg /\ "reg" \in DOMAIN [m EXCEPT !.CARRY = k]
  BY <1>1
<1>3. \A lost : SetSB(m, lost).reg = m.reg /\ "reg" \in DOMAIN SetSB(m, lost)
  BY <1>1 DEF SetSB
<1>4. ASSUME NEW w, w.reg = m.reg, "reg" \in DOMAIN w PROVE Framed(w, c, R, f)
  BY <1>4, Zenon DEF Framed
<1> QED BY <1>2, <1>3, <1>4, Zenon

LEMMA CalculationIsFramed ==
    ASSUME NEW c \in Processor, NEW o, o.kind \in Arithmetic, Sound(o)
    PROVE  Framed(calculate(c, o), c, {o.to}, o.field)
<1> DEFINE r == o.to
           f == o.field
           Is(m) == Framed(m, c, {o.to}, o.field)
<1>1. c \in Machine({<<>>})
  BY ProcessorIsMachine
<1>2. r \in RegisterName /\ f \in Fields
  BY WorkingRegisters DEF Sound, Arithmetic, Binary, Unary, FieldCode, Fields
<1>3. o.kind \in Binary => o.from \in RegisterName
  BY WorkingRegisters DEF Sound
<1>4. ASSUME NEW m, NEW k, NEW V, NEW F, Ran(m, c, r, f, k, V, F)
      PROVE  Is(m) /\ \A l : Is([m EXCEPT !.CARRY = l])
  <2>1. Is(m)
    BY <1>1, <1>2, <1>4, RanIsFramed, Zenon
  <2> HIDE DEF r, f
  <2> QED BY <2>1, FlagsAreNotFramed, Zenon
<1> HIDE DEF r, f, Is
<1>5. ASSUME o.from \in RegisterName
      PROVE  /\ Is(add_register(c, r, r, o.from, f)) /\ Is(sub_register(c, r, r, o.from, f))
             /\ Is(sub_register(c, r, o.from, r, f))
             /\ Is(and_register(c, r, r, o.from, f)) /\ Is(or_register(c, r, r, o.from, f))
  BY <1>1, <1>2, <1>4, <1>5, Adding, Subtracting, Anding, Oring, Zenon
<1>6. Is(inc_register(c, r, f)) /\ Is(dec_register(c, r, f)) /\ Is(zero_register(c, r, f))
  BY <1>1, <1>2, <1>4, Incrementing, Decrementing, Zeroing, Zenon
<1>7. Is(complement_1_register(c, r, f))
  <2>1. PICK m : /\ Ran(m, c, r, f, c.CARRY, NotDigit(c.reg[r], c.hexmode), Keep)
                 /\ complement_1_register(c, r, f) = [m EXCEPT !.CARRY = 0]
    BY <1>1, <1>2, Inverting
  <2> QED BY <1>4, <2>1, Zenon
<1>8. Is(complement_2_register(c, r, f))
  <2> DEFINE last(m) == IF \E i \in get_start(c, f) .. get_end(c, f) : m.reg[r][i] # 0 THEN 1 ELSE 0
  <2>1. PICK m : /\ Ran(m, c, r, f, 1, NegativeDigit(c.reg[r], c.hexmode),
                           NegativeCarry(c.reg[r], c.hexmode))
                 /\ complement_2_register(c, r, f) = [m EXCEPT !.CARRY = last(m)]
    BY <1>1, <1>2, Negating
  <2> HIDE DEF last
  <2> QED BY <1>4, <2>1, Zenon
<1>9. Is(calculate(c, o))
  <2>1. o.kind \in Binary \/ o.kind \in {"inc", "dec", "neg", "not", "zero"}
    BY DEF Arithmetic, Binary
  <2>2. CASE o.kind \in Binary
    BY <1>3, <1>5, <2>2, SMT DEF calculate, Arithmetic, Binary, r, f
  <2>3. CASE o.kind \in {"inc", "dec", "neg", "not", "zero"}
    BY <1>6, <1>7, <1>8, <2>3, SMT DEF calculate, Arithmetic, r, f
  <2> QED BY <2>1, <2>2, <2>3
<1> QED BY <1>9 DEF Is

LEMMA ConstantIsFramed ==
    ASSUME NEW c \in Processor, NEW o, o.kind \in Constant, Sound(o), o.field # NoField
    PROVE  Framed(add_constant(c, o), c, {o.to}, o.field)
<1> DEFINE r == o.to
           f == o.field
           n == o.n
           Is(m) == Framed(m, c, {o.to}, o.field)
<1>1. c \in Machine({<<>>})
  BY ProcessorIsMachine
<1>2. o.to \in Working /\ f \in FieldCode /\ n \in 1 .. 16
  BY DEF Sound
<1>3. r \in RegisterName /\ f \in Fields /\ o.to \notin {"D0", "D1"}
  BY <1>2, WorkingRegisters DEF FieldCode, Fields, Working
<1> HIDE DEF r, f, n
<1>4. ASSUME NEW m, NEW k, NEW V, NEW F, Ran(m, c, r, f, k, V, F) PROVE Is(m)
  BY <1>1, <1>3, <1>4, RanIsFramed, Zenon DEF r, f
<1> HIDE DEF Is
<1>5. Is(add_register_constant(c, r, f, n)) /\ Is(sub_register_constant(c, r, f, n))
  BY <1>1, <1>2, <1>3, <1>4, AddingConstants, SubtractingConstants, Zenon
<1>6. Is(add_constant(c, o))
  BY <1>3, <1>5, Zenon DEF add_constant, r, f, n
<1> QED BY <1>6 DEF Is

LEMMA ShiftIsFramed ==
    ASSUME NEW c \in Processor, NEW o, o.kind \in Shift, Sound(o)
    PROVE  Framed(shift(c, o), c, {o.to}, o.field)
<1> DEFINE r == o.to
           f == o.field
           Is(m) == Framed(m, c, {o.to}, o.field)
           s == get_start(c, f)
           e == get_end(c, f)
<1>1. c \in Machine({<<>>})
  BY ProcessorIsMachine
<1>2. r \in RegisterName /\ f \in Fields
  BY WorkingRegisters DEF Sound, Unary, FieldCode, Fields
<1> HIDE DEF r, f
<1>3. ASSUME NEW m, NEW k, NEW V, NEW F, Ran(m, c, r, f, k, V, F)
      PROVE  Is(m) /\ \A lost : Is(SetSB(m, lost))
  <2>1. Is(m)
    BY <1>1, <1>2, <1>3, RanIsFramed, Zenon DEF r, f
  <2> QED BY <2>1, FlagsAreNotFramed, Zenon
<1>4. ASSUME NEW out, NEW k
      PROVE  /\ Is(Written(c, r, s, e, out, k))
             /\ \A lost : Is(SetSB(Written(c, r, s, e, out, k), lost))
  <2>1. Is(Written(c, r, s, e, out, k))
    BY <1>1, <1>2, WrittenIsFramed, Zenon DEF r, f
  <2> QED BY <2>1, FlagsAreNotFramed, Zenon
<1> HIDE DEF Is
<1>5. Is(shift_left_register(c, r, f)) /\ Is(shift_left_circ_register(c, r, f))
  <2>1. /\ shift_left_register(c, r, f) = Written(c, r, s, e, LeftDigits(c.reg[r], s, 0), c.CARRY)
        /\ shift_left_circ_register(c, r, f) =
              Written(c, r, s, e, LeftDigits(c.reg[r], s, c.reg[r][e]), c.CARRY)
    BY <1>1, <1>2, ShiftingLeft, ShiftingLeftRound, Zenon
  <2> QED BY <1>4, <2>1
<1>6. Is(shift_right_bit_register(c, r, f))
  BY <1>1, <1>2, <1>4, ShiftingRightBit, Zenon
<1>7. Is(shift_right_circ_register(c, r, f))
  <2>1. PICK m : /\ Ran(m, c, r, f, c.CARRY, RightDigit(c.reg[r], e, c.reg[r][s]), Keep)
                 /\ shift_right_circ_register(c, r, f) = SetSB(m, c.reg[r][s])
    BY <1>1, <1>2, ShiftingRightRound
  <2> QED BY <1>3, <2>1, Zenon
<1>8. Is(shift_right_register(c, r, f))
  <2> DEFINE b == SetSB(c, c.reg[r][s])
             m == shift_right_register(c, r, f)
  <2>1. Ran(m, b, r, f, c.CARRY, RightDigit(c.reg[r], e, 0), Keep)
    BY <1>1, <1>2, ShiftingRight
  <2>2. b \in Machine({<<>>}) /\ b.reg = c.reg
    BY <1>1, SettingSB, Zenon
  <2>3. b.P = c.P
    BY <1>1 DEF SetSB, Machine
  <2> HIDE DEF b, m
  <2>4. Framed(m, b, {r}, f)
    BY <1>2, <2>1, <2>2, RanIsFramed, Zenon
  <2>5. Framed(m, c, {r}, f)
    BY <2>2, <2>3, <2>4, Zenon DEF Framed
  <2> QED BY <2>5 DEF Is, m, r, f
<1>9. Is(shift(c, o))
  BY <1>5, <1>6, <1>7, <1>8, SMT DEF shift, Shift, r, f
<1> QED BY <1>9 DEF Is

\* An exchange goes nibble by nibble, over a field of two registers.
LEMMA ExchangeIsFramed ==
    ASSUME NEW Mem, NEW c \in Machine(Mem), NEW r1 \in RegisterName, NEW r2 \in RegisterName,
           NEW f \in Fields
    PROVE  Framed(exchange_register(c, r1, r2, f), c, {r1, r2}, f)
<1> DEFINE s == get_start(c, f)
           e == get_end(c, f)
           M == Machine(Mem)
           Step(m, i) == [m EXCEPT !.reg[r1][i] = m.reg[r2][i], !.reg[r2][i] = m.reg[r1][i]]
           Done(d) == d = [i \in -1 .. 15 |-> IF i < s THEN c ELSE Step(d[i - 1], i)]
           d == CHOOSE d : Done(d)
           F == [q \in (0 .. 15) \X M |-> Step(q[2], q[1])]
           Is(m) == /\ m \in M
                    /\ \A q \in RegisterName, j \in 0 .. 15 :
                          (q \in {r1, r2} /\ j \in s .. e) \/ m.reg[q][j] = c.reg[q][j]
<1>1. exchange_register(c, r1, r2, f) = d[e]
  BY Zenon DEF exchange_register, Up
<1>2. s \in 0 .. 15 /\ e \in s .. 15 /\ FieldNibbles(f, c.P) = s .. e
  BY FieldsOf, Zenon
<1> HIDE DEF s, e
<1>3. ASSUME NEW m \in M, NEW i \in 0 .. 15 PROVE Step(m, i) \in M
  <2> DEFINE all == [m.reg EXCEPT ![r1] = [@ EXCEPT ![i] = m.reg[r2][i]]]
             both == [all EXCEPT ![r2] = [@ EXCEPT ![i] = m.reg[r1][i]]]
  <2>1. m.reg \in [RegisterName -> [0 .. 15 -> 0 .. 15]]
    BY DEF Machine
  <2>2. all \in [RegisterName -> [0 .. 15 -> 0 .. 15]]
    BY <2>1
  <2>3. both \in [RegisterName -> [0 .. 15 -> 0 .. 15]]
    <3> HIDE DEF all
    <3> QED BY <2>1, <2>2
  <2>4. Step(m, i) = [m EXCEPT !.reg = both]
    BY DEF Machine
  <2> HIDE DEF both, Step
  <2> QED BY <2>3, <2>4 DEF Machine
<1>4. ASSUME NEW m \in M, NEW i \in s .. e, Is(m) PROVE Is(Step(m, i))
  <2>1. i \in 0 .. 15 /\ Step(m, i) \in M
    <3>1. i \in 0 .. 15
      BY <1>2
    <3> HIDE DEF Step, M
    <3> QED BY <1>3, <3>1
  <2>2. ASSUME NEW q \in RegisterName, NEW j \in 0 .. 15, ~(q \in {r1, r2} /\ j \in s .. e)
        PROVE  Step(m, i).reg[q][j] = m.reg[q][j]
    <3>1. m.reg \in [RegisterName -> [0 .. 15 -> 0 .. 15]]
      BY DEF Machine
    <3>2. CASE q \notin {r1, r2}
      BY <3>1, <3>2 DEF Machine
    <3>3. CASE j \notin s .. e
      <4>1. j # i
        BY <3>3
      <4> QED BY <2>1, <3>1, <4>1, ZenonT(40) DEF Machine
    <3> QED BY <2>2, <3>2, <3>3
  <2> HIDE DEF Step
  <2> QED BY <1>4, <2>1, <2>2
<1> HIDE DEF Step, M
<1>5. c \in M
  BY DEF M
<1>6. F \in [(0 .. 15) \X M -> M]
  BY <1>3
<1>7. PICK car \in [-1 .. 15 -> M] : Carried(car, s, c, F)
  <2> HIDE DEF F
  <2> QED BY <1>2, <1>5, <1>6, Chain, Zenon
<1>8. Done(car)
  <2>1. ASSUME NEW i \in -1 .. 15 PROVE car[i] = IF i < s THEN c ELSE Step(car[i - 1], i)
    <3>1. car[i] = IF i < s THEN c ELSE F[<<i, car[i - 1]>>]
      BY <1>7 DEF Carried
    <3>2. CASE i < s
      BY <3>1, <3>2
    <3>3. CASE ~(i < s)
      <4>1. i \in 0 .. 15 /\ i - 1 \in -1 .. 15
        BY <1>2, <3>3
      <4>2. F[<<i, car[i - 1]>>] = Step(car[i - 1], i)
        BY <4>1
      <4> QED BY <3>1, <3>3, <4>2
    <3> QED BY <3>2, <3>3
  <2> QED BY <1>7, <2>1
<1>9. Done(d)
  BY <1>8, Zenon
<1> HIDE DEF d, F
<1>10. \A i \in -1 .. 15 : d[i] = IF i < s THEN c ELSE Step(d[i - 1], i)
  BY <1>9
<1> DEFINE T == {i \in s - 1 .. e : Is(d[i])}
<1>11. s - 1 .. e \subseteq T
  <2>1. s - 1 \in T
    <3>1. s - 1 \in s - 1 .. e /\ s - 1 < s /\ s - 1 \in -1 .. 15
      BY <1>2
    <3>2. d[s - 1] = c
      BY <1>10, <3>1
    <3>3. Is(c)
      BY <1>5
    <3> HIDE DEF Is
    <3> QED BY <3>1, <3>2, <3>3
  <2>2. ASSUME NEW i \in s - 1 .. e - 1, i \in T PROVE i + 1 \in T
    <3>1. i + 1 \in s .. e /\ i + 1 \in -1 .. 15 /\ ~(i + 1 < s) /\ (i + 1) - 1 = i
          /\ i + 1 \in s - 1 .. e
      BY <1>2
    <3>2. d[i + 1] = Step(d[i], i + 1)
      BY <1>10, <3>1
    <3>3. Is(d[i]) /\ d[i] \in M
      BY <2>2
    <3>4. Is(Step(d[i], i + 1))
      BY <1>4, <3>1, <3>3
    <3> HIDE DEF Is
    <3> QED BY <3>1, <3>2, <3>4
  <2>3. s - 1 \in Int /\ e \in Int
    BY <1>2
  <2> HIDE DEF T
  <2> QED BY <2>1, <2>2, <2>3, Upwards
<1>12. Is(d[e])
  BY <1>2, <1>11
<1> HIDE DEF d, T
<1>13. "reg" \in DOMAIN d[e]
  BY <1>12 DEF M, Machine
<1> QED BY <1>1, <1>2, <1>12, <1>13 DEF Framed

\* The nibbles s .. i of a register in memory, the lowest at the address.
Cells(dat, x, s, i) == [a \in dat .. dat + (i - s) |-> x[(a - dat) + s]]
Stored(c, dat, r, s, i) == [c EXCEPT !.mem = Cells(dat, c.reg[r], s, i)]

LEMMA NothingStored ==
    ASSUME NEW c \in Machine({<<>>}), NEW dat \in Int, NEW r, NEW s \in 0 .. 15
    PROVE  Stored(c, dat, r, s, s - 1) = c
<1>1. dat .. dat + ((s - 1) - s) = {}
  OBVIOUS
<1>2. Cells(dat, c.reg[r], s, s - 1) = <<>>
  <2>1. DOMAIN Cells(dat, c.reg[r], s, s - 1) = {}
    BY <1>1 DEF Cells
  <2>2. Cells(dat, c.reg[r], s, s - 1) \in [{} -> {}]
    BY <1>1 DEF Cells
  <2> QED BY <2>2
<1>3. c.mem = <<>>
  BY DEF Machine
<1> QED BY <1>2, <1>3 DEF Stored, Machine

LEMMA StoringOne ==
    ASSUME NEW c \in Machine({<<>>}), NEW dat \in Int, NEW r \in RegisterName, NEW s \in 0 .. 15,
           NEW i \in s .. 15
    PROVE  write_nibble(Stored(c, dat, r, s, i - 1), dat + (i - s),
                        Stored(c, dat, r, s, i - 1).reg[r][i]) = Stored(c, dat, r, s, i)
<1> DEFINE w == Stored(c, dat, r, s, i - 1)
           x == c.reg[r]
           a == dat + (i - s)
           old == Cells(dat, x, s, i - 1)
           new == [b \in DOMAIN old \cup {a} |-> IF b = a THEN x[i] ELSE old[b]]
<1>1. w.reg = c.reg /\ w.mem = old /\ w = [c EXCEPT !.mem = old]
  BY DEF Stored, Machine
<1>2. DOMAIN old = dat .. dat + ((i - 1) - s)
  BY DEF Cells
<1>3. DOMAIN old \cup {a} = dat .. dat + (i - s)
  <2> HIDE DEF old
  <2> QED BY <1>2
<1>4. ASSUME NEW b \in dat .. dat + (i - s)
      PROVE  (IF b = a THEN x[i] ELSE old[b]) = x[(b - dat) + s]
  <2>1. CASE b = a
    <3>1. (b - dat) + s = i
      BY <2>1
    <3> QED BY <2>1, <3>1
  <2>2. CASE b # a
    <3>1. b \in dat .. dat + ((i - 1) - s)
      BY <2>2
    <3> QED BY <2>2, <3>1 DEF Cells
  <2> QED BY <2>1, <2>2
<1>5. new = Cells(dat, x, s, i)
  <2> HIDE DEF old, x, a
  <2> QED BY <1>3, <1>4 DEF Cells
<1> HIDE DEF old, w
<1>6. write_nibble(w, a, w.reg[r][i]) = [w EXCEPT !.mem = new]
  <2>1. w.reg[r][i] = x[i]
    BY <1>1
  <2> QED BY <1>1, <2>1, Zenon DEF write_nibble
<1> HIDE DEF new, x
<1>7. [w EXCEPT !.mem = new] = [c EXCEPT !.mem = new]
  BY <1>1 DEF Machine
<1> QED BY <1>5, <1>6, <1>7 DEF Stored, w, x

LEMMA Storing ==
    ASSUME NEW c \in Machine({<<>>}), NEW dat \in Int, NEW r \in RegisterName, NEW f \in Fields
    PROVE  store(c, dat, r, f) = Stored(c, dat, r, get_start(c, f), get_end(c, f))
<1> DEFINE s == get_start(c, f)
           e == get_end(c, f)
           Step(m, i) == write_nibble(m, dat + (i - s), m.reg[r][i])
           Done(d) == d = [i \in -1 .. 15 |-> IF i < s THEN c ELSE Step(d[i - 1], i)]
           d == CHOOSE d : Done(d)
           g == [i \in -1 .. 15 |-> Stored(c, dat, r, s, Upto(s, i))]
<1>1. store(c, dat, r, f) = d[e]
  BY Zenon DEF store, Up
<1>2. s \in 0 .. 15 /\ e \in s .. 15
  BY FieldsOf, Zenon
<1> HIDE DEF s, e
<1>3. ASSUME NEW i \in -1 .. s - 1 PROVE g[i] = c
  <2>1. g[i] = Stored(c, dat, r, s, s - 1)
    BY <1>2 DEF Upto
  <2> QED BY <1>2, <2>1, NothingStored
<1>4. ASSUME NEW i \in s .. 15
      PROVE  g[i] = Stored(c, dat, r, s, i) /\ g[i - 1] = Stored(c, dat, r, s, i - 1)
  <2>1. Upto(s, i) = i /\ Upto(s, i - 1) = i - 1 /\ i \in -1 .. 15 /\ i - 1 \in -1 .. 15
    BY <1>2 DEF Upto
  <2> QED BY <2>1
<1>5. g = [i \in -1 .. 15 |-> g[i]]
  OBVIOUS
<1> HIDE DEF g
<1>6. ASSUME NEW i \in s .. 15 PROVE Step(g[i - 1], i) = g[i]
  <2> DEFINE w == Stored(c, dat, r, s, i - 1)
  <2>1. write_nibble(w, dat + (i - s), w.reg[r][i]) = Stored(c, dat, r, s, i)
    BY <1>2, StoringOne
  <2>2. w = g[i - 1] /\ Stored(c, dat, r, s, i) = g[i]
    BY <1>4
  <2> HIDE DEF w
  <2> QED BY <2>1, <2>2
<1> HIDE DEF Step
<1>7. \A i \in -1 .. 15 : g[i] = IF i < s THEN c ELSE Step(g[i - 1], i)
  BY <1>2, <1>3, <1>6, Nibbles16, Zenon
<1>8. Done(g)
  BY <1>5, <1>7, Zenon
<1>9. Done(d)
  BY <1>8, Zenon
<1> HIDE DEF d
<1>10. d[e] = g[e]
  <2>1. Alike(d, g, s)
    <3>1. \A i \in -1 .. 15 : d[i] = IF i < s THEN c ELSE Step(d[i - 1], i)
      BY <1>9
    <3>2. \A i \in -1 .. s - 1 : d[i] = g[i]
      BY <1>2, <1>7, <3>1
    <3>3. ASSUME NEW i \in s .. 15, d[i - 1] = g[i - 1] PROVE d[i] = g[i]
      <4>1. i \in -1 .. 15 /\ ~(i < s)
        BY <1>2
      <4>2. d[i] = Step(d[i - 1], i)
        BY <3>1, <4>1
      <4> QED BY <1>6, <3>3, <4>2, Zenon
    <3> QED BY <3>2, <3>3 DEF Alike
  <2> QED BY <1>2, <2>1, SameLoop, SMTT(30)
<1>11. g[e] = Stored(c, dat, r, s, e)
  BY <1>2, <1>4
<1> QED BY <1>1, <1>10, <1>11 DEF s, e

\* An address is a number, and what is not written to holds nibbles.
LEMMA Addresses ==
    ASSUME NEW c \in Processor
    PROVE  /\ \A name : Dat(c, name) \in Int
           /\ \A a \in Int : read_nibble_crc(c, a) \in 0 .. 15
<1>1. ASSUME NEW d \in {"D0", "D1"} PROVE Number(c.reg[d]) \in Int
  <2>1. c.reg[d] \in [0 .. 15 -> 0 .. 15]
    BY DEF Processor, RegisterName, Nibble
  <2> HIDE DEF Number
  <2>2. ASSUME NEW x \in [0 .. 15 -> 0 .. 15] PROVE Number(x) \in Int
    <3>1. x[0] \in Int /\ x[1] \in Int /\ x[2] \in Int /\ x[3] \in Int /\ x[4] \in Int
      OBVIOUS
    <3> QED BY <3>1, SMT DEF Number
  <2> QED BY <2>1, <2>2
<1>2. \A name : Dat(c, name) \in Int
  BY <1>1 DEF Dat
<1>3. ASSUME NEW a \in Int PROVE read_nibble_crc(c, a) \in 0 .. 15
  <2>1. c.mem = <<>> /\ DOMAIN <<>> = {}
    BY DEF Processor
  <2>2. a % 16 \in 0 .. 15
    OBVIOUS
  <2> QED BY <2>1, <2>2 DEF read_nibble_crc, Unwritten
<1> QED BY <1>2, <1>3

LEMMA CopyIsFramed ==
    ASSUME NEW c \in Processor, NEW o, o.kind = "copy", Sound(o), o.field # NoField
    PROVE  Framed(copy(c, o), c, {o.to}, o.field)
<1> DEFINE f == o.field
           Is(m) == Framed(m, c, {o.to}, o.field)
<1>1. c \in Machine({<<>>})
  BY ProcessorIsMachine
<1>2. \/ o.to \in Wide /\ o.from \in Wide /\ f \in FieldCode
      \/ o.to \in {"DAT0", "DAT1"} /\ o.from \in Working /\ f \in FieldCode
      \/ o.to \in Working /\ o.from \in {"DAT0", "DAT1"} /\ f \in FieldCode
      \/ o.to \in {"D0", "D1"} /\ o.from \in Working /\ f \in {A_FIELD, IN_FIELD}
  BY SMT DEF Sound, Moves
<1>3. f \in Fields
  BY <1>2 DEF FieldCode, Fields, A_FIELD, IN_FIELD
<1> HIDE DEF f
<1>4. ASSUME NEW m, NEW k, NEW V, NEW F, o.to \in RegisterName, Ran(m, c, o.to, f, k, V, F)
      PROVE  Is(m)
  BY <1>1, <1>3, <1>4, RanIsFramed, Zenon DEF f
<1>5. CASE o.to \in {"DAT0", "DAT1"} /\ o.from \in Working /\ f \in FieldCode
  <2>1. copy(c, o) = store(c, Dat(c, o.to), o.from, f)
    <3>1. /\ o.to \notin {"D0", "D1", "P"} /\ o.from \notin {"DAT0", "DAT1", "P"}
          /\ f # NoField
      BY <1>5, SMT DEF Working, f
    <3> QED BY <1>5, <3>1, SMT DEF copy, f
  <2>2. Dat(c, o.to) \in Int /\ o.from \in RegisterName
    BY <1>5, Addresses, WorkingRegisters
  <2>3. copy(c, o) = Stored(c, Dat(c, o.to), o.from, get_start(c, f), get_end(c, f))
    BY <1>1, <1>3, <2>1, <2>2, Storing
  <2>4. copy(c, o).reg = c.reg /\ "reg" \in DOMAIN copy(c, o)
    BY <1>1, <2>3 DEF Stored, Machine
  <2> QED BY <2>4, Zenon DEF Framed
<1>6. CASE o.to \in Working /\ o.from \in {"DAT0", "DAT1"} /\ f \in FieldCode
  <2>1. o.to \notin {"DAT0", "DAT1"}
    BY <1>6 DEF Working
  <2>2. copy(c, o) = recall(c, o.to, Dat(c, o.from), f)
    <3>1. o.to \notin {"D0", "D1", "P"} /\ o.from # "P" /\ f # NoField
      BY <1>6, SMT DEF Working, f
    <3> QED BY <1>6, <2>1, <3>1, SMT DEF copy, f
  <2>3. Dat(c, o.from) \in Int /\ o.to \in RegisterName /\ \A a \in Int : read_nibble_crc(c, a) \in 0 .. 15
    BY <1>6, Addresses, WorkingRegisters
  <2>4. Ran(copy(c, o), c, o.to, f, c.CARRY, RecallDigit(c, Dat(c, o.from), get_start(c, f)), Keep)
    BY <1>1, <1>3, <2>2, <2>3, Recalling
  <2> QED BY <1>4, <2>3, <2>4, Zenon
<1>7. CASE o.to \in {"D0", "D1"} /\ o.from \in Working /\ f \in {A_FIELD, IN_FIELD}
  <2> DEFINE n == IF f = IN_FIELD THEN 4 ELSE 5
             x == [j \in 0 .. 15 |-> IF j < n THEN c.reg[o.from][j] ELSE c.reg[o.to][j]]
  <2>1. o.to \notin {"DAT0", "DAT1"} /\ o.from \notin {"DAT0", "DAT1"}
    BY <1>7 DEF Working
  <2>2. copy(c, o) = register_to_address(c, o.from, o.to, IF f = IN_FIELD THEN 1 ELSE 0)
    <3>1. o.to # "P" /\ o.from # "P"
      BY <1>7, SMT DEF Working
    <3> QED BY <1>7, <2>1, <3>1, SMT DEF copy, f
  <2>3. copy(c, o) = [c EXCEPT !.reg[o.to] = x]
    BY <2>2 DEF register_to_address
  <2>4. FieldNibbles(f, c.P) = 0 .. n - 1
    <3>1. /\ FieldNibbles(A_FIELD, c.P) = 0 .. 4 /\ A_FIELD # IN_FIELD
          /\ FieldNibbles(IN_FIELD, c.P) = 0 .. 3
      BY SMT DEF FieldNibbles, A_FIELD, IN_FIELD, W_FIELD
    <3>2. CASE f = IN_FIELD
      <4>1. n - 1 = 3
        BY <3>2
      <4> QED BY <3>1, <3>2, <4>1
    <3>3. CASE f = A_FIELD
      <4>1. n - 1 = 4
        BY <3>1, <3>3
      <4> QED BY <3>1, <3>3, <4>1
    <3> QED BY <1>7, <3>2, <3>3
  <2>5. \A j \in 0 .. 15 : j \notin 0 .. n - 1 => x[j] = c.reg[o.to][j]
    OBVIOUS
  <2> HIDE DEF n, x
  <2>6. o.to \in RegisterName /\ c.reg \in [RegisterName -> [0 .. 15 -> 0 .. 15]]
    BY <1>1, <1>7 DEF RegisterName, Machine
  <2>7. copy(c, o).reg = [c.reg EXCEPT ![o.to] = x] /\ "reg" \in DOMAIN copy(c, o)
    BY <1>1, <2>3 DEF Machine
  <2> QED BY <2>4, <2>5, <2>6, <2>7 DEF Framed, f
<1>8. CASE o.to \in Wide /\ o.from \in Wide /\ f \in FieldCode
  <2>1. /\ o.to \notin {"DAT0", "DAT1", "D0", "D1", "P"}
        /\ o.from \notin {"DAT0", "DAT1", "P"}
    BY <1>8 DEF Wide, Working
  <2>2. copy(c, o) = copy_register(c, o.to, o.from, f)
    BY <2>1, SMT DEF copy, f
  <2>3. o.to \in RegisterName /\ o.from \in RegisterName
    BY <1>8, WorkingRegisters
  <2>4. Ran(copy(c, o), c, o.to, f, c.CARRY, CopyDigit(c.reg[o.from]), Keep)
    BY <1>1, <1>3, <2>2, <2>3, Copying
  <2> QED BY <1>4, <2>3, <2>4, Zenon
<1> QED BY <1>2, <1>5, <1>6, <1>7, <1>8

LEMMA ExchangesAreFramed ==
    ASSUME NEW c \in Processor, NEW o, o.kind = "exchange", Sound(o), o.field # NoField
    PROVE  Framed(exchange(c, o), c, {o.to, o.from}, o.field)
<1> DEFINE f == o.field
<1>1. c \in Machine({<<>>})
  BY ProcessorIsMachine
<1>2. \/ o.to \in Wide /\ o.from \in Wide /\ f \in FieldCode
      \/ o.to \in Working /\ o.from \in {"D0", "D1"} /\ f \in {A_FIELD, IN_FIELD}
  BY SMT DEF Sound, Exchanges
<1>3. f \in Fields
  BY <1>2 DEF FieldCode, Fields, A_FIELD, IN_FIELD
<1>4. o.to \in RegisterName /\ o.from \in RegisterName
  BY <1>2, WorkingRegisters DEF RegisterName
<1>5. \/ exchange(c, o) = exchange_reg(c, o.to, o.from, f)
      \/ exchange(c, o) = exchange_register(c, o.to, o.from, f)
  <2>1. o.from # "P"
    BY <1>4, SMT DEF RegisterName
  <2> QED BY <2>1, SMT DEF exchange
<1>6. exchange_reg(c, o.to, o.from, f) = exchange_register(c, o.to, o.from, f)
  BY Zenon DEF exchange_reg, exchange_register
<1> HIDE DEF f
<1>7. Framed(exchange_register(c, o.to, o.from, f), c, {o.to, o.from}, f)
  BY <1>1, <1>3, <1>4, ExchangeIsFramed, Zenon
<1> QED BY <1>5, <1>6, <1>7 DEF f

\* Whatever the instruction, the field and P: the loops of register.c stay in the field.
THEOREM InstructionsStayInTheField == Spec => []FieldOnly
<1>1. Performed => FieldOnly
  <2> DEFINE o == Operation
             f == o.field
             kinds == Arithmetic \cup Shift \cup Constant \cup {"copy", "exchange"}
             R == IF o.kind = "exchange" THEN {o.to, o.from} ELSE {o.to}
  <2> SUFFICES ASSUME Performed, Ended(kinds), f # NoField PROVE FieldOnly
    BY Zenon DEF FieldOnly
  <2>1. done /\ o.kind \in kinds
    BY Zenon DEF Ended
  <2>2. was \in Processor /\ cpu = perform(was, o, Word) /\ Sound(o)
    BY <2>1, WhatWasPerformed, Zenon
  <2> HIDE DEF o
  <2>3. Framed(cpu, was, R, f)
    <3>1. CASE o.kind \in Arithmetic
      <4>1. R = {o.to}
        BY <3>1, SMT DEF Arithmetic
      <4> QED BY <2>2, <3>1, <4>1, Performing, CalculationIsFramed
    <3>2. CASE o.kind \in Shift
      <4>1. R = {o.to}
        BY <3>2, SMT DEF Shift
      <4> QED BY <2>2, <3>2, <4>1, Performing, ShiftIsFramed
    <3>3. CASE o.kind \in Constant
      <4>1. R = {o.to}
        BY <3>3, SMT DEF Constant
      <4> QED BY <2>2, <3>3, <4>1, Performing, ConstantIsFramed
    <3>4. CASE o.kind = "copy"
      BY <2>2, <3>4, Performing, CopyIsFramed
    <3>5. CASE o.kind = "exchange"
      BY <2>2, <3>5, Performing, ExchangesAreFramed
    <3> QED BY <2>1, <3>1, <3>2, <3>3, <3>4, <3>5
  <2>4. Places = FieldNibbles(f, was.P)
    BY Zenon DEF Places, o
  <2>5. DOMAIN was.reg = RegisterName
    BY <2>2 DEF Processor
  <2>6. \A r \in DOMAIN was.reg, i \in 0 .. 15 :
           \/ cpu.reg[r][i] = was.reg[r][i]
           \/ i \in Places /\ (r = o.to \/ (r = o.from /\ o.kind = "exchange"))
    BY <2>3, <2>4, <2>5 DEF Framed
  <2> QED BY <2>6, Zenon DEF FieldOnly, o
<1> QED BY <1>1, InstructionsArePerformed, PTL

----------------------------------------------------------------------------
(* The number in a field.                                                  *)

\* What the nibbles i .. e stand for, for every i.
Total(x, h, e) == CHOOSE v : v = [i \in 0 .. 16 |-> IF i > e THEN 0 ELSE x[i] + h * v[i + 1]]

TotalIs(v, x, h, e) ==
    /\ v \in [0 .. 16 -> Nat]
    /\ \A i \in e + 1 .. 16 : v[i] = 0
    /\ \A i \in 0 .. e : v[i] = x[i] + h * v[i + 1]

LEMMA Totals ==
    ASSUME NEW x \in Digits, NEW h \in {10, 16}, NEW e \in 0 .. 15
    PROVE  TotalIs(Total(x, h, e), x, h, e)
<1> DEFINE F == [q \in (0 .. 15) \X Nat |-> x[15 - q[1]] + h * q[2]]
           s == 15 - e
           Done(v) == v = [i \in 0 .. 16 |-> IF i > e THEN 0 ELSE x[i] + h * v[i + 1]]
           v == CHOOSE v : Done(v)
<1>1. F \in [(0 .. 15) \X Nat -> Nat]
  <2>1. ASSUME NEW q \in (0 .. 15) \X Nat PROVE x[15 - q[1]] + h * q[2] \in Nat
    <3>1. x[15 - q[1]] \in 0 .. 15 /\ q[2] \in Nat
      BY DEF Digits
    <3> QED BY <3>1
  <2> QED BY <2>1
<1>2. s \in 0 .. 15 /\ 0 \in Nat
  OBVIOUS
<1>3. PICK car \in [-1 .. 15 -> Nat] : Carried(car, s, 0, F)
  <2> HIDE DEF F, s
  <2> QED BY <1>1, <1>2, Chain, Zenon
<1> DEFINE g == [i \in 0 .. 16 |-> car[15 - i]]
<1>4. ASSUME NEW i \in 0 .. 16 PROVE g[i] = IF i > e THEN 0 ELSE x[i] + h * g[i + 1]
  <2>1. 15 - i \in -1 .. 15 /\ g[i] = car[15 - i] /\ (i > e <=> 15 - i < s)
    OBVIOUS
  <2>2. car[15 - i] = IF 15 - i < s THEN 0 ELSE F[<<15 - i, car[(15 - i) - 1]>>]
    <3> HIDE DEF F, s
    <3> QED BY <1>3, <2>1 DEF Carried
  <2>3. CASE i > e
    <3> HIDE DEF F, s, g
    <3> QED BY <2>1, <2>2, <2>3
  <2>4. CASE ~(i > e)
    <3>1. /\ 15 - i \in 0 .. 15 /\ (15 - i) - 1 \in -1 .. 15 /\ (15 - i) - 1 = 15 - (i + 1)
          /\ i + 1 \in 0 .. 16 /\ 15 - (15 - i) = i
      BY <2>4
    <3>2. g[i + 1] = car[(15 - i) - 1] /\ car[(15 - i) - 1] \in Nat
      BY <3>1
    <3>3. F[<<15 - i, car[(15 - i) - 1]>>] = x[i] + h * g[i + 1]
      <4>1. <<15 - i, car[(15 - i) - 1]>> \in (0 .. 15) \X Nat
        BY <3>1, <3>2
      <4> HIDE DEF g
      <4> QED BY <3>1, <3>2, <4>1
    <3> HIDE DEF F, s, g
    <3> QED BY <2>1, <2>2, <2>4, <3>3
  <2> QED BY <2>3, <2>4
<1>5. g \in [0 .. 16 -> Nat]
  OBVIOUS
<1> HIDE DEF g, s, F
<1>6. Done(g)
  BY <1>4, <1>5
<1>7. Done(v)
  BY <1>6, Zenon
<1> HIDE DEF v
<1>8. \A i \in 0 .. 16 : v[i] = IF i > e THEN 0 ELSE x[i] + h * v[i + 1]
  BY <1>7
<1>9. v \in [0 .. 16 -> Nat]
  <2> DEFINE T == {i \in 0 .. 16 : v[i] \in Nat}
  <2>1. 16 \in T
    BY <1>8
  <2>2. ASSUME NEW i \in 1 .. 16, i \in T PROVE i - 1 \in T
    <3>1. i - 1 \in 0 .. 15 /\ (i - 1) + 1 = i /\ v[i] \in Nat
      BY <2>2
    <3>2. x[i - 1] \in 0 .. 15
      BY <3>1 DEF Digits
    <3>3. x[i - 1] + h * v[i] \in Nat
      BY <3>1, <3>2
    <3>4. v[i - 1] = IF i - 1 > e THEN 0 ELSE x[i - 1] + h * v[i]
      BY <1>8, <3>1
    <3> QED BY <3>1, <3>3, <3>4
  <2>3. 0 .. 16 \subseteq T
    <3> DEFINE bottom == 0
               top == 16
    <3>1. \A i \in bottom + 1 .. top : i \in T => i - 1 \in T
      BY <2>2
    <3>2. bottom \in Int /\ top \in Int /\ top \in T
      BY <2>1
    <3>3. bottom .. top \subseteq T
      <4> HIDE DEF T, bottom, top
      <4> QED BY <3>1, <3>2, Downwards
    <3> QED BY <3>3
  <2> QED BY <1>7, <2>3
<1>10. TotalIs(v, x, h, e)
  BY <1>8, <1>9 DEF TotalIs
<1> QED BY <1>10 DEF v, Total

\* The place values, up to what is behind a register.
PlaceValues(h, v) == v[0] = 1 /\ \A k \in 0 .. 15 : v[k + 1] = h * v[k]
Place(h, k) == (CHOOSE v \in [0 .. 16 -> Nat] : PlaceValues(h, v))[k]

LEMMA Powers ==
    ASSUME NEW h \in {10, 16}
    PROVE  /\ Place(h, 0) = 1
           /\ \A k \in 0 .. 15 : Place(h, k + 1) = h * Place(h, k)
           /\ \A k \in 0 .. 16 : Place(h, k) \in Nat \ {0}
<1> DEFINE Begun(v, n) == v[0] = 1 /\ \A k \in 0 .. n - 1 : v[k + 1] = h * v[k]
           T == {n \in Nat : \E v \in [Nat -> Nat] : Begun(v, n)}
<1>1. 0 \in T
  <2> DEFINE v == [k \in Nat |-> 1]
  <2>1. v \in [Nat -> Nat] /\ v[0] = 1 /\ ~ \E k \in 0 .. 0 - 1 : TRUE
    OBVIOUS
  <2>2. Begun(v, 0)
    <3> HIDE DEF v
    <3> QED BY <2>1
  <2> HIDE DEF v, Begun
  <2> QED BY <2>1, <2>2
<1>2. ASSUME NEW n \in Nat, n \in T PROVE n + 1 \in T
  <2>1. PICK v \in [Nat -> Nat] : Begun(v, n)
    BY <1>2
  <2> DEFINE w == [v EXCEPT ![n + 1] = h * v[n]]
  <2>2. w \in [Nat -> Nat]
    <3>1. v[n] \in Nat
      OBVIOUS
    <3>2. h * v[n] \in Nat
      BY <3>1
    <3> QED BY <3>2
  <2>3. ASSUME NEW k \in 0 .. n PROVE w[k + 1] = h * w[k]
    <3>1. w[k] = v[k] /\ (k # n => w[k + 1] = v[k + 1]) /\ (k = n => w[k + 1] = h * v[n])
      OBVIOUS
    <3>2. k # n => v[k + 1] = h * v[k]
      BY <2>1
    <3> HIDE DEF w
    <3> QED BY <3>1, <3>2
  <2>4. w[0] = 1
    BY <2>1
  <2>5. (n + 1) - 1 = n
    OBVIOUS
  <2>6. Begun(w, n + 1)
    <3> HIDE DEF w
    <3> QED BY <2>3, <2>4, <2>5
  <2> HIDE DEF w, Begun
  <2> QED BY <2>2, <2>6
<1>3. Nat \subseteq T
  <2> HIDE DEF T
  <2> QED BY <1>1, <1>2, Inductive
<1>4. PICK v \in [Nat -> Nat] : Begun(v, 16)
  BY <1>3
<1> DEFINE u == [k \in 0 .. 16 |-> v[k]]
           p == CHOOSE p \in [0 .. 16 -> Nat] : PlaceValues(h, p)
<1>5. u \in [0 .. 16 -> Nat] /\ PlaceValues(h, u)
  BY <1>4 DEF PlaceValues
<1>6. p \in [0 .. 16 -> Nat] /\ PlaceValues(h, p)
  BY <1>5, Zenon
<1>7. \A k : Place(h, k) = p[k]
  BY Zenon DEF Place
<1> HIDE DEF p, T
<1> DEFINE S == {n \in Nat : n \in 0 .. 16 => p[n] \in Nat \ {0}}
<1>8. 0 \in S
  BY <1>6 DEF PlaceValues
<1>9. ASSUME NEW n \in Nat, n \in S PROVE n + 1 \in S
  <2> SUFFICES ASSUME n + 1 \in 0 .. 16 PROVE p[n + 1] \in Nat \ {0}
    OBVIOUS
  <2>1. n \in 0 .. 15 /\ p[n] \in Nat \ {0}
    BY <1>9
  <2>2. p[n + 1] = h * p[n]
    BY <1>6, <2>1 DEF PlaceValues
  <2> QED BY <2>1, <2>2
<1>10. Nat \subseteq S
  <2> HIDE DEF S
  <2> QED BY <1>8, <1>9, Inductive
<1> QED BY <1>6, <1>7, <1>10 DEF PlaceValues

\* What is behind the place e.
Out(h, n, carry) == IF carry = 1 THEN Place(h, n) ELSE 0

\* Addition on paper: column by column, and so of the numbers.
Columns(x, y, z, car, h, s, e) == \A i \in s .. e : x[i] + y[i] + car[i - 1] = z[i] + h * car[i]

Sums(x, y, a, z, p) == x + y + a = z + p

LEMMA Column ==
    ASSUME NEW h \in {10, 16}, NEW x \in Int, NEW y \in Int, NEW z \in Int,
           NEW a \in Int, NEW b \in Int, NEW X \in Int, NEW Y \in Int, NEW Z \in Int, NEW P \in Int,
           Sums(x, y, a, z, h * b), Sums(X, Y, b, Z, P)
    PROVE  Sums(x + h * X, y + h * Y, a, z + h * Z, h * P)
<1>1. CASE h = 10
  BY <1>1 DEF Sums
<1>2. CASE h = 16
  BY <1>2 DEF Sums
<1> QED BY <1>1, <1>2

AddsUp(x, y, z, car, h, s, e) ==
    Total(x, h, e)[s] + Total(y, h, e)[s] + car[s - 1]
       = Total(z, h, e)[s] + Out(h, e + 1 - s, car[e])

LEMMA LongAddition ==
    ASSUME NEW h \in {10, 16}, NEW s \in 0 .. 15, NEW e \in s .. 15,
           NEW x \in Digits, NEW y \in Digits, NEW z \in Digits, NEW car \in Carries,
           car[e] \in {0, 1}, Columns(x, y, z, car, h, s, e)
    PROVE  AddsUp(x, y, z, car, h, s, e)
<1> DEFINE X == Total(x, h, e)
           Y == Total(y, h, e)
           Z == Total(z, h, e)
           T == {i \in s .. e + 1 :
                    X[i] + Y[i] + car[i - 1] = Z[i] + Out(h, e + 1 - i, car[e])}
<1>1. e \in 0 .. 15 /\ e + 1 \in Int /\ e + 1 \in s .. e + 1
  OBVIOUS
<1>2. TotalIs(X, x, h, e) /\ TotalIs(Y, y, h, e) /\ TotalIs(Z, z, h, e)
  BY <1>1, Totals
<1> HIDE DEF X, Y, Z
<1>3. e + 1 \in T
  <2>1. X[e + 1] = 0 /\ Y[e + 1] = 0 /\ Z[e + 1] = 0
    BY <1>2 DEF TotalIs
  <2>2. Out(h, e + 1 - (e + 1), car[e]) = car[e]
    <3>1. e + 1 - (e + 1) = 0 /\ Place(h, 0) = 1
      BY Powers
    <3> QED BY <3>1 DEF Out
  <2>3. (e + 1) - 1 = e
    OBVIOUS
  <2> QED BY <1>1, <2>1, <2>2, <2>3
<1>4. ASSUME NEW i \in s + 1 .. e + 1, i \in T PROVE i - 1 \in T
  <2> DEFINE j == i - 1
             k == e + 1 - i
             P == Out(h, k, car[e])
  <2>1. /\ j \in s .. e /\ j \in s .. e + 1 /\ j \in 0 .. e /\ j + 1 = i /\ j - 1 \in -1 .. 15
        /\ j \in -1 .. 15 /\ i \in 0 .. 16 /\ j \in 0 .. 15
        /\ k \in 0 .. 15 /\ e + 1 - j = k + 1
    OBVIOUS
  <2> HIDE DEF j, k
  <2>2. Place(h, k + 1) = h * Place(h, k) /\ Place(h, k) \in Nat
    BY <2>1, Powers
  <2>3. Out(h, k + 1, car[e]) = h * P /\ P \in Nat
    BY <2>2 DEF Out
  <2>4. X[i] + Y[i] + car[j] = Z[i] + P
    BY <1>4 DEF j, k
  <2>5. /\ X[j] = x[j] + h * X[i] /\ Y[j] = y[j] + h * Y[i] /\ Z[j] = z[j] + h * Z[i]
        /\ X[i] \in Nat /\ Y[i] \in Nat /\ Z[i] \in Nat
    BY <1>2, <2>1 DEF TotalIs
  <2>6. x[j] + y[j] + car[j - 1] = z[j] + h * car[j]
    BY <2>1 DEF Columns
  <2>7. /\ x[j] \in Int /\ y[j] \in Int /\ z[j] \in Int /\ car[j] \in Int /\ car[j - 1] \in Int
    BY <2>1 DEF Digits, Carries, Carry
  <2> HIDE DEF P, T
  <2>8. X[j] + Y[j] + car[j - 1] = Z[j] + h * P
    <3>1. X[i] \in Int /\ Y[i] \in Int /\ Z[i] \in Int /\ P \in Int
      BY <2>3, <2>5
    <3>2. Sums(x[j], y[j], car[j - 1], z[j], h * car[j]) /\ Sums(X[i], Y[i], car[j], Z[i], P)
      BY <2>4, <2>6 DEF Sums
    <3>3. Sums(x[j] + h * X[i], y[j] + h * Y[i], car[j - 1], z[j] + h * Z[i], h * P)
      BY <2>7, <3>1, <3>2, Column, Zenon
    <3> QED BY <2>5, <3>3 DEF Sums
  <2> QED BY <2>1, <2>3, <2>8 DEF T, j
<1>5. s .. e + 1 \subseteq T
  <2>1. \A i \in s + 1 .. e + 1 : i \in T => i - 1 \in T
    BY <1>4
  <2> HIDE DEF T
  <2> QED BY <1>1, <1>3, <2>1, Downwards
<1>6. s \in T
  <2> HIDE DEF T
  <2> QED BY <1>5
<1> QED BY <1>6 DEF X, Y, Z, AddsUp

\* All nines, or F's, are one less than what is behind the field; all zeroes are 0.
Same(n) == [i \in 0 .. 15 |-> n]

LEMMA ZeroesAndNines ==
    ASSUME NEW h \in {10, 16}, NEW s \in 0 .. 15, NEW e \in s .. 15
    PROVE  /\ Total(Same(0), h, e)[s] = 0
           /\ Total(Same(h - 1), h, e)[s] = Place(h, e + 1 - s) - 1
<1> DEFINE zero == Same(0)
           nine == Same(h - 1)
           none == [i \in -1 .. 15 |-> 0]
           one == [i \in -1 .. 15 |-> 1]
<1>1. zero \in Digits /\ nine \in Digits
  BY DEF Same, Digits
<1>2. none \in Carries /\ one \in Carries
  BY DEF Carries, Carry
<1>3. Columns(zero, zero, zero, none, h, s, e)
  BY DEF Columns, Same
<1>4. Columns(nine, zero, zero, one, h, s, e)
  BY DEF Columns, Same
<1>5. none[e] = 0 /\ none[s - 1] = 0 /\ one[e] = 1 /\ one[s - 1] = 1
  OBVIOUS
<1>6. e \in 0 .. 15 /\ s \in 0 .. 16 /\ e + 1 - s \in 0 .. 16
  OBVIOUS
<1> HIDE DEF zero, nine, none, one
<1>7. Total(zero, h, e)[s] \in Nat /\ Total(nine, h, e)[s] \in Nat
  <2>1. TotalIs(Total(zero, h, e), zero, h, e) /\ TotalIs(Total(nine, h, e), nine, h, e)
    BY <1>1, <1>6, Totals
  <2> QED BY <1>6, <2>1 DEF TotalIs
<1>8. Total(zero, h, e)[s] = 0
  <2>1. none[e] \in {0, 1}
    BY <1>5
  <2>2. AddsUp(zero, zero, zero, none, h, s, e)
    BY <1>1, <1>2, <1>3, <2>1, LongAddition
  <2>3. Out(h, e + 1 - s, none[e]) = 0
    BY <1>5 DEF Out
  <2> QED BY <1>5, <1>7, <2>2, <2>3, SMTT(30) DEF AddsUp
<1>9. Total(nine, h, e)[s] = Place(h, e + 1 - s) - 1
  <2>1. one[e] \in {0, 1}
    BY <1>5
  <2>2. AddsUp(nine, zero, zero, one, h, s, e)
    BY <1>1, <1>2, <1>4, <2>1, LongAddition
  <2>3. Out(h, e + 1 - s, one[e]) = Place(h, e + 1 - s)
    BY <1>5 DEF Out
  <2>4. Place(h, e + 1 - s) \in Nat
    BY <1>6, Powers
  <2> QED BY <1>5, <1>7, <1>8, <2>2, <2>3, <2>4 DEF AddsUp
<1> QED BY <1>8, <1>9 DEF zero, nine

\* Digits of the base h, where the field is.
Based(x, h, s, e) == \A i \in s .. e : x[i] < h

Least == [i \in -1 .. 15 |-> 0]
Complement(x, h, s, e) == [i \in 0 .. 15 |-> IF i \in s .. e THEN h - 1 - x[i] ELSE 0]

LEMMA Complements ==
    ASSUME NEW h \in {10, 16}, NEW s \in 0 .. 15, NEW e \in s .. 15,
           NEW x \in Digits, Based(x, h, s, e)
    PROVE  /\ Complement(x, h, s, e) \in Digits
           /\ Total(Complement(x, h, s, e), h, e)[s] \in Nat
           /\ Total(x, h, e)[s] \in Nat
           /\ Place(h, e + 1 - s) \in Nat \ {0}
           /\ Total(x, h, e)[s] + Total(Complement(x, h, s, e), h, e)[s] = Place(h, e + 1 - s) - 1
<1> DEFINE n == Complement(x, h, s, e)
           nine == Same(h - 1)
<1>1. \A i \in s .. e : x[i] \in 0 .. 15 /\ x[i] < h /\ i \in 0 .. 15
  BY DEF Digits, Based
<1>2. n \in Digits /\ nine \in Digits /\ Least \in Carries
  BY <1>1 DEF Digits, Complement, Same, Least, Carries, Carry
<1>3. Columns(x, n, nine, Least, h, s, e)
  BY <1>1 DEF Columns, Complement, Same, Least
<1>4. e \in 0 .. 15 /\ s \in 0 .. 16 /\ e + 1 - s \in 0 .. 16 /\ Least[e] = 0 /\ Least[s - 1] = 0
  BY DEF Least
<1> HIDE DEF n, nine
<1>5. Total(x, h, e)[s] \in Nat /\ Total(n, h, e)[s] \in Nat
  <2>1. TotalIs(Total(x, h, e), x, h, e) /\ TotalIs(Total(n, h, e), n, h, e)
    BY <1>2, <1>4, Totals
  <2> QED BY <1>4, <2>1 DEF TotalIs
<1>6. AddsUp(x, n, nine, Least, h, s, e)
  <2>1. Least[e] \in {0, 1}
    BY <1>4
  <2> QED BY <1>2, <1>3, <2>1, LongAddition
<1>7. Total(nine, h, e)[s] = Place(h, e + 1 - s) - 1
  BY ZeroesAndNines DEF nine
<1>8. Place(h, e + 1 - s) \in Nat \ {0}
  BY <1>4, Powers
<1>9. Out(h, e + 1 - s, Least[e]) = 0
  BY <1>4 DEF Out
<1>10. Total(x, h, e)[s] + Total(n, h, e)[s] = Place(h, e + 1 - s) - 1
  BY <1>4, <1>5, <1>6, <1>7, <1>8, <1>9 DEF AddsUp
<1> QED BY <1>2, <1>5, <1>8, <1>10 DEF n

LEMMA Bounds ==
    ASSUME NEW h \in {10, 16}, NEW s \in 0 .. 15, NEW e \in s .. 15,
           NEW x \in Digits, Based(x, h, s, e)
    PROVE  /\ Place(h, e + 1 - s) \in Nat \ {0}
           /\ Total(x, h, e)[s] \in 0 .. Place(h, e + 1 - s) - 1
<1> DEFINE a == Total(x, h, e)[s]
           b == Total(Complement(x, h, s, e), h, e)[s]
           m == Place(h, e + 1 - s)
<1>1. a \in Nat /\ b \in Nat /\ m \in Nat \ {0} /\ a + b = m - 1
  BY Complements, ZenonT(40)
<1> HIDE DEF a, b, m
<1>2. a \in 0 .. m - 1
  BY <1>1
<1> QED BY <1>1, <1>2 DEF a, m

\* A number is 0 if its nibbles are.
ZeroIsZeroes(x, h, s, e) == Total(x, h, e)[s] # 0 <=> \E i \in s .. e : x[i] # 0

LEMMA AllZero ==
    ASSUME NEW h \in {10, 16}, NEW s \in 0 .. 15, NEW e \in s .. 15, NEW x \in Digits
    PROVE  ZeroIsZeroes(x, h, s, e)
<1> DEFINE X == Total(x, h, e)
           T == {i \in s .. e + 1 : X[i] # 0 <=> \E j \in i .. e : x[j] # 0}
<1>1. e \in 0 .. 15 /\ e + 1 \in Int /\ e + 1 \in s .. e + 1 /\ s \in Int
  OBVIOUS
<1>2. TotalIs(X, x, h, e)
  BY <1>1, Totals
<1> HIDE DEF X
<1>3. e + 1 \in T
  BY <1>1, <1>2 DEF TotalIs
<1>4. ASSUME NEW i \in s + 1 .. e + 1, i \in T PROVE i - 1 \in T
  <2> DEFINE j == i - 1
  <2>1. j \in s .. e + 1 /\ j \in 0 .. e /\ j + 1 = i /\ i \in 0 .. 16 /\ j \in 0 .. 15 /\ j \in j .. e
    OBVIOUS
  <2>2. j .. e = {j} \cup i .. e
    BY <2>1
  <2> HIDE DEF j
  <2>3. X[j] = x[j] + h * X[i] /\ X[i] \in Nat /\ x[j] \in 0 .. 15
    BY <1>2, <2>1 DEF TotalIs, Digits
  <2>4. X[i] # 0 <=> \E l \in i .. e : x[l] # 0
    BY <1>4
  <2>5. X[j] # 0 <=> x[j] # 0 \/ X[i] # 0
    <3>1. CASE h = 10
      BY <2>3, <3>1
    <3>2. CASE h = 16
      BY <2>3, <3>2
    <3> QED BY <3>1, <3>2
  <2>6. X[j] # 0 <=> \E l \in j .. e : x[l] # 0
    BY <2>2, <2>4, <2>5, Zenon
  <2> QED BY <2>1, <2>6 DEF j
<1>5. s .. e + 1 \subseteq T
  <2>1. \A i \in s + 1 .. e + 1 : i \in T => i - 1 \in T
    BY <1>4
  <2> HIDE DEF T
  <2> QED BY <1>1, <1>3, <2>1, Downwards
<1>6. s \in s .. e + 1
  OBVIOUS
<1> QED BY <1>5, <1>6 DEF X, ZeroIsZeroes

\* A number below m, and m more or less.
LEMMA Modulo ==
    ASSUME NEW m \in Nat \ {0}, NEW x \in 0 .. m - 1
    PROVE  x % m = x /\ (x + m) % m = x /\ (x - m) % m = x
<1>1. x \in Int /\ 0 <= x /\ x < m
  OBVIOUS
<1>2. x % m = x
  BY <1>1, SMT
<1>3. (x + m) % m = x
  BY <1>1, SMT
<1>4. (x - m) % m = x
  BY <1>1, SMT
<1> QED BY <1>2, <1>3, <1>4

\* What comes out of columns, as a number.
SumIs(x, y, z, car, h, s, e) ==
    LET m == Place(h, e + 1 - s)
        sum == Total(x, h, e)[s] + Total(y, h, e)[s] + car[s - 1]
    IN  Total(z, h, e)[s] = sum % m /\ (car[e] = 1 <=> sum >= m)
DifferenceIs(x, y, z, car, h, s, e) ==
    LET m == Place(h, e + 1 - s)
        difference == Total(x, h, e)[s] - Total(y, h, e)[s] - car[s - 1]
    IN  Total(z, h, e)[s] = difference % m /\ (car[e] = 1 <=> difference < 0)

LEMMA SumOfColumns ==
    ASSUME NEW h \in {10, 16}, NEW s \in 0 .. 15, NEW e \in s .. 15,
           NEW x \in Digits, NEW y \in Digits, NEW z \in Digits, NEW car \in Carries,
           car[e] \in {0, 1}, car[s - 1] \in {0, 1}, Based(z, h, s, e),
           Columns(x, y, z, car, h, s, e)
    PROVE  SumIs(x, y, z, car, h, s, e)
<1> DEFINE m == Place(h, e + 1 - s)
           a == Total(x, h, e)[s]
           b == Total(y, h, e)[s]
           c == Total(z, h, e)[s]
           k == car[s - 1]
           l == car[e]
<1>1. AddsUp(x, y, z, car, h, s, e)
  BY LongAddition
<1>2. m \in Nat \ {0} /\ c \in 0 .. m - 1
  BY Bounds
<1>3. a \in Nat /\ b \in Nat
  <2>1. e \in 0 .. 15 /\ s \in 0 .. 16
    OBVIOUS
  <2>2. TotalIs(Total(x, h, e), x, h, e) /\ TotalIs(Total(y, h, e), y, h, e)
    BY <2>1, Totals
  <2> QED BY <2>1, <2>2 DEF TotalIs
<1>4. a + b + k = c + (IF l = 1 THEN m ELSE 0)
  BY <1>1 DEF AddsUp, Out
<1>5. k \in {0, 1} /\ l \in {0, 1}
  OBVIOUS
<1> HIDE DEF m, a, b, c, k, l
<1>6. c % m = c /\ (c + m) % m = c
  BY <1>2, Modulo
<1>7. c = (a + b + k) % m /\ (l = 1 <=> a + b + k >= m)
  <2>1. CASE l = 1
    <3>1. a + b + k = c + m
      BY <1>4, <2>1
    <3> QED BY <1>2, <1>6, <2>1, <3>1
  <2>2. CASE l = 0
    <3>1. a + b + k = c
      BY <1>2, <1>4, <2>2
    <3> QED BY <1>2, <1>6, <2>2, <3>1
  <2> QED BY <1>5, <2>1, <2>2
<1> QED BY <1>7 DEF SumIs, m, a, b, c, k, l

LEMMA DifferenceOfColumns ==
    ASSUME NEW h \in {10, 16}, NEW s \in 0 .. 15, NEW e \in s .. 15,
           NEW x \in Digits, NEW y \in Digits, NEW z \in Digits, NEW car \in Carries,
           car[e] \in {0, 1}, car[s - 1] \in {0, 1}, Based(z, h, s, e),
           Columns(z, y, x, car, h, s, e)
    PROVE  DifferenceIs(x, y, z, car, h, s, e)
<1> DEFINE m == Place(h, e + 1 - s)
           a == Total(x, h, e)[s]
           b == Total(y, h, e)[s]
           c == Total(z, h, e)[s]
           k == car[s - 1]
           l == car[e]
<1>1. AddsUp(z, y, x, car, h, s, e)
  BY LongAddition
<1>2. m \in Nat \ {0} /\ c \in 0 .. m - 1
  BY Bounds
<1>3. a \in Nat /\ b \in Nat
  <2>1. e \in 0 .. 15 /\ s \in 0 .. 16
    OBVIOUS
  <2>2. TotalIs(Total(x, h, e), x, h, e) /\ TotalIs(Total(y, h, e), y, h, e)
    BY <2>1, Totals
  <2> QED BY <2>1, <2>2 DEF TotalIs
<1>4. c + b + k = a + (IF l = 1 THEN m ELSE 0)
  BY <1>1 DEF AddsUp, Out
<1>5. k \in {0, 1} /\ l \in {0, 1}
  OBVIOUS
<1> HIDE DEF m, a, b, c, k, l
<1>6. c % m = c /\ (c - m) % m = c
  BY <1>2, Modulo
<1>7. c = (a - b - k) % m /\ (l = 1 <=> a - b - k < 0)
  <2>1. CASE l = 1
    <3>1. a - b - k = c - m
      BY <1>2, <1>3, <1>4, <1>5, <2>1
    <3> QED BY <1>2, <1>6, <2>1, <3>1
  <2>2. CASE l = 0
    <3>1. a - b - k = c
      BY <1>2, <1>3, <1>4, <1>5, <2>2
    <3> QED BY <1>2, <1>6, <2>2, <3>1
  <2> QED BY <1>5, <2>1, <2>2
<1> QED BY <1>7 DEF DifferenceIs, m, a, b, c, k, l

\* What each loop adds up: the result is one of the three rows.
ColumnIs(x, y, z, out, car, h, i) ==
    x[i] + y[i] + car[i - 1] = z[i] + h * car[i] /\ out[i] < h

ColumnsOf(x, y, z, out, car, h, s, e, k) ==
    /\ Columns(x, y, z, car, h, s, e) /\ Based(out, h, s, e)
    /\ car[s - 1] = k /\ car[e] \in {0, 1}

LEMMA SumColumns ==
    ASSUME NEW h \in {10, 16}, NEW s \in 0 .. 15, NEW e \in s .. 15, NEW x \in Digits, NEW y \in Digits,
           NEW out \in Digits, NEW car \in Carries, Based(x, h, s, e), Based(y, h, s, e),
           Flow(out, car, s, 0, SumDigit(x, y, h), SumCarry(x, y, h))
    PROVE  ColumnsOf(x, y, out, out, car, h, s, e, 0)
<1> DEFINE V == SumDigit(x, y, h)
           F == SumCarry(x, y, h)
<1>1. F \in [Inputs -> {0, 1}]
  BY DEF SumCarry
<1> HIDE DEF V, F
<1>2. \A i \in s .. 15 : car[i - 1] \in {0, 1} /\ car[i] \in {0, 1}
  BY <1>1, Bits DEF V, F
<1>3. ASSUME NEW i \in s .. e
      PROVE  ColumnIs(x, y, out, out, car, h, i)
  <2> DEFINE k == car[i - 1]
             t == x[i] + y[i] + k
  <2>1. i \in s .. 15 /\ i \in 0 .. 15 /\ k \in {0, 1} /\ car[i] \in {0, 1}
    BY <1>2
  <2>2. out[i] = V[<<i, k>>] /\ car[i] = F[<<i, k>>]
    BY <2>1 DEF Flow, V, F
  <2>3. <<i, k>> \in Inputs
    BY <2>1 DEF Inputs, Carry
  <2> HIDE DEF k
  <2>4. /\ out[i] = IF t < h THEN t % 16 ELSE (t - h) % 16
        /\ car[i] = IF t < h THEN 0 ELSE 1
    BY <2>2, <2>3, SMT DEF V, F, SumDigit, SumCarry
  <2>5. x[i] \in 0 .. h - 1 /\ y[i] \in 0 .. h - 1
    BY <2>1 DEF Digits, Based
  <2>6. CASE h = 10
    BY <2>1, <2>4, <2>5, <2>6, SMT DEF ColumnIs, k
  <2>7. CASE h = 16
    BY <2>1, <2>4, <2>5, <2>7, SMT DEF ColumnIs, k
  <2> QED BY <2>6, <2>7
<1>4. car[s - 1] = 0 /\ car[e] \in {0, 1}
  BY <1>2 DEF Flow
<1> QED BY <1>3, <1>4 DEF ColumnsOf, Columns, ColumnIs, Based

LEMMA DifferenceColumns ==
    ASSUME NEW h \in {10, 16}, NEW s \in 0 .. 15, NEW e \in s .. 15, NEW x \in Digits, NEW y \in Digits,
           NEW out \in Digits, NEW car \in Carries, Based(x, h, s, e), Based(y, h, s, e),
           Flow(out, car, s, 0, DifferenceDigit(x, y, h), DifferenceCarry(x, y, h))
    PROVE  ColumnsOf(out, y, x, out, car, h, s, e, 0)
<1> DEFINE V == DifferenceDigit(x, y, h)
           F == DifferenceCarry(x, y, h)
<1>1. F \in [Inputs -> {0, 1}]
  BY DEF DifferenceCarry
<1> HIDE DEF V, F
<1>2. \A i \in s .. 15 : car[i - 1] \in {0, 1} /\ car[i] \in {0, 1}
  BY <1>1, Bits DEF V, F
<1>3. ASSUME NEW i \in s .. e
      PROVE  ColumnIs(out, y, x, out, car, h, i)
  <2> DEFINE k == car[i - 1]
             t == x[i] - y[i] - k
  <2>1. i \in s .. 15 /\ i \in 0 .. 15 /\ k \in {0, 1} /\ car[i] \in {0, 1}
    BY <1>2
  <2>2. out[i] = V[<<i, k>>] /\ car[i] = F[<<i, k>>]
    BY <2>1 DEF Flow, V, F
  <2>3. <<i, k>> \in Inputs
    BY <2>1 DEF Inputs, Carry
  <2> HIDE DEF k
  <2>4. /\ out[i] = IF t >= 0 THEN t % 16 ELSE (t + h) % 16
        /\ car[i] = IF t >= 0 THEN 0 ELSE 1
    BY <2>2, <2>3, SMT DEF V, F, DifferenceDigit, DifferenceCarry
  <2>5. x[i] \in 0 .. h - 1 /\ y[i] \in 0 .. h - 1
    BY <2>1 DEF Digits, Based
  <2>6. CASE h = 10
    BY <2>1, <2>4, <2>5, <2>6, SMT DEF ColumnIs, k
  <2>7. CASE h = 16
    BY <2>1, <2>4, <2>5, <2>7, SMT DEF ColumnIs, k
  <2> QED BY <2>6, <2>7
<1>4. car[s - 1] = 0 /\ car[e] \in {0, 1}
  BY <1>2 DEF Flow
<1> QED BY <1>3, <1>4 DEF ColumnsOf, Columns, ColumnIs, Based

LEMMA IncrementColumns ==
    ASSUME NEW h \in {10, 16}, NEW s \in 0 .. 15, NEW e \in s .. 15, NEW x \in Digits,
           NEW out \in Digits, NEW car \in Carries, Based(x, h, s, e),
           Flow(out, car, s, 1, IncDigit(x, h), IncCarry(x, h))
    PROVE  ColumnsOf(x, Same(0), out, out, car, h, s, e, 1)
<1> DEFINE V == IncDigit(x, h)
           F == IncCarry(x, h)
<1>1. F \in [Inputs -> {0, 1}]
  BY DEF IncCarry
<1> HIDE DEF V, F
<1>2. \A i \in s .. 15 : car[i - 1] \in {0, 1} /\ car[i] \in {0, 1}
  BY <1>1, Bits DEF V, F
<1>3. ASSUME NEW i \in s .. e
      PROVE  ColumnIs(x, Same(0), out, out, car, h, i)
  <2> DEFINE k == car[i - 1]
             t == x[i] + k
  <2>1. i \in s .. 15 /\ i \in 0 .. 15 /\ k \in {0, 1} /\ car[i] \in {0, 1}
    BY <1>2
  <2>2. out[i] = V[<<i, k>>] /\ car[i] = F[<<i, k>>]
    BY <2>1 DEF Flow, V, F
  <2>3. <<i, k>> \in Inputs
    BY <2>1 DEF Inputs, Carry
  <2> HIDE DEF k
  <2>4. /\ out[i] = IF k = 0 THEN x[i] ELSE IF t < h THEN t % 16 ELSE (t - h) % 16
        /\ car[i] = IF k = 0 \/ t < h THEN 0 ELSE 1
    BY <2>2, <2>3, SMT DEF V, F, IncDigit, IncCarry
  <2>5. x[i] \in 0 .. h - 1
    BY <2>1 DEF Digits, Based
  <2>6. CASE h = 10
    BY <2>1, <2>4, <2>5, <2>6, SMT DEF ColumnIs, k, Same
  <2>7. CASE h = 16
    BY <2>1, <2>4, <2>5, <2>7, SMT DEF ColumnIs, k, Same
  <2> QED BY <2>6, <2>7
<1>4. car[s - 1] = 1 /\ car[e] \in {0, 1}
  BY <1>2 DEF Flow
<1> QED BY <1>3, <1>4 DEF ColumnsOf, Columns, ColumnIs, Based

LEMMA DecrementColumns ==
    ASSUME NEW h \in {10, 16}, NEW s \in 0 .. 15, NEW e \in s .. 15, NEW x \in Digits,
           NEW out \in Digits, NEW car \in Carries, Based(x, h, s, e),
           Flow(out, car, s, 1, DecDigit(x, h), DecCarry(x, h))
    PROVE  ColumnsOf(out, Same(0), x, out, car, h, s, e, 1)
<1> DEFINE V == DecDigit(x, h)
           F == DecCarry(x, h)
<1>1. F \in [Inputs -> {0, 1}]
  BY DEF DecCarry
<1> HIDE DEF V, F
<1>2. \A i \in s .. 15 : car[i - 1] \in {0, 1} /\ car[i] \in {0, 1}
  BY <1>1, Bits DEF V, F
<1>3. ASSUME NEW i \in s .. e
      PROVE  ColumnIs(out, Same(0), x, out, car, h, i)
  <2> DEFINE k == car[i - 1]
             t == x[i] - k
  <2>1. i \in s .. 15 /\ i \in 0 .. 15 /\ k \in {0, 1} /\ car[i] \in {0, 1}
    BY <1>2
  <2>2. out[i] = V[<<i, k>>] /\ car[i] = F[<<i, k>>]
    BY <2>1 DEF Flow, V, F
  <2>3. <<i, k>> \in Inputs
    BY <2>1 DEF Inputs, Carry
  <2> HIDE DEF k
  <2>4. /\ out[i] = IF k = 0 THEN x[i] ELSE IF t >= 0 THEN t % 16 ELSE (t + h) % 16
        /\ car[i] = IF k = 0 \/ t >= 0 THEN 0 ELSE 1
    BY <2>2, <2>3, SMT DEF V, F, DecDigit, DecCarry
  <2>5. x[i] \in 0 .. h - 1
    BY <2>1 DEF Digits, Based
  <2>6. CASE h = 10
    BY <2>1, <2>4, <2>5, <2>6, SMT DEF ColumnIs, k, Same
  <2>7. CASE h = 16
    BY <2>1, <2>4, <2>5, <2>7, SMT DEF ColumnIs, k, Same
  <2> QED BY <2>6, <2>7
<1>4. car[s - 1] = 1 /\ car[e] \in {0, 1}
  BY <1>2 DEF Flow
<1> QED BY <1>3, <1>4 DEF ColumnsOf, Columns, ColumnIs, Based

LEMMA NegativeColumns ==
    ASSUME NEW h \in {10, 16}, NEW s \in 0 .. 15, NEW e \in s .. 15, NEW x \in Digits,
           NEW out \in Digits, NEW car \in Carries, Based(x, h, s, e),
           Flow(out, car, s, 1, NegativeDigit(x, h), NegativeCarry(x, h))
    PROVE  ColumnsOf(Complement(x, h, s, e), Same(0), out, out, car, h, s, e, 1)
<1> DEFINE V == NegativeDigit(x, h)
           F == NegativeCarry(x, h)
<1>1. F \in [Inputs -> {0, 1}]
  BY DEF NegativeCarry
<1> HIDE DEF V, F
<1>2. \A i \in s .. 15 : car[i - 1] \in {0, 1} /\ car[i] \in {0, 1}
  BY <1>1, Bits DEF V, F
<1>3. ASSUME NEW i \in s .. e
      PROVE  ColumnIs(Complement(x, h, s, e), Same(0), out, out, car, h, i)
  <2> DEFINE k == car[i - 1]
             t == h - 1 - x[i] + k
  <2>1. i \in s .. 15 /\ i \in 0 .. 15 /\ k \in {0, 1} /\ car[i] \in {0, 1}
    BY <1>2
  <2>2. out[i] = V[<<i, k>>] /\ car[i] = F[<<i, k>>]
    BY <2>1 DEF Flow, V, F
  <2>3. <<i, k>> \in Inputs
    BY <2>1 DEF Inputs, Carry
  <2> HIDE DEF k
  <2>4. /\ out[i] = IF t < h THEN t % 16 ELSE (t - h) % 16
        /\ car[i] = IF t < h THEN 0 ELSE 1
    BY <2>2, <2>3, SMT DEF V, F, NegativeDigit, NegativeCarry
  <2>5. x[i] \in 0 .. h - 1
    BY <2>1 DEF Digits, Based
  <2>6. CASE h = 10
    BY <2>1, <2>4, <2>5, <2>6, SMT DEF ColumnIs, k, Same, Complement
  <2>7. CASE h = 16
    BY <2>1, <2>4, <2>5, <2>7, SMT DEF ColumnIs, k, Same, Complement
  <2> QED BY <2>6, <2>7
<1>4. car[s - 1] = 1 /\ car[e] \in {0, 1}
  BY <1>2 DEF Flow
<1> QED BY <1>3, <1>4 DEF ColumnsOf, Columns, ColumnIs, Based

\* The number in a field does not depend on what is outside.
SameNumber(x, y, h, s, e) == Total(x, h, e)[s] = Total(y, h, e)[s]

LEMMA SameTotal ==
    ASSUME NEW h \in {10, 16}, NEW s \in 0 .. 15, NEW e \in s .. 15,
           NEW x \in Digits, NEW y \in Digits, \A i \in s .. e : x[i] = y[i]
    PROVE  SameNumber(x, y, h, s, e)
<1> DEFINE zero == Same(0)
<1>1. zero \in Digits /\ Least \in Carries
  BY DEF Digits, Same, Least, Carries, Carry
<1>2. Columns(x, zero, y, Least, h, s, e)
  <2>1. \A i \in s .. e : x[i] \in 0 .. 15 /\ i \in 0 .. 15
    BY DEF Digits
  <2> QED BY <2>1 DEF Columns, Same, Least
<1>3. e \in 0 .. 15 /\ s \in 0 .. 16 /\ Least[e] = 0 /\ Least[s - 1] = 0 /\ Least[e] \in {0, 1}
  BY DEF Least
<1> HIDE DEF zero
<1>4. AddsUp(x, zero, y, Least, h, s, e)
  BY <1>1, <1>2, <1>3, LongAddition
<1>5. Total(zero, h, e)[s] = 0
  BY ZeroesAndNines DEF zero
<1>6. Out(h, e + 1 - s, Least[e]) = 0
  BY <1>3 DEF Out
<1>7. Total(x, h, e)[s] \in Nat /\ Total(y, h, e)[s] \in Nat
  <2>1. TotalIs(Total(x, h, e), x, h, e) /\ TotalIs(Total(y, h, e), y, h, e)
    BY <1>3, Totals
  <2> QED BY <1>3, <2>1 DEF TotalIs
<1> QED BY <1>3, <1>4, <1>5, <1>6, <1>7 DEF AddsUp, SameNumber

\* What a loop leaves in its register.
Holds(m, r, s, e, out, car) ==
    /\ m.reg[r] \in Digits /\ m.CARRY = car[e]
    /\ \A i \in s .. e : m.reg[r][i] = out[i]

LEMMA RanResult ==
    ASSUME NEW Mem, NEW c \in Machine(Mem), NEW r \in RegisterName, NEW f \in Fields,
           NEW m, NEW k, NEW V, NEW F, Ran(m, c, r, f, k, V, F)
    PROVE  \E out \in Digits, car \in Carries :
              /\ Flow(out, car, get_start(c, f), k, V, F)
              /\ Holds(m, r, get_start(c, f), get_end(c, f), out, car)
<1> DEFINE s == get_start(c, f)
           e == get_end(c, f)
<1>1. s \in 0 .. 15 /\ e \in s .. 15
  BY FieldsOf, Zenon
<1> HIDE DEF s, e
<1>2. PICK out \in Digits, car \in Carries :
         Flow(out, car, s, k, V, F) /\ m = Written(c, r, s, e, out, car[e])
  BY Zenon DEF Ran, s, e
<1>3. WroteField(m, c, r, s, e, out, car[e])
  BY <1>1, <1>2, WrittenRegisters, Zenon
<1>4. m.CARRY = car[e] /\ \A i \in s .. e : m.reg[r][i] = out[i]
  BY <1>3, Zenon DEF WroteField
<1>5. m.reg[r] \in Digits
  <2>1. m.reg[r] = [j \in 0 .. 15 |-> m.reg[r][j]]
    BY <1>3, Zenon DEF WroteField
  <2>2. ASSUME NEW j \in 0 .. 15 PROVE m.reg[r][j] \in 0 .. 15
    <3>1. CASE j \in s .. e
      BY <1>4, <3>1 DEF Digits
    <3>2. CASE j \notin s .. e
      <4>1. m.reg[r][j] = c.reg[r][j]
        BY <1>3, <3>2, Zenon DEF WroteField
      <4> QED BY <4>1 DEF Machine
    <3> QED BY <3>1, <3>2
  <2> QED BY <2>1, <2>2 DEF Digits
<1> QED BY <1>2, <1>4, <1>5, Zenon DEF Holds, s, e

\* A register holds a number, modulo what the field can hold, and CARRY is set if it should.
IsNumber(m, r, h, s, e, number, carry) ==
    /\ Total(m.reg[r], h, e)[s] = number % Place(h, e + 1 - s)
    /\ m.CARRY = IF carry THEN 1 ELSE 0

IsSum(m, r, x, y, h, s, e, k) ==
    IsNumber(m, r, h, s, e, Total(x, h, e)[s] + Total(y, h, e)[s] + k,
             Total(x, h, e)[s] + Total(y, h, e)[s] + k >= Place(h, e + 1 - s))
IsDifference(m, r, x, y, h, s, e, k) ==
    IsNumber(m, r, h, s, e, Total(x, h, e)[s] - Total(y, h, e)[s] - k,
             Total(x, h, e)[s] - Total(y, h, e)[s] - k < 0)

\* Whatever carries the loop comes by, it has added x and y up, or taken y from x.
RunsInColumns(x, y, h, s, e, k, V, F) ==
    \A out \in Digits, car \in Carries :
        Flow(out, car, s, k, V, F) => ColumnsOf(x, y, out, out, car, h, s, e, k)
RunsInColumnsBack(x, y, h, s, e, k, V, F) ==
    \A out \in Digits, car \in Carries :
        Flow(out, car, s, k, V, F) => ColumnsOf(out, y, x, out, car, h, s, e, k)

LEMMA AddedUp ==
    ASSUME NEW Mem, NEW c \in Machine(Mem), NEW r \in RegisterName, NEW f \in Fields,
           NEW h \in {10, 16}, NEW x \in Digits, NEW y \in Digits, NEW k \in {0, 1},
           NEW m, NEW V, NEW F, Ran(m, c, r, f, k, V, F),
           RunsInColumns(x, y, h, get_start(c, f), get_end(c, f), k, V, F)
    PROVE  IsSum(m, r, x, y, h, get_start(c, f), get_end(c, f), k)
<1> DEFINE s == get_start(c, f)
           e == get_end(c, f)
<1>1. s \in 0 .. 15 /\ e \in s .. 15
  BY FieldsOf, Zenon
<1>2. PICK out \in Digits, car \in Carries :
              Flow(out, car, s, k, V, F) /\ Holds(m, r, s, e, out, car)
  BY RanResult, Zenon
<1> HIDE DEF s, e
<1>3. ColumnsOf(x, y, out, out, car, h, s, e, k)
  BY <1>2, Zenon DEF RunsInColumns, s, e
<1>4. /\ Columns(x, y, out, car, h, s, e) /\ Based(out, h, s, e)
      /\ car[s - 1] = k /\ car[e] \in {0, 1} /\ car[s - 1] \in {0, 1}
  BY <1>3 DEF ColumnsOf
<1> DEFINE sum == Total(x, h, e)[s] + Total(y, h, e)[s] + car[s - 1]
<1>5. Total(out, h, e)[s] = sum % Place(h, e + 1 - s) /\ (car[e] = 1 <=> sum >= Place(h, e + 1 - s))
  BY <1>1, <1>4, SumOfColumns DEF SumIs
<1>6. Total(m.reg[r], h, e)[s] = Total(out, h, e)[s]
  <2>1. SameNumber(m.reg[r], out, h, s, e)
    BY <1>1, <1>2, SameTotal DEF Holds
  <2> QED BY <2>1 DEF SameNumber
<1>7. sum = Total(x, h, e)[s] + Total(y, h, e)[s] + k
  BY <1>4
<1> HIDE DEF sum
<1> QED BY <1>2, <1>4, <1>5, <1>6, <1>7 DEF Holds, IsSum, IsNumber, s, e

LEMMA TakenAway ==
    ASSUME NEW Mem, NEW c \in Machine(Mem), NEW r \in RegisterName, NEW f \in Fields,
           NEW h \in {10, 16}, NEW x \in Digits, NEW y \in Digits, NEW k \in {0, 1},
           NEW m, NEW V, NEW F, Ran(m, c, r, f, k, V, F),
           RunsInColumnsBack(x, y, h, get_start(c, f), get_end(c, f), k, V, F)
    PROVE  IsDifference(m, r, x, y, h, get_start(c, f), get_end(c, f), k)
<1> DEFINE s == get_start(c, f)
           e == get_end(c, f)
<1>1. s \in 0 .. 15 /\ e \in s .. 15
  BY FieldsOf, Zenon
<1>2. PICK out \in Digits, car \in Carries :
              Flow(out, car, s, k, V, F) /\ Holds(m, r, s, e, out, car)
  BY RanResult, Zenon
<1> HIDE DEF s, e
<1>3. ColumnsOf(out, y, x, out, car, h, s, e, k)
  BY <1>2, Zenon DEF RunsInColumnsBack, s, e
<1>4. /\ Columns(out, y, x, car, h, s, e) /\ Based(out, h, s, e)
      /\ car[s - 1] = k /\ car[e] \in {0, 1} /\ car[s - 1] \in {0, 1}
  BY <1>3 DEF ColumnsOf
<1> DEFINE difference == Total(x, h, e)[s] - Total(y, h, e)[s] - car[s - 1]
<1>5. /\ Total(out, h, e)[s] = difference % Place(h, e + 1 - s)
      /\ car[e] = 1 <=> difference < 0
  BY <1>1, <1>4, DifferenceOfColumns DEF DifferenceIs
<1>6. Total(m.reg[r], h, e)[s] = Total(out, h, e)[s]
  <2>1. SameNumber(m.reg[r], out, h, s, e)
    BY <1>1, <1>2, SameTotal DEF Holds
  <2> QED BY <2>1 DEF SameNumber
<1>7. difference = Total(x, h, e)[s] - Total(y, h, e)[s] - k
  BY <1>4
<1> HIDE DEF difference
<1> QED BY <1>2, <1>4, <1>5, <1>6, <1>7 DEF Holds, IsDifference, IsNumber, s, e

\* The integer that a kind of arithmetic makes of a and b, if the field holds numbers below m;
\* and whether it sets CARRY.
Makes(kind, a, b, m) ==
    CASE kind = "add"  -> a + b
      [] kind = "inc"  -> a + 1
      [] kind = "sub"  -> a - b
      [] kind = "rsub" -> b - a
      [] kind = "dec"  -> a - 1
      [] kind = "neg"  -> 0 - a
      [] kind = "not"  -> m - 1 - a
Carrying(kind, a, b, m) ==
    CASE kind = "add"  -> a + b >= m
      [] kind = "inc"  -> a + 1 >= m
      [] kind = "sub"  -> a < b
      [] kind = "rsub" -> b < a
      [] kind = "dec"  -> a < 1
      [] kind = "neg"  -> a # 0
      [] kind = "not"  -> FALSE

\* So it was done, in the field s .. e of the register r, with the numbers in x and y.
Calculated(n, kind, r, x, y, h, s, e) ==
    LET m == Place(h, e + 1 - s)
        a == Total(x, h, e)[s]
        b == Total(y, h, e)[s]
    IN  IsNumber(n, r, h, s, e, Makes(kind, a, b, m), Carrying(kind, a, b, m))

LEMMA SumsAndDifferences ==
    ASSUME NEW n, NEW r, NEW x \in Digits, NEW y \in Digits, NEW h \in {10, 16},
           NEW s \in 0 .. 15, NEW e \in s .. 15
    PROVE  /\ IsSum(n, r, x, y, h, s, e, 0) => Calculated(n, "add", r, x, y, h, s, e)
           /\ IsSum(n, r, x, Same(0), h, s, e, 1) => Calculated(n, "inc", r, x, y, h, s, e)
           /\ IsDifference(n, r, x, y, h, s, e, 0) => Calculated(n, "sub", r, x, y, h, s, e)
           /\ IsDifference(n, r, y, x, h, s, e, 0) => Calculated(n, "rsub", r, x, y, h, s, e)
           /\ IsDifference(n, r, x, Same(0), h, s, e, 1) => Calculated(n, "dec", r, x, y, h, s, e)
<1> DEFINE m == Place(h, e + 1 - s)
           a == Total(x, h, e)[s]
           b == Total(y, h, e)[s]
           z == Total(Same(0), h, e)[s]
           Is(number, carry) == IsNumber(n, r, h, s, e, number, carry)
<1>1. a \in Nat /\ b \in Nat
  <2>1. e \in 0 .. 15 /\ s \in 0 .. 16
    OBVIOUS
  <2>2. TotalIs(Total(x, h, e), x, h, e) /\ TotalIs(Total(y, h, e), y, h, e)
    BY <2>1, Totals
  <2> QED BY <2>1, <2>2 DEF TotalIs
<1>2. z = 0
  BY ZeroesAndNines
<1>3. /\ IsSum(n, r, x, y, h, s, e, 0) <=> Is(a + b + 0, a + b + 0 >= m)
      /\ IsSum(n, r, x, Same(0), h, s, e, 1) <=> Is(a + z + 1, a + z + 1 >= m)
      /\ IsDifference(n, r, x, y, h, s, e, 0) <=> Is(a - b - 0, a - b - 0 < 0)
      /\ IsDifference(n, r, y, x, h, s, e, 0) <=> Is(b - a - 0, b - a - 0 < 0)
      /\ IsDifference(n, r, x, Same(0), h, s, e, 1) <=> Is(a - z - 1, a - z - 1 < 0)
  BY Zenon DEF IsSum, IsDifference
<1>4. \A kind : Calculated(n, kind, r, x, y, h, s, e) <=> Is(Makes(kind, a, b, m), Carrying(kind, a, b, m))
  BY Zenon DEF Calculated
<1>5. m \in Nat
  <2>1. e + 1 - s \in 0 .. 16
    OBVIOUS
  <2> QED BY <2>1, Powers
<1> HIDE DEF m, a, b, z
<1>6. ASSUME NEW u, NEW v, NEW p \in BOOLEAN, NEW q \in BOOLEAN, u = v, p <=> q, Is(u, p) PROVE Is(v, q)
  BY <1>6 DEF IsNumber
<1> HIDE DEF Is
<1>7. IsSum(n, r, x, y, h, s, e, 0) => Calculated(n, "add", r, x, y, h, s, e)
  <2>1. /\ a + b + 0 = Makes("add", a, b, m)
        /\ (a + b + 0 >= m) \in BOOLEAN /\ Carrying("add", a, b, m) \in BOOLEAN
        /\ a + b + 0 >= m <=> Carrying("add", a, b, m)
    BY <1>1, <1>5, SMT DEF Makes, Carrying
  <2> QED BY <1>3, <1>4, <1>6, <2>1, Zenon
<1>8. IsSum(n, r, x, Same(0), h, s, e, 1) => Calculated(n, "inc", r, x, y, h, s, e)
  <2>1. /\ a + z + 1 = Makes("inc", a, b, m)
        /\ (a + z + 1 >= m) \in BOOLEAN /\ Carrying("inc", a, b, m) \in BOOLEAN
        /\ a + z + 1 >= m <=> Carrying("inc", a, b, m)
    BY <1>1, <1>2, <1>5, SMT DEF Makes, Carrying
  <2> QED BY <1>3, <1>4, <1>6, <2>1, Zenon
<1>9. IsDifference(n, r, x, y, h, s, e, 0) => Calculated(n, "sub", r, x, y, h, s, e)
  <2>1. /\ a - b - 0 = Makes("sub", a, b, m)
        /\ (a - b - 0 < 0) \in BOOLEAN /\ Carrying("sub", a, b, m) \in BOOLEAN
        /\ a - b - 0 < 0 <=> Carrying("sub", a, b, m)
    BY <1>1, <1>5, SMT DEF Makes, Carrying
  <2> QED BY <1>3, <1>4, <1>6, <2>1, Zenon
<1>10. IsDifference(n, r, y, x, h, s, e, 0) => Calculated(n, "rsub", r, x, y, h, s, e)
  <2>1. /\ b - a - 0 = Makes("rsub", a, b, m)
        /\ (b - a - 0 < 0) \in BOOLEAN /\ Carrying("rsub", a, b, m) \in BOOLEAN
        /\ b - a - 0 < 0 <=> Carrying("rsub", a, b, m)
    BY <1>1, <1>5, SMT DEF Makes, Carrying
  <2> QED BY <1>3, <1>4, <1>6, <2>1, Zenon
<1>11. IsDifference(n, r, x, Same(0), h, s, e, 1) => Calculated(n, "dec", r, x, y, h, s, e)
  <2>1. /\ a - z - 1 = Makes("dec", a, b, m)
        /\ (a - z - 1 < 0) \in BOOLEAN /\ Carrying("dec", a, b, m) \in BOOLEAN
        /\ a - z - 1 < 0 <=> Carrying("dec", a, b, m)
    BY <1>1, <1>2, <1>5, SMT DEF Makes, Carrying
  <2> QED BY <1>3, <1>4, <1>6, <2>1, Zenon
<1> QED BY <1>7, <1>8, <1>9, <1>10, <1>11

LEMMA CalculatingBinary ==
    ASSUME NEW c \in Processor, NEW r \in RegisterName, NEW q \in RegisterName, NEW f \in Fields,
           Based(c.reg[r], c.hexmode, get_start(c, f), get_end(c, f)),
           Based(c.reg[q], c.hexmode, get_start(c, f), get_end(c, f))
    PROVE  /\ Calculated(add_register(c, r, r, q, f), "add", r, c.reg[r], c.reg[q], c.hexmode,
                         get_start(c, f), get_end(c, f))
           /\ Calculated(sub_register(c, r, r, q, f), "sub", r, c.reg[r], c.reg[q], c.hexmode,
                         get_start(c, f), get_end(c, f))
           /\ Calculated(sub_register(c, r, q, r, f), "rsub", r, c.reg[r], c.reg[q], c.hexmode,
                         get_start(c, f), get_end(c, f))
<1> DEFINE x == c.reg[r]
           y == c.reg[q]
           h == c.hexmode
           s == get_start(c, f)
           e == get_end(c, f)
<1>1. c \in Machine({<<>>})
  BY ProcessorIsMachine
<1>2. s \in 0 .. 15 /\ e \in s .. 15
  BY <1>1, FieldsOf, Zenon
<1>3. x \in Digits /\ y \in Digits /\ h \in {10, 16}
  BY <1>1 DEF Digits, Machine
<1>4. /\ Ran(add_register(c, r, r, q, f), c, r, f, 0, SumDigit(x, y, h), SumCarry(x, y, h))
      /\ Ran(sub_register(c, r, r, q, f), c, r, f, 0, DifferenceDigit(x, y, h), DifferenceCarry(x, y, h))
      /\ Ran(sub_register(c, r, q, r, f), c, r, f, 0, DifferenceDigit(y, x, h), DifferenceCarry(y, x, h))
  BY <1>1, Adding, Subtracting, Zenon
<1>5. Based(x, h, s, e) /\ Based(y, h, s, e) /\ 0 \in {0, 1}
  OBVIOUS
<1> HIDE DEF x, y, h, s, e
<1>6. /\ RunsInColumns(x, y, h, s, e, 0, SumDigit(x, y, h), SumCarry(x, y, h))
      /\ RunsInColumnsBack(x, y, h, s, e, 0, DifferenceDigit(x, y, h), DifferenceCarry(x, y, h))
      /\ RunsInColumnsBack(y, x, h, s, e, 0, DifferenceDigit(y, x, h), DifferenceCarry(y, x, h))
  BY <1>2, <1>3, <1>5, SumColumns, DifferenceColumns, Zenon DEF RunsInColumns, RunsInColumnsBack
<1>7. IsSum(add_register(c, r, r, q, f), r, x, y, h, s, e, 0)
  BY <1>1, <1>3, <1>4, <1>5, <1>6, AddedUp, Zenon DEF s, e
<1>8. IsDifference(sub_register(c, r, r, q, f), r, x, y, h, s, e, 0)
  BY <1>1, <1>3, <1>4, <1>5, <1>6, TakenAway, Zenon DEF s, e
<1>9. IsDifference(sub_register(c, r, q, r, f), r, y, x, h, s, e, 0)
  BY <1>1, <1>3, <1>4, <1>5, <1>6, TakenAway, Zenon DEF s, e
<1>10. /\ Calculated(add_register(c, r, r, q, f), "add", r, x, y, h, s, e)
       /\ Calculated(sub_register(c, r, r, q, f), "sub", r, x, y, h, s, e)
       /\ Calculated(sub_register(c, r, q, r, f), "rsub", r, x, y, h, s, e)
  BY <1>2, <1>3, <1>5, <1>7, <1>8, <1>9, SumsAndDifferences, Zenon
<1> QED BY <1>10 DEF x, y, h, s, e

LEMMA CalculatingUnary ==
    ASSUME NEW c \in Processor, NEW r \in RegisterName, NEW f \in Fields,
           Based(c.reg[r], c.hexmode, get_start(c, f), get_end(c, f)), NEW y \in Digits
    PROVE  /\ Calculated(inc_register(c, r, f), "inc", r, c.reg[r], y, c.hexmode,
                         get_start(c, f), get_end(c, f))
           /\ Calculated(dec_register(c, r, f), "dec", r, c.reg[r], y, c.hexmode,
                         get_start(c, f), get_end(c, f))
<1> DEFINE x == c.reg[r]
           h == c.hexmode
           s == get_start(c, f)
           e == get_end(c, f)
           zero == Same(0)
<1>1. c \in Machine({<<>>})
  BY ProcessorIsMachine
<1>2. s \in 0 .. 15 /\ e \in s .. 15
  BY <1>1, FieldsOf, Zenon
<1>3. x \in Digits /\ h \in {10, 16} /\ zero \in Digits
  BY <1>1 DEF Digits, Machine, Same
<1>4. /\ Ran(inc_register(c, r, f), c, r, f, 1, IncDigit(x, h), IncCarry(x, h))
      /\ Ran(dec_register(c, r, f), c, r, f, 1, DecDigit(x, h), DecCarry(x, h))
  BY <1>1, Incrementing, Decrementing, Zenon
<1>5. Based(x, h, s, e) /\ 1 \in {0, 1}
  OBVIOUS
<1> HIDE DEF x, h, s, e
<1>6. /\ RunsInColumns(x, zero, h, s, e, 1, IncDigit(x, h), IncCarry(x, h))
      /\ RunsInColumnsBack(x, zero, h, s, e, 1, DecDigit(x, h), DecCarry(x, h))
  BY <1>2, <1>3, <1>5, IncrementColumns, DecrementColumns, Zenon DEF RunsInColumns, RunsInColumnsBack
<1> HIDE DEF zero
<1>7. IsSum(inc_register(c, r, f), r, x, zero, h, s, e, 1)
  BY <1>1, <1>3, <1>4, <1>5, <1>6, AddedUp, Zenon DEF s, e
<1>8. IsDifference(dec_register(c, r, f), r, x, zero, h, s, e, 1)
  BY <1>1, <1>3, <1>4, <1>5, <1>6, TakenAway, Zenon DEF s, e
<1>9. /\ Calculated(inc_register(c, r, f), "inc", r, x, y, h, s, e)
      /\ Calculated(dec_register(c, r, f), "dec", r, x, y, h, s, e)
  BY <1>2, <1>3, <1>5, <1>7, <1>8, SumsAndDifferences, Zenon DEF zero
<1> QED BY <1>9 DEF x, h, s, e

\* A register, but for CARRY.
LEMMA CalculatingNegative ==
    ASSUME NEW c \in Processor, NEW r \in RegisterName, NEW f \in Fields,
           Based(c.reg[r], c.hexmode, get_start(c, f), get_end(c, f)), NEW y \in Digits
    PROVE  Calculated(complement_2_register(c, r, f), "neg", r, c.reg[r], y, c.hexmode,
                      get_start(c, f), get_end(c, f))
<1> DEFINE x == c.reg[r]
           h == c.hexmode
           s == get_start(c, f)
           e == get_end(c, f)
           zero == Same(0)
           n == Complement(x, h, s, e)
           w == complement_2_register(c, r, f)
<1>1. c \in Machine({<<>>})
  BY ProcessorIsMachine
<1>2. s \in 0 .. 15 /\ e \in s .. 15
  BY <1>1, FieldsOf, Zenon
<1>3. x \in Digits /\ h \in {10, 16} /\ zero \in Digits
  BY <1>1 DEF Digits, Machine, Same
<1>4. PICK v : /\ Ran(v, c, r, f, 1, NegativeDigit(x, h), NegativeCarry(x, h))
               /\ w = [v EXCEPT !.CARRY = IF \E i \in s .. e : v.reg[r][i] # 0 THEN 1 ELSE 0]
  BY <1>1, Negating
<1>5. Based(x, h, s, e) /\ 1 \in {0, 1}
  OBVIOUS
<1> HIDE DEF x, h, s, e, zero, n, w
<1>6. RunsInColumns(n, zero, h, s, e, 1, NegativeDigit(x, h), NegativeCarry(x, h))
  BY <1>2, <1>3, <1>5, NegativeColumns, Zenon DEF RunsInColumns, n, zero
<1> DEFINE m == Place(h, e + 1 - s)
           a == Total(x, h, e)[s]
           d == Total(n, h, e)[s]
           g == Total(v.reg[r], h, e)[s]
<1>7. n \in Digits /\ a \in Nat /\ d \in Nat /\ m \in Nat \ {0} /\ a + d = m - 1
  BY <1>2, <1>3, <1>5, Complements, ZenonT(40) DEF n
<1>8. IsSum(v, r, n, zero, h, s, e, 1)
  BY <1>1, <1>3, <1>4, <1>5, <1>6, <1>7, AddedUp, Zenon DEF s, e
<1>9. Total(zero, h, e)[s] = 0
  BY <1>2, <1>3, <1>5, ZeroesAndNines DEF zero
<1>10. g = (d + 0 + 1) % m
  BY <1>8, <1>9 DEF IsSum, IsNumber
<1>11. "reg" \in DOMAIN v /\ "CARRY" \in DOMAIN v
  <2>1. PICK out \in Digits, car \in Carries : v = Written(c, r, s, e, out, car[e])
    BY <1>4 DEF Ran, s, e
  <2> QED BY <1>1, <2>1 DEF Written, Machine
<1>12. v.reg[r] \in Digits
  <2>1. PICK out \in Digits, car \in Carries : Holds(v, r, s, e, out, car)
    BY <1>1, <1>4, RanResult, Zenon DEF s, e
  <2> QED BY <2>1 DEF Holds
<1>13. g # 0 <=> \E i \in s .. e : v.reg[r][i] # 0
  <2>1. ZeroIsZeroes(v.reg[r], h, s, e)
    BY <1>2, <1>3, <1>12, AllZero, Zenon
  <2> QED BY <2>1, Zenon DEF ZeroIsZeroes
<1>14. w.reg = v.reg /\ w.CARRY = IF g # 0 THEN 1 ELSE 0
  BY <1>4, <1>11, <1>13
<1> HIDE DEF m, a, d, g
<1>15. g = (0 - a) % m /\ (g # 0 <=> a # 0)
  <2>1. CASE a = 0
    <3>1. d + 0 + 1 = 0 + m /\ 0 \in 0 .. m - 1
      BY <1>7, <2>1
    <3>2. (0 + m) % m = 0 /\ 0 % m = 0
      BY <1>7, <3>1, Modulo
    <3> QED BY <1>10, <2>1, <3>1, <3>2
  <2>2. CASE a # 0
    <3>1. m - a \in 0 .. m - 1 /\ d + 0 + 1 = m - a /\ 0 - a = (m - a) - m
      BY <1>7, <2>2
    <3>2. (m - a) % m = m - a /\ ((m - a) - m) % m = m - a
      BY <1>7, <3>1, Modulo
    <3> QED BY <1>7, <1>10, <2>2, <3>1, <3>2
  <2> QED BY <2>1, <2>2
<1>16. Total(w.reg[r], h, e)[s] = (0 - a) % m /\ w.CARRY = IF a # 0 THEN 1 ELSE 0
  BY <1>14, <1>15 DEF g
<1>17. IsNumber(w, r, h, s, e, 0 - a, a # 0)
  BY <1>16, Zenon DEF IsNumber, m
<1>18. \A b : Makes("neg", a, b, m) = 0 - a /\ Carrying("neg", a, b, m) = (a # 0)
  BY SMT DEF Makes, Carrying
<1>19. Calculated(w, "neg", r, x, y, h, s, e)
  BY <1>17, <1>18, Zenon DEF Calculated, a, m
<1> QED BY <1>19 DEF x, h, s, e, w

\* Both ways round, the complement of each nibble.
LEMMA CalculatingNot ==
    ASSUME NEW c \in Processor, NEW r \in RegisterName, NEW f \in Fields,
           Based(c.reg[r], c.hexmode, get_start(c, f), get_end(c, f)), NEW y \in Digits
    PROVE  Calculated(complement_1_register(c, r, f), "not", r, c.reg[r], y, c.hexmode,
                      get_start(c, f), get_end(c, f))
<1> DEFINE x == c.reg[r]
           h == c.hexmode
           s == get_start(c, f)
           e == get_end(c, f)
           n == Complement(x, h, s, e)
           w == complement_1_register(c, r, f)
<1>1. c \in Machine({<<>>})
  BY ProcessorIsMachine
<1>2. s \in 0 .. 15 /\ e \in s .. 15
  BY <1>1, FieldsOf, Zenon
<1>3. x \in Digits /\ h \in {10, 16}
  BY <1>1 DEF Digits, Machine
<1>4. PICK v : /\ Ran(v, c, r, f, c.CARRY, NotDigit(x, h), Keep)
               /\ w = [v EXCEPT !.CARRY = 0]
  BY <1>1, Inverting
<1>5. Based(x, h, s, e)
  OBVIOUS
<1> HIDE DEF x, h, s, e, n, w
<1> DEFINE m == Place(h, e + 1 - s)
           a == Total(x, h, e)[s]
           d == Total(n, h, e)[s]
<1>6. n \in Digits /\ a \in Nat /\ d \in Nat /\ m \in Nat \ {0} /\ a + d = m - 1
  BY <1>2, <1>3, <1>5, Complements, ZenonT(40) DEF n
<1>7. PICK out \in Digits, car \in Carries :
         Flow(out, car, s, c.CARRY, NotDigit(x, h), Keep) /\ Holds(v, r, s, e, out, car)
  BY <1>1, <1>4, RanResult, Zenon DEF s, e
<1>8. ASSUME NEW i \in s .. e PROVE v.reg[r][i] = n[i]
  <2>1. i \in s .. 15 /\ i \in 0 .. 15 /\ car[i - 1] \in Carry
    BY <1>2, <1>7 DEF Carries
  <2>2. out[i] = NotDigit(x, h)[<<i, car[i - 1]>>] /\ v.reg[r][i] = out[i]
    BY <1>7, <2>1 DEF Flow, Holds
  <2>3. <<i, car[i - 1]>> \in Inputs
    BY <2>1 DEF Inputs
  <2>4. out[i] = (h - 1 - x[i]) % 16
    BY <2>2, <2>3, SMT DEF NotDigit
  <2>5. x[i] \in 0 .. 15 /\ x[i] < h
    BY <1>3, <1>5, <2>1 DEF Digits, Based
  <2>6. (h - 1 - x[i]) % 16 = h - 1 - x[i]
    BY <1>3, <2>5, SMT
  <2> QED BY <2>1, <2>2, <2>4, <2>6 DEF n, Complement
<1>9. v.reg[r] \in Digits
  BY <1>7 DEF Holds
<1>10. Total(v.reg[r], h, e)[s] = d
  <2>1. SameNumber(v.reg[r], n, h, s, e)
    BY <1>2, <1>3, <1>5, <1>6, <1>8, <1>9, SameTotal
  <2> QED BY <2>1, Zenon DEF SameNumber
<1>11. "reg" \in DOMAIN v /\ "CARRY" \in DOMAIN v
  <2>1. PICK o \in Digits, b \in Carries : v = Written(c, r, s, e, o, b[e])
    BY <1>4 DEF Ran, s, e
  <2> QED BY <1>1, <2>1 DEF Written, Machine
<1>12. w.reg = v.reg /\ w.CARRY = 0
  BY <1>4, <1>11
<1>13. d = (m - 1 - a) % m
  <2> HIDE DEF m, a, d
  <2>1. d = m - 1 - a /\ d \in 0 .. m - 1
    BY <1>6
  <2> QED BY <1>6, <2>1, Modulo
<1>14. Total(w.reg[r], h, e)[s] = (m - 1 - a) % m /\ w.CARRY = IF FALSE THEN 1 ELSE 0
  BY <1>10, <1>12, <1>13, Zenon
<1>15. IsNumber(w, r, h, s, e, m - 1 - a, FALSE)
  BY <1>14, Zenon DEF IsNumber
<1> HIDE DEF m, a, d
<1>16. \A b : Makes("not", a, b, m) = m - 1 - a /\ Carrying("not", a, b, m) = FALSE
  BY SMT DEF Makes, Carrying
<1>17. Calculated(w, "not", r, x, y, h, s, e)
  BY <1>15, <1>16, Zenon DEF Calculated, a, m
<1> QED BY <1>17 DEF x, h, s, e, w

\* The nibbles s .. e, and the numbers in them.
InField(s, e) ==
    /\ Max(Places) = e /\ Min(Places) = s /\ Cardinality(Places) = e + 1 - s
    /\ \A x, h : Value(x, h) = Total(x, h, e)[s]

LEMMA NumberInField ==
    ASSUME NEW s \in 0 .. 15, NEW e \in s .. 15, Places = s .. e
    PROVE  InField(s, e)
<1>1. Max(Places) = e /\ Min(Places) = s
  <2>1. /\ e \in s .. e /\ \A y \in s .. e : e >= y
        /\ \A m \in s .. e : (\A y \in s .. e : m >= y) => m = e
    OBVIOUS
  <2>2. /\ s \in s .. e /\ \A y \in s .. e : s <= y
        /\ \A m \in s .. e : (\A y \in s .. e : m <= y) => m = s
    OBVIOUS
  <2> DEFINE S == s .. e
  <2>3. Max(S) = e
    <3> HIDE DEF S
    <3>1. \A m \in S : (\A y \in S : m >= y) => m = e
      BY <2>1 DEF S
    <3>2. e \in S /\ \A y \in S : e >= y
      BY <2>1 DEF S
    <3> QED BY <3>1, <3>2, Zenon DEF Max
  <2>4. Min(S) = s
    <3> HIDE DEF S
    <3>1. \A m \in S : (\A y \in S : m <= y) => m = s
      BY <2>2 DEF S
    <3>2. s \in S /\ \A y \in S : s <= y
      BY <2>2 DEF S
    <3> QED BY <3>1, <3>2, Zenon DEF Min
  <2> QED BY <2>3, <2>4
<1>2. Cardinality(Places) = e + 1 - s
  <2>1. s \in Int /\ e \in Int /\ ~(s > e) /\ e - s + 1 = e + 1 - s
    OBVIOUS
  <2>2. Cardinality(s .. e) = IF s > e THEN 0 ELSE e - s + 1
    BY <2>1, FS_Interval
  <2> QED BY <2>1, <2>2
<1>3. \A x, h : Value(x, h) = Total(x, h, Max(Places))[Min(Places)]
  BY Zenon DEF Value, Total
<1> QED BY <1>1, <1>2, <1>3, Zenon DEF InField

\* The operations that calculate a number.
Numeric == {"add", "sub", "rsub", "inc", "dec", "neg", "not"}

LEMMA Calculating ==
    ASSUME NEW c \in Processor, NEW o, Sound(o), o.kind \in Numeric,
           Based(c.reg[o.to], c.hexmode, get_start(c, o.field), get_end(c, o.field)),
           NEW y \in Digits, o.from # None => y = c.reg[o.from],
           Based(y, c.hexmode, get_start(c, o.field), get_end(c, o.field))
    PROVE  Calculated(calculate(c, o), o.kind, o.to, c.reg[o.to], y, c.hexmode,
                      get_start(c, o.field), get_end(c, o.field))
<1>1. o.to \in RegisterName /\ o.field \in Fields
  BY WorkingRegisters, SMT DEF Sound, Binary, Unary, Numeric, FieldCode, Fields
<1>2. CASE o.kind \in {"add", "sub", "rsub"}
  <2>1. o.from \in RegisterName /\ o.from # None
    BY <1>2, WorkingRegisters, SMT DEF Sound, Binary, Working, None
  <2>2. /\ o.kind = "add" => calculate(c, o) = add_register(c, o.to, o.to, o.from, o.field)
        /\ o.kind = "sub" => calculate(c, o) = sub_register(c, o.to, o.to, o.from, o.field)
        /\ o.kind = "rsub" => calculate(c, o) = sub_register(c, o.to, o.from, o.to, o.field)
    BY SMT DEF calculate
  <2>3. y = c.reg[o.from]
    BY <2>1
  <2>4. /\ Calculated(add_register(c, o.to, o.to, o.from, o.field), "add", o.to, c.reg[o.to], y,
                      c.hexmode, get_start(c, o.field), get_end(c, o.field))
        /\ Calculated(sub_register(c, o.to, o.to, o.from, o.field), "sub", o.to, c.reg[o.to], y,
                      c.hexmode, get_start(c, o.field), get_end(c, o.field))
        /\ Calculated(sub_register(c, o.to, o.from, o.to, o.field), "rsub", o.to, c.reg[o.to], y,
                      c.hexmode, get_start(c, o.field), get_end(c, o.field))
    BY <1>1, <2>1, <2>3, CalculatingBinary
  <2> QED BY <1>2, <2>2, <2>4
<1>3. CASE o.kind \in {"inc", "dec", "neg", "not"}
  <2>1. /\ o.kind = "inc" => calculate(c, o) = inc_register(c, o.to, o.field)
        /\ o.kind = "dec" => calculate(c, o) = dec_register(c, o.to, o.field)
        /\ o.kind = "neg" => calculate(c, o) = complement_2_register(c, o.to, o.field)
        /\ o.kind = "not" => calculate(c, o) = complement_1_register(c, o.to, o.field)
    BY SMT DEF calculate
  <2>2. /\ Calculated(inc_register(c, o.to, o.field), "inc", o.to, c.reg[o.to], y,
                      c.hexmode, get_start(c, o.field), get_end(c, o.field))
        /\ Calculated(dec_register(c, o.to, o.field), "dec", o.to, c.reg[o.to], y,
                      c.hexmode, get_start(c, o.field), get_end(c, o.field))
    BY <1>1, CalculatingUnary
  <2>3. /\ Calculated(complement_2_register(c, o.to, o.field), "neg", o.to, c.reg[o.to], y,
                      c.hexmode, get_start(c, o.field), get_end(c, o.field))
    BY <1>1, CalculatingNegative
  <2>4. /\ Calculated(complement_1_register(c, o.to, o.field), "not", o.to, c.reg[o.to], y,
                      c.hexmode, get_start(c, o.field), get_end(c, o.field))
    BY <1>1, CalculatingNot
  <2> QED BY <1>3, <2>1, <2>2, <2>3, <2>4
<1> QED BY <1>2, <1>3 DEF Numeric

\* The field of an operation, and the digits in it.
OperationField ==
    /\ Operation.field \in Fields /\ Operation.to \in RegisterName
    /\ get_start(was, Operation.field) \in 0 .. 15
    /\ get_end(was, Operation.field) \in get_start(was, Operation.field) .. 15
    /\ Places = get_start(was, Operation.field) .. get_end(was, Operation.field)
    /\ InField(get_start(was, Operation.field), get_end(was, Operation.field))

LEMMA FieldOfOperation ==
    ASSUME Performed, done, Operation.kind \in Binary \cup Unary
    PROVE  OperationField
<1> DEFINE o == Operation
           s == get_start(was, o.field)
           e == get_end(was, o.field)
<1>1. was \in Processor /\ Sound(o)
  BY WhatWasPerformed
<1>2. o.to \in RegisterName /\ o.field \in Fields
  <2> HIDE DEF o
  <2>0. o.kind \in Binary \cup Unary
    BY DEF o
  <2> QED BY <1>1, <2>0, WorkingRegisters, SMT DEF Sound, FieldCode, Fields
<1>3. was \in Machine({<<>>})
  BY <1>1, ProcessorIsMachine
<1>4. s \in 0 .. 15 /\ e \in s .. 15 /\ FieldNibbles(o.field, was.P) = s .. e
  BY <1>2, <1>3, FieldsOf, Zenon
<1>5. Places = s .. e
  BY <1>4, Zenon DEF Places
<1> HIDE DEF s, e
<1>6. InField(s, e)
  BY <1>4, <1>5, NumberInField
<1> QED BY <1>2, <1>4, <1>5, <1>6, Zenon DEF OperationField, s, e

LEMMA DigitsOfOperation ==
    ASSUME Performed, done, Operation.kind \in Binary \cup Unary, Numbers
    PROVE  /\ Based(To(was), was.hexmode, get_start(was, Operation.field),
                    get_end(was, Operation.field))
           /\ Operation.from # None =>
                 Based(From(was), was.hexmode, get_start(was, Operation.field),
                       get_end(was, Operation.field))
<1> DEFINE o == Operation
           s == get_start(was, o.field)
           e == get_end(was, o.field)
<1>1. was \in Processor /\ Sound(o)
  BY WhatWasPerformed
<1>2. s \in 0 .. 15 /\ e \in s .. 15 /\ Places = s .. e /\ o.to \in RegisterName
  BY FieldOfOperation, Zenon DEF OperationField
<1>3. o.from # None => o.from \in RegisterName
  <2> HIDE DEF o
  <2>0. o.kind \in Binary \cup Unary
    BY DEF o
  <2> QED BY <1>1, <2>0, WorkingRegisters, SMT DEF Sound
<1>4. \A r \in RegisterName, i \in 0 .. 15 : was.reg[r][i] \in 0 .. 15
  BY <1>1 DEF Processor, Nibble
<1> HIDE DEF s, e
<1>5. ASSUME NEW r \in RegisterName, was.hexmode = 16 \/ IsDecimal(was.reg[r])
      PROVE  Based(was.reg[r], was.hexmode, s, e)
  <2>1. was.hexmode \in {10, 16}
    BY <1>1 DEF Processor
  <2>2. CASE was.hexmode = 16
    <3>1. \A i \in s .. e : i \in 0 .. 15
      BY <1>2
    <3> QED BY <1>4, <2>2, <3>1 DEF Based
  <2>3. CASE was.hexmode = 10
    BY <1>2, <1>5, <2>3 DEF IsDecimal, Based
  <2> QED BY <2>1, <2>2, <2>3
<1>6. Based(To(was), was.hexmode, s, e)
  <2>1. was.hexmode = 16 \/ IsDecimal(To(was))
    BY Zenon DEF Numbers
  <2> QED BY <1>2, <1>5, <2>1, Zenon DEF To
<1>7. o.from # None => Based(From(was), was.hexmode, s, e)
  <2>1. was.hexmode = 16 \/ o.from = None \/ IsDecimal(From(was))
    BY Zenon DEF Numbers
  <2> QED BY <1>3, <1>5, <2>1, Zenon DEF From
<1> QED BY <1>6, <1>7, Zenon DEF s, e

LEMMA IntegersAreCalculated == Performed => ArithmeticIsInteger
<1> DEFINE o == Operation
           h == was.hexmode
           s == get_start(was, o.field)
           e == get_end(was, o.field)
           x == To(was)
           m == Value(Same(h - 1), h) + 1
           a == Value(x, h)
           b == IF o.from = None THEN 1 ELSE Value(From(was), h)
           Is(number, carry) ==
              Value(To(cpu), h) = number % m /\ cpu.CARRY = (IF carry THEN 1 ELSE 0)
<1> SUFFICES ASSUME Performed, Ended(Numeric), Numbers
             PROVE  CASE o.kind \in {"add", "inc"} -> Is(a + b, a + b >= m)
                      [] o.kind \in {"sub", "dec"} -> Is(a - b, a < b)
                      [] o.kind = "rsub"           -> Is(b - a, b < a)
                      [] o.kind = "neg"            -> Is(0 - a, a # 0)
                      [] o.kind = "not"            -> Is(m - 1 - a, FALSE)
  BY Zenon DEF ArithmeticIsInteger, Numeric, Same
<1>1. done /\ o.kind \in Numeric /\ o.kind \in Binary \cup Unary
  BY SMT DEF Ended, Numeric, Binary, Unary
<1>2. was \in Processor /\ cpu = perform(was, o, Word) /\ Sound(o)
  BY <1>1, WhatWasPerformed, Zenon
<1>3. /\ o.to \in RegisterName /\ s \in 0 .. 15 /\ e \in s .. 15 /\ InField(s, e)
      /\ o.field \in Fields
  BY <1>1, FieldOfOperation, Zenon DEF OperationField
<1>4. /\ Based(x, h, s, e)
      /\ o.from # None => Based(From(was), h, s, e)
  BY <1>1, DigitsOfOperation, Zenon
<1>5. h \in {10, 16} /\ x \in Digits /\ x = was.reg[o.to]
  BY <1>2, <1>3 DEF Processor, Nibble, Digits, To
<1>6. From(was) = was.reg[o.from]
  BY Zenon DEF From
<1>7. o.from # None => From(was) \in Digits
  <2>1. o.from # None => o.from \in RegisterName
    <3> HIDE DEF o
    <3> QED BY <1>1, <1>2, WorkingRegisters, SMT DEF Sound
  <2> QED BY <1>2, <1>6, <2>1, SMTT(30) DEF Processor, Nibble, Digits
<1> DEFINE y == IF o.from = None THEN Same(0) ELSE From(was)
<1>9. y \in Digits /\ (o.from # None => y = was.reg[o.from]) /\ Based(y, h, s, e)
  <2>1. Same(0) \in Digits /\ Based(Same(0), h, s, e)
    BY <1>3, <1>5 DEF Same, Digits, Based
  <2> QED BY <1>4, <1>6, <1>7, <2>1, Zenon
<1>10. cpu = calculate(was, o)
  <2>1. o.kind \in Arithmetic
    BY <1>1 DEF Arithmetic, Numeric
  <2> QED BY <1>2, <2>1, Performing, Zenon
<1> HIDE DEF o, s, e, h, y, x
<1> DEFINE M == Place(h, e + 1 - s)
           A == Total(x, h, e)[s]
           B == Total(y, h, e)[s]
<1>11. Calculated(cpu, o.kind, o.to, x, y, h, s, e)
  <2>1. o.kind \in Numeric
    BY <1>1
  <2>2. Based(x, h, s, e) /\ Based(y, h, s, e)
    BY <1>4, <1>9
  <2>3. Calculated(calculate(was, o), o.kind, o.to, x, y, h, s, e)
    BY <1>2, <1>5, <1>9, <2>1, <2>2, Calculating, Zenon DEF s, e, h
  <2> QED BY <1>10, <2>3
<1>12. IsNumber(cpu, o.to, h, s, e, Makes(o.kind, A, B, M), Carrying(o.kind, A, B, M))
  BY <1>11, Zenon DEF Calculated
<1>13. a = A /\ m = M /\ b = (IF o.from = None THEN 1 ELSE B)
  <2>1. a = A /\ m = Total(Same(h - 1), h, e)[s] + 1 /\ b = (IF o.from = None THEN 1 ELSE B)
    BY <1>3, Zenon DEF InField, y
  <2>2. Total(Same(h - 1), h, e)[s] = M - 1 /\ M \in Nat
    <3>1. e + 1 - s \in 0 .. 16
      BY <1>3
    <3>2. M \in Nat
      BY <1>5, <3>1, Powers
    <3> QED BY <1>3, <1>5, <3>2, ZeroesAndNines
  <2> HIDE DEF a, b, m, A, B, M
  <2> QED BY <2>1, <2>2
<1>14. To(cpu) = cpu.reg[o.to]
  BY Zenon DEF To, o
<1>15. Value(To(cpu), h) = Total(cpu.reg[o.to], h, e)[s]
  BY <1>3, <1>14, Zenon DEF InField
<1>16. ASSUME NEW number, NEW carry,
              IsNumber(cpu, o.to, h, s, e, number, carry) PROVE Is(number, carry)
  <2>1. Total(cpu.reg[o.to], h, e)[s] = number % M /\ cpu.CARRY = IF carry THEN 1 ELSE 0
    BY <1>16, Zenon DEF IsNumber
  <2> QED BY <1>13, <1>15, <2>1, Zenon
<1>17. ASSUME NEW u, NEW v, NEW p \in BOOLEAN, NEW q \in BOOLEAN, u = v, p <=> q, Is(u, p) PROVE Is(v, q)
  BY <1>17
<1> HIDE DEF Is
<1> DEFINE number == Makes(o.kind, A, B, M)
           carry == Carrying(o.kind, A, B, M)
<1>18. Is(number, carry)
  BY <1>12, <1>16, Zenon
<1>19. /\ o.kind \in {"add", "sub", "rsub"} => b = B
       /\ o.kind \in {"inc", "dec"} => b = 1
  <2>1. /\ o.kind \in {"add", "sub", "rsub"} => o.from # None
        /\ o.kind \in {"inc", "dec"} => o.from = None
    BY <1>2, SMT DEF Sound, Binary, Unary, Working, None
  <2> QED BY <1>13, <2>1, Zenon
<1> HIDE DEF a, b, m, A, B, M
<1>20. CASE o.kind = "add"
  <2>1. /\ number = a + b /\ (a + b >= m) \in BOOLEAN /\ carry \in BOOLEAN
        /\ carry <=> a + b >= m
    BY <1>13, <1>19, <1>20, SMT DEF Makes, Carrying
  <2> HIDE DEF number, carry
  <2>2. Is(a + b, a + b >= m)
    BY <1>17, <1>18, <2>1, Zenon
  <2> QED BY <1>20, <2>2
<1>21. CASE o.kind = "inc"
  <2>1. /\ number = a + b /\ (a + b >= m) \in BOOLEAN /\ carry \in BOOLEAN
        /\ carry <=> a + b >= m
    BY <1>13, <1>19, <1>21, SMT DEF Makes, Carrying
  <2> HIDE DEF number, carry
  <2>2. Is(a + b, a + b >= m)
    BY <1>17, <1>18, <2>1, Zenon
  <2> QED BY <1>21, <2>2
<1>22. CASE o.kind = "sub"
  <2>1. /\ number = a - b /\ (a < b) \in BOOLEAN /\ carry \in BOOLEAN
        /\ carry <=> a < b
    BY <1>13, <1>19, <1>22, SMT DEF Makes, Carrying
  <2> HIDE DEF number, carry
  <2>2. Is(a - b, a < b)
    BY <1>17, <1>18, <2>1, Zenon
  <2> QED BY <1>22, <2>2
<1>23. CASE o.kind = "dec"
  <2>1. /\ number = a - b /\ (a < b) \in BOOLEAN /\ carry \in BOOLEAN
        /\ carry <=> a < b
    BY <1>13, <1>19, <1>23, SMT DEF Makes, Carrying
  <2> HIDE DEF number, carry
  <2>2. Is(a - b, a < b)
    BY <1>17, <1>18, <2>1, Zenon
  <2> QED BY <1>23, <2>2
<1>24. CASE o.kind = "rsub"
  <2>1. /\ number = b - a /\ (b < a) \in BOOLEAN /\ carry \in BOOLEAN
        /\ carry <=> b < a
    BY <1>13, <1>19, <1>24, SMT DEF Makes, Carrying
  <2> HIDE DEF number, carry
  <2>2. Is(b - a, b < a)
    BY <1>17, <1>18, <2>1, Zenon
  <2> QED BY <1>24, <2>2
<1>25. CASE o.kind = "neg"
  <2>1. /\ number = 0 - a /\ (a # 0) \in BOOLEAN /\ carry \in BOOLEAN
        /\ carry <=> a # 0
    BY <1>13, <1>19, <1>25, SMT DEF Makes, Carrying
  <2> HIDE DEF number, carry
  <2>2. Is(0 - a, a # 0)
    BY <1>17, <1>18, <2>1, Zenon
  <2> QED BY <1>25, <2>2
<1>26. CASE o.kind = "not"
  <2>1. /\ number = m - 1 - a /\ (FALSE) \in BOOLEAN /\ carry \in BOOLEAN
        /\ carry <=> FALSE
    BY <1>13, <1>19, <1>26, SMT DEF Makes, Carrying
  <2> HIDE DEF number, carry
  <2>2. Is(m - 1 - a, FALSE)
    BY <1>17, <1>18, <2>1, Zenon
  <2> QED BY <1>26, <2>2
<1>27. o.kind \in {"add", "inc", "sub", "dec", "rsub", "neg", "not"}
  BY <1>1 DEF Numeric
<1> QED BY <1>20, <1>21, <1>22, <1>23, <1>24, <1>25, <1>26, <1>27

----------------------------------------------------------------------------
(* What was added is taken away again.                                     *)

LEMMA WrittenIsMachine ==
    ASSUME NEW Mem, NEW c \in Machine(Mem), NEW r \in RegisterName, NEW s \in 0 .. 15,
           NEW e \in s .. 15, NEW out \in Digits, NEW k \in Carry
    PROVE  Written(c, r, s, e, out, k) \in Machine(Mem)
<1> DEFINE R == [j \in 0 .. 15 |-> IF j \in s .. e THEN out[j] ELSE c.reg[r][j]]
<1>1. R \in [0 .. 15 -> 0 .. 15]
  BY DEF Digits, Machine
<1>2. Written(c, r, s, e, out, k) = [c EXCEPT !.reg[r] = R, !.CARRY = k]
  BY DEF Written
<1> HIDE DEF R
<1>3. [c.reg EXCEPT ![r] = R] \in [RegisterName -> [0 .. 15 -> 0 .. 15]]
  BY <1>1 DEF Machine
<1> DEFINE Q == [c.reg EXCEPT ![r] = R]
<1>4. Written(c, r, s, e, out, k) = [c EXCEPT !.reg = Q, !.CARRY = k]
  BY <1>2 DEF Machine
<1> HIDE DEF Q
<1>5. Q \in [RegisterName -> [0 .. 15 -> 0 .. 15]]
  BY <1>3 DEF Q
<1> QED BY <1>4, <1>5 DEF Machine, Carry

\* One column, there and back.
ThereAndBack(x, y, k, h) ==
    LET t == x + y + k
        z == IF t < h THEN t % 16 ELSE (t - h) % 16
        u == z - y - k
    IN  /\ (IF u >= 0 THEN u % 16 ELSE (u + h) % 16) = x
        /\ u >= 0 <=> t < h

LEMMA ColumnUndone ==
    ASSUME NEW h \in {10, 16}, NEW x \in 0 .. h - 1, NEW y \in 0 .. h - 1, NEW k \in {0, 1}
    PROVE  ThereAndBack(x, y, k, h)
<1>1. CASE h = 10
  BY <1>1, SMT DEF ThereAndBack
<1>2. CASE h = 16
  BY <1>2, SMT DEF ThereAndBack
<1> QED BY <1>1, <1>2

Undone(x, out, car, back, s, e) == back[e] = car[e] /\ \A i \in s .. e : out[i] = x[i]

LEMMA ColumnsUndone ==
    ASSUME NEW h \in {10, 16}, NEW s \in 0 .. 15, NEW e \in s .. 15,
           NEW x \in Digits, NEW y \in Digits, NEW z \in Digits, Based(x, h, s, e), Based(y, h, s, e),
           NEW sum \in Digits, NEW car \in Carries,
           Flow(sum, car, s, 0, SumDigit(x, y, h), SumCarry(x, y, h)),
           \A i \in s .. e : z[i] = sum[i],
           NEW out \in Digits, NEW back \in Carries,
           Flow(out, back, s, 0, DifferenceDigit(z, y, h), DifferenceCarry(z, y, h))
    PROVE  Undone(x, out, car, back, s, e)
<1> DEFINE V == SumDigit(x, y, h)
           F == SumCarry(x, y, h)
           W == DifferenceDigit(z, y, h)
           G == DifferenceCarry(z, y, h)
           T == {i \in s - 1 .. e : back[i] = car[i]}
<1>1. F \in [Inputs -> {0, 1}]
  BY DEF SumCarry
<1> HIDE DEF V, F, W, G
<1>2. ASSUME NEW i \in s .. e, back[i - 1] = car[i - 1]
      PROVE  out[i] = x[i] /\ back[i] = car[i]
  <2> DEFINE k == car[i - 1]
  <2>1. i \in s .. 15 /\ i \in 0 .. 15
    OBVIOUS
  <2>2. k \in {0, 1}
    BY <1>1, <2>1, Bits DEF V, F
  <2>3. <<i, k>> \in Inputs
    BY <2>1, <2>2 DEF Inputs, Carry
  <2>4. sum[i] = V[<<i, k>>] /\ car[i] = F[<<i, k>>]
    BY <2>1 DEF Flow, V, F
  <2>10. out[i] = W[<<i, k>>] /\ back[i] = G[<<i, k>>]
    BY <1>2, <2>1 DEF Flow, W, G
  <2> HIDE DEF k
  <2> DEFINE t == x[i] + y[i] + k
             v == IF t < h THEN t % 16 ELSE (t - h) % 16
             u == v - y[i] - k
  <2>5. sum[i] = v /\ car[i] = IF t < h THEN 0 ELSE 1
    BY <2>3, <2>4, SMT DEF V, F, SumDigit, SumCarry
  <2>7. x[i] \in 0 .. h - 1 /\ y[i] \in 0 .. h - 1
    BY <2>1 DEF Digits, Based
  <2>8. (IF u >= 0 THEN u % 16 ELSE (u + h) % 16) = x[i] /\ (u >= 0 <=> t < h)
    <3>1. ThereAndBack(x[i], y[i], k, h)
      BY <2>2, <2>7, ColumnUndone
    <3> QED BY <3>1, Zenon DEF ThereAndBack
  <2> HIDE DEF t, v
  <2>9. z[i] = v
    BY <2>5
  <2>11. /\ out[i] = (IF u >= 0 THEN u % 16 ELSE (u + h) % 16)
         /\ back[i] = (IF u >= 0 THEN 0 ELSE 1)
    BY <2>3, <2>9, <2>10, SMT DEF W, G, DifferenceDigit, DifferenceCarry
  <2> HIDE DEF u
  <2> QED BY <2>5, <2>8, <2>11, Zenon
<1>3. s - 1 \in T
  BY DEF Flow
<1>4. ASSUME NEW i \in s - 1 .. e - 1, i \in T PROVE i + 1 \in T
  <2>1. i + 1 \in s .. e /\ (i + 1) - 1 = i /\ i + 1 \in s - 1 .. e
    OBVIOUS
  <2>2. back[i] = car[i]
    BY <1>4
  <2> QED BY <1>2, <2>1, <2>2
<1>5. s - 1 .. e \subseteq T
  <2> DEFINE bottom == s - 1
  <2>1. bottom \in Int /\ e \in Int /\ bottom \in T
    BY <1>3
  <2>2. \A i \in bottom .. e - 1 : i \in T => i + 1 \in T
    BY <1>4
  <2>3. bottom .. e \subseteq T
    <3> HIDE DEF T, bottom
    <3> QED BY <2>1, <2>2, Upwards
  <2> QED BY <2>3
<1>6. back[e] = car[e]
  <2>1. e \in s - 1 .. e
    OBVIOUS
  <2> QED BY <1>5, <2>1
<1>7. ASSUME NEW i \in s .. e PROVE out[i] = x[i]
  <2>1. i - 1 \in s - 1 .. e
    OBVIOUS
  <2> QED BY <1>2, <1>5, <2>1
<1> QED BY <1>6, <1>7 DEF Undone

LEMMA SubtractionUndoesAddition ==
    ASSUME NEW c \in Processor, NEW r \in RegisterName, NEW q \in RegisterName, r # q,
           NEW f \in Fields,
           Based(c.reg[r], c.hexmode, get_start(c, f), get_end(c, f)),
           Based(c.reg[q], c.hexmode, get_start(c, f), get_end(c, f)),
           NEW m, m = add_register(c, r, r, q, f)
    PROVE  sub_register(m, r, r, q, f).reg = c.reg /\ sub_register(m, r, r, q, f).CARRY = m.CARRY
<1> DEFINE x == c.reg[r]
           y == c.reg[q]
           z == m.reg[r]
           h == c.hexmode
           s == get_start(c, f)
           e == get_end(c, f)
           b == sub_register(m, r, r, q, f)
<1>1. c \in Machine({<<>>})
  BY ProcessorIsMachine
<1>2. s \in 0 .. 15 /\ e \in s .. 15
  BY <1>1, FieldsOf, Zenon
<1>3. x \in Digits /\ y \in Digits /\ h \in {10, 16}
  BY <1>1 DEF Digits, Machine
<1>4. Ran(m, c, r, f, 0, SumDigit(x, y, h), SumCarry(x, y, h))
  BY <1>1, Adding
<1>5. Based(x, h, s, e) /\ Based(y, h, s, e)
  OBVIOUS
<1> HIDE DEF x, y, z, h, s, e, b
<1>6. PICK sum \in Digits, car \in Carries :
         Flow(sum, car, s, 0, SumDigit(x, y, h), SumCarry(x, y, h)) /\ m = Written(c, r, s, e, sum, car[e])
  BY <1>4, Zenon DEF Ran, s, e
<1>7. WroteField(m, c, r, s, e, sum, car[e])
  BY <1>1, <1>2, <1>6, WrittenRegisters, Zenon
<1>8. m \in Machine({<<>>})
  <2>1. car[e] \in Carry
    BY <1>2 DEF Carries
  <2> QED BY <1>1, <1>2, <1>6, <2>1, WrittenIsMachine, Zenon
<1>9. /\ m.P = c.P /\ m.hexmode = h /\ m.CARRY = car[e]
      /\ \A i \in s .. e : z[i] = sum[i]
  BY <1>7, Zenon DEF WroteField, h, z
<1>10. get_start(m, f) = s /\ get_end(m, f) = e
  BY <1>9, Zenon DEF get_start, get_end, s, e
<1>11. m.reg[q] = y
  <2>1. /\ m.reg[q] = [j \in 0 .. 15 |-> m.reg[q][j]]
        /\ \A j \in 0 .. 15 : m.reg[q][j] = y[j]
    BY <1>7, Zenon DEF WroteField, y
  <2>2. y = [j \in 0 .. 15 |-> y[j]]
    BY <1>3 DEF Digits
  <2> HIDE DEF y
  <2> QED BY <2>1, <2>2
<1>12. z \in Digits
  BY <1>8 DEF Machine, Digits, z
<1>13. Ran(b, m, r, f, 0, DifferenceDigit(z, y, h), DifferenceCarry(z, y, h))
  <2>1. Ran(b, m, r, f, 0, DifferenceDigit(m.reg[r], m.reg[q], m.hexmode),
            DifferenceCarry(m.reg[r], m.reg[q], m.hexmode))
    BY <1>8, Subtracting DEF b
  <2> QED BY <1>9, <1>11, <2>1, Zenon DEF z
<1>14. PICK out \in Digits, back \in Carries :
         /\ Flow(out, back, s, 0, DifferenceDigit(z, y, h), DifferenceCarry(z, y, h))
         /\ b = Written(m, r, s, e, out, back[e])
  BY <1>10, <1>13, Zenon DEF Ran
<1>15. WroteField(b, m, r, s, e, out, back[e])
  BY <1>2, <1>8, <1>14, WrittenRegisters, Zenon
<1>16. Undone(x, out, car, back, s, e)
  BY <1>2, <1>3, <1>5, <1>6, <1>9, <1>12, <1>14, ColumnsUndone, ZenonT(40)
<1>17. ASSUME NEW p \in RegisterName, NEW j \in 0 .. 15 PROVE b.reg[p][j] = c.reg[p][j]
  <2>1. CASE p = r /\ j \in s .. e
    BY <1>15, <1>16, <2>1, Zenon DEF WroteField, Undone, x
  <2>2. CASE ~(p = r /\ j \in s .. e)
    <3>1. p # r \/ j \notin s .. e
      BY <2>2
    <3>2. b.reg[p][j] = m.reg[p][j]
      BY <1>15, <3>1, Zenon DEF WroteField
    <3>3. m.reg[p][j] = c.reg[p][j]
      BY <1>7, <3>1, Zenon DEF WroteField
    <3> QED BY <3>2, <3>3
  <2> QED BY <2>1, <2>2
<1>18. b.reg = c.reg
  <2>1. back[e] \in Carry
    BY <1>2 DEF Carries
  <2>2. b \in Machine({<<>>})
    BY <1>2, <1>8, <1>14, <2>1, WrittenIsMachine, Zenon
  <2>3. /\ b.reg \in [RegisterName -> [0 .. 15 -> 0 .. 15]]
        /\ c.reg \in [RegisterName -> [0 .. 15 -> 0 .. 15]]
    BY <1>1, <2>2 DEF Machine
  <2>4. ASSUME NEW p \in RegisterName PROVE b.reg[p] = c.reg[p]
    <3>1. b.reg[p] \in [0 .. 15 -> 0 .. 15] /\ c.reg[p] \in [0 .. 15 -> 0 .. 15]
      BY <2>3
    <3>2. \A j \in 0 .. 15 : b.reg[p][j] = c.reg[p][j]
      BY <1>17
    <3> QED BY <3>1, <3>2
  <2> QED BY <2>3, <2>4
<1>19. b.CARRY = m.CARRY
  BY <1>9, <1>15, <1>16, Zenon DEF WroteField, Undone
<1> QED BY <1>18, <1>19 DEF b

\* Digits of the base h come out of a loop, whatever the carries are.
StaysBased(h, s, e, k, V, F) ==
    \A out \in Digits, car \in Carries : Flow(out, car, s, k, V, F) => Based(out, h, s, e)

\* A negation is a loop, but for the CARRY it ends with.
Negated(c, r, f) ==
    \E v, l : /\ Ran(v, c, r, f, 1, NegativeDigit(c.reg[r], c.hexmode),
                     NegativeCarry(c.reg[r], c.hexmode))
              /\ complement_2_register(c, r, f) = [v EXCEPT !.CARRY = l]

LEMMA NegatingButForCarry ==
    ASSUME NEW Mem, NEW c \in Machine(Mem), NEW r \in RegisterName, NEW f \in Fields
    PROVE  Negated(c, r, f)
<1>1. PICK v : /\ Ran(v, c, r, f, 1, NegativeDigit(c.reg[r], c.hexmode),
                      NegativeCarry(c.reg[r], c.hexmode))
               /\ complement_2_register(c, r, f) =
                     [v EXCEPT !.CARRY = IF \E i \in get_start(c, f) .. get_end(c, f) : v.reg[r][i] # 0
                                         THEN 1 ELSE 0]
  BY Negating
<1> QED BY <1>1, Zenon DEF Negated

LEMMA RanBased ==
    ASSUME NEW Mem, NEW c \in Machine(Mem), NEW r \in RegisterName, NEW f \in Fields,
           NEW m, NEW k, NEW V, NEW F, Ran(m, c, r, f, k, V, F), NEW h,
           StaysBased(h, get_start(c, f), get_end(c, f), k, V, F)
    PROVE  /\ Based(m.reg[r], h, get_start(c, f), get_end(c, f))
           /\ \A l : [m EXCEPT !.CARRY = l].reg = m.reg
<1> DEFINE s == get_start(c, f)
           e == get_end(c, f)
<1>1. PICK out \in Digits, car \in Carries :
              Flow(out, car, s, k, V, F) /\ Holds(m, r, s, e, out, car)
  BY RanResult, Zenon
<1>2. Based(out, h, s, e)
  BY <1>1, Zenon DEF StaysBased
<1>3. Based(m.reg[r], h, s, e)
  <2> HIDE DEF s, e
  <2> QED BY <1>1, <1>2 DEF Based, Holds
<1>4. "reg" \in DOMAIN m
  <2>1. PICK o \in Digits, b \in Carries : m = Written(c, r, s, e, o, b[e])
    BY Zenon DEF Ran
  <2> QED BY <2>1 DEF Written, Machine
<1>5. \A l : [m EXCEPT !.CARRY = l].reg = m.reg
  BY <1>4
<1> QED BY <1>3, <1>5

LEMMA ArithmeticStaysBased ==
    ASSUME NEW h \in {10, 16}, NEW s \in 0 .. 15, NEW e \in s .. 15, NEW x \in Digits,
           NEW y \in Digits, Based(x, h, s, e)
    PROVE  /\ Based(y, h, s, e) => StaysBased(h, s, e, 0, SumDigit(x, y, h), SumCarry(x, y, h))
           /\ Based(y, h, s, e) =>
                 StaysBased(h, s, e, 0, DifferenceDigit(x, y, h), DifferenceCarry(x, y, h))
           /\ StaysBased(h, s, e, 1, IncDigit(x, h), IncCarry(x, h))
           /\ StaysBased(h, s, e, 1, DecDigit(x, h), DecCarry(x, h))
           /\ StaysBased(h, s, e, 1, NegativeDigit(x, h), NegativeCarry(x, h))
           /\ \A k : StaysBased(h, s, e, k, NotDigit(x, h), Keep) /\ StaysBased(h, s, e, k, ZeroDigit, Keep)
<1>1. Based(y, h, s, e) =>
         /\ StaysBased(h, s, e, 0, SumDigit(x, y, h), SumCarry(x, y, h))
         /\ StaysBased(h, s, e, 0, DifferenceDigit(x, y, h), DifferenceCarry(x, y, h))
  BY SumColumns, DifferenceColumns, Zenon DEF StaysBased, ColumnsOf
<1>2. /\ StaysBased(h, s, e, 1, IncDigit(x, h), IncCarry(x, h))
      /\ StaysBased(h, s, e, 1, DecDigit(x, h), DecCarry(x, h))
      /\ StaysBased(h, s, e, 1, NegativeDigit(x, h), NegativeCarry(x, h))
  BY IncrementColumns, DecrementColumns, NegativeColumns, Zenon DEF StaysBased, ColumnsOf
<1>3. ASSUME NEW k PROVE StaysBased(h, s, e, k, NotDigit(x, h), Keep)
  <2> SUFFICES ASSUME NEW out \in Digits, NEW car \in Carries, Flow(out, car, s, k, NotDigit(x, h), Keep)
               PROVE  Based(out, h, s, e)
    BY DEF StaysBased
  <2>1. ASSUME NEW i \in s .. e PROVE out[i] < h
    <3>1. i \in s .. 15 /\ i \in 0 .. 15 /\ car[i - 1] \in Carry
      BY DEF Carries
    <3>2. out[i] = NotDigit(x, h)[<<i, car[i - 1]>>] /\ <<i, car[i - 1]>> \in Inputs
      BY <3>1 DEF Flow, Inputs
    <3>3. out[i] = (h - 1 - x[i]) % 16
      BY <3>2, SMT DEF NotDigit
    <3>4. x[i] \in 0 .. 15 /\ x[i] < h
      BY <3>1 DEF Digits, Based
    <3> QED BY <3>3, <3>4, SMT
  <2> QED BY <2>1 DEF Based
<1>4. ASSUME NEW k PROVE StaysBased(h, s, e, k, ZeroDigit, Keep)
  <2> SUFFICES ASSUME NEW out \in Digits, NEW car \in Carries, Flow(out, car, s, k, ZeroDigit, Keep)
               PROVE  Based(out, h, s, e)
    BY DEF StaysBased
  <2>1. ASSUME NEW i \in s .. e PROVE out[i] < h
    <3>1. i \in s .. 15 /\ i \in 0 .. 15 /\ car[i - 1] \in Carry
      BY DEF Carries
    <3>2. out[i] = ZeroDigit[<<i, car[i - 1]>>] /\ <<i, car[i - 1]>> \in Inputs
      BY <3>1 DEF Flow, Inputs
    <3>3. out[i] = 0 % 16
      BY <3>2, SMT DEF ZeroDigit
    <3> QED BY <3>3, SMT
  <2> QED BY <2>1 DEF Based
<1> QED BY <1>1, <1>2, <1>3, <1>4

ResultBased(m, c, o) ==
    Based(m.reg[o.to], c.hexmode, get_start(c, o.field), get_end(c, o.field))

LEMMA ResultsAreBased ==
    ASSUME NEW c \in Processor, NEW o, Sound(o), o.kind \in Numeric \cup {"zero"},
           Based(c.reg[o.to], c.hexmode, get_start(c, o.field), get_end(c, o.field)),
           o.from # None =>
              Based(c.reg[o.from], c.hexmode, get_start(c, o.field), get_end(c, o.field))
    PROVE  ResultBased(calculate(c, o), c, o)
<1> DEFINE x == c.reg[o.to]
           y == c.reg[o.from]
           h == c.hexmode
           s == get_start(c, o.field)
           e == get_end(c, o.field)
<1>1. o.to \in RegisterName /\ o.field \in Fields /\ c \in Machine({<<>>})
  BY WorkingRegisters, ProcessorIsMachine, SMT DEF Sound, Binary, Unary, Numeric, FieldCode, Fields
<1>2. s \in 0 .. 15 /\ e \in s .. 15
  BY <1>1, FieldsOf, Zenon
<1>3. x \in Digits /\ h \in {10, 16} /\ Based(x, h, s, e)
  BY <1>1 DEF Digits, Machine
<1>4. CASE o.kind \in {"add", "sub", "rsub"}
  <2>1. o.from \in RegisterName /\ o.from # None
    BY <1>4, WorkingRegisters, SMT DEF Sound, Binary, Working, None
  <2>2. y \in Digits /\ Based(y, h, s, e)
    BY <1>1, <2>1 DEF Digits, Machine
  <2>3. /\ o.kind = "add" => calculate(c, o) = add_register(c, o.to, o.to, o.from, o.field)
        /\ o.kind = "sub" => calculate(c, o) = sub_register(c, o.to, o.to, o.from, o.field)
        /\ o.kind = "rsub" => calculate(c, o) = sub_register(c, o.to, o.from, o.to, o.field)
    BY SMT DEF calculate
  <2>4. /\ Ran(add_register(c, o.to, o.to, o.from, o.field), c, o.to, o.field, 0,
               SumDigit(x, y, h), SumCarry(x, y, h))
        /\ Ran(sub_register(c, o.to, o.to, o.from, o.field), c, o.to, o.field, 0,
               DifferenceDigit(x, y, h), DifferenceCarry(x, y, h))
        /\ Ran(sub_register(c, o.to, o.from, o.to, o.field), c, o.to, o.field, 0,
               DifferenceDigit(y, x, h), DifferenceCarry(y, x, h))
    BY <1>1, <2>1, Adding, Subtracting, Zenon
  <2> HIDE DEF x, y, h, s, e
  <2>5. /\ StaysBased(h, s, e, 0, SumDigit(x, y, h), SumCarry(x, y, h))
        /\ StaysBased(h, s, e, 0, DifferenceDigit(x, y, h), DifferenceCarry(x, y, h))
        /\ StaysBased(h, s, e, 0, DifferenceDigit(y, x, h), DifferenceCarry(y, x, h))
    BY <1>2, <1>3, <2>2, ArithmeticStaysBased, Zenon
  <2>6. /\ Based(add_register(c, o.to, o.to, o.from, o.field).reg[o.to], h, s, e)
        /\ Based(sub_register(c, o.to, o.to, o.from, o.field).reg[o.to], h, s, e)
        /\ Based(sub_register(c, o.to, o.from, o.to, o.field).reg[o.to], h, s, e)
    BY <1>1, <2>4, <2>5, RanBased, Zenon DEF s, e
  <2> QED BY <1>4, <2>3, <2>6 DEF ResultBased, h, s, e
<1>5. CASE o.kind \in {"inc", "dec", "neg", "not", "zero"}
  <2>1. /\ o.kind = "inc" => calculate(c, o) = inc_register(c, o.to, o.field)
        /\ o.kind = "dec" => calculate(c, o) = dec_register(c, o.to, o.field)
        /\ o.kind = "neg" => calculate(c, o) = complement_2_register(c, o.to, o.field)
        /\ o.kind = "not" => calculate(c, o) = complement_1_register(c, o.to, o.field)
        /\ o.kind = "zero" => calculate(c, o) = zero_register(c, o.to, o.field)
    BY SMT DEF calculate
  <2>2. /\ Ran(inc_register(c, o.to, o.field), c, o.to, o.field, 1, IncDigit(x, h), IncCarry(x, h))
        /\ Ran(dec_register(c, o.to, o.field), c, o.to, o.field, 1, DecDigit(x, h), DecCarry(x, h))
        /\ Ran(zero_register(c, o.to, o.field), c, o.to, o.field, c.CARRY, ZeroDigit, Keep)
    BY <1>1, Incrementing, Decrementing, Zeroing, Zenon
  <2>3. PICK v, l : /\ Ran(v, c, o.to, o.field, 1, NegativeDigit(x, h), NegativeCarry(x, h))
                    /\ complement_2_register(c, o.to, o.field) = [v EXCEPT !.CARRY = l]
    <3>1. Negated(c, o.to, o.field)
      BY <1>1, NegatingButForCarry, Zenon
    <3> QED BY <3>1, Zenon DEF Negated
  <2>4. PICK w : /\ Ran(w, c, o.to, o.field, c.CARRY, NotDigit(x, h), Keep)
                 /\ complement_1_register(c, o.to, o.field) = [w EXCEPT !.CARRY = 0]
    BY <1>1, Inverting
  <2> HIDE DEF x, y, h, s, e
  <2>5. /\ StaysBased(h, s, e, 1, IncDigit(x, h), IncCarry(x, h))
        /\ StaysBased(h, s, e, 1, DecDigit(x, h), DecCarry(x, h))
        /\ StaysBased(h, s, e, 1, NegativeDigit(x, h), NegativeCarry(x, h))
        /\ StaysBased(h, s, e, c.CARRY, NotDigit(x, h), Keep)
        /\ StaysBased(h, s, e, c.CARRY, ZeroDigit, Keep)
    BY <1>2, <1>3, ArithmeticStaysBased, Zenon
  <2>6. /\ Based(inc_register(c, o.to, o.field).reg[o.to], h, s, e)
        /\ Based(dec_register(c, o.to, o.field).reg[o.to], h, s, e)
        /\ Based(zero_register(c, o.to, o.field).reg[o.to], h, s, e)
    BY <1>1, <2>2, <2>5, RanBased, Zenon DEF s, e
  <2>7. Based(v.reg[o.to], h, s, e) /\ \A k : [v EXCEPT !.CARRY = k].reg = v.reg
    BY <1>1, <2>3, <2>5, RanBased DEF s, e
  <2>9. Based(w.reg[o.to], h, s, e) /\ \A k : [w EXCEPT !.CARRY = k].reg = w.reg
    BY <1>1, <2>4, <2>5, RanBased DEF s, e
  <2>8. /\ Based(complement_2_register(c, o.to, o.field).reg[o.to], h, s, e)
        /\ Based(complement_1_register(c, o.to, o.field).reg[o.to], h, s, e)
    BY <2>3, <2>4, <2>7, <2>9, Zenon
  <2> QED BY <1>5, <2>1, <2>6, <2>8 DEF ResultBased, h, s, e
<1> QED BY <1>4, <1>5 DEF Numeric

LEMMA DecimalsStayDecimal == Performed => DecimalStaysDecimal
<1> DEFINE o == Operation
           s == get_start(was, o.field)
           e == get_end(was, o.field)
<1> SUFFICES ASSUME Performed, Ended(Arithmetic \ {"and", "or"}), was.hexmode = 10, Numbers
             PROVE  IsDecimal(To(cpu))
  BY Zenon DEF DecimalStaysDecimal
<1>1. done /\ o.kind \in Numeric \cup {"zero"} /\ o.kind \in Arithmetic /\ o.kind \in Binary \cup Unary
  BY SMT DEF Ended, Arithmetic, Numeric, Binary, Unary
<1>2. was \in Processor /\ cpu = perform(was, o, Word) /\ Sound(o)
  BY <1>1, WhatWasPerformed, Zenon
<1>3. cpu = calculate(was, o)
  BY <1>1, <1>2, Performing, Zenon
<1>4. Places = s .. e
  BY <1>1, FieldOfOperation, Zenon DEF OperationField
<1>5. /\ Based(was.reg[o.to], was.hexmode, s, e)
      /\ o.from # None => Based(was.reg[o.from], was.hexmode, s, e)
  BY <1>1, DigitsOfOperation, Zenon DEF To, From
<1>6. ResultBased(cpu, was, o)
  <2> HIDE DEF o
  <2> QED BY <1>1, <1>2, <1>3, <1>5, ResultsAreBased
<1>7. \A i \in s .. e : cpu.reg[o.to][i] < 10
  BY <1>6, Zenon DEF ResultBased, Based
<1> QED BY <1>4, <1>7, Zenon DEF IsDecimal, To

LEMMA SubtractionsUndoAdditions == Performed => SubUndoesAdd
<1> DEFINE o == Operation
           back == sub_register(cpu, o.to, o.to, o.from, o.field)
<1> SUFFICES ASSUME Performed, Ended({"add"}), o.to # o.from, Numbers
             PROVE  back.reg = was.reg /\ back.CARRY = cpu.CARRY
  BY Zenon DEF SubUndoesAdd
<1>1. done /\ o.kind = "add" /\ o.kind \in Arithmetic /\ o.kind \in Binary \cup Unary
  BY SMT DEF Ended, Arithmetic, Binary, Unary
<1>2. was \in Processor /\ cpu = perform(was, o, Word) /\ Sound(o)
  BY <1>1, WhatWasPerformed, Zenon
<1>3. cpu = add_register(was, o.to, o.to, o.from, o.field)
  <2>1. cpu = calculate(was, o)
    BY <1>1, <1>2, Performing, Zenon
  <2> HIDE DEF o
  <2> QED BY <1>1, <2>1, SMT DEF calculate
<1>4. o.to \in RegisterName /\ o.from \in RegisterName /\ o.from # None /\ o.field \in Fields
  <2> HIDE DEF o
  <2> QED BY <1>1, <1>2, WorkingRegisters, SMT DEF Sound, Binary, Working, None, FieldCode, Fields
<1>5. /\ Based(was.reg[o.to], was.hexmode, get_start(was, o.field), get_end(was, o.field))
      /\ Based(was.reg[o.from], was.hexmode, get_start(was, o.field), get_end(was, o.field))
  BY <1>1, <1>4, DigitsOfOperation, Zenon DEF To, From
<1> HIDE DEF o
<1> QED BY <1>2, <1>3, <1>4, <1>5, SubtractionUndoesAddition

\* In every field, of every width (MaxPlaces may be 16), with every P, in hexadecimal and in decimal: the loops of add_register, sub_register, inc_register, dec_register
\* and the complements calculate with the numbers the nibbles stand for.
THEOREM ArithmeticCalculatesNumbers == Spec => []CalculatesNumbers
<1>1. Performed => CalculatesNumbers
  BY IntegersAreCalculated, SubtractionsUndoAdditions, DecimalsStayDecimal DEF CalculatesNumbers
<1> QED BY <1>1, InstructionsArePerformed, PTL

----------------------------------------------------------------------------
(* Shifts.                                                                 *)

LEMMA RanWrites ==
    ASSUME NEW Mem, NEW c \in Machine(Mem), NEW r \in RegisterName, NEW f \in Fields,
           NEW m, NEW k, NEW V, NEW F, Ran(m, c, r, f, k, V, F)
    PROVE  \E out \in Digits, car \in Carries :
              /\ Flow(out, car, get_start(c, f), k, V, F)
              /\ WroteField(m, c, r, get_start(c, f), get_end(c, f), out, car[get_end(c, f)])
              /\ m \in Machine(Mem)
<1> DEFINE s == get_start(c, f)
           e == get_end(c, f)
<1>1. s \in 0 .. 15 /\ e \in s .. 15
  BY FieldsOf, Zenon
<1> HIDE DEF s, e
<1>2. PICK out \in Digits, car \in Carries :
         Flow(out, car, s, k, V, F) /\ m = Written(c, r, s, e, out, car[e])
  BY Zenon DEF Ran, s, e
<1>3. WroteField(m, c, r, s, e, out, car[e])
  BY <1>1, <1>2, WrittenRegisters, Zenon
<1>4. car[e] \in Carry
  BY <1>1 DEF Carries
<1>5. m \in Machine(Mem)
  BY <1>1, <1>2, <1>4, WrittenIsMachine, Zenon
<1> QED BY <1>2, <1>3, <1>5, Zenon DEF s, e

\* Two loops over a field, of which the second brings back what was there before the first.
Rewrote(w, c, r, s, e, out) ==
    /\ \A j \in s .. e : w.reg[r][j] = out[j]
    /\ \A q \in RegisterName, j \in 0 .. 15 :
          q # r \/ j \notin s .. e => w.reg[q][j] = c.reg[q][j]
BringsBack(back, x, s, e) == \A i \in s .. e : back[i] = x[i]

LEMMA Restored ==
    ASSUME NEW Mem, NEW c \in Machine(Mem), NEW m, NEW b \in Machine(Mem), NEW r \in RegisterName,
           NEW s, NEW e, NEW out, NEW back,
           Rewrote(m, c, r, s, e, out), Rewrote(b, m, r, s, e, back),
           BringsBack(back, c.reg[r], s, e)
    PROVE  b.reg = c.reg
<1>1. ASSUME NEW p \in RegisterName, NEW j \in 0 .. 15 PROVE b.reg[p][j] = c.reg[p][j]
  <2>1. CASE p = r /\ j \in s .. e
    BY <2>1, Zenon DEF Rewrote, BringsBack
  <2>2. CASE ~(p = r /\ j \in s .. e)
    <3>1. p # r \/ j \notin s .. e
      BY <2>2
    <3>2. b.reg[p][j] = m.reg[p][j]
      BY <3>1, Zenon DEF Rewrote
    <3>3. m.reg[p][j] = c.reg[p][j]
      BY <3>1, Zenon DEF Rewrote
    <3> QED BY <3>2, <3>3
  <2> QED BY <2>1, <2>2
<1>2. /\ b.reg \in [RegisterName -> [0 .. 15 -> 0 .. 15]]
      /\ c.reg \in [RegisterName -> [0 .. 15 -> 0 .. 15]]
  BY DEF Machine
<1>3. ASSUME NEW p \in RegisterName PROVE b.reg[p] = c.reg[p]
  <2>1. b.reg[p] \in [0 .. 15 -> 0 .. 15] /\ c.reg[p] \in [0 .. 15 -> 0 .. 15]
    BY <1>2
  <2>2. \A j \in 0 .. 15 : b.reg[p][j] = c.reg[p][j]
    BY <1>1
  <2> QED BY <2>1, <2>2
<1> QED BY <1>2, <1>3

Quotient(z, x, k, s, e) == Total(z, 16, e)[s] = Total(x, 16, e)[s] \div k

LEMMA DividedBySixteen ==
    ASSUME NEW s \in 0 .. 15, NEW e \in s .. 15, NEW x \in Digits, NEW z \in Digits,
           \A i \in s .. e : z[i] = IF i < e THEN x[i + 1] ELSE 0
    PROVE  Quotient(z, x, 16, s, e)
<1> DEFINE X == Total(x, 16, e)
           Z == Total(z, 16, e)
           T == {i \in s .. e : Z[i] = X[i + 1]}
<1>1. e \in 0 .. 15 /\ s \in Int /\ e \in Int /\ e \in s .. e /\ s \in s .. e
  OBVIOUS
<1>2. TotalIs(X, x, 16, e) /\ TotalIs(Z, z, 16, e)
  BY <1>1, Totals
<1> HIDE DEF X, Z
<1>3. e \in T
  <2>1. Z[e] = z[e] + 16 * Z[e + 1] /\ Z[e + 1] = 0 /\ X[e + 1] = 0
    BY <1>1, <1>2 DEF TotalIs
  <2>2. z[e] = 0
    BY <1>1
  <2> QED BY <1>1, <2>1, <2>2
<1>4. ASSUME NEW i \in s + 1 .. e, i \in T PROVE i - 1 \in T
  <2> DEFINE j == i - 1
  <2>1. j \in s .. e /\ j < e /\ j + 1 = i /\ j \in 0 .. e /\ i \in 0 .. e
    OBVIOUS
  <2> HIDE DEF j
  <2>2. z[j] = x[i]
    BY <2>1
  <2>3. Z[j] = z[j] + 16 * Z[i] /\ X[i] = x[i] + 16 * X[i + 1]
    BY <1>2, <2>1 DEF TotalIs
  <2>4. Z[i] = X[i + 1]
    BY <1>4
  <2>5. Z[j] = X[j + 1]
    BY <2>1, <2>2, <2>3, <2>4
  <2> QED BY <2>1, <2>5 DEF j
<1>5. s .. e \subseteq T
  <2>1. \A i \in s + 1 .. e : i \in T => i - 1 \in T
    BY <1>4
  <2> HIDE DEF T
  <2> QED BY <1>1, <1>3, <2>1, Downwards
<1>6. Z[s] = X[s + 1]
  BY <1>1, <1>5
<1>7. X[s] = x[s] + 16 * X[s + 1] /\ X[s + 1] \in Nat /\ x[s] \in 0 .. 15
  <2>1. s \in 0 .. e /\ s + 1 \in 0 .. 16
    OBVIOUS
  <2> QED BY <1>2, <2>1 DEF TotalIs, Digits
<1>8. X[s] \div 16 = X[s + 1]
  BY <1>7, SMT
<1> QED BY <1>6, <1>8 DEF Quotient, X, Z

LEMMA Half ==
    ASSUME NEW x \in Nat
    PROVE  x \div 2 \in Nat /\ x % 2 \in {0, 1} /\ x = 2 * (x \div 2) + (x % 2)
<1>1. x % 2 \in {0, 1} /\ x \div 2 \in Nat
  BY SMT
<1>2. x = 2 * (x \div 2) + (x % 2)
  BY SMT
<1> QED BY <1>1, <1>2

LEMMA HalfOf ==
    ASSUME NEW z \in Nat, NEW b \in 0 .. 1, NEW x \in Nat, x = 2 * z + b
    PROVE  x \div 2 = z
BY SMT

LEMMA Halved ==
    ASSUME NEW s \in 0 .. 15, NEW e \in s .. 15, NEW x \in Digits, NEW z \in Digits,
           \A i \in s .. e : z[i] = (x[i] \div 2) + 8 * (IF i < e THEN x[i + 1] % 2 ELSE 0)
    PROVE  Quotient(z, x, 2, s, e)
<1> DEFINE X == Total(x, 16, e)
           Z == Total(z, 16, e)
           T == {i \in s .. e : X[i] = 2 * Z[i] + (x[i] % 2)}
<1>1. e \in 0 .. 15 /\ s \in Int /\ e \in Int /\ e \in s .. e /\ s \in s .. e
  OBVIOUS
<1>2. TotalIs(X, x, 16, e) /\ TotalIs(Z, z, 16, e)
  BY <1>1, Totals
<1> HIDE DEF X, Z
<1>3. e \in T
  <2>1. /\ Z[e] = z[e] + 16 * Z[e + 1] /\ Z[e + 1] = 0
        /\ X[e] = x[e] + 16 * X[e + 1] /\ X[e + 1] = 0
    BY <1>1, <1>2 DEF TotalIs
  <2>2. z[e] = x[e] \div 2
    <3>1. z[e] = (x[e] \div 2) + 8 * 0
      BY <1>1
    <3>2. x[e] \in 0 .. 15
      BY <1>1 DEF Digits
    <3> QED BY <3>1, <3>2
  <2>3. x[e] \in 0 .. 15
    BY <1>1 DEF Digits
  <2>4. X[e] = 2 * Z[e] + (x[e] % 2)
    <3> DEFINE p == x[e] \div 2
               b == x[e] % 2
    <3>1. p \in Nat /\ b \in {0, 1} /\ x[e] = 2 * p + b
      BY <2>3, Half
    <3>2. z[e] = p
      BY <2>2
    <3> HIDE DEF p, b
    <3>3. X[e] = 2 * Z[e] + b
      BY <2>1, <3>1, <3>2
    <3> QED BY <3>3, Zenon DEF b
  <2> QED BY <1>1, <2>4
<1>4. ASSUME NEW i \in s + 1 .. e, i \in T PROVE i - 1 \in T
  <2> DEFINE j == i - 1
  <2>1. j \in s .. e /\ j < e /\ j + 1 = i /\ j \in 0 .. e /\ i \in 0 .. e /\ j \in 0 .. 15 /\ i \in 0 .. 16
        /\ i \in 0 .. 15
    OBVIOUS
  <2> HIDE DEF j
  <2>2. z[j] = (x[j] \div 2) + 8 * (x[i] % 2)
    BY <2>1
  <2>3. Z[j] = z[j] + 16 * Z[i] /\ X[j] = x[j] + 16 * X[i] /\ Z[i] \in Nat /\ X[i] \in Nat
    BY <1>2, <2>1 DEF TotalIs
  <2>4. X[i] = 2 * Z[i] + (x[i] % 2)
    BY <1>4
  <2>5. x[j] \in 0 .. 15 /\ x[i] \in 0 .. 15
    BY <2>1 DEF Digits
  <2>6. X[j] = 2 * Z[j] + (x[j] % 2)
    <3> DEFINE p == x[j] \div 2
               b == x[j] % 2
               d == x[i] % 2
    <3>1. p \in Nat /\ b \in {0, 1} /\ x[j] = 2 * p + b /\ d \in {0, 1}
      BY <2>5, Half
    <3>2. z[j] = p + 8 * d /\ X[i] = 2 * Z[i] + d
      BY <2>2, <2>4, Zenon
    <3> HIDE DEF p, b, d
    <3>3. X[j] = 2 * Z[j] + b
      BY <2>3, <3>1, <3>2
    <3> QED BY <3>3, Zenon DEF b
  <2> QED BY <2>1, <2>6 DEF j
<1>5. s .. e \subseteq T
  <2>1. \A i \in s + 1 .. e : i \in T => i - 1 \in T
    BY <1>4
  <2> HIDE DEF T
  <2> QED BY <1>1, <1>3, <2>1, Downwards
<1>6. X[s] = 2 * Z[s] + (x[s] % 2)
  BY <1>1, <1>5
<1>7. Z[s] \in Nat /\ x[s] \in 0 .. 15
  <2>1. s \in 0 .. 16
    OBVIOUS
  <2> QED BY <1>2, <2>1 DEF TotalIs, Digits
<1>8. X[s] \div 2 = Z[s]
  <2> DEFINE b == x[s] % 2
  <2>1. b \in 0 .. 1
    BY <1>7, Half
  <2>2. X[s] = 2 * Z[s] + b
    BY <1>6, Zenon
  <2> HIDE DEF b
  <2>3. X[s] \in Nat
    BY <1>7, <2>1, <2>2
  <2> QED BY <1>7, <2>1, <2>2, <2>3, HalfOf
<1> QED BY <1>8 DEF Quotient, X, Z

\* A shift to the right by k: the number divided, and the remainder told by SB.
Divided(m, c, r, s, e, k) ==
    Quotient(m.reg[r], c.reg[r], k, s, e) /\ (m.SB = 1 <=> c.SB = 1 \/ c.reg[r][s] % k # 0)

LEMMA LostBits ==
    ASSUME NEW Mem, NEW c \in Machine(Mem), NEW lost \in Nat
    PROVE  SetSB(c, lost).SB = 1 <=> c.SB = 1 \/ lost # 0
BY DEF SetSB, Machine

\* The nibble from above, or the last one.
MovesDown(out, x, e, last, i) == out[i] = IF i < e THEN x[i + 1] ELSE last

LEMMA RightDigits ==
    ASSUME NEW s \in 0 .. 15, NEW e \in s .. 15, NEW x \in Digits, NEW last \in 0 .. 15, NEW k,
           NEW out, NEW car \in Carries, Flow(out, car, s, k, RightDigit(x, e, last), Keep),
           NEW i \in s .. e
    PROVE  MovesDown(out, x, e, last, i)
<1>1. i \in s .. 15 /\ i \in 0 .. 15 /\ car[i - 1] \in Carry
  BY DEF Carries
<1>2. out[i] = RightDigit(x, e, last)[<<i, car[i - 1]>>] /\ <<i, car[i - 1]>> \in Inputs
  BY <1>1 DEF Flow, Inputs
<1>3. out[i] = (IF i < e THEN x[i + 1] ELSE last) % 16
  BY <1>2, SMT DEF RightDigit
<1>4. (IF i < e THEN x[i + 1] ELSE last) \in 0 .. 15
  <2>1. CASE i < e
    <3>1. i + 1 \in 0 .. 15
      BY <2>1
    <3> QED BY <2>1, <3>1 DEF Digits
  <2> QED BY <2>1
<1> QED BY <1>3, <1>4, SMT DEF MovesDown

LEMMA DividingBySixteen ==
    ASSUME NEW c \in Processor, NEW r \in RegisterName, NEW f \in Fields
    PROVE  Divided(shift_right_register(c, r, f), c, r, get_start(c, f), get_end(c, f), 16)
<1> DEFINE s == get_start(c, f)
           e == get_end(c, f)
           x == c.reg[r]
           b == SetSB(c, x[s])
           m == shift_right_register(c, r, f)
<1>1. c \in Machine({<<>>})
  BY ProcessorIsMachine
<1>2. s \in 0 .. 15 /\ e \in s .. 15
  BY <1>1, FieldsOf, Zenon
<1>3. x \in Digits
  BY <1>1 DEF Digits, Machine
<1>4. Ran(m, b, r, f, c.CARRY, RightDigit(x, e, 0), Keep)
  BY <1>1, ShiftingRight
<1>5. /\ b \in Machine({<<>>}) /\ b.reg = c.reg /\ get_start(b, f) = s /\ get_end(b, f) = e
  <2> DEFINE lost == x[s]
  <2> HIDE DEF lost
  <2>1. SetSB(c, lost) \in Machine({<<>>}) /\ SetSB(c, lost).reg = c.reg
    BY <1>1, SettingSB, Zenon
  <2>2. get_start(SetSB(c, lost), f) = get_start(c, f) /\ get_end(SetSB(c, lost), f) = get_end(c, f)
    BY <1>1, SettingSB, ZenonT(40)
  <2> QED BY <2>1, <2>2, Zenon DEF lost
<1>6. b.SB = 1 <=> c.SB = 1 \/ x[s] # 0
  <2>1. x[s] \in Nat
    BY <1>2, <1>3 DEF Digits
  <2> QED BY <1>1, <2>1, LostBits, Zenon
<1> HIDE DEF s, e, x, b, m
<1>7. PICK out \in Digits, car \in Carries :
         /\ Flow(out, car, s, c.CARRY, RightDigit(x, e, 0), Keep)
         /\ WroteField(m, b, r, s, e, out, car[e])
         /\ m \in Machine({<<>>})
  BY <1>4, <1>5, RanWrites, Zenon
<1>8. m.SB = b.SB /\ \A i \in s .. e : m.reg[r][i] = out[i]
  BY <1>7, Zenon DEF WroteField
<1>9. m.reg[r] \in Digits
  BY <1>7 DEF Machine, Digits
<1>10. \A i \in s .. e : m.reg[r][i] = IF i < e THEN x[i + 1] ELSE 0
  <2> TAKE i \in s .. e
  <2>1. 0 \in 0 .. 15
    OBVIOUS
  <2>2. MovesDown(out, x, e, 0, i)
    BY <1>2, <1>3, <1>7, <2>1, RightDigits, Zenon
  <2> QED BY <1>8, <2>2, Zenon DEF MovesDown
<1>11. Quotient(m.reg[r], x, 16, s, e)
  BY <1>2, <1>3, <1>9, <1>10, DividedBySixteen
<1>12. x[s] % 16 = x[s]
  <2>1. x[s] \in 0 .. 15
    BY <1>2, <1>3 DEF Digits
  <2> QED BY <2>1, SMT
<1>13. m.SB = 1 <=> c.SB = 1 \/ x[s] % 16 # 0
  BY <1>6, <1>8, <1>12, Zenon
<1> QED BY <1>11, <1>13, Zenon DEF Divided, x, m, s, e

LEMMA DividingByTwo ==
    ASSUME NEW c \in Processor, NEW r \in RegisterName, NEW f \in Fields
    PROVE  Divided(shift_right_bit_register(c, r, f), c, r, get_start(c, f), get_end(c, f), 2)
<1> DEFINE s == get_start(c, f)
           e == get_end(c, f)
           x == c.reg[r]
           out == HalfDigits(x, e)
           w == Written(c, r, s, e, out, c.CARRY)
           lost == Bit(x[s], 0)
           m == shift_right_bit_register(c, r, f)
<1>1. c \in Machine({<<>>})
  BY ProcessorIsMachine
<1>2. s \in 0 .. 15 /\ e \in s .. 15
  BY <1>1, FieldsOf, Zenon
<1>3. x \in Digits
  BY <1>1 DEF Digits, Machine
<1>4. m = SetSB(w, lost)
  BY <1>1, ShiftingRightBit, Zenon
<1>5. \A n \in 0 .. 15 : Bit(n, 0) = n % 2
  BY SMT DEF Bit
<1>6. c.CARRY \in Carry
  BY <1>1 DEF Machine, Carry
<1> HIDE DEF s, e, x, lost, m
<1>7. ASSUME NEW i \in 0 .. 15
      PROVE  /\ out[i] = ((x[i] \div 2) + 8 * (IF i < e THEN Bit(x[i + 1], 0) ELSE 0)) % 16
             /\ x[i] \in 0 .. 15 /\ (i < e => x[i + 1] \in 0 .. 15)
  <2>1. out[i] = ((x[i] \div 2) + 8 * (IF i < e THEN Bit(x[i + 1], 0) ELSE 0)) % 16
    BY DEF HalfDigits
  <2>2. x[i] \in 0 .. 15
    BY <1>3 DEF Digits
  <2>3. i < e => x[i + 1] \in 0 .. 15
    <3>1. i < e => i + 1 \in 0 .. 15
      BY <1>2
    <3> QED BY <1>3, <3>1 DEF Digits
  <2> QED BY <2>1, <2>2, <2>3
<1>8. ASSUME NEW i \in 0 .. 15
      PROVE  out[i] = (x[i] \div 2) + 8 * (IF i < e THEN x[i + 1] % 2 ELSE 0) /\ out[i] \in 0 .. 15
  <2> DEFINE p == x[i] \div 2
             d == IF i < e THEN x[i + 1] % 2 ELSE 0
  <2>1. p \in 0 .. 7
    <3>1. x[i] \in 0 .. 15
      BY <1>7
    <3> QED BY <3>1, SMT
  <2>2. d \in 0 .. 1
    <3>1. CASE i < e
      <4>1. x[i + 1] \in 0 .. 15
        BY <1>7, <3>1
      <4>2. x[i + 1] % 2 \in 0 .. 1
        BY <4>1, SMT
      <4> QED BY <3>1, <4>2
    <3> QED BY <3>1
  <2>3. out[i] = (p + 8 * d) % 16
    <3>1. d = IF i < e THEN Bit(x[i + 1], 0) ELSE 0
      BY <1>5, <1>7
    <3> QED BY <1>7, <3>1
  <2> HIDE DEF p, d, out
  <2>4. (p + 8 * d) % 16 = p + 8 * d /\ p + 8 * d \in 0 .. 15
    BY <2>1, <2>2, SMT
  <2>5. out[i] = p + 8 * d /\ out[i] \in 0 .. 15
    BY <2>3, <2>4
  <2> QED BY <2>5 DEF p, d
<1>9. out \in Digits
  <2>1. out = [i \in 0 .. 15 |-> out[i]]
    BY DEF HalfDigits
  <2> HIDE DEF out
  <2> QED BY <1>8, <2>1 DEF Digits
<1> HIDE DEF out, w
<1>10. WroteField(w, c, r, s, e, out, c.CARRY) /\ w \in Machine({<<>>})
  BY <1>1, <1>2, <1>6, <1>9, WrittenRegisters, WrittenIsMachine, Zenon DEF w
<1>11. m.reg = w.reg /\ (m.SB = 1 <=> c.SB = 1 \/ x[s] % 2 # 0)
  <2>1. x[s] \in 0 .. 15
    BY <1>2, <1>7
  <2>2. lost = x[s] % 2
    BY <1>5, <2>1 DEF lost
  <2>3. x[s] % 2 \in Nat
    BY <2>1, SMT
  <2>4. w.SB = c.SB
    BY <1>10, Zenon DEF WroteField
  <2>5. m.reg = w.reg
    BY <1>4, <1>10, SettingSB, Zenon
  <2>6. SetSB(w, lost).SB = 1 <=> w.SB = 1 \/ lost # 0
    BY <1>10, <2>2, <2>3, LostBits
  <2> QED BY <1>4, <2>2, <2>4, <2>5, <2>6
<1>12. m.reg[r] \in Digits
  BY <1>10, <1>11 DEF Machine, Digits
<1>13. \A i \in s .. e : m.reg[r][i] = (x[i] \div 2) + 8 * (IF i < e THEN x[i + 1] % 2 ELSE 0)
  <2> TAKE i \in s .. e
  <2>1. i \in 0 .. 15
    BY <1>2
  <2>2. m.reg[r][i] = out[i]
    BY <1>10, <1>11, Zenon DEF WroteField
  <2> QED BY <1>8, <2>1, <2>2
<1>14. Quotient(m.reg[r], x, 2, s, e)
  BY <1>2, <1>3, <1>12, <1>13, Halved
<1> QED BY <1>11, <1>14, Zenon DEF Divided, x, m, s, e

\* The nibble from below, or the last one.
MovesUp(x, s, last) ==
    /\ LeftDigits(x, s, last) \in Digits
    /\ \A i \in 0 .. 15 : LeftDigits(x, s, last)[i] = IF i > s THEN x[i - 1] ELSE last

LEMMA LeftDigit ==
    ASSUME NEW s \in 0 .. 15, NEW x \in Digits, NEW last \in 0 .. 15
    PROVE  MovesUp(x, s, last)
<1> DEFINE d(i) == IF i > s THEN x[i - 1] ELSE last
           out == [i \in 0 .. 15 |-> d(i) % 16]
<1>1. ASSUME NEW i \in 0 .. 15 PROVE d(i) \in 0 .. 15
  <2>1. CASE i > s
    <3>1. i - 1 \in 0 .. 15
      BY <2>1
    <3> QED BY <2>1, <3>1 DEF Digits
  <2> QED BY <2>1
<1> HIDE DEF d
<1>2. ASSUME NEW i \in 0 .. 15 PROVE d(i) % 16 = d(i)
  BY <1>1, SMT
<1>3. out \in Digits /\ \A i \in 0 .. 15 : out[i] = d(i)
  BY <1>1, <1>2 DEF Digits
<1>4. LeftDigits(x, s, last) = out
  BY DEF LeftDigits, d
<1> HIDE DEF out
<1> QED BY <1>3, <1>4, Zenon DEF MovesUp, d

LEMMA RoundFromLeft ==
    ASSUME NEW c \in Processor, NEW r \in RegisterName, NEW f \in Fields,
           NEW m, m = shift_left_circ_register(c, r, f)
    PROVE  shift_right_circ_register(m, r, f).reg = c.reg
<1> DEFINE s == get_start(c, f)
           e == get_end(c, f)
           x == c.reg[r]
           z == m.reg[r]
           out == LeftDigits(x, s, x[e])
           b == shift_right_circ_register(m, r, f)
<1>1. c \in Machine({<<>>})
  BY ProcessorIsMachine
<1>2. s \in 0 .. 15 /\ e \in s .. 15
  BY <1>1, FieldsOf, Zenon
<1>3. x \in Digits /\ c.CARRY \in Carry
  BY <1>1 DEF Digits, Machine, Carry
<1>4. m = Written(c, r, s, e, out, c.CARRY)
  BY <1>1, ShiftingLeftRound, Zenon
<1>5. MovesUp(x, s, x[e])
  <2>1. x[e] \in 0 .. 15
    BY <1>2, <1>3 DEF Digits
  <2> QED BY <1>2, <1>3, <2>1, LeftDigit
<1> HIDE DEF s, e, x, z, b
<1>6. WroteField(m, c, r, s, e, out, c.CARRY) /\ m \in Machine({<<>>})
  BY <1>1, <1>2, <1>3, <1>4, <1>5, WrittenRegisters, WrittenIsMachine, Zenon DEF MovesUp
<1>7. get_start(m, f) = s /\ get_end(m, f) = e
  BY <1>6, Zenon DEF WroteField, get_start, get_end, s, e
<1>8. PICK v : /\ Ran(v, m, r, f, m.CARRY, RightDigit(z, e, z[s]), Keep)
               /\ b = SetSB(v, z[s])
  <2>1. \E v : /\ Ran(v, m, r, f, m.CARRY,
                      RightDigit(m.reg[r], get_end(m, f), m.reg[r][get_start(m, f)]), Keep)
               /\ shift_right_circ_register(m, r, f) = SetSB(v, m.reg[r][get_start(m, f)])
    BY <1>6, ShiftingRightRound
  <2> QED BY <1>7, <2>1, Zenon DEF z, b
<1>9. PICK back \in Digits, car \in Carries :
         /\ Flow(back, car, s, m.CARRY, RightDigit(z, e, z[s]), Keep)
         /\ WroteField(v, m, r, s, e, back, car[e])
         /\ v \in Machine({<<>>})
  BY <1>6, <1>7, <1>8, RanWrites, Zenon
<1>10. z \in Digits /\ \A i \in s .. e : z[i] = IF i > s THEN x[i - 1] ELSE x[e]
  <2>1. \A i \in s .. e : z[i] = out[i]
    BY <1>6, Zenon DEF WroteField, z
  <2>2. s .. e \subseteq 0 .. 15
    BY <1>2
  <2>3. z \in Digits
    BY <1>6 DEF Machine, Digits, z
  <2> QED BY <1>5, <2>1, <2>2, <2>3, Zenon DEF MovesUp
<1>11. ASSUME NEW i \in s .. e PROVE back[i] = x[i]
  <2>1. z[s] \in 0 .. 15
    BY <1>2, <1>10 DEF Digits
  <2>2. back[i] = IF i < e THEN z[i + 1] ELSE z[s]
    <3>1. MovesDown(back, z, e, z[s], i)
      BY <1>2, <1>9, <1>10, <2>1, RightDigits, Zenon
    <3> QED BY <3>1, Zenon DEF MovesDown
  <2>3. CASE i < e
    <3>1. i + 1 \in s .. e /\ i + 1 > s /\ (i + 1) - 1 = i
      BY <1>2, <2>3
    <3> QED BY <1>10, <2>2, <2>3, <3>1
  <2>4. CASE ~(i < e)
    <3>1. i = e /\ s \in s .. e /\ ~(s > s)
      BY <1>2, <2>4
    <3> QED BY <1>10, <2>2, <2>4, <3>1
  <2> QED BY <2>3, <2>4
<1>12. v.reg = c.reg
  <2>1. Rewrote(m, c, r, s, e, out) /\ Rewrote(v, m, r, s, e, back)
    BY <1>6, <1>9, Zenon DEF WroteField, Rewrote
  <2>2. BringsBack(back, x, s, e)
    BY <1>11 DEF BringsBack
  <2> QED BY <1>1, <1>9, <2>1, <2>2, Restored, Zenon DEF x
<1>13. b.reg = v.reg
  BY <1>8, <1>9, SettingSB, Zenon
<1> QED BY <1>12, <1>13 DEF b

LEMMA RoundFromRight ==
    ASSUME NEW c \in Processor, NEW r \in RegisterName, NEW f \in Fields,
           NEW m, m = shift_right_circ_register(c, r, f)
    PROVE  shift_left_circ_register(m, r, f).reg = c.reg
<1> DEFINE s == get_start(c, f)
           e == get_end(c, f)
           x == c.reg[r]
           z == m.reg[r]
           back == LeftDigits(z, s, z[e])
           b == shift_left_circ_register(m, r, f)
<1>1. c \in Machine({<<>>})
  BY ProcessorIsMachine
<1>2. s \in 0 .. 15 /\ e \in s .. 15
  BY <1>1, FieldsOf, Zenon
<1>3. x \in Digits
  BY <1>1 DEF Digits, Machine
<1>4. PICK v : Ran(v, c, r, f, c.CARRY, RightDigit(x, e, x[s]), Keep) /\ m = SetSB(v, x[s])
  BY <1>1, ShiftingRightRound
<1> HIDE DEF s, e, x, z, b, back
<1>5. PICK out \in Digits, car \in Carries :
         /\ Flow(out, car, s, c.CARRY, RightDigit(x, e, x[s]), Keep)
         /\ WroteField(v, c, r, s, e, out, car[e])
         /\ v \in Machine({<<>>})
  BY <1>1, <1>4, RanWrites, Zenon DEF s, e
<1>6. /\ m \in Machine({<<>>}) /\ m.reg = v.reg
      /\ get_start(m, f) = get_start(v, f) /\ get_end(m, f) = get_end(v, f)
  <2> DEFINE w == SetSB(v, x[s])
  <2>1. /\ w \in Machine({<<>>}) /\ w.reg = v.reg
        /\ get_start(w, f) = get_start(v, f) /\ get_end(w, f) = get_end(v, f)
    <3>1. v \in Machine({<<>>})
      BY <1>5
    <3>2. w \in Machine({<<>>}) /\ w.reg = v.reg
      BY <3>1, SettingSB, Zenon
    <3>3. \A q : get_start(w, q) = get_start(v, q) /\ get_end(w, q) = get_end(v, q)
      BY <3>1, SettingSB, ZenonT(40)
    <3> HIDE DEF w
    <3> QED BY <3>2, <3>3
  <2> HIDE DEF w
  <2>2. m = w
    BY <1>4 DEF w
  <2> QED BY <2>1, <2>2
<1>7. get_start(m, f) = s /\ get_end(m, f) = e
  <2>1. v.P = c.P
    BY <1>5, Zenon DEF WroteField
  <2> QED BY <1>6, <2>1, Zenon DEF get_start, get_end, s, e
<1>8. b = Written(m, r, s, e, back, m.CARRY)
  <2>1. b = Written(m, r, get_start(m, f), get_end(m, f),
                    LeftDigits(m.reg[r], get_start(m, f), m.reg[r][get_end(m, f)]), m.CARRY)
    BY <1>6, ShiftingLeftRound, Zenon DEF b
  <2> QED BY <1>7, <2>1, Zenon DEF back, z
<1>9. z \in Digits /\ \A i \in s .. e : z[i] = IF i < e THEN x[i + 1] ELSE x[s]
  <2>1. x[s] \in 0 .. 15
    BY <1>2, <1>3 DEF Digits
  <2>2. ASSUME NEW i \in s .. e PROVE z[i] = IF i < e THEN x[i + 1] ELSE x[s]
    <3>1. MovesDown(out, x, e, x[s], i)
      BY <1>2, <1>3, <1>5, <2>1, RightDigits, Zenon
    <3>2. z[i] = out[i]
      BY <1>5, <1>6, Zenon DEF WroteField, z
    <3> QED BY <3>1, <3>2, Zenon DEF MovesDown
  <2>3. z \in Digits
    BY <1>6 DEF Machine, Digits, z
  <2> QED BY <2>2, <2>3
<1>10. MovesUp(z, s, z[e])
  <2>1. z[e] \in 0 .. 15
    BY <1>2, <1>9 DEF Digits
  <2> QED BY <1>2, <1>9, <2>1, LeftDigit
<1>11. ASSUME NEW i \in s .. e PROVE back[i] = x[i]
  <2>1. back[i] = IF i > s THEN z[i - 1] ELSE z[e]
    <3>1. i \in 0 .. 15
      BY <1>2
    <3> QED BY <1>10, <3>1, Zenon DEF MovesUp, back
  <2>2. CASE i > s
    <3>1. i - 1 \in s .. e /\ i - 1 < e /\ (i - 1) + 1 = i
      BY <1>2, <2>2
    <3> QED BY <1>9, <2>1, <2>2, <3>1
  <2>3. CASE ~(i > s)
    <3>1. i = s /\ e \in s .. e /\ ~(e < e)
      BY <1>2, <2>3
    <3> QED BY <1>9, <2>1, <2>3, <3>1
  <2> QED BY <2>2, <2>3
<1>12. back \in Digits /\ m.CARRY \in Carry
  BY <1>6, <1>10 DEF MovesUp, back, Machine, Carry
<1>13. WroteField(b, m, r, s, e, back, m.CARRY) /\ b \in Machine({<<>>})
  BY <1>2, <1>6, <1>8, <1>12, WrittenRegisters, WrittenIsMachine, Zenon
<1>14. b.reg = c.reg
  <2>1. Rewrote(v, c, r, s, e, out) /\ Rewrote(b, m, r, s, e, back)
    BY <1>5, <1>13, Zenon DEF WroteField, Rewrote
  <2>2. Rewrote(m, c, r, s, e, out)
    BY <1>6, <2>1 DEF Rewrote
  <2>3. BringsBack(back, x, s, e)
    BY <1>11 DEF BringsBack
  <2> QED BY <1>1, <1>13, <2>1, <2>2, <2>3, Restored, Zenon DEF x
<1> QED BY <1>14 DEF b

\* Noticing in SB what falls out changes neither a register nor a field.
NoticedSB(n, m) ==
    /\ n \in Machine({<<>>}) /\ n.reg = m.reg
    /\ \A q : get_start(n, q) = get_start(m, q) /\ get_end(n, q) = get_end(m, q)

LEMMA Noticing ==
    ASSUME NEW m \in Machine({<<>>}), NEW lost
    PROVE  NoticedSB(SetSB(m, lost), m)
<1>1. SetSB(m, lost) \in Machine({<<>>})
  BY SettingSB
<1>2. SetSB(m, lost).reg = m.reg
  BY SettingSB
<1>3. \A q : /\ get_start(SetSB(m, lost), q) = get_start(m, q)
            /\ get_end(SetSB(m, lost), q) = get_end(m, q)
  BY SettingSB
<1> QED BY <1>1, <1>2, <1>3, Zenon DEF NoticedSB

\* What is shifted to the left is back after a shift to the right, but for what fell out.
LEMMA LeftAndBack ==
    ASSUME NEW c \in Processor, NEW r \in RegisterName, NEW f \in Fields,
           NEW m, m = shift_left_register(c, r, f)
    PROVE  shift_right_register(m, r, f).reg[r] = [c.reg[r] EXCEPT ![get_end(c, f)] = 0]
<1> DEFINE s == get_start(c, f)
           e == get_end(c, f)
           x == c.reg[r]
           z == m.reg[r]
           out == LeftDigits(x, s, 0)
           n == SetSB(m, z[s])
           b == shift_right_register(m, r, f)
<1>1. c \in Machine({<<>>})
  BY ProcessorIsMachine
<1>2. s \in 0 .. 15 /\ e \in s .. 15
  BY <1>1, FieldsOf, Zenon
<1>3. x \in Digits /\ c.CARRY \in Carry
  BY <1>1 DEF Digits, Machine, Carry
<1>4. m = Written(c, r, s, e, out, c.CARRY)
  BY <1>1, ShiftingLeft, Zenon
<1>5. MovesUp(x, s, 0)
  <2>1. 0 \in 0 .. 15
    OBVIOUS
  <2> QED BY <1>2, <1>3, <2>1, LeftDigit
<1> HIDE DEF s, e, x, z, b, n
<1>6. WroteField(m, c, r, s, e, out, c.CARRY) /\ m \in Machine({<<>>})
  BY <1>1, <1>2, <1>3, <1>4, <1>5, WrittenRegisters, WrittenIsMachine, Zenon DEF MovesUp
<1>7. get_start(m, f) = s /\ get_end(m, f) = e
  BY <1>6, Zenon DEF WroteField, get_start, get_end, s, e
<1>8. Ran(b, n, r, f, m.CARRY, RightDigit(z, e, 0), Keep)
  <2>1. Ran(shift_right_register(m, r, f), SetSB(m, m.reg[r][get_start(m, f)]), r, f, m.CARRY,
            RightDigit(m.reg[r], get_end(m, f), 0), Keep)
    BY <1>6, ShiftingRight
  <2> QED BY <1>7, <2>1, Zenon DEF z, b, n
<1>9. n \in Machine({<<>>}) /\ n.reg = m.reg /\ get_start(n, f) = s /\ get_end(n, f) = e
  <2>1. NoticedSB(n, m)
    BY <1>6, Noticing, Zenon DEF n
  <2> QED BY <1>7, <2>1, Zenon DEF NoticedSB
<1>10. PICK back \in Digits, car \in Carries :
         /\ Flow(back, car, s, m.CARRY, RightDigit(z, e, 0), Keep)
         /\ WroteField(b, n, r, s, e, back, car[e])
         /\ b \in Machine({<<>>})
  BY <1>8, <1>9, RanWrites, Zenon
<1>11. z \in Digits /\ \A i \in s .. e : z[i] = IF i > s THEN x[i - 1] ELSE 0
  <2>1. \A i \in s .. e : z[i] = out[i]
    BY <1>6, Zenon DEF WroteField, z
  <2>2. s .. e \subseteq 0 .. 15
    BY <1>2
  <2>3. z \in Digits
    BY <1>6 DEF Machine, Digits, z
  <2> QED BY <1>5, <2>1, <2>2, <2>3, Zenon DEF MovesUp
<1>12. ASSUME NEW i \in s .. e PROVE back[i] = IF i = e THEN 0 ELSE x[i]
  <2>1. back[i] = IF i < e THEN z[i + 1] ELSE 0
    <3>1. 0 \in 0 .. 15
      OBVIOUS
    <3>2. MovesDown(back, z, e, 0, i)
      BY <1>2, <1>10, <1>11, <3>1, RightDigits, Zenon
    <3> QED BY <3>2, Zenon DEF MovesDown
  <2>2. CASE i < e
    <3>1. i + 1 \in s .. e /\ i + 1 > s /\ (i + 1) - 1 = i /\ i # e
      BY <1>2, <2>2
    <3> QED BY <1>11, <2>1, <2>2, <3>1
  <2>3. CASE ~(i < e)
    <3>1. i = e
      BY <1>2, <2>3
    <3> QED BY <2>1, <2>3, <3>1
  <2> QED BY <2>2, <2>3
<1>13. ASSUME NEW j \in 0 .. 15 PROVE b.reg[r][j] = IF j = e THEN 0 ELSE x[j]
  <2>1. CASE j \in s .. e
    <3>1. b.reg[r][j] = back[j]
      BY <1>10, <2>1, Zenon DEF WroteField
    <3> QED BY <1>12, <2>1, <3>1
  <2>2. CASE j \notin s .. e
    <3>1. b.reg[r][j] = n.reg[r][j]
      BY <1>10, <2>2, Zenon DEF WroteField
    <3>2. m.reg[r][j] = c.reg[r][j]
      BY <1>6, <2>2, Zenon DEF WroteField
    <3>3. e \in s .. e
      BY <1>2
    <3>4. j # e
      BY <2>2, <3>3
    <3> QED BY <1>9, <3>1, <3>2, <3>4 DEF x
  <2> QED BY <2>1, <2>2
<1>14. b.reg[r] \in Digits
  BY <1>10 DEF Machine, Digits
<1>15. b.reg[r] = [x EXCEPT ![e] = 0]
  <2> DEFINE y == b.reg[r]
  <2>1. \A j \in 0 .. 15 : y[j] = IF j = e THEN 0 ELSE x[j]
    BY <1>13
  <2>2. y \in Digits
    BY <1>14
  <2> HIDE DEF y
  <2>3. y = [x EXCEPT ![e] = 0]
    BY <1>3, <2>1, <2>2 DEF Digits
  <2> QED BY <2>3 DEF y
<1> QED BY <1>15 DEF b, x, e

\* Whatever is in the register, in every field: a shift to the right by a nibble or a bit divides what
\* the field holds, and tells by SB of what falls out; the others are undone by their opposites.
THEOREM ShiftsKeepNumbers == Spec => []ShiftsKeepTheNumber
<1>1. Performed => ShiftsKeepTheNumber
  <2> DEFINE o == Operation
             f == o.field
             r == o.to
             s == get_start(was, f)
             e == get_end(was, f)
             Divides(k) ==
                /\ Countable => Value(To(cpu), 16) = Value(To(was), 16) \div k
                /\ cpu.SB = 1 <=> was.SB = 1 \/ To(was)[Min(Places)] % k # 0
  <2> SUFFICES ASSUME Performed, Ended(Shift)
               PROVE  CASE o.kind = "sr"  -> Divides(16)
                        [] o.kind = "srb" -> Divides(2)
                        [] o.kind = "slc" -> shift_right_circ_register(cpu, r, f).reg = was.reg
                        [] o.kind = "src" -> shift_left_circ_register(cpu, r, f).reg = was.reg
                        [] o.kind = "sl"  -> shift_right_register(cpu, r, f).reg[r]
                                                = [To(was) EXCEPT ![Max(Places)] = 0]
    BY Zenon DEF ShiftsKeepTheNumber
  <2>1. done /\ o.kind \in Shift /\ o.kind \in Binary \cup Unary
    BY DEF Ended, Unary
  <2>2. was \in Processor /\ cpu = perform(was, o, Word) /\ Sound(o)
    BY <2>1, WhatWasPerformed, Zenon
  <2>3. r \in RegisterName /\ f \in Fields /\ InField(s, e)
    BY <2>1, FieldOfOperation, Zenon DEF OperationField
  <2>4. To(was) = was.reg[r] /\ To(cpu) = cpu.reg[r]
    BY Zenon DEF To
  <2>5. cpu = shift(was, o)
    BY <2>1, <2>2, Performing, Zenon
  <2>6. Max(Places) = e /\ Min(Places) = s /\ \A x : Value(x, 16) = Total(x, 16, e)[s]
    BY <2>3, Zenon DEF InField
  <2>7. ASSUME NEW k, Divided(cpu, was, r, s, e, k) PROVE Divides(k)
    BY <2>4, <2>6, <2>7, Zenon DEF Divided, Quotient
  <2> HIDE DEF Divides
  <2>8. /\ o.kind = "sl"  => cpu = shift_left_register(was, r, f)
        /\ o.kind = "sr"  => cpu = shift_right_register(was, r, f)
        /\ o.kind = "slc" => cpu = shift_left_circ_register(was, r, f)
        /\ o.kind = "src" => cpu = shift_right_circ_register(was, r, f)
        /\ o.kind = "srb" => cpu = shift_right_bit_register(was, r, f)
    BY <2>5, SMT DEF shift
  <2>9. ASSUME o.kind = "sr" PROVE Divides(16)
    BY <2>2, <2>3, <2>7, <2>8, <2>9, DividingBySixteen, Zenon
  <2>10. ASSUME o.kind = "srb" PROVE Divides(2)
    BY <2>2, <2>3, <2>7, <2>8, <2>10, DividingByTwo, Zenon
  <2>11. ASSUME o.kind = "slc" PROVE shift_right_circ_register(cpu, r, f).reg = was.reg
    BY <2>2, <2>3, <2>8, <2>11, RoundFromLeft
  <2>12. ASSUME o.kind = "src" PROVE shift_left_circ_register(cpu, r, f).reg = was.reg
    BY <2>2, <2>3, <2>8, <2>12, RoundFromRight
  <2>13. ASSUME o.kind = "sl"
         PROVE  shift_right_register(cpu, r, f).reg[r] = [To(was) EXCEPT ![Max(Places)] = 0]
    <3>1. shift_right_register(cpu, r, f).reg[r] = [was.reg[r] EXCEPT ![e] = 0]
      BY <2>2, <2>3, <2>8, <2>13, LeftAndBack
    <3> QED BY <2>4, <2>6, <3>1, Zenon
  <2> HIDE DEF r, f, s, e
  <2> QED BY <2>1, <2>9, <2>10, <2>11, <2>12, <2>13 DEF Shift
<1> QED BY <1>1, InstructionsArePerformed, PTL

----------------------------------------------------------------------------
(* Memory.                                                                 *)

Zeroes == [i \in 0 .. 15 |-> 0]
Cleared(m) == [m EXCEPT !.reg.B = Zeroes]
Back(x, s, e) == [i \in 0 .. 15 |-> IF i \in s .. e THEN x[i] ELSE 0]

\* A processor that has stored the nibbles s to e of a register, and has cleared B since.
IsStored(b, c, dat, r, s, e) ==
    /\ b \in Machine({Cells(dat, c.reg[r], s, e)})
    /\ b.mem = Cells(dat, c.reg[r], s, e) /\ b.reg["B"] = Zeroes /\ b.P = c.P
    /\ \A a \in Int : read_nibble_crc(b, a) \in 0 .. 15
    /\ \A i \in s .. e : read_nibble_crc(b, dat + (i - s)) = c.reg[r][i]

LEMMA ClearedHolds ==
    ASSUME NEW c \in Processor, NEW dat \in Int, NEW r \in RegisterName, NEW s \in 0 .. 15,
           NEW e \in s .. 15
    PROVE  IsStored(Cleared(Stored(c, dat, r, s, e)), c, dat, r, s, e)
<1> DEFINE x == c.reg[r]
           cells == Cells(dat, x, s, e)
           b == Cleared(Stored(c, dat, r, s, e))
<1>1. x \in Digits
  BY DEF Processor, Nibble, Digits
<1>2. b \in Machine({cells}) /\ b.mem = cells /\ b.reg["B"] = Zeroes /\ b.P = c.P
  <2>1. b = [[c EXCEPT !.mem = cells] EXCEPT !.reg["B"] = Zeroes]
    BY DEF Cleared, Stored
  <2>2. Zeroes \in [0 .. 15 -> 0 .. 15]
    BY DEF Zeroes
  <2>3. "B" \in RegisterName
    BY DEF RegisterName
  <2>4. c \in Machine({<<>>})
    BY ProcessorIsMachine
  <2> HIDE DEF b, cells
  <2> QED BY <2>1, <2>2, <2>3, <2>4 DEF Machine
<1>3. /\ \A a \in dat .. dat + (e - s) : cells[a] = x[(a - dat) + s]
      /\ DOMAIN cells = dat .. dat + (e - s)
  BY DEF Cells
<1> HIDE DEF b, cells, x
<1>4. ASSUME NEW a \in Int PROVE read_nibble_crc(b, a) \in 0 .. 15
  <2>1. CASE a \in dat .. dat + (e - s)
    <3>1. (a - dat) + s \in 0 .. 15
      BY <2>1
    <3>2. cells[a] \in 0 .. 15
      BY <1>1, <1>3, <2>1, <3>1 DEF Digits
    <3> QED BY <1>2, <1>3, <2>1, <3>2 DEF read_nibble_crc
  <2>2. CASE a \notin dat .. dat + (e - s)
    <3>1. a % 16 \in 0 .. 15
      OBVIOUS
    <3> QED BY <1>2, <1>3, <2>2, <3>1 DEF read_nibble_crc, Unwritten
  <2> QED BY <2>1, <2>2
<1>5. ASSUME NEW i \in s .. e PROVE read_nibble_crc(b, dat + (i - s)) = x[i]
  <2>1. dat + (i - s) \in dat .. dat + (e - s) /\ ((dat + (i - s)) - dat) + s = i
    OBVIOUS
  <2> QED BY <1>2, <1>3, <2>1 DEF read_nibble_crc
<1> QED BY <1>2, <1>4, <1>5, Zenon DEF IsStored, b, cells, x

\* What a field's nibbles come back to.
LEMMA RecallingBack ==
    ASSUME NEW c \in Processor, NEW dat \in Int, NEW r \in RegisterName, NEW f \in Fields,
           NEW b, IsStored(b, c, dat, r, get_start(c, f), get_end(c, f))
    PROVE  recall(b, "B", dat, f).reg["B"] = Back(c.reg[r], get_start(c, f), get_end(c, f))
<1> DEFINE x == c.reg[r]
           s == get_start(c, f)
           e == get_end(c, f)
           cells == Cells(dat, x, s, e)
           m == recall(b, "B", dat, f)
           V == RecallDigit(b, dat, s)
<1>1. s \in 0 .. 15 /\ e \in s .. 15
  BY ProcessorIsMachine, FieldsOf, Zenon
<1>2. b \in Machine({cells}) /\ "B" \in RegisterName
  BY DEF IsStored, RegisterName
<1>3. get_start(b, f) = s /\ get_end(b, f) = e
  BY Zenon DEF IsStored, get_start, get_end
<1>4. Ran(m, b, "B", f, b.CARRY, V, Keep)
  <2>1. \A a \in Int : read_nibble_crc(b, a) \in 0 .. 15
    BY DEF IsStored
  <2> HIDE DEF cells
  <2> QED BY <1>2, <1>3, <2>1, Recalling
<1> HIDE DEF s, e, cells, m, V
<1>5. PICK out \in Digits, car \in Carries :
         /\ Flow(out, car, s, b.CARRY, V, Keep)
         /\ WroteField(m, b, "B", s, e, out, car[e])
         /\ m \in Machine({cells})
  BY <1>2, <1>3, <1>4, RanWrites, Zenon
<1>6. x \in Digits
  BY DEF Processor, Nibble, Digits
<1> HIDE DEF x
<1>7. ASSUME NEW i \in s .. e PROVE out[i] = x[i]
  <2>1. i \in s .. 15 /\ i \in 0 .. 15 /\ i - 1 \in -1 .. 15
    BY <1>1
  <2>2. out[i] = V[<<i, car[i - 1]>>]
    BY <1>5, <2>1 DEF Flow
  <2>3. <<i, car[i - 1]>> \in Inputs
    BY <1>5, <2>1 DEF Carries, Inputs
  <2>4. V[<<i, car[i - 1]>>] = read_nibble_crc(b, dat + (i - s)) % 16
    BY <2>3 DEF V, RecallDigit
  <2>5. read_nibble_crc(b, dat + (i - s)) = x[i]
    BY Zenon DEF IsStored, x, s, e
  <2>6. x[i] \in 0 .. 15
    BY <1>6, <2>1 DEF Digits
  <2> QED BY <2>2, <2>4, <2>5, <2>6
<1>8. ASSUME NEW j \in 0 .. 15 PROVE m.reg["B"][j] = IF j \in s .. e THEN x[j] ELSE 0
  <2>1. CASE j \in s .. e
    <3>1. m.reg["B"][j] = out[j]
      BY <1>5, <2>1, Zenon DEF WroteField
    <3> QED BY <1>7, <2>1, <3>1
  <2>2. CASE j \notin s .. e
    <3>1. m.reg["B"][j] = b.reg["B"][j]
      BY <1>2, <1>5, <2>2, Zenon DEF WroteField
    <3>2. b.reg["B"][j] = 0
      BY DEF IsStored, Zeroes
    <3> QED BY <2>2, <3>1, <3>2
  <2> QED BY <2>1, <2>2
<1>9. m.reg["B"] \in [0 .. 15 -> 0 .. 15]
  BY <1>2, <1>5 DEF Machine
<1> QED BY <1>8, <1>9 DEF Back, m, x, s, e

\* The lowest n nibbles.
NibblesCameBack(m, c, dat, r, n) ==
    /\ DOMAIN m.mem = dat .. dat + n - 1
    /\ recall_n(Cleared(m), "B", dat, n).reg["B"] = Back(c.reg[r], 0, n - 1)

LEMMA RecallingNibblesBack ==
    ASSUME NEW c \in Processor, NEW dat \in Int, NEW r \in RegisterName, NEW n \in 1 .. 16
    PROVE  NibblesCameBack(store_n(c, dat, r, n), c, dat, r, n)
<1> DEFINE cells == [a \in dat .. dat + n - 1 |-> c.reg[r][a - dat]]
           m == store_n(c, dat, r, n)
           b == Cleared(m)
<1>1. m = [c EXCEPT !.mem = cells]
  <2>1. c.mem = <<>> /\ DOMAIN c.mem = {}
    BY DEF Processor
  <2>2. [a \in DOMAIN c.mem \cup dat .. dat + n - 1 |->
            IF a \in dat .. dat + n - 1 THEN c.reg[r][a - dat] ELSE c.mem[a]] = cells
    BY <2>1
  <2> HIDE DEF cells
  <2> QED BY <2>2, Zenon DEF store_n
<1>2. DOMAIN cells = dat .. dat + n - 1 /\ \A i \in 0 .. n - 1 : cells[dat + i] = c.reg[r][i]
  <2>1. \A i \in 0 .. n - 1 : dat + i \in dat .. dat + n - 1 /\ (dat + i) - dat = i
    OBVIOUS
  <2> QED BY <2>1
<1> HIDE DEF cells
<1>3. b.mem = cells /\ b.reg["B"] = Zeroes /\ m.mem = cells
  BY <1>1 DEF Cleared, Processor, RegisterName
<1>4. "reg" \in DOMAIN b /\ "B" \in DOMAIN b.reg
  BY <1>1 DEF Cleared, Processor, RegisterName
<1>5. recall_n(b, "B", dat, n).reg["B"] =
         [i \in 0 .. 15 |-> IF i < n THEN read_nibble_crc(b, dat + i) ELSE Zeroes[i]]
  <2> HIDE DEF b
  <2> QED BY <1>3, <1>4, Zenon DEF recall_n
<1> HIDE DEF b, m
<1>6. ASSUME NEW i \in 0 .. 15
      PROVE  (IF i < n THEN read_nibble_crc(b, dat + i) ELSE Zeroes[i])
                = IF i \in 0 .. n - 1 THEN c.reg[r][i] ELSE 0
  <2>1. CASE i < n
    <3>1. i \in 0 .. n - 1 /\ dat + i \in dat .. dat + n - 1
      BY <2>1
    <3>2. read_nibble_crc(b, dat + i) = c.reg[r][i]
      BY <1>2, <1>3, <3>1, Zenon DEF read_nibble_crc
    <3> QED BY <2>1, <3>1, <3>2
  <2>2. CASE ~(i < n)
    <3>1. i \notin 0 .. n - 1
      BY <2>2
    <3> QED BY <2>2, <3>1 DEF Zeroes
  <2> QED BY <2>1, <2>2
<1>7. recall_n(b, "B", dat, n).reg["B"] = Back(c.reg[r], 0, n - 1)
  BY <1>5, <1>6, Zenon DEF Back
<1> QED BY <1>2, <1>3, <1>7 DEF b, m, NibblesCameBack

\* Whatever is stored, a field or a number of nibbles, at whatever address D0 or D1 holds, is in as
\* many cells from there on, and comes back into a register of zeroes.
THEOREM StoresAreRecalled == Spec => []StoredIsRecalled
<1>1. Performed => StoredIsRecalled
  <2> DEFINE o == Operation
             f == o.field
             dat == Dat(was, o.to)
             s == get_start(was, f)
             e == get_end(was, f)
             count == IF f = NoField THEN o.n ELSE Cardinality(Places)
             places == IF f = NoField THEN 0 .. count - 1 ELSE Places
             blank == [cpu EXCEPT !.reg.B = [i \in 0 .. 15 |-> 0]]
             back == IF f = NoField THEN recall_n(blank, "B", dat, count)
                                    ELSE recall(blank, "B", dat, f)
  <2> SUFFICES ASSUME Performed, Ended({"copy"}), o.to \in {"DAT0", "DAT1"}
               PROVE  /\ DOMAIN cpu.mem = dat .. dat + count - 1
                      /\ back.reg.B = [i \in 0 .. 15 |-> IF i \in places THEN From(was)[i] ELSE 0]
    BY Zenon DEF StoredIsRecalled
  <2>1. done /\ o.kind = "copy"
    BY DEF Ended
  <2>2. was \in Processor /\ cpu = perform(was, o, Word) /\ Sound(o)
    BY <2>1, WhatWasPerformed, Zenon
  <2>3. dat \in Int /\ From(was) = was.reg[o.from] /\ blank = Cleared(cpu)
    BY <2>2, Addresses, Zenon DEF From, Cleared, Zeroes
  <2> HIDE DEF o
  <2>4. cpu = copy(was, o)
    BY <2>1, <2>2, Performing, Zenon
  <2>5. \/ o.from \in Working /\ f \in FieldCode
        \/ o.from \in Working /\ f = NoField /\ o.n \in 1 .. 16
    BY <2>1, <2>2, SMT DEF Sound, Moves, Wide, Working
  <2>6. o.from \in RegisterName
    BY <2>5, WorkingRegisters
  <2>9. /\ o.to \notin {"D0", "D1", "P"} /\ o.from \notin {"DAT0", "DAT1", "P"}
    BY <2>5, SMT DEF Working
  <2>10. /\ f = NoField => cpu = store_n(was, dat, o.from, o.n)
         /\ f # NoField => cpu = store(was, dat, o.from, f)
    BY <2>4, <2>9, SMT DEF copy
  <2> HIDE DEF dat, blank
  <2>7. CASE f = NoField
    <3>1. o.n \in 1 .. 16
      BY <2>5, <2>7 DEF NoField, FieldCode
    <3>2. cpu = store_n(was, dat, o.from, o.n)
      BY <2>7, <2>10
    <3>3. /\ DOMAIN cpu.mem = dat .. dat + o.n - 1
          /\ recall_n(Cleared(cpu), "B", dat, o.n).reg["B"] = Back(was.reg[o.from], 0, o.n - 1)
      <4>1. NibblesCameBack(store_n(was, dat, o.from, o.n), was, dat, o.from, o.n)
        BY <2>2, <2>3, <2>6, <3>1, RecallingNibblesBack, Zenon
      <4> QED BY <3>2, <4>1, Zenon DEF NibblesCameBack
    <3> QED BY <2>3, <2>7, <3>3, Zenon DEF Back
  <2>8. CASE f # NoField
    <3>1. f \in FieldCode /\ f \in Fields
      BY <2>5, <2>8 DEF FieldCode, Fields
    <3>2. was \in Machine({<<>>}) /\ s \in 0 .. 15 /\ e \in s .. 15 /\ FieldNibbles(f, was.P) = s .. e
      BY <2>2, <3>1, ProcessorIsMachine, FieldsOf, Zenon
    <3>3. Places = s .. e
      BY <3>2, Zenon DEF Places, o
    <3> HIDE DEF s, e
    <3>4. Cardinality(Places) = e + 1 - s
      BY <3>2, <3>3, NumberInField, Zenon DEF InField
    <3>5. cpu = Stored(was, dat, o.from, s, e)
      <4>1. cpu = store(was, dat, o.from, f)
        BY <2>8, <2>10
      <4> QED BY <2>3, <2>6, <3>1, <3>2, <4>1, Storing DEF s, e
    <3>6. DOMAIN cpu.mem = dat .. dat + count - 1
      <4>1. cpu.mem = Cells(dat, was.reg[o.from], s, e)
        BY <3>2, <3>5 DEF Stored, Machine
      <4>2. DOMAIN cpu.mem = dat .. dat + (e - s)
        BY <4>1 DEF Cells
      <4>3. count = e + 1 - s
        BY <2>8, <3>4
      <4> HIDE DEF count
      <4> QED BY <2>3, <3>2, <4>2, <4>3
    <3>7. recall(blank, "B", dat, f).reg["B"] = Back(was.reg[o.from], s, e)
      <4>1. IsStored(blank, was, dat, o.from, s, e)
        BY <2>2, <2>3, <2>6, <3>2, <3>5, ClearedHolds
      <4> QED BY <2>2, <2>3, <2>6, <3>1, <4>1, RecallingBack DEF s, e
    <3> QED BY <2>3, <2>8, <3>3, <3>6, <3>7, Zenon DEF Back
  <2> QED BY <2>7, <2>8
<1> QED BY <1>1, InstructionsArePerformed, PTL
=============================================================================

---------------------------- MODULE Instructions ----------------------------
(***************************************************************************)
(* One instruction of the Saturn at a time: its nibbles are fetched, it is *)
(* decoded (Executor), what it does to the registers is done (Registers),  *)
(* and what the disassembler says of it (Disassembler) is compared.        *)
(*                                                                         *)
(* Instructions whose effect is on the return stack, on interrupts, on the *)
(* bus or on the memory controller leave the registers here alone; Control,*)
(* Shutdown and Memory are about those.  So do some whose effect on the    *)
(* registers comes from outside them: see perform.                         *)
(***************************************************************************)
EXTENDS Executor, Disassembler, Registers, FiniteSetsExt

CONSTANTS
    StartPC,     \* the addresses an instruction is fetched at
    Operands,    \* the nibbles tried behind those that select the instruction
    Samples,     \* what the registers may hold before it
    MaxPlaces    \* bound on the nibbles of the fields that are compared as numbers

RegisterName == {"A", "B", "C", "D", "R0", "R1", "R2", "R3", "R4", "D0", "D1"}

\* The registers between two instructions; what is written to memory is that of one.
Processor == [reg : [RegisterName -> [0 .. 15 -> Nibble]], P : Nibble, CARRY : {0, 1}, SB : {0, 1},
              hexmode : {10, 16}, PSTAT : [0 .. 15 -> {0, 1}], mem : {<<>>}]

ASSUME InstructionsAssumption ==
    /\ StartPC \subseteq Nat
    /\ Operands \subseteq Nibble
    /\ Samples \subseteq Processor /\ Samples # {}
    /\ MaxPlaces \in Nat

VARIABLES
    pc,          \* saturn.PC
    code,        \* the nibbles from pc on, as far as they are looked at
    was,         \* the registers before the instruction
    cpu,         \* and after it
    done

vars == <<pc, code, was, cpu, done>>

Word == [i \in 0 .. LastNibble |-> IF i < Len(code) THEN code[i + 1] ELSE 0]
Decoding == step_instruction(pc, Word)
Whole == Len(code) = Decoding.reads

(***************************************************************************)
(* What the cases of emulate.c call for the operation `o' of word n.       *)
(***************************************************************************)
Dat(c, name) == Number(c.reg[IF name = "DAT0" THEN "D0" ELSE "D1"])

Arithmetic == {"add", "sub", "rsub", "inc", "dec", "neg", "not", "zero", "and", "or"}
calculate(c, o) ==
    CASE o.kind = "add"  -> add_register(c, o.to, o.to, o.from, o.field)
      [] o.kind = "sub"  -> sub_register(c, o.to, o.to, o.from, o.field)
      [] o.kind = "rsub" -> sub_register(c, o.to, o.from, o.to, o.field)
      [] o.kind = "inc"  -> inc_register(c, o.to, o.field)
      [] o.kind = "dec"  -> dec_register(c, o.to, o.field)
      [] o.kind = "neg"  -> complement_2_register(c, o.to, o.field)
      [] o.kind = "not"  -> complement_1_register(c, o.to, o.field)
      [] o.kind = "zero" -> zero_register(c, o.to, o.field)
      [] o.kind = "and"  -> and_register(c, o.to, o.to, o.from, o.field)
      [] o.kind = "or"   -> or_register(c, o.to, o.to, o.from, o.field)

Constant == {"addcon", "subcon"}
add_constant(c, o) ==
    IF o.to \in {"D0", "D1"} THEN add_address(c, o.to, IF o.kind = "addcon" THEN o.n ELSE -o.n)
    ELSE IF o.kind = "addcon" THEN add_register_constant(c, o.to, o.field, o.n)
                              ELSE sub_register_constant(c, o.to, o.field, o.n)

Shift == {"sl", "sr", "slc", "src", "srb"}
shift(c, o) ==
    CASE o.kind = "sl"  -> shift_left_register(c, o.to, o.field)
      [] o.kind = "sr"  -> shift_right_register(c, o.to, o.field)
      [] o.kind = "slc" -> shift_left_circ_register(c, o.to, o.field)
      [] o.kind = "src" -> shift_right_circ_register(c, o.to, o.field)
      [] o.kind = "srb" -> shift_right_bit_register(c, o.to, o.field)

copy(c, o) ==
    CASE o.to \in {"DAT0", "DAT1"} ->
            IF o.field = NoField THEN store_n(c, Dat(c, o.to), o.from, o.n)
                                 ELSE store(c, Dat(c, o.to), o.from, o.field)
      [] o.from \in {"DAT0", "DAT1"} ->
            IF o.field = NoField THEN recall_n(c, o.to, Dat(c, o.from), o.n)
                                 ELSE recall(c, o.to, Dat(c, o.from), o.field)
      [] o.to \in {"D0", "D1"} ->
            register_to_address(c, o.from, o.to, IF o.field = IN_FIELD THEN 1 ELSE 0)
      [] o.to = "P"   -> [c EXCEPT !.P = c.reg.C[o.n]]
      [] o.from = "P" -> [c EXCEPT !.reg.C[o.n] = c.P]
      [] OTHER        -> copy_register(c, o.to, o.from, o.field)

exchange(c, o) ==
    CASE o.from = "P"           -> [c EXCEPT !.reg.C[o.n] = c.P, !.P = c.reg.C[o.n]]
      [] o.from \in {"D0", "D1"} -> exchange_reg(c, o.to, o.from, o.field)
      [] OTHER                  -> exchange_register(c, o.to, o.from, o.field)

load(c, o, n) ==
    CASE o.to = "P" -> [c EXCEPT !.P = o.n]
      [] o.to = "A" -> load_constant(c, "A", o.n, [i \in 0 .. o.n - 1 |-> n[5 + i]])
      [] o.to = "C" -> load_constant(c, "C", o.n, [i \in 0 .. o.n - 1 |-> n[2 + i]])
      [] OTHER      -> load_addr(c, o.to, o.n, [i \in 0 .. o.n - 1 |-> n[2 + i]])

\* A test's answer goes into CARRY.
Tests == {"=", "#", "<", ">", "<=", ">=", "?P=", "?P#", "?ST=0", "?ST=1", "?bit=0", "?bit=1"}
answer(c, o) ==
    CASE o.kind = "=" -> IF o.from = "0" THEN is_zero_register(c, o.to, o.field)
                         ELSE is_equal_register(c, o.to, o.from, o.field)
      [] o.kind = "#" -> IF o.from = "0" THEN is_not_zero_register(c, o.to, o.field)
                         ELSE is_not_equal_register(c, o.to, o.from, o.field)
      [] o.kind = "<"  -> is_less_register(c, o.to, o.from, o.field)
      [] o.kind = ">"  -> is_greater_register(c, o.to, o.from, o.field)
      [] o.kind = "<=" -> is_less_or_equal_register(c, o.to, o.from, o.field)
      [] o.kind = ">=" -> is_greater_or_equal_register(c, o.to, o.from, o.field)
      [] o.kind = "?P="    -> c.P = o.n
      [] o.kind = "?P#"    -> c.P # o.n
      [] o.kind = "?ST=0"  -> c.PSTAT[o.n] = 0
      [] o.kind = "?ST=1"  -> c.PSTAT[o.n] # 0
      [] o.kind = "?bit=0" -> BitOf(c.reg[o.to], o.n) = 0
      [] o.kind = "?bit=1" -> BitOf(c.reg[o.to], o.n) = 1

Status == {"CLRST", "C=ST", "ST=C", "CSTEX", "ST=0", "ST=1", "bit=0", "bit=1",
           "P=P+1", "P=P-1", "C+P+1", "SETHEX", "SETDEC"}
status(c, o) ==
    CASE o.kind = "CLRST"  -> clear_status(c)
      [] o.kind = "C=ST"   -> status_to_register(c, "C")
      [] o.kind = "ST=C"   -> register_to_status(c, "C")
      [] o.kind = "CSTEX"  -> swap_register_status(c, "C")
      [] o.kind = "ST=0"   -> clear_program_stat(c, o.n)
      [] o.kind = "ST=1"   -> set_program_stat(c, o.n)
      [] o.kind = "bit=0"  -> clear_register_bit(c, o.to, o.n)
      [] o.kind = "bit=1"  -> set_register_bit(c, o.to, o.n)
      [] o.kind = "P=P+1"  -> [c EXCEPT !.P = (@ + 1) % 16, !.CARRY = IF c.P = 15 THEN 1 ELSE 0]
      [] o.kind = "P=P-1"  -> [c EXCEPT !.P = (@ - 1) % 16, !.CARRY = IF c.P = 0 THEN 1 ELSE 0]
      [] o.kind = "C+P+1"  -> add_p_plus_one(c, "C")
      [] o.kind = "SETHEX" -> [c EXCEPT !.hexmode = 16]
      [] o.kind = "SETDEC" -> [c EXCEPT !.hexmode = 10]

\* Left out, with the return stack, interrupts and the bus, is what comes from there or from
\* PC: A=PC, C=PC, APCEX, CPCEX, C=RSTK, A=IN and C=IN, C=ID, the carry of RTNSC and RTNCC,
\* the C[0] that SREQ? clears; and HST, the hardware status: its bits, ?HST=0's carry.
perform(c, o, n) ==
    CASE o.kind \in Arithmetic -> calculate(c, o)
      [] o.kind \in Constant   -> add_constant(c, o)
      [] o.kind \in Shift      -> shift(c, o)
      [] o.kind = "copy"       -> copy(c, o)
      [] o.kind = "exchange"   -> exchange(c, o)
      [] o.kind = "load"       -> load(c, o, n)
      [] o.kind \in Tests      -> [c EXCEPT !.CARRY = IF answer(c, o) THEN 1 ELSE 0]
      [] o.kind \in Status     -> status(c, o)
      [] OTHER                 -> c

InRegisters == Arithmetic \cup Constant \cup Shift \cup Tests \cup Status
               \cup {"copy", "exchange", "load"}

(***************************************************************************)
(* The specification                                                       *)
(***************************************************************************)
Blank == CHOOSE c \in Samples : TRUE

Begin(a) == pc = a /\ code = <<>> /\ was = Blank /\ cpu = Blank /\ done = FALSE

Init == \E a \in StartPC : Begin(a)

\* The nibbles that tell instructions apart are all tried.
Selecting(c) ==
    LET Behind(prefix, len) == SubSeq(c, 1, Len(prefix)) = prefix /\ Len(c) < len
    IN  \/ Len(c) < 3
        \/ Behind(<<0, 14>>, 4)
        \/ Behind(<<8, 0>>, 5)
        \/ Behind(<<8, 1>>, 5)
        \/ Behind(<<8, 1, 10>>, 6)

\* From the eighth on a nibble, of a constant, is the one before it once more.
Following(c) ==
    IF Selecting(c) THEN Nibble
    ELSE IF Len(c) < 7 THEN Operands ELSE {c[Len(c)]}

Fetch ==
    /\ ~Whole
    /\ \E x \in Following(code) : code' = Append(code, x)
    /\ UNCHANGED <<pc, was, cpu, done>>

\* An instruction that does not look at the registers is tried with one valuation of them.
Execute ==
    /\ Whole /\ ~done
    /\ \E c \in IF Decoding.op.kind \in InRegisters THEN Samples ELSE {Blank} :
          /\ was' = c
          /\ cpu' = perform(c, Decoding.op, Word)
    /\ done' = TRUE
    /\ UNCHANGED <<pc, code>>

\* The next instruction, wherever that is, with whatever the registers hold then.
Continue ==
    /\ done
    /\ pc' \in StartPC
    /\ code' = <<>> /\ was' = Blank /\ cpu' = Blank /\ done' = FALSE

Next == Fetch \/ Execute \/ Continue

Spec == Init /\ [][Next]_vars

\* The registers hold nibbles, the flags are flags, and no instruction is longer than the
\* nibbles a word has here.
TypeOK ==
    /\ pc \in StartPC /\ done \in BOOLEAN
    /\ code \in Seq(Nibble) /\ Decoding.reads <= LastNibble + 1
    /\ \A c \in {was, cpu} :
          /\ c.reg \in [RegisterName -> [0 .. 15 -> Nibble]]
          /\ c.P \in Nibble /\ c.CARRY \in {0, 1} /\ c.SB \in {0, 1}
          /\ c.hexmode \in {10, 16} /\ c.PSTAT \in [0 .. 15 -> {0, 1}]

(***************************************************************************)
(* The two decoders                                                        *)
(***************************************************************************)
Modes == {"class", "HP"}
Listing(mode) == disassemble(pc, Word, mode)

Starts(n, prefix) == \A i \in 1 .. Len(prefix) : n[i - 1] = prefix[i]
NullStore(n) == Starts(n, <<8, 0, 8, 1>>) /\ n[4] # 0
SecondNop3(n) == Starts(n, <<5, 2, 0>>)

\* Control goes on behind the last nibble an instruction looks at, and a call returns there:
\* the increments of PC in emulate.c agree with the offsets of its read_nibble calls.
ContinuesBehind ==
    Whole /\ ~done =>
        CASE Decoding.flow \in {"on", "test"} -> Decoding.next = Decoding.reads
          [] Decoding.flow = "call"           -> Decoding.back = pc + Decoding.reads
          [] OTHER                            -> Decoding.next \in {0, Decoding.reads}

\* The disassembler moves on by an instruction's length, but for: D0 and D1 + n and - n (one
\* nibble short), NOP5 (one short), r = r SRB.F (one short), 81A with an unknown operation (one
\* short), and RSI with a nibble other than 0 behind it, where it stores through a null pointer.
OtherLength(n) ==
    \/ n[0] = 1 /\ n[1] \in {6, 7, 8, 12}
    \/ Starts(n, <<6, 4, 0, 0>>)
    \/ Starts(n, <<8, 1, 9>>)
    \/ Starts(n, <<8, 1, 10>>) /\ n[4] > 2
    \/ NullStore(n)

SameLength ==
    Whole /\ ~done => \A mode \in Modes :
        Listing(mode).len # Decoding.reads <=> OtherLength(Word)

\* Program and listing stay in step with the code: the emulator goes on behind the instruction
\* it has decoded, and the disassembler goes on there too, but for the cases SameLength names.
InStep == ContinuesBehind /\ SameLength

\* The same operation, but for the order in which a comparison for equality or an exchange
\* names its registers.
Symmetric(o) == Two(o.kind, <<o.from, o.to>>, o.field)
SameAs(o, q) == o = q \/ (o.kind \in {"=", "#", "exchange"} /\ q = Symmetric(o))

\* The disassembler's text says what the emulator does, and there is none exactly for what is
\* illegal, but for: C to and from R0 .. R4, shown as A; 81A with R5 .. R7; RSI as above;
\* SRB.F, shown with B always; GOVLNG, shown as GOSBVL; 520, which is not NOP3 to the
\* emulator; 6400n, which traps but is shown as NOP5; in class mnemonics C=P n and P=C n, one
\* shown as the other; in HP mnemonics r = -r, shown as r = r - 1.
OtherOperation(n, mode) ==
    \/ n[0] = 1 /\ n[1] < 3 /\ n[2] >= 8
    \/ Starts(n, <<8, 1, 10>>) /\ n[4] <= 2 /\ n[5] % 8 > 4
    \/ NullStore(n)
    \/ Starts(n, <<8, 1, 9>>) /\ n[4] % 4 # 1
    \/ Starts(n, <<8, 13>>)
    \/ SecondNop3(n)
    \/ Starts(n, <<6, 4, 0, 0>>) /\ n[4] # 0
    \/ mode = "class" /\ Starts(n, <<8, 0>>) /\ n[2] \in {12, 13}
    \/ mode = "HP" /\ n[0] = 11 /\ n[1] >= 8 /\ n[2] \in 8 .. 11
    \/ mode = "HP" /\ n[0] = 15 /\ n[1] \in 8 .. 11

SameOperation ==
    Whole /\ ~done => \A mode \in Modes :
        ~SameAs(Decoding.op, Listing(mode).op) <=> OtherOperation(Word, mode)

\* The address the disassembler shows is where the emulator goes, around the ends of the
\* address space too; without one, the return stack decides in both.  (520 goes to the
\* instruction behind it in the emulator.)
SameTarget ==
    Whole /\ ~done => \A mode \in Modes :
        Listing(mode).target # Decoding.target <=> SecondNop3(Word)

\* Two decoders, written by hand with different tables, read the same instruction out of the
\* same nibbles, operation and target, but for the cases SameOperation and SameTarget name.
SameInstruction == SameOperation /\ SameTarget

(***************************************************************************)
(* The arithmetic.  A field is taken as a number, of base 16 or 10; TLC    *)
(* counts to 2^31, so that there it may have seven nibbles.                *)
(***************************************************************************)
Operation == Decoding.op
Ended(kinds) == done /\ Operation.kind \in kinds

\* The nibbles of a field, by its name in field_tbl.
FieldNibbles(f, P) ==
    CASE f \in {0, 8}    -> {P}
      [] f \in {1, 9}    -> 0 .. P         \* WP
      [] f \in {2, 10}   -> {2}            \* XS
      [] f \in {3, 11}   -> 0 .. 2         \* X
      [] f \in {4, 12}   -> {15}           \* S
      [] f \in {5, 13}   -> 3 .. 14        \* M
      [] f \in {6, 14}   -> 0 .. 1         \* B
      [] f = W_FIELD     -> 0 .. 15
      [] f = A_FIELD     -> 0 .. 4
      [] f = IN_FIELD    -> 0 .. 3

Places == FieldNibbles(Operation.field, was.P)
Countable == Cardinality(Places) <= MaxPlaces

Value(r, base) ==
    LET v[i \in 0 .. 16] == IF i > Max(Places) THEN 0 ELSE r[i] + base * v[i + 1]
    IN  v[Min(Places)]

To(c) == c.reg[Operation.to]
From(c) == c.reg[Operation.from]

IsDecimal(r) == \A i \in Places : r[i] < 10
Numbers ==
    \/ was.hexmode = 16
    \/ IsDecimal(To(was)) /\ (Operation.from = None \/ IsDecimal(From(was)))

\* Addition, subtraction and complement, done nibble by nibble and in place, are those of
\* numbers modulo what the field holds, in hexadecimal and in decimal, and CARRY says whether
\* the result left its range (after a negation: whether it is not 0).
ArithmeticIsInteger ==
    Ended({"add", "sub", "rsub", "inc", "dec", "neg", "not"}) /\ Countable /\ Numbers =>
        LET base == was.hexmode
            m == Value([i \in 0 .. 15 |-> base - 1], base) + 1
            a == Value(To(was), base)
            b == IF Operation.from = None THEN 1 ELSE Value(From(was), base)
            Is(x, carry) == Value(To(cpu), base) = x % m /\ cpu.CARRY = (IF carry THEN 1 ELSE 0)
        IN  CASE Operation.kind \in {"add", "inc"} -> Is(a + b, a + b >= m)
              [] Operation.kind \in {"sub", "dec"} -> Is(a - b, a < b)
              [] Operation.kind = "rsub"           -> Is(b - a, b < a)
              [] Operation.kind = "neg"            -> Is(0 - a, a # 0)
              [] Operation.kind = "not"            -> Is(m - 1 - a, FALSE)

\* An instruction on a field leaves every other nibble of the registers as it was, and every
\* register it does not write to: no carry, borrow or shift gets out of the field.
FieldOnly ==
    /\ Ended(Arithmetic \cup Shift \cup Constant \cup {"copy", "exchange"})
    /\ Operation.field # NoField
    => \A r \in DOMAIN was.reg, i \in 0 .. 15 :
          \/ cpu.reg[r][i] = was.reg[r][i]
          \/ /\ i \in Places
             /\ r = Operation.to \/ (r = Operation.from /\ Operation.kind = "exchange")

\* Subtracting what was added gives the number back, and borrows exactly if the addition
\* carried.
SubUndoesAdd ==
    Ended({"add"}) /\ Operation.to # Operation.from /\ Numbers =>
        LET back == sub_register(cpu, Operation.to, Operation.to, Operation.from, Operation.field)
        IN  back.reg = was.reg /\ back.CARRY = cpu.CARRY

\* In decimal mode, decimal numbers stay decimal.  (Constants are added in hexadecimal.)
DecimalStaysDecimal ==
    Ended(Arithmetic \ {"and", "or"}) /\ was.hexmode = 10 /\ Numbers => IsDecimal(To(cpu))

\* In-place loops over nibbles, with the carry in a variable or in CARRY, calculate with
\* numbers, in hexadecimal and in decimal: the three parts above.
CalculatesNumbers == ArithmeticIsInteger /\ SubUndoesAdd /\ DecimalStaysDecimal

\* The order tests, which look for the highest nibble that differs, agree with the borrow of a
\* subtraction, which runs from the lowest, in either mode.
OrderIsBorrow ==
    Ended({"<", ">", "<=", ">="}) /\ Numbers =>
        LET Borrows(x, y) == sub_register(was, x, x, y, Operation.field).CARRY = 1
            less == Borrows(Operation.to, Operation.from)
            greater == Borrows(Operation.from, Operation.to)
        IN  cpu.CARRY = 1 <=> CASE Operation.kind = "<"  -> less
                                [] Operation.kind = ">"  -> greater
                                [] Operation.kind = "<=" -> ~greater
                                [] Operation.kind = ">=" -> ~less

\* A shift to the right divides; what falls out is not lost unseen, as SB is set and stays set, and
\* what goes round or to the left comes back by the opposite shift.
ShiftsKeepTheNumber ==
    Ended(Shift) =>
        LET f == Operation.field
            r == Operation.to
            Divides(k) ==
                /\ Countable => Value(To(cpu), 16) = Value(To(was), 16) \div k
                /\ cpu.SB = 1 <=> was.SB = 1 \/ To(was)[Min(Places)] % k # 0
        IN  CASE Operation.kind = "sr"  -> Divides(16)
              [] Operation.kind = "srb" -> Divides(2)
              [] Operation.kind = "slc" -> shift_right_circ_register(cpu, r, f).reg = was.reg
              [] Operation.kind = "src" -> shift_left_circ_register(cpu, r, f).reg = was.reg
              [] Operation.kind = "sl"  ->
                    shift_right_register(cpu, r, f).reg[r] = [To(was) EXCEPT ![Max(Places)] = 0]

\* What is stored is recalled: into a register of zeroes it comes to the same places, from the
\* cells behind the address and no others.
StoredIsRecalled ==
    Ended({"copy"}) /\ Operation.to \in {"DAT0", "DAT1"} =>
        LET dat == Dat(was, Operation.to)
            count == IF Operation.field = NoField THEN Operation.n ELSE Cardinality(Places)
            places == IF Operation.field = NoField THEN 0 .. count - 1 ELSE Places
            blank == [cpu EXCEPT !.reg.B = [i \in 0 .. 15 |-> 0]]
            back == IF Operation.field = NoField THEN recall_n(blank, "B", dat, count)
                                                 ELSE recall(blank, "B", dat, Operation.field)
        IN  /\ DOMAIN cpu.mem = dat .. dat + count - 1
            /\ back.reg.B = [i \in 0 .. 15 |-> IF i \in places THEN From(was)[i] ELSE 0]
=============================================================================

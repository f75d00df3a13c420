----------------------------- MODULE Registers -----------------------------
(***************************************************************************)
(* The registers of the Saturn and what instructions do to them            *)
(* (register.c, and the part of actions.c that moves nibbles and status    *)
(* bits).  `cpu' is a record: `reg' the registers by name, each a function *)
(* from nibble numbers to nibbles (also D0 and D1, which have five), P,    *)
(* CARRY, SB, `hexmode' (16 or 10), PSTAT, and `mem', what was written to  *)
(* memory, by address.                                                     *)
(*                                                                         *)
(* The C functions work in place, one nibble after the other, and two of   *)
(* their registers may be the same: so do the operators.                   *)
(***************************************************************************)
EXTENDS Integers, Sequences

\* Mutant: XS, the exponent's sign, taken for all of X.
StartFieldsOfX == << -1, 0, 0, 0, 15, 3, 0, 0,
                     -1, 0, 0, 0, 15, 3, 0, 0,
                     0, 0, 0 >>

start_fields == << -1, 0, 2, 0, 15, 3, 0, 0,
                   -1, 0, 2, 0, 15, 3, 0, 0,
                   0, 0, 0 >>
end_fields == << -1, -1, 2, 2, 15, 14, 1, 15,
                 -1, -1, 2, 2, 15, 14, 1, 4,
                 3, 2, 0 >>

get_start(cpu, code) ==
    IF start_fields[code + 1] = -1 THEN cpu.P ELSE start_fields[code + 1]
get_end(cpu, code) ==
    IF end_fields[code + 1] = -1 THEN cpu.P ELSE end_fields[code + 1]

\* A loop over the nibbles of a field, from the lowest or from the highest.
Up(Step(_, _), cpu, code) ==
    LET s == get_start(cpu, code)
        done[i \in -1 .. 15] == IF i < s THEN cpu ELSE Step(done[i - 1], i)
    IN  done[get_end(cpu, code)]

Down(Step(_, _), cpu, code) ==
    LET e == get_end(cpu, code)
        done[i \in 0 .. 16] == IF i > e THEN cpu ELSE Step(done[i + 1], i)
    IN  done[get_start(cpu, code)]

Put(cpu, r, i, nibble) == [cpu EXCEPT !.reg[r][i] = nibble % 16]
PutCarry(cpu, r, i, nibble, carry) == [cpu EXCEPT !.reg[r][i] = nibble % 16, !.CARRY = carry]

(***************************************************************************)
(* Arithmetic.  CARRY holds what the code keeps in `c' while it loops.     *)
(***************************************************************************)
\* Mutant: the carry of the nibble before is lost.
AddWithoutCarry(cpu, res, r1, r2, code) ==
    LET Step(m, i) ==
            LET t == m.reg[r1][i] + m.reg[r2][i]
            IN  IF t < m.hexmode THEN PutCarry(m, res, i, t, 0)
                                 ELSE PutCarry(m, res, i, t - m.hexmode, 1)
    IN  Up(Step, [cpu EXCEPT !.CARRY = 0], code)

add_register(cpu, res, r1, r2, code) ==
    LET Step(m, i) ==
            LET t == m.reg[r1][i] + m.reg[r2][i] + m.CARRY
            IN  IF t < m.hexmode THEN PutCarry(m, res, i, t, 0)
                                 ELSE PutCarry(m, res, i, t - m.hexmode, 1)
    IN  Up(Step, [cpu EXCEPT !.CARRY = 0], code)

\* Mutant: a borrow is made good in hexadecimal.
SubBorrowsSixteen(cpu, res, r1, r2, code) ==
    LET Step(m, i) ==
            LET t == m.reg[r1][i] - m.reg[r2][i] - m.CARRY
            IN  IF t >= 0 THEN PutCarry(m, res, i, t, 0)
                          ELSE PutCarry(m, res, i, t + 16, 1)
    IN  Up(Step, [cpu EXCEPT !.CARRY = 0], code)

sub_register(cpu, res, r1, r2, code) ==
    LET Step(m, i) ==
            LET t == m.reg[r1][i] - m.reg[r2][i] - m.CARRY
            IN  IF t >= 0 THEN PutCarry(m, res, i, t, 0)
                          ELSE PutCarry(m, res, i, t + m.hexmode, 1)
    IN  Up(Step, [cpu EXCEPT !.CARRY = 0], code)

\* P + 1 is added to the address field, in hexadecimal.
add_p_plus_one(cpu, r) ==
    LET done[i \in -1 .. 4] ==
            IF i < 0 THEN [m |-> cpu, c |-> cpu.P + 1]
            ELSE LET t == done[i - 1].m.reg[r][i] + done[i - 1].c
                 IN  [m |-> Put(done[i - 1].m, r, i, t), c |-> t \div 16]
    IN  [done[4].m EXCEPT !.CARRY = done[4].c]

\* CARRY says in the end whether the result differs from 0.
complement_2_register(cpu, r, code) ==
    LET Step(m, i) ==
            LET t == m.hexmode - 1 - m.reg[r][i] + m.CARRY
            IN  IF t < m.hexmode THEN PutCarry(m, r, i, t, 0)
                                 ELSE PutCarry(m, r, i, t - m.hexmode, 1)
        end == Up(Step, [cpu EXCEPT !.CARRY = 1], code)
    IN  [end EXCEPT !.CARRY =
            IF \E i \in get_start(cpu, code) .. get_end(cpu, code) : end.reg[r][i] # 0
            THEN 1 ELSE 0]

complement_1_register(cpu, r, code) ==
    LET Step(m, i) == Put(m, r, i, m.hexmode - 1 - m.reg[r][i])
    IN  [Up(Step, cpu, code) EXCEPT !.CARRY = 0]

\* A nibble that does not carry ends the loop: what follows is left alone.
inc_register(cpu, r, code) ==
    LET Step(m, i) ==
            LET t == m.reg[r][i] + m.CARRY
            IN  CASE m.CARRY = 0 -> m
                  [] m.CARRY = 1 /\ t < m.hexmode -> PutCarry(m, r, i, t, 0)
                  [] OTHER -> PutCarry(m, r, i, t - m.hexmode, 1)
    IN  Up(Step, [cpu EXCEPT !.CARRY = 1], code)

dec_register(cpu, r, code) ==
    LET Step(m, i) ==
            LET t == m.reg[r][i] - m.CARRY
            IN  CASE m.CARRY = 0 -> m
                  [] m.CARRY = 1 /\ t >= 0 -> PutCarry(m, r, i, t, 0)
                  [] OTHER -> PutCarry(m, r, i, t + m.hexmode, 1)
    IN  Up(Step, [cpu EXCEPT !.CARRY = 1], code)

\* Constants are added and taken away in hexadecimal, whatever the mode: CARRY is the
\* constant in the first nibble and 1 or 0 behind it.
add_register_constant(cpu, r, code, val) ==
    LET Step(m, i) ==
            LET t == m.reg[r][i] + m.CARRY
            IN  CASE m.CARRY = 0 -> m
                  [] m.CARRY # 0 /\ t < 16 -> PutCarry(m, r, i, t, 0)
                  [] OTHER -> PutCarry(m, r, i, t - 16, 1)
    IN  Up(Step, [cpu EXCEPT !.CARRY = val], code)

sub_register_constant(cpu, r, code, val) ==
    LET Step(m, i) ==
            LET t == m.reg[r][i] - m.CARRY
            IN  CASE m.CARRY = 0 -> m
                  [] m.CARRY # 0 /\ t >= 0 -> PutCarry(m, r, i, t, 0)
                  [] OTHER -> PutCarry(m, r, i, t + 16, 1)
    IN  Up(Step, [cpu EXCEPT !.CARRY = val], code)

(***************************************************************************)
(* Moves, logic and shifts.                                                *)
(***************************************************************************)
zero_register(cpu, r, code) == LET Step(m, i) == Put(m, r, i, 0) IN Up(Step, cpu, code)

Bit(x, k) == (x \div 2 ^ k) % 2
NibbleWise(Both(_, _), x, y) ==
    Both(Bit(x, 0), Bit(y, 0)) + 2 * Both(Bit(x, 1), Bit(y, 1))
        + 4 * Both(Bit(x, 2), Bit(y, 2)) + 8 * Both(Bit(x, 3), Bit(y, 3))

or_register(cpu, res, r1, r2, code) ==
    LET Or(a, b) == IF a = 1 THEN 1 ELSE b
        Step(m, i) == Put(m, res, i, NibbleWise(Or, m.reg[r1][i], m.reg[r2][i]))
    IN  Up(Step, cpu, code)

and_register(cpu, res, r1, r2, code) ==
    LET And(a, b) == a * b
        Step(m, i) == Put(m, res, i, NibbleWise(And, m.reg[r1][i], m.reg[r2][i]))
    IN  Up(Step, cpu, code)

copy_register(cpu, to, from, code) ==
    LET Step(m, i) == Put(m, to, i, m.reg[from][i]) IN Up(Step, cpu, code)

exchange_register(cpu, r1, r2, code) ==
    LET Step(m, i) == [m EXCEPT !.reg[r1][i] = m.reg[r2][i], !.reg[r2][i] = m.reg[r1][i]]
    IN  Up(Step, cpu, code)

\* The same with D0 or D1, of which the code masks out one nibble at a time.
exchange_reg(cpu, r, d, code) ==
    LET Step(m, i) == [m EXCEPT !.reg[r][i] = m.reg[d][i], !.reg[d][i] = m.reg[r][i]]
    IN  Up(Step, cpu, code)

register_to_address(cpu, r, d, s) ==
    [cpu EXCEPT !.reg[d] = [i \in 0 .. 15 |-> IF i < (IF s = 1 THEN 4 ELSE 5)
                                              THEN cpu.reg[r][i] ELSE @[i]]]

\* Mutant: the loop runs upwards, over nibbles it has moved already.
ShiftLeftUpwards(cpu, r, code) ==
    LET s == get_start(cpu, code)
        Step(m, i) == Put(m, r, i, IF i > s THEN m.reg[r][i - 1] ELSE 0)
    IN  Up(Step, cpu, code)

shift_left_register(cpu, r, code) ==
    LET s == get_start(cpu, code)
        Step(m, i) == Put(m, r, i, IF i > s THEN m.reg[r][i - 1] ELSE 0)
    IN  Down(Step, cpu, code)

shift_left_circ_register(cpu, r, code) ==
    LET s == get_start(cpu, code)
        t == cpu.reg[r][get_end(cpu, code)]
        Step(m, i) == Put(m, r, i, IF i > s THEN m.reg[r][i - 1] ELSE t)
    IN  Down(Step, cpu, code)

\* SB, once set, stays until the program clears it.
SetSB(cpu, lost) == IF lost # 0 THEN [cpu EXCEPT !.SB = 1] ELSE cpu

shift_right_register(cpu, r, code) ==
    LET e == get_end(cpu, code)
        Step(m, i) == Put(m, r, i, IF i < e THEN m.reg[r][i + 1] ELSE 0)
    IN  Up(Step, SetSB(cpu, cpu.reg[r][get_start(cpu, code)]), code)

shift_right_circ_register(cpu, r, code) ==
    LET e == get_end(cpu, code)
        t == cpu.reg[r][get_start(cpu, code)]
        Step(m, i) == Put(m, r, i, IF i < e THEN m.reg[r][i + 1] ELSE t)
    IN  SetSB(Up(Step, cpu, code), t)

shift_right_bit_register(cpu, r, code) ==
    LET e == get_end(cpu, code)
        Step(m, i) == Put(m, r, i, (m.reg[r][i] \div 2)
                                   + 8 * (IF i < e THEN Bit(cpu.reg[r][i + 1], 0) ELSE 0))
    IN  SetSB(Down(Step, cpu, code), Bit(cpu.reg[r][get_start(cpu, code)], 0))

(***************************************************************************)
(* Tests: the first differing nibble from above decides.                   *)
(***************************************************************************)
Field(cpu, code) == get_start(cpu, code) .. get_end(cpu, code)

is_zero_register(cpu, r, code) == \A i \in Field(cpu, code) : cpu.reg[r][i] = 0
is_not_zero_register(cpu, r, code) == \E i \in Field(cpu, code) : cpu.reg[r][i] # 0
is_equal_register(cpu, r1, r2, code) ==
    \A i \in Field(cpu, code) : cpu.reg[r1][i] = cpu.reg[r2][i]
is_not_equal_register(cpu, r1, r2, code) ==
    \E i \in Field(cpu, code) : cpu.reg[r1][i] # cpu.reg[r2][i]

\* Mutant: the first differing nibble from below decides.
AgreeBelow(cpu, r1, r2, code, i) ==
    \A j \in Field(cpu, code) : j < i => cpu.reg[r1][j] = cpu.reg[r2][j]

AgreeAbove(cpu, r1, r2, code, i) ==
    \A j \in Field(cpu, code) : j > i => cpu.reg[r1][j] = cpu.reg[r2][j]

is_less_register(cpu, r1, r2, code) ==
    \E i \in Field(cpu, code) :
        cpu.reg[r1][i] < cpu.reg[r2][i] /\ AgreeAbove(cpu, r1, r2, code, i)
is_greater_register(cpu, r1, r2, code) ==
    \E i \in Field(cpu, code) :
        cpu.reg[r1][i] > cpu.reg[r2][i] /\ AgreeAbove(cpu, r1, r2, code, i)
is_less_or_equal_register(cpu, r1, r2, code) ==
    ~ \E i \in Field(cpu, code) :
        cpu.reg[r1][i] > cpu.reg[r2][i] /\ AgreeAbove(cpu, r1, r2, code, i)
is_greater_or_equal_register(cpu, r1, r2, code) ==
    ~ \E i \in Field(cpu, code) :
        cpu.reg[r1][i] < cpu.reg[r2][i] /\ AgreeAbove(cpu, r1, r2, code, i)

(***************************************************************************)
(* Status bits, single bits, and constants out of the program.             *)
(***************************************************************************)
set_program_stat(cpu, i) == [cpu EXCEPT !.PSTAT[i] = 1]
clear_program_stat(cpu, i) == [cpu EXCEPT !.PSTAT[i] = 0]
clear_status(cpu) == [cpu EXCEPT !.PSTAT = [i \in 0 .. 15 |-> IF i < 12 THEN 0 ELSE @[i]]]

\* The lowest three nibbles of a register against the lowest twelve status bits.
BitOf(r, i) == Bit(r[i \div 4], i % 4)
Nibbles(bits, i) == bits[4 * i] + 2 * bits[4 * i + 1] + 4 * bits[4 * i + 2] + 8 * bits[4 * i + 3]

register_to_status(cpu, r) ==
    [cpu EXCEPT !.PSTAT = [i \in 0 .. 15 |-> IF i < 12 THEN BitOf(cpu.reg[r], i) ELSE @[i]]]
status_to_register(cpu, r) ==
    [cpu EXCEPT !.reg[r] = [i \in 0 .. 15 |-> IF i < 3 THEN Nibbles(cpu.PSTAT, i) ELSE @[i]]]
swap_register_status(cpu, r) ==
    [status_to_register(cpu, r) EXCEPT !.PSTAT = register_to_status(cpu, r).PSTAT]

WithBit(x, k, b) == x + (b - Bit(x, k)) * 2 ^ k

set_register_bit(cpu, r, i) == [cpu EXCEPT !.reg[r][i \div 4] = WithBit(@, i % 4, 1)]
clear_register_bit(cpu, r, i) == [cpu EXCEPT !.reg[r][i \div 4] = WithBit(@, i % 4, 0)]

\* `len' nibbles from the program into a register from P on, round its end.
load_constant(cpu, r, len, nibbles) ==
    [cpu EXCEPT !.reg[r] = [i \in 0 .. 15 |->
        LET k == (i - cpu.P) % 16 IN IF k < len THEN nibbles[k] ELSE @[i]]]

load_addr(cpu, d, len, nibbles) ==
    [cpu EXCEPT !.reg[d] = [i \in 0 .. 15 |-> IF i < len THEN nibbles[i] ELSE @[i]]]

Number(r) == r[0] + 16 * r[1] + 256 * r[2] + 4096 * r[3] + 65536 * r[4]
addr_to_dat(addr, r) ==
    [i \in 0 .. 15 |-> IF i < 5 THEN (addr \div 16 ^ i) % 16 ELSE r[i]]

\* The sum in a word wider than 20 bits: what is above them, or a sign, is the carry.
add_address(cpu, d, add) ==
    LET sum == Number(cpu.reg[d]) + add
    IN  [cpu EXCEPT !.reg[d] = addr_to_dat(sum % 1048576, @),
                    !.CARRY = IF sum \in 0 .. 1048575 THEN 0 ELSE 1]

(***************************************************************************)
(* A field, or the lowest n nibbles, of a register to memory and back.     *)
(***************************************************************************)
\* A cell nothing was written to; what it holds does not matter.
Unwritten(a) == a % 16
read_nibble_crc(cpu, a) == IF a \in DOMAIN cpu.mem THEN cpu.mem[a] ELSE Unwritten(a)
write_nibble(cpu, a, nibble) ==
    [cpu EXCEPT !.mem = [b \in DOMAIN @ \cup {a} |-> IF b = a THEN nibble ELSE @[b]]]

\* Mutant: each nibble goes to its own place behind the address.
StoreInPlace(cpu, dat, r, code) ==
    LET Step(m, i) == write_nibble(m, dat + i, m.reg[r][i])
    IN  Up(Step, cpu, code)

store(cpu, dat, r, code) ==
    LET s == get_start(cpu, code)
        Step(m, i) == write_nibble(m, dat + (i - s), m.reg[r][i])
    IN  Up(Step, cpu, code)

recall(cpu, r, dat, code) ==
    LET s == get_start(cpu, code)
        Step(m, i) == Put(m, r, i, read_nibble_crc(cpu, dat + (i - s)))
    IN  Up(Step, cpu, code)

store_n(cpu, dat, r, n) ==
    [cpu EXCEPT !.mem = [a \in DOMAIN @ \cup dat .. dat + n - 1 |->
        IF a \in dat .. dat + n - 1 THEN cpu.reg[r][a - dat] ELSE @[a]]]
recall_n(cpu, r, dat, n) ==
    [cpu EXCEPT !.reg[r] = [i \in 0 .. 15 |-> IF i < n THEN read_nibble_crc(cpu, dat + i) ELSE @[i]]]
=============================================================================

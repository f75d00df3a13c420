------------------------------- MODULE Word64 -------------------------------
(***************************************************************************)
(* The 64 bit numbers of the emulator's clock (timer.c): two unsigned      *)
(* longs, hi and lo, calculated with by halves of 16 bits.  The longs were *)
(* of 32 bits when this was written; a build for 64 bit processors, where  *)
(* they have 64, is one of those the app is made for.  `L' is the number   *)
(* of values of an unsigned long: W or W * W.                              *)
(***************************************************************************)
EXTENDS Integers

CONSTANT Half      \* values of half a word: 2^16

ASSUME Word64Assumption == Half \in Nat /\ Half >= 2

W == Half * Half   \* values of 32 bits

Halves(w) == << w.lo % Half, (w.lo \div Half) % Half, w.hi % Half, (w.hi \div Half) % Half >>

\* What does not fit into a half changes the next one by d.
Carried(L, r, d) ==
    LET next(c, i) == (r[i] + IF c \div Half # 0 THEN d ELSE 0) % L
        c2 == next(r[1], 2)
        c3 == next(c2, 3)
    IN  << r[1], c2, c3, next(c3, 4) >>

\* The upper half is shifted into its place with whatever it holds beyond 16 bits.
Packed(L, r) ==
    [lo |-> ((r[2] * Half) % L) + (r[1] % Half), hi |-> ((r[4] * Half) % L) + (r[3] % Half)]

\* Mutant: borrows stop at 32 bits.
SubWithoutBorrow(L, r1, r2) ==
    LET s == Halves(r1)
        t == Halves(r2)
        r == Carried(L, [i \in 1 .. 4 |-> (t[i] - s[i]) % L], -1)
    IN  Packed(L, [r EXCEPT ![3] = (t[3] - s[3]) % L, ![4] = (t[4] - s[4]) % L])

\* r2 += r1 and r2 -= r1
add_64(L, r1, r2) ==
    LET s == Halves(r1)
        t == Halves(r2)
    IN  Packed(L, Carried(L, [i \in 1 .. 4 |-> s[i] + t[i]], 1))

sub_64(L, r1, r2) ==
    LET s == Halves(r1)
        t == Halves(r2)
    IN  Packed(L, Carried(L, [i \in 1 .. 4 |-> (t[i] - s[i]) % L], -1))

Zero == [hi |-> 0, lo |-> 0]

\* A number of ticks, as gettimeofday's seconds are shifted together.
Word(L, v) == [hi |-> v \div W, lo |-> v % L]

\* A signed long as a word: the upper 32 bits are its sign's.
Negative32(x) == x % W >= W \div 2
SignExtended(L, x) == [hi |-> IF Negative32(x) THEN W - 1 ELSE 0, lo |-> x % L]

\* The number a word stands for, and an unsigned long taken for a signed one.
Number(w) == (w.lo % W) + W * (w.hi % W)
Signed(n, values) == IF n >= values \div 2 THEN n - values ELSE n
=============================================================================

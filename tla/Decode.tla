------------------------------- MODULE Decode -------------------------------
(***************************************************************************)
(* How memory.c decodes an address.  There is one switch for reading and   *)
(* one for writing, each for the SX and for the GX, and each tests the     *)
(* controllers itself.  read_nibble_crc, for data, repeats read_nibble     *)
(* clause by clause and passes what it finds through the CRC.              *)
(* The operators say to which cell of which device an access goes:         *)
(*   "rom" "ram" "port1" "port2"   a cell of that array                    *)
(*   "dev"    a register of the I/O page                                   *)
(*   "bank"   the bank switch of the GX;  "card" its window for plug-ins   *)
(*   "zero"   nothing, which reads as 0;  "none"  nothing is written       *)
(***************************************************************************)
EXTENDS Mmu

CONSTANTS port1_size, port2_size,      \* nibbles on the cards, powers of two; the
          port1_is_ram, port2_is_ram   \* sizes that fit depend on opt_gx

ASSUME DecodeAssumption ==
    /\ port1_size \in [BOOLEAN -> Nat \ {0}]
    /\ port2_size \in [BOOLEAN -> Nat \ {0}]
    /\ port1_is_ram \in BOOLEAN /\ port2_is_ram \in BOOLEAN

RAM_SIZE == IF opt_gx THEN Base(4) ELSE Base(1)

IO == 256           \* 0x100, the 64 registers of the I/O page

InIO(a) == IO <= a /\ a < IO + 64

Bank7 == Base(7) + 15 * K4    \* 0x7f000
Card7 == Base(7) + 14 * K4    \* 0x7e000

At(mc, i, base) == mc[i].config[0] = base

\* Sizes as CONFIG is given them: the mask of the address lines decoded.
Size16K  == Base(15) + 12 * K4    \* 0xfc000, 4 * K4 nibbles
Size8K   == Base(15) + 14 * K4    \* 0xfe000
Size64K  == Base(15)
Size256K == Base(12)

\* The tests of the size of system RAM, as written out for every page they guard.
Fits(mc, off) ==
    LET size == mc[SysRAM].config[1]
    IN  \/ size = Size16K /\ off < 4 * K4
        \/ size = Size8K /\ off < 2 * K4
        \/ size = Size64K

Wide(mc) == mc[SysRAM].config[1] = Size256K

Hit(dev, i) == [dev |-> dev, at |-> i]

Zero == Hit("zero", 0)
None == Hit("none", 0)

\* Mutant: the size of the card is not looked at.
Port1Unmasked(i) == Hit("port1", i)

Port1(i) == Hit("port1", i % port1_size[opt_gx])

\* On the GX the bank switch gives address lines 18 and up.
Port2(bank, i) == Hit("port2", (bank * Base(4) + i) % port2_size[opt_gx])

WritePort1(i) == IF port1_is_ram THEN Port1(i) ELSE None

\* Mutant: writing forgets the bank switch.
WriteUnbanked(bank, i) == IF port2_is_ram THEN Port2(0, i) ELSE None

WritePort2(bank, i) == IF port2_is_ram THEN Port2(bank, i) ELSE None

----------------------------------------------------------------------------
(* HP 48SX.                                                                *)

read_nibble_sx(mc, a) ==
    LET p == Page(a) IN
    IF InIO(a) THEN IF At(mc, MMIO, IO) THEN Hit("dev", a - IO) ELSE Zero
    ELSE IF p < 7 THEN Hit("rom", a)
    ELSE IF p = 7
         THEN IF At(mc, SysRAM, Base(7)) /\ Fits(mc, a - Base(7))
              THEN Hit("ram", a - Base(7))
              ELSE Hit("rom", a)
    ELSE IF p \in 8 .. 11
         THEN IF At(mc, PORT1, Base(8)) THEN Port1(a - Base(8))
              ELSE IF At(mc, PORT2, Base(8)) THEN Port2(0, a - Base(8))
              ELSE Zero
    ELSE IF p = 15 /\ At(mc, SysRAM, Base(15)) THEN Hit("ram", a - Base(15))
    ELSE IF At(mc, PORT1, Base(12)) THEN Port1(a - Base(12))
    ELSE IF At(mc, PORT2, Base(12)) THEN Port2(0, a - Base(12))
    ELSE Zero

write_nibble_sx(mc, a) ==
    LET p == Page(a) IN
    IF p = 0 THEN IF InIO(a) /\ At(mc, MMIO, IO) THEN Hit("dev", a - IO) ELSE None
    ELSE IF p < 7 THEN None
    ELSE IF p = 7
         THEN IF At(mc, SysRAM, Base(7)) /\ Fits(mc, a - Base(7))
              THEN Hit("ram", a - Base(7))
              ELSE None
    ELSE IF p \in 8 .. 11
         THEN IF At(mc, PORT1, Base(8)) THEN WritePort1(a - Base(8))
              ELSE IF At(mc, PORT2, Base(8)) THEN WritePort2(0, a - Base(8))
              ELSE None
    ELSE IF p = 15 /\ At(mc, SysRAM, Base(15)) THEN Hit("ram", a - Base(15))
    ELSE IF At(mc, PORT1, Base(12)) THEN WritePort1(a - Base(12))
    ELSE IF At(mc, PORT2, Base(12)) THEN WritePort2(0, a - Base(12))
    ELSE None

----------------------------------------------------------------------------
(* HP 48GX: pages 0 to 9, and the pages of large RAM and of the cards.     *)

read_gx_system(mc, a) ==
    LET p == Page(a) IN
    IF InIO(a) THEN IF At(mc, MMIO, IO) THEN Hit("dev", a - IO) ELSE Zero
    ELSE IF p = 4 /\ At(mc, SysRAM, Base(4)) THEN Hit("ram", a - Base(4))
    ELSE IF p = 7 /\ a >= Bank7 /\ At(mc, BANK, Bank7) THEN Hit("bank", a - Bank7)
    ELSE IF /\ p = 7 /\ Card7 <= a /\ a < Bank7
            /\ At(mc, PORT1, Card7) \/ At(mc, PORT2, Card7)
         THEN Hit("card", 0)
    ELSE IF p = 8 /\ At(mc, SysRAM, Base(8)) /\ (Fits(mc, a - Base(8)) \/ Wide(mc))
         THEN Hit("ram", a - Base(8))
    ELSE IF p = 9 /\ a < Base(9) + K4 /\ At(mc, MMIO, Base(9))   \* mem_cntl[0]
         THEN Hit("bank", a - Base(9))
    ELSE IF p = 9 /\ At(mc, SysRAM, Base(8)) /\ Wide(mc) THEN Hit("ram", a - Base(8))
    ELSE Hit("rom", a)

read_gx_cards(mc, bank, a) ==
    LET p == Page(a) IN
    IF p < 12 /\ At(mc, SysRAM, Base(8)) /\ Wide(mc) THEN Hit("ram", a - Base(8))
    ELSE IF p = 10 /\ At(mc, PORT1, Base(10)) THEN Port1(a - Base(10))
    ELSE IF p = 11 /\ At(mc, PORT2, Base(11)) THEN Port2(bank, a - Base(11))
    ELSE IF p < 12 THEN Hit("rom", a)
    ELSE IF At(mc, SysRAM, Base(12)) /\ (p = 12 \/ Wide(mc)) THEN Hit("ram", a - Base(12))
    ELSE IF At(mc, PORT1, Base(12)) /\ (p = 12 \/ mc[PORT1].config[1] = Base(12))
         THEN Port1(a - Base(12))
    ELSE IF At(mc, PORT2, Base(12)) /\ (p = 12 \/ mc[PORT2].config[1] = Base(12))
         THEN Port2(bank, a - Base(12))
    ELSE Hit("rom", a)

read_nibble_gx(mc, bank, a) ==
    IF Page(a) < 10 THEN read_gx_system(mc, a) ELSE read_gx_cards(mc, bank, a)

write_gx_system(mc, a) ==
    LET p == Page(a) IN
    IF p = 0 THEN IF InIO(a) /\ At(mc, MMIO, IO) THEN Hit("dev", a - IO) ELSE None
    ELSE IF p = 4 THEN IF At(mc, SysRAM, Base(4)) THEN Hit("ram", a - Base(4)) ELSE None
    ELSE IF p = 7 /\ a >= Bank7 /\ At(mc, BANK, Bank7) THEN Hit("bank", a - Bank7)
    ELSE IF /\ p = 7 /\ Card7 <= a /\ a < Bank7
            /\ At(mc, PORT1, Card7) \/ At(mc, PORT2, Card7)
         THEN Hit("card", 0)
    ELSE IF p = 8 /\ At(mc, SysRAM, Base(8)) /\ (Fits(mc, a - Base(8)) \/ Wide(mc))
         THEN Hit("ram", a - Base(8))
    ELSE IF p = 9 /\ a < Base(9) + K4 /\ At(mc, BANK, Base(9))
         THEN Hit("bank", a - Base(9))
    ELSE IF p = 9 /\ At(mc, SysRAM, Base(8)) /\ Wide(mc) THEN Hit("ram", a - Base(8))
    ELSE None

write_gx_cards(mc, bank, a) ==
    LET p == Page(a) IN
    IF p < 12 /\ At(mc, SysRAM, Base(8)) /\ Wide(mc) THEN Hit("ram", a - Base(8))
    ELSE IF p = 10 /\ At(mc, PORT1, Base(10)) THEN WritePort1(a - Base(10))
    ELSE IF p = 11 /\ At(mc, PORT2, Base(11)) THEN WritePort2(bank, a - Base(11))
    ELSE IF p < 12 THEN None
    ELSE IF At(mc, SysRAM, Base(12)) /\ (p = 12 \/ Wide(mc)) THEN Hit("ram", a - Base(12))
    ELSE IF At(mc, PORT1, Base(12)) /\ (p = 12 \/ mc[PORT1].config[1] = Base(12))
         THEN WritePort1(a - Base(12))
    ELSE IF At(mc, PORT2, Base(12)) /\ (p = 12 \/ mc[PORT2].config[1] = Base(12))
         THEN WritePort2(bank, a - Base(12))
    ELSE None

write_nibble_gx(mc, bank, a) ==
    IF Page(a) < 10 THEN write_gx_system(mc, a) ELSE write_gx_cards(mc, bank, a)

----------------------------------------------------------------------------
(* The cell whose nibble goes through the CRC.                             *)

read_nibble_crc_sx(mc, a) == read_nibble_sx(mc, a)

read_nibble_crc_gx(mc, bank, a) == read_nibble_gx(mc, bank, a)

----------------------------------------------------------------------------
(* The pointers dev_memory_init sets.                                      *)

read_nibble(mc, bank, a) ==
    IF opt_gx THEN read_nibble_gx(mc, bank, a) ELSE read_nibble_sx(mc, a)

read_nibble_crc(mc, bank, a) ==
    IF opt_gx THEN read_nibble_crc_gx(mc, bank, a) ELSE read_nibble_crc_sx(mc, a)

write_nibble(mc, bank, a) ==
    IF opt_gx THEN write_nibble_gx(mc, bank, a) ELSE write_nibble_sx(mc, a)

\* Mutant: every address of the range is a bank of its own.
SwitchedUnhalved(t, bank) ==
    IF t.dev # "bank" THEN bank
    ELSE IF t.at = 0 THEN 0
    ELSE IF t.at \in 64 .. 127 THEN t.at - 64
    ELSE bank

\* What reading leaves in bank_switch.
Switched(t, bank) ==
    IF t.dev # "bank" THEN bank
    ELSE IF t.at = 0 THEN 0
    ELSE IF t.at \in 64 .. 127 THEN (t.at - 64) \div 2
    ELSE bank
=============================================================================

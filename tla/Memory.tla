------------------------------- MODULE Memory -------------------------------
(***************************************************************************)
(* The address space of the Saturn under a program that configures and     *)
(* unconfigures chips in any order and reads anywhere.  What memory holds  *)
(* is left out: the properties are about which cell an access goes to.     *)
(***************************************************************************)
EXTENDS Decode

CONSTANTS Conf,    \* bound: what CONFIG is given, by opt_gx, controller and index
          Probe    \* addresses of which the properties speak, and that are read

ASSUME MemoryAssumption ==
    /\ Conf \in [BOOLEAN -> [Controller -> [0 .. 1 -> SUBSET Address]]]
    /\ Probe \subseteq Address

VARIABLES mc, bank_switch

vars == <<opt_gx, mc, bank_switch>>

Init == opt_gx \in BOOLEAN /\ mc = do_reset /\ bank_switch = 0

RESET ==
    /\ mc' = do_reset
    /\ UNCHANGED <<opt_gx, bank_switch>>

\* Every address the program may know of; 0 is the base of chips that lack one.
Known == {0} \cup UNION {Conf[opt_gx][i][0] : i \in Controller}

CONFIG ==
    /\ \E conf \in Known \cup UNION {Conf[opt_gx][i][1] : i \in Controller} :
         /\ \A i \in Controller :   \* the bound
              i \in Lacking(mc) /\ i = Min(Lacking(mc))
                  => conf \in Conf[opt_gx][i][mc[i].unconfigured - 1]
         /\ mc' = do_configure(mc, conf)
    /\ UNCHANGED <<opt_gx, bank_switch>>

UNCNFG ==
    /\ \E conf \in Known : mc' = do_unconfigure(mc, conf)
    /\ UNCHANGED <<opt_gx, bank_switch>>

\* An instruction or a row of the screen is read.
Fetch ==
    /\ \E a \in Probe :
           bank_switch' = Switched(read_nibble(mc, bank_switch, a), bank_switch)
    /\ UNCHANGED <<opt_gx, mc>>

\* Data are read.
recall ==
    /\ \E a \in Probe :
           bank_switch' = Switched(read_nibble_crc(mc, bank_switch, a), bank_switch)
    /\ UNCHANGED <<opt_gx, mc>>

Next == RESET \/ CONFIG \/ UNCNFG \/ Fetch \/ recall

Spec == Init /\ [][Next]_vars

----------------------------------------------------------------------------
(* Properties.                                                             *)

TypeOK ==
    /\ opt_gx \in BOOLEAN
    /\ mc \in Controllers
    /\ bank_switch \in 0 .. 31

ReadAt(a) == read_nibble(mc, bank_switch, a)

WriteAt(a) == write_nibble(mc, bank_switch, a)

\* The controllers whose configuration makes a device answer.
ChipOf(dev) ==
    CASE dev = "dev" -> {MMIO} [] dev = "ram" -> {SysRAM}
      [] dev = "port1" -> {PORT1} [] dev = "port2" -> {PORT2}
      [] OTHER -> {}

\* A chip that lacks an address answers to none.  The decoders look at config
\* alone and never at unconfigured; that they may rests on the order in which
\* CONFIG fills a controller and on what UNCNFG and RESET leave in it.
OnlyConfigured ==
    \A a \in Probe : \A i \in ChipOf(ReadAt(a).dev) \cup ChipOf(WriteAt(a).dev) :
        mc[i].unconfigured = 0

\* No access leaves its array, and cell 0 of system RAM is at its base, so that
\* no two addresses share a cell of it.
InArrays ==
    \A a \in Probe : LET t == ReadAt(a) IN
        /\ t.dev = "ram" => /\ t.at \in 0 .. RAM_SIZE - 1
                            /\ t.at = a - mc[SysRAM].config[0]
        /\ t.dev = "rom" => t.at \in 0 .. (IF opt_gx THEN Base(16) ELSE Base(8)) - 1
        /\ t.dev = "port1" => t.at \in 0 .. port1_size[opt_gx] - 1
        /\ t.dev = "port2" => t.at \in 0 .. port2_size[opt_gx] - 1

\* The first 4K of page 9 if a controller is there that one switch of the GX takes
\* for the bank switch and the other does not: the one for writing asks the bank switch's own
\* controller whether it is there, the one for reading that of the I/O page.
Disputed(a) ==
    /\ opt_gx /\ Base(9) <= a /\ a < Base(9) + K4
    /\ At(mc, BANK, Base(9)) \/ At(mc, MMIO, Base(9))

Writable(dev) ==
    \/ dev \in {"ram", "dev", "bank", "card"}
    \/ dev = "port1" /\ port1_is_ram
    \/ dev = "port2" /\ port2_is_ram

\* What is written can be read back, and nothing else is written: under every
\* configuration and bank the switch for writing picks the very cell the switch
\* for reading picks, and none if that cell is not RAM.
WritesReadBack ==
    \A a \in Probe :
        \/ Disputed(a)
        \/ WriteAt(a) = IF Writable(ReadAt(a).dev) THEN ReadAt(a) ELSE None

Answers(m, i, a) == i \in ChipOf(read_nibble(m, bank_switch, a).dev)

Alone(i) == [j \in Controller |-> IF j = i THEN mc[j] ELSE Fresh(j)]

\* UNCNFG of the base of a chip takes away the chip that answers there, even if
\* another has the same base: the order of the controllers, in which UNCNFG looks,
\* is the order in which the decoders ask.  (But for a chip that comes first and
\* has a base at which the decoders do not ask for it.)
UnconfiguredIsGone ==
    [][\A conf \in Known : \A i \in BasedAt(mc, conf) :
         /\ mc' # mc /\ mc' = do_unconfigure(mc, conf)
         /\ Answers(mc, i, conf)
         /\ \A j \in BasedAt(mc, conf) : j < i => Answers(Alone(j), j, conf)
         => ~Answers(mc', i, conf)]_vars
=============================================================================

-------------------------------- MODULE Mmu --------------------------------
(***************************************************************************)
(* The memory controllers (mem_cntl in hp48.h, mmu.h) and the instructions *)
(* that configure them (actions.c).                                        *)
(*                                                                         *)
(* Each of the six takes up to two addresses, the first CONFIG setting its *)
(* size, the second its base; the chip that stands first in the chain and  *)
(* lacks one gets the next.  `unconfigured' counts what it lacks.          *)
(***************************************************************************)
EXTENDS Integers, FiniteSetsExt

VARIABLE opt_gx   \* is it an HP 48GX?  (else an SX; read_rom_file finds out)

NR_MCTL == 6

Controller == 0 .. NR_MCTL - 1

\* Indices of the controllers: the GX has one for the bank switch.
MMIO   == 0
SysRAM == 1
BANK   == 2
PORT1  == IF opt_gx THEN 3 ELSE 2
PORT2  == IF opt_gx THEN 4 ELSE 3

\* 20 bit addresses, in pages of 64K nibbles: Base(7) is 0x70000.
K4 == 4096

Base(page) == page * 16 * K4

Address == 0 .. Base(16) - 1

Page(addr) == addr \div Base(1)

\* What conf_tab_sx and conf_tab_gx say: the addresses controller i wants.
conf_tab(i) == CASE i = 0 -> 1 [] i = 5 -> 0 [] OTHER -> 2

Controllers == [Controller -> [unconfigured : 0 .. 2, config : [0 .. 1 -> Address]]]

Fresh(i) == [unconfigured |-> conf_tab(i), config |-> [j \in 0 .. 1 |-> 0]]

do_reset == [i \in Controller |-> Fresh(i)]

\* Mutant: the chip gets its base before its size.
SizeLast(mc, i, conf) ==
    [mc EXCEPT ![i] = [unconfigured |-> @.unconfigured - 1,
                       config |-> [@.config EXCEPT ![2 - mc[i].unconfigured] = conf]]]

\* Controller i takes an address.
Take(mc, i, conf) ==
    [mc EXCEPT ![i] = [unconfigured |-> @.unconfigured - 1,
                       config |-> [@.config EXCEPT ![mc[i].unconfigured - 1] = conf]]]

Lacking(mc) == {i \in Controller : mc[i].unconfigured > 0}

\* CONFIG
do_configure(mc, conf) ==
    IF Lacking(mc) = {} THEN mc ELSE Take(mc, Min(Lacking(mc)), conf)

BasedAt(mc, conf) == {i \in Controller : mc[i].config[0] = conf}

\* Mutant: UNCNFG takes the last controller with that base.
LastBased(mc, conf) ==
    IF BasedAt(mc, conf) = {} THEN mc
    ELSE [mc EXCEPT ![Max(BasedAt(mc, conf))] = Fresh(Max(BasedAt(mc, conf)))]

\* UNCNFG
do_unconfigure(mc, conf) ==
    IF BasedAt(mc, conf) = {} THEN mc
    ELSE [mc EXCEPT ![Min(BasedAt(mc, conf))] = Fresh(Min(BasedAt(mc, conf)))]
=============================================================================

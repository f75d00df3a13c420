---------------------------- MODULE Memory_proofs ----------------------------
(***************************************************************************)
(* Theorems about Memory, for both models, cards of any size, any set of   *)
(* addresses to configure chips at, and any set of addresses to access.    *)
(***************************************************************************)
EXTENDS Memory, TLAPS

(***************************************************************************)
(* A chip that lacks an address has no base: CONFIG gives the base last,   *)
(* and UNCNFG and RESET take it away first.                                *)
(***************************************************************************)
BaselessWhileLacking ==
    \A i \in Controller : mc[i].unconfigured > 0 => mc[i].config[0] = 0

IInv == TypeOK /\ BaselessWhileLacking

----------------------------------------------------------------------------
(* The controllers.                                                        *)

\* A non-empty set of controllers has a first one.
LEMMA FirstController ==
    ASSUME NEW S \in SUBSET Controller, S # {}
    PROVE  Min(S) \in S /\ \A i \in S : Min(S) =< i
<1>1. \E i \in S : \A j \in S : i =< j
  <2>1. \A n \in Controller :
           \/ \A k \in Controller : k =< n => k \notin S
           \/ \E i \in S : \A j \in S : i =< j
    <3> DEFINE P(n) == \/ \A k \in Controller : k =< n => k \notin S
                       \/ \E i \in S : \A j \in S : i =< j
    <3>0. P(0) BY DEF Controller, NR_MCTL
    <3>1. P(1) BY <3>0 DEF Controller, NR_MCTL
    <3>2. P(2) BY <3>1 DEF Controller, NR_MCTL
    <3>3. P(3) BY <3>2 DEF Controller, NR_MCTL
    <3>4. P(4) BY <3>3 DEF Controller, NR_MCTL
    <3>5. P(5) BY <3>4 DEF Controller, NR_MCTL
    <3> QED BY <3>0, <3>1, <3>2, <3>3, <3>4, <3>5 DEF Controller, NR_MCTL
  <2>2. PICK e \in S : TRUE
    OBVIOUS
  <2>3. 5 \in Controller /\ e \in Controller /\ e =< 5
    BY <2>2 DEF Controller, NR_MCTL
  <2> QED BY <2>1, <2>2, <2>3
<1> QED BY <1>1 DEF Min

\* What a controller without addresses looks like.
LEMMA FreshIsController ==
    ASSUME NEW i \in Controller
    PROVE  /\ Fresh(i) \in [unconfigured : 0 .. 2, config : [0 .. 1 -> Address]]
           /\ Fresh(i).config[0] = 0
<1>1. 0 \in Address
  <2>1. Base(16) = 1048576
    BY SMT DEF Base, K4
  <2> QED BY <2>1, SMT DEF Address
<1>2. conf_tab(i) \in 0 .. 2
  BY DEF conf_tab
<1> HIDE DEF conf_tab
<1> QED BY <1>1, <1>2 DEF Fresh

\* RESET leaves controllers without addresses.
LEMMA ResetController ==
    /\ do_reset \in Controllers
    /\ \A i \in Controller : do_reset[i].config[0] = 0
BY FreshIsController DEF do_reset, Controllers

\* CONFIG keeps the invariant.
LEMMA ConfigureKeeps ==
    ASSUME IInv, NEW conf \in Address, mc' = do_configure(mc, conf)
    PROVE  mc' \in Controllers /\ BaselessWhileLacking'
<1>1. CASE Lacking(mc) = {}
  BY <1>1 DEF IInv, TypeOK, BaselessWhileLacking, do_configure
<1>2. CASE Lacking(mc) # {}
  <2> DEFINE i == Min(Lacking(mc))
  <2>1. i \in Controller /\ mc[i].unconfigured > 0
    BY <1>2, FirstController DEF Lacking
  <2>2. mc' = Take(mc, i, conf)
    BY <1>2 DEF do_configure
  <2> HIDE DEF i
  <2>3. mc[i] \in [unconfigured : 0 .. 2, config : [0 .. 1 -> Address]]
    BY <2>1 DEF IInv, TypeOK, Controllers
  <2>4. mc[i].unconfigured \in {1, 2} /\ mc[i].unconfigured - 1 \in 0 .. 1
    BY <2>1, <2>3
  <2>5. \A j \in Controller : j # i => mc'[j] = mc[j]
    BY <2>2 DEF Take, IInv, TypeOK, Controllers
  <2>6. mc'[i] = [unconfigured |-> mc[i].unconfigured - 1,
                  config |-> [mc[i].config EXCEPT ![mc[i].unconfigured - 1] = conf]]
    BY <2>1, <2>2 DEF Take, IInv, TypeOK, Controllers
  <2>7. mc'[i] \in [unconfigured : 0 .. 2, config : [0 .. 1 -> Address]]
    BY <2>3, <2>4, <2>6
  <2>8. mc' \in Controllers
    BY <2>2, <2>7, <2>5 DEF Take, IInv, TypeOK, Controllers
  <2>9. mc'[i].unconfigured > 0 => mc'[i].config[0] = 0
    BY <2>1, <2>3, <2>4, <2>6 DEF IInv, BaselessWhileLacking
  <2> QED BY <2>5, <2>8, <2>9 DEF IInv, BaselessWhileLacking
<1> QED BY <1>1, <1>2

\* UNCNFG keeps it.
LEMMA UnconfigureKeeps ==
    ASSUME IInv, NEW conf, mc' = do_unconfigure(mc, conf)
    PROVE  mc' \in Controllers /\ BaselessWhileLacking'
<1>1. CASE BasedAt(mc, conf) = {}
  BY <1>1 DEF IInv, TypeOK, BaselessWhileLacking, do_unconfigure
<1>2. CASE BasedAt(mc, conf) # {}
  <2> DEFINE i == Min(BasedAt(mc, conf))
  <2>1. i \in Controller
    BY <1>2, FirstController DEF BasedAt
  <2>2. mc' = [mc EXCEPT ![i] = Fresh(i)]
    BY <1>2 DEF do_unconfigure
  <2> HIDE DEF i
  <2> QED BY <2>1, <2>2, FreshIsController DEF IInv, TypeOK, BaselessWhileLacking, Controllers
<1> QED BY <1>1, <1>2

----------------------------------------------------------------------------
(* The decoders.                                                           *)

LEMMA Pages == \A p \in 0 .. 16 : Base(p) = 65536 * p
BY DEF Base, K4

LEMMA PageOf ==
    ASSUME NEW a \in Address
    PROVE  /\ a \in Int
           /\ Page(a) \in 0 .. 15
           /\ 65536 * Page(a) =< a
           /\ a < 65536 * Page(a) + 65536
<1>1. Base(16) = 1048576 /\ Base(1) = 65536
  BY Pages, SMT
<1>2. a \in Int /\ 0 =< a /\ a < 1048576
  BY <1>1, SMT DEF Address
<1>3. Page(a) = a \div 65536
  BY <1>1 DEF Page
<1> QED BY <1>2, <1>3, SMT

\* A target is none of a chip that answers, or that chip has a base.
Based(m, t) ==
    /\ t.dev = "dev" => m[MMIO].config[0] # 0
    /\ t.dev = "ram" => m[SysRAM].config[0] # 0
    /\ t.dev = "port1" => m[PORT1].config[0] # 0
    /\ t.dev = "port2" => m[PORT2].config[0] # 0

LEMMA BasesNotZero ==
    /\ IO # 0 /\ Card7 # 0
    /\ \A p \in 1 .. 15 : Base(p) # 0
BY DEF IO, Card7, Base, K4

LEMMA ReadsBased ==
    ASSUME NEW m, NEW a, NEW bank
    PROVE  Based(m, read_nibble(m, bank, a))
<1> USE BasesNotZero DEF Hit, Zero, Port1, Port2, At, Based
<1>1. Based(m, read_nibble_sx(m, a))
  BY DEF read_nibble_sx
<1>2. Based(m, read_gx_system(m, a))
  BY DEF read_gx_system
<1>3. Based(m, read_gx_cards(m, bank, a))
  BY DEF read_gx_cards
<1> QED BY <1>1, <1>2, <1>3 DEF read_nibble, read_nibble_gx

LEMMA WritesBased ==
    ASSUME NEW m, NEW a, NEW bank
    PROVE  Based(m, write_nibble(m, bank, a))
<1> USE BasesNotZero DEF Hit, None, Port1, Port2, WritePort1, WritePort2, At, Based
<1>1. Based(m, write_nibble_sx(m, a))
  BY DEF write_nibble_sx
<1>2. Based(m, write_gx_system(m, a))
  BY DEF write_gx_system
<1>3. Based(m, write_gx_cards(m, bank, a))
  BY DEF write_gx_cards
<1> QED BY <1>1, <1>2, <1>3 DEF write_nibble, write_nibble_gx

LEMMA CardCell ==
    ASSUME NEW i \in Int, NEW size \in Nat \ {0}
    PROVE  i % size \in 0 .. size - 1
OBVIOUS

\* A target is a cell of its array; that of RAM is as far up as the address.
Inside(t, a) ==
    /\ t.at \in Int
    /\ t.dev = "ram" => t.at \in 0 .. RAM_SIZE - 1 /\ t.at = a - mc[SysRAM].config[0]
    /\ t.dev = "rom" => t.at \in 0 .. (IF opt_gx THEN Base(16) ELSE Base(8)) - 1
    /\ t.dev = "port1" => t.at \in 0 .. port1_size[opt_gx] - 1
    /\ t.dev = "port2" => t.at \in 0 .. port2_size[opt_gx] - 1

LEMMA CardsInside ==
    ASSUME opt_gx \in BOOLEAN, NEW a, NEW i \in Int, NEW bank \in 0 .. 31
    PROVE  Inside(Port1(i), a) /\ Inside(Port2(bank, i), a)
<1>1. bank * Base(4) + i \in Int
  BY Pages, SMT
<1>2. i % port1_size[opt_gx] \in 0 .. port1_size[opt_gx] - 1
  BY CardCell, DecodeAssumption
<1>3. (bank * Base(4) + i) % port2_size[opt_gx] \in 0 .. port2_size[opt_gx] - 1
  BY <1>1, CardCell, DecodeAssumption
<1>4. /\ i % port1_size[opt_gx] \in Int
      /\ (bank * Base(4) + i) % port2_size[opt_gx] \in Int
  BY <1>2, <1>3
<1> QED BY <1>2, <1>3, <1>4 DEF Inside, Port1, Port2, Hit
\* No read leaves its array.
LEMMA ReadsInside ==
    ASSUME opt_gx \in BOOLEAN, NEW a \in Address, NEW bank \in 0 .. 31
    PROVE  Inside(read_nibble(mc, bank, a), a)
<1> DEFINE p == Page(a)
<1>1. /\ a \in Int /\ p \in 0 .. 15
      /\ 65536 * p =< a /\ a < 65536 * p + 65536
  BY PageOf
<1>2. /\ \A i \in Int : Inside(Port1(i), a)
      /\ \A i \in Int, b \in 0 .. 31 : Inside(Port2(b, i), a)
  BY CardsInside
<1>3. Inside(Zero, a) /\ \A i \in Int : \A d \in {"dev", "bank", "card"} : Inside(Hit(d, i), a)
  BY DEF Inside, Zero, Hit
<1>4. p < 8 \/ opt_gx => Inside(Hit("rom", a), a)
  BY <1>1, Pages DEF Inside, Hit
<1>5. ASSUME NEW q \in 0 .. 15, At(mc, SysRAM, Base(q)),
             q =< p, p < q + (IF opt_gx THEN 4 ELSE 1)
      PROVE  Inside(Hit("ram", a - Base(q)), a)
  BY <1>1, <1>5, Pages DEF Inside, Hit, At, RAM_SIZE
<1>6. /\ \A q \in 0 .. 15 : a - Base(q) \in Int
      /\ a - IO \in Int /\ a - Bank7 \in Int
  BY <1>1, Pages, SMT DEF IO, Bank7, K4
<1> HIDE DEF p
<1>7. ~opt_gx => Inside(read_nibble_sx(mc, a), a)
  BY <1>1, <1>2, <1>3, <1>4, <1>5, <1>6, SMTT(60) DEF read_nibble_sx, p
<1>8. opt_gx /\ p < 10 => Inside(read_gx_system(mc, a), a)
  BY <1>1, <1>2, <1>3, <1>4, <1>5, <1>6, SMTT(60) DEF read_gx_system, p
<1>9. opt_gx /\ p >= 10 => Inside(read_gx_cards(mc, bank, a), a)
  BY <1>1, <1>2, <1>3, <1>4, <1>5, <1>6, SMTT(60) DEF read_gx_cards, p
<1> QED BY <1>1, <1>7, <1>8, <1>9 DEF read_nibble, read_nibble_gx, p
\* Writing picks what reading picks.
LEMMA WritesWhatIsRead ==
    ASSUME opt_gx \in BOOLEAN, NEW a \in Address, NEW bank \in 0 .. 31, ~Disputed(a)
    PROVE  LET r == read_nibble(mc, bank, a)
           IN  write_nibble(mc, bank, a) = IF Writable(r.dev) THEN r ELSE None
<1> DEFINE p == Page(a)
           Same(w, r) == w = IF Writable(r.dev) THEN r ELSE None
<1>1. /\ a \in Int /\ p \in 0 .. 15
      /\ 65536 * p =< a /\ a < 65536 * p + 65536
  BY PageOf
<1>2. /\ \A i : Same(Hit("ram", i), Hit("ram", i))
      /\ \A i : Same(Hit("dev", i), Hit("dev", i))
      /\ \A i : Same(Hit("bank", i), Hit("bank", i))
      /\ \A i : Same(Hit("card", i), Hit("card", i))
      /\ \A i : Same(None, Hit("rom", i))
      /\ Same(None, Zero)
  BY DEF Hit, Zero, Writable
<1>3. /\ \A i : Same(WritePort1(i), Port1(i))
      /\ \A b, i : Same(WritePort2(b, i), Port2(b, i))
  BY DEF WritePort1, WritePort2, Port1, Port2, Hit, Writable
<1>4. InIO(a) => p = 0
  BY <1>1, SMT DEF InIO, IO
<1>5. opt_gx /\ p = 9 /\ a < Base(9) + K4 => ~At(mc, BANK, Base(9)) /\ ~At(mc, MMIO, Base(9))
  BY <1>1, Pages, SMT DEF Disputed, K4
<1> HIDE DEF p, Same
<1>6. Same(write_nibble_sx(mc, a), read_nibble_sx(mc, a))
  BY <1>1, <1>2, <1>3, <1>4, SMTT(60) DEF write_nibble_sx, read_nibble_sx, p
<1>7. opt_gx /\ p < 10 => Same(write_gx_system(mc, a), read_gx_system(mc, a))
  BY <1>1, <1>2, <1>3, <1>4, <1>5, SMTT(60) DEF write_gx_system, read_gx_system, p
<1>8. p >= 10 => Same(write_gx_cards(mc, bank, a), read_gx_cards(mc, bank, a))
  BY <1>1, <1>2, <1>3, SMTT(60) DEF write_gx_cards, read_gx_cards, p
<1>9. Same(write_nibble(mc, bank, a), read_nibble(mc, bank, a))
  BY <1>1, <1>6, <1>7, <1>8 DEF write_nibble, write_nibble_gx, read_nibble, read_nibble_gx, p
<1> QED BY <1>9 DEF Same

\* Reading at any address leaves one of 32 banks.
LEMMA SwitchedBank ==
    ASSUME NEW t, t.at \in Int, NEW bank \in 0 .. 31
    PROVE  Switched(t, bank) \in 0 .. 31
BY DEF Switched

LEMMA ReadKeepsBank ==
    ASSUME opt_gx \in BOOLEAN, NEW a \in Address, NEW bank \in 0 .. 31
    PROVE  /\ Switched(read_nibble(mc, bank, a), bank) \in 0 .. 31
           /\ Switched(read_nibble_crc(mc, bank, a), bank) \in 0 .. 31
<1>1. read_nibble_crc(mc, bank, a) = read_nibble(mc, bank, a)
  BY DEF read_nibble_crc, read_nibble, read_nibble_crc_sx, read_nibble_crc_gx
<1>2. read_nibble(mc, bank, a).at \in Int
  BY ReadsInside DEF Inside
<1> QED BY <1>1, <1>2, SwitchedBank

----------------------------------------------------------------------------
(* The invariant.                                                          *)

LEMMA InitIInv == Init => IInv
BY ResetController DEF Init, IInv, TypeOK, BaselessWhileLacking

LEMMA NextIInv == IInv /\ [Next]_vars => IInv'
<1> SUFFICES ASSUME IInv, [Next]_vars
             PROVE  IInv'
  OBVIOUS
<1> USE DEF IInv, TypeOK
<1>1. CASE RESET
  BY <1>1, ResetController DEF RESET, BaselessWhileLacking
<1>2. CASE CONFIG
  <2>1. PICK conf \in Known \cup UNION {Conf[opt_gx][i][1] : i \in Controller} :
            mc' = do_configure(mc, conf)
    BY <1>2 DEF CONFIG
  <2>2. conf \in Address
    <3>1. 0 \in Address
      BY FreshIsController DEF Fresh, Controller, NR_MCTL
    <3>2. \A i \in Controller : /\ Conf[opt_gx][i][0] \subseteq Address
                               /\ Conf[opt_gx][i][1] \subseteq Address
      BY MemoryAssumption
    <3> QED BY <2>1, <3>1, <3>2 DEF Known
  <2> QED BY <1>2, <2>1, <2>2, ConfigureKeeps DEF CONFIG
<1>3. CASE UNCNFG
  <2>1. PICK conf \in Known : mc' = do_unconfigure(mc, conf)
    BY <1>3 DEF UNCNFG
  <2> QED BY <1>3, <2>1, UnconfigureKeeps DEF UNCNFG
<1>4. CASE Fetch
  BY <1>4, ReadKeepsBank, MemoryAssumption DEF Fetch, BaselessWhileLacking
<1>5. CASE recall
  BY <1>5, ReadKeepsBank, MemoryAssumption DEF recall, BaselessWhileLacking
<1>6. CASE UNCHANGED vars
  BY <1>6 DEF vars, BaselessWhileLacking
<1> QED BY <1>1, <1>2, <1>3, <1>4, <1>5, <1>6 DEF Next

LEMMA AlwaysIInv == Spec => []IInv
BY InitIInv, NextIInv, PTL DEF Spec

----------------------------------------------------------------------------
(* Theorems.                                                               *)

\* Whatever a program configures, controllers keep their ranges and a read switches
\* to no bank beyond the 32nd (mem_cntl and bank_switch in memory.c).
THEOREM ControllersTyped == Spec => []TypeOK
BY AlwaysIInv, PTL DEF IInv

\* For all addresses and configurations, a chip that lacks an address answers to
\* no read or write, although memory.c never looks at `unconfigured'.
THEOREM OnlyConfiguredAnswer == Spec => []OnlyConfigured
<1>1. IInv => OnlyConfigured
  <2> SUFFICES ASSUME IInv, NEW a \in Probe,
                      NEW i \in ChipOf(ReadAt(a).dev) \cup ChipOf(WriteAt(a).dev)
               PROVE  mc[i].unconfigured = 0
    BY DEF OnlyConfigured
  <2>1. Based(mc, ReadAt(a)) /\ Based(mc, WriteAt(a))
    BY ReadsBased, WritesBased DEF ReadAt, WriteAt
  <2>2. mc[i].config[0] # 0 /\ i \in Controller
    BY <2>1 DEF Based, ChipOf, MMIO, SysRAM, PORT1, PORT2, Controller, NR_MCTL
  <2>3. mc[i].unconfigured \in 0 .. 2
    BY <2>2 DEF IInv, TypeOK, Controllers
  <2> QED BY <2>2, <2>3 DEF IInv, BaselessWhileLacking
<1> QED BY <1>1, AlwaysIInv, PTL

\* For cards of every size and for every bank, no read leaves its array, and system
\* RAM is read linearly from its base.
THEOREM ReadsStayInArrays == Spec => []InArrays
<1>1. IInv => InArrays
  <2> SUFFICES ASSUME IInv, NEW a \in Probe
               PROVE  Inside(ReadAt(a), a)
    BY DEF InArrays, Inside
  <2> QED BY ReadsInside, MemoryAssumption DEF IInv, TypeOK, ReadAt
<1> QED BY <1>1, AlwaysIInv, PTL

\* The switches of memory.c for writing and for reading agree on every address, but
\* for the first 4K of page 9 of the GX.
THEOREM WritesAlwaysReadBack == Spec => []WritesReadBack
<1>1. IInv => WritesReadBack
  BY WritesWhatIsRead, MemoryAssumption DEF IInv, TypeOK, WritesReadBack, ReadAt, WriteAt
<1> QED BY <1>1, AlwaysIInv, PTL
\* Of two chips with one base the earlier answers, if it is one to answer there.
LEMMA EarlierAnswers ==
    ASSUME opt_gx \in BOOLEAN, NEW m, NEW n, NEW j \in Controller, NEW i \in Controller, j < i,
           NEW conf \in Address, At(m, j, conf), At(m, i, conf), n[j] = m[j],
           Answers(n, j, conf)
    PROVE  ~Answers(m, i, conf)
<1> DEFINE p == Page(conf)
<1>1. /\ conf \in Int /\ p \in 0 .. 15
      /\ 65536 * p =< conf /\ conf < 65536 * p + 65536
  BY PageOf
<1>2. /\ \A k : Port1(k).dev = "port1" /\ \A b : Port2(b, k).dev = "port2"
      /\ \A d, k : Hit(d, k).dev = d
      /\ Zero.dev = "zero"
  BY DEF Port1, Port2, Hit, Zero
<1>3. CASE ~opt_gx
  BY <1>1, <1>2, <1>3, Pages, SMTT(60)
  DEF Answers, ChipOf, read_nibble, read_nibble_sx, At, Fits, MMIO, SysRAM, PORT1, PORT2
<1>4. CASE opt_gx /\ p < 10
  BY <1>1, <1>2, <1>4, Pages, SMTT(60)
  DEF Answers, ChipOf, read_nibble, read_nibble_gx, read_gx_system, At, Fits, Wide,
      MMIO, SysRAM, PORT1, PORT2
<1>5. CASE opt_gx /\ p >= 10
  BY <1>1, <1>2, <1>5, Pages, SMTT(60)
  DEF Answers, ChipOf, read_nibble, read_nibble_gx, read_gx_cards, At, Wide,
      MMIO, SysRAM, PORT1, PORT2
<1> QED BY <1>1, <1>3, <1>4, <1>5
\* UNCNFG of the base of a chip that answers there silences it, whichever other chips
\* have that base (do_unconfigure against the order of the tests in memory.c).
THEOREM UnconfiguredFallsSilent == Spec => UnconfiguredIsGone
<1> DEFINE Gone ==
      \A conf \in Known : \A i \in BasedAt(mc, conf) :
         /\ mc' # mc /\ mc' = do_unconfigure(mc, conf)
         /\ Answers(mc, i, conf)
         /\ \A j \in BasedAt(mc, conf) : j < i => Answers(Alone(j), j, conf)
         => ~Answers(mc', i, conf)
<1>1. IInv => Gone
  <2> SUFFICES ASSUME IInv, NEW conf \in Known, NEW i \in BasedAt(mc, conf),
                      mc' = do_unconfigure(mc, conf), Answers(mc, i, conf),
                      \A j \in BasedAt(mc, conf) : j < i => Answers(Alone(j), j, conf)
               PROVE  ~Answers(mc', i, conf)
    OBVIOUS
  <2> DEFINE k == Min(BasedAt(mc, conf))
  <2>1. k \in BasedAt(mc, conf) /\ k =< i
    BY FirstController DEF BasedAt
  <2>2. i \in Controller /\ k \in Controller /\ At(mc, i, conf) /\ At(mc, k, conf)
    BY <2>1 DEF BasedAt, At
  <2>3. conf \in Address
    <3>1. 0 \in Address
      BY FreshIsController DEF Fresh, Controller, NR_MCTL
    <3> QED BY <3>1, MemoryAssumption DEF Known, IInv, TypeOK
  <2>4. mc' = [mc EXCEPT ![k] = Fresh(k)]
    BY <2>1 DEF do_unconfigure
  <2> HIDE DEF k
  <2>5. CASE k < i
    <3>1. Answers(Alone(k), k, conf) /\ Alone(k)[k] = mc[k]
      BY <2>1, <2>2, <2>5 DEF Alone
    <3>2. opt_gx \in BOOLEAN
      BY DEF IInv, TypeOK
    <3> QED BY <2>2, <2>3, <2>5, <3>1, <3>2, EarlierAnswers
  <2>6. CASE k = i
    <3>1. mc'[i].config[0] = 0
      BY <2>2, <2>4, <2>6, FreshIsController DEF IInv, TypeOK, Controllers
    <3>2. Based(mc', read_nibble(mc', bank_switch, conf))
      BY ReadsBased
    <3> QED BY <3>1, <3>2 DEF Answers, ChipOf, Based
  <2> QED BY <2>1, <2>2, <2>5, <2>6 DEF Controller, NR_MCTL
<1>2. IInv /\ [Next]_vars => [Gone]_vars
  BY <1>1
<1> QED BY <1>2, AlwaysIInv, PTL DEF Spec, UnconfiguredIsGone
=============================================================================

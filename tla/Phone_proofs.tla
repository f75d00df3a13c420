---------------------------- MODULE Phone_proofs ----------------------------
(***************************************************************************)
(* What the phone keeps for the calculator: its files and its clock.       *)
(* Persist: what a start brings back, for every number of epochs, of       *)
(* saves, crashes and failed writes, and every choice of sizes for the     *)
(* ports.  Clock: that its two timers add up, for longs of 32 bits and of  *)
(* 64 and halves of any size; and, for longs of 32 bits, that the time     *)
(* shown keeps to the phone's and to what the user sets.                   *)
(***************************************************************************)
EXTENDS Persist, Clock, TLAPS

----------------------------------------------------------------------------
(* The files.  The inductive invariant.                                    *)

Array == [size : Int, image : Int]

Typed ==
    /\ file \in [PartNames -> Array] /\ machine \in [PartNames -> Array]
    /\ pref \in Prefs /\ epoch \in Nat
    /\ write \in [part : 1 .. Len(Part), opened : BOOLEAN, taken : Array,
                  back : {"idle", "exit"}]

\* What has contents is not empty, and a file without contents has a size nobody accepts.
Filled(a) == a.image # None => a.size > 0
AFile(f) == f \in Array /\ Filled(f) /\ (f.image = None => f \in {Missing, Absent, Partial})

Sound ==
    /\ \A p \in PartNames : AFile(file[p]) /\ Filled(machine[p])
    /\ Filled(write.taken)
    /\ machine["conf"].size = ConfSize
    /\ emu \in {"ram", "ports", "run"} => machine["ram"].size = RamSize
    /\ \A p \in PortNames : machine[p].image # None => Accepted(p, machine[p].size)

Phases ==
    /\ ui = "down" <=> emu = "none"
    /\ ui = "saving" => emu = "run" \/ early

\* While the files are read, nobody but Java has touched them.
AsSet(f, size) == IF size = 0 THEN f = Missing ELSE f.size = size
Ready ==
    emu \in {"register", "conf", "ram", "ports"} /\ ~early =>
      /\ file["ram"].size = RamSize
      /\ gx /\ ~need_to_quit =>
           \A p \in PortNames : file[p] = Partial \/ AsSet(file[p], pref[p])

\* What was saved in one piece lies in the files, in sizes that will be accepted.
Saved ==
    good.epoch # None =>
      /\ ui # "saving"
      /\ file["conf"] = Of(ConfSize, good.epoch) /\ file["ram"] = Of(RamSize, good.epoch)
      /\ good.ports \subseteq PortNames
      /\ \A p \in good.ports :
           pref[p] # 0 /\ Accepted(p, pref[p]) /\ file[p] = Of(pref[p], good.epoch)

\* A save that was begun by a running program has filled the files it is through with.
Saving ==
    ui = "saving" =>
      /\ write.opened => file[ThePart] = Absent
      /\ ~early =>
           /\ write.opened => write.taken.size = machine[ThePart].size
           /\ write.part > 1 => file["conf"].image = None \/ file["conf"].size = ConfSize
           /\ write.part > 2 => file["ram"].size = RamSize
           /\ write.part > 3 =>
                (machine["port1"].image # None => file["port1"].size = machine["port1"].size)

\* A start that nobody disturbs has read the registers, then the memory, of that save.
BroughtBack ==
    ~early /\ ~need_to_quit /\ good.epoch # None =>
      /\ emu \in {"ram", "ports"} => machine["conf"].image = good.epoch
      /\ emu = "ports" => machine["ram"].image = good.epoch

FilesInv == Typed /\ Sound /\ Phases /\ Ready /\ Saved /\ Saving /\ BroughtBack

----------------------------------------------------------------------------
(* What the operators of Persist do.                                       *)

LEMMA PartIs ==
    /\ Len(Part) = 4 /\ Part[1] = "conf" /\ Part[2] = "ram"
    /\ Part[3] = "port1" /\ Part[4] = "port2"
BY DEF Part

LEMMA SettingsAre ==
    /\ \A n \in Setting1 : n \in Int /\ (n = 0 \/ n >= 128)
    /\ \A n \in Setting2 : n \in Int /\ (n = 0 \/ n >= 128)
<1> USE PersistAssumption DEF PersistAssumption
<1>1. ASSUME NEW n \in Setting1
      PROVE  n \in Int /\ (n = 0 \/ n >= 128)
  <2>1. n = 0 \/ n = 128
    OBVIOUS
  <2> QED BY <2>1
<1>2. ASSUME NEW n \in Setting2
      PROVE  n \in Int /\ (n = 0 \/ n >= 128)
  <2>1. n = 0 \/ \E k \in 1 .. 32 : n = 128 * k
    OBVIOUS
  <2> QED BY <2>1
<1> QED BY <1>1, <1>2

LEMMA PrefsAre ==
    ASSUME NEW s \in Prefs, NEW p \in PortNames
    PROVE  s[p] \in Int /\ (s[p] = 0 \/ s[p] >= 128)
<1>1. s.port1 \in Setting1 /\ s.port2 \in Setting2
  BY DEF Prefs
<1> QED BY <1>1, SettingsAre DEF PortNames

\* read_files takes every size but 0 that the settings of the GX offer.
LEMMA SettingAccepted ==
    ASSUME gx, NEW s \in Prefs, NEW p \in PortNames, s[p] # 0
    PROVE  Accepted(p, s[p])
<1> USE PersistAssumption DEF PersistAssumption
<1>1. CASE p = "port1"
  <2>1. s.port1 \in Setting1
    BY DEF Prefs
  <2> QED BY <1>1, <2>1 DEF Accepted
<1>2. CASE p = "port2"
  <2>1. s.port2 \in Setting2
    BY DEF Prefs
  <2>2. PICK n \in 1 .. 32 : s.port2 = 128 * n
    BY <1>2, <2>1
  <2>3. (128 * n) % 128 = 0
    OBVIOUS
  <2> QED BY <1>2, <2>2, <2>3 DEF Accepted
<1> QED BY <1>1, <1>2 DEF PortNames

\* managePort leaves a file of the size it is asked for, none, or one it could not fill.
LEMMA ManagedIs ==
    ASSUME NEW f, AFile(f), NEW size \in Int, size = 0 \/ size >= 128,
           NEW failed \in BOOLEAN
    PROVE  LET m == managed(f, size, failed)
           IN  /\ AFile(m)
               /\ m = Partial \/ AsSet(m, size)
               /\ size # 0 /\ f.size = size => m = f
BY DEF managed, AFile, Array, Filled, AsSet, Of, Fits, Missing, Absent, Partial, None, Cold

LEMMA CheckPrefsDoes ==
    ASSUME NEW files \in [PartNames -> Array], \A p \in PartNames : AFile(files[p]),
           NEW sizes \in Prefs, checkPrefs(files, sizes)
    PROVE  /\ file' \in [PartNames -> Array]
           /\ \A p \in PartNames : AFile(file'[p])
           /\ file'["conf"] = files["conf"] /\ file'["ram"] = files["ram"]
           /\ \A p \in PortNames :
                /\ gx => file'[p] = Partial \/ AsSet(file'[p], sizes[p])
                /\ sizes[p] # 0 /\ files[p].size = sizes[p] => file'[p] = files[p]
<1>1. CASE ~gx
  BY <1>1 DEF checkPrefs, PartNames
<1>2. CASE gx
  <2>1. PICK failed \in SUBSET PortNames :
          file' = [p \in PartNames |->
                      IF p \in PortNames THEN managed(files[p], sizes[p], p \in failed)
                                         ELSE files[p]]
    BY <1>2 DEF checkPrefs
  <2>2. ASSUME NEW p \in PortNames
        PROVE  /\ AFile(file'[p]) /\ (file'[p] = Partial \/ AsSet(file'[p], sizes[p]))
               /\ sizes[p] # 0 /\ files[p].size = sizes[p] => file'[p] = files[p]
    <3>1. file'[p] = managed(files[p], sizes[p], p \in failed) /\ AFile(files[p])
      BY <2>1 DEF PartNames
    <3>2. \E b \in BOOLEAN : file'[p] = managed(files[p], sizes[p], b)
      <4>1. CASE p \in failed
        BY <3>1, <4>1
      <4>2. CASE p \notin failed
        BY <3>1, <4>2 DEF managed
      <4> QED BY <4>1, <4>2
    <3>3. sizes[p] \in Int /\ (sizes[p] = 0 \/ sizes[p] >= 128)
      BY PrefsAre
    <3> HIDE DEF AFile, AsSet
    <3> QED BY <3>1, <3>2, <3>3, ManagedIs
  <2>3. \A p \in PartNames \ PortNames : file'[p] = files[p]
    BY <2>1
  <2>4. \A p \in PartNames : AFile(file'[p])
    BY <2>2, <2>3
  <2>5. file' \in [PartNames -> Array]
    BY <2>1, <2>4 DEF AFile
  <2> QED BY <2>2, <2>3, <2>4, <2>5 DEF PartNames, PortNames
<1> QED BY <1>1, <1>2

\* The parts a save still has to take: the cards that hold RAM, behind the memory.
LEMMA FollowingIs ==
    ASSUME Typed
    PROVE  /\ Following \subseteq 2 .. 4
           /\ write.part = 1 => 2 \in Following
           /\ write.part < 3 => (3 \in Following <=> machine["port1"].image # None)
           /\ write.part < 4 => (4 \in Following <=> machine["port2"].image # None)
           /\ write.part > 1 => 2 \notin Following
           /\ write.part > 2 => 3 \notin Following
           /\ write.part > 3 => 4 \notin Following
BY PartIs DEF Typed, Following, PortNames

LEMMA MinIs ==
    ASSUME NEW S, S \subseteq 2 .. 4, S # {}
    PROVE  /\ Min(S) \in S /\ \A x \in S : Min(S) <= x
<1>1. \E x \in S : \A y \in S : x <= y
  <2>1. CASE 2 \in S
    BY <2>1
  <2>2. CASE 2 \notin S /\ 3 \in S
    BY <2>2
  <2>3. CASE 2 \notin S /\ 3 \notin S
    <3>1. PICK x \in S : x \in 2 .. 4
      OBVIOUS
    <3>2. x = 4
      BY <2>3, <3>1
    <3> QED BY <2>3, <3>2
  <2> QED BY <2>1, <2>2, <2>3
<1> QED BY <1>1 DEF Min

----------------------------------------------------------------------------
(* FilesInv is inductive.                                                  *)

LEMMA FilesInit == Init => FilesInv
<1> SUFFICES ASSUME Init PROVE FilesInv
  OBVIOUS
<1> USE DEF Init, Fresh, Missing, Absent, Of, None, Cold, Shipped, ConfSize
<1>1. Typed
  <2>1. pref \in Prefs
    BY PersistAssumption DEF PersistAssumption, Prefs
  <2>2. write \in [part : 1 .. Len(Part), opened : BOOLEAN, taken : Array,
                   back : {"idle", "exit"}]
    BY PartIs DEF NotWriting, Array
  <2> QED BY <2>1, <2>2 DEF Typed, Array, PartNames, PortNames
<1>2. Sound
  BY DEF Sound, AFile, Filled, Array, NotWriting, PartNames, PortNames
<1> QED BY <1>1, <1>2 DEF FilesInv, Phases, Ready, Saved, Saving, BroughtBack, NoGood

LEMMA CreateKeeps ==
    ASSUME FilesInv, Create
    PROVE  FilesInv'
<1> USE DEF FilesInv
<1>1. checkPrefs(repaired, pref) /\ ui = "down" /\ ui' = "idle" /\ emu' = "register"
      /\ UNCHANGED <<gx, pref, write, need_to_quit, machine, epoch, good, early>>
  BY DEF Create, history
<1> DEFINE files == repaired
<1>2. \A p \in PartNames : files[p] = IF p \notin PortNames /\ NeedsAsset(p) THEN Asset(p)
                                                                             ELSE file[p]
  BY DEF repaired
<1>3. ASSUME NEW p \in PartNames PROVE AFile(files[p])
  <2>1. AFile(Asset(p))
    BY DEF Asset, Of, AFile, Filled, Array, FullSize, RamSize, ConfSize, Shipped, None
  <2> QED BY <1>2, <2>1 DEF Sound
<1>4. files \in [PartNames -> Array]
  BY <1>3 DEF AFile, repaired
<1>5. /\ files["ram"].size = RamSize
      /\ \A e : file["ram"] = Of(RamSize, e) => files["ram"] = file["ram"]
      /\ \A e : file["conf"] = Of(ConfSize, e) => files["conf"] = file["conf"]
      /\ \A p \in PortNames : files[p] = file[p]
  BY <1>2 DEF PartNames, PortNames, NeedsAsset, Asset, FullSize, Of, RamSize, ConfSize
<1>6. pref \in Prefs
  BY DEF Typed
<1> HIDE DEF files
<1>7. /\ file' \in [PartNames -> Array]
      /\ \A p \in PartNames : AFile(file'[p])
      /\ file'["conf"] = files["conf"] /\ file'["ram"] = files["ram"]
      /\ \A p \in PortNames :
           /\ gx => file'[p] = Partial \/ AsSet(file'[p], pref[p])
           /\ pref[p] # 0 /\ files[p].size = pref[p] => file'[p] = files[p]
  BY <1>1, <1>3, <1>4, <1>6, CheckPrefsDoes DEF files
<1>8. Typed' /\ Phases' /\ Saving' /\ BroughtBack'
  BY <1>1, <1>7 DEF Typed, Phases, Saving, BroughtBack
<1>9. Sound'
  BY <1>1, <1>7 DEF Sound, Accepted
<1>10. Ready'
  BY <1>1, <1>5, <1>7 DEF Ready, RamSize
<1>11. Saved'
  BY <1>1, <1>5, <1>7 DEF Saved, Of, RamSize, Accepted
<1> QED BY <1>8, <1>9, <1>10, <1>11

LEMMA SettingsKeeps ==
    ASSUME FilesInv, Settings
    PROVE  FilesInv'
<1> USE DEF FilesInv
<1>1. /\ checkPrefs(file, pref') /\ pref' \in Prefs
      /\ good'.epoch = good.epoch
      /\ good.epoch # None => good'.ports = {p \in good.ports : pref'[p] = pref[p]}
      /\ ui = "idle"
      /\ UNCHANGED <<gx, ui, write, need_to_quit, emu, machine, epoch, early>>
  BY DEF Settings, saturn
<1>2. /\ file' \in [PartNames -> Array]
      /\ \A p \in PartNames : AFile(file'[p])
      /\ file'["conf"] = file["conf"] /\ file'["ram"] = file["ram"]
      /\ \A p \in PortNames :
           /\ gx => file'[p] = Partial \/ AsSet(file'[p], pref'[p])
           /\ pref'[p] # 0 /\ file[p].size = pref'[p] => file'[p] = file[p]
  BY <1>1, CheckPrefsDoes DEF Typed, Sound
<1>3. Typed' /\ Phases' /\ Saving' /\ BroughtBack'
  BY <1>1, <1>2 DEF Typed, Phases, Saving, BroughtBack
<1>4. Sound'
  BY <1>1, <1>2 DEF Sound, Accepted, RamSize
<1>5. Ready'
  BY <1>1, <1>2 DEF Ready, RamSize
<1>6. Saved'
  BY <1>1, <1>2 DEF Saved, Of, RamSize, Accepted
<1> QED BY <1>3, <1>4, <1>5, <1>6

LEMMA ResetKeeps ==
    ASSUME FilesInv, ResetMemory
    PROVE  FilesInv'
<1> USE DEF FilesInv
<1>1. /\ ui = "idle" /\ ui' = "finishing" /\ need_to_quit' = TRUE
      /\ file' = [p \in PartNames |-> IF p \in PortNames THEN file[p] ELSE Asset(p)]
      /\ good' = [epoch |-> Shipped, ports |-> {}]
      /\ UNCHANGED <<gx, pref, write, emu, machine, epoch, early>>
  BY DEF ResetMemory, saturn
<1>2. ASSUME NEW p \in PartNames PROVE AFile(file'[p])
  <2>1. AFile(Asset(p))
    BY DEF Asset, Of, AFile, Filled, Array, FullSize, RamSize, ConfSize, Shipped, None
  <2> QED BY <1>1, <2>1 DEF Sound
<1>3. file'["conf"] = Of(ConfSize, Shipped) /\ file'["ram"] = Of(RamSize, Shipped)
  BY <1>1 DEF Asset, FullSize, PartNames, PortNames
<1>4. file' \in [PartNames -> Array]
  BY <1>1, <1>2 DEF AFile
<1>5. Typed' /\ Phases' /\ Saving' /\ BroughtBack'
  BY <1>1, <1>4 DEF Typed, Phases, Saving, BroughtBack
<1>6. Sound'
  BY <1>1, <1>2 DEF Sound, Accepted, RamSize
<1>7. Ready' /\ Saved'
  BY <1>1, <1>3 DEF Ready, Saved, Of, RamSize
<1> QED BY <1>5, <1>6, <1>7

\* What touches neither the files nor the machine, and begins no save.
LEMMA NothingTouched ==
    ASSUME FilesInv, UNCHANGED <<gx, file, pref, write, saturn, good, early>>,
           (need_to_quit' = need_to_quit),
           ui' # "saving", ui # "down", ui' # "down"
    PROVE  FilesInv'
BY DEF FilesInv, saturn, Typed, Sound, Accepted, RamSize, Phases, Ready, Saved, Saving,
       BroughtBack

\* A save begins: nothing is known to be in one piece until it ends.
LEMMA SaveBegins ==
    ASSUME FilesInv, UNCHANGED <<gx, file, pref, need_to_quit, saturn>>,
           NEW back \in {"idle", "exit"}, BeginSave(back), ui \in {"idle", "finishing"}
    PROVE  FilesInv'
<1> USE DEF FilesInv
<1>1. CASE ~named
  BY <1>1, NothingTouched DEF BeginSave
<1>2. CASE named
  <2>1. /\ ui' = "saving" /\ write' = [NotWriting EXCEPT !.back = back]
        /\ good' = NoGood /\ early' = (emu # "run")
        /\ UNCHANGED <<emu, machine, epoch>>
    BY <1>2 DEF BeginSave, saturn
  <2>2. /\ write' \in [part : 1 .. Len(Part), opened : BOOLEAN, taken : Array,
                       back : {"idle", "exit"}]
        /\ write'.part = 1 /\ ~write'.opened /\ write'.taken = Absent
    <3>1. write' = [part |-> 1, opened |-> FALSE, taken |-> Absent, back |-> back]
      BY <2>1 DEF NotWriting
    <3>2. Absent \in Array
      BY DEF Absent, Of, None, Array
    <3> QED BY <3>1, <3>2, PartIs
  <2>3. Typed' /\ Saving'
    BY <2>1, <2>2 DEF Typed, Saving
  <2>7. Phases'
    BY <2>1 DEF Phases
  <2>4. Sound'
    BY <2>1, <2>2 DEF Sound, Accepted, RamSize, Filled, Absent, Of
  <2>5. Saved' /\ BroughtBack'
    BY <2>1 DEF Saved, BroughtBack, NoGood
  <2>6. Ready'
    BY <2>1 DEF Ready, RamSize
  <2> QED BY <2>3, <2>4, <2>5, <2>6, <2>7
<1> QED BY <1>1, <1>2

LEMMA OpenKeeps ==
    ASSUME FilesInv, Open
    PROVE  FilesInv'
<1> USE DEF FilesInv
<1>1. /\ ui = "saving" /\ ui' = ui /\ ~write.opened
      /\ file' = [file EXCEPT ![ThePart] = Absent]
      /\ write' = [write EXCEPT !.opened = TRUE, !.taken = machine[ThePart]]
      /\ UNCHANGED <<gx, pref, need_to_quit, emu, machine, epoch, good, early>>
  BY DEF Open, saving, saturn
<1>2. ThePart \in PartNames
  BY PartIs DEF Typed, ThePart, PartNames, PortNames
<1>3. /\ write'.part = write.part /\ write'.opened /\ write'.taken = machine[ThePart]
      /\ ThePart' = ThePart
      /\ write' \in [part : 1 .. Len(Part), opened : BOOLEAN, taken : Array,
                     back : {"idle", "exit"}]
  BY <1>1, <1>2 DEF Typed, ThePart
<1>4. \A p \in PartNames : file'[p] = IF p = ThePart THEN Absent ELSE file[p]
  BY <1>1 DEF Typed
<1>6. AFile(Absent)
  BY DEF AFile, Absent, Of, None, Array, Filled
<1>5. Typed'
  BY <1>1, <1>3, <1>6 DEF Typed, AFile
<1>7. Sound'
  BY <1>1, <1>2, <1>3, <1>4, <1>6 DEF Sound, Accepted, RamSize
<1>8. Phases' /\ Ready' /\ Saved' /\ BroughtBack'
  BY <1>1 DEF Phases, Ready, Saved, BroughtBack
<1>9. Saving'
  <2>1. file'[ThePart'] = Absent
    BY <1>2, <1>3, <1>4
  <2>2. write'.taken.size = machine'[ThePart'].size
    BY <1>1, <1>3
  <2>3. /\ write.part > 1 => file'["conf"] = file["conf"]
        /\ write.part > 2 => file'["ram"] = file["ram"]
        /\ write.part > 3 => file'["port1"] = file["port1"]
    BY <1>4, PartIs DEF Typed, PartNames, PortNames, ThePart
  <2> QED BY <1>1, <1>3, <2>1, <2>2, <2>3 DEF Saving, RamSize
<1> QED BY <1>5, <1>7, <1>8, <1>9

\* A save is through with a part, which fits if it was begun by a running program.
LEMMA PartDone ==
    ASSUME FilesInv, saving, NextPart, write.opened, UNCHANGED <<gx, pref, saturn>>,
           NEW f, AFile(f), file' = [file EXCEPT ![ThePart] = f],
           ThePart = "conf" /\ ~early => f.image = None \/ f.size = ConfSize,
           ThePart # "conf" /\ ~early => f.size = machine[ThePart].size
    PROVE  FilesInv'
<1> USE DEF FilesInv
<1>1. /\ ui = "saving"
      /\ UNCHANGED <<gx, pref, need_to_quit, emu, machine, epoch, early>>
      /\ good.epoch = None
  BY DEF saving, saturn, Saved
<1>2. ThePart \in PartNames
  BY PartIs DEF Typed, ThePart, PartNames, PortNames
<1>3. \A p \in PartNames : file'[p] = IF p = ThePart THEN f ELSE file[p]
  BY DEF Typed
<1>4. file' \in [PartNames -> Array] /\ (\A p \in PartNames : AFile(file'[p]))
  BY <1>2, <1>3 DEF Typed, AFile, Sound
<1>5. /\ write.part \in 1 .. 4 /\ write.back \in {"idle", "exit"}
      /\ write.part = 1 <=> ThePart = "conf"
      /\ write.part = 2 <=> ThePart = "ram"
      /\ write.part = 3 <=> ThePart = "port1"
      /\ write.part = 4 <=> ThePart = "port2"
  BY PartIs DEF Typed, ThePart
<1>6. Phases' /\ Ready' /\ BroughtBack'
  <2>1. (ui' = "saving" \/ ui' \in {"idle", "exit"}) /\ ui' # "down"
    BY <1>1, <1>5 DEF NextPart
  <2>2. Phases'
    BY <1>1, <2>1 DEF Phases
  <2>3. emu = "run" \/ early
    BY <1>1 DEF Phases
  <2> QED BY <1>1, <2>2, <2>3 DEF Ready, BroughtBack
<1>7. write' \in [part : 1 .. Len(Part), opened : BOOLEAN, taken : Array,
                  back : {"idle", "exit"}]
      /\ ~write'.opened /\ write'.taken = Absent
      /\ write'.part = IF Following # {} THEN Min(Following) ELSE 1
  <2>1. Following # {} => Min(Following) \in 1 .. 4
    BY FollowingIs, MinIs
  <2>2. write' = [part |-> IF Following # {} THEN Min(Following) ELSE 1, opened |-> FALSE,
                  taken |-> Absent,
                  back |-> IF Following # {} THEN write.back ELSE "idle"]
    BY DEF NextPart, NotWriting
  <2>3. Absent \in Array
    BY DEF Absent, Of, None, Array
  <2> QED BY <1>5, <2>1, <2>2, <2>3, PartIs
<1>8. Typed'
  BY <1>1, <1>4, <1>7 DEF Typed
<1>9. Sound'
  BY <1>1, <1>4, <1>7 DEF Sound, Accepted, RamSize, Filled, Absent, Of
\* What the save has written so far.
<1>10. ASSUME ~early
       PROVE  /\ file'["conf"].image = None \/ file'["conf"].size = ConfSize
              /\ write.part > 1 => file'["ram"].size = RamSize
              /\ write.part > 2 =>
                   (machine["port1"].image # None => file'["port1"].size = machine["port1"].size)
              /\ write.part > 3 => file'["port2"].size = machine["port2"].size
  <2>1. emu = "run" /\ machine["ram"].size = RamSize
    BY <1>1, <1>10 DEF Phases, Sound
  <2>2. /\ file'["conf"] = IF write.part = 1 THEN f ELSE file["conf"]
        /\ file'["ram"] = IF write.part = 2 THEN f ELSE file["ram"]
        /\ file'["port1"] = IF write.part = 3 THEN f ELSE file["port1"]
        /\ file'["port2"] = IF write.part = 4 THEN f ELSE file["port2"]
    BY <1>3, <1>5 DEF PartNames, PortNames
  <2> QED BY <1>1, <1>5, <1>10, <2>1, <2>2 DEF Saving
<1>11. CASE Following # {}
  <2>1. ui' = ui /\ good' = good
    BY <1>11 DEF NextPart
  <2>2. Min(Following) \in Following /\ \A x \in Following : Min(Following) <= x
    BY <1>11, FollowingIs, MinIs
  <2>3. ASSUME ~early
        PROVE  /\ write'.part > 2 => write.part > 1
               /\ write'.part > 3 => write.part > 2 \/ machine["port1"].image = None
    BY <1>5, <1>7, <1>11, <2>2, FollowingIs
  <2>4. Saving'
    BY <1>1, <1>7, <1>10, <2>1, <2>3 DEF Saving, RamSize
  <2>5. Saved'
    BY <1>1, <2>1 DEF Saved
  <2> QED BY <1>6, <1>8, <1>9, <2>4, <2>5
<1>12. CASE Following = {}
  <2>1. /\ ui' \in {"idle", "exit"}
        /\ good' = IF InOnePiece(file') THEN Done(file') ELSE good
    BY <1>5, <1>12 DEF NextPart
  <2>2. Saving'
    BY <2>1 DEF Saving
  <2>3. ASSUME ~InOnePiece(file')
        PROVE  Saved'
    BY <1>1, <2>1, <2>3 DEF Saved
  <2>4. ASSUME InOnePiece(file')
        PROVE  Saved'
    <3> DEFINE e == file'["conf"].image
    <3>1. ~early /\ e # None /\ file'["ram"].image = e
          /\ \A p \in PortNames : machine[p].image # None => file'[p].image = e
      BY <2>4 DEF InOnePiece, PartNames, PortNames
    <3>2. good'.epoch = e
          /\ good'.ports = {p \in PortNames : machine[p].image # None
                                              /\ machine[p].size = pref[p]}
      BY <2>1, <2>4 DEF Done
    <3>3. write.part > 1
      BY <1>5, <1>12, FollowingIs
    <3>4. file'["conf"] = Of(ConfSize, e) /\ file'["ram"] = Of(RamSize, e)
      BY <1>4, <1>10, <3>1, <3>3 DEF Of, Array, PartNames
    <3>5. ASSUME NEW p \in PortNames, machine[p].image # None, machine[p].size = pref[p]
          PROVE  pref[p] # 0 /\ Accepted(p, pref[p]) /\ file'[p] = Of(pref[p], e)
      <4>1. file'[p].size = machine[p].size
        BY <1>5, <1>10, <1>12, <3>1, <3>5, FollowingIs DEF PortNames
      <4>2. file'[p] \in Array /\ file'[p].image = e
        BY <1>4, <3>1, <3>5 DEF PartNames
      <4>3. file'[p] = Of(pref[p], e)
        BY <3>5, <4>1, <4>2 DEF Of, Array
      <4>4. machine[p].size > 0 /\ Accepted(p, machine[p].size)
        BY <3>5 DEF Sound, Filled, PartNames
      <4> QED BY <3>5, <4>3, <4>4
    <3> HIDE DEF e
    <3>6. RamSize' = RamSize /\ \A p, size : Accepted(p, size)' <=> Accepted(p, size)
      BY <1>1 DEF RamSize, Accepted
    <3>7. good'.ports \subseteq PortNames
      BY <3>2
    <3>8. \A p \in good'.ports :
             pref'[p] # 0 /\ Accepted(p, pref[p])' /\ file'[p] = Of(pref'[p], e)
      BY <1>1, <3>2, <3>5, <3>6
    <3> QED BY <2>1, <3>2, <3>4, <3>6, <3>7, <3>8 DEF Saved
  <2> QED BY <1>6, <1>8, <1>9, <2>2, <2>3, <2>4
<1> QED BY <1>11, <1>12

LEMMA FillKeeps ==
    ASSUME FilesInv, Fill
    PROVE  FilesInv'
<1> USE DEF FilesInv
<1> DEFINE f == Of(write.taken.size, Join(write.taken.image, machine[ThePart].image))
<1>1. /\ saving /\ NextPart /\ write.opened /\ UNCHANGED <<gx, pref, saturn>>
      /\ write.taken.image # None
      /\ file' = [file EXCEPT ![ThePart] = f]
  BY DEF Fill, saving
<1>2. ThePart \in PartNames
  BY PartIs DEF Typed, ThePart, PartNames, PortNames
<1>3. write.taken \in Array /\ machine[ThePart] \in Array
  BY <1>2 DEF Typed
<1>4. AFile(f)
  BY <1>1, <1>3 DEF AFile, Array, Of, Join, Mixed, None, Filled, Sound
<1>5. f.size = write.taken.size
  BY DEF Of
<1>6. ui = "saving" /\ UNCHANGED early
  BY <1>1 DEF saving
<1>7. ~early => f.size = machine[ThePart].size
  BY <1>1, <1>5, <1>6 DEF Saving
<1> HIDE DEF f
<1> QED BY <1>1, <1>4, <1>7, PartDone DEF Sound

\* A save that fails leaves a file that nobody takes for whole.
LEMMA FailKeeps ==
    ASSUME FilesInv, Fail
    PROVE  FilesInv'
<1> USE DEF FilesInv
<1>1. /\ saving /\ UNCHANGED <<gx, pref, need_to_quit, emu, machine, epoch, early>>
      /\ ui = "saving" /\ good.epoch = None
  BY DEF Fail, saving, saturn, Saved
<1>2. ThePart \in PartNames
  BY PartIs DEF Typed, ThePart, PartNames, PortNames
<1>3. CASE write.opened /\ ThePart = "conf"
  <2>1. NextPart /\ file' = file
    BY <1>3 DEF Fail
  <2>2. file["conf"] = Absent /\ AFile(Absent)
    BY <1>1, <1>2, <1>3 DEF Saving, Sound
  <2>3. file' = [file EXCEPT ![ThePart] = Absent]
    BY <1>3, <2>1, <2>2 DEF Typed
  <2>4. Absent.image = None
    BY DEF Absent, Of
  <2> HIDE DEF FilesInv
  <2> QED BY <1>1, <1>3, <2>1, <2>2, <2>3, <2>4, PartDone DEF saving
<1>4. CASE ~(write.opened /\ ThePart = "conf")
  <2>1. /\ file' = IF write.opened THEN [file EXCEPT ![ThePart] = Partial] ELSE file
        /\ write' = NotWriting /\ ui' = write.back /\ good' = good
    BY <1>4 DEF Fail
  <2>2. AFile(Partial)
    BY DEF AFile, Partial, Of, None, Array, Filled
  <2>3. file' \in [PartNames -> Array] /\ \A p \in PartNames : AFile(file'[p])
    BY <1>2, <2>1, <2>2 DEF Typed, Sound, AFile
  <2>4. ui' \in {"idle", "exit"}
    BY <2>1 DEF Typed
  <2>5. NotWriting \in [part : 1 .. Len(Part), opened : BOOLEAN, taken : Array,
                        back : {"idle", "exit"}]
        /\ NotWriting.taken = Absent /\ Filled(Absent)
    BY PartIs DEF NotWriting, Absent, Of, None, Array, Filled
  <2>6. Typed'
    BY <1>1, <2>1, <2>3, <2>5 DEF Typed
  <2>7. Sound'
    BY <1>1, <2>1, <2>3, <2>5 DEF Sound, Accepted, RamSize
  <2>8. Phases' /\ Ready' /\ BroughtBack'
    BY <1>1, <2>1, <2>4 DEF Phases, Ready, BroughtBack
  <2>9. Saved' /\ Saving'
    BY <1>1, <2>1, <2>4 DEF Saved, Saving
  <2> QED BY <2>6, <2>7, <2>8, <2>9
<1> QED BY <1>3, <1>4

LEMMA FreshIs ==
    /\ Fresh \in [PartNames -> Array]
    /\ \A p \in PartNames : Filled(Fresh[p])
    /\ Fresh["conf"].size = ConfSize
    /\ \A p \in PortNames : Fresh[p].image = None
BY DEF Fresh, PartNames, PortNames, Array, Filled, Of, Absent, None, ConfSize, Cold

LEMMA ExitKeeps ==
    ASSUME FilesInv, Exit
    PROVE  FilesInv'
<1> USE DEF FilesInv
<1>1. /\ ui' = "down" /\ emu' = "none"
      /\ machine' = Fresh \/ machine' = machine
      /\ UNCHANGED <<gx, file, pref, write, epoch, good>>
  BY DEF Exit
<1>2. Typed'
  BY <1>1, FreshIs DEF Typed
<1>3. Sound'
  BY <1>1, FreshIs DEF Sound, Accepted, RamSize
<1> QED BY <1>1, <1>2, <1>3 DEF Phases, Ready, Saved, Saving, BroughtBack, RamSize, Accepted

LEMMA CrashKeeps ==
    ASSUME FilesInv, Crash
    PROVE  FilesInv'
<1> USE DEF FilesInv
<1>1. /\ ui' = "down" /\ emu' = "none" /\ machine' = Fresh /\ write' = NotWriting
      /\ UNCHANGED <<gx, file, pref, epoch, good>>
  BY DEF Crash
<1>2. NotWriting \in [part : 1 .. Len(Part), opened : BOOLEAN, taken : Array,
                      back : {"idle", "exit"}]
      /\ NotWriting.taken = Absent /\ Filled(Absent)
  BY PartIs DEF NotWriting, Absent, Of, None, Array, Filled
<1>3. Typed'
  BY <1>1, <1>2, FreshIs DEF Typed
<1>4. Sound'
  BY <1>1, <1>2, FreshIs DEF Sound, Accepted, RamSize
<1> QED BY <1>1, <1>3, <1>4 DEF Phases, Ready, Saved, Saving, BroughtBack, RamSize, Accepted

LEMMA ReadConfKeeps ==
    ASSUME FilesInv, ReadConf
    PROVE  FilesInv'
<1> USE DEF FilesInv
<1> DEFINE conf == IF file["conf"].size = ConfSize THEN file["conf"] ELSE machine["conf"]
           ram  == Of(RamSize, Junk)
<1>1. /\ emu = "conf" /\ emu' = "ram"
      /\ machine' = [machine EXCEPT !["conf"] = conf, !["ram"] = ram]
      /\ UNCHANGED <<gx, file, pref, ui, write, need_to_quit, epoch, good, early>>
  BY DEF ReadConf, reading, history
<1>2. \A p \in PartNames :
         machine'[p] = IF p = "conf" THEN conf ELSE IF p = "ram" THEN ram ELSE machine[p]
  BY <1>1 DEF Typed
<1>3. conf \in Array /\ Filled(conf) /\ conf.size = ConfSize
  BY DEF Typed, Sound, AFile, PartNames
<1>4. ram \in Array /\ Filled(ram) /\ ram.size = RamSize
  BY DEF RamSize, Of, Junk, Array, Filled
<1>5. good.epoch # None => conf.image = good.epoch
  BY DEF Saved, Of
<1> HIDE DEF conf, ram
<1>6. Typed'
  BY <1>1, <1>3, <1>4 DEF Typed
<1>7. Sound'
  BY <1>1, <1>2, <1>3, <1>4 DEF Sound, Accepted, PartNames, PortNames, RamSize
<1>8. Phases' /\ Ready' /\ Saved'
  BY <1>1 DEF Phases, Ready, Saved, RamSize, Accepted
<1>9. ui = "saving" => early
  BY <1>1 DEF Phases
<1>10. Saving'
  BY <1>1, <1>9 DEF Saving, ThePart
<1>11. BroughtBack'
  BY <1>1, <1>2, <1>5 DEF BroughtBack, PartNames
<1> QED BY <1>6, <1>7, <1>8, <1>10, <1>11

LEMMA ReadRamKeeps ==
    ASSUME FilesInv, ReadRam
    PROVE  FilesInv'
<1> USE DEF FilesInv
<1>1. /\ emu = "ram"
      /\ UNCHANGED <<gx, file, pref, ui, write, need_to_quit, epoch, good, early>>
  BY DEF ReadRam, reading, history
<1>2. ui = "saving" => early
  BY <1>1 DEF Phases
<1>3. CASE file["ram"].size = RamSize
  <2>1. machine' = [machine EXCEPT !["ram"] = file["ram"]] /\ emu' = "ports"
    BY <1>3 DEF ReadRam, read_mem_file
  <2>2. \A p \in PartNames :
           machine'[p] = IF p = "ram" THEN file["ram"] ELSE machine[p]
    BY <2>1 DEF Typed
  <2>3. Typed'
    BY <1>1, <2>1 DEF Typed, PartNames
  <2>4. Sound'
    BY <1>1, <1>3, <2>1, <2>2 DEF Sound, AFile, Accepted, PartNames, PortNames, RamSize
  <2>5. Phases' /\ Ready' /\ Saved'
    BY <1>1, <2>1 DEF Phases, Ready, Saved, RamSize, Accepted
  <2>6. Saving'
    BY <1>1, <1>2 DEF Saving, ThePart
  <2>7. BroughtBack'
    BY <1>1, <2>1, <2>2 DEF BroughtBack, Saved, Of, PartNames
  <2> QED BY <2>3, <2>4, <2>5, <2>6, <2>7
<1>4. CASE file["ram"].size # RamSize
  <2>1. machine' = Cleared /\ emu' = "run"
    BY <1>4 DEF ReadRam, read_mem_file
  <2>2. /\ Cleared \in [PartNames -> Array]
        /\ \A p \in PartNames : Filled(Cleared[p])
        /\ Cleared["conf"].size = ConfSize /\ Cleared["ram"].size = RamSize
        /\ \A p \in PortNames : Cleared[p].image = None
    <3>1. Of(RamSize, Cold) \in Array /\ Filled(Of(RamSize, Cold))
      BY DEF Of, RamSize, Cold, Array, Filled
    <3> QED BY <3>1, FreshIs DEF Cleared, PartNames, PortNames, Of
  <2>3. Typed'
    BY <1>1, <2>1, <2>2 DEF Typed
  <2>4. Sound'
    BY <1>1, <2>1, <2>2 DEF Sound, Accepted, RamSize
  <2>5. Phases' /\ Ready' /\ Saved' /\ BroughtBack'
    BY <1>1, <2>1 DEF Phases, Ready, Saved, BroughtBack, RamSize, Accepted
  <2>6. Saving'
    BY <1>1, <1>2 DEF Saving, ThePart
  <2> QED BY <2>3, <2>4, <2>5, <2>6
<1> QED BY <1>3, <1>4

LEMMA CardIs ==
    ASSUME NEW p \in PortNames, NEW f, AFile(f)
    PROVE  LET c == Card(p, f)
           IN  /\ c \in Array /\ Filled(c)
               /\ c.image # None => c = f /\ Accepted(p, c.size)
               /\ c.size = IF f = Missing THEN 0 ELSE f.size
               /\ f.image # None /\ Accepted(p, f.size) => c = f
BY DEF Card, AFile, Absent, Missing, Of, None, Array, Filled

LEMMA ReadPortsKeeps ==
    ASSUME FilesInv, ReadPorts
    PROVE  FilesInv'
<1> USE DEF FilesInv
<1>1. /\ emu = "ports" /\ emu' = "run"
      /\ UNCHANGED <<gx, file, pref, ui, write, need_to_quit, epoch, good, early>>
      /\ machine' = [p \in PartNames |->
                       IF p \in PortNames THEN Card(p, file[p]) ELSE machine[p]]
  BY DEF ReadPorts, reading, history
<1>2. ui = "saving" => early
  BY <1>1 DEF Phases
<1>3. ASSUME NEW p \in PortNames
      PROVE  /\ machine'[p] \in Array /\ Filled(machine'[p])
             /\ machine'[p].image # None => Accepted(p, machine'[p].size)
  <2>1. machine'[p] = Card(p, file[p]) /\ AFile(file[p])
    BY <1>1 DEF Sound, PartNames
  <2> QED BY <2>1, CardIs
<1>4. \A p \in PartNames \ PortNames : machine'[p] = machine[p]
  BY <1>1
<1>5. Typed'
  BY <1>1, <1>3, <1>4 DEF Typed
<1>6. Sound'
  BY <1>1, <1>3, <1>4 DEF Sound, Accepted, RamSize, PartNames, PortNames
<1>7. Phases' /\ Ready' /\ Saved' /\ BroughtBack'
  BY <1>1 DEF Phases, Ready, Saved, BroughtBack, RamSize, Accepted
<1>8. Saving'
  BY <1>1, <1>2 DEF Saving, ThePart
<1> QED BY <1>5, <1>6, <1>7, <1>8

LEMMA ComputeKeeps ==
    ASSUME FilesInv, Compute
    PROVE  FilesInv'
<1> USE DEF FilesInv
<1>1. /\ emu = "run" /\ epoch' = epoch + 1
      /\ machine' = [p \in PartNames |->
                       IF machine[p].image = None THEN machine[p]
                                                ELSE Of(machine[p].size, epoch')]
      /\ UNCHANGED <<gx, file, pref, ui, write, need_to_quit, emu, good, early>>
  BY DEF Compute, history
<1>2. ASSUME NEW p \in PartNames
      PROVE  /\ machine'[p] \in Array /\ machine'[p].size = machine[p].size
             /\ machine'[p].image # None <=> machine[p].image # None
  BY <1>1 DEF Typed, Array, Of, None
<1>3. Typed'
  BY <1>1, <1>2 DEF Typed
<1>4. Sound'
  BY <1>1, <1>2 DEF Sound, Accepted, RamSize, Filled, PartNames, PortNames
<1>5. Phases' /\ Ready' /\ Saved' /\ BroughtBack'
  BY <1>1 DEF Phases, Ready, Saved, BroughtBack, RamSize, Accepted
<1>6. ThePart \in PartNames /\ ThePart' = ThePart
  BY <1>1, PartIs DEF Typed, ThePart, PartNames, PortNames
<1>7. Saving'
  BY <1>1, <1>2, <1>6 DEF Saving, RamSize, PartNames, PortNames
<1> QED BY <1>3, <1>4, <1>5, <1>7

LEMMA registerClassKeeps ==
    ASSUME FilesInv, registerClass
    PROVE  FilesInv'
<1>1. /\ emu = "register" /\ emu' = "conf"
      /\ UNCHANGED <<gx, file, pref, ui, write, need_to_quit, machine, epoch, good, early>>
  BY DEF registerClass, reading, history
<1>2. Typed' /\ Sound'
  BY <1>1 DEF FilesInv, Typed, Sound, Accepted, RamSize
<1>3. Phases' /\ Ready' /\ Saved' /\ BroughtBack'
  BY <1>1 DEF FilesInv, Phases, Ready, Saved, BroughtBack, RamSize, Accepted
<1>4. Saving'
  BY <1>1 DEF FilesInv, Saving, ThePart, RamSize
<1> QED BY <1>2, <1>3, <1>4 DEF FilesInv

LEMMA FilesNext == FilesInv /\ [Next]_vars => FilesInv'
<1> SUFFICES ASSUME FilesInv, [Next]_vars PROVE FilesInv'
  OBVIOUS
<1>1. CASE Menu
  <2>1. CASE saveState
    BY <2>1, SaveBegins DEF saveState
  <2>2. CASE Finish
    BY <2>2, NothingTouched DEF Finish, history
  <2> QED BY <1>1, <2>1, <2>2, SettingsKeeps, ResetKeeps DEF Menu
<1>2. CASE Destroy
  <2>1. CASE pref.saveOnExit
    BY <1>2, <2>1, SaveBegins DEF Destroy
  <2>2. CASE ~pref.saveOnExit
    BY <1>2, <2>2, NothingTouched DEF Destroy
  <2> QED BY <2>1, <2>2
<1>3. CASE Emulator
  BY <1>3, registerClassKeeps, ReadConfKeeps, ReadRamKeeps, ReadPortsKeeps, ComputeKeeps
     DEF Emulator
<1>4. CASE UNCHANGED vars
  BY <1>4 DEF vars, saturn, history, FilesInv, Typed, Sound, Accepted, RamSize, Phases, Ready,
              Saved, Saving, ThePart, BroughtBack
<1> QED BY <1>1, <1>2, <1>3, <1>4, CreateKeeps, OpenKeeps, FillKeeps, FailKeeps, ExitKeeps,
           CrashKeeps DEF Next

----------------------------------------------------------------------------
(* What a start brings back.                                               *)

\* Only read_files leads from "ram" or "ports" to "run".
LEMMA OnlyReads ==
    ASSUME [Next]_vars, emu \in {"ram", "ports"}, emu' = "run"
    PROVE  ReadRam \/ ReadPorts
BY DEF Next, Create, Menu, saveState, Settings, ResetMemory, Finish, Open, Fill, Fail, saving,
       saturn, Destroy, Exit, Crash, Emulator, registerClass, ReadConf, Compute, vars

\* A start that nobody disturbs ends with read_files taking the cards from their files.
LEMMA StartedIs ==
    ASSUME [Next]_vars, Started, NEW p \in PartNames
    PROVE  machine'[p] = IF p \in PortNames THEN Card(p, file[p]) ELSE machine[p]
<1>1. ReadPorts
  BY OnlyReads DEF Started, ReadRam
<1> QED BY <1>1 DEF ReadPorts

\* No start ends with a calculator that was cleared because a file was missing or cut short
\* (init.c, read_files; AssetUtil.java, copyAsset), unless somebody saved too early.
THEOREM NothingErased == Spec => NeverErased
<1>1. FilesInv /\ [Next]_vars => (emu = "ram" /\ emu' = "run" => early)
  <2> SUFFICES ASSUME FilesInv, [Next]_vars, emu = "ram", emu' = "run", ~early PROVE FALSE
    BY DEF FilesInv
  <2>1. ReadRam
    BY OnlyReads DEF ReadPorts
  <2>2. file["ram"].size = RamSize
    BY DEF FilesInv, Ready
  <2> QED BY <2>1, <2>2 DEF ReadRam, read_mem_file
<1> QED BY <1>1, FilesInit, FilesNext, PTL DEF Spec, NeverErased

\* A save in one piece comes back as it was, registers, memory and cards (init.c, write_files
\* and read_files), whatever crashes, failed writes and settings came between.
THEOREM SavesComeBack == Spec => RestartRestores
<1> DEFINE Back == Started /\ good.epoch # None
                   => \A p \in {"conf", "ram"} \cup good.ports :
                        machine'[p].image = good.epoch
<1>1. FilesInv /\ [Next]_vars => Back
  <2> SUFFICES ASSUME FilesInv, [Next]_vars, Started, good.epoch # None,
                      NEW p \in {"conf", "ram"} \cup good.ports
               PROVE  machine'[p].image = good.epoch
    OBVIOUS
  <2>1. CASE p \in {"conf", "ram"}
    <3>1. machine[p].image = good.epoch
      BY <2>1 DEF FilesInv, BroughtBack, Started
    <3> QED BY <2>1, <3>1, StartedIs DEF PartNames, PortNames
  <2>2. CASE p \in good.ports
    <3>1. p \in PortNames /\ file[p] = Of(pref[p], good.epoch) /\ Accepted(p, pref[p])
          /\ AFile(file[p])
      BY <2>2 DEF FilesInv, Saved, Sound, PartNames
    <3>2. file[p].image = good.epoch /\ file[p].size = pref[p]
      BY <3>1 DEF Of
    <3>3. Card(p, file[p]) = file[p]
      BY <3>1, <3>2, CardIs
    <3> QED BY <3>1, <3>2, <3>3, StartedIs DEF PartNames
  <2> QED BY <2>1, <2>2
<1> HIDE DEF Back
<1>2. FilesInv /\ [Next]_vars => [Back]_vars
  BY <1>1
<1>3. Spec => [][Back]_vars
  BY <1>2, FilesInit, FilesNext, PTL DEF Spec
<1> QED BY <1>3 DEF Back, RestartRestores

\* The cards of a GX are those of the settings (X48.java, managePort; init.c, read_files),
\* but for one whose file could not be filled.
THEOREM CardsAsSet == Spec => PortsAsSet
<1> DEFINE As == Started /\ gx
                 => \A p \in PortNames : file[p] # Partial =>
                      /\ machine'[p].size = pref[p]
                      /\ (machine'[p].image = None) <=> (pref[p] = 0)
<1>1. FilesInv /\ [Next]_vars => As
  <2> SUFFICES ASSUME FilesInv, [Next]_vars, Started, gx, NEW p \in PortNames,
                      file[p] # Partial
               PROVE  /\ machine'[p].size = pref[p]
                      /\ (machine'[p].image = None) <=> (pref[p] = 0)
    OBVIOUS
  <2>1. machine'[p] = Card(p, file[p]) /\ AFile(file[p])
    BY StartedIs DEF FilesInv, Sound, PartNames
  <2>2. AsSet(file[p], pref[p])
    BY DEF FilesInv, Ready, Started
  <2>3. CASE pref[p] = 0
    BY <2>1, <2>2, <2>3 DEF AsSet, Card, Absent, Of
  <2>4. CASE pref[p] # 0
    <3>1. file[p].size = pref[p] /\ pref[p] \in Int /\ pref[p] >= 128
      BY <2>2, <2>4, PrefsAre DEF AsSet, FilesInv, Typed
    <3>2. file[p].image # None
      BY <2>1, <3>1 DEF AFile, Missing, Absent, Partial, Of
    <3>3. Accepted(p, pref[p])
      BY <2>4, SettingAccepted DEF FilesInv, Typed
    <3> QED BY <2>1, <2>4, <3>1, <3>2, <3>3, CardIs
  <2> QED BY <2>3, <2>4
<1> HIDE DEF As
<1>2. FilesInv /\ [Next]_vars => [As]_vars
  BY <1>1
<1>3. Spec => [][As]_vars
  BY <1>2, FilesInit, FilesNext, PTL DEF Spec
<1> QED BY <1>3 DEF As, PortsAsSet

----------------------------------------------------------------------------
(* Division, for numbers of any size.                                      *)

LEMMA Dividing ==
    ASSUME NEW a \in Int, NEW n \in Nat, n > 0
    PROVE  a \div n \in Int /\ a % n \in Int /\ 0 <= a % n /\ a % n < n
           /\ a = n * (a \div n) + (a % n)
OBVIOUS

LEMMA Times ==
    ASSUME NEW n \in Nat, NEW x \in Int, NEW y \in Int, x <= y
    PROVE  n * x <= n * y
<1>1. n * (y - x) >= 0
  OBVIOUS
<1>2. n * (y - x) = n * y - n * x
  OBVIOUS
<1>3. n * x \in Int /\ n * y \in Int
  OBVIOUS
<1> QED BY <1>1, <1>2, <1>3

LEMMA Quotients ==
    ASSUME NEW n \in Nat, n > 0, NEW q \in Int, NEW r \in Int, 0 <= r, r < n
    PROVE  (n * q + r) \div n = q /\ (n * q + r) % n = r
<1> DEFINE a == n * q + r
           p == a \div n
           b == a % n
<1>1. a \in Int /\ n * q \in Int
  OBVIOUS
<1>2. p \in Int /\ b \in Int /\ 0 <= b /\ b < n /\ a = n * p + b
  BY <1>1, Dividing
<1>3. a = n * q + r
  OBVIOUS
<1> HIDE DEF a, p, b
<1>4. ~ q < p
  <2> SUFFICES ASSUME q + 1 <= p PROVE FALSE
    BY <1>2
  <2>1. n * (q + 1) <= n * p
    BY <1>2, Times
  <2>2. n * (q + 1) = n * q + n
    OBVIOUS
  <2>3. n * q \in Int /\ n * p \in Int
    BY <1>2
  <2> QED BY <1>2, <1>3, <2>1, <2>2, <2>3
<1>5. ~ p < q
  <2> SUFFICES ASSUME p + 1 <= q PROVE FALSE
    BY <1>2
  <2>1. n * (p + 1) <= n * q
    BY <1>2, Times
  <2>2. n * (p + 1) = n * p + n
    BY <1>2
  <2>3. n * q \in Int /\ n * p \in Int
    BY <1>2
  <2> QED BY <1>2, <1>3, <2>1, <2>2, <2>3
<1>6. p = q
  BY <1>2, <1>4, <1>5
<1>7. n * p = n * q
  BY <1>6
<1> QED BY <1>1, <1>2, <1>3, <1>6, <1>7 DEF p, b, a

LEMMA HalfIs ==
    /\ Half \in Nat /\ Half >= 2 /\ W \in Nat /\ W = Half * Half /\ W >= 2 * Half
    /\ W * W \in Nat /\ W * W >= W
<1>1. Half \in Nat /\ Half >= 2
  BY Word64Assumption DEF Word64Assumption
<1>2. Half * 2 <= Half * Half
  BY <1>1, Times
<1>3. W \in Nat /\ W = Half * Half /\ W >= 2 * Half
  BY <1>1, <1>2 DEF W
<1>4. W * 1 <= W * W
  BY <1>1, <1>3, Times
<1> QED BY <1>1, <1>3, <1>4

\* The two halves of the lower 32 bits.
LEMMA TwoHalves ==
    ASSUME NEW x \in Nat
    PROVE  /\ x % Half \in 0 .. Half - 1 /\ (x \div Half) % Half \in 0 .. Half - 1
           /\ x % W = (x % Half) + Half * ((x \div Half) % Half)
<1> DEFINE q == x \div Half
           r == x % Half
           p == q \div Half
           s == q % Half
<1>1. q \in Int /\ r \in Int /\ 0 <= r /\ r < Half /\ x = Half * q + r
  BY HalfIs, Dividing
<1>2. p \in Int /\ s \in Int /\ 0 <= s /\ s < Half /\ q = Half * p + s
  BY <1>1, HalfIs, Dividing
<1> HIDE DEF q, r, p, s
<1>3. Half * q = W * p + Half * s
  <2>1. Half * (Half * p + s) = (Half * Half) * p + Half * s
    BY <1>2, HalfIs
  <2> QED BY <1>2, <2>1, HalfIs
<1>4. Half * s <= Half * (Half - 1) /\ Half * 0 <= Half * s
  BY <1>2, HalfIs, Times
<1>5. Half * (Half - 1) = W - Half /\ Half * 0 = 0
  BY HalfIs
<1>6. Half * s \in Int /\ W * p \in Int
  BY <1>2, HalfIs
<1>7. 0 <= r + Half * s /\ r + Half * s < W
  BY <1>1, <1>4, <1>5, <1>6, HalfIs
<1>8. x = W * p + (r + Half * s)
  BY <1>1, <1>3, <1>6
<1>9. x % W = r + Half * s
  <2> DEFINE z == r + Half * s
  <2>1. z \in Int /\ 0 <= z /\ z < W
    BY <1>1, <1>6, <1>7
  <2>2. x = W * p + z
    BY <1>8
  <2>3. W \in Nat /\ W > 0
    BY HalfIs
  <2> HIDE DEF z
  <2>4. x % W = z
    BY <1>2, <2>1, <2>2, <2>3, Quotients
  <2> QED BY <2>4 DEF z
<1> QED BY <1>1, <1>2, <1>9, HalfIs DEF r, q, s

\* A half is shifted into its place, whatever a long holds beyond 32 bits.
LEMMA PackedHalf ==
    ASSUME NEW L \in {W, W * W}, NEW y \in Nat, NEW x \in Nat
    PROVE  LET v == ((y * Half) % L) + (x % Half)
           IN  /\ v \in Nat /\ v % W = (x % Half) + Half * (y % Half)
               /\ L = W => v < W
<1> DEFINE z == (y * Half) % L
           q == y \div Half
           s == y % Half
           r == x % Half
           k == (y * Half) \div L
<1>1. q \in Int /\ s \in Int /\ 0 <= s /\ s < Half /\ y = Half * q + s
      /\ r \in Int /\ 0 <= r /\ r < Half
  BY HalfIs, Dividing
<1>2. PICK l \in Nat : L = W * l /\ L > 0 /\ L \in Nat
  <2>1. CASE L = W
    <3>1. W = W * 1
      BY HalfIs
    <3> QED BY <2>1, <3>1, HalfIs
  <2>2. CASE L = W * W
    BY <2>2, HalfIs
  <2> QED BY <2>1, <2>2
<1>3. y * Half \in Int
  BY HalfIs
<1>4. z \in Int /\ 0 <= z /\ z < L /\ k \in Int /\ y * Half = L * k + z
  BY <1>2, <1>3, Dividing
<1> HIDE DEF z, q, s, r, k
<1>5. y * Half = W * q + Half * s
  <2>1. (Half * q + s) * Half = (Half * Half) * q + Half * s
    BY <1>1, HalfIs
  <2> QED BY <1>1, <2>1, HalfIs
<1>6. L * k = W * (l * k)
  <2>1. (W * l) * k = W * (l * k)
    BY <1>2, <1>4, HalfIs
  <2> QED BY <1>2, <2>1
<1>7. Half * s <= Half * (Half - 1) /\ Half * 0 <= Half * s
  BY <1>1, HalfIs, Times
<1>8. Half * (Half - 1) = W - Half /\ Half * 0 = 0
  BY HalfIs
<1>9. Half * s \in Int /\ W * q \in Int /\ l * k \in Int /\ W * (l * k) \in Int
  BY <1>1, <1>2, <1>4, HalfIs
<1> DEFINE j == q - l * k
           d == r + Half * s
<1>10. W * j = W * q - W * (l * k)
  BY <1>1, <1>9, HalfIs
<1>11. j \in Int /\ d \in Int /\ 0 <= d /\ d < W
  BY <1>1, <1>7, <1>8, <1>9, HalfIs
<1>12. z + r = W * j + d
  BY <1>1, <1>4, <1>5, <1>6, <1>9, <1>10
<1>13. z + r \in Nat
  BY <1>1, <1>4
<1>14. W \in Nat /\ W > 0
  BY HalfIs
<1> HIDE DEF j, d
<1>15. (z + r) % W = d
  BY <1>11, <1>12, <1>14, Quotients
<1>16. ASSUME L = W PROVE z + r < W
  <2>1. z < W
    BY <1>4, <1>16
  <2> DEFINE m == q * Half + s - Half * k
  <2>2. m \in Int
    BY <1>1, <1>4, HalfIs
  <2>3. z = Half * m
    <3>1. Half * m = W * q + Half * s - W * k
      BY <1>1, <1>4, HalfIs
    <3>2. W * k \in Int /\ z = y * Half - W * k
      BY <1>3, <1>4, <1>14, <1>16
    <3> QED BY <1>5, <1>9, <3>1, <3>2
  <2> HIDE DEF m
  <2>4. m <= Half - 1
    <3> SUFFICES ASSUME Half <= m PROVE FALSE
      BY <2>2, HalfIs
    <3>1. Half * Half <= Half * m
      BY <2>2, HalfIs, Times
    <3> QED BY <1>4, <2>1, <2>3, <3>1, HalfIs
  <2>5. Half * m <= Half * (Half - 1)
    BY <2>2, <2>4, HalfIs, Times
  <2> QED BY <1>1, <1>4, <1>8, <2>3, <2>5, HalfIs
<1> QED BY <1>13, <1>15, <1>16 DEF z, r, s, d

\* A column of an addition or a subtraction: the half that is kept, and what goes on.
Over(c) == IF c \div Half # 0 THEN 1 ELSE 0

LEMMA LongIs ==
    ASSUME NEW L \in {W, W * W}
    PROVE  L \in Nat /\ L >= 2 * Half /\ \E l \in Nat : L = Half * l /\ l >= 2
<1>1. CASE L = W
  BY <1>1, HalfIs
<1>2. CASE L = W * W
  <2>1. (Half * Half) * W = Half * (Half * W)
    BY HalfIs
  <2>2. Half * 2 <= Half * W
    BY HalfIs, Times
  <2>3. Half * W \in Nat
    BY HalfIs
  <2> QED BY <1>2, <2>1, <2>2, <2>3, HalfIs
<1> QED BY <1>1, <1>2

Adds(L, s, t, k) ==
    LET c == (s + t + k) % L
    IN  /\ c \in Nat /\ c = s + t + k
        /\ c % Half \in 0 .. Half - 1 /\ Over(c) \in {0, 1}
        /\ s + t + k = (c % Half) + Half * Over(c)

LEMMA AddedColumn ==
    ASSUME NEW L \in {W, W * W}, NEW s \in 0 .. Half - 1, NEW t \in 0 .. Half - 1,
           NEW k \in {0, 1}
    PROVE  Adds(L, s, t, k)
<1> DEFINE c == s + t + k
<1>1. c \in Nat /\ c < 2 * Half
  BY HalfIs
<1>2. L \in Nat /\ c < L /\ L > 0
  BY <1>1, LongIs, HalfIs
<1> HIDE DEF c
<1>3. c % L = c
  <2>1. L * 0 + c = c
    BY <1>1, <1>2
  <2> QED BY <1>1, <1>2, <2>1, Quotients
<1>4. CASE c < Half
  <2>1. Half * 0 + c = c
    BY <1>1, HalfIs
  <2>2. c \div Half = 0 /\ c % Half = c
    BY <1>1, <1>4, <2>1, Quotients, HalfIs
  <2> QED BY <1>1, <1>3, <1>4, <2>2, HalfIs DEF Over, Adds, c
<1>5. CASE c >= Half
  <2>1. Half * 1 + (c - Half) = c
    BY <1>1, HalfIs
  <2>2. c - Half \in Int /\ 0 <= c - Half /\ c - Half < Half
    BY <1>1, <1>5, HalfIs
  <2>3. c \div Half = 1 /\ c % Half = c - Half
    BY <2>1, <2>2, Quotients, HalfIs
  <2> QED BY <1>1, <1>3, <1>5, <2>2, <2>3, HalfIs DEF Over, Adds, c
<1> QED BY <1>1, <1>4, <1>5, HalfIs

Subtracts(L, s, t, k) ==
    LET c == (((t - s) % L) - k) % L
    IN  /\ c \in Nat /\ (k = 0 => c = (t - s) % L)
        /\ c % Half \in 0 .. Half - 1 /\ Over(c) \in {0, 1}
        /\ t - s - k = (c % Half) - Half * Over(c)

LEMMA SubtractedColumn ==
    ASSUME NEW L \in {W, W * W}, NEW s \in 0 .. Half - 1, NEW t \in 0 .. Half - 1,
           NEW k \in {0, 1}
    PROVE  Subtracts(L, s, t, k)
<1> DEFINE r == (t - s) % L
           c == (r - k) % L
           d == t - s - k
<1>1. L \in Nat /\ L >= 2 * Half /\ \E l \in Nat : L = Half * l /\ l >= 2
  BY LongIs
<1>2. Half \in Nat /\ Half >= 2
  BY HalfIs
<1>3. t - s \in Int /\ d \in Int /\ -Half <= d /\ d < Half /\ L > 0
  BY <1>1, <1>2
<1>4. r = IF t - s >= 0 THEN t - s ELSE L + (t - s)
  <2>1. CASE t - s >= 0
    <3>1. L * 0 + (t - s) = t - s
      BY <1>1
    <3> QED BY <1>1, <1>2, <1>3, <2>1, <3>1, Quotients
  <2>2. CASE t - s < 0
    <3>1. L * (-1) + (L + (t - s)) = t - s
      BY <1>1
    <3> DEFINE z == L + (t - s)
    <3>2. z \in Int /\ 0 <= z /\ z < L
      BY <1>1, <1>2, <2>2
    <3>3. -1 \in Int /\ t - s = L * (-1) + z
      BY <3>1
    <3> HIDE DEF z
    <3>4. (t - s) % L = z
      BY <1>1, <1>3, <3>2, <3>3, Quotients
    <3> QED BY <2>2, <3>4 DEF z
  <2> QED BY <1>3, <2>1, <2>2
<1> HIDE DEF r
<1>5. c = IF d >= 0 THEN d ELSE L + d
  <2>1. CASE r - k = -1
    <3>1. L * (-1) + (L - 1) = -1
      BY <1>1
    <3>2. c = L - 1
      BY <1>1, <1>2, <2>1, <3>1, Quotients
    <3> QED BY <1>1, <1>2, <1>4, <2>1, <3>2
  <2>2. CASE r - k # -1
    <3>1. r - k \in Int /\ 0 <= r - k /\ r - k < L
      BY <1>1, <1>2, <1>4, <2>2
    <3>2. L * 0 + (r - k) = r - k
      BY <1>1, <3>1
    <3>3. c = r - k
      BY <1>1, <1>3, <3>1, <3>2, Quotients
    <3> QED BY <1>1, <1>2, <1>4, <2>2, <3>3
  <2> QED BY <2>1, <2>2
<1>6. k = 0 => c = r
  BY <1>1, <1>2, <1>4, <1>5
<1> HIDE DEF c, d
<1>7. c \in Nat
  BY <1>1, <1>2, <1>3, <1>5
<1>8. CASE d >= 0
  <2>1. Half * 0 + d = d
    BY <1>2, <1>3
  <2>2. c \div Half = 0 /\ c % Half = d
    BY <1>2, <1>3, <1>5, <1>8, <2>1, Quotients
  <2>3. Over(c) = 0 /\ Half * 0 = 0
    BY <1>2, <2>2 DEF Over
  <2>4. c % Half \in 0 .. Half - 1 /\ Over(c) \in {0, 1} /\ d = (c % Half) - Half * Over(c)
    BY <1>2, <1>3, <1>8, <2>2, <2>3
  <2> QED BY <1>6, <1>7, <2>4 DEF Subtracts, c, d, r
<1>9. CASE d < 0
  <2>1. PICK l \in Nat : L = Half * l /\ l >= 2
    BY <1>1
  <2>2. Half * (l - 1) + (d + Half) = L + d
    BY <1>2, <1>3, <2>1
  <2>3. d + Half \in Int /\ 0 <= d + Half /\ d + Half < Half /\ l - 1 \in Int
    BY <1>2, <1>3, <1>9, <2>1
  <2>4. c \div Half = l - 1 /\ c % Half = d + Half
    <3> DEFINE m == l - 1
               e == d + Half
    <3>1. c = Half * m + e
      BY <1>2, <1>3, <1>5, <1>9, <2>2
    <3>2. m \in Int /\ e \in Int /\ 0 <= e /\ e < Half /\ Half > 0
      BY <1>2, <2>3
    <3> HIDE DEF m, e
    <3>3. c \div Half = m /\ c % Half = e
      BY <1>2, <3>1, <3>2, Quotients
    <3> QED BY <3>3 DEF m, e
  <2>5. Over(c) = 1 /\ Half * 1 = Half
    BY <1>2, <2>1, <2>4 DEF Over
  <2> QED BY <1>2, <1>3, <1>6, <1>7, <2>3, <2>4, <2>5 DEF Subtracts, c, d, r
<1> QED BY <1>3, <1>8, <1>9

----------------------------------------------------------------------------
(* The words of the clock, and the numbers they stand for.                 *)

Words == [hi : Nat, lo : Nat]

\* With longs of 32 bits every result is one of these.
Small == [hi : 0 .. W - 1, lo : 0 .. W - 1]

\* A number of four halves.
Halved(a1, a2, a3, a4) == (a1 + Half * a2) + W * (a3 + Half * a4)

LEMMA HalvesAre ==
    ASSUME NEW w \in Words
    PROVE  LET h == Halves(w)
           IN  /\ \A i \in 1 .. 4 : h[i] \in 0 .. Half - 1
               /\ Number(w) = Halved(h[1], h[2], h[3], h[4])
<1>1. w.lo \in Nat /\ w.hi \in Nat
  BY DEF Words
<1>2. /\ w.lo % Half \in 0 .. Half - 1 /\ (w.lo \div Half) % Half \in 0 .. Half - 1
      /\ w.lo % W = (w.lo % Half) + Half * ((w.lo \div Half) % Half)
  BY <1>1, TwoHalves
<1>3. /\ w.hi % Half \in 0 .. Half - 1 /\ (w.hi \div Half) % Half \in 0 .. Half - 1
      /\ w.hi % W = (w.hi % Half) + Half * ((w.hi \div Half) % Half)
  BY <1>1, TwoHalves
<1> DEFINE h == Halves(w)
<1>4. /\ h[1] = w.lo % Half /\ h[2] = (w.lo \div Half) % Half
      /\ h[3] = w.hi % Half /\ h[4] = (w.hi \div Half) % Half
  BY DEF Halves
<1> HIDE DEF h
<1>5. \A i \in 1 .. 4 : i = 1 \/ i = 2 \/ i = 3 \/ i = 4
  OBVIOUS
<1> QED BY <1>2, <1>3, <1>4, <1>5 DEF Number, Halved, h

LEMMA NumbersFit ==
    ASSUME NEW w \in Words
    PROVE  Number(w) \in 0 .. W * W - 1
<1> DEFINE l == w.lo % W
           h == w.hi % W
<1>1. l \in Int /\ 0 <= l /\ l < W /\ h \in Int /\ 0 <= h /\ h < W
  BY HalfIs, Dividing DEF Words
<1> HIDE DEF l, h
<1>2. W * h <= W * (W - 1) /\ W * 0 <= W * h
  BY <1>1, HalfIs, Times
<1>3. W * (W - 1) = W * W - W /\ W * 0 = 0 /\ W * h \in Int
  BY <1>1, HalfIs
<1>4. Number(w) = l + W * h
  BY DEF Number, l, h
<1> QED BY <1>1, <1>2, <1>3, <1>4, HalfIs

LEMMA PackedIs ==
    ASSUME NEW L \in {W, W * W}, NEW c1 \in Nat, NEW c2 \in Nat, NEW c3 \in Nat, NEW c4 \in Nat
    PROVE  LET w == Packed(L, <<c1, c2, c3, c4>>)
           IN  /\ w \in Words
               /\ Number(w) = Halved(c1 % Half, c2 % Half, c3 % Half, c4 % Half)
               /\ L = W => w \in Small
<1> DEFINE lo == ((c2 * Half) % L) + (c1 % Half)
           hi == ((c4 * Half) % L) + (c3 % Half)
<1>1. lo \in Nat /\ lo % W = (c1 % Half) + Half * (c2 % Half) /\ (L = W => lo < W)
  BY PackedHalf
<1>2. hi \in Nat /\ hi % W = (c3 % Half) + Half * (c4 % Half) /\ (L = W => hi < W)
  BY PackedHalf
<1>3. Packed(L, <<c1, c2, c3, c4>>) = [lo |-> lo, hi |-> hi]
  BY DEF Packed
<1> HIDE DEF lo, hi
<1> QED BY <1>1, <1>2, <1>3, HalfIs DEF Words, Small, Number, Halved

\* Four columns, each of which hands at most one on, make a sum that may lose its last one.
LEMMA FourColumns ==
    ASSUME NEW x1 \in Int, NEW x2 \in Int, NEW x3 \in Int, NEW x4 \in Int,
           NEW d1 \in Int, NEW d2 \in Int, NEW d3 \in Int, NEW d4 \in Int,
           NEW k1 \in Int, NEW k2 \in Int, NEW k3 \in Int, NEW k4 \in Int,
           x1 = d1 + Half * k1, x2 + k1 = d2 + Half * k2,
           x3 + k2 = d3 + Half * k3, x4 + k3 = d4 + Half * k4
    PROVE  Halved(x1, x2, x3, x4) = Halved(d1, d2, d3, d4) + (W * W) * k4
<1>1. x1 + Half * x2 = (d1 + Half * d2) + W * k2
  <2>1. Half * x2 = Half * d2 + (Half * Half) * k2 - Half * k1
    <3>1. x2 = d2 + Half * k2 - k1
      BY HalfIs
    <3>2. Half * (d2 + Half * k2 - k1) = Half * d2 + (Half * Half) * k2 - Half * k1
      BY HalfIs
    <3> QED BY <3>1, <3>2
  <2> QED BY <2>1, HalfIs
<1>2. x3 + Half * x4 = (d3 + Half * d4) + W * k4 - k2
  <2>1. Half * x4 = Half * d4 + (Half * Half) * k4 - Half * k3
    <3>1. x4 = d4 + Half * k4 - k3
      BY HalfIs
    <3>2. Half * (d4 + Half * k4 - k3) = Half * d4 + (Half * Half) * k4 - Half * k3
      BY HalfIs
    <3> QED BY <3>1, <3>2
  <2> QED BY <2>1, HalfIs
<1> DEFINE u == d3 + Half * d4
           v == x3 + Half * x4
<1>3. u \in Int /\ v \in Int /\ v = u + W * k4 - k2
  BY <1>2, HalfIs
<1> HIDE DEF u, v
<1>4. W * v = W * u + (W * W) * k4 - W * k2
  <2>1. W * (u + W * k4 - k2) = W * u + (W * W) * k4 - W * k2
    BY <1>3, HalfIs
  <2> QED BY <1>3, <2>1
<1>5. W * v \in Int /\ W * u \in Int /\ (W * W) * k4 \in Int /\ W * k2 \in Int
  BY <1>3, HalfIs
<1>6. Half * x2 \in Int /\ Half * d2 \in Int
  BY HalfIs
<1> QED BY <1>1, <1>4, <1>5, <1>6 DEF Halved, u, v

Columnwise(p1, p2, p3, p4, q1, q2, q3, q4) ==
    /\ Halved(p1, p2, p3, p4) + Halved(q1, q2, q3, q4)
       = Halved(p1 + q1, p2 + q2, p3 + q3, p4 + q4)
    /\ Halved(p1, p2, p3, p4) - Halved(q1, q2, q3, q4)
       = Halved(p1 - q1, p2 - q2, p3 - q3, p4 - q4)

LEMMA Halfway ==
    ASSUME NEW p1 \in Int, NEW p2 \in Int, NEW p3 \in Int, NEW p4 \in Int,
           NEW q1 \in Int, NEW q2 \in Int, NEW q3 \in Int, NEW q4 \in Int
    PROVE  Columnwise(p1, p2, p3, p4, q1, q2, q3, q4)
BY HalfIs DEF Halved, Columnwise

\* Four columns make the sum, or the difference, but for what the last one hands on.
SumOfColumns(L, s1, s2, s3, s4, t1, t2, t3, t4, c1, c2, c3, c4) ==
    /\ c1 \in Nat /\ c2 \in Nat /\ c3 \in Nat /\ c4 \in Nat
    /\ Over(c4) \in {0, 1}
    /\ Halved(s1, s2, s3, s4) + Halved(t1, t2, t3, t4)
       = Halved(c1 % Half, c2 % Half, c3 % Half, c4 % Half) + (W * W) * Over(c4)

DifferenceOfColumns(L, s1, s2, s3, s4, t1, t2, t3, t4, c1, c2, c3, c4) ==
    /\ c1 \in Nat /\ c2 \in Nat /\ c3 \in Nat /\ c4 \in Nat
    /\ Over(c4) \in {0, 1}
    /\ Halved(t1, t2, t3, t4) - Halved(s1, s2, s3, s4)
       = Halved(c1 % Half, c2 % Half, c3 % Half, c4 % Half) - (W * W) * Over(c4)

LEMMA AddedColumns ==
    ASSUME NEW L \in {W, W * W},
           NEW s1 \in 0 .. Half - 1, NEW s2 \in 0 .. Half - 1,
           NEW s3 \in 0 .. Half - 1, NEW s4 \in 0 .. Half - 1,
           NEW t1 \in 0 .. Half - 1, NEW t2 \in 0 .. Half - 1,
           NEW t3 \in 0 .. Half - 1, NEW t4 \in 0 .. Half - 1,
           NEW c1, NEW c2, NEW c3, NEW c4,
           c1 = s1 + t1, c2 = (s2 + t2 + Over(c1)) % L,
           c3 = (s3 + t3 + Over(c2)) % L, c4 = (s4 + t4 + Over(c3)) % L
    PROVE  SumOfColumns(L, s1, s2, s3, s4, t1, t2, t3, t4, c1, c2, c3, c4)
<1>1. /\ c1 \in Nat /\ c1 % Half \in 0 .. Half - 1 /\ Over(c1) \in {0, 1}
      /\ s1 + t1 = (c1 % Half) + Half * Over(c1)
  <2>1. s1 + t1 + 0 = s1 + t1 /\ 0 \in {0, 1}
    BY HalfIs
  <2>2. Adds(L, s1, t1, 0)
    BY <2>1, AddedColumn
  <2> QED BY <2>1, <2>2 DEF Adds
<1>2. /\ c2 \in Nat /\ c2 % Half \in 0 .. Half - 1 /\ Over(c2) \in {0, 1}
      /\ s2 + t2 + Over(c1) = (c2 % Half) + Half * Over(c2)
  <2>1. Adds(L, s2, t2, Over(c1))
    BY <1>1, AddedColumn
  <2> QED BY <2>1 DEF Adds
<1>3. /\ c3 \in Nat /\ c3 % Half \in 0 .. Half - 1 /\ Over(c3) \in {0, 1}
      /\ s3 + t3 + Over(c2) = (c3 % Half) + Half * Over(c3)
  <2>1. Adds(L, s3, t3, Over(c2))
    BY <1>2, AddedColumn
  <2> QED BY <2>1 DEF Adds
<1>4. /\ c4 \in Nat /\ c4 % Half \in 0 .. Half - 1 /\ Over(c4) \in {0, 1}
      /\ s4 + t4 + Over(c3) = (c4 % Half) + Half * Over(c4)
  <2>1. Adds(L, s4, t4, Over(c3))
    BY <1>3, AddedColumn
  <2> QED BY <2>1 DEF Adds
<1> DEFINE d1 == c1 % Half
           d2 == c2 % Half
           d3 == c3 % Half
           d4 == c4 % Half
<1>5. /\ d1 \in Int /\ d2 \in Int /\ d3 \in Int /\ d4 \in Int
      /\ Over(c1) \in Int /\ Over(c2) \in Int /\ Over(c3) \in Int /\ Over(c4) \in Int
      /\ s1 \in Int /\ s2 \in Int /\ s3 \in Int /\ s4 \in Int
      /\ t1 \in Int /\ t2 \in Int /\ t3 \in Int /\ t4 \in Int
  BY <1>1, <1>2, <1>3, <1>4
<1> HIDE DEF d1, d2, d3, d4
<1>6. Halved(s1, s2, s3, s4) + Halved(t1, t2, t3, t4)
      = Halved(s1 + t1, s2 + t2, s3 + t3, s4 + t4)
  <2>1. Columnwise(s1, s2, s3, s4, t1, t2, t3, t4)
    BY <1>5, Halfway
  <2> QED BY <2>1 DEF Columnwise
<1>7. /\ s1 + t1 = d1 + Half * Over(c1) /\ (s2 + t2) + Over(c1) = d2 + Half * Over(c2)
      /\ (s3 + t3) + Over(c2) = d3 + Half * Over(c3)
      /\ (s4 + t4) + Over(c3) = d4 + Half * Over(c4)
  BY <1>1, <1>2, <1>3, <1>4 DEF d1, d2, d3, d4
<1>8. Halved(s1 + t1, s2 + t2, s3 + t3, s4 + t4)
      = Halved(d1, d2, d3, d4) + (W * W) * Over(c4)
  <2>1. s1 + t1 \in Int /\ s2 + t2 \in Int /\ s3 + t3 \in Int /\ s4 + t4 \in Int
    BY <1>5
  <2> QED BY <1>5, <1>7, <2>1, FourColumns
<1> QED BY <1>1, <1>2, <1>3, <1>4, <1>6, <1>8 DEF SumOfColumns, d1, d2, d3, d4

LEMMA SubtractedColumns ==
    ASSUME NEW L \in {W, W * W},
           NEW s1 \in 0 .. Half - 1, NEW s2 \in 0 .. Half - 1,
           NEW s3 \in 0 .. Half - 1, NEW s4 \in 0 .. Half - 1,
           NEW t1 \in 0 .. Half - 1, NEW t2 \in 0 .. Half - 1,
           NEW t3 \in 0 .. Half - 1, NEW t4 \in 0 .. Half - 1,
           NEW c1, NEW c2, NEW c3, NEW c4,
           c1 = (t1 - s1) % L, c2 = (((t2 - s2) % L) - Over(c1)) % L,
           c3 = (((t3 - s3) % L) - Over(c2)) % L, c4 = (((t4 - s4) % L) - Over(c3)) % L
    PROVE  DifferenceOfColumns(L, s1, s2, s3, s4, t1, t2, t3, t4, c1, c2, c3, c4)
<1>1. /\ c1 \in Nat /\ c1 % Half \in 0 .. Half - 1 /\ Over(c1) \in {0, 1}
      /\ t1 - s1 = (c1 % Half) - Half * Over(c1)
  <2>1. 0 \in {0, 1}
    OBVIOUS
  <2>2. t1 - s1 - 0 = t1 - s1 /\ (((t1 - s1) % L) - 0) % L = c1
    <3>1. Subtracts(L, s1, t1, 0)
      BY <2>1, SubtractedColumn
    <3> QED BY <3>1, HalfIs DEF Subtracts
  <2>3. Subtracts(L, s1, t1, 0)
    BY <2>1, SubtractedColumn
  <2> QED BY <2>2, <2>3 DEF Subtracts
<1>2. /\ c2 \in Nat /\ c2 % Half \in 0 .. Half - 1 /\ Over(c2) \in {0, 1}
      /\ t2 - s2 - Over(c1) = (c2 % Half) - Half * Over(c2)
  <2>1. Subtracts(L, s2, t2, Over(c1))
    BY <1>1, SubtractedColumn
  <2> QED BY <2>1 DEF Subtracts
<1>3. /\ c3 \in Nat /\ c3 % Half \in 0 .. Half - 1 /\ Over(c3) \in {0, 1}
      /\ t3 - s3 - Over(c2) = (c3 % Half) - Half * Over(c3)
  <2>1. Subtracts(L, s3, t3, Over(c2))
    BY <1>2, SubtractedColumn
  <2> QED BY <2>1 DEF Subtracts
<1>4. /\ c4 \in Nat /\ c4 % Half \in 0 .. Half - 1 /\ Over(c4) \in {0, 1}
      /\ t4 - s4 - Over(c3) = (c4 % Half) - Half * Over(c4)
  <2>1. Subtracts(L, s4, t4, Over(c3))
    BY <1>3, SubtractedColumn
  <2> QED BY <2>1 DEF Subtracts
<1> DEFINE d1 == c1 % Half
           d2 == c2 % Half
           d3 == c3 % Half
           d4 == c4 % Half
           k1 == -Over(c1)
           k2 == -Over(c2)
           k3 == -Over(c3)
           k4 == -Over(c4)
<1>5. /\ d1 \in Int /\ d2 \in Int /\ d3 \in Int /\ d4 \in Int
      /\ k1 \in Int /\ k2 \in Int /\ k3 \in Int /\ k4 \in Int
      /\ s1 \in Int /\ s2 \in Int /\ s3 \in Int /\ s4 \in Int
      /\ t1 \in Int /\ t2 \in Int /\ t3 \in Int /\ t4 \in Int
  BY <1>1, <1>2, <1>3, <1>4
<1>6. Halved(t1, t2, t3, t4) - Halved(s1, s2, s3, s4)
      = Halved(t1 - s1, t2 - s2, t3 - s3, t4 - s4)
  <2>1. Columnwise(t1, t2, t3, t4, s1, s2, s3, s4)
    BY <1>5, Halfway
  <2> QED BY <2>1 DEF Columnwise
<1>7. /\ t1 - s1 = d1 + Half * k1 /\ (t2 - s2) + k1 = d2 + Half * k2
      /\ (t3 - s3) + k2 = d3 + Half * k3
      /\ (t4 - s4) + k3 = d4 + Half * k4
  <2>1. \A k \in {0, 1} : Half * (-k) = -(Half * k) /\ Half * k \in Int
    BY HalfIs
  <2>2. /\ d1 \in Int /\ d2 \in Int /\ d3 \in Int /\ d4 \in Int
    BY <1>5
  <2> HIDE DEF d1, d2, d3, d4
  <2> QED BY <1>1, <1>2, <1>3, <1>4, <1>5, <2>1, <2>2 DEF d1, d2, d3, d4
<1> HIDE DEF d1, d2, d3, d4, k1, k2, k3
<1>8. Halved(t1 - s1, t2 - s2, t3 - s3, t4 - s4) = Halved(d1, d2, d3, d4) + (W * W) * k4
  <2> HIDE DEF k4
  <2>1. t1 - s1 \in Int /\ t2 - s2 \in Int /\ t3 - s3 \in Int /\ t4 - s4 \in Int
    BY <1>5
  <2> QED BY <1>5, <1>7, <2>1, FourColumns
<1>9. (W * W) * k4 = -((W * W) * Over(c4)) /\ (W * W) * Over(c4) \in Int
  BY <1>4, HalfIs
<1>10. Halved(d1, d2, d3, d4) \in Int
  BY <1>5, HalfIs DEF Halved
<1> QED BY <1>1, <1>2, <1>3, <1>4, <1>6, <1>8, <1>9, <1>10 DEF DifferenceOfColumns, d1, d2, d3, d4

\* r2 += r1 is the sum, or what is left of it beyond 64 bits, and r2 -= r1 the difference.
LEMMA SumIs ==
    ASSUME NEW L \in {W, W * W}, NEW a \in Words, NEW b \in Words
    PROVE  LET r == add_64(L, a, b)
           IN  /\ r \in Words /\ (L = W => r \in Small)
               /\ \E k \in {0, 1} : Number(a) + Number(b) = Number(r) + (W * W) * k
<1> DEFINE s == Halves(a)
           t == Halves(b)
           v == [i \in 1 .. 4 |-> s[i] + t[i]]
           c1 == v[1]
           c2 == (v[2] + Over(c1)) % L
           c3 == (v[3] + Over(c2)) % L
           c4 == (v[4] + Over(c3)) % L
           r == Packed(L, <<c1, c2, c3, c4>>)
<1>1. /\ s[1] \in 0 .. Half - 1 /\ s[2] \in 0 .. Half - 1
      /\ s[3] \in 0 .. Half - 1 /\ s[4] \in 0 .. Half - 1
      /\ t[1] \in 0 .. Half - 1 /\ t[2] \in 0 .. Half - 1
      /\ t[3] \in 0 .. Half - 1 /\ t[4] \in 0 .. Half - 1
  BY HalvesAre
<1>2. Number(a) = Halved(s[1], s[2], s[3], s[4]) /\ Number(b) = Halved(t[1], t[2], t[3], t[4])
  BY HalvesAre
<1>3. v[1] = s[1] + t[1] /\ v[2] = s[2] + t[2] /\ v[3] = s[3] + t[3] /\ v[4] = s[4] + t[4]
  OBVIOUS
<1>4. add_64(L, a, b) = r
  <2>1. add_64(L, a, b) = Packed(L, Carried(L, v, 1))
    BY DEF add_64
  <2> HIDE DEF v
  <2>2. Carried(L, v, 1) = <<c1, c2, c3, c4>>
    BY DEF Carried, Over
  <2> QED BY <2>1, <2>2
<1>5. /\ c1 = s[1] + t[1] /\ c2 = (s[2] + t[2] + Over(c1)) % L
      /\ c3 = (s[3] + t[3] + Over(c2)) % L /\ c4 = (s[4] + t[4] + Over(c3)) % L
  <2> HIDE DEF s, t, v
  <2> QED BY <1>3
<1> HIDE DEF s, t, v, c1, c2, c3, c4
<1>6. /\ c1 \in Nat /\ c2 \in Nat /\ c3 \in Nat /\ c4 \in Nat
      /\ Over(c4) \in {0, 1}
      /\ Halved(s[1], s[2], s[3], s[4]) + Halved(t[1], t[2], t[3], t[4])
         = Halved(c1 % Half, c2 % Half, c3 % Half, c4 % Half) + (W * W) * Over(c4)
  <2>1. SumOfColumns(L, s[1], s[2], s[3], s[4], t[1], t[2], t[3], t[4], c1, c2, c3, c4)
    BY <1>1, <1>5, AddedColumns
  <2> QED BY <2>1 DEF SumOfColumns
<1>7. /\ r \in Words /\ Number(r) = Halved(c1 % Half, c2 % Half, c3 % Half, c4 % Half)
      /\ L = W => r \in Small
  BY <1>6, PackedIs
<1> HIDE DEF r
<1> QED BY <1>2, <1>4, <1>6, <1>7

LEMMA DifferenceIs ==
    ASSUME NEW L \in {W, W * W}, NEW a \in Words, NEW b \in Words
    PROVE  LET r == sub_64(L, a, b)
           IN  /\ r \in Words /\ (L = W => r \in Small)
               /\ \E k \in {0, 1} : Number(b) - Number(a) = Number(r) - (W * W) * k
<1> DEFINE s == Halves(a)
           t == Halves(b)
           v == [i \in 1 .. 4 |-> (t[i] - s[i]) % L]
           c1 == v[1]
           c2 == (v[2] - Over(c1)) % L
           c3 == (v[3] - Over(c2)) % L
           c4 == (v[4] - Over(c3)) % L
           r == Packed(L, <<c1, c2, c3, c4>>)
<1>1. /\ s[1] \in 0 .. Half - 1 /\ s[2] \in 0 .. Half - 1
      /\ s[3] \in 0 .. Half - 1 /\ s[4] \in 0 .. Half - 1
      /\ t[1] \in 0 .. Half - 1 /\ t[2] \in 0 .. Half - 1
      /\ t[3] \in 0 .. Half - 1 /\ t[4] \in 0 .. Half - 1
  BY HalvesAre
<1>2. Number(a) = Halved(s[1], s[2], s[3], s[4]) /\ Number(b) = Halved(t[1], t[2], t[3], t[4])
  BY HalvesAre
<1>3. /\ v[1] = (t[1] - s[1]) % L /\ v[2] = (t[2] - s[2]) % L
      /\ v[3] = (t[3] - s[3]) % L /\ v[4] = (t[4] - s[4]) % L
  OBVIOUS
<1>4. sub_64(L, a, b) = r
  <2>1. sub_64(L, a, b) = Packed(L, Carried(L, v, -1))
    BY DEF sub_64
  <2> HIDE DEF v
  <2>2. \A c : \A x \in Int : x + (IF c \div Half # 0 THEN -1 ELSE 0) = x - Over(c)
    BY DEF Over
  <2>3. v[2] \in Int /\ v[3] \in Int /\ v[4] \in Int
    <3>1. t[2] - s[2] \in Int /\ t[3] - s[3] \in Int /\ t[4] - s[4] \in Int
      BY <1>1, HalfIs
    <3>2. L \in Nat /\ L > 0
      BY LongIs, HalfIs
    <3> HIDE DEF s, t
    <3>3. /\ (t[2] - s[2]) % L \in Int /\ (t[3] - s[3]) % L \in Int
          /\ (t[4] - s[4]) % L \in Int
      BY <3>1, <3>2, Dividing
    <3> QED BY <1>3, <3>3
  <2>4. /\ (v[2] + IF c1 \div Half # 0 THEN -1 ELSE 0) % L = c2
        /\ (v[3] + IF c2 \div Half # 0 THEN -1 ELSE 0) % L = c3
        /\ (v[4] + IF c3 \div Half # 0 THEN -1 ELSE 0) % L = c4
    BY <2>2, <2>3
  <2> HIDE DEF c2, c3, c4
  <2>5. Carried(L, v, -1) = <<c1, c2, c3, c4>>
    BY <2>4 DEF Carried
  <2> QED BY <2>1, <2>5
<1>5. /\ c1 = (t[1] - s[1]) % L /\ c2 = (((t[2] - s[2]) % L) - Over(c1)) % L
      /\ c3 = (((t[3] - s[3]) % L) - Over(c2)) % L /\ c4 = (((t[4] - s[4]) % L) - Over(c3)) % L
  <2> HIDE DEF s, t, v
  <2> QED BY <1>3
<1> HIDE DEF s, t, v, c1, c2, c3, c4
<1>6. /\ c1 \in Nat /\ c2 \in Nat /\ c3 \in Nat /\ c4 \in Nat
      /\ Over(c4) \in {0, 1}
      /\ Halved(t[1], t[2], t[3], t[4]) - Halved(s[1], s[2], s[3], s[4])
         = Halved(c1 % Half, c2 % Half, c3 % Half, c4 % Half) - (W * W) * Over(c4)
  <2>1. DifferenceOfColumns(L, s[1], s[2], s[3], s[4], t[1], t[2], t[3], t[4], c1, c2, c3, c4)
    BY <1>1, <1>5, SubtractedColumns
  <2> QED BY <2>1 DEF DifferenceOfColumns
<1>7. /\ r \in Words /\ Number(r) = Halved(c1 % Half, c2 % Half, c3 % Half, c4 % Half)
      /\ L = W => r \in Small
  BY <1>6, PackedIs
<1> HIDE DEF r
<1> QED BY <1>2, <1>4, <1>6, <1>7

\* A number of ticks that fits is the number of its word.
LEMMA WordIs ==
    ASSUME NEW L \in {W, W * W}, NEW v \in Nat, v < W * W
    PROVE  Word(L, v) \in Words /\ Number(Word(L, v)) = v
<1> DEFINE q == v \div W
           r == v % W
<1>1. q \in Int /\ r \in Int /\ 0 <= r /\ r < W /\ v = W * q + r
  BY HalfIs, Dividing
<1>2. W \in Nat /\ W > 0 /\ W * W \in Nat
  BY HalfIs
<1> HIDE DEF q, r
<1>3. 0 <= q
  <2> SUFFICES ASSUME q <= -1 PROVE FALSE
    BY <1>1
  <2>1. W * q <= W * (-1)
    BY <1>1, <1>2, Times
  <2>2. W * (-1) = -W /\ W * q \in Int
    BY <1>1, <1>2
  <2> QED BY <1>1, <1>2, <2>1, <2>2
<1>4. q < W
  <2> SUFFICES ASSUME W <= q PROVE FALSE
    BY <1>1, <1>2
  <2>1. W * W <= W * q
    BY <1>1, <1>2, Times
  <2>2. W * q \in Int
    BY <1>1, <1>2
  <2> QED BY <1>1, <1>2, <2>1, <2>2
<1>5. q % W = q
  <2>1. W * 0 + q = q
    BY <1>1, <1>2
  <2> QED BY <1>1, <1>2, <1>3, <1>4, <2>1, Quotients
<1>6. (v % L) % W = r /\ v % L \in Nat
  <2>1. CASE L = W
    <3>1. W * 0 + r = r
      BY <1>1, <1>2
    <3>2. r % W = r
      BY <1>1, <1>2, <3>1, Quotients
    <3> QED BY <1>1, <2>1, <3>2 DEF r
  <2>2. CASE L = W * W
    <3>1. L * 0 + v = v
      BY <1>2, <2>2
    <3>2. v % L = v
      BY <1>2, <2>2, <3>1, Quotients
    <3> QED BY <3>2 DEF r
  <2> QED BY <2>1, <2>2
<1>7. Word(L, v) = [hi |-> q, lo |-> v % L]
  BY DEF Word, q
<1>8. Number(Word(L, v)) = r + W * q
  BY <1>5, <1>6, <1>7 DEF Number
<1>9. q \in Nat
  BY <1>1, <1>3
<1>10. r + W * q = v
  BY <1>1, <1>2
<1> QED BY <1>6, <1>7, <1>8, <1>9, <1>10 DEF Words

----------------------------------------------------------------------------
(* RUN_TIMER and IDLE_TIMER.                                               *)

\* A sum or a difference that is a number of 64 bits is calculated right.
LEMMA SumFits ==
    ASSUME NEW L \in {W, W * W}, NEW a \in Words, NEW b \in Words,
           Number(a) + Number(b) < W * W
    PROVE  /\ add_64(L, a, b) \in Words
           /\ Number(add_64(L, a, b)) = Number(a) + Number(b)
<1> DEFINE r == add_64(L, a, b)
<1>1. r \in Words
  BY SumIs
<1>2. PICK k \in {0, 1} : Number(a) + Number(b) = Number(r) + (W * W) * k
  BY SumIs
<1> HIDE DEF r
<1>3. Number(r) \in Int /\ 0 <= Number(r) /\ W * W \in Nat
      /\ Number(a) \in Int /\ Number(b) \in Int
  BY <1>1, NumbersFit, HalfIs
<1>4. (W * W) * 0 = 0 /\ (W * W) * 1 = W * W
  BY <1>3
<1>5. k = 0
  BY <1>2, <1>3, <1>4
<1> QED BY <1>1, <1>2, <1>3, <1>4, <1>5 DEF r

LEMMA DifferenceFits ==
    ASSUME NEW L \in {W, W * W}, NEW a \in Words, NEW b \in Words,
           Number(a) <= Number(b)
    PROVE  /\ sub_64(L, a, b) \in Words
           /\ Number(sub_64(L, a, b)) = Number(b) - Number(a)
<1> DEFINE r == sub_64(L, a, b)
<1>1. r \in Words
  BY DifferenceIs
<1>2. PICK k \in {0, 1} : Number(b) - Number(a) = Number(r) - (W * W) * k
  BY DifferenceIs
<1> HIDE DEF r
<1>3. Number(r) \in Int /\ Number(r) < W * W /\ W * W \in Nat
      /\ Number(a) \in Int /\ Number(b) \in Int
  BY <1>1, NumbersFit, HalfIs
<1>4. (W * W) * 0 = 0 /\ (W * W) * 1 = W * W
  BY <1>3
<1>5. k = 0
  BY <1>2, <1>3, <1>4
<1> QED BY <1>1, <1>2, <1>3, <1>4, <1>5 DEF r

ATimer == [run : BOOLEAN, start : Words, value : Words]

\* A timer that says, by now, what was spent.
AddsUp(t, n, s) ==
    s = Number(t.value) + IF t.run THEN n - Number(t.start) ELSE 0

\* One that was not started later than now.
ATimerBy(t, n) == t \in ATimer /\ (t.run => Number(t.start) <= n)

\* The inductive invariant: one of the two timers runs, and no more ticks were spent than the
\* phone has counted, so that they fit.
ClockInv ==
    /\ long \in Longs /\ now \in Nat /\ asleep \in BOOLEAN
    /\ \E e \in Ends : e \in now .. W * W - 1
    /\ timers \in [Timers -> ATimer]
    /\ timers["RUN"].run = ~asleep /\ timers["IDLE"].run = asleep
    /\ spent \in [Timers -> Nat]
    /\ \A t \in Timers : /\ spent[t] <= now /\ ATimerBy(timers[t], now)
                         /\ AddsUp(timers[t], now, spent[t])

LEMMA ZeroIs == Zero \in Words /\ Number(Zero) = 0
<1>1. W * 0 + 0 = 0 /\ W \in Nat /\ W > 0
  BY HalfIs
<1>2. 0 % W = 0
  BY <1>1, Quotients
<1>3. Number(Zero) = (0 % W) + W * (0 % W)
  BY DEF Number, Zero
<1> QED BY <1>1, <1>2, <1>3 DEF Zero, Words

LEMMA LongsAre == ClockInv => /\ long \in {W, W * W} /\ now \in Nat /\ now < W * W
<1> SUFFICES ASSUME ClockInv PROVE long \in {W, W * W} /\ now \in Nat /\ now < W * W
  OBVIOUS
<1>1. long \in {W, W * W} /\ now \in Nat
  BY ClockAssumption DEF ClockAssumption, ClockInv
<1>2. PICK e \in Ends : e \in now .. W * W - 1
  BY DEF ClockInv
<1> QED BY <1>1, <1>2, HalfIs

\* Started, a timer goes on from what it says; stopped or read, it says the same.
StartedTimer(t, n, s) ==
    /\ ATimerBy(start_timer(t), n) /\ start_timer(t).run /\ AddsUp(start_timer(t), n, s)
StoppedTimer(t, n, s) ==
    /\ ATimerBy(stop_timer(t), n) /\ ~stop_timer(t).run /\ AddsUp(stop_timer(t), n, s)
    /\ ATimerBy(get_timer(t), n) /\ get_timer(t).run = t.run /\ AddsUp(get_timer(t), n, s)

LEMMA Starting ==
    ASSUME long \in {W, W * W}, now \in Nat, now < W * W, NEW s \in Nat,
           NEW t, ATimerBy(t, now), AddsUp(t, now, s)
    PROVE  StartedTimer(t, now, s)
<1>1. CASE t.run
  BY <1>1 DEF StartedTimer, start_timer
<1>2. CASE ~t.run
  <2> DEFINE w == Word(long, now)
  <2>1. w \in Words /\ Number(w) = now
    BY WordIs
  <2> HIDE DEF w
  <2>2. start_timer(t) = [t EXCEPT !.run = TRUE, !.start = w]
    BY <1>2 DEF start_timer, w
  <2>3. t \in ATimer /\ start_timer(t) \in ATimer
    BY <2>1, <2>2 DEF ATimerBy, ATimer
  <2>4. start_timer(t).run = TRUE /\ start_timer(t).start = w /\ start_timer(t).value = t.value
    BY <2>2, <2>3 DEF ATimer
  <2>5. s = Number(t.value) + 0 /\ now - now = 0
    BY <1>2 DEF AddsUp
  <2> QED BY <2>1, <2>3, <2>4, <2>5 DEF StartedTimer, ATimerBy, AddsUp
<1> QED BY <1>1, <1>2 DEF ATimerBy, ATimer

LEMMA Stopping ==
    ASSUME long \in {W, W * W}, now \in Nat, now < W * W, NEW s \in Nat, s <= now,
           NEW t, ATimerBy(t, now), AddsUp(t, now, s)
    PROVE  StoppedTimer(t, now, s)
<1>0. t \in ATimer
  BY DEF ATimerBy
<1>1. CASE ~t.run
  BY <1>0, <1>1 DEF StoppedTimer, stop_timer, get_timer
<1>2. CASE t.run
  <2> DEFINE w == Word(long, now)
             d == sub_64(long, t.start, w)
             v == add_64(long, d, t.value)
  <2>1. w \in Words /\ Number(w) = now
    BY WordIs
  <2>2. t.start \in Words /\ t.value \in Words /\ Number(t.start) <= Number(w)
    BY <1>0, <1>2, <2>1 DEF ATimerBy, ATimer
  <2>3. Number(t.start) \in Int /\ Number(t.value) \in Int
        /\ s = Number(t.value) + (now - Number(t.start))
    BY <1>2, <2>2, NumbersFit DEF AddsUp
  <2> HIDE DEF w
  <2>4. d \in Words /\ Number(d) = now - Number(t.start)
    BY <2>1, <2>2, DifferenceFits
  <2> HIDE DEF d
  <2>5. Number(d) + Number(t.value) = s /\ s < W * W
    BY <2>3, <2>4, HalfIs
  <2>6. v \in Words /\ Number(v) = s
    BY <2>2, <2>4, <2>5, SumFits
  <2> HIDE DEF v
  <2> DEFINE c == [t EXCEPT !.value = v, !.start = w]
  <2>7. Counted(long, t, Word(long, now)) = c
    BY DEF Counted, v, d, w
  <2>8. c \in ATimer /\ c.run = t.run /\ c.start = w /\ c.value = v
    BY <1>0, <2>1, <2>6 DEF ATimer
  <2> HIDE DEF c
  <2>9. get_timer(t) = c /\ stop_timer(t) = [c EXCEPT !.run = FALSE]
    BY <1>2, <2>7 DEF get_timer, stop_timer
  <2>10. s = s + (now - now) /\ s = s + 0
    OBVIOUS
  <2>11. ATimerBy(c, now) /\ AddsUp(c, now, s)
    BY <1>2, <2>1, <2>6, <2>8, <2>10 DEF ATimerBy, AddsUp
  <2>12. stop_timer(t) \in ATimer /\ stop_timer(t).run = FALSE /\ stop_timer(t).value = v
    BY <2>8, <2>9 DEF ATimer
  <2> QED BY <2>6, <2>8, <2>9, <2>10, <2>11, <2>12 DEF StoppedTimer, ATimerBy, AddsUp
<1> QED BY <1>0, <1>1, <1>2 DEF ATimer

LEMMA ResetIs == ATimerBy(Reset, now) /\ ~Reset.run /\ AddsUp(Reset, now, 0)
BY ZeroIs DEF ATimerBy, ATimer, Reset, AddsUp

\* Both timers anew, the one that measures the running program started.
LEMMA Anew ==
    ASSUME long \in {W, W * W}, now \in Nat, now < W * W,
           NEW ts, ts = [t \in Timers |-> IF t = "RUN" THEN start_timer(Reset) ELSE Reset]
    PROVE  /\ ts \in [Timers -> ATimer] /\ ts["RUN"].run /\ ~ts["IDLE"].run
           /\ \A t \in Timers : ATimerBy(ts[t], now) /\ AddsUp(ts[t], now, 0)
<1>1. StartedTimer(Reset, now, 0)
  <2>1. 0 \in Nat
    OBVIOUS
  <2> QED BY <2>1, ResetIs, Starting
<1>2. ts["RUN"] = start_timer(Reset) /\ ts["IDLE"] = Reset
  BY DEF Timers
<1>3. \A t \in Timers : ATimerBy(ts[t], now) /\ AddsUp(ts[t], now, 0)
  BY <1>1, <1>2, ResetIs DEF Timers, StartedTimer
<1> QED BY <1>1, <1>2, <1>3, ResetIs DEF Timers, StartedTimer, ATimerBy

LEMMA ReachIs == Reach \in Nat
BY ClockAssumption, HalfIs DEF ClockAssumption, Reach

LEMMA ClockStarts == ClockInit => ClockInv
<1> SUFFICES ASSUME ClockInit PROVE ClockInv
  OBVIOUS
<1>1. /\ long \in Longs /\ now \in Boot /\ asleep = FALSE
      /\ timers = [t \in Timers |-> IF t = "RUN" THEN start_timer(Reset) ELSE Reset]
      /\ spent = [t \in Timers |-> 0]
  BY DEF ClockInit
<1>2. PICK e \in Ends : e \in now .. W * W - 1
  <2>1. PICK e \in Ends : e \in now .. W * W /\ 2 * (unix_0_time + e + 2 * Reach) < W * W
    BY <1>1, CalendarAssumption DEF CalendarAssumption
  <2>2. now \in Nat /\ unix_0_time \in Nat /\ Reach \in Nat
    BY <1>1, ReachIs, CalendarAssumption DEF CalendarAssumption
  <2>3. e < W * W
    BY <2>1, <2>2, HalfIs
  <2> QED BY <2>1, <2>2, <2>3, HalfIs
<1>3. long \in {W, W * W} /\ now \in Nat /\ now < W * W
  BY <1>1, <1>2, ClockAssumption, CalendarAssumption, HalfIs
     DEF ClockAssumption, CalendarAssumption
<1>4. /\ timers \in [Timers -> ATimer] /\ timers["RUN"].run /\ ~timers["IDLE"].run
      /\ \A t \in Timers : ATimerBy(timers[t], now) /\ AddsUp(timers[t], now, 0)
  BY <1>1, <1>3, Anew
<1>5. spent \in [Timers -> Nat] /\ \A t \in Timers : spent[t] = 0
  BY <1>1
<1>6. timers["RUN"].run = ~asleep /\ timers["IDLE"].run = asleep /\ asleep \in BOOLEAN
  BY <1>1, <1>4 DEF Timers, ATimer
<1>7. \A t \in Timers : /\ spent[t] <= now /\ ATimerBy(timers[t], now)
                        /\ AddsUp(timers[t], now, spent[t])
  BY <1>3, <1>4, <1>5
<1> QED BY <1>1, <1>2, <1>3, <1>4, <1>5, <1>6, <1>7 DEF ClockInv

\* The two timers, after a step that is at no other time.
LEMMA TimersFollow ==
    ASSUME ClockInv, UNCHANGED <<long, now>>, asleep' \in BOOLEAN,
           timers' \in [Timers -> ATimer], timers'["RUN"].run = ~asleep',
           timers'["IDLE"].run = asleep', spent' \in [Timers -> Nat],
           \A t \in Timers : /\ spent'[t] <= now /\ ATimerBy(timers'[t], now)
                             /\ AddsUp(timers'[t], now, spent'[t])
    PROVE  ClockInv'
BY DEF ClockInv

LEMMA ClockGoes == ClockInv /\ [ClockNext]_clock => ClockInv'
<1> SUFFICES ASSUME ClockInv, [ClockNext]_clock PROVE ClockInv'
  OBVIOUS
<1>0. /\ long \in {W, W * W} /\ now \in Nat /\ now < W * W /\ asleep \in BOOLEAN
      /\ timers \in [Timers -> ATimer] /\ spent \in [Timers -> Nat]
      /\ timers["RUN"].run = ~asleep /\ timers["IDLE"].run = asleep
      /\ \A t \in Timers : /\ spent[t] <= now /\ ATimerBy(timers[t], now)
                           /\ AddsUp(timers[t], now, spent[t])
  BY LongsAre DEF ClockInv
<1>1. ASSUME UNCHANGED <<long, now, asleep, timers, spent>>
      PROVE  ClockInv'
  BY <1>1 DEF ClockInv
<1>2. CASE Count \/ Adjtime \/ Alarm \/ EndService \/ (\E t \in Timeout : BeginService(t))
           \/ (\E d \in Setting : SetTime(d)) \/ UNCHANGED clock
  BY <1>1, <1>2 DEF Count, Adjtime, Alarm, EndService, BeginService, SetTime, clock
<1>3. CASE TimePasses
  <2> DEFINE r == IF asleep THEN "IDLE" ELSE "RUN"
  <2>1. /\ now \notin Ends /\ now' = now + 1 /\ spent' = [spent EXCEPT ![r] = @ + 1]
        /\ UNCHANGED <<long, timers, asleep>>
    BY <1>3 DEF TimePasses
  <2>2. \E e \in Ends : e \in now' .. W * W - 1
    <3>1. PICK e \in Ends : e \in now .. W * W - 1
      BY DEF ClockInv
    <3>2. e # now
      BY <2>1
    <3>3. e \in now + 1 .. W * W - 1
      BY <1>0, <3>1, <3>2, HalfIs
    <3> QED BY <2>1, <3>3
  <2>3. ASSUME NEW t \in Timers
        PROVE  /\ spent'[t] \in Nat /\ spent'[t] <= now' /\ ATimerBy(timers[t], now')
               /\ AddsUp(timers[t], now', spent'[t])
    <3>1. timers[t] \in ATimer /\ spent[t] \in Nat
          /\ spent'[t] = IF t = r THEN spent[t] + 1 ELSE spent[t]
      BY <1>0, <2>1
    <3>2. Number(timers[t].start) \in Int /\ Number(timers[t].value) \in Int
      BY <3>1, NumbersFit DEF ATimer
    <3>3. timers[t].run <=> t = r
      BY <1>0 DEF Timers
    <3>4. spent[t] <= now /\ ATimerBy(timers[t], now) /\ AddsUp(timers[t], now, spent[t])
      BY <1>0
    <3> HIDE DEF r
    <3>5. CASE t = r
      BY <1>0, <2>1, <3>1, <3>2, <3>3, <3>4, <3>5 DEF ATimerBy, AddsUp
    <3>6. CASE t # r
      BY <1>0, <2>1, <3>1, <3>2, <3>3, <3>4, <3>6 DEF ATimerBy, AddsUp
    <3> QED BY <3>5, <3>6
  <2>4. spent' \in [Timers -> Nat]
    BY <1>0, <2>1, <2>3
  <2>5. long' \in Longs /\ now' \in Nat
    BY <1>0, <2>1 DEF ClockInv
  <2> QED BY <1>0, <2>1, <2>2, <2>3, <2>4, <2>5 DEF ClockInv
<1>4. CASE Statistics
  <2>1. ~asleep /\ timers' = [timers EXCEPT !.RUN = get_timer(timers["RUN"])]
        /\ UNCHANGED <<long, now, spent, asleep>>
    BY <1>4 DEF Statistics
  <2>2. timers'["RUN"] = get_timer(timers["RUN"]) /\ timers'["IDLE"] = timers["IDLE"]
    BY <1>0, <2>1 DEF Timers
  <2>3. StoppedTimer(timers["RUN"], now, spent["RUN"])
    BY <1>0, Stopping DEF Timers
  <2>4. timers' \in [Timers -> ATimer]
    BY <1>0, <2>1, <2>3 DEF StoppedTimer, ATimerBy
  <2> QED BY <1>0, <2>1, <2>2, <2>3, <2>4, TimersFollow DEF Timers, StoppedTimer
<1>5. CASE Rollover
  <2>1. ~asleep /\ timers' = [RUN |-> start_timer(Reset), IDLE |-> Reset]
        /\ spent' = [t \in Timers |-> 0] /\ UNCHANGED <<long, now, asleep>>
    BY <1>5 DEF Rollover
  <2>2. timers' = [t \in Timers |-> IF t = "RUN" THEN start_timer(Reset) ELSE Reset]
    BY <2>1 DEF Timers
  <2>3. /\ timers' \in [Timers -> ATimer] /\ timers'["RUN"].run /\ ~timers'["IDLE"].run
        /\ \A t \in Timers : ATimerBy(timers'[t], now) /\ AddsUp(timers'[t], now, 0)
    BY <1>0, <2>2, Anew
  <2>4. spent' \in [Timers -> Nat] /\ \A t \in Timers : spent'[t] = 0
    BY <2>1
  <2> QED BY <1>0, <2>1, <2>3, <2>4, TimersFollow DEF Timers, ATimer
<1>6. CASE Restart
  <2>1. /\ ~asleep /\ UNCHANGED <<long, now, asleep>> /\ spent' = [t \in Timers |-> 0]
        /\ timers' = [t \in Timers |-> IF t = "RUN" THEN start_timer(Reset) ELSE Reset]
    BY <1>6 DEF Restart
  <2>2. /\ timers' \in [Timers -> ATimer] /\ timers'["RUN"].run /\ ~timers'["IDLE"].run
        /\ \A t \in Timers : ATimerBy(timers'[t], now) /\ AddsUp(timers'[t], now, 0)
    BY <1>0, <2>1, Anew
  <2>3. spent' \in [Timers -> Nat] /\ \A t \in Timers : spent'[t] = 0
    BY <2>1
  <2> QED BY <1>0, <2>1, <2>2, <2>3, TimersFollow DEF Timers, ATimer
<1>7. CASE Sleep
  <2>1. /\ ~asleep /\ asleep' = TRUE /\ UNCHANGED <<long, now, spent>>
        /\ timers' = [RUN |-> stop_timer(timers["RUN"]), IDLE |-> start_timer(timers["IDLE"])]
    BY <1>7 DEF Sleep
  <2>2. StoppedTimer(timers["RUN"], now, spent["RUN"])
    BY <1>0, Stopping DEF Timers
  <2>3. StartedTimer(timers["IDLE"], now, spent["IDLE"])
    BY <1>0, Starting DEF Timers
  <2>4. timers' \in [Timers -> ATimer]
    BY <2>1, <2>2, <2>3 DEF Timers, StoppedTimer, StartedTimer, ATimerBy
  <2>5. timers'["RUN"] = stop_timer(timers["RUN"])
        /\ timers'["IDLE"] = start_timer(timers["IDLE"])
    BY <2>1
  <2>6. timers'["RUN"].run = ~asleep' /\ timers'["IDLE"].run = asleep'
    BY <2>1, <2>2, <2>3, <2>4, <2>5 DEF Timers, ATimer, StoppedTimer, StartedTimer
  <2>7. \A t \in Timers : /\ spent'[t] <= now /\ ATimerBy(timers'[t], now)
                          /\ AddsUp(timers'[t], now, spent'[t])
    BY <1>0, <2>1, <2>2, <2>3, <2>5 DEF Timers, StoppedTimer, StartedTimer
  <2> QED BY <1>0, <2>1, <2>4, <2>6, <2>7, TimersFollow
<1>8. CASE Wake
  <2>1. /\ asleep /\ asleep' = FALSE /\ UNCHANGED <<long, now, spent>>
        /\ timers' = [RUN |-> start_timer(timers["RUN"]), IDLE |-> stop_timer(timers["IDLE"])]
    BY <1>8 DEF Wake
  <2>2. StoppedTimer(timers["IDLE"], now, spent["IDLE"])
    BY <1>0, Stopping DEF Timers
  <2>3. StartedTimer(timers["RUN"], now, spent["RUN"])
    BY <1>0, Starting DEF Timers
  <2>4. timers' \in [Timers -> ATimer]
    BY <2>1, <2>2, <2>3 DEF Timers, StoppedTimer, StartedTimer, ATimerBy
  <2>5. timers'["RUN"] = start_timer(timers["RUN"])
        /\ timers'["IDLE"] = stop_timer(timers["IDLE"])
    BY <2>1
  <2>6. timers'["RUN"].run = ~asleep' /\ timers'["IDLE"].run = asleep'
    BY <2>1, <2>2, <2>3, <2>4, <2>5 DEF Timers, ATimer, StoppedTimer, StartedTimer
  <2>7. \A t \in Timers : /\ spent'[t] <= now /\ ATimerBy(timers'[t], now)
                          /\ AddsUp(timers'[t], now, spent'[t])
    BY <1>0, <2>1, <2>2, <2>3, <2>5 DEF Timers, StoppedTimer, StartedTimer
  <2> QED BY <1>0, <2>1, <2>4, <2>6, <2>7, TimersFollow
<1> QED BY <1>2, <1>3, <1>4, <1>5, <1>6, <1>7, <1>8 DEF ClockNext

\* RUN_TIMER and IDLE_TIMER, read, stopped and started at any time, add up the time spent
\* (timer.c), with 64 bit numbers put together from halves of longs of 32 bits or of 64.
THEOREM TimeAddsUp == ClockSpec => []TimersAddUp
<1>1. ClockInv => TimersAddUp
  BY DEF ClockInv, TimersAddUp, AddsUp
<1> QED BY <1>1, ClockStarts, ClockGoes, PTL DEF ClockSpec

----------------------------------------------------------------------------
(* Numbers modulo 2^64.                                                    *)

Alike(x, y) == \E z \in Int : x = y + (W * W) * z

LEMMA AlikeSums ==
    ASSUME NEW x \in Int, NEW y \in Int, NEW u \in Int, NEW v \in Int,
           Alike(x, y), Alike(u, v)
    PROVE  Alike(x + u, y + v) /\ Alike(x - u, y - v)
<1>1. PICK z \in Int : x = y + (W * W) * z
  BY DEF Alike
<1>2. PICK s \in Int : u = v + (W * W) * s
  BY DEF Alike
<1> DEFINE q == W * W
<1>3. q \in Int
  BY HalfIs
<1>4. x = y + q * z /\ u = v + q * s
  BY <1>1, <1>2
<1> HIDE DEF q
<1>5. q * z \in Int /\ q * s \in Int
      /\ q * (z + s) = q * z + q * s /\ q * (z - s) = q * z - q * s
  BY <1>3
<1>6. x + u = (y + v) + q * (z + s) /\ x - u = (y - v) + q * (z - s)
  BY <1>4, <1>5
<1> QED BY <1>6 DEF Alike, q

LEMMA AlikeChain ==
    ASSUME NEW x \in Int, NEW y \in Int, NEW u \in Int, Alike(x, y), Alike(y, u)
    PROVE  Alike(x, u)
<1>1. Alike(x + y, y + u)
  BY AlikeSums
<1>2. PICK z \in Int : x + y = (y + u) + (W * W) * z
  BY <1>1 DEF Alike
<1>3. (W * W) * z \in Int
  BY HalfIs
<1>4. x = u + (W * W) * z
  BY <1>2, <1>3
<1> QED BY <1>4 DEF Alike

LEMMA AlikeBack == ASSUME NEW x \in Int, NEW y \in Int, Alike(x, y) PROVE Alike(y, x)
<1>1. PICK z \in Int : x = y + (W * W) * z
  BY DEF Alike
<1>2. (W * W) * (-z) = -((W * W) * z) /\ (W * W) * z \in Int /\ -z \in Int
  BY HalfIs
<1>3. y = x + (W * W) * (-z)
  BY <1>1, <1>2
<1> QED BY <1>2, <1>3 DEF Alike

LEMMA AlikeSame == ASSUME NEW x \in Int PROVE Alike(x, x)
<1>1. x = x + (W * W) * 0
  BY HalfIs
<1> QED BY <1>1 DEF Alike

\* Numbers that are alike and not far from one another are the same.
LEMMA AlikeEqual ==
    ASSUME NEW x \in Int, NEW y \in Int, Alike(x, y), x - y < W * W, y - x < W * W
    PROVE  x = y
<1>1. PICK z \in Int : x = y + (W * W) * z
  BY DEF Alike
<1> DEFINE q == W * W
<1>2. q \in Nat
  BY HalfIs
<1>3. x = y + q * z /\ x - y < q /\ y - x < q
  BY <1>1
<1> HIDE DEF q
<1>4. q * z \in Int /\ q * 1 = q /\ q * (-1) = -q /\ q * 0 = 0
  BY <1>2
<1>5. ~ 1 <= z
  <2> SUFFICES ASSUME 1 <= z PROVE FALSE
    OBVIOUS
  <2>1. q * 1 <= q * z
    BY <1>2, Times
  <2> QED BY <1>2, <1>3, <1>4, <2>1
<1>6. ~ z <= -1
  <2> SUFFICES ASSUME z <= -1 PROVE FALSE
    OBVIOUS
  <2>1. q * z <= q * (-1)
    BY <1>2, Times
  <2> QED BY <1>2, <1>3, <1>4, <2>1
<1>7. z = 0
  BY <1>5, <1>6
<1> QED BY <1>3, <1>4, <1>7

----------------------------------------------------------------------------
(* The words of 32 bits.                                                   *)

Mid == W \div 2

LEMMA MidIs == Mid \in Nat /\ W = 2 * Mid /\ Mid >= 1
<1> DEFINE h == Half \div 2
<1>1. Half = 2 * h + 0 /\ h \in Int
  <2>1. Half % 2 = 0
    BY ClockAssumption DEF ClockAssumption
  <2> QED BY <2>1, HalfIs, Dividing
<1> HIDE DEF h
<1>2. Half = 2 * h /\ h \in Nat
  BY <1>1, HalfIs
<1>3. W = 2 * (h * Half) + 0
  <2>1. (2 * h) * Half = 2 * (h * Half)
    BY <1>2, HalfIs
  <2>2. h * Half \in Int
    BY <1>2, HalfIs
  <2>3. W = (2 * h) * Half
    BY <1>2, HalfIs
  <2> QED BY <2>1, <2>2, <2>3
<1> DEFINE p == h * Half
<1>4. p \in Int
  BY <1>2, HalfIs
<1>5. W = 2 * p + 0
  BY <1>3
<1> HIDE DEF p
<1>6. (2 * p + 0) \div 2 = p
  BY <1>4, Quotients
<1> QED BY <1>4, <1>5, <1>6, HalfIs DEF Mid

LEMMA SmallIs ==
    ASSUME NEW w \in Small
    PROVE  /\ w \in Words /\ Number(w) = w.lo + W * w.hi
           /\ w.lo \in 0 .. W - 1 /\ w.hi \in 0 .. W - 1
<1>1. w.lo \in 0 .. W - 1 /\ w.hi \in 0 .. W - 1 /\ w = [hi |-> w.hi, lo |-> w.lo]
  BY DEF Small
<1>2. \A x \in 0 .. W - 1 : x % W = x
  <2> TAKE x \in 0 .. W - 1
  <2>1. W * 0 + x = x /\ W \in Nat /\ W > 0
    BY HalfIs
  <2> QED BY <2>1, Quotients
<1> QED BY <1>1, <1>2, HalfIs DEF Number, Words

\* A small word is known by its number.
LEMMA SmallSame ==
    ASSUME NEW w \in Small, NEW v \in Small, Number(w) = Number(v)
    PROVE  w = v
<1>1. W \in Nat /\ W > 0
  BY HalfIs
<1>2. ASSUME NEW x \in Small
      PROVE  Number(x) \div W = x.hi /\ Number(x) % W = x.lo
  <2>1. /\ x.lo \in Int /\ 0 <= x.lo /\ x.lo < W /\ x.hi \in Int
        /\ Number(x) = W * x.hi + x.lo
    BY <1>1, SmallIs
  <2>2. (W * x.hi + x.lo) \div W = x.hi /\ (W * x.hi + x.lo) % W = x.lo
    BY <1>1, <2>1, Quotients
  <2> QED BY <2>1, <2>2
<1>3. w.hi = v.hi /\ w.lo = v.lo
  BY <1>2
<1> QED BY <1>3 DEF Small

\* Its lower half is what the words leave of its number, or of one like it.
LEMMA LowerIs ==
    ASSUME NEW w \in Small, NEW x \in Int, Alike(Number(w), x)
    PROVE  w.lo \in 0 .. W - 1 /\ \E i \in Int : x = W * i + w.lo
<1>1. W \in Nat /\ w.lo \in 0 .. W - 1 /\ w.hi \in Int /\ Number(w) = W * w.hi + w.lo
  BY HalfIs, SmallIs
<1>2. PICK z \in Int : Number(w) = x + (W * W) * z
  BY DEF Alike
<1>3. W * (w.hi - W * z) = W * w.hi - (W * W) * z /\ w.hi - W * z \in Int
      /\ W * w.hi \in Int /\ (W * W) * z \in Int
  BY <1>1
<1>4. x = W * (w.hi - W * z) + w.lo
  BY <1>1, <1>2, <1>3
<1> QED BY <1>1, <1>3, <1>4

LEMMA Added ==
    ASSUME NEW a \in Words, NEW b \in Words
    PROVE  add_64(W, a, b) \in Small /\ Alike(Number(add_64(W, a, b)), Number(a) + Number(b))
<1> DEFINE r == add_64(W, a, b)
<1>1. r \in Small /\ r \in Words
  BY SumIs
<1>2. PICK k \in {0, 1} : Number(a) + Number(b) = Number(r) + (W * W) * k
  BY SumIs
<1> HIDE DEF r
<1>3. Number(r) \in Int /\ Number(a) + Number(b) \in Int /\ W * W \in Int
  BY <1>1, NumbersFit, HalfIs
<1>4. (W * W) * (-k) = -((W * W) * k) /\ (W * W) * k \in Int /\ -k \in Int
  BY <1>3
<1>5. Number(r) = (Number(a) + Number(b)) + (W * W) * (-k)
  BY <1>2, <1>3, <1>4
<1>6. Alike(Number(r), Number(a) + Number(b))
  BY <1>4, <1>5 DEF Alike
<1> QED BY <1>1, <1>6 DEF r

LEMMA Taken ==
    ASSUME NEW a \in Words, NEW b \in Words
    PROVE  sub_64(W, a, b) \in Small /\ Alike(Number(sub_64(W, a, b)), Number(b) - Number(a))
<1> DEFINE r == sub_64(W, a, b)
<1>1. r \in Small /\ r \in Words
  BY DifferenceIs
<1>2. PICK k \in {0, 1} : Number(b) - Number(a) = Number(r) - (W * W) * k
  BY DifferenceIs
<1> HIDE DEF r
<1>3. Number(r) \in Int /\ Number(b) - Number(a) \in Int /\ W * W \in Int
  BY <1>1, NumbersFit, HalfIs
<1>4. (W * W) * k \in Int /\ k \in Int
  BY <1>3
<1>5. Number(r) = (Number(b) - Number(a)) + (W * W) * k
  BY <1>2, <1>3, <1>4
<1>6. Alike(Number(r), Number(b) - Number(a))
  BY <1>4, <1>5 DEF Alike
<1> QED BY <1>1, <1>6 DEF r

\* The word of any number of ticks.
LEMMA WordAlike ==
    ASSUME NEW v \in Nat
    PROVE  Word(W, v) \in Words /\ Alike(Number(Word(W, v)), v)
<1> DEFINE q == v \div W
           r == v % W
           p == q \div W
           h == q % W
<1>0. W \in Nat /\ W > 0 /\ W * W \in Int
  BY HalfIs
<1>1. q \in Int /\ r \in Int /\ 0 <= r /\ r < W /\ v = W * q + r
  BY <1>0, Dividing
<1>2. p \in Int /\ h \in Int /\ 0 <= h /\ h < W /\ q = W * p + h
  BY <1>0, <1>1, Dividing
<1>3. Word(W, v) = [hi |-> q, lo |-> r]
  BY DEF Word
<1>4. Number([hi |-> q, lo |-> r]) = (r % W) + W * h
  BY DEF Number
<1> HIDE DEF q, r, p, h
<1>5. r % W = r
  <2>1. W * 0 + r = r
    BY <1>0, <1>1
  <2> QED BY <1>0, <1>1, <2>1, Quotients
<1>6. 0 <= q
  <2> SUFFICES ASSUME q <= -1 PROVE FALSE
    BY <1>1
  <2>1. W * q <= W * (-1)
    BY <1>0, <1>1, Times
  <2>2. W * (-1) = -W /\ W * q \in Int
    BY <1>0, <1>1
  <2> QED BY <1>0, <1>1, <2>1, <2>2
<1>7. W * q = (W * W) * p + W * h
  <2>1. W * (W * p + h) = (W * W) * p + W * h
    BY <1>0, <1>2
  <2> QED BY <1>2, <2>1
<1>8. (W * W) * (-p) = -((W * W) * p) /\ (W * W) * p \in Int /\ -p \in Int /\ W * h \in Int
      /\ W * q \in Int
  BY <1>0, <1>1, <1>2
<1>9. r + W * h = v + (W * W) * (-p)
  BY <1>1, <1>7, <1>8
<1>10. Alike(r + W * h, v)
  BY <1>8, <1>9 DEF Alike
<1>11. [hi |-> q, lo |-> r] \in Words
  BY <1>1, <1>6 DEF Words
<1> QED BY <1>3, <1>4, <1>5, <1>10, <1>11

\* A signed long as a word.
LEMMA SignIs ==
    ASSUME NEW t \in -Mid .. Mid - 1
    PROVE  /\ SignExtended(W, t) \in Small /\ Alike(Number(SignExtended(W, t)), t)
           /\ t % W = IF t >= 0 THEN t ELSE t + W
<1>0. W \in Nat /\ W > 0 /\ W * W \in Int /\ W = 2 * Mid /\ Mid \in Nat /\ t \in Int
  BY HalfIs, MidIs
<1>1. t % W = IF t >= 0 THEN t ELSE t + W
  <2>1. CASE t >= 0
    <3>1. W * 0 + t = t /\ t < W
      BY <1>0
    <3> QED BY <1>0, <2>1, <3>1, Quotients
  <2>2. CASE t < 0
    <3>1. W * (-1) + (t + W) = t /\ t + W \in Int /\ 0 <= t + W /\ t + W < W
      BY <1>0, <2>2
    <3>2. (W * (-1) + (t + W)) % W = t + W
      BY <1>0, <3>1, Quotients
    <3> QED BY <2>2, <3>1, <3>2
  <2> QED BY <1>0, <2>1, <2>2
<1>2. SignExtended(W, t) = [hi |-> IF t >= 0 THEN 0 ELSE W - 1,
                            lo |-> IF t >= 0 THEN t ELSE t + W]
  BY <1>0, <1>1 DEF SignExtended, Negative32, Mid
<1> DEFINE w == SignExtended(W, t)
<1>3. w \in Small
  BY <1>0, <1>2 DEF Small
<1>4. Number(w) = w.lo + W * w.hi
  BY <1>3, SmallIs
<1> HIDE DEF w
<1>5. Alike(Number(w), t)
  <2>1. CASE t >= 0
    <3>1. Number(w) = t
      BY <1>0, <1>2, <1>4, <2>1 DEF w
    <3> QED BY <3>1, AlikeSame
  <2>2. CASE t < 0
    <3>1. W * (W - 1) = W * W - W
      BY <1>0
    <3>2. Number(w) = t + W + W * (W - 1)
      BY <1>0, <1>2, <1>4, <2>2 DEF w
    <3>3. Number(w) = t + (W * W) * 1
      BY <1>0, <3>1, <3>2
    <3> QED BY <3>3 DEF Alike
  <2> QED BY <1>0, <2>1, <2>2
<1> QED BY <1>1, <1>3, <1>5 DEF w

\* What get_t1_t2 takes for the user's setting: more than half a minute, either way.
LEMMA SizeIs ==
    ASSUME NEW adj \in Small, NEW x \in Int, Alike(Number(adj), x),
           x < W * W - HALF_MINUTE, -x < W * W - HALF_MINUTE
    PROVE  LET delta == Size(W, adj)
           IN  (delta.hi # 0 \/ delta.lo > HALF_MINUTE) <=> (x > HALF_MINUTE \/ x < -HALF_MINUTE)
<1> DEFINE q == W * W
           delta == Size(W, adj)
           n == Number(adj)
<1>1. /\ W \in Nat /\ W > 0 /\ q \in Nat /\ q >= W
      /\ HALF_MINUTE \in Nat /\ HALF_MINUTE > 0 /\ HALF_MINUTE < W
      /\ SIGN \in Nat /\ SIGN > 0 /\ SIGN < W /\ ((W - 1) \div SIGN) % 2 = 1
  BY HalfIs, ClockAssumption DEF ClockAssumption
<1>2. ASSUME NEW w \in Small
      PROVE  /\ Number(w) \in 0 .. q - 1
             /\ (w.hi # 0 \/ w.lo > HALF_MINUTE) <=> Number(w) > HALF_MINUTE
  <2>1. /\ w \in Words /\ Number(w) = w.lo + W * w.hi
        /\ w.lo \in 0 .. W - 1 /\ w.hi \in 0 .. W - 1
    BY SmallIs
  <2>2. Number(w) \in 0 .. q - 1
    BY <2>1, NumbersFit
  <2>3. CASE w.hi = 0
    BY <1>1, <2>1, <2>2, <2>3
  <2>4. CASE w.hi # 0
    <3>1. W * 1 <= W * w.hi
      BY <1>1, <2>1, <2>4, Times
    <3>2. W * w.hi \in Int /\ W * 1 = W
      BY <1>1, <2>1
    <3> QED BY <1>1, <2>1, <2>2, <2>4, <3>1, <3>2
  <2> QED BY <2>3, <2>4
<1>3. n \in 0 .. q - 1 /\ adj \in Words /\ adj.hi \in 0 .. W - 1
      /\ adj.lo \in 0 .. W - 1 /\ n = adj.lo + W * adj.hi
  BY <1>2, SmallIs
<1> DEFINE isNegative == (adj.hi \div SIGN) % 2 = 1
<1>4. CASE x >= 0
  <2>1. n = x
    BY <1>1, <1>3, <1>4, AlikeEqual
  <2>2. CASE ~isNegative
    <3>1. delta = adj
      BY <2>2 DEF Size
    <3> QED BY <1>1, <1>2, <1>3, <1>4, <2>1, <3>1
  <2>3. CASE isNegative
    <3>1. adj.hi # 0
      <4>1. SIGN * 0 + 0 = 0 /\ 0 \div SIGN = 0
        BY <1>1, Quotients
      <4>2. 0 % 2 = 0
        OBVIOUS
      <4> QED BY <2>3, <4>1, <4>2
    <3>2. n > HALF_MINUTE
      BY <1>2, <3>1
    <3>3. delta = sub_64(W, adj, Zero)
      BY <2>3 DEF Size
    <3>4. delta \in Small /\ Alike(Number(delta), 0 - n)
      BY <1>3, <3>3, Taken, ZeroIs
    <3>5. Number(delta) \in 0 .. q - 1
      BY <1>2, <3>4
    <3>6. Alike(Number(delta), q - n)
      <4>1. q = 0 + q * 1
        BY <1>1
      <4>2. Alike(q, 0)
        BY <4>1 DEF Alike
      <4>3. Alike(0, q)
        <5>1. 0 = q + q * (-1)
          BY <1>1
        <5> QED BY <5>1 DEF Alike
      <4>4. Alike(0 - n, q - n)
        <5>1. n \in Int /\ q \in Int /\ Alike(n, n)
          BY <1>1, <1>3, AlikeSame
        <5> HIDE DEF n, q
        <5> QED BY <4>3, <5>1, AlikeSums
      <4> QED BY <1>1, <1>3, <3>4, <3>5, <4>4, AlikeChain
    <3>7. Number(delta) = q - n
      <4> HIDE DEF delta, n
      <4> QED BY <1>1, <1>3, <3>2, <3>5, <3>6, AlikeEqual
    <3>8. Number(delta) > HALF_MINUTE
      BY <1>1, <1>3, <2>1, <3>7
    <3> QED BY <1>1, <1>2, <1>3, <2>1, <3>2, <3>4, <3>8
  <2> QED BY <2>2, <2>3
<1>5. CASE x < 0
  <2>1. n = x + q
    <3>1. x = (x + q) + q * (-1)
      BY <1>1
    <3>2. Alike(x, x + q)
      BY <3>1 DEF Alike
    <3>3. Alike(n, x + q)
      BY <1>1, <1>3, <3>2, AlikeChain
    <3> HIDE DEF n
    <3> QED BY <1>1, <1>3, <1>5, <3>3, AlikeEqual
  <2>2. CASE isNegative
    <3>1. delta = sub_64(W, adj, Zero)
      BY <2>2 DEF Size
    <3>2. delta \in Small /\ Alike(Number(delta), 0 - n)
      BY <1>3, <3>1, Taken, ZeroIs
    <3>3. Number(delta) \in 0 .. q - 1
      BY <1>2, <3>2
    <3>4. Alike(0 - n, -x)
      <4>1. Alike(0 - n, 0 - x)
        BY <1>3, AlikeSame, AlikeSums
      <4> QED BY <4>1
    <3>5. Alike(Number(delta), -x)
      BY <1>3, <3>2, <3>3, <3>4, AlikeChain
    <3>6. Number(delta) = -x
      <4> HIDE DEF delta, n
      <4> QED BY <1>1, <1>5, <3>3, <3>5, AlikeEqual
    <3> QED BY <1>1, <1>2, <1>5, <3>2, <3>6
  <2>3. CASE ~isNegative
    <3>1. delta = adj
      BY <2>3 DEF Size
    <3>2. n > HALF_MINUTE
      BY <1>1, <1>5, <2>1
    <3>3. x < -HALF_MINUTE
      <4> SUFFICES ASSUME x >= -HALF_MINUTE PROVE FALSE
        BY <1>1
      <4>1. n > q - W
        BY <1>1, <2>1
      <4>2. adj.hi = W - 1
        <5> SUFFICES ASSUME adj.hi <= W - 2 PROVE FALSE
          BY <1>1, <1>3
        <5>1. W * adj.hi <= W * (W - 2)
          BY <1>1, <1>3, Times
        <5>2. W * (W - 2) = q - 2 * W /\ W * adj.hi \in Int
          BY <1>1, <1>3
        <5> QED BY <1>1, <1>3, <4>1, <5>1, <5>2
      <4> QED BY <1>1, <2>3, <4>2
    <3> QED BY <1>2, <3>1, <3>2, <3>3
  <2> QED BY <2>2, <2>3
<1> QED BY <1>4, <1>5

----------------------------------------------------------------------------
(* The time shown, with longs of 32 bits.  The inductive invariant.        *)

\* A multiple of W that no setting exceeds.
Span == W * (MaxSetting \div W + 1)

\* The calculator is j words behind at most, which timer 2 cannot count, and k ahead, and no
\* further from the phone than the settings and the time without a correction bring it.
Strays(j, k) ==
    /\ -(W * j) - waited <= Lead /\ Lead <= W * k + HALF_MINUTE
    /\ -(W * j) - Mid <= timer2 + Lead /\ timer2 + Lead < W * k + Mid
    /\ waited - now - settings * Span <= Offset - W * j
    /\ Offset + W * k + (IF setting THEN HALF_MINUTE ELSE 0)
       <= settings * (Span + HALF_MINUTE)
    /\ ~setting => j = 0 /\ k = 0

Roomy ==
    \E e \in Ends : /\ now <= e /\ e \in Nat
                   /\ 2 * (unix_0_time + e + 2 * Reach) < W * W

Numbered ==
    /\ long = W /\ now \in Nat /\ timer2 \in -Mid .. Mid - 1
    /\ set_0_time \in Small /\ time_offset \in Small
    /\ Alike(Number(time_offset), Number(set_0_time) + unix_0_time)
    /\ accesstime \in Nat /\ moved \in Int
    /\ waited \in 0 .. MaxWait /\ settings \in 0 .. MaxSettings
    /\ setting \in BOOLEAN /\ adj_time_pending \in BOOLEAN

Served == (~inSrvcIo => moved = 0) /\ (asleep => ~inSrvcIo)

\* A timer 2 that the program has not set is one that a correction could not count on from:
\* then the calculator is not within half a minute of the phone.
Held ==
    /\ (\A t \in Timeout : timer2 > t) => timer2 + Lead < Mid \/ Lead >= W - waited
    /\ timer2 < -(MaxBelow + MaxWait) => -Mid <= timer2 + Lead \/ Lead < -HALF_MINUTE

TimeInv == Numbered /\ Served /\ Roomy /\ Held /\ \E j \in Nat, k \in Nat : Strays(j, k)

----------------------------------------------------------------------------
(* What a correction does.                                                 *)

LEMMA OffsetIs ==
    ASSUME NEW w \in Words
    PROVE  LET o == Signed(Number(w), W * W)
           IN  /\ o \in Int /\ -(W * W) <= 2 * o /\ 2 * o < W * W
               /\ Alike(Number(w), o)
<1> DEFINE q == W * W
           n == Number(w)
           m == W * Mid
<1>1. q \in Nat /\ q > 0 /\ n \in 0 .. q - 1 /\ m \in Int /\ q = 2 * m
  <2>1. W * (2 * Mid) = 2 * (W * Mid) /\ W * Mid \in Int
    BY HalfIs, MidIs
  <2> QED BY <2>1, HalfIs, MidIs, NumbersFit
<1>2. q \div 2 = m
  <2>1. q = 2 * m + 0
    BY <1>1
  <2> HIDE DEF q, m
  <2> QED BY <1>1, <2>1, Quotients
<1>3. Alike(n, n) /\ Alike(n, n - q)
  <2>1. n = (n - q) + q * 1
    BY <1>1
  <2>2. Alike(n, n - q)
    BY <2>1 DEF Alike
  <2> QED BY <1>1, <2>2, AlikeSame
<1>4. Signed(n, q) = IF n >= m THEN n - q ELSE n
  BY <1>2 DEF Signed
<1> HIDE DEF q, n, m
<1>5. CASE n >= m
  BY <1>1, <1>3, <1>4, <1>5 DEF q, n
<1>6. CASE n < m
  BY <1>1, <1>3, <1>4, <1>6 DEF q, n
<1> QED BY <1>1, <1>5, <1>6

\* Half a word is compared as an unsigned number, and taken for a signed one.
LEMMA BehindIs ==
    ASSUME NEW t \in -Mid .. Mid - 1, NEW left \in Small
    PROVE  LET s == Signed(left.lo, W)
           IN  /\ s \in -Mid .. Mid - 1
               /\ s = left.lo \/ s = left.lo - W
               /\ long = W => (IsBehind(t, left) <=> s < t \/ (t < 0 /\ s >= 0))
<1> DEFINE lo == left.lo
           s == Signed(lo, W)
<1>1. W = 2 * Mid /\ Mid \in Nat /\ Mid >= 1 /\ lo \in 0 .. W - 1 /\ W \div 2 = Mid
  BY MidIs, SmallIs DEF Mid
<1>2. t % W = IF t >= 0 THEN t ELSE t + W
  BY SignIs
<1>3. s = IF lo >= Mid THEN lo - W ELSE lo
  BY <1>1 DEF Signed
<1>4. (lo \div Mid) % 2 = IF lo >= Mid THEN 1 ELSE 0
  <2> HIDE DEF lo
  <2>1. CASE lo >= Mid
    <3>1. Mid * 1 + (lo - Mid) = lo /\ lo - Mid \in Int /\ 0 <= lo - Mid /\ lo - Mid < Mid
      BY <1>1, <2>1
    <3>2. (Mid * 1 + (lo - Mid)) \div Mid = 1
      BY <1>1, <3>1, Quotients
    <3> QED BY <2>1, <3>1, <3>2
  <2>2. CASE lo < Mid
    <3>1. Mid * 0 + lo = lo
      BY <1>1
    <3>2. (Mid * 0 + lo) \div Mid = 0
      BY <1>1, <2>2, Quotients
    <3> QED BY <1>1, <2>2, <3>1, <3>2
  <2> QED BY <1>1, <2>1, <2>2
<1>5. ASSUME long = W
      PROVE  IsBehind(t, left) <=> (t >= 0 /\ lo >= Mid) \/ t % W > lo
  BY <1>1, <1>4, <1>5 DEF IsBehind
<1> HIDE DEF lo, s
<1>6. s \in -Mid .. Mid - 1 /\ (s = lo \/ s = lo - W)
  BY <1>1, <1>3
<1>7. ASSUME long = W
      PROVE  IsBehind(t, left) <=> s < t \/ (t < 0 /\ s >= 0)
  <2>1. CASE lo >= Mid
    BY <1>1, <1>2, <1>3, <1>5, <1>7, <2>1
  <2>2. CASE lo < Mid
    BY <1>1, <1>2, <1>3, <1>5, <1>7, <2>2
  <2> QED BY <1>1, <2>1, <2>2
<1> QED BY <1>6, <1>7 DEF s, lo

LEMMA SpanIs ==
    /\ Span \in Nat /\ Span > MaxSetting /\ \E l \in Nat : Span = W * l
    /\ Reach \in Nat /\ Reach >= W
    /\ \A n \in 0 .. MaxSettings :
         /\ n * Span \in Nat /\ n * (Span + HALF_MINUTE) \in Nat
         /\ n * Span <= Reach - W /\ n * (Span + HALF_MINUTE) <= Reach - W
         /\ (n + 1) * Span = n * Span + Span
         /\ (n + 1) * (Span + HALF_MINUTE) = n * (Span + HALF_MINUTE) + Span + HALF_MINUTE
<1> DEFINE m == MaxSetting \div W
           r == MaxSetting % W
<1>1. /\ W \in Nat /\ W > 0 /\ MaxSetting \in Nat /\ MaxSettings \in Nat
      /\ HALF_MINUTE \in Nat /\ HALF_MINUTE < W
  BY HalfIs, ClockAssumption DEF ClockAssumption
<1>2. m \in Int /\ r \in Int /\ 0 <= r /\ r < W /\ MaxSetting = W * m + r
  BY <1>1, Dividing
<1>3. Span = W * (m + 1)
  BY DEF Span
<1> HIDE DEF m, r
<1>4. W * (m + 1) = W * m + W /\ W * m \in Int
  BY <1>1, <1>2
<1>5. 0 <= m
  <2> SUFFICES ASSUME m <= -1 PROVE FALSE
    BY <1>2
  <2>1. W * m <= W * (-1)
    BY <1>1, <1>2, Times
  <2>2. W * (-1) = -W
    BY <1>1
  <2> QED BY <1>1, <1>2, <1>4, <2>1, <2>2
<1>6. Span \in Nat /\ Span > MaxSetting /\ Span <= MaxSetting + W
  BY <1>1, <1>2, <1>3, <1>4
<1>7. \E l \in Nat : Span = W * l
  BY <1>2, <1>3, <1>5
<1> DEFINE b == MaxSetting + 2 * W
           a == Span + HALF_MINUTE
<1>8. b \in Nat /\ a \in Nat /\ a <= b /\ Span <= b
  BY <1>1, <1>6
<1>9. Reach = MaxSettings * b + W
  BY DEF Reach
<1> HIDE DEF b, a
<1>10. MaxSettings * b \in Nat
  BY <1>1, <1>8
<1>11. ASSUME NEW n \in 0 .. MaxSettings, NEW c \in Nat, c <= b
       PROVE  n * c \in Nat /\ n * c <= MaxSettings * b /\ (n + 1) * c = n * c + c
  <2>1. n \in Nat /\ n <= MaxSettings
    BY <1>1
  <2>2. n * c <= n * b
    BY <1>8, <1>11, <2>1, Times
  <2>3. b * n <= b * MaxSettings
    BY <1>1, <1>8, <2>1, Times
  <2>4. b * n = n * b /\ b * MaxSettings = MaxSettings * b /\ n * c \in Nat /\ n * b \in Int
    BY <1>1, <1>8, <2>1
  <2>5. (n + 1) * c = n * c + c
    BY <2>1
  <2> QED BY <1>10, <2>2, <2>3, <2>4, <2>5
<1>12. ASSUME NEW n \in 0 .. MaxSettings
       PROVE  /\ n * Span \in Nat /\ n * a \in Nat
              /\ n * Span <= Reach - W /\ n * a <= Reach - W
              /\ (n + 1) * Span = n * Span + Span /\ (n + 1) * a = n * a + a
  BY <1>1, <1>6, <1>8, <1>9, <1>10, <1>11
<1>13. \A n \in 0 .. MaxSettings : (n + 1) * a = n * a + Span + HALF_MINUTE
  BY <1>1, <1>6, <1>12 DEF a
<1> QED BY <1>1, <1>6, <1>7, <1>9, <1>10, <1>12, <1>13 DEF a

\* There is room for all of it in 64 bits.
LEMMA RoomIs ==
    ASSUME Numbered, Roomy, NEW j \in Nat, NEW k \in Nat, Strays(j, k)
    PROVE  /\ Lead \in Int /\ Offset \in Int /\ timer2 \in Int /\ unix_0_time \in Nat
           /\ W * j \in Nat /\ W * k \in Nat /\ W \in Nat /\ W * W \in Nat
           /\ W = 2 * Mid /\ Mid \in Nat /\ Mid >= 1
           /\ HALF_MINUTE \in Nat /\ HALF_MINUTE < W
           /\ unix_0_time >= Reach /\ Reach \in Nat /\ Reach >= W
           /\ 2 * (unix_0_time + now + 2 * Reach) < W * W
           /\ -(now + Reach - W) <= Offset /\ Offset <= Reach - W
           /\ -(now + Reach - W) <= Offset + Lead /\ Offset + Lead < Reach
           /\ Shown = Lead + Offset + unix_0_time + now
<1>1. /\ W \in Nat /\ W * W \in Nat /\ W = 2 * Mid /\ Mid \in Nat /\ Mid >= 1
      /\ HALF_MINUTE \in Nat /\ HALF_MINUTE < W /\ unix_0_time \in Nat /\ unix_0_time >= Reach
  BY HalfIs, MidIs, ClockAssumption, CalendarAssumption DEF ClockAssumption, CalendarAssumption
<1>2. /\ now \in Nat /\ waited \in Nat /\ timer2 \in Int /\ accesstime \in Int /\ moved \in Int
      /\ set_0_time \in Words /\ settings \in 0 .. MaxSettings
  BY SmallIs, ClockAssumption DEF Numbered, ClockAssumption
<1>3. Offset \in Int
  BY <1>2, OffsetIs DEF Offset
<1>4. Lead = Shown - (unix_0_time + now + Offset) /\ Shown \in Int
  BY <1>2 DEF Lead, Shown
<1>5. Reach \in Nat /\ Reach >= W /\ settings * Span \in Nat /\ settings * Span <= Reach - W
      /\ settings * (Span + HALF_MINUTE) \in Nat
      /\ settings * (Span + HALF_MINUTE) <= Reach - W
  BY <1>2, SpanIs
<1>6. W * j \in Nat /\ W * k \in Nat
  BY <1>1
<1>7. PICK e \in Ends : now <= e /\ e \in Nat /\ 2 * (unix_0_time + e + 2 * Reach) < W * W
  BY DEF Roomy
<1>8. 2 * (unix_0_time + now + 2 * Reach) < W * W
  BY <1>1, <1>2, <1>5, <1>7
<1>9. Lead \in Int /\ Shown = Lead + Offset + unix_0_time + now
  BY <1>1, <1>2, <1>3, <1>4
<1>10. /\ -(W * j) - waited <= Lead /\ Lead <= W * k + HALF_MINUTE
       /\ waited - now - settings * Span <= Offset - W * j
       /\ Offset + W * k + (IF setting THEN HALF_MINUTE ELSE 0)
          <= settings * (Span + HALF_MINUTE)
       /\ ~setting => k = 0
  BY DEF Strays
<1>11. Offset + W * k + HALF_MINUTE < Reach /\ Offset <= Reach - W
  BY <1>1, <1>3, <1>5, <1>6, <1>10
<1>12. -(now + Reach - W) <= Offset - W * j - waited
  BY <1>1, <1>2, <1>3, <1>5, <1>6, <1>10
<1> QED BY <1>1, <1>2, <1>3, <1>5, <1>6, <1>8, <1>9, <1>10, <1>11, <1>12

\* Timer 2 is given the half word s of the time left, unless that would set it up.
PutTo(t, s) == IF s < t \/ (t < 0 /\ s >= 0) THEN s ELSE t

Adjusts == ~adj_time_pending /\ (Lead > HALF_MINUTE \/ Lead < -HALF_MINUTE)

LEMMA CorrectionIs ==
    ASSUME Numbered, Roomy, NEW j \in Nat, NEW k \in Nat, Strays(j, k), moved = 0, Corrected
    PROVE  /\ set_0_time' \in Small /\ time_offset' \in Small
           /\ Alike(Number(time_offset'), Number(set_0_time') + unix_0_time)
           /\ Offset' \in Int
           /\ Adjusts => Offset' = Offset + Lead /\ timer2' = timer2
           /\ ~Adjusts =>
                /\ set_0_time' = set_0_time
                /\ \E s \in -Mid .. Mid - 1, i \in Int :
                     timer2 + Lead = W * i + s /\ timer2' = PutTo(timer2, s)
           /\ timer2' \in -Mid .. Mid - 1
           /\ waited' = 0 /\ setting' = (setting /\ adj_time_pending)
<1> DEFINE t2 == timer2
           u == unix_0_time
           o == Offset
           stop == add_64(W, time_offset, Word(W, now))
           access == sub_64(W, stop, Word(W, accesstime))
           adj == sub_64(W, SignExtended(W, timer2), access)
           delta == Size(W, adj)
           adjusts == ~adj_time_pending /\ (delta.hi # 0 \/ delta.lo > HALF_MINUTE)
           left == IF adjusts THEN sub_64(W, adj, access) ELSE access
           by == IF adjusts THEN adj ELSE Zero
<1>0. /\ Lead \in Int /\ o \in Int /\ t2 \in Int /\ u \in Nat
      /\ W \in Nat /\ W * W \in Nat /\ W = 2 * Mid /\ Mid \in Nat /\ Mid >= 1
      /\ HALF_MINUTE \in Nat /\ HALF_MINUTE < W
      /\ u >= Reach /\ Reach \in Nat /\ Reach >= W
      /\ 2 * (u + now + 2 * Reach) < W * W
      /\ -(now + Reach - W) <= o /\ o <= Reach - W
      /\ -(now + Reach - W) <= o + Lead /\ o + Lead < Reach
      /\ Shown = Lead + o + u + now
  BY RoomIs
<1>1. /\ long = W /\ now \in Nat /\ t2 \in -Mid .. Mid - 1 /\ accesstime \in Nat
      /\ set_0_time \in Small /\ time_offset \in Small
      /\ Alike(Number(time_offset), Number(set_0_time) + u)
  BY DEF Numbered
<1>2. /\ timer2' = IF IsBehind(timer2, left) THEN Signed(left.lo, W) ELSE timer2
      /\ set_0_time' = add_64(W, by, set_0_time)
      /\ time_offset' = add_64(W, by, time_offset)
      /\ waited' = 0 /\ setting' = (setting /\ adj_time_pending)
  BY <1>1 DEF Corrected, get_t1_t2
<1>3. accesstime - t2 = Lead + o + u + now
  BY <1>0, <1>1 DEF Shown
<1> HIDE DEF t2, u, o
<1>4. /\ set_0_time \in Words /\ Number(set_0_time) \in Int /\ Alike(Number(set_0_time), o)
      /\ time_offset \in Words /\ Number(time_offset) \in Int
  BY <1>1, SmallIs, NumbersFit, OffsetIs DEF Offset, o
<1>5. Alike(Number(time_offset), o + u)
  <2>1. Alike(Number(set_0_time) + u, o + u)
    BY <1>0, <1>4, AlikeSame, AlikeSums
  <2> QED BY <1>0, <1>1, <1>4, <2>1, AlikeChain
<1>6. stop \in Small /\ Number(stop) \in Int /\ Alike(Number(stop), o + u + now)
  <2> DEFINE n == Word(W, now)
  <2>1. n \in Words /\ Alike(Number(n), now) /\ Number(n) \in Int
    BY <1>1, WordAlike, NumbersFit
  <2>2. stop \in Small /\ Alike(Number(stop), Number(time_offset) + Number(n))
    BY <1>4, <2>1, Added
  <2>3. Number(stop) \in Int
    BY <2>2, SmallIs, NumbersFit
  <2> HIDE DEF stop, n
  <2>4. Alike(Number(time_offset) + Number(n), (o + u) + now)
    BY <1>0, <1>1, <1>4, <1>5, <2>1, AlikeSums
  <2>5. Alike(Number(stop), (o + u) + now)
    BY <1>0, <1>1, <1>4, <2>1, <2>2, <2>3, <2>4, AlikeChain
  <2> QED BY <2>2, <2>3, <2>5
<1>7. access \in Small /\ Number(access) \in Int /\ Alike(Number(access), t2 + Lead)
  <2> DEFINE a == Word(W, accesstime)
  <2>1. a \in Words /\ Alike(Number(a), accesstime) /\ Number(a) \in Int
    BY <1>1, WordAlike, NumbersFit
  <2>2. access \in Small /\ Alike(Number(access), Number(a) - Number(stop))
    BY <1>6, <2>1, SmallIs, Taken
  <2>3. Number(access) \in Int
    BY <2>2, SmallIs, NumbersFit
  <2> HIDE DEF stop, access, a
  <2>4. Alike(Number(a) - Number(stop), accesstime - (o + u + now))
    BY <1>0, <1>1, <1>6, <2>1, AlikeSums
  <2>5. Alike(Number(access), accesstime - (o + u + now))
    BY <1>0, <1>1, <1>6, <2>1, <2>2, <2>3, <2>4, AlikeChain
  <2>6. accesstime - (o + u + now) = t2 + Lead
    BY <1>0, <1>1, <1>3
  <2> QED BY <2>2, <2>3, <2>5, <2>6
<1>8. adj \in Small /\ Number(adj) \in Int /\ Alike(Number(adj), Lead)
  <2> DEFINE t == SignExtended(W, timer2)
  <2>1. t \in Small /\ Alike(Number(t), t2)
    BY <1>1, SignIs DEF t2
  <2>2. t \in Words /\ Number(t) \in Int /\ access \in Words
    BY <1>7, <2>1, SmallIs, NumbersFit
  <2>3. adj \in Small /\ Alike(Number(adj), Number(access) - Number(t))
    BY <2>2, Taken
  <2>4. Number(adj) \in Int
    BY <2>3, SmallIs, NumbersFit
  <2> HIDE DEF access, adj, t
  <2>5. Alike(Number(access) - Number(t), (t2 + Lead) - t2)
    BY <1>0, <1>7, <2>1, <2>2, AlikeSums
  <2>6. Alike(Number(adj), (t2 + Lead) - t2)
    BY <1>0, <1>7, <2>2, <2>3, <2>4, <2>5, AlikeChain
  <2>7. (t2 + Lead) - t2 = Lead
    BY <1>0
  <2> QED BY <2>3, <2>4, <2>6, <2>7
<1>9. adjusts <=> Adjusts
  <2>1. Lead < W * W - HALF_MINUTE /\ -Lead < W * W - HALF_MINUTE
    BY <1>0, <1>1
  <2>2. (delta.hi # 0 \/ delta.lo > HALF_MINUTE) <=> (Lead > HALF_MINUTE \/ Lead < -HALF_MINUTE)
    BY <1>0, <1>8, <2>1, SizeIs
  <2> QED BY <2>2 DEF Adjusts
<1>10. by \in Words /\ Number(by) \in Int
       /\ Alike(Number(by), IF Adjusts THEN Lead ELSE 0)
  <2>1. CASE Adjusts
    BY <1>8, <1>9, <2>1, SmallIs
  <2>2. CASE ~Adjusts
    BY <1>9, <2>2, ZeroIs, AlikeSame
  <2> QED BY <2>1, <2>2
<1>11. /\ set_0_time' \in Small /\ Alike(Number(set_0_time'), Number(by) + Number(set_0_time))
       /\ time_offset' \in Small
       /\ Alike(Number(time_offset'), Number(by) + Number(time_offset))
  BY <1>2, <1>4, <1>10, Added
<1>12. left \in Small /\ Number(left) \in Int
       /\ Alike(Number(left), IF Adjusts THEN t2 ELSE t2 + Lead)
  <2>1. CASE Adjusts
    <3> DEFINE l == sub_64(W, adj, access)
    <3>1. left = l
      BY <1>9, <2>1
    <3>2. l \in Small /\ Alike(Number(l), Number(access) - Number(adj))
      BY <1>7, <1>8, SmallIs, Taken
    <3>3. Number(l) \in Int
      BY <3>2, SmallIs, NumbersFit
    <3> HIDE DEF access, adj, l, left
    <3>4. Alike(Number(access) - Number(adj), (t2 + Lead) - Lead)
      BY <1>0, <1>7, <1>8, AlikeSums
    <3>5. Alike(Number(l), (t2 + Lead) - Lead)
      BY <1>0, <1>7, <1>8, <3>2, <3>3, <3>4, AlikeChain
    <3>6. (t2 + Lead) - Lead = t2
      BY <1>0
    <3> QED BY <2>1, <3>1, <3>2, <3>3, <3>5, <3>6
  <2>2. CASE ~Adjusts
    BY <1>7, <1>9, <2>2
  <2> QED BY <2>1, <2>2
<1> HIDE DEF stop, access, adj, delta, adjusts, left, by
<1> DEFINE n0 == Number(set_0_time)
           n1 == Number(set_0_time')
           m0 == Number(time_offset)
           m1 == Number(time_offset')
           b == Number(by)
           x == IF Adjusts THEN Lead ELSE 0
<1>13. /\ n0 \in Int /\ n1 \in Int /\ m0 \in Int /\ m1 \in Int /\ b \in Int /\ x \in Int
       /\ set_0_time' \in Words
  BY <1>0, <1>4, <1>10, <1>11, SmallIs, NumbersFit
<1>14. /\ Alike(n1, b + n0) /\ Alike(m1, b + m0) /\ Alike(m0, n0 + u) /\ Alike(n0, o)
       /\ Alike(b, x)
  BY <1>1, <1>4, <1>10, <1>11
<1>15. Offset' \in Int /\ Alike(n1, Offset') /\ -(W * W) <= 2 * Offset' /\ 2 * Offset' < W * W
  BY <1>13, OffsetIs DEF Offset
<1> HIDE DEF n0, n1, m0, m1, b, x
<1>16. Alike(m1, n1 + u)
  <2>1. Alike(b + m0, b + (n0 + u))
    BY <1>0, <1>13, <1>14, AlikeSame, AlikeSums
  <2>2. Alike(m1, b + (n0 + u))
    BY <1>0, <1>13, <1>14, <2>1, AlikeChain
  <2>3. Alike(b + n0, n1) /\ b + n0 \in Int /\ b + (n0 + u) \in Int /\ n1 + u \in Int
    BY <1>0, <1>13, <1>14, AlikeBack
  <2>4. Alike((b + n0) + u, n1 + u)
    BY <1>0, <1>13, <2>3, AlikeSame, AlikeSums
  <2>5. (b + n0) + u = b + (n0 + u)
    BY <1>0, <1>13
  <2> QED BY <1>13, <2>2, <2>3, <2>4, <2>5, AlikeChain
<1>17. Offset' = o + x
  <2>1. Alike(b + n0, x + o)
    BY <1>0, <1>13, <1>14, AlikeSums
  <2>2. Alike(n1, x + o)
    BY <1>0, <1>13, <1>14, <2>1, AlikeChain
  <2> DEFINE f == Offset'
  <2>3. f \in Int /\ Alike(f, n1) /\ -(W * W) <= 2 * f /\ 2 * f < W * W
    BY <1>13, <1>15, AlikeBack
  <2>4. x + o \in Int /\ -(W * W) < 2 * (x + o) /\ 2 * (x + o) < W * W
    BY <1>0, <1>1 DEF x
  <2> HIDE DEF f
  <2>5. Alike(f, x + o)
    BY <1>13, <2>2, <2>3, <2>4, AlikeChain
  <2>6. f = x + o
    BY <1>0, <2>3, <2>4, <2>5, AlikeEqual
  <2>7. x + o = o + x
    BY <1>0, <1>13
  <2> QED BY <2>6, <2>7 DEF f
<1>18. PICK i \in Int : (IF Adjusts THEN t2 ELSE t2 + Lead) = W * i + left.lo
  <2> DEFINE y == IF Adjusts THEN t2 ELSE t2 + Lead
  <2>1. y \in Int
    BY <1>0
  <2> HIDE DEF y
  <2>2. Alike(Number(left), y)
    BY <1>12 DEF y
  <2>3. \E i \in Int : y = W * i + left.lo
    BY <1>12, <2>1, <2>2, LowerIs
  <2> QED BY <2>3 DEF y
<1> DEFINE s == Signed(left.lo, W)
<1>19. /\ s \in -Mid .. Mid - 1 /\ (s = left.lo \/ s = left.lo - W)
       /\ IsBehind(t2, left) <=> s < t2 \/ (t2 < 0 /\ s >= 0)
  BY <1>1, <1>12, BehindIs
<1>20. timer2' = PutTo(t2, s)
  BY <1>2, <1>19 DEF PutTo, t2
<1>21. PICK h \in Int : (IF Adjusts THEN t2 ELSE t2 + Lead) = W * h + s
  <2>1. left.lo \in Int
    BY <1>12, SmallIs
  <2>2. CASE s = left.lo
    BY <1>18, <2>2
  <2>3. CASE s = left.lo - W
    <3>1. W * (i + 1) = W * i + W /\ W * i \in Int /\ i + 1 \in Int
      BY <1>0
    <3>2. (IF Adjusts THEN t2 ELSE t2 + Lead) = W * (i + 1) + s
      BY <1>0, <1>18, <2>1, <2>3, <3>1
    <3> QED BY <3>1, <3>2
  <2> QED BY <1>19, <2>2, <2>3
<1> HIDE DEF s
<1>22. timer2' \in -Mid .. Mid - 1
  BY <1>1, <1>19, <1>20 DEF PutTo
<1>23. ASSUME Adjusts PROVE Offset' = o + Lead /\ timer2' = t2
  <2>1. t2 = W * h + s /\ W * h \in Int
    BY <1>0, <1>21, <1>23
  <2>2. h = 0
    <3>1. ~ 1 <= h
      <4> SUFFICES ASSUME 1 <= h PROVE FALSE
        OBVIOUS
      <4>1. W * 1 <= W * h /\ W * 1 = W
        BY <1>0, Times
      <4> QED BY <1>0, <1>1, <1>19, <2>1, <4>1
    <3>2. ~ h <= -1
      <4> SUFFICES ASSUME h <= -1 PROVE FALSE
        OBVIOUS
      <4>1. W * h <= W * (-1) /\ W * (-1) = -W
        BY <1>0, Times
      <4> QED BY <1>0, <1>1, <1>19, <2>1, <4>1
    <3> QED BY <3>1, <3>2
  <2>3. t2 = s
    BY <1>0, <1>19, <2>1, <2>2
  <2> QED BY <1>17, <1>20, <1>23, <2>3 DEF PutTo, x
<1>24. ASSUME ~Adjusts
       PROVE  /\ set_0_time' = set_0_time
              /\ t2 + Lead = W * h + s /\ timer2' = PutTo(t2, s)
  <2>1. x = 0
    BY <1>24 DEF x
  <2>2. Alike(b + n0, 0 + n0)
    BY <1>13, <1>14, <2>1, AlikeSame, AlikeSums
  <2>3. Alike(n1, 0 + n0) /\ 0 + n0 = n0
    BY <1>13, <1>14, <2>2, AlikeChain
  <2>4. n0 \in 0 .. W * W - 1 /\ n1 \in 0 .. W * W - 1
    BY <1>4, <1>13, NumbersFit DEF n0, n1
  <2>5. n1 = n0
    BY <1>0, <1>13, <2>3, <2>4, AlikeEqual
  <2>6. set_0_time' = set_0_time
    BY <1>1, <1>11, <2>5, SmallSame DEF n0, n1
  <2> QED BY <1>20, <1>21, <1>24, <2>6
<1> QED BY <1>2, <1>11, <1>15, <1>16, <1>19, <1>22, <1>23, <1>24 DEF n1, m1, t2, u, o

\* Which word a number lies in.
LEMMA IndexIs ==
    ASSUME NEW i \in Int, NEW m \in Int, NEW s \in -Mid .. Mid - 1
    PROVE  /\ W * i \in Int /\ W * m \in Int
           /\ W * m - Mid <= W * i + s => m <= i /\ W * m <= W * i
           /\ W * i + s < W * m + Mid => i <= m /\ W * i <= W * m
<1>1. W \in Nat /\ W = 2 * Mid /\ Mid \in Nat /\ Mid >= 1 /\ W * i \in Int /\ W * m \in Int
  BY HalfIs, MidIs
<1>2. ASSUME i + 1 <= m PROVE ~(W * m - Mid <= W * i + s)
  <2>1. W * (i + 1) <= W * m /\ W * (i + 1) = W * i + W
    BY <1>1, <1>2, Times
  <2> QED BY <1>1, <2>1
<1>3. ASSUME m + 1 <= i PROVE ~(W * i + s < W * m + Mid)
  <2>1. W * (m + 1) <= W * i /\ W * (m + 1) = W * m + W
    BY <1>1, <1>3, Times
  <2> QED BY <1>1, <2>1
<1>4. /\ m <= i => W * m <= W * i
      /\ i <= m => W * i <= W * m
  BY <1>1, Times
<1> QED BY <1>1, <1>2, <1>3, <1>4

LEMMA CorrectionKeeps ==
    ASSUME TimeInv, ~inSrvcIo, Corrected, adj_time_pending' \in BOOLEAN,
           UNCHANGED <<long, now, accesstime, moved, inSrvcIo, settings, asleep>>
    PROVE  /\ TimeInv'
           /\ set_0_time' # set_0_time => setting \/ waited > HALF_MINUTE
           /\ Shown' >= Shown \/ (timer2 < 0 /\ timer2' >= 0)
           /\ ~setting' => Lead' >= 0
<1>1. PICK j \in Nat, k \in Nat : Strays(j, k)
  BY DEF TimeInv
<1>2. Numbered /\ Roomy /\ Held /\ moved = 0
  BY DEF TimeInv, Served
<1> DEFINE l == Lead
           l2 == Lead'
           t == timer2
           t2 == timer2'
           o == Offset
           o2 == Offset'
           b == settings * Span
           c == settings * (Span + HALF_MINUTE)
<1>3. /\ l \in Int /\ o \in Int /\ t \in -Mid .. Mid - 1
      /\ W * j \in Nat /\ W * k \in Nat /\ W \in Nat /\ W = 2 * Mid /\ Mid \in Nat /\ Mid >= 1
      /\ HALF_MINUTE \in Nat /\ HALF_MINUTE < W
      /\ now \in Nat /\ waited \in Nat /\ Shown = l + o + unix_0_time + now
      /\ unix_0_time \in Nat /\ accesstime \in Nat /\ setting \in BOOLEAN
  BY <1>1, <1>2, RoomIs DEF Numbered
<1>4. /\ set_0_time' \in Small /\ time_offset' \in Small
      /\ Alike(Number(time_offset'), Number(set_0_time') + unix_0_time)
      /\ o2 \in Int
      /\ Adjusts => o2 = o + l /\ t2 = t
      /\ ~Adjusts => /\ set_0_time' = set_0_time
                    /\ \E s \in -Mid .. Mid - 1, i \in Int :
                         t + l = W * i + s /\ t2 = PutTo(t, s)
      /\ t2 \in -Mid .. Mid - 1
      /\ waited' = 0 /\ setting' = (setting /\ adj_time_pending)
  BY <1>1, <1>2, CorrectionIs
<1>5. Shown = accesstime - t /\ Shown' = accesstime - t2 /\ l2 = Shown' - (unix_0_time + now + o2)
  <2>1. accesstime' = accesstime /\ moved' = moved /\ now' = now
    OBVIOUS
  <2>2. Shown = accesstime - t /\ Shown' = accesstime - t2
    BY <1>2, <1>3, <1>4, <2>1 DEF Shown
  <2> QED BY <2>1, <2>2 DEF Lead
<1>6. Adjusts <=> ~adj_time_pending /\ (l > HALF_MINUTE \/ l < -HALF_MINUTE)
  BY DEF Adjusts
<1>7. /\ -(W * j) - waited <= l /\ l <= W * k + HALF_MINUTE
      /\ -(W * j) - Mid <= t + l /\ t + l < W * k + Mid
      /\ waited - now - b <= o - W * j
      /\ o + W * k + (IF setting THEN HALF_MINUTE ELSE 0) <= c
      /\ ~setting => j = 0 /\ k = 0
  BY <1>1 DEF Strays
<1>8. b \in Nat /\ c \in Nat
  BY <1>2, SpanIs DEF Numbered
<1>9. W * 0 = 0
  BY <1>3
<1>10. /\ (\A n \in Timeout : t > n) => t + l < Mid \/ l >= W - waited
       /\ t < -(MaxBelow + MaxWait) => -Mid <= t + l \/ l < -HALF_MINUTE
  BY <1>2 DEF Held
<1>11. /\ MaxBelow \in Nat /\ MaxWait \in Nat /\ MaxWait + MaxBelow + HALF_MINUTE <= Mid
       /\ \A n \in Timeout : n \in Nat /\ n + HALF_MINUTE < Mid
       /\ waited <= MaxWait
  <2>1. /\ Timeout \subseteq 1 .. W \div 2 - HALF_MINUTE - 1
        /\ MaxBelow \in Nat /\ MaxWait \in Nat /\ MaxWait + MaxBelow + HALF_MINUTE <= W \div 2
    BY ClockAssumption DEF ClockAssumption
  <2>2. W \div 2 = Mid
    BY DEF Mid
  <2> QED BY <1>2, <1>3, <2>1, <2>2 DEF Numbered
<1> HIDE DEF l, l2, t, t2, o, o2, b, c
<1>12. Numbered' /\ Served' /\ Roomy'
  <2>1. Numbered'
    <3>1. waited' \in 0 .. MaxWait /\ setting' \in BOOLEAN /\ settings' \in 0 .. MaxSettings
      BY <1>2, <1>4, <1>11 DEF Numbered
    <3> QED BY <1>2, <1>4, <3>1 DEF Numbered, t2
  <2>2. Served' /\ Roomy'
    BY DEF TimeInv, Served, Roomy
  <2> QED BY <2>1, <2>2
\* It is for the primed state to stray by j2 and k2 words.
<1>13. ASSUME NEW j2 \in Nat, NEW k2 \in Nat,
              -(W * j2) <= l2, l2 <= W * k2 + HALF_MINUTE,
              -(W * j2) - Mid <= t2 + l2, t2 + l2 < W * k2 + Mid,
              -now - b <= o2 - W * j2,
              o2 + W * k2 + (IF setting' THEN HALF_MINUTE ELSE 0) <= c,
              ~setting' => j2 = 0 /\ k2 = 0
       PROVE  Strays(j2, k2)'
  <2>1. W * j2 \in Nat
    BY <1>3
  <2>2. /\ -(W * j2) - waited' <= l2 /\ waited' - now' - b <= o2 - W * j2
        /\ b = settings' * Span /\ c = settings' * (Span + HALF_MINUTE)
    BY <1>3, <1>4, <1>13, <2>1 DEF b, c
  <2> QED BY <1>13, <2>2 DEF Strays, l2, t2, o2
<1>14. ASSUME (\A n \in Timeout : t2 > n) => t2 + l2 < Mid \/ l2 >= W,
              t2 < -(MaxBelow + MaxWait) => -Mid <= t2 + l2 \/ l2 < -HALF_MINUTE
       PROVE  Held'
  <2>1. W - waited' = W
    BY <1>3, <1>4
  <2> QED BY <1>14, <2>1 DEF Held, t2, l2
<1>15. CASE Adjusts
  <2>1. o2 = o + l /\ t2 = t /\ l2 = 0
    BY <1>3, <1>4, <1>5, <1>15
  <2>2. setting' = FALSE
    BY <1>4, <1>6, <1>15
  <2>3. -now - b <= o2
    BY <1>3, <1>7, <1>8, <2>1
  <2>4. o2 <= c
    BY <1>3, <1>6, <1>7, <1>8, <1>9, <1>15, <2>1
  <2>5. Strays(0, 0)'
    BY <1>3, <1>4, <1>9, <1>13, <2>1, <2>2, <2>3, <2>4
  <2>6. Held'
    BY <1>3, <1>14, <2>1
  <2>7. set_0_time' # set_0_time => setting \/ waited > HALF_MINUTE
    BY <1>3, <1>6, <1>7, <1>9, <1>15
  <2>8. Shown' >= Shown
    BY <1>3, <1>5, <2>1
  <2> QED BY <1>12, <2>1, <2>5, <2>6, <2>7, <2>8 DEF TimeInv, l2
<1>16. CASE ~Adjusts
  <2>1. PICK s \in -Mid .. Mid - 1, i \in Int : t + l = W * i + s /\ t2 = PutTo(t, s)
    BY <1>4, <1>16
  <2>2. set_0_time' = set_0_time /\ o2 = o
    BY <1>4, <1>16 DEF o, o2, Offset
  <2>3. l2 = l + t - t2 /\ l2 \in Int
    BY <1>3, <1>4, <1>5, <2>2
  <2>4. /\ W * i <= l2 /\ (l2 = W * i \/ (l2 = l /\ t2 = t))
        /\ t2 + l2 = t + l /\ (t2 <= t \/ (t < 0 /\ t2 >= 0))
    <3>1. l2 = l + t - PutTo(t, s) /\ t + l = W * i + s
      BY <2>1, <2>3
    <3>2. /\ W * i <= l2 /\ (l2 = W * i \/ (l2 = l /\ PutTo(t, s) = t))
          /\ PutTo(t, s) + l2 = t + l
          /\ PutTo(t, s) <= t \/ (t < 0 /\ PutTo(t, s) >= 0)
      <4>1. W * i \in Int
        BY <1>3
      <4>2. CASE s < t \/ (t < 0 /\ s >= 0)
        BY <1>3, <2>3, <3>1, <4>1, <4>2 DEF PutTo
      <4>3. CASE ~(s < t \/ (t < 0 /\ s >= 0))
        <5>1. PutTo(t, s) = t
          BY <4>3 DEF PutTo
        <5> QED BY <1>3, <2>3, <3>1, <4>1, <4>3, <5>1
      <4> QED BY <4>2, <4>3
    <3> QED BY <2>1, <3>2
  <2>5. -j <= i /\ i <= k /\ W * (-j) = -(W * j) /\ -(W * j) <= W * i /\ W * i <= W * k
        /\ W * i \in Int
    <3>1. W * (-j) = -(W * j) /\ -j \in Int
      BY <1>3
    <3>2. W * (-j) - Mid <= W * i + s /\ W * i + s < W * k + Mid
      BY <1>7, <2>1, <3>1
    <3>3. -j <= i /\ W * (-j) <= W * i /\ i <= k /\ W * i <= W * k /\ W * i \in Int
      BY <3>1, <3>2, IndexIs
    <3> QED BY <3>1, <3>3
  <2>6. \/ i = 0 /\ W * i = 0
        \/ i >= 1 /\ W * i >= W
        \/ i <= -1 /\ W * i <= -W
    <3>1. i >= 1 => W * 1 <= W * i
      BY <1>3, Times
    <3>2. i <= -1 => W * i <= W * (-1)
      BY <1>3, Times
    <3>3. W * 1 = W /\ W * (-1) = -W
      BY <1>3
    <3> QED BY <1>9, <3>1, <3>2, <3>3
  <2>7. Held'
    <3>1. t2 + l2 < Mid \/ l2 >= W
      BY <1>3, <2>1, <2>3, <2>4, <2>5, <2>6
    <3>2. t2 < -(MaxBelow + MaxWait) => -Mid <= t2 + l2 \/ l2 < -HALF_MINUTE
      BY <1>3, <1>10, <2>1, <2>3, <2>4, <2>5, <2>6
    <3> QED BY <1>14, <3>1, <3>2
  \* Where nobody set the time, or it was within half a minute, timer 2 can count it.
  <2>8. ASSUME ~setting'
        PROVE  i = 0 /\ l <= HALF_MINUTE
    <3>1. CASE ~setting
      BY <1>3, <1>7, <1>9, <2>5, <3>1
    <3>2. CASE setting
      <4>1. -HALF_MINUTE <= l /\ l <= HALF_MINUTE
        <5>1. adj_time_pending = FALSE
          BY <1>2, <1>4, <2>8, <3>2 DEF Numbered
        <5> QED BY <1>3, <1>6, <1>16, <5>1
      <4>2. t + l < Mid
        <5>1. CASE \E n \in Timeout : t <= n
          <6>1. PICK n \in Timeout : t <= n
            BY <5>1
          <6> QED BY <1>3, <1>11, <4>1, <6>1
        <5>2. CASE ~\E n \in Timeout : t <= n
          <6>1. \A n \in Timeout : t > n
            BY <1>3, <1>11, <5>2
          <6>2. t + l < Mid \/ l >= W - waited
            BY <1>10, <6>1
          <6>3. ~(l >= W - waited)
            BY <1>3, <1>11, <4>1
          <6> QED BY <6>2, <6>3
        <5> QED BY <5>1, <5>2
      <4>3. -Mid <= t + l
        BY <1>3, <1>10, <1>11, <4>1
      <4> QED BY <1>3, <2>1, <2>5, <2>6, <4>1, <4>2, <4>3
    <3> QED BY <3>1, <3>2
  <2>9. CASE setting'
    <3>1. setting' = setting /\ setting
      BY <1>3, <1>4, <2>9
    <3>2. Strays(j, k)'
      <4>1. -(W * j) <= l2 /\ l2 <= W * k + HALF_MINUTE
        BY <1>3, <1>7, <2>3, <2>4, <2>5
      <4>2. -(W * j) - Mid <= t2 + l2 /\ t2 + l2 < W * k + Mid
        BY <1>3, <1>7, <2>4
      <4>3. -now - b <= o2 - W * j
        BY <1>3, <1>7, <1>8, <2>2
      <4>4. o2 + W * k + (IF setting' THEN HALF_MINUTE ELSE 0) <= c
        BY <1>7, <2>2, <3>1
      <4> QED BY <1>13, <2>9, <4>1, <4>2, <4>3, <4>4
    <3>3. TimeInv'
      BY <1>12, <2>7, <3>2 DEF TimeInv
    <3>4. Shown' >= Shown \/ (t < 0 /\ t2 >= 0)
      BY <1>3, <1>4, <1>5, <2>4
    <3> QED BY <2>2, <2>9, <3>3, <3>4 DEF t, t2
  <2>10. CASE ~setting'
    <3>1. i = 0 /\ W * i = 0 /\ l <= HALF_MINUTE
      BY <1>9, <2>8, <2>10
    <3>2. 0 <= l2 /\ l2 <= HALF_MINUTE
      BY <1>3, <2>3, <2>4, <3>1
    <3>3. -Mid <= t2 + l2 /\ t2 + l2 < Mid
      BY <1>3, <2>1, <2>4, <3>1
    <3>4. -now - b <= o2 /\ o2 <= c
      BY <1>3, <1>7, <1>8, <2>2
    <3>5. Strays(0, 0)'
      BY <1>3, <1>4, <1>9, <1>13, <2>3, <2>10, <3>2, <3>3, <3>4
    <3>6. TimeInv'
      <4>1. 0 \in Nat
        OBVIOUS
      <4> QED BY <1>12, <2>7, <3>5, <4>1 DEF TimeInv
    <3>7. Shown' >= Shown \/ (t < 0 /\ t2 >= 0)
      BY <1>3, <1>4, <1>5, <2>4
    <3> QED BY <2>2, <3>2, <3>6, <3>7 DEF t, t2, l2
  <2> QED BY <2>9, <2>10
<1> QED BY <1>15, <1>16

----------------------------------------------------------------------------
(* Every step keeps the invariant.                                         *)

\* ACCESSTIME is written as the number it is.
LEMMA WrittenIs == ASSUME NEW w \in Small PROVE Written(w) = Number(w)
<1>1. /\ W \in Nat /\ W > 0 /\ Number(w) = w.lo + W * w.hi
      /\ w.lo \in 0 .. W - 1 /\ w.hi \in 0 .. W - 1
  BY HalfIs, SmallIs
<1>2. \A x \in 0 .. W - 1 : x % W = x /\ x \div W = 0
  <2> TAKE x \in 0 .. W - 1
  <2>1. W * 0 + x = x
    BY <1>1
  <2> QED BY <1>1, <2>1, Quotients
<1> QED BY <1>1, <1>2 DEF Written

LEMMA StartIs ==
    ASSUME NEW t \in -Mid .. Mid - 1, NEW o \in Int, NEW w \in Small,
           long = W, now \in Nat, Alike(Number(w), o + unix_0_time),
           0 <= t + o + unix_0_time + now, t + o + unix_0_time + now < W * W
    PROVE  set_accesstime(t, w) = t + o + unix_0_time + now
<1> DEFINE u == unix_0_time
           n == Word(W, now)
           e == SignExtended(W, t)
           m == add_64(W, w, n)
           a == add_64(W, e, m)
<1>1. W \in Nat /\ W * W \in Nat /\ u \in Nat /\ t \in Int
  BY HalfIs, CalendarAssumption DEF CalendarAssumption
<1>2. /\ n \in Words /\ Number(n) \in Int /\ Alike(Number(n), now)
      /\ e \in Words /\ Number(e) \in Int /\ Alike(Number(e), t)
      /\ w \in Words /\ Number(w) \in Int /\ Alike(Number(w), o + u)
  BY WordAlike, SignIs, SmallIs, NumbersFit
<1>3. m \in Small /\ m \in Words /\ Number(m) \in Int
      /\ Alike(Number(m), Number(w) + Number(n))
  BY <1>2, Added, SmallIs, NumbersFit
<1>4. a \in Small /\ Number(a) \in 0 .. W * W - 1
      /\ Alike(Number(a), Number(e) + Number(m))
  BY <1>2, <1>3, Added, SmallIs, NumbersFit
<1>5. set_accesstime(t, w) = Number(a)
  BY <1>4, WrittenIs DEF set_accesstime
<1> DEFINE x == (o + u) + now
           y == t + x
<1>6. x \in Int /\ y \in Int /\ 0 <= y /\ y < W * W /\ y = t + o + u + now
  BY <1>1
<1>7. Alike(Number(m), x)
  <2>1. Alike(Number(w) + Number(n), x)
    BY <1>1, <1>2, AlikeSums
  <2> HIDE DEF m, x, n
  <2> QED BY <1>2, <1>3, <1>6, <2>1, AlikeChain
<1> HIDE DEF n, e, m, a, x
<1>8. Alike(Number(e) + Number(m), y)
  BY <1>1, <1>2, <1>3, <1>6, <1>7, AlikeSums
<1> HIDE DEF y
<1>9. Alike(Number(a), y)
  BY <1>2, <1>3, <1>4, <1>6, <1>8, AlikeChain
<1>10. Number(a) = y
  BY <1>1, <1>4, <1>6, <1>9, AlikeEqual
<1> QED BY <1>5, <1>6, <1>10

\* Nothing was set yet.
LEMMA NothingSet == set_0_time = Zero => Offset = 0
<1> SUFFICES ASSUME set_0_time = Zero PROVE Offset = 0
  OBVIOUS
<1>1. /\ Offset \in Int /\ Alike(0, Offset)
      /\ -(W * W) <= 2 * Offset /\ 2 * Offset < W * W
  BY ZeroIs, OffsetIs DEF Offset
<1>2. W * W \in Nat /\ W * W >= 1
  BY HalfIs
<1> QED BY <1>1, <1>2, AlikeEqual

LEMMA NotFar ==
    /\ W \div 2 = Mid /\ MaxBelow \in Nat /\ MaxWait \in Nat /\ MaxSettings \in Nat
    /\ MaxWait + MaxBelow + HALF_MINUTE <= Mid /\ Mid \in Nat /\ Mid >= 1 /\ W = 2 * Mid
    /\ HALF_MINUTE \in Nat /\ HALF_MINUTE >= 1
    /\ \A t \in Timeout : t \in Nat /\ t >= 1 /\ t + HALF_MINUTE < Mid
<1>1. /\ Timeout \subseteq 1 .. W \div 2 - HALF_MINUTE - 1 /\ HALF_MINUTE \in 1 .. W - 1
      /\ MaxBelow \in Nat /\ MaxWait \in Nat /\ MaxSettings \in Nat
      /\ MaxWait + MaxBelow + HALF_MINUTE <= W \div 2
  BY ClockAssumption DEF ClockAssumption
<1>2. W \div 2 = Mid /\ Mid \in Nat /\ Mid >= 1 /\ W = 2 * Mid
  BY MidIs DEF Mid
<1> QED BY <1>1, <1>2

LEMMA TimeStarts == ClockInit /\ long = W => TimeInv
<1> SUFFICES ASSUME ClockInit, long = W PROVE TimeInv
  OBVIOUS
<1> DEFINE u == unix_0_time
           w == Word(W, u)
<1>1. /\ now \in Boot /\ timer2 \in Timeout \cup {-t : t \in Timeout}
      /\ set_0_time = Zero /\ time_offset = add_64(W, Zero, w)
      /\ accesstime = set_accesstime(timer2, time_offset)
      /\ inSrvcIo = FALSE /\ moved = 0 /\ adj_time_pending = FALSE /\ asleep = FALSE
      /\ waited = 0 /\ setting = FALSE /\ settings = 0
  BY DEF ClockInit
<1>2. timer2 \in -Mid .. Mid - 1
  BY <1>1, NotFar
<1>3. u \in Nat /\ u >= Reach /\ Reach \in Nat /\ Reach >= W /\ W \in Nat /\ W * W \in Nat
  BY SpanIs, HalfIs, CalendarAssumption DEF CalendarAssumption
<1>4. now \in Nat
  BY <1>1, CalendarAssumption DEF CalendarAssumption
<1>5. PICK e \in Ends : e \in now .. W * W /\ 2 * (u + e + 2 * Reach) < W * W
  BY <1>1, CalendarAssumption DEF CalendarAssumption
<1>6. Roomy
  BY <1>3, <1>4, <1>5 DEF Roomy
<1>7. /\ w \in Words /\ Number(w) \in Int /\ Alike(Number(w), u)
      /\ Zero \in Words /\ Number(Zero) = 0
  BY <1>3, WordAlike, NumbersFit, ZeroIs
<1>8. /\ time_offset \in Small /\ Number(time_offset) \in Int
      /\ Alike(Number(time_offset), 0 + Number(w))
  BY <1>1, <1>7, Added, SmallIs, NumbersFit
<1> HIDE DEF w
<1>9. Alike(Number(time_offset), 0 + u)
  <2>1. 0 + Number(w) = Number(w) /\ 0 + u = u
    BY <1>3, <1>7
  <2> QED BY <1>3, <1>7, <1>8, <2>1, AlikeChain
<1>10. Offset = 0
  BY <1>1, NothingSet
<1>11. 0 <= timer2 + 0 + u + now /\ timer2 + 0 + u + now < W * W
  BY <1>2, <1>3, <1>4, <1>5, NotFar
<1>12. accesstime = timer2 + 0 + u + now
  BY <1>1, <1>2, <1>4, <1>8, <1>9, <1>11, StartIs
<1>13. accesstime \in Nat /\ Lead = 0
  BY <1>1, <1>2, <1>3, <1>4, <1>10, <1>11, <1>12 DEF Lead, Shown
<1>14. Numbered
  <2>1. Zero \in Small
    BY HalfIs DEF Zero, Small
  <2>2. waited \in 0 .. MaxWait /\ settings \in 0 .. MaxSettings
    BY <1>1, NotFar
  <2>3. Alike(Number(time_offset), Number(set_0_time) + u)
    BY <1>1, <1>7, <1>9
  <2>4. moved \in Int /\ setting \in BOOLEAN /\ adj_time_pending \in BOOLEAN
    <3>1. moved \in Int
      BY <1>1
    <3>2. setting \in BOOLEAN
      BY <1>1
    <3>3. adj_time_pending \in BOOLEAN
      BY <1>1
    <3> QED BY <3>1, <3>2, <3>3
  <2>5. set_0_time \in Small
    BY <1>1, <2>1
  <2> QED BY <1>2, <1>4, <1>8, <1>13, <2>2, <2>3, <2>4, <2>5 DEF Numbered
<1>15. Strays(0, 0)
  <2>1. W * 0 = 0 /\ settings * Span = 0 /\ settings * (Span + HALF_MINUTE) = 0
    BY <1>1, <1>3, SpanIs, NotFar
  <2> QED BY <1>1, <1>2, <1>4, <1>10, <1>13, <2>1, NotFar DEF Strays
<1>16. Held
  BY <1>2, <1>13, NotFar DEF Held
<1>17. Served /\ 0 \in Nat
  BY <1>1 DEF Served
<1> QED BY <1>6, <1>14, <1>15, <1>16, <1>17 DEF TimeInv

\* A step that leaves what the user set alone.
LEMMA Unset == set_0_time' = set_0_time => Offset' = Offset
BY DEF Offset

LEMMA RestartKeeps ==
    ASSUME TimeInv, Restart
    PROVE  TimeInv' /\ Lead' = 0 /\ set_0_time' = set_0_time
<1> DEFINE u == unix_0_time
           w == Word(W, u)
<1>1. /\ ~inSrvcIo /\ ~asleep
      /\ time_offset' = add_64(long, set_0_time, Word(long, u))
      /\ accesstime' = set_accesstime(timer2, time_offset')
      /\ waited' = 0 /\ setting' = FALSE
      /\ UNCHANGED <<long, now, timer2, set_0_time, inSrvcIo, moved, adj_time_pending,
                     asleep, settings>>
  BY DEF Restart
<1>2. Numbered /\ Roomy /\ Served
  BY DEF TimeInv
<1>3. PICK j \in Nat, k \in Nat : Strays(j, k)
  BY DEF TimeInv
<1>4. /\ long = W /\ now \in Nat /\ timer2 \in -Mid .. Mid - 1 /\ set_0_time \in Small
      /\ moved = 0 /\ waited \in 0 .. MaxWait
  BY <1>1, <1>2 DEF Numbered, Served
<1>5. /\ Lead \in Int /\ Offset \in Int /\ u \in Nat /\ W \in Nat /\ W * W \in Nat
      /\ W * j \in Nat /\ W * k \in Nat
      /\ u >= Reach /\ Reach \in Nat /\ Reach >= W
      /\ 2 * (u + now + 2 * Reach) < W * W
      /\ -(now + Reach - W) <= Offset /\ Offset <= Reach - W
  BY <1>2, <1>3, RoomIs
<1>6. /\ w \in Words /\ Number(w) \in Int /\ Alike(Number(w), u)
      /\ set_0_time \in Words /\ Number(set_0_time) \in Int
      /\ Alike(Number(set_0_time), Offset)
  BY <1>4, <1>5, WordAlike, SmallIs, NumbersFit, OffsetIs DEF Offset
<1>7. /\ time_offset' \in Small /\ Number(time_offset') \in Int
      /\ Alike(Number(time_offset'), Number(set_0_time) + Number(w))
  BY <1>1, <1>4, <1>6, Added, SmallIs, NumbersFit
<1> HIDE DEF w
<1>8. /\ Alike(Number(time_offset'), Number(set_0_time) + u)
      /\ Alike(Number(time_offset'), Offset + u)
  <2>1. Alike(Number(set_0_time) + Number(w), Number(set_0_time) + u)
    BY <1>5, <1>6, AlikeSame, AlikeSums
  <2>2. Alike(Number(set_0_time) + Number(w), Offset + u)
    BY <1>5, <1>6, AlikeSums
  <2> QED BY <1>5, <1>6, <1>7, <2>1, <2>2, AlikeChain
<1>9. 0 <= timer2 + Offset + u + now /\ timer2 + Offset + u + now < W * W
  BY <1>4, <1>5, NotFar
<1>10. accesstime' = timer2 + Offset + u + now
  BY <1>1, <1>4, <1>5, <1>7, <1>8, <1>9, StartIs
<1>11. Offset' = Offset
  BY <1>1, Unset
<1>12. accesstime' \in Nat /\ Lead' = 0
  <2>1. Shown' = Offset + u + now
    BY <1>1, <1>4, <1>5, <1>10 DEF Shown
  <2> QED BY <1>1, <1>4, <1>5, <1>9, <1>10, <1>11, <2>1 DEF Lead
<1>13. Numbered'
  <2>1. /\ waited' \in 0 .. MaxWait /\ settings' \in 0 .. MaxSettings
        /\ moved' \in Int /\ setting' \in BOOLEAN /\ adj_time_pending' \in BOOLEAN
    <3>1. waited' \in 0 .. MaxWait /\ settings' \in 0 .. MaxSettings /\ moved' \in Int
      BY <1>1, <1>2, NotFar DEF Numbered
    <3>2. setting' \in BOOLEAN
      BY <1>1
    <3>3. adj_time_pending' \in BOOLEAN
      BY <1>1, <1>2 DEF Numbered
    <3> QED BY <3>1, <3>2, <3>3
  <2>2. Alike(Number(time_offset'), Number(set_0_time') + u)
    BY <1>1, <1>8
  <2> QED BY <1>1, <1>4, <1>7, <1>12, <2>1, <2>2 DEF Numbered
<1>14. Strays(0, 0)'
  <2>1. W * 0 = 0 /\ settings \in 0 .. MaxSettings
    BY <1>2, <1>5 DEF Numbered
  <2>2. settings * Span \in Nat /\ settings * (Span + HALF_MINUTE) \in Nat
    BY <2>1, SpanIs
  <2>3. /\ waited - now - settings * Span <= Offset - W * j
        /\ Offset + W * k + (IF setting THEN HALF_MINUTE ELSE 0)
           <= settings * (Span + HALF_MINUTE)
    BY <1>3 DEF Strays
  <2>4. 0 - now - settings * Span <= Offset /\ Offset <= settings * (Span + HALF_MINUTE)
    BY <1>4, <1>5, <2>2, <2>3, NotFar
  <2> QED BY <1>1, <1>4, <1>5, <1>11, <1>12, <2>1, <2>4, NotFar DEF Strays
<1>15. Held'
  BY <1>1, <1>4, <1>12, NotFar DEF Held
<1>16. Served' /\ Roomy' /\ 0 \in Nat
  BY <1>1, <1>2 DEF Served, Roomy
<1> QED BY <1>1, <1>12, <1>13, <1>14, <1>15, <1>16 DEF TimeInv

\* What the invariant says that every other step needs.
LEMMA TimeIs ==
    ASSUME TimeInv, NEW j \in Nat, NEW k \in Nat, Strays(j, k)
    PROVE  /\ long = W /\ now \in Nat /\ timer2 \in -Mid .. Mid - 1
           /\ accesstime \in Nat /\ moved \in Int
           /\ waited \in 0 .. MaxWait /\ settings \in 0 .. MaxSettings
           /\ Lead \in Int /\ Offset \in Int /\ unix_0_time \in Nat
           /\ W \in Nat /\ W * j \in Nat /\ W * k \in Nat
           /\ settings * Span \in Nat /\ settings * (Span + HALF_MINUTE) \in Nat
           /\ Shown = accesstime + moved - timer2
           /\ Lead = Shown - (unix_0_time + now + Offset)
           /\ -(W * j) - waited <= Lead /\ Lead <= W * k + HALF_MINUTE
           /\ -(W * j) - Mid <= timer2 + Lead /\ timer2 + Lead < W * k + Mid
           /\ waited - now - settings * Span <= Offset - W * j
           /\ Offset + W * k + (IF setting THEN HALF_MINUTE ELSE 0)
              <= settings * (Span + HALF_MINUTE)
           /\ ~setting => j = 0 /\ k = 0
<1>1. Numbered /\ Roomy
  BY DEF TimeInv
<1>2. /\ Lead \in Int /\ Offset \in Int /\ unix_0_time \in Nat
      /\ W \in Nat /\ W * j \in Nat /\ W * k \in Nat
  BY <1>1, RoomIs
<1>3. /\ long = W /\ now \in Nat /\ timer2 \in -Mid .. Mid - 1
      /\ accesstime \in Nat /\ moved \in Int
      /\ waited \in 0 .. MaxWait /\ settings \in 0 .. MaxSettings
  BY <1>1 DEF Numbered
<1>4. settings * Span \in Nat /\ settings * (Span + HALF_MINUTE) \in Nat
  BY <1>3, SpanIs
<1>5. /\ -(W * j) - waited <= Lead /\ Lead <= W * k + HALF_MINUTE
      /\ -(W * j) - Mid <= timer2 + Lead /\ timer2 + Lead < W * k + Mid
      /\ waited - now - settings * Span <= Offset - W * j
      /\ Offset + W * k + (IF setting THEN HALF_MINUTE ELSE 0)
         <= settings * (Span + HALF_MINUTE)
      /\ ~setting => j = 0 /\ k = 0
  BY DEF Strays
<1> QED BY <1>2, <1>3, <1>4, <1>5 DEF Shown, Lead

\* The steps that do not correct the time, and of which none reads timer 2.
LEMMA NumberedKeeps ==
    ASSUME TimeInv, UNCHANGED <<long, set_0_time, time_offset, adj_time_pending>>,
           now' \in Nat, timer2' \in -Mid .. Mid - 1, accesstime' \in Nat, moved' \in Int,
           waited' \in 0 .. MaxWait, settings' \in 0 .. MaxSettings, setting' \in BOOLEAN
    PROVE  Numbered'
BY DEF TimeInv, Numbered

LEMMA OthersKeep ==
    ASSUME TimeInv, asleep' => ~inSrvcIo,
           UNCHANGED <<long, now, timer2, accesstime, set_0_time, time_offset, inSrvcIo, moved,
                       adj_time_pending, waited, setting, settings>>
    PROVE  TimeInv' /\ Shown' = Shown
<1>1. Shown' = Shown /\ Lead' = Lead /\ Offset' = Offset
  BY DEF Shown, Lead, Offset
<1>2. Numbered' /\ Served' /\ Roomy'
  BY DEF TimeInv, Numbered, Served, Roomy
<1>3. Held'
  BY <1>1 DEF TimeInv, Held
<1>4. PICK j \in Nat, k \in Nat : Strays(j, k)
  BY DEF TimeInv
<1>5. Strays(j, k)'
  BY <1>1, <1>4 DEF Strays
<1> QED BY <1>1, <1>2, <1>3, <1>5 DEF TimeInv

LEMMA TimePassesKeeps ==
    ASSUME TimeInv, TimePasses
    PROVE  TimeInv' /\ Shown' = Shown
<1>1. /\ now \notin Ends /\ waited < MaxWait /\ timer2 > -MaxBelow
      /\ now' = now + 1 /\ waited' = waited + 1
      /\ UNCHANGED <<long, timer2, accesstime, set_0_time, time_offset, inSrvcIo, moved,
                     adj_time_pending, asleep, setting, settings>>
  BY DEF TimePasses
<1>2. PICK j \in Nat, k \in Nat : Strays(j, k)
  BY DEF TimeInv
<1>3. Offset' = Offset /\ Shown' = Shown /\ Lead' = Lead - 1
  <2>1. Offset' = Offset /\ Shown' = Shown
    BY <1>1, Unset DEF Shown
  <2> QED BY <1>1, <1>2, <2>1, TimeIs DEF Lead
<1>4. Numbered'
  <2>1. setting' \in BOOLEAN
    BY <1>1 DEF TimeInv, Numbered
  <2> QED BY <1>1, <1>2, <2>1, TimeIs, NotFar, NumberedKeeps
<1>5. Served'
  BY <1>1 DEF TimeInv, Served
<1>6. Roomy'
  <2>1. PICK e \in Ends : /\ now <= e /\ e \in Nat
                          /\ 2 * (unix_0_time + e + 2 * Reach) < W * W
    BY DEF TimeInv, Roomy
  <2>2. now + 1 <= e
    <3>1. now \in Nat
      BY <1>2, TimeIs
    <3>2. now # e
      BY <1>1, <2>1
    <3> QED BY <2>1, <3>1, <3>2
  <2> QED BY <1>1, <2>1, <2>2 DEF Roomy
<1>7. Held'
  <2>1. /\ waited \in 0 .. MaxWait /\ Lead \in Int /\ timer2 \in Int /\ W \in Nat
    BY <1>2, TimeIs
  <2>2. (\A t \in Timeout : timer2 > t) => timer2 + Lead < Mid \/ Lead >= W - waited
    BY DEF TimeInv, Held
  <2> QED BY <1>1, <1>3, <2>1, <2>2, NotFar DEF Held
<1>8. Strays(j, k)'
  <2> DEFINE p == W * j
             r == W * k
             b == settings * Span
             c == settings * (Span + HALF_MINUTE)
  <2>1. /\ -p - waited <= Lead /\ Lead <= r + HALF_MINUTE
        /\ -p - Mid <= timer2 + Lead /\ timer2 + Lead < r + Mid
        /\ waited - now - b <= Offset - p
        /\ Offset + r + (IF setting THEN HALF_MINUTE ELSE 0) <= c
        /\ ~setting => j = 0 /\ k = 0
        /\ p \in Nat /\ r \in Nat /\ Lead \in Int /\ Offset \in Int /\ timer2 \in Int
        /\ now \in Nat /\ waited \in 0 .. MaxWait
    BY <1>2, TimeIs
  <2>2. /\ settings' * Span = b /\ settings' * (Span + HALF_MINUTE) = c
    BY <1>1
  <2>3. Strays(j, k)' <=>
          /\ -p - (waited + 1) <= (Lead - 1) /\ (Lead - 1) <= r + HALF_MINUTE
          /\ -p - Mid <= timer2 + (Lead - 1) /\ timer2 + (Lead - 1) < r + Mid
          /\ (waited + 1) - (now + 1) - b <= Offset - p
          /\ Offset + r + (IF setting THEN HALF_MINUTE ELSE 0) <= c
          /\ ~setting => j = 0 /\ k = 0
    BY <1>1, <1>3, <2>2 DEF Strays
  <2> HIDE DEF p, r, b, c
  <2>4. b \in Nat
    BY <1>2, TimeIs DEF b
  <2> QED BY <1>1, <2>1, <2>3, <2>4, NotFar
<1> QED BY <1>3, <1>4, <1>5, <1>6, <1>7, <1>8 DEF TimeInv

LEMMA CountKeeps ==
    ASSUME TimeInv, Count
    PROVE  TimeInv' /\ Shown' = Shown + 1 /\ Shown \in Int
<1>1. /\ Lead < HALF_MINUTE /\ timer2 > -MaxBelow /\ timer2' = timer2 - 1
      /\ UNCHANGED <<long, now, accesstime, set_0_time, time_offset, inSrvcIo, moved,
                     adj_time_pending, asleep, waited, setting, settings>>
  BY DEF Count
<1>2. PICK j \in Nat, k \in Nat : Strays(j, k)
  BY DEF TimeInv
<1>3. Offset' = Offset /\ Shown' = Shown + 1 /\ Lead' = Lead + 1 /\ Shown \in Int
  <2>1. Offset' = Offset
    BY <1>1, Unset
  <2>2. Shown' = Shown + 1 /\ Shown \in Int
    BY <1>1, <1>2, TimeIs DEF Shown
  <2>3. /\ Lead = Shown - (unix_0_time + now + Offset)
        /\ unix_0_time \in Nat /\ now \in Nat /\ Offset \in Int
    BY <1>2, TimeIs
  <2>4. Lead' = Shown' - (unix_0_time + now + Offset)
    BY <1>1, <2>1 DEF Lead
  <2> QED BY <2>1, <2>2, <2>3, <2>4
<1>4. Numbered'
  <2>1. setting' \in BOOLEAN
    BY <1>1 DEF TimeInv, Numbered
  <2> QED BY <1>1, <1>2, <2>1, TimeIs, NotFar, NumberedKeeps
<1>5. Served' /\ Roomy'
  BY <1>1 DEF TimeInv, Served, Roomy
<1>6. Held'
  <2>1. /\ waited \in 0 .. MaxWait /\ Lead \in Int /\ timer2 \in Int /\ W \in Nat
    BY <1>2, TimeIs
  <2>2. (\A t \in Timeout : timer2 > t) => timer2 + Lead < Mid \/ Lead >= W - waited
    BY DEF TimeInv, Held
  <2>3. (\A t \in Timeout : timer2' > t) => \A t \in Timeout : timer2 > t
    BY <1>1, <2>1, NotFar
  <2>4. ~(timer2' < -(MaxBelow + MaxWait))
    BY <1>1, <2>1, NotFar
  <2> QED BY <1>1, <1>3, <2>1, <2>2, <2>3, <2>4, NotFar DEF Held
<1>7. Strays(j, k)'
  <2> DEFINE p == W * j
             r == W * k
             b == settings * Span
             c == settings * (Span + HALF_MINUTE)
  <2>1. /\ -p - waited <= Lead /\ Lead <= r + HALF_MINUTE
        /\ -p - Mid <= timer2 + Lead /\ timer2 + Lead < r + Mid
        /\ waited - now - b <= Offset - p
        /\ Offset + r + (IF setting THEN HALF_MINUTE ELSE 0) <= c
        /\ ~setting => j = 0 /\ k = 0
        /\ p \in Nat /\ r \in Nat /\ Lead \in Int /\ Offset \in Int /\ timer2 \in Int
        /\ now \in Nat /\ waited \in 0 .. MaxWait
    BY <1>2, TimeIs
  <2>2. /\ settings' * Span = b /\ settings' * (Span + HALF_MINUTE) = c
    BY <1>1
  <2>3. Strays(j, k)' <=>
          /\ -p - waited <= (Lead + 1) /\ (Lead + 1) <= r + HALF_MINUTE
          /\ -p - Mid <= (timer2 - 1) + (Lead + 1) /\ (timer2 - 1) + (Lead + 1) < r + Mid
          /\ waited - now - b <= Offset - p
          /\ Offset + r + (IF setting THEN HALF_MINUTE ELSE 0) <= c
          /\ ~setting => j = 0 /\ k = 0
    BY <1>1, <1>3, <2>2 DEF Strays
  <2> HIDE DEF p, r, b, c
  <2>4. b \in Nat
    BY <1>2, TimeIs DEF b
  <2> QED BY <1>1, <2>1, <2>3, <2>4, NotFar
<1> QED BY <1>3, <1>4, <1>5, <1>6, <1>7 DEF TimeInv

LEMMA BeginServiceKeeps ==
    ASSUME TimeInv, NEW t \in Timeout, BeginService(t)
    PROVE  TimeInv' /\ Shown' = Shown
<1>1. /\ ~asleep /\ ~inSrvcIo /\ inSrvcIo' = TRUE /\ timer2' = t /\ moved' = t - timer2
      /\ UNCHANGED <<long, now, accesstime, set_0_time, time_offset, adj_time_pending,
                     asleep, waited, setting, settings>>
  BY DEF BeginService
<1>2. PICK j \in Nat, k \in Nat : Strays(j, k)
  BY DEF TimeInv
<1>3. t \in Nat /\ t >= 1 /\ t + HALF_MINUTE < Mid /\ moved = 0
  BY <1>1, NotFar DEF TimeInv, Served
<1>4. Offset' = Offset /\ Shown' = Shown /\ Lead' = Lead
  <2>1. Offset' = Offset
    BY <1>1, Unset
  <2>2. Shown' = Shown
    BY <1>1, <1>2, <1>3, TimeIs DEF Shown
  <2> QED BY <1>1, <2>1, <2>2 DEF Lead
<1>5. Numbered'
  <2>1. setting' \in BOOLEAN
    BY <1>1 DEF TimeInv, Numbered
  <2> QED BY <1>1, <1>2, <1>3, <2>1, TimeIs, NotFar, NumberedKeeps
<1>6. Served' /\ Roomy'
  BY <1>1 DEF TimeInv, Served, Roomy
<1>7. Held'
  <2>1. ~(\A n \in Timeout : timer2' > n)
    BY <1>1, <1>3
  <2>2. ~(timer2' < -(MaxBelow + MaxWait))
    BY <1>1, <1>3, NotFar
  <2> QED BY <2>1, <2>2 DEF Held
<1>8. Strays(j, k)'
  <2> DEFINE p == W * j
             r == W * k
             b == settings * Span
             c == settings * (Span + HALF_MINUTE)
  <2>1. /\ -p - waited <= Lead /\ Lead <= r + HALF_MINUTE
        /\ -p - Mid <= timer2 + Lead /\ timer2 + Lead < r + Mid
        /\ waited - now - b <= Offset - p
        /\ Offset + r + (IF setting THEN HALF_MINUTE ELSE 0) <= c
        /\ ~setting => j = 0 /\ k = 0
        /\ p \in Nat /\ r \in Nat /\ Lead \in Int /\ Offset \in Int /\ timer2 \in Int
        /\ now \in Nat /\ waited \in 0 .. MaxWait
    BY <1>2, TimeIs
  <2>2. /\ settings' * Span = b /\ settings' * (Span + HALF_MINUTE) = c
    BY <1>1
  <2>3. Strays(j, k)' <=>
          /\ -p - waited <= Lead /\ Lead <= r + HALF_MINUTE
          /\ -p - Mid <= t + Lead /\ t + Lead < r + Mid
          /\ waited - now - b <= Offset - p
          /\ Offset + r + (IF setting THEN HALF_MINUTE ELSE 0) <= c
          /\ ~setting => j = 0 /\ k = 0
    BY <1>1, <1>4, <2>2 DEF Strays
  <2> HIDE DEF p, r, b, c
  <2>4. b \in Nat
    BY <1>2, TimeIs DEF b
  <2> QED BY <1>1, <1>3, <2>1, <2>3, <2>4, NotFar
<1> QED BY <1>4, <1>5, <1>6, <1>7, <1>8 DEF TimeInv

LEMMA EndServiceKeeps ==
    ASSUME TimeInv, EndService
    PROVE  TimeInv' /\ Shown' = Shown
<1>1. /\ inSrvcIo /\ inSrvcIo' = FALSE /\ accesstime' = accesstime + moved /\ moved' = 0
      /\ UNCHANGED <<long, now, timer2, set_0_time, time_offset, adj_time_pending,
                     asleep, waited, setting, settings>>
  BY DEF EndService
<1>2. PICK j \in Nat, k \in Nat : Strays(j, k)
  BY DEF TimeInv
<1>3. Offset' = Offset /\ Shown' = Shown /\ Lead' = Lead
  <2>1. Offset' = Offset
    BY <1>1, Unset
  <2>2. Shown' = Shown
    BY <1>1, <1>2, TimeIs DEF Shown
  <2> QED BY <1>1, <2>1, <2>2 DEF Lead
<1>4. accesstime' \in Nat
  <2>1. /\ Shown = Lead + Offset + unix_0_time + now /\ unix_0_time >= Reach
        /\ Reach \in Nat /\ Reach >= W /\ -(now + Reach - W) <= Offset + Lead
    BY <1>2, RoomIs DEF TimeInv
  <2> QED BY <1>1, <1>2, <2>1, TimeIs, NotFar
<1>5. Numbered'
  <2>1. setting' \in BOOLEAN
    BY <1>1 DEF TimeInv, Numbered
  <2> QED BY <1>1, <1>2, <1>4, <2>1, TimeIs, NumberedKeeps
<1>6. Served' /\ Roomy' /\ Held'
  BY <1>1, <1>3 DEF TimeInv, Served, Roomy, Held
<1>7. Strays(j, k)'
  BY <1>1, <1>2, <1>3 DEF Strays
<1> QED BY <1>3, <1>5, <1>6, <1>7 DEF TimeInv

\* The user's setting makes the calculator stray by the words it spans.
LEMMA SetTimeKeeps ==
    ASSUME TimeInv, NEW d \in Setting, SetTime(d)
    PROVE  TimeInv' /\ settings' # settings
<1>1. /\ ~asleep /\ ~inSrvcIo /\ settings < MaxSettings
      /\ timer2 >= -(MaxBelow + MaxWait) /\ \E t \in Timeout : timer2 <= t
      /\ accesstime' = accesstime + d /\ setting' = TRUE /\ settings' = settings + 1
      /\ UNCHANGED <<long, now, timer2, set_0_time, time_offset, inSrvcIo, moved,
                     adj_time_pending, asleep, waited>>
  BY DEF SetTime
<1>2. PICK j \in Nat, k \in Nat : Strays(j, k)
  BY DEF TimeInv
<1>3. PICK n \in Nat : Span = W * n
  BY SpanIs
<1>4. d \in Int /\ -Span < d /\ d < Span /\ Span \in Nat
  <2>1. MaxSetting \in Nat /\ d \in -MaxSetting .. MaxSetting
    BY ClockAssumption DEF ClockAssumption
  <2> QED BY <2>1, SpanIs
<1> DEFINE j2 == j + n
           k2 == k + n
           b == settings * Span
           c == settings * (Span + HALF_MINUTE)
<1>5. /\ j2 \in Nat /\ k2 \in Nat /\ W * j2 = W * j + Span /\ W * k2 = W * k + Span
  <2>1. W * (j + n) = W * j + W * n /\ W * (k + n) = W * k + W * n
    BY HalfIs
  <2> QED BY <1>3, <2>1
<1>6. /\ settings' * Span = b + Span /\ settings' * (Span + HALF_MINUTE) = c + Span + HALF_MINUTE
      /\ b + Span <= Reach - W
  <2>1. settings \in 0 .. MaxSettings /\ settings + 1 \in 0 .. MaxSettings
    BY <1>1, <1>2, TimeIs, NotFar
  <2>2. (settings + 1) * Span = b + Span
        /\ (settings + 1) * (Span + HALF_MINUTE) = c + Span + HALF_MINUTE
    BY <2>1, SpanIs
  <2>3. (settings + 1) * Span <= Reach - W
    BY <2>1, SpanIs
  <2> QED BY <1>1, <2>2, <2>3
<1>7. Offset' = Offset /\ Shown' = Shown + d /\ Lead' = Lead + d
  <2>1. Offset' = Offset
    BY <1>1, Unset
  <2>2. Shown' = Shown + d
    BY <1>1, <1>2, <1>4, TimeIs DEF Shown
  <2> QED BY <1>1, <1>2, <1>4, <2>1, <2>2, TimeIs DEF Lead
<1>8. accesstime' \in Nat
  <2>1. /\ Shown = Lead + Offset + unix_0_time + now /\ unix_0_time >= Reach
        /\ Reach \in Nat /\ Reach >= W
    BY <1>2, RoomIs DEF TimeInv
  <2>2. moved = 0
    BY <1>1 DEF TimeInv, Served
  <2> HIDE DEF b, c
  <2>3. -(W * j) - waited <= Lead /\ waited - now - b <= Offset - W * j
    BY <1>2, TimeIs DEF b
  <2>4. b \in Nat
    BY <1>2, TimeIs DEF b
  <2> QED BY <1>1, <1>2, <1>4, <1>6, <2>1, <2>2, <2>3, <2>4, TimeIs, NotFar
<1>9. Numbered'
  <2>1. setting' \in BOOLEAN
    BY <1>1
  <2>2. settings' \in 0 .. MaxSettings
    BY <1>1, <1>2, TimeIs, NotFar
  <2> QED BY <1>1, <1>2, <1>8, <2>1, <2>2, TimeIs, NumberedKeeps
<1>10. Served' /\ Roomy'
  BY <1>1 DEF TimeInv, Served, Roomy
<1>11. Held'
  <2>1. ~(\A t \in Timeout : timer2' > t)
    BY <1>1, <1>2, TimeIs, NotFar
  <2>2. ~(timer2' < -(MaxBelow + MaxWait))
    BY <1>1, <1>2, TimeIs, NotFar
  <2> QED BY <2>1, <2>2 DEF Held
<1>12. Strays(j2, k2)'
  <2>1. /\ -(W * j) - waited <= Lead /\ Lead <= W * k + HALF_MINUTE
        /\ -(W * j) - Mid <= timer2 + Lead /\ timer2 + Lead < W * k + Mid
        /\ waited - now - b <= Offset - W * j
        /\ Offset + W * k <= c
        /\ Lead \in Int /\ Offset \in Int /\ timer2 \in Int /\ W * j \in Nat /\ W * k \in Nat
        /\ now \in Nat /\ waited \in Nat /\ b \in Nat /\ c \in Nat
        /\ HALF_MINUTE \in Nat /\ Mid \in Nat
    BY <1>2, TimeIs, NotFar
  <2> HIDE DEF b, c, j2, k2
  <2>2. /\ -(W * j2) - waited <= Lead + d /\ Lead + d <= W * k2 + HALF_MINUTE
        /\ -(W * j2) - Mid <= timer2 + (Lead + d) /\ timer2 + (Lead + d) < W * k2 + Mid
        /\ waited - now - (b + Span) <= Offset - W * j2
        /\ Offset + W * k2 + HALF_MINUTE <= c + Span + HALF_MINUTE
    BY <1>4, <1>5, <2>1
  <2> QED BY <1>1, <1>6, <1>7, <2>2 DEF Strays
<1>13. settings' # settings
  BY <1>1, <1>2, TimeIs
<1> QED BY <1>5, <1>9, <1>10, <1>11, <1>12, <1>13 DEF TimeInv

\* A step, and what the three properties say of it.
Adjusting == set_0_time' # set_0_time => setting \/ waited > HALF_MINUTE
Onward == \/ Shown' >= Shown \/ settings' # settings \/ Restart
          \/ (timer2 < 0 /\ timer2' >= 0)
Showing == /\ Restart => Lead' = 0
           /\ waited' = 0 /\ waited # 0 /\ ~setting' => Lead' >= 0

LEMMA ShownIs == TimeInv => Shown \in Int /\ waited \in Nat
<1> SUFFICES ASSUME TimeInv PROVE Shown \in Int /\ waited \in Nat
  OBVIOUS
<1>1. /\ accesstime \in Nat /\ moved \in Int /\ timer2 \in -Mid .. Mid - 1
      /\ waited \in 0 .. MaxWait
  BY DEF TimeInv, Numbered
<1> QED BY <1>1, NotFar DEF Shown

\* Restart says of itself what the time shown is, whatever else a step is.
LEMMA TimeSteps ==
    ASSUME TimeInv, [ClockNext]_clock
    PROVE  TimeInv' /\ Adjusting /\ Onward /\ Showing
<1>1. Shown \in Int /\ waited \in Nat
  BY ShownIs
<1>2. Restart => TimeInv' /\ Adjusting /\ Onward /\ Lead' = 0
  BY RestartKeeps DEF Adjusting, Onward
<1>3. ASSUME TimeInv', set_0_time' = set_0_time, Shown' = Shown, waited' = 0 => waited = 0
      PROVE  TimeInv' /\ Adjusting /\ Onward /\ Showing
  BY <1>1, <1>2, <1>3 DEF Adjusting, Onward, Showing
<1>4. CASE UNCHANGED clock \/ Statistics \/ Rollover \/ Sleep \/ Wake
  <2>1. /\ asleep' => ~inSrvcIo
        /\ UNCHANGED <<long, now, timer2, accesstime, set_0_time, time_offset, inSrvcIo, moved,
                       adj_time_pending, waited, setting, settings>>
    BY <1>4 DEF TimeInv, Served, clock, Statistics, Rollover, Sleep, Wake
  <2>2. TimeInv' /\ Shown' = Shown
    BY <2>1, OthersKeep
  <2> QED BY <1>3, <2>1, <2>2
<1>5. CASE TimePasses
  <2>1. TimeInv' /\ Shown' = Shown
    BY <1>5, TimePassesKeeps
  <2>2. set_0_time' = set_0_time /\ waited' = waited + 1
    BY <1>5 DEF TimePasses
  <2>3. waited' # 0
    BY <1>1, <2>2
  <2> QED BY <1>3, <2>1, <2>2, <2>3
<1>6. CASE Count
  <2>1. TimeInv' /\ Shown' = Shown + 1
    BY <1>6, CountKeeps
  <2>2. set_0_time' = set_0_time /\ waited' = waited
    BY <1>6 DEF Count
  <2>3. Shown' >= Shown
    BY <1>1, <2>1
  <2> QED BY <1>2, <2>1, <2>2, <2>3 DEF Adjusting, Onward, Showing
<1>7. CASE Adjtime \/ Alarm
  <2>1. CASE ~inSrvcIo
    <3>1. /\ Corrected /\ adj_time_pending' \in BOOLEAN
          /\ UNCHANGED <<long, now, accesstime, moved, inSrvcIo, settings, asleep>>
      <4>1. adj_time_pending \in BOOLEAN
        BY DEF TimeInv, Numbered
      <4> QED BY <1>7, <2>1, <4>1 DEF Adjtime, Alarm
    <3>2. TimeInv' /\ Adjusting /\ (Shown' >= Shown \/ (timer2 < 0 /\ timer2' >= 0))
          /\ (~setting' => Lead' >= 0)
      BY <2>1, <3>1, CorrectionKeeps DEF Adjusting
    <3> QED BY <1>2, <3>2 DEF Onward, Showing
  <2>2. CASE inSrvcIo
    <3>1. /\ adj_time_pending' = TRUE
          /\ UNCHANGED <<long, now, timer2, accesstime, set_0_time, time_offset, inSrvcIo,
                         moved, asleep, waited, setting, settings>>
      BY <1>7, <2>2 DEF Adjtime, Alarm, TimeInv, Served
    <3>2. Shown' = Shown /\ Lead' = Lead /\ Offset' = Offset
      BY <3>1 DEF Shown, Lead, Offset
    <3>3. Numbered'
      <4>1. adj_time_pending' \in BOOLEAN
        BY <3>1
      <4> QED BY <3>1, <4>1 DEF TimeInv, Numbered
    <3>4. Served' /\ Roomy' /\ Held'
      BY <3>1, <3>2 DEF TimeInv, Served, Roomy, Held
    <3>5. PICK j \in Nat, k \in Nat : Strays(j, k)
      BY DEF TimeInv
    <3>6. Strays(j, k)'
      BY <3>1, <3>2, <3>5 DEF Strays
    <3>7. TimeInv'
      BY <3>3, <3>4, <3>6 DEF TimeInv
    <3> QED BY <1>3, <3>1, <3>2, <3>7
  <2> QED BY <2>1, <2>2
<1>8. CASE Restart
  <2>1. Lead' >= 0
    BY <1>2, <1>8
  <2> QED BY <1>2, <1>8, <2>1 DEF Showing
<1>9. CASE EndService
  <2>1. TimeInv' /\ Shown' = Shown
    BY <1>9, EndServiceKeeps
  <2>2. set_0_time' = set_0_time /\ waited' = waited
    BY <1>9 DEF EndService
  <2> QED BY <1>3, <2>1, <2>2
<1>10. ASSUME NEW t \in Timeout, BeginService(t)
       PROVE  TimeInv' /\ Adjusting /\ Onward /\ Showing
  <2>1. TimeInv' /\ Shown' = Shown
    BY <1>10, BeginServiceKeeps
  <2>2. set_0_time' = set_0_time /\ waited' = waited
    BY <1>10 DEF BeginService
  <2> QED BY <1>3, <2>1, <2>2
<1>11. ASSUME NEW d \in Setting, SetTime(d)
       PROVE  TimeInv' /\ Adjusting /\ Onward /\ Showing
  <2>1. TimeInv' /\ settings' # settings
    BY <1>11, SetTimeKeeps
  <2>2. set_0_time' = set_0_time /\ waited' = waited
    BY <1>11 DEF SetTime
  <2> QED BY <1>2, <2>1, <2>2 DEF Adjusting, Onward, Showing
<1> QED BY <1>4, <1>5, <1>6, <1>7, <1>8, <1>9, <1>10, <1>11 DEF ClockNext

----------------------------------------------------------------------------
(* The theorems.                                                           *)

\* Where longs have 32 bits, get_t1_t2 takes for the user's setting of the time only that,
\* or half a minute without a correction: not the ticks that instructions were counted as,
\* however the half words it compares are signed, and whatever was put off.
THEOREM OnlySettingsMoveTime == ClockSpec /\ long = W => UserAdjusts
<1>1. TimeInv /\ [ClockNext]_clock => TimeInv' /\ [Adjusting]_clock
  BY TimeSteps
<1> QED BY <1>1, TimeStarts, PTL DEF ClockSpec, UserAdjusts, Adjusting

\* There the time shown does not run back, but where the user, a new start, or a timer 2
\* below 0 moves it.
THEOREM TimeRunsOn == ClockSpec /\ long = W => NeverRunsBack
<1>1. TimeInv /\ [ClockNext]_clock => TimeInv' /\ [Onward]_clock
  BY TimeSteps
<1> QED BY <1>1, TimeStarts, PTL DEF ClockSpec, NeverRunsBack, Onward

\* There the time shown is the phone's, moved by what the user set, at every start, and is
\* not behind it after a correction that has seen all he set.
THEOREM TimeIsShown == ClockSpec /\ long = W => ShowsTheTime
<1>1. TimeInv /\ [ClockNext]_clock => TimeInv' /\ [Showing]_clock
  BY TimeSteps
<1> QED BY <1>1, TimeStarts, PTL DEF ClockSpec, ShowsTheTime, Showing
=============================================================================

------------------------------ MODULE Persist ------------------------------
(***************************************************************************)
(* What survives the program.  The calculator's state lies in four files:  *)
(* the registers ("conf"), the memory, and a card in each port.            *)
(* write_files (init.c) writes them one after the other on Android's UI    *)
(* thread, each cut to nothing before it is filled, while the emulator     *)
(* thread may be running or even still in read_files.  The Java side       *)
(* repairs files at every start (AssetUtil), makes the files of the ports  *)
(* agree with the settings (X48.managePort), and puts the shipped files    *)
(* back on "Reset memory and quit".  The process may be killed at any      *)
(* time, and a write may fail.                                             *)
(*                                                                         *)
(* Contents are abstracted to when they were computed: an image is the     *)
(* epoch its cells are of, or Mixed, if they are of several.  Images of    *)
(* the same epoch fit one another.                                         *)
(*                                                                         *)
(* The SX has files of its own; here the model is chosen once, and never   *)
(* changed.  The ROM is left out: it is there whenever it is read.         *)
(*                                                                         *)
(* Assumed: exit() ends the emulator thread (Lifecycle is about that), one *)
(* activity is destroyed before the next is created, the shipped files can *)
(* be copied, and new files are writable for the group, as they are on     *)
(* external storage, so that read_files takes a card for RAM.              *)
(***************************************************************************)
EXTENDS Integers, Sequences, FiniteSetsExt

CONSTANTS Setting1, Setting2,  \* sizes in K that Settings offers for the two ports
          MaxEpoch,            \* bound on the epochs the program runs through
          MaxMoves             \* bound on settings, saves, resets, failed writes and crashes

ASSUME PersistAssumption ==
    /\ 0 \in Setting1 /\ Setting1 \subseteq {0, 128}
    /\ 0 \in Setting2 /\ Setting2 \subseteq {0} \cup {128 * n : n \in 1 .. 32}
    /\ MaxEpoch \in Nat
    /\ MaxMoves \in Nat

Prefs == [saveOnExit : BOOLEAN, port1 : Setting1, port2 : Setting2]

\* The order of write_files.
Part == <<"conf", "ram", "port1", "port2">>

PortNames == {"port1", "port2"}

PartNames == PortNames \cup {"conf", "ram"}

Shipped == 0   \* the epoch of the files in the assets
Cold == -1     \* cleared: init_saturn, calloc'ed RAM, a blank card
Junk == -2     \* malloc'ed, and not yet read
Mixed == -3
None == -4     \* no contents, or no array

Images == None .. MaxEpoch

\* Files and arrays: the size in K, and the image.
Of(size, image) == [size |-> size, image |-> image]

Missing == Of(-1, None)
Absent  == Of(0, None)
Partial == Of(2, None)   \* of a size that nobody accepts

\* Part of an array is read while it is a, the rest when it has become b.
Join(a, b) == IF a = b THEN a ELSE Mixed

ConfSize == 1

VARIABLES
    gx,            \* the model: GX or SX
    file,          \* the file of each part
    pref,          \* Android's preferences: save on exit, the sizes of the ports
    ui,            \* UI thread: "down", "idle", "finishing", "saving" or "exit"
    write,         \* write_files: the part it is at, opened or not, what it has taken of it
    need_to_quit,
    named,         \* has registerClass told the process the names of the files?
    emu,           \* emulator thread: "none", "register", "conf", "ram", "ports" or "run"
    machine,       \* saturn, by parts
    epoch,         \* history: of the latest state the program has computed
    good,          \* history: what the last save has taken in one piece
    early,         \* history: was the last save of this activity begun before "run"?
    moves          \* bound: settings, saves, resets, failed writes and crashes so far

saturn == <<named, emu, machine, epoch>>
history == <<good, early>>
vars == <<gx, file, pref, ui, write, need_to_quit, saturn, history, moves>>

RamSize == IF gx THEN 128 ELSE 32

FullSize(p) == IF p = "conf" THEN ConfSize ELSE RamSize

\* A new process.
Fresh == [p \in PartNames |->
            CASE p = "conf" -> Of(ConfSize, Cold)
              [] p = "ram"  -> Of(0, None)
              [] OTHER      -> Absent]

NotWriting == [part |-> 1, opened |-> FALSE, taken |-> Absent, back |-> "idle"]

NoGood == [epoch |-> None, ports |-> {}]

Move == moves < MaxMoves /\ moves' = moves + 1

Init ==
    /\ gx \in BOOLEAN
    /\ file = [p \in PartNames |-> Missing]
    /\ pref = [saveOnExit |-> FALSE, port1 |-> 0, port2 |-> 0]
    /\ ui = "down"
    /\ write = NotWriting
    /\ need_to_quit = FALSE
    /\ named = FALSE
    /\ emu = "none"
    /\ machine = Fresh
    /\ epoch = Shipped
    /\ good = NoGood
    /\ early = FALSE
    /\ moves = 0

----------------------------------------------------------------------------
(* The files that Java looks after.                                        *)

Asset(p) == Of(FullSize(p), Shipped)

\* Mutant: without the test of the length.
NeedsAssetIfEmpty(p) == file[p].size \in {-1, 0}

\* copyAsset(force = false): what has to be copied, of "conf" and "ram".
NeedsAsset(p) ==
    \/ file[p].size \in {-1, 0}
    \/ p = "ram" /\ file[p].size # RamSize

repaired ==
    [p \in PartNames |->
        IF p \notin PortNames /\ NeedsAsset(p) THEN Asset(p) ELSE file[p]]

\* Mutant: any file of the port will do.
FitsIfThere(f, size) == f.size > 0

\* Mutant: counts nibbles.
FitsInNibbles(f, size) == f.size = 2 * size

\* managePort leaves the file of a port alone.
Fits(f, size) == f.size = size

\* managePort, which may not be able to fill the file.
managed(f, size, failed) ==
    IF size = 0 THEN Missing
    ELSE IF Fits(f, size) THEN f
    ELSE IF failed THEN Partial
    ELSE Of(size, Cold)

\* checkPrefs.  The names it gives the files are those of the GX always: in an SX it
\* does not touch the files that are read and written.
checkPrefs(files, sizes) ==
    IF gx
    THEN \E failed \in SUBSET PortNames :
            file' = [p \in PartNames |->
                        IF p \in PortNames THEN managed(files[p], sizes[p], p \in failed)
                                           ELSE files[p]]
    ELSE file' = files

\* onCreate and readyToGo.
Create ==
    /\ ui = "down"
    /\ ui' = "idle"
    /\ checkPrefs(repaired, pref)
    /\ emu' = "register"
    /\ UNCHANGED <<gx, pref, write, need_to_quit, named, machine, epoch, history, moves>>

\* The settings, and checkPrefs behind them.
Settings ==
    /\ Move
    /\ ui = "idle"
    /\ pref' \in Prefs
    /\ checkPrefs(file, pref')
    /\ good' = [good EXCEPT !.ports = {p \in @ : pref'[p] = pref[p]}]
    /\ UNCHANGED <<gx, ui, write, need_to_quit, saturn, early>>

\* Reset memory and quit: copyAsset(force = true).
ResetMemory ==
    /\ Move
    /\ ui = "idle"
    /\ ui' = "finishing"
    /\ need_to_quit' = TRUE
    /\ file' = [p \in PartNames |-> IF p \in PortNames THEN file[p] ELSE Asset(p)]
    /\ good' = [epoch |-> Shipped, ports |-> {}]
    /\ UNCHANGED <<gx, pref, write, saturn, early>>

\* Quit, the back key, a rotation, or Android itself.
Finish ==
    /\ ui = "idle"
    /\ ui' = "finishing"
    /\ UNCHANGED <<gx, file, pref, write, need_to_quit, saturn, history, moves>>

----------------------------------------------------------------------------
(* write_files, on the UI thread.                                          *)

\* Without file names it writes to /tmp, which does not exist.
BeginSave(back) ==
    IF named
    THEN /\ ui' = "saving"
         /\ write' = [NotWriting EXCEPT !.back = back]
         /\ good' = NoGood
         /\ early' = (emu # "run")
    ELSE ui' = back /\ UNCHANGED <<write, good, early>>

saveState ==
    /\ Move
    /\ ui = "idle"
    /\ BeginSave("idle")
    /\ UNCHANGED <<gx, file, pref, need_to_quit, saturn>>

\* onDestroy, up to exit().
Destroy ==
    /\ ui = "finishing"
    /\ IF pref.saveOnExit
       THEN BeginSave("exit")
       ELSE ui' = "exit" /\ UNCHANGED <<write, good, early>>
    /\ UNCHANGED <<gx, file, pref, need_to_quit, saturn, moves>>

ThePart == Part[write.part]

\* A port is saved if it holds RAM.
Following ==
    {i \in write.part + 1 .. Len(Part) :
        Part[i] \in PortNames => machine[Part[i]].image # None}

\* Has the save that ends with these files taken the whole machine at one time?
InOnePiece(files) ==
    /\ ~early
    /\ files["conf"].image \notin {None, Mixed}
    /\ \A p \in PartNames :
         (p \in PortNames => machine[p].image # None) => files[p].image = files["conf"].image

Done(files) ==
    [epoch |-> files["conf"].image,
     ports |-> {p \in PortNames : machine[p].image # None /\ machine[p].size = pref[p]}]

NextPart ==
    IF Following # {}
    THEN /\ write' = [NotWriting EXCEPT !.part = Min(Following), !.back = write.back]
         /\ UNCHANGED <<ui, good>>
    ELSE /\ write' = NotWriting
         /\ ui' = write.back
         /\ good' = IF InOnePiece(file')
                    THEN Done(file')
                    ELSE good

saving ==
    /\ ui = "saving"
    /\ UNCHANGED <<gx, pref, need_to_quit, saturn, early>>

Open ==
    /\ saving
    /\ ~write.opened
    /\ file' = [file EXCEPT ![ThePart] = Absent]
    /\ write' = [write EXCEPT !.opened = TRUE, !.taken = machine[ThePart]]
    /\ UNCHANGED <<ui, good, moves>>

\* The image is taken while the emulator thread goes on.
Fill ==
    /\ saving
    /\ write.opened
    /\ write.taken.image # None
    /\ file' = [file EXCEPT ![ThePart] =
                    Of(write.taken.size, Join(write.taken.image, machine[ThePart].image))]
    /\ NextPart
    /\ UNCHANGED moves

\* The first failure ends the save, but for a failure to write the registers.
Fail ==
    /\ Move
    /\ saving
    /\ write.opened => write.taken.image # None
    /\ IF write.opened /\ ThePart = "conf"
       THEN NextPart /\ file' = file
       ELSE /\ file' = IF write.opened THEN [file EXCEPT ![ThePart] = Partial]
                                       ELSE file
            /\ write' = NotWriting
            /\ ui' = write.back
            /\ good' = good

\* The next one is another object.
NewActivity == need_to_quit' = FALSE /\ early' = FALSE

\* exit(), and the end of the process if that is wanted.
Exit ==
    /\ ui = "exit"
    /\ emu = "run"
    /\ ui' = "down"
    /\ emu' = "none"
    /\ NewActivity
    /\ IF need_to_quit THEN named' = FALSE /\ machine' = Fresh
                       ELSE UNCHANGED <<named, machine>>
    /\ UNCHANGED <<gx, file, pref, write, epoch, good, moves>>

\* The process is killed, or has run into a segmentation fault.
Crash ==
    /\ Move
    /\ ui # "down" \/ named
    /\ ui' = "down"
    /\ write' = NotWriting
    /\ named' = FALSE
    /\ emu' = "none"
    /\ machine' = Fresh
    /\ NewActivity
    /\ UNCHANGED <<gx, file, pref, epoch, good>>

----------------------------------------------------------------------------
(* The emulator thread: registerClass, read_files in three steps, and the  *)
(* program.                                                                *)

reading ==
    UNCHANGED <<gx, file, pref, ui, write, need_to_quit, epoch, history, moves>>

registerClass ==
    /\ emu = "register"
    /\ emu' = "conf"
    /\ named' = TRUE
    /\ reading
    /\ UNCHANGED machine

\* The file is there since onCreate.  Registers that it lacks are those of the process
\* so far, cleared in a new one.  Behind them the RAM is allocated.
ReadConf ==
    /\ emu = "conf"
    /\ emu' = "ram"
    /\ LET f    == file["conf"]
           conf == IF f.size = ConfSize THEN f ELSE machine["conf"]
       IN  machine' = [machine EXCEPT !["conf"] = conf,
                                      !["ram"]  = Of(RamSize, Junk)]
    /\ reading
    /\ UNCHANGED named

\* Can memory of this size be read from the file?
read_mem_file(f, size) == f.size = size

\* init_saturn and read_rom: a cleared calculator without cards.
Cleared == [Fresh EXCEPT !["ram"] = Of(RamSize, Cold)]

ReadRam ==
    /\ emu = "ram"
    /\ LET f == file["ram"]
       IN  IF read_mem_file(f, RamSize)
           THEN /\ machine' = [machine EXCEPT !["ram"] = f]
                /\ emu' = "ports"
           ELSE /\ machine' = Cleared
                /\ emu' = "run"
    /\ reading
    /\ UNCHANGED named

\* The sizes for which read_files allocates memory.
Accepted(p, size) ==
    IF p = "port2" /\ gx THEN size % 128 = 0 ELSE size \in {32, 128}

\* A file of any other size leaves port_size at that size, and no memory.
Card(p, f) ==
    IF f = Missing THEN Absent
    ELSE IF Accepted(p, f.size) THEN f
    ELSE Of(f.size, None)

ReadPorts ==
    /\ emu = "ports"
    /\ emu' = "run"
    /\ machine' = [p \in PartNames |->
                    IF p \in PortNames THEN Card(p, file[p]) ELSE machine[p]]
    /\ reading
    /\ UNCHANGED named

\* The program computes, and changes the registers and all memory.
Compute ==
    /\ emu = "run"
    /\ epoch < MaxEpoch
    /\ epoch' = epoch + 1
    /\ machine' = [p \in PartNames |->
                    IF machine[p].image = None THEN machine[p]
                                             ELSE Of(machine[p].size, epoch')]
    /\ UNCHANGED <<gx, file, pref, ui, write, need_to_quit, named, emu, history, moves>>

----------------------------------------------------------------------------

Menu == saveState \/ Settings \/ ResetMemory \/ Finish

Emulator == registerClass \/ ReadConf \/ ReadRam \/ ReadPorts \/ Compute

Next == Create \/ Menu \/ Open \/ Fill \/ Fail \/ Destroy \/ Exit \/ Crash \/ Emulator

Spec == Init /\ [][Next]_vars

----------------------------------------------------------------------------
(* Properties.                                                             *)

File == [size : {-1, 0, 1, 2, 32} \cup {128 * n : n \in 1 .. 32}, image : Images]

TypeOK ==
    /\ gx \in BOOLEAN
    /\ file \in [PartNames -> File]
    /\ pref \in Prefs
    /\ ui \in {"down", "idle", "finishing", "saving", "exit"}
    /\ write \in [part : 1 .. Len(Part), opened : BOOLEAN, taken : File,
                  back : {"idle", "exit"}]
    /\ {need_to_quit, early, named} \subseteq BOOLEAN
    /\ emu \in {"none", "register", "conf", "ram", "ports", "run"}
    /\ machine \in [PartNames -> File]
    /\ epoch \in 0 .. MaxEpoch
    /\ good \in [epoch : Images, ports : SUBSET PortNames]
    /\ moves \in 0 .. MaxMoves

\* With this step read_files is done, and nobody has written files meanwhile.
Started == emu = "ports" /\ emu' = "run" /\ ~early /\ ~need_to_quit

\* What was saved in one piece is what the next start brings back, registers, memory
\* and cards alike, whatever happened in between to the process and to the settings
\* of other ports.
RestartRestores ==
    [][Started /\ good.epoch # None
       => \A p \in {"conf", "ram"} \cup good.ports :
            machine'[p].image = good.epoch]_vars

\* No start ends with a calculator that was cleared because a file was missing or
\* cut short, whenever the process was killed and whichever writes failed, unless
\* somebody saves while the files are still being read.
NeverErased == [][emu = "ram" /\ emu' = "run" => early]_vars

\* After a start of the GX its ports hold what the settings say, even if a save has
\* written back a card of another size since the settings were changed, unless the
\* file of a new card could not be filled.
PortsAsSet ==
    [][Started /\ gx
       => \A p \in PortNames : file[p] # Partial =>
            /\ machine'[p].size = pref[p]
            /\ (machine'[p].image = None) <=> (pref[p] = 0)]_vars

\* "Reset memory and quit": when the activity that was told to leaves, the files the
\* next start will read are the shipped ones.  A save begun before "run" is left aside,
\* to show that it does not need one to go wrong.
ResetResets ==
    need_to_quit /\ ui = "exit" /\ ~early =>
        \A p \in {"conf", "ram"} : file[p] = Asset(p)
=============================================================================

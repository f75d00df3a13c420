# A verification of droid48

droid48 is the HP 48 emulator x48 carried over to Android: an interpreter for the Saturn
processor in C (`src/app/src/main/jni`), and an activity in Java
(`src/app/src/main/java/org/ab/x48`) that shows its screen, turns touches into key codes and
owns the thread the interpreter runs on. This directory holds TLA+ modules that model the
parts of it that are hard to test, TLC configurations that check them on small instances,
and proofs for TLAPS. Paths below are relative to these two directories.

1. [The system](#1-the-system)
2. [The modules](#2-the-modules)
3. [What the runs check](#3-what-the-runs-check)
4. [Fairness](#4-fairness)
5. [What is proved](#5-what-is-proved)
6. [Findings](#6-findings)
7. [What is not modelled, and the plan](#7-what-is-not-modelled-and-the-plan)

To repeat the checks, in this directory:

    tlc -workers 2 -config Control.cfg MCControl      # and so on for section 3
    tlapm Control_proofs.tla                          # Shutdown_, Keyboard_, Phone_,
                                                      # Lifecycle_, Scheduler_, Memory_,
                                                      # Instructions_proofs

Instructions_proofs takes a quarter of an hour; the others take a minute or less.

## 1. The system

### Threads and what they share

| thread | runs | touches |
|---|---|---|
| UI | `X48`, `HPView.onTouchEvent`, key callbacks | queue of key codes, `exit_state`, the emulated RAM (`loadProg`, `saveState`) |
| timer | `Timer` of `X48.onResume`, every 20 ms: `SIGALRM` (main.c) | `got_alarm`, the condition variable |
| emulator | `EmulatorThread`: `startHPEmulator`, `emulate` | everything native, the queue (`waitEvent`) |

All native state is global and lives as long as the process, which outlives the activity:
there is one `saturn`, one `exit_state`, one `got_alarm`, one condition variable. Nothing
but the condition variable and the key queue is locked.

### Components

| component | code | state | operations |
|---|---|---|---|
| return stack | actions.c 752-801 | `rstk`, `rstkp` | push (a full stack shifts down), pop (an empty one gives 0) |
| interrupt system | actions.c 345-459 | `intenable`, `int_pending`, `kbd_ien`, PC | `do_interupt`, `do_kbd_int`, RTI, RSI, INTON, INTOFF |
| sleep | actions.c 593-707, main.c 428-444 | the above, `t1_ctrl`, `t2_ctrl`, `got_alarm` | SHUTDN, `blockConditionVariable`, `SIGALRM` |
| key input | HPView.java 950-1218, x48.c 484-664, actions.c 101-145 | `touches`, the queue, `release_pending`, the matrix `keybuf`, `first_press` | touch and key callbacks, `GetEvent`, `key_event`, `do_in` |
| scheduler | emulate.c 2223-2480, device.c | seven countdowns, `schedule_event`, `device_check`, `display_touched`, `adj_time_pending` | `schedule`, `check_devices`, `emulate` |
| activity and emulator thread | X48.java, EmulatorThread.java, main.c 298-398 | `X48.thread`, the timer, `exit_state` | life cycle callbacks, `exit`, `startHPEmulator`, `stopHPEmulator` |
| memory controller | memory.c, actions.c 461-591 | `mem_cntl`, bank switch, CRC | CONFIG, UNCNFG, C=ID, RESET, read and write of nibbles |
| state files | init.c, AssetUtil.java, X48.java | files of registers, RAM and ports; settings | `read_files`, `write_files`, `copyAsset`, `managePort` |
| clock | timer.c, emulate.c, actions.c | ticks of 64 bits in two words, `timer2`, ACCESSTIME, `set_0_time`, `time_offset` | `get_t1_t2`, `set_accesstime`, `start_timer`, `stop_timer` |
| serial line | serial.c | receive and transmit buffers | `receive_char`, `transmit_char`, `serial_baud` |
| registers | register.c, actions.c | nibble arrays A-D, R0-R4, D0, D1, P, CARRY, ST | field arithmetic, tests, shifts, decimal mode, transfers to and from memory |
| decoder | emulate.c 101-2221 | PC | one case per instruction |
| disassembler | disasm.c | none | the same cases again, to text and a length |
| display | lcd.c, HPView.java | `display`, `disp_buf` | `update_display`, `disp_draw_nibble`, annunciators |
| debugger, RPL | debugger.c, rpl.c | breakpoints | interactive; never entered on Android |
| program and ROM files | binio.c, romio.c | emulated RAM, ROM | `read_bin_file`, `read_rom_file` |
| options, resources | options.c, resources.c | X11 command line | `get_resources` is never called on Android |
| settings, program list | Settings.java, ProgListView.java | preferences | user interface |

`useDebugger`, `exec_flags` and `in_debugger` therefore stay 0: the tests of them in
`emulate`, `do_shutdown` and `schedule` go one way.

### How they interact

- A touch becomes a code in `HPView`'s queue (`b + 1` for a press, `b + 100` for a release).
  `GetEvent` takes one code per call, and the emulator calls it once per alarm: from
  `schedule` while instructions run, from `do_shutdown` while it sleeps. `key_event` changes
  the matrix and may request an interrupt.
- An interrupt pushes PC, disables interrupts and jumps to 0xf, or, if interrupts are
  disabled, a key sets `int_pending`. RTI looks at `int_pending`.
- `schedule` comes when `schedule_event` instructions have gone; every part of it advances
  its countdown by the instructions since the last call, and may interrupt.
- `SHUTDN` blocks the emulator thread until the timer thread signals, looks at the timers,
  the serial line and the keys, and blocks again if none of them wakes the processor. Only
  `onResume` starts the timer and only `onPause` stops it.
- The files are read on the emulator thread (`init_emulator`) and written on the UI thread
  (`saveState` from the menu and, if the settings say so, from `onDestroy`). Java repairs
  and replaces them in between (`onCreate`, the settings, "Reset memory and quit").

### What makes it hard, and what has to be right

| behaviour | property |
|---|---|
| calls, returns, interrupts and RTI on one shifting stack of eight | the interrupted program comes back to where it was; the stack is a bounded stack |
| keys that arrive while a handler runs | each is served, none nests, none is served twice |
| several wake-ups at one alarm | the handler is entered once, with one return address |
| a condition variable with no predicate | no lost signal matters; no spurious wakeup does harm |
| fingers, hardware keys, cancelled gestures and lag | no stuck key, no lost key, a tap is long enough to be seen |
| seven countdowns that reset one another | nothing is overrun, keys are looked at in time, redraws come |
| an activity recreated around native state | one emulator at a time, destruction ends |
| state files rewritten in place, on another thread than the one that computes | what was saved in one piece comes back; no crash or failed write erases the calculator |
| files that Java repairs, blanks, deletes and restores behind the running machine | the ports are those of the settings; a reset resets |
| chips that come and go in one address space, decoded in four places | what is written is read back; only configured chips answer; UNCNFG silences the right one |
| two decoders of one instruction set, a thousand cases each, written by hand | they agree on length, operation and target |
| arithmetic by nibbles, in place, in base 16 and 10, inside fields | it is that of numbers, and stays inside the field |
| a clock put together from a counter, a number in memory and the phone's, corrected in between | it does not run back, and only the user moves it |

`PROJECT.json` lists these hazards at their lines, and for each the properties that would
catch it going wrong.

## 2. The modules

    CallStack            abstract: the stack of the last Depth return addresses
    ReturnStack          operators: rstk, rstkp
    SaturnInt            operators: the interrupt system, on ReturnStack
    Control              component: any program on SaturnInt   --> implements CallStack
    Control_proofs       theorems about Control
    Instruction          operators: nibbles, fields, operations
    Executor             operators: the emulator's decoder, on Instruction
    Disassembler         operators: the disassembler's decoder, on Instruction
    Registers            operators: register.c, and what actions.c does to registers
    Instructions         component: any instruction, on the three
    Instructions_proofs  theorems about Instructions: decoders, arithmetic
    KeyEvents            operators: key codes, matrix, GetEvent, do_in
    Keyboard             component: HPView, KeyEvents, the program that scans
    Keyboard_proofs      theorems about Keyboard
    Shutdown             composition: SaturnInt, KeyEvents, timers, alarm, threads
    Shutdown_proofs      theorems about Shutdown
    Lifecycle            component: activity, timer, emulator threads
    Lifecycle_proofs     theorem about Lifecycle
    Schedule             operators: schedule, check_devices
    Scheduler            component: any program, and alarms, on Schedule
    Scheduler_proofs     theorems about Scheduler
    Word64               operators: word_64 on longs of 32 and 64 bits
    Clock                component: timer 2, ACCESSTIME and the phone's clock, on Word64
    Mmu                  operators: mem_cntl, CONFIG, UNCNFG, RESET
    Decode               operators: read_nibble, write_nibble, on Mmu
    Memory               component: any program that configures and reads, on Decode
    Memory_proofs        theorems about Memory
    Persist              component: state files, settings, crashes, a running emulator
    Phone_proofs         theorems about Persist and Clock
    MCControl, MCInstructions, MCKeyboard, MCShutdown, MCClock, MCMemory
                         constants for TLC

Operators on a record stand for the C functions on the global `saturn`, under the functions'
names, so that one definition serves the component it belongs to and the ones that compose
it: `do_kbd_int` in Control is the `do_kbd_int` in Shutdown. The definitions whose comment
starts with "Mutant:" are the plausible bugs with which each property is shown to be able to
fail; no specification uses them. `TypeOK` says of a component what its state is; the runs
check it where a theorem needs it (Control, Memory), and elsewhere it documents the
variables.

### Control (ReturnStack, SaturnInt, CallStack)

State: `cpu` (PC, the stack, `intenable`, `int_pending`, `kbd_ien`), the address field of C
(for RSTK=C and C=RSTK), whether a key is down (for RSI), and `frame`, a history of where in
the stack the return address of the running interrupt lies and what it was. One action per
instruction that touches this state; all others are `Compute`, which may jump, so any
program is a behaviour, not only the HP ROM. An illegal instruction sets PC to 0 (through
`debug`), which is such a jump. `Following` bounds PC arithmetic to the addresses of the
instance. The part of `do_return_interupt` that hurries a time adjustment is in Schedule.

CallStack says what the program is promised: a sequence of at most `NR_RSTK` addresses, of
which a call adds the newest and drops the oldest, and a return takes the newest, or 0.
`ImplementsCallStack` maps `rstk[0 .. rstkp]` to it.

### Instructions (Instruction, Executor, Disassembler, Registers)

One instruction: its nibbles are fetched one by one (`Fetch`), as far as the decoder looks;
`step_instruction` says what it does, how far PC moves and where control goes; `Execute`
does it to the registers; then comes another instruction anywhere. The operation is a record
(kind, register to, register from, field, number), the same type for both decoders, so that
they can be compared: Executor yields what the calls in emulate.c do, Disassembler what the
text of disasm.c says is done, in class and in HP mnemonics. A jump whose address is
`Address(x)` is cut to 20 bits. What comes from outside the registers or goes there (return
stack, interrupts, bus, controllers, PC, the hardware status) decodes to a named operation
and leaves them alone: Control, Shutdown and Memory are about the first four; left out are
A=PC, C=PC, APCEX, CPCEX, C=RSTK, A=IN, C=IN, C=ID, the carry of RTNSC and RTNCC, and what
SREQ? and the HST instructions do. For most instructions Executor has one number for what is
read and for how far PC moves, where the code has two; a wrong one then shows in `InStep` by
the length the disassembler has for the word. Registers keeps the C functions' loops: nibble
by nibble, in place, through tables of field borders that P may replace.

The two decoders do not agree everywhere. The properties are equivalences: each lists the
deviations that there are, and there are no others. In length (`OtherLength`), the
disassembler is one nibble short for D0 and D1 plus or minus n, for NOP5, for r=r SRB.F and
for 81A with an operation that does not exist; for `8081x`, x not 0, it stores through a
null pointer. In text (`OtherOperation`), it shows C to and from R0-R4 as A, shows nothing
for 81A with R5-R7 (R1-R3 to the emulator), SRB.F always with B, GOVLNG as GOSBVL, `520` as
NOP3 (GONC to the instruction behind it, to the emulator), `6400n` as NOP5 (a trap, unless n
is 0), C=P n and P=C n for one another in class mnemonics, and r=-r as r=r-1 in HP
mnemonics. As the disassembler is not entered in the Android build, these are no findings of
a run but exceptions, spelled out.

### Keyboard (KeyEvents)

State: what each finger and hardware key is on (the environment), `touches` (which pointer
HPView thinks holds a button), the queue and the matrix with `release_pending` (`kbd`), the
program's last `IN_reg`, `first_press`. `moves` is a bound on the user's moves and no part
of the program; `poll`, `fresh`, `wiped` and `cancelled` (was a gesture taken away?) are
histories for the properties. Actions are `onTouchEvent`'s cases, the key callbacks,
`GetEvent` and `do_in`. `KeyEvents` keeps the arithmetic of the codes (`b + 1`, `b + 100`,
`< 100`), because presses and releases are told apart by it.

### Shutdown

Composes the interrupt system, the keyboard, both timers, the alarm and the threads around
`do_shutdown`. The emulator thread's program counter is `thread`. `ticking` says whether the
activity is resumed and its timer scheduled: `onPause` cancels it, `onResume` starts it
again, and `stopHPEmulator`, which `onDestroy` comes to, is behind `onPause`, so that no new
call of `SIGALRM` follows a stop; one that is under way goes on. What another activity does
to a stopped emulator is Lifecycle's subject. `got_alarm = 1` and the signal are two steps
(`SetAlarm`, `Signal`), as the assignment is outside the lock; `Wait` is atomic with the
release of the mutex, as the condition variable promises; a wait may end spuriously.
`HandleAlarm` is the body of the loop behind the wait: poll, timer 1, timer 2, serial line,
and the test for `exit_state`, all in the order of the code, with every request of an
interrupt it may make. SHUTDN with no keyboard line driven enables interrupts and drops
`int_pending`.

### Lifecycle

State: the activity, whether the library is loaded, `need_to_quit`, `X48.thread`, the timer,
`exit_state`, `got_alarm` and what each emulator thread ever started is at. Android
callbacks come in their documented order, one activity is destroyed before the next is
created, and the library is loaded before the activity is destroyed. `join(1000)` may end
with the thread (`Joined`) or at its limit (`JoinTimesOut`). The limit is taken only when
the thread is not done: one second is long against the steps of a thread that can go on, but
the model does not rely on that. `need_to_quit` ends the process; the next activity starts
from fresh native state.

### Scheduler (Schedule)

`schedule` is one operator from record to record, composed of its parts in their order,
because every part reads what the parts before it left in `schedule_event`, `intenable` and
the countdowns. What the clock and the devices make of an event is an argument: which event,
if any, requests an interrupt, the instructions per tick of timer 1 that the statistics come
to (`in.measured`, an unsigned long), whether `get_t1_t2` slows timer 2 down. `Statistics`
cuts that number and its 512th part to shorts (`Short`), as the assignment to `t1_tick` and
`t2_tick` does: on a fast host the tick of timer 1 is negative until the next statistics.
Scheduler runs it under any program: instructions that compute, write display registers,
write other device registers, return from interrupts, sleep. Wherever `get_t1_t2` is called,
in `schedule`, at the start and in `do_shutdown`, it may count `t2_tick` up (`Slowing`,
`Slowed`), as far as the bound `MaxT2Tick`. The start state is the one `emulate` sets up,
with `display_touched = 1` and `device_check = 0`.

### Clock (Word64)

A time is a `word_64`, two words of W values, calculated with by halves as in timer.c.
`long` is how many values an `unsigned long` has, `W` or `W * W`: with 64 bits, what is
shifted beyond 32 stays in the word, is compared and partly written. State: the phone's
clock, `timer2`, ACCESSTIME in the emulated RAM, the offsets `set_0_time` and `time_offset`,
`adj_time_pending`, the two timers of real time. The actions of the code are those of
`schedule` (`Count`, `Adjtime`, `Statistics`, `Rollover`), of `do_shutdown` (`Sleep`,
`Alarm`, `Wake`) and of the start of `emulate` (`ClockInit`, `Restart`). Those of the
environment: time passes, the ROM's I/O service moves timer 2 and then ACCESSTIME
(`BeginService`, `EndService`, known to the code by PC), the user sets the time. `waited`,
`setting`, `settings` and `spent` are histories. What the calculator shows is `Shown`, and
`Lead` its distance from the phone's clock and the user's settings. `Count` is bounded by
`Lead < HALF_MINUTE`: instructions do not run half a minute ahead of the clock between two
corrections, each of which slows them down. `TimePasses` and `Count` stop at `-MaxBelow`: the
program sets timer 2 soon after it has run out. `SetTime` asks that timer 2 is one the
program has set; behind a setting that timer 2 cannot count and a correction that was put
off, it may hold anything, and the next correction with it.

### Memory (Mmu, Decode)

State: `opt_gx`, the model, which the ROM decides once; `mc`, the six controllers; and
`bank_switch`. Actions are CONFIG, UNCNFG and RESET (also the menu's reset, main.c 317) with
every address, and reads: of instructions (`read_nibble`) and data (`read_nibble_crc`),
which on the GX may switch banks. What memory holds is left out; an operator of Decode says
to which cell of which array an access goes, one operator per `switch` of memory.c, split in
two for the GX. Pages whose cases are written out alike in the code share a clause (8-11 on
the SX; 10 and 11 with large RAM on the GX). `read_nibble_crc` repeats `read_nibble` case by
case, so that its cell is the same. Ports hold a card each, of a size that is a power of
two, so that `& port_mask` is `% port_size`; without a card the code would index a null
pointer (see the hazards). Drawing behind a write to display memory and the registers of the
I/O page are not part of this component.

`WritesReadBack`, `OnlyConfigured` and `UnconfiguredIsGone` are what a program relies on and
no single line of the code says: the four decoders never look at `unconfigured`, and repeat
one another's conditions by hand. `UnconfiguredIsGone` has an exception that lies in the
chain itself: a chip that stands earlier and was given a base where memory.c does not look
for it takes the UNCNFG of that base. `Disputed` is the exception of section 3.

### Persist

State: the four files (`file`), the settings that bear on them (`pref`), where the UI thread
and `write_files` are (`ui`, `write`), where the emulator thread is in `registerClass`,
`read_files` and its loop (`emu`), and `saturn` by parts (`machine`). Contents are
abstracted to when they were computed: the epoch of the state, `Shipped` for the files of
the package, `Cold` for cleared memory and blank cards, `Junk` for memory that was allocated
but not read, `Mixed` for an image taken while the program changed it. Sizes are kept, in K:
they decide what `copyAsset`, `managePort` and `read_files` do with a file. Each file is
written in two steps, `Open`, which cuts it to nothing, and `Fill`, as its contents go out
in one `fwrite` or flush; either may fail (`Fail`), the process may end between any two
steps (`Crash`), and the emulator goes on meanwhile (`Compute`), or is still reading. `Fill`
is not enabled for a memory that is not allocated: the code dereferences null there, which
is `Crash`. `good` is a history: what the last save took, if it took it in one piece, as far
as the settings have not changed the ports since; `early`: was the last save begun before
`read_files` was done? `moves` and `epoch` have bounds.

The model is chosen once. Left out are the preference "HP48 S", which takes effect at the
next start, the ROM file, the formats of older versions and the program loader. The files
are assumed to be on external storage, where every file is writable for its group, which is
what `read_files` tells a RAM card by. `Exit` ends the emulator thread, and activities do
not overlap; what happens otherwise is Lifecycle's subject. Two facts are in the model as
they are in the code: on the SX the settings of the ports change no file that is read
(managePort writes `port1` and `port2`, the SX reads `port1s` and `port2s`), and a rotation
is `Finish`, `Destroy`, `Exit` and `Create`, so that without "save on exit" it loses what
was not saved.

## 3. What the runs check

All runs are exhaustive; each mutant of `PROJECT.json` is caught under the same bounds.

| run | configuration | properties |
|---|---|---|
| control | MCControl, Control.cfg | `TypeOK`, `PendingOnlyWhileDisabled`, `FrameIntact`, `RtiResumes`, `PendingServiced`, `ImplementsCallStack` |
| instructions | MCInstructions, Instructions.cfg | `InStep`, `SameInstruction`, `CalculatesNumbers`, `FieldOnly`, `OrderIsBorrow`, `ShiftsKeepTheNumber`, `StoredIsRecalled` |
| keyboard | MCKeyboard, Keyboard.cfg | `MatrixFollows`, `HeldForOnePoll`, `UpReleasesItsKey`, `KeysComeUp` |
| shutdown | MCShutdown, Shutdown.cfg | `AsleepUntouched`, `WakesOnce`, `OnWakes`, `StopEnds` |
| lifecycle | Lifecycle, Lifecycle.cfg | `OneEmulator`, `SleeperWakes`, `DestroyReturns` |
| lifecycle_joined | Lifecycle, LifecycleJoined.cfg | violates `JoinedMeansStopped` |
| scheduler | Scheduler, Scheduler.cfg | `OnTime`, `AdjustedAfterRti`, `RedrawComes`, `LostOnlyBehind` |
| clock | MCClock, Clock.cfg | `TimersAddUp`, `UserAdjusts`, `NeverRunsBack`, `ShowsTheTime` |
| clock_wide | MCClock, ClockWide.cfg | violates `OnlyTheUserAdjusts` |
| memory | MCMemory, Memory.cfg | `TypeOK`, `OnlyConfigured`, `InArrays`, `WritesReadBack`, `UnconfiguredIsGone` |
| persist | Persist, Persist.cfg | `RestartRestores`, `NeverErased`, `PortsAsSet` |
| persist_reset | Persist, PersistReset.cfg | violates `ResetResets` |

**control.** Any program, interrupted anywhere. `FrameIntact` and `RtiResumes` together say
that an interrupt comes back: the return address survives in its slot, whatever is called
above it, until it is popped or pushed out, and the RTI that ends a balanced handler goes
there, also after RTI has entered the handler again for keys pressed meanwhile. *Bounds:*
three slots instead of eight, four addresses. Three slots let an interrupt land below,
between and above calls, and be pushed out by them. The proofs make the bounds immaterial.

**instructions.** Every word of nibbles that selects an instruction is decoded by both
decoders, with displacements and constants made of 0 and 9 (forwards and backwards, and 0,
which is a return instead of a branch), at an address near each end of the address space,
around which branches wrap. It is then carried out on eighteen valuations: carries through
all nibbles, numbers that differ in one nibble, numbers that are not decimal, in both modes,
with P inside, behind and at the bottom of the address field. `CalculatesNumbers` and
`ShiftsKeepTheNumber` compare with integers where the field has at most `MaxPlaces` nibbles,
seven here (TLC's integers have 32 bits); for the longer fields they compare with the
inverse operation. The proofs make addresses, displacements, valuations and `MaxPlaces`
immaterial.

**keyboard.** Two fingers and the hardware keys on two ordinary buttons in one column and
ON, four moves of the user, cancelled gestures among them, with any lag of the emulator
between them. Four moves are press and release by two parties, or two taps; the queue is
unbounded otherwise. `MatrixFollows` is about the matrix the emulator arrives at once it has
caught up (`Settled`): what HPView shows as pressed is down there, and what is down is held.
The second half, `UpReleasesItsKey` and `KeysComeUp` hold as long as no gesture is taken
away: `ACTION_CANCEL` is ignored by HPView (HPView.java 971-973), so that the button of a
cancelled gesture is down until somebody presses and releases it again, and `touches` still
names its pointer, which the next finger may get: the UP of that finger then releases the
button of the cancelled gesture and leaves its own pressed. `MatrixFollows` excuses the keys
that the release of ON and the patch in `do_in` wipe, which the code does on purpose.

**shutdown.** `AsleepUntouched`: no alarm, key, timer or spurious wakeup leaves the
processor changed and asleep. `WakesOnce`: it ends with one handler entry and one pushed
address, or with none. `OnWakes`: while the activity stays resumed, no lost signal, spurious
wakeup or setting of the program keeps ON from waking the processor. `StopEnds`: a stop ends
the thread, at an instruction, between instructions, in the middle of an alarm, or in a wait
that a call of `SIGALRM` still under way will end. The rest are the threads in a wait nobody
will signal (`Unsignalled`), which a stop does not end; lifecycle_joined shows what comes of
that. One ordinary key and ON, a queue of two codes, so that ON may be behind another code;
timer 1 may interrupt, timer 2 may only wake, as one of each kind that wins over the other;
a stack of one slot, so that an interrupt lands on an empty or on a full stack.

**lifecycle.** Three threads ever: the one of a destroyed activity, its successor, and one
more, so that a thread given up by one join may meet a second. Deadlock is not checked
because the model stops when the bound on threads is used up.

**scheduler.** The real periods (0x3fffffff for the rollover, 0x7ffff, 0x1ffe, 0x1e00,
0x7ff, 0xf) are scaled down to 6, 6, 4, 3, 3 and 2. A short has 16 values and timer 2 eight
ticks in one of timer 1 (2^16 and 512 in the code); the statistics come to 3, which fits, or
to 10, of which a short makes -6, with ticks of timer 2 of 0 and 1. The rollover still comes
after several of the others, writes to timer 1 and RTI shift the phases against one another,
and the delay of a redraw, 4 (16 in the code), spans several calls of timer 2. `OnTime`:
schedule is never late, whatever the program writes, and never counts backwards over the
rollover. Timer 1 is excepted where its tick is 0 or less: it is then counted at every
instruction, and so is everything else, which `OnTime` says is all that happens.
`RedrawComes`, `LostOnlyBehind`: the wait for a redraw ends, and with the redraw, except for
one case: a display register written twice, the second time at the instruction the first
redraw is due, drives `schedule_event` to -1, which emulate.c 2474 calls a "bug", and the
redraw then waiting is dropped until the next write. A negative tick of timer 1 has
`schedule_event` below 0 all the time, but loses no redraw by itself.

**clock.** Words of 36 values; time starts two ticks below a carry out of the lower word of
the phone's time, which is one below that of the calculator's, and ends at it. Half a minute
is one tick, and up to two go by without a correction, so that a lag may be made up for or
be taken for a setting; timer 2 is counted up to two ticks below 0. One setting by the user,
forwards by more than half a minute, or back by more than timer 2 holds. Exceptions that are
the code's: more than half a minute without a correction (`onPause` stops the alarms of a
processor that sleeps) counts as a setting, and a timer 2 that was counted below 0 is put
back to 0 or above (`NeverRunsBack`), as timer.c compares it as an unsigned number.
`ShowsTheTime` leaves out a correction that was put off and is the first to see a setting:
get_t1_t2 then does not look for one (timer.c 628) and counts it on timer 2, which keeps
the lower 32 bits only; the setting stays for the correction after. That the theorem needs
the exception, and `SetTime` its guard, was found while proving: the invariant could not be
kept, and TLC then showed the runs. Deadlock is not checked because time ends.

**memory.** Both models. CONFIG is given the bases the decoders ask for, some they ask for
of another chip only, and the sizes they compare with (`MCConf`). Addresses are probed at
the first and the last cell of every window (`MCProbe`). Port 1 has a ROM card of 32K
(smaller than its window, so it is mirrored), port 2 a RAM card of 128K on the SX and of
256K, two banks, on the GX, so that most of the 32 banks lie beyond it. The proofs make
these choices immaterial. `WritesReadBack` has one exception, `Disputed`: on the GX memory.c
knows two places for the bank switch, 0x7f000 and 0x90000, and for the second, writing asks
the bank switch's controller (line 793), reading that of the I/O page (lines 1108, 1370); a
program that configures the switch there can never switch banks.

**persist.** Both models; port 1 without a card, port 2 with none, 128K or 256K, so that
cards come, go and change size. Three moves (settings, saves from the menu, resets, failed
writes, crashes) and any number of rotations and exits around them; two epochs, so that a
save may catch the machine before, between and after two changes. `RestartRestores` needs
the two saves, the settings in between and the next start to agree; `NeverErased` says that
every cut or partial file that a crash or a failed write leaves behind is repaired before it
is read. Both leave out saves begun while `read_files` runs, behind which neither would
hold. What they do not promise is in the hazards: a crash between two files leaves registers
and memory of different saves. Deadlock is not checked because the model stops when its
moves are used up in the middle of a save that cannot go on.

## 4. Fairness

- Keyboard: weak fairness of `GetEvent`. The alarm comes every 20 ms and the emulator polls
  once per alarm, asleep or not. The user owes nothing.
- Shutdown: weak fairness of the timer thread while the activity is resumed
  (`scheduleAtFixedRate`), and of a call of `SIGALRM` under way, paused or not; of the next
  instruction, of the end of an iteration and of the steps inside SHUTDN: these are threads
  that can run. None of a timer that is cancelled, and so none behind a stop. `TimerRuns` and
  `EmulatorRuns` write this without ENABLED, which costs TLC less: an action is taken
  infinitely often, or infinitely often it is not enabled. Nothing obliges the activity to be
  resumed. None for the polling of keys while instructions run, for any
  particular instruction, the user or a spurious wakeup.
- Lifecycle: weak fairness of each emulator thread's own steps (not of SHUTDN, nor of
  spurious wakeups), of the timer while it ticks, of `readyToGo` (posted to the UI thread)
  and of the end of a join, which has a limit. None for the user.
- Instructions, Clock, Memory, Persist, Control: none, as their properties are about safety.
- Scheduler: weak fairness of the next instruction, whichever it is, written as `[]<><<s' #
  s>>_s`: an instruction is always possible and alone changes `s`.

## 5. What is proved

`Control_proofs` proves, for every stack size `NR_RSTK >= 1`, every set of addresses with 0
and the vector in it, every instruction length and every program:

| theorem | says |
|---|---|
| `TypeCorrect` | `Spec => []TypeOK` |
| `PendingImpliesDisabled` | `Spec => []PendingOnlyWhileDisabled` |
| `FrameStaysIntact` | `Spec => []FrameIntact` |
| `RtiAlwaysResumes` | `Spec => RtiResumes` |
| `PendingAlwaysServiced` | `Spec => PendingServiced` |
| `Refinement` | `Spec => ImplementsCallStack` |

`Shutdown_proofs` proves, for the same constants, every program, every use of the keyboard
and every setting of the timers:

| theorem | says |
|---|---|
| `SleepsUntouched` | `Spec => []AsleepUntouched` |
| `WakesUpOnce` | `Spec => WakesOnce` |

`Lifecycle_proofs` proves, for any number of activities and threads:

| theorem | says |
|---|---|
| `OnlyOneEmulator` | `Spec => []OneEmulator` |

`Memory_proofs` proves, for SX and GX, RAM or ROM cards of any size, any addresses given to
CONFIG and any set of addresses accessed (all 2^20 included):

| theorem | says |
|---|---|
| `ControllersTyped` | `Spec => []TypeOK` |
| `OnlyConfiguredAnswer` | `Spec => []OnlyConfigured` |
| `ReadsStayInArrays` | `Spec => []InArrays` |
| `WritesAlwaysReadBack` | `Spec => []WritesReadBack` |
| `UnconfiguredFallsSilent` | `Spec => UnconfiguredIsGone` |

`Instructions_proofs` proves, for every address and every word of nibbles, with any
displacement and any constant, any contents of the registers, and `MaxPlaces` up to all 16
nibbles:

| theorem | says |
|---|---|
| `ProgramAndListingInStep` | `Spec => []InStep` |
| `SameInstructionShown` | `Spec => []SameInstruction` |
| `ArithmeticCalculatesNumbers` | `Spec => []CalculatesNumbers` |
| `InstructionsStayInTheField` | `Spec => []FieldOnly` |
| `OrderTestsAreBorrows` | `Spec => []OrderIsBorrow` |
| `ShiftsKeepNumbers` | `Spec => []ShiftsKeepTheNumber` |
| `StoresAreRecalled` | `Spec => []StoredIsRecalled` |

`Keyboard_proofs` proves, for every keyboard, any number of pointers and moves, and queues
of any length:

| theorem | says |
|---|---|
| `TheMatrixFollows` | `Spec => []MatrixFollows` |
| `TapsAreHeld` | `Spec => HeldForOnePoll` |
| `FingersReleaseTheirOwn` | `Spec => UpReleasesItsKey` |

`Scheduler_proofs` proves, for all periods from 1 on, whatever the statistics come to,
shorts of any size, all ticks of timer 2 up to `MaxT2Tick`, and every program:

| theorem | says |
|---|---|
| `AlwaysOnTime` | `Spec => []OnTime` |
| `ScreensAreLostOnlyBehind` | `Spec => LostOnlyBehind` |
| `AdjustmentsAreMadeUpFor` | `Spec => AdjustedAfterRti` |

`Phone_proofs` proves, for any cards the settings offer, any crashes, cut and odd files and
failed writes, and for a clock with halves of words of any size, longs of 32 and of 64 bits,
any timeouts and any settings of the time that the calendar has room for:

| theorem | says |
|---|---|
| `NothingErased` | `Spec => NeverErased` |
| `SavesComeBack` | `Spec => RestartRestores` |
| `CardsAsSet` | `Spec => PortsAsSet` |
| `TimeAddsUp` | `ClockSpec => []TimersAddUp` |
| `OnlySettingsMoveTime` | `ClockSpec /\ long = W => UserAdjusts` |
| `TimeRunsOn` | `ClockSpec /\ long = W => NeverRunsBack` |
| `TimeIsShown` | `ClockSpec /\ long = W => ShowsTheTime` |

The assumptions of Control_proofs are those of ReturnStack and SaturnInt on the constants,
which TLC evaluates in the runs. The argument: `IInv == TypeOK /\ PendingOnlyWhileDisabled
/\ FrameIntact` is inductive (`InitIInv`, `NextIInv`). The three need one another:
`FrameIntact` reads `rstk` at an index only `TypeOK` keeps inside the array, and that `RTI`
re-enters the handler only with interrupts disabled is what keeps `frame` from being
overwritten. Lemmas say once what push, pop and handler entry do to the record
(`PushFields`, `PopFields`, `EnterFields`) and to the frame (`FramePushed`, `FramePopped`,
`FrameEntered`, `FrameSame`); `NextIInv` has one case per action and cites them. The action
properties follow from the same invariant, action by action. The refinement needs two facts
on sequences: `EntriesPushed` (a push appends, or shifts and appends) and `EntriesPopped`.

In Shutdown_proofs, `IInv` adds to `AsleepUntouched` that the processor is well formed and
that a key waits only while interrupts are disabled. An alarm that does not wake has brought
no interrupt (`AlarmKeeps`). For the one that does, `AlarmWakesOnce` follows the requests in
the order of the code: with interrupts enabled the first one enters the handler, and every
later one finds interrupts disabled and is dropped (`ExpireOnce`); with interrupts disabled
only a key leaves a trace, and that in `int_pending` (`ExpireNever`).

In Lifecycle_proofs, `OneEmulator` alone is not inductive: a thread may be started while the
one before is still alive. `OnlyLast` says why it is not: as long as no join has given up,
only the thread started last may be alive, and none is before the activity has loaded the
library or after its destruction, which is when the next may be started.

In Memory_proofs, the inductive invariant adds to `TypeOK` that a controller that lacks an
address has base 0 (`BaselessWhileLacking`): CONFIG gives the base last, which is what lets
the decoders do without `unconfigured`. `ReadsBased` and `WritesBased` say that no chip
answers at base 0. `ReadsInside` and `WritesWhatIsRead` hold for arbitrary controllers and
need no invariant but the range of the bank; each has one step per decoder, over facts on
pages and targets. `EarlierAnswers` compares the order of the controllers with the order of
the tests. The sizes of cards, which may depend on the model, are assumed to be positive
(`DecodeAssumption`).

In Instructions_proofs, the invariant for the decoders is only that nibbles are fetched
(`FetchesNibbles`); what is long is the case analysis. There is one lemma per group of
opcodes (`Agree1`, `Agree80`, `Agree808`, ..., and `AgreeOp1`, ...), which compares the two
decoders' tables for a word of that group, and `EveryWordAgrees` and
`EveryOperationAgrees` put them together. That a displacement is the same number to both,
one of which looks at its sign bit and one at its size, is `Displacements`.

For the arithmetic, the auxiliary invariant is `Performed`, which follows from the shape of
`Execute` (`InstructionsArePerformed`, a lemma): behind an instruction, the registers are
those before it, which are a `Processor`, with the decoded operation carried out. All else
is about `perform`, for any `Processor` and any operation the decoder yields (`Sound`,
`EveryOperationIsSound`). The loops of register.c are recursive functions of the nibble, and
the proofs go by induction. The induction theorems of the library take a predicate as a
parameter, which no prover here can instantiate; `Inductive`, `Upwards` and `Downwards` say
the same of a set, and follow from the well-foundedness of `<`. `Flowing` says once that a
loop yields digits and carries (`Ran`), and there is a line for each function that runs it
(`Adding`, `Subtracting`, `Negating`, ...); the rest no longer looks at loops.

- *Numbers.* Each function satisfies an equation per column, digit + digit + carry in =
  digit + base * carry out (`SumColumns`, ...), from which `LongAddition` gets that of the
  numbers, by induction from the top. `Bounds` says that a number lies between 0 and what
  the field holds, so that the carry out of the top column is the comparison `CARRY` stands
  for (`Modulo`). In decimal mode this needs decimal digits, and `ResultsAreBased` gives
  them back.
- *Order.* The comparison from the top and the borrow from the bottom are related by
  induction on the nibble: the borrow out of nibble i says which number is less up to i
  (`BorrowIsLess`).
- *Field.* `Framed` says of a function that it changes the registers it names in the field
  it is given, and nothing else; there is a lemma for each kind of operation.
- *Shifts.* Each shift is given digit by digit. Division by 16 moves digits and division by
  2 takes a bit from the neighbour (`DividedBySixteen`, `Halved`); that the opposite shift
  brings the digits back is `Restored`.
- *Memory.* What `store` leaves are cells, in order, from the address on (`Storing`);
  recalling them into zeroes reads each of them once (`RecallingBack`).

The assumptions (`InstructionsAssumption`) are that addresses are natural numbers, that
constants are nibbles, and that the valuations are contents a `Processor` may have, which
TLC evaluates for those of the run.

In Keyboard_proofs, `IInv` is about `Ends(kbd)`, the matrix at the end of the queue.
`Seen`: a button that is touched will be down. `Owned`: the owner of a button is on it, and
one nobody owns will be up. Neither holds of the matrix as it is now. What a code does to
each button is said once (`Ordinary` buttons have a place each, `On` has all rows), and that
a code appended to the queue acts after all others, that taking one from the front changes
nothing, and that a release put off still acts first are inductions over the queue. For a
tap, `Sure` says that no release is put off while a press is fresh. The assumptions
(`KeyEventsAssumption`) are those the table `buttons` of x48.c (300-352) fulfils: 49
buttons, no two ordinary ones in one place, none in the column of ON.

In Scheduler_proofs, `IInv` says of every countdown of `OnTimers` that more is left than has
gone by since schedule last came (`Rest(s) < sched[c]`), that schedule comes before it runs
out (`Rest(s) + schedule_event + 1 <= sched[c]`), and that neither timer 2 nor
`schedule_event` is further away than `Longest`. The second is what keeps the first:
schedule passes seven parts, and each must leave a `schedule_event` that no countdown served
before it runs out before (`Seen`). `PartSees` proves that once for a part that advances a
countdown and notes it, and there is a lemma for each part; `ScheduleSpaces` composes them,
and `BehindSpaces` adds the loop of `emulate`. An instruction either leaves countdowns and
`schedule_event` alone or sets `schedule_event` to 0, which brings schedule (`SameIsReady`,
`NowIsReady`). Of the ticks it is used that they are shorts (`ShortsAreTicks`,
`SlowedAreTicks`): a tick of timer 1 may be negative (emulate.c 2372-2380 on a fast host),
and then schedule comes at the next instruction, which is in time for all the others. That
of timer 2 is assumed to stay at or below `MaxT2Tick`, itself within a short
(`SchedulerAssumption`). For the redraw, `Steady` adds that the countdown of the display is
one below `display_touched` while a redraw waits, and that schedule comes before it runs out
(`Waiting`). schedule, which counts down both, leaves this so (`ScheduleLeavesWaiting`); the
write of a display register at the instruction the redraw is due is the one step behind
which schedule finds the countdown overrun (`Overrun`), and `LostStep` shows that a change
is lost in no other.

In Phone_proofs, none of the three properties of the files follows from the state of the
files alone, as a start reads them one by one and other steps come between. `FilesInv` has
a part for each promise that has to hold meanwhile. `Ready`: from the creation of the
activity until all is read, the memory file is whole and each card's file is as set, or
could not be filled, unless a save interfered (`early`). `Saved`: while `good` names a save,
its files hold it, in sizes that will be accepted; of a card that is what the settings say,
so that managePort leaves it alone (`ManagedIs`, `CheckPrefsDoes`). `Saving`: the files a
running program's save is through with have the sizes of what it saved, and the one it has
open is cut. `BroughtBack`: what has been read so far is from that save. `Sound` says that a
file without contents has a size that is never accepted, and `Phases` that a save finds the
program running or is early. There is a lemma for each action (`CreateKeeps`, ...).
`PersistAssumption` gives the sizes of Settings, with 0, "None", among them: the app starts
without cards.

For the timers, `ClockInv` adds to `TimersAddUp` that what is stored are words, that a timer
that runs was started in the past, that only the one runs that should (IDLE asleep, RUN
awake), and that the time spent fits into the number, as the phone's clock does
(`ClockAssumption`). The rest is arithmetic, which the provers do not do with a base that is
a constant: that the numbers of the halves are what they are divided into (`Quotients`,
`HalvesAre`), that each column adds up with its carry whatever the width of a long
(`AddedColumn`, `SubtractedColumn`), and so the whole number (`SumIs`, `DifferenceIs`). What
64 bit longs leave above bit 32 of a word does no harm here, as the next calculation takes
the halves apart modulo `Half`.

The three properties of the time shown are those of longs of 32 bits; with 64, TLC finds all
three violated under the constants of ClockWide.cfg, by the borrow its finding is about or
by the carry that section 7 adds to it. Numbers that are equal modulo `W * W` are `Alike`,
which sums and differences keep (`AlikeSums`, `Added`, `Taken`), so that each word of
`get_t1_t2` is like what it stands for, whatever carries are lost: its `adj` like `Lead`,
its `access` like `timer2 + Lead`. What the code reads off a word is more than that: the
test of half a minute is one on `Lead`, either way (`SizeIs`: the bit it takes for the sign
is not the highest one), and "check OK" compares half words as it says in `BehindIs`.
Together they are `CorrectionIs`: a correction moves the offset by `Lead`, or puts timer 2
to the half word that `timer2 + Lead` leaves.

`TimeInv` is the inductive invariant. The time may be set by more than a half word holds,
and corrections may be put off meanwhile, so that the calculator is whole words behind or
ahead of the phone: `Strays(j, k)` says that it is j words behind at most and k ahead, gives
`Lead` and `timer2 + Lead` their ranges for that, and bounds the offset by the settings so
far, so that nothing overflows 64 bits (`Roomy`, `RoomIs`); without a setting pending, j and
k are 0. `Held` says that a timer 2 the program has not set belongs to a calculator more
than half a minute off, which the next correction that is not put off sees. From these,
`CorrectionKeeps` shows what a correction keeps and that all three properties hold of it;
there is a lemma for every other action, and `TimeSteps` puts them together.
`ClockAssumption` and `CalendarAssumption` give what the code relies on: a half word has
room for the longest timeout, half a minute and the time between corrections, the program
sets timer 2 before it has run through, the calendar reaches further back (1970 years) than
all settings go, and 64 bits reach further on.

Model-checked only: the liveness properties (`KeysComeUp`, `OnWakes`, `StopEnds`,
`SleeperWakes`, `DestroyReturns`, `RedrawComes`: TLAPS does not do fairness here), and the
three that fail. Every invariant and every action property that a passing run checks is
proved.

## 6. Findings

- **lifecycle_joined.** `EmulatorThread.exit` logs "joined" (line 27) behind a join that may
  have run into its limit. It does whenever the emulator sleeps in SHUTDN, which is most of
  the time with an idle calculator: `stopHPEmulator` signals nobody, and `onPause` has
  cancelled the timer that would. It also does not hold if the thread had not got to
  `exit_state = 1` (main.c 326). The next activity starts a second emulator on the same
  `saturn`.
- **persist_reset.** "Reset memory and quit" (strings.xml 9) copies the shipped files over
  the state files (X48.java 271-276), but with "save on exit" set, `onDestroy` saves the
  running calculator over them (X48.java 509-512) before the process ends: nothing is reset.
- **clock_wide.** `get_t1_t2` takes a difference of more than "Half a minute" between timer
  2 and the phone's clock for a "Time adjustment from User" (timer.c 179, 563, 680). With
  longs of 64 bits, which today's builds have, the size of a negative difference keeps the
  borrow above bit 32, so that it is never below half a minute: a lag of timer 2 moves the
  offset instead of being made up for. In the run timer 2 is 3, one tick goes by in which it
  is not counted, and the correction takes that tick from `set_0_time` and `time_offset`;
  the calculator's clock stays behind for good.

## 7. What is not modelled, and the plan

Not modelled: drawing and annunciators (data and I/O), the preference screens and the
program list (user interface), the X11 options, the debugger and RPL decompiler (not
reachable in the Android build), the serial line (in the Android build `useTerminal` and
`useSerial` stay 0, so that it has no device: `receive_char` returns at once,
`transmit_char` drops the byte), the loading of ROM images. What the statistics come to is a
choice in Schedule, of which only the cut to a short is kept; timer 1, the CRC register,
OUT, the bus commands, C=ID, HST and SREQ? have no effect in the models that decode them.
Activities that overlap, and a library that is loaded after the activity was destroyed, are
excluded by Lifecycle's assumptions. On 64 bits there is a second effect beside the
finding's: when the last addition of `set_accesstime` carries out of the lower word, which
it nearly always does for a negative timer 2, and for a positive one if the time is that close to
the end of its lower word, the carry stays in `ticks.lo` and is shifted into the upper
word's nibbles (timer.c 266-273); ACCESSTIME is then 2^32 ticks ahead if that word is even,
and the next correction moves the offset by them. This is in `Written`; `OnlyTheUserAdjusts`
leaves a negative timer 2 out, and the constants of ClockWide.cfg keep the finding's trace
clear of that carry.

In order, what comes next:

1. *Crc* and *Display*: the CRC register, and the screen as a cache of display memory
   (geometry, `display_touched`, what is drawn on a write); C=ID.
2. *Lifecycle* with overlapping activities, and `loadProg` on the UI thread (binio.c).
3. The statistics of `schedule` themselves, with the rollover between two of them.
4. What a clock with longs of 64 bits does show: how far behind it falls.

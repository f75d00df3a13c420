----------------------------- MODULE Lifecycle -----------------------------
(***************************************************************************)
(* Android creates and destroys the activity X48; every creation starts an *)
(* emulator thread and every destruction tries to end it (X48.java,        *)
(* EmulatorThread.java, main.c).  All of native memory is shared: there is *)
(* one exit_state, one got_alarm, one condition variable and one `saturn'  *)
(* in the process, which outlives the activity.                            *)
(*                                                                         *)
(* What the emulated program does is left out but for SHUTDN, in which an  *)
(* emulator thread blocks until the timer of a resumed activity signals.   *)
(* (Shutdown is the detailed account of that.)                             *)
(*                                                                         *)
(* Assumed of Android: callbacks of one activity come in their documented  *)
(* order, one activity is destroyed before the next is created, and the    *)
(* native library is loaded before the activity is destroyed.              *)
(***************************************************************************)
EXTENDS Integers, FiniteSets

CONSTANT MaxThreads   \* bound on the emulator threads ever started

ASSUME LifecycleAssumption == MaxThreads \in Nat \ {0}

Thread == 1 .. MaxThreads

NoThread == 0

VARIABLES
    activity,      \* "absent", "created", "resumed", "paused", or "exiting" in thread.exit()
    loaded,        \* has the activity seen the native library loaded?
    need_to_quit,  \* "reset memory" was chosen from the menu
    thread,        \* X48.thread: the emulator thread started last
    timer,         \* X48.SIGALRM: does it tick?
    exit_state,
    got_alarm,
    emu,           \* what each emulator thread is at
    gaveUp         \* history: has a join() run into its time limit?

java == <<activity, loaded, need_to_quit, thread, timer>>

vars == <<java, exit_state, got_alarm, emu, gaveUp>>

\* none      not created
\* new       started, startHPEmulator not yet reached
\* run       in the loop of emulate
\* wait      in blockConditionVariable, called by do_shutdown
\* woken     back from it
\* left      emulate has returned, the loop of startHPEmulator has not looked
\* done      returned from startHPEmulator
EmuState == {"none", "new", "run", "wait", "woken", "left", "done"}

Alive == {t \in Thread : emu[t] \notin {"none", "done"}}

Waiting == {t \in Thread : emu[t] = "wait"}

Init ==
    /\ activity = "absent"
    /\ loaded = FALSE
    /\ need_to_quit = FALSE
    /\ thread = NoThread
    /\ timer = FALSE
    /\ exit_state = TRUE
    /\ got_alarm = FALSE
    /\ emu = [t \in Thread |-> "none"]
    /\ gaveUp = FALSE

----------------------------------------------------------------------------
(* The UI thread.                                                          *)

onCreate ==
    /\ activity = "absent"
    /\ \E t \in Thread : emu[t] = "none"   \* the bound
    /\ activity' = "created"
    /\ loaded' = FALSE
    /\ need_to_quit' = FALSE
    /\ UNCHANGED <<thread, timer, exit_state, got_alarm, emu, gaveUp>>

\* Posted to the UI thread when the native library has been loaded; until then
\* X48.thread is the thread of the activity before.
readyToGo ==
    /\ activity \in {"created", "resumed", "paused"}
    /\ ~loaded
    /\ loaded' = TRUE
    /\ \E t \in Thread :
          /\ emu[t] = "none"
          /\ thread' = t
          /\ emu' = [emu EXCEPT ![t] = "new"]
    /\ UNCHANGED <<activity, need_to_quit, timer, exit_state, got_alarm, gaveUp>>

\* Mutant: a timer cancelled by onPause is not started again.
ResumeOnce ==
    /\ activity \in {"created", "paused"}
    /\ activity' = "resumed"
    /\ timer' = (activity = "created")
    /\ UNCHANGED <<loaded, need_to_quit, thread, exit_state, got_alarm, emu, gaveUp>>

onResume ==
    /\ activity \in {"created", "paused"}
    /\ activity' = "resumed"
    /\ timer' = TRUE
    /\ UNCHANGED <<loaded, need_to_quit, thread, exit_state, got_alarm, emu, gaveUp>>

onPause ==
    /\ activity = "resumed"
    /\ activity' = "paused"
    /\ timer' = FALSE
    /\ UNCHANGED <<loaded, need_to_quit, thread, exit_state, got_alarm, emu, gaveUp>>

\* The menu item "reset memory".
ResetMemory ==
    /\ activity = "resumed"
    /\ need_to_quit' = TRUE
    /\ UNCHANGED <<activity, loaded, thread, timer, exit_state, got_alarm, emu, gaveUp>>

\* Mutant: onDestroy stops the thread and does not wait for it.
DestroyWithoutJoin ==
    /\ activity = "paused"
    /\ loaded
    /\ activity' = "absent"
    /\ exit_state' = FALSE
    /\ UNCHANGED <<loaded, need_to_quit, thread, timer, got_alarm, emu, gaveUp>>

\* thread.exit() up to the join: stopHPEmulator, which signals nobody.
onDestroy ==
    /\ activity = "paused"
    /\ loaded
    /\ activity' = "exiting"
    /\ exit_state' = FALSE
    /\ UNCHANGED <<loaded, need_to_quit, thread, timer, got_alarm, emu, gaveUp>>

\* onDestroy behind thread.exit(): with need_to_quit the process ends, and a
\* later launch starts from nothing.
Destroyed(hasGivenUp) ==
    /\ activity' = "absent"
    /\ loaded' = FALSE
    /\ need_to_quit' = FALSE
    /\ timer' = FALSE
    /\ IF need_to_quit
         THEN /\ thread' = NoThread
              /\ exit_state' = TRUE
              /\ got_alarm' = FALSE
              /\ emu' = [t \in Thread |-> "none"]
              /\ gaveUp' = FALSE
         ELSE /\ gaveUp' = (gaveUp \/ hasGivenUp)
              /\ UNCHANGED <<thread, exit_state, got_alarm, emu>>

Joined ==
    /\ activity = "exiting"
    /\ emu[thread] = "done"
    /\ Destroyed(FALSE)

\* Mutant: join() without a limit.
NeverTimesOut == FALSE

\* Five seconds of sleep and one of join() are ample for a thread that can go
\* on: they run out only on one that is blocked or was given no reason to end.
JoinTimesOut ==
    /\ activity = "exiting"
    /\ emu[thread] = "wait" \/ (exit_state /\ thread \in Alive)
    /\ Destroyed(TRUE)

----------------------------------------------------------------------------
(* The timer thread: SIGALRM, which releases one waiting thread.           *)

Tick ==
    /\ timer
    /\ thread # NoThread
    /\ got_alarm' = TRUE
    /\ IF Waiting = {} THEN UNCHANGED emu
                       ELSE \E t \in Waiting : emu' = [emu EXCEPT ![t] = "woken"]
    /\ UNCHANGED <<java, exit_state, gaveUp>>

----------------------------------------------------------------------------
(* The emulator threads.                                                   *)

Goes(t, from, to) ==
    /\ emu[t] = from
    /\ emu' = [emu EXCEPT ![t] = to]
    /\ UNCHANGED <<java, gaveUp>>

startHPEmulator(t) ==
    /\ exit_state' = TRUE
    /\ UNCHANGED got_alarm
    /\ Goes(t, "new", "run")

\* One round of the loop of emulate, with or without the alarm in schedule.
Iterate(t) ==
    /\ got_alarm' \in {got_alarm, FALSE}
    /\ UNCHANGED exit_state
    /\ Goes(t, "run", IF exit_state THEN "run" ELSE "left")

Shutdn(t) ==
    /\ UNCHANGED <<exit_state, got_alarm>>
    /\ Goes(t, "run", "wait")

SpuriousWakeup(t) ==
    /\ UNCHANGED <<exit_state, got_alarm>>
    /\ Goes(t, "wait", "woken")

\* The loop of do_shutdown: an alarm may end it, and so does exit_state.
BackToSleep(t) ==
    /\ exit_state
    /\ got_alarm' = FALSE
    /\ UNCHANGED exit_state
    /\ Goes(t, "woken", "wait")

WakeUp(t) ==
    /\ got_alarm \/ ~exit_state
    /\ got_alarm' = FALSE
    /\ UNCHANGED exit_state
    /\ Goes(t, "woken", IF exit_state THEN "run" ELSE "left")

\* The loop of startHPEmulator around emulate.
LookAgain(t) ==
    /\ UNCHANGED <<exit_state, got_alarm>>
    /\ Goes(t, "left", IF exit_state THEN "run" ELSE "done")

Emulate(t) ==
    startHPEmulator(t) \/ Iterate(t) \/ BackToSleep(t) \/ WakeUp(t) \/ LookAgain(t)

UIThread ==
    onCreate \/ readyToGo \/ onResume \/ onPause \/ ResetMemory \/ onDestroy

Exit == Joined \/ JoinTimesOut

Next ==
    \/ UIThread \/ Exit \/ Tick
    \/ \E t \in Thread : Emulate(t) \/ Shutdn(t) \/ SpuriousWakeup(t)

\* Threads that can go on do; the timer ticks while it is on; the join ends.  The
\* user owes the activity nothing, and the program need not execute SHUTDN.
Fairness ==
    /\ WF_vars(Exit)
    /\ WF_vars(readyToGo)
    /\ WF_vars(Tick)
    /\ \A t \in Thread : WF_vars(Emulate(t))

Spec == Init /\ [][Next]_vars /\ Fairness

----------------------------------------------------------------------------
(* Properties.                                                             *)

\* The types; and the timer ticks exactly while the activity is resumed.
TypeOK ==
    /\ activity \in {"absent", "created", "resumed", "paused", "exiting"}
    /\ thread \in Thread \cup {NoThread}
    /\ {loaded, need_to_quit, timer, exit_state, got_alarm, gaveUp} \subseteq BOOLEAN
    /\ emu \in [Thread -> EmuState]
    /\ timer <=> activity = "resumed"

\* The join in onDestroy is all that keeps two emulators from running on one
\* `saturn': as long as none has run into its limit, at most one is alive, however
\* often the activity is destroyed and created again, and although a thread sets
\* exit_state only after it was started.
OneEmulator == ~gaveUp => Cardinality(Alive) <= 1

\* A program asleep in SHUTDN is looked after while the activity stays resumed,
\* whatever pauses, destructions and creations came before: its thread is woken.
SleeperWakes ==
    \A t \in Thread :
        emu[t] = "wait" /\ activity = "resumed" /\ ~gaveUp
            ~> emu[t] # "wait" \/ activity # "resumed"

\* Destroying the activity ends, whatever the emulator thread is at: the UI
\* thread does not wait for good for a thread that waits for the UI's timer.
DestroyReturns == activity = "exiting" ~> activity = "absent"

\* EmulatorThread.exit logs "joined" behind its join: then no emulator thread is
\* left of the activity.
JoinedMeansStopped == activity = "absent" => Alive = {}
=============================================================================

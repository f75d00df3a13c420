-------------------------- MODULE Lifecycle_proofs --------------------------
(***************************************************************************)
(* OneEmulator, for any number of activities and threads.                  *)
(***************************************************************************)
EXTENDS Lifecycle, FiniteSetTheorems, TLAPS

\* The inductive invariant: as long as no join has given up, only the thread started last may
\* be alive, and none is before the activity has started one of its own or behind its
\* destruction.
OnlyLast ==
    /\ Alive \subseteq {thread}
    /\ activity = "absent" \/ ~loaded => Alive = {}

IInv ==
    /\ thread \in Thread \cup {NoThread}
    /\ emu \in [Thread -> EmuState]
    /\ activity = "exiting" => loaded
    /\ loaded => thread \in Thread
    /\ ~gaveUp => OnlyLast

LEMMA InitIInv == Init => IInv
BY DEF Init, IInv, OnlyLast, Alive, EmuState

\* What leaves the emulator threads alone and starts no activity leaves IInv alone.
LEMMA SameThreads ==
    ASSUME IInv, UNCHANGED <<thread, emu, gaveUp, loaded>>,
           activity' = activity \/ (activity' # "absent" /\ (activity' = "exiting" => loaded))
    PROVE  IInv'
BY DEF IInv, OnlyLast, Alive

\* A step of a thread that is alive brings no other to life.
LEMMA ThreadGoes ==
    ASSUME IInv, UNCHANGED <<java, gaveUp>>, NEW t \in Thread, t \in Alive,
           NEW to \in EmuState, emu' = [emu EXCEPT ![t] = to]
    PROVE  IInv'
<1>1. emu' \in [Thread -> EmuState]
  BY DEF IInv
<1>2. Alive' \subseteq Alive
  BY DEF IInv, Alive
<1> QED BY <1>1, <1>2 DEF IInv, OnlyLast, java

LEMMA NextIInv == IInv /\ [Next]_vars => IInv'
<1> SUFFICES ASSUME IInv, [Next]_vars PROVE IInv'
  OBVIOUS
<1>1. CASE onCreate
  <2>1. UNCHANGED <<thread, emu, gaveUp>> /\ activity' = "created" /\ loaded' = FALSE
        /\ activity = "absent"
    BY <1>1 DEF onCreate
  <2> QED BY <2>1 DEF IInv, OnlyLast, Alive
<1>2. CASE readyToGo
  <2>1. PICK t \in Thread : emu[t] = "none" /\ thread' = t /\ emu' = [emu EXCEPT ![t] = "new"]
    BY <1>2 DEF readyToGo
  <2>2. ~loaded /\ loaded' = TRUE /\ UNCHANGED gaveUp
        /\ activity \in {"created", "resumed", "paused"} /\ activity' = activity
    BY <1>2 DEF readyToGo
  <2>3. emu' \in [Thread -> EmuState]
    BY <2>1 DEF IInv, EmuState
  <2>4. ASSUME ~gaveUp
        PROVE  Alive' \subseteq {t}
    <3>1. Alive = {}
      BY <2>2, <2>4 DEF IInv, OnlyLast
    <3> QED BY <2>1, <3>1 DEF IInv, Alive
  <2> QED BY <2>1, <2>2, <2>3, <2>4 DEF IInv, OnlyLast
<1>3. CASE onResume \/ onPause \/ ResetMemory \/ onDestroy
  BY <1>3, SameThreads DEF onResume, onPause, ResetMemory, onDestroy
<1>4. ASSUME NEW late \in BOOLEAN, activity = "exiting", Destroyed(late),
             late \/ emu[thread] = "done"
      PROVE  IInv'
  <2>1. CASE need_to_quit
    BY <1>4, <2>1 DEF Destroyed, IInv, OnlyLast, Alive, EmuState
  <2>2. CASE ~need_to_quit
    <3>1. /\ UNCHANGED <<thread, emu>> /\ gaveUp' = (gaveUp \/ late)
          /\ activity' = "absent" /\ loaded' = FALSE
      BY <1>4, <2>2 DEF Destroyed
    <3>2. ASSUME ~gaveUp'
          PROVE  Alive = {}
      <4>1. ~gaveUp /\ emu[thread] = "done"
        BY <1>4, <3>1, <3>2
      <4>2. Alive \subseteq {thread} /\ thread \notin Alive
        BY <4>1 DEF IInv, OnlyLast, Alive
      <4> QED BY <4>2
    <3> QED BY <3>1, <3>2 DEF IInv, OnlyLast, Alive
  <2> QED BY <2>1, <2>2
<1>5. CASE Exit
  BY <1>4, <1>5 DEF Exit, Joined, JoinTimesOut
<1>6. CASE Tick
  <2>1. UNCHANGED <<java, gaveUp>>
    BY <1>6 DEF Tick
  <2>2. CASE UNCHANGED emu
    BY <2>1, <2>2, SameThreads DEF java
  <2>3. CASE ~UNCHANGED emu
    <3>1. PICK t \in Waiting : emu' = [emu EXCEPT ![t] = "woken"]
      BY <1>6, <2>3 DEF Tick
    <3>2. t \in Thread /\ t \in Alive
      BY <3>1 DEF Waiting, Alive
    <3> QED BY <2>1, <3>1, <3>2, ThreadGoes DEF EmuState
  <2> QED BY <2>2, <2>3
<1>7. ASSUME NEW t \in Thread, NEW from \in EmuState \ {"none", "done"}, NEW to \in EmuState,
             Goes(t, from, to)
      PROVE  IInv'
  <2>1. t \in Alive
    BY <1>7 DEF Goes, Alive
  <2> QED BY <1>7, <2>1, ThreadGoes DEF Goes
<1>8. ASSUME NEW t \in Thread, Emulate(t) \/ Shutdn(t) \/ SpuriousWakeup(t)
      PROVE  IInv'
  BY <1>7, <1>8 DEF Emulate, startHPEmulator, Iterate, BackToSleep, WakeUp, LookAgain, Shutdn,
                    SpuriousWakeup, EmuState
<1>9. CASE UNCHANGED vars
  BY <1>9, SameThreads DEF vars, java
<1> QED BY <1>1, <1>2, <1>3, <1>5, <1>6, <1>8, <1>9 DEF Next, UIThread

\* The join of onDestroy keeps two emulators from running on one `saturn', as long as none has
\* run into its limit (EmulatorThread.java, exit; X48.java, onDestroy).
THEOREM OnlyOneEmulator == Spec => []OneEmulator
<1>1. IInv => OneEmulator
  <2> SUFFICES ASSUME IInv, ~gaveUp PROVE Cardinality(Alive) <= 1
    BY DEF OneEmulator
  <2>1. Alive \subseteq {thread}
    BY DEF IInv, OnlyLast
  <2>2. IsFiniteSet({thread}) /\ Cardinality({thread}) = 1
    BY FS_Singleton
  <2>3. Cardinality(Alive) <= Cardinality({thread})
    BY <2>1, <2>2, FS_Subset
  <2> QED BY <2>2, <2>3
<1> QED BY <1>1, InitIInv, NextIInv, PTL DEF Spec
=============================================================================

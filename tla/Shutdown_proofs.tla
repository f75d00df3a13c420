-------------------------- MODULE Shutdown_proofs --------------------------
(***************************************************************************)
(* What SHUTDN leaves of the processor, for every depth of the return      *)
(* stack, every program, every keyboard and every setting of the timers.   *)
(***************************************************************************)
EXTENDS Shutdown, TLAPS

USE ReturnStackAssumption, SaturnIntAssumption
    DEF ReturnStackAssumption, SaturnIntAssumption

----------------------------------------------------------------------------
(* What the operators of the interrupt system do to a processor.            *)

\* A push keeps a processor well formed, and the key that waits.
LEMMA PushKeepsKey ==
    ASSUME NEW s \in Cpu, NEW a \in Addr
    PROVE  LET t == push_return_addr(s, a)
           IN  t \in Cpu /\ t.int_pending = s.int_pending
<1> DEFINE top  == IF Full(s) THEN s.rstkp ELSE s.rstkp + 1
           base == IF Full(s) THEN Shifted(s.rstk) ELSE s.rstk
<1>1. top \in Slot /\ top \in StackPointer
  BY DEF Cpu, Full, Slot, StackPointer
<1>2. base \in [Slot -> Addr]
  BY DEF Cpu, Shifted, Slot
<1>3. push_return_addr(s, a) = [s EXCEPT !.rstkp = top, !.rstk = [base EXCEPT ![top] = a]]
  BY DEF push_return_addr
<1> HIDE DEF top, base
<1> QED BY <1>1, <1>2, <1>3 DEF Cpu

\* Interrupt entry is a push of PC, a jump to the vector, and interrupts off.
LEMMA EnterFields ==
    ASSUME NEW s \in Cpu
    PROVE  LET t == enter_interrupt(s)
           IN  /\ t \in Cpu
               /\ t.PC = IntVector
               /\ t.intenable = FALSE
               /\ t.int_pending = s.int_pending
               /\ t.rstk = push_return_addr(s, s.PC).rstk
               /\ t.rstkp = push_return_addr(s, s.PC).rstkp
<1>1. s.PC \in Addr
  BY DEF Cpu
<1>2. push_return_addr(s, s.PC) \in Cpu
      /\ push_return_addr(s, s.PC).int_pending = s.int_pending
  BY <1>1, PushKeepsKey
<1> HIDE DEF push_return_addr
<1> QED
  BY <1>2 DEF enter_interrupt, Cpu

\* A device that requests an interrupt gets it or is forgotten.
LEMMA InterruptFields ==
    ASSUME NEW s \in Cpu
    PROVE  LET t == do_interupt(s)
           IN  /\ t \in Cpu
               /\ ~t.intenable /\ t.int_pending = s.int_pending
               /\ ~s.intenable => t = s
  BY EnterFields DEF do_interupt

\* A key gets it or waits.
LEMMA KeyFields ==
    ASSUME NEW s \in Cpu
    PROVE  LET t == do_kbd_int(s)
           IN  /\ t \in Cpu
               /\ ~t.intenable
               /\ s.intenable => t = enter_interrupt(s)
               /\ ~s.intenable => /\ t.PC = s.PC /\ t.rstk = s.rstk /\ t.rstkp = s.rstkp
  BY EnterFields DEF do_kbd_int, Cpu

\* RTI goes to an address, and leaves a key waiting for nobody.
LEMMA ReturnFields ==
    ASSUME NEW s \in Cpu
    PROVE  LET t == do_return_interupt(s)
           IN  t \in Cpu /\ ~t.int_pending
<1>1. CASE s.int_pending
  BY <1>1 DEF do_return_interupt, Cpu
<1>2. CASE ~s.int_pending
  <2> DEFINE p == pop_return_addr(s)
             a == top_return_addr(s)
  <2>1. p \in Cpu /\ p.int_pending = FALSE
    BY <1>2 DEF pop_return_addr, Cpu, StackPointer
  <2>3. a \in Addr
    BY DEF top_return_addr, Cpu, Slot, StackPointer
  <2>2. do_return_interupt(s) = [p EXCEPT !.PC = a, !.intenable = TRUE]
    BY <1>2 DEF do_return_interupt
  <2> HIDE DEF p, a
  <2> QED BY <2>1, <2>2, <2>3 DEF Cpu
<1> QED BY <1>1, <1>2 DEF Cpu

----------------------------------------------------------------------------
(* Sleeping.                                                               *)

\* A key waits only for an RTI.
NonePending(c) == c.intenable => ~c.int_pending

\* The inductive invariant.
IInv ==
    /\ cpu \in Cpu /\ NonePending(cpu)
    /\ AsleepUntouched

LEMMA InitIInv == Init => IInv
BY DEF Init, IInv, InitCpu, Cpu, NonePending, AsleepUntouched, Asleep, Slot, StackPointer

LEMMA InterruptSettles ==
    ASSUME NEW c \in Cpu, NonePending(c)
    PROVE  do_interupt(c) \in Cpu /\ NonePending(do_interupt(c))
BY InterruptFields DEF NonePending

LEMMA KeySettles ==
    ASSUME NEW c \in Cpu, NonePending(c)
    PROVE  do_kbd_int(c) \in Cpu /\ NonePending(do_kbd_int(c))
BY KeyFields DEF NonePending

LEMMA ExpireSettles ==
    ASSUME NEW c \in Cpu, NonePending(c), NEW request \in BOOLEAN
    PROVE  Expire(c, request) \in Cpu /\ NonePending(Expire(c, request))
BY InterruptSettles DEF Expire

\* One alarm: the interrupts it brings, and whether it wakes the processor.
LEMMA AlarmKeeps ==
    ASSUME IInv, HandleAlarm
    PROVE  /\ cpu' \in Cpu /\ NonePending(cpu')
           /\ thread' \in {"check", "enter"}
           /\ thread' = "enter" => cpu' = cpu /\ slept' = slept
<1> DEFINE keyInt == poll_interrupts(kbd, cpu.kbd_ien)
           a == IF keyInt THEN do_kbd_int(cpu) ELSE cpu
<1>1. PICK t1Expired \in BOOLEAN, t2Expired \in BOOLEAN, received \in BOOLEAN :
        LET t1 == IF t1Expired THEN t1_ctrl ELSE {}
            t2 == IF t2Expired THEN t2_ctrl ELSE {}
            t1Int == t1 \cap {INT, LOW} # {}
            t2Int == INT \in t2
            wake == Wakes(keyInt, t1, t2)
        IN  /\ cpu' = Expire(Expire(Expire(a, t2Int), t1Int), ~wake /\ received)
            /\ thread' = IF wake \/ received THEN "check" ELSE LoopAgain
            /\ SleptUntil(thread')
  BY DEF HandleAlarm
<1> DEFINE t1 == IF t1Expired THEN t1_ctrl ELSE {}
           t2 == IF t2Expired THEN t2_ctrl ELSE {}
           t1Int == t1 \cap {INT, LOW} # {}
           t2Int == INT \in t2
           wake == Wakes(keyInt, t1, t2)
           c2 == Expire(a, t2Int)
           c1 == Expire(c2, t1Int)
           c0 == Expire(c1, ~wake /\ received)
<1>2. a \in Cpu /\ NonePending(a)
  BY KeySettles DEF IInv
<1>3. c2 \in Cpu /\ NonePending(c2)
  <2>1. t2Int \in BOOLEAN
    OBVIOUS
  <2> HIDE DEF a, t2Int
  <2> QED BY <1>2, <2>1, ExpireSettles
<1>4. c1 \in Cpu /\ NonePending(c1)
  BY <1>3, ExpireSettles
<1>5. c0 \in Cpu /\ NonePending(c0)
  BY <1>4, ExpireSettles
<1>6. thread' \in {"check", "enter"}
  BY <1>1 DEF LoopAgain
<1>7. ASSUME thread' = "enter"
      PROVE  cpu' = cpu /\ slept' = slept
  <2>1. ~wake /\ ~received
    BY <1>1, <1>7
  <2>2. ~keyInt /\ ~t1Int /\ ~t2Int
    BY <2>1 DEF Wakes
  <2>3. c0 = cpu
    BY <2>1, <2>2 DEF Expire
  <2>4. cpu' = c0
    BY <1>1
  <2>5. slept' = slept
    BY <1>1, <1>7 DEF SleptUntil
  <2> QED BY <2>3, <2>4, <2>5
<1> QED BY <1>1, <1>5, <1>6, <1>7

LEMMA NextIInv == IInv /\ [Next]_vars => IInv'
<1> SUFFICES ASSUME IInv, [Next]_vars PROVE IInv'
  OBVIOUS
<1>1. cpu \in Cpu /\ NonePending(cpu) /\ (Asleep => cpu = slept)
  BY DEF IInv, AsleepUntouched
<1>2. ASSUME UNCHANGED <<cpu, slept>>, Asleep' => Asleep
      PROVE  IInv'
  BY <1>1, <1>2 DEF IInv, AsleepUntouched, NonePending
<1>3. ASSUME cpu' \in Cpu, NonePending(cpu'), ~Asleep'
      PROVE  IInv'
  BY <1>3 DEF IInv, AsleepUntouched, NonePending
<1>4. CASE UIThread
  BY <1>2, <1>4 DEF UIThread, onPause, onResume, stopHPEmulator, PressKey, ReleaseKey, Asleep
<1>5. CASE TimerThread
  BY <1>2, <1>5 DEF TimerThread, SetAlarm, Signal, Asleep
<1>6. CASE Execute
  <2>1. ~Asleep'
    BY <1>6 DEF Execute, Asleep
  <2>2. CASE Rti
    BY <1>1, <1>3, <2>1, <2>2, ReturnFields DEF Rti, NonePending
  <2>3. CASE Rsi
    <3> DEFINE on == [cpu EXCEPT !.kbd_ien = TRUE]
    <3>1. on \in Cpu /\ NonePending(on)
      BY <1>1 DEF Cpu, NonePending
    <3>2. cpu' = on \/ cpu' = do_kbd_int(on)
      BY <2>3 DEF Rsi, do_reset_interrupt_system
    <3> HIDE DEF on
    <3> QED BY <1>3, <2>1, <3>1, <3>2, KeySettles
  <2>4. CASE IntOn \/ IntOff \/ Jump
    BY <1>1, <1>3, <2>1, <2>4 DEF IntOn, IntOff, Jump, Cpu, NonePending
  <2> QED BY <1>6, <2>2, <2>3, <2>4 DEF Execute
<1>7. CASE WriteTimerCtrl \/ EndIteration
  BY <1>2, <1>7 DEF WriteTimerCtrl, EndIteration, Asleep
<1>8. CASE PollKeys
  <2>1. ~Asleep'
    BY <1>8 DEF PollKeys, BehindInstruction, Asleep
  <2>2. cpu' = cpu \/ cpu' = do_kbd_int(cpu)
    BY <1>8 DEF PollKeys
  <2> QED BY <1>1, <1>3, <2>1, <2>2, KeySettles
<1>9. CASE TimerInterrupt
  <2>1. ~Asleep' /\ cpu' = do_interupt(cpu)
    BY <1>9 DEF TimerInterrupt, BehindInstruction, Asleep
  <2> QED BY <1>1, <1>3, <2>1, InterruptSettles
<1>10. CASE Shutdn
  <2>1. PICK next \in Addr, outIsZero \in BOOLEAN :
          cpu' = shutdown_entry([cpu EXCEPT !.PC = next], outIsZero)
    BY <1>10 DEF Shutdn
  <2>2. cpu' \in Cpu /\ NonePending(cpu')
    BY <1>1, <2>1 DEF shutdown_entry, Cpu, NonePending
  <2>3. slept' = cpu'
    BY <1>10 DEF Shutdn
  <2> QED BY <2>2, <2>3 DEF IInv, AsleepUntouched, NonePending
<1>11. CASE Wait \/ SpuriousWakeup
  BY <1>2, <1>11 DEF Wait, SpuriousWakeup, Asleep
<1>12. CASE HandleAlarm
  <2>1. Asleep
    BY <1>12 DEF HandleAlarm, Asleep
  <2> QED BY <1>1, <1>12, <2>1, AlarmKeeps DEF IInv, AsleepUntouched, Asleep, NonePending
<1>13. CASE NoAlarm
  <2>1. Asleep /\ cpu' = cpu
    BY <1>13 DEF NoAlarm, Asleep
  <2>2. thread' = "check" \/ slept' = slept
    BY <1>13 DEF NoAlarm, SleptUntil
  <2> QED BY <1>1, <2>1, <2>2 DEF IInv, AsleepUntouched, Asleep, NonePending
<1>14. CASE Terminated \/ UNCHANGED vars
  BY <1>2, <1>14 DEF Terminated, vars, Asleep
<1> QED BY <1>4, <1>5, <1>6, <1>7, <1>8, <1>9, <1>10, <1>11, <1>12, <1>13, <1>14
           DEF Next, Instruction, InShutdn

\* No alarm, key, timer, lost signal or spurious wakeup leaves the processor changed and in
\* SHUTDN (actions.c, do_shutdown; main.c, blockConditionVariable).
THEOREM SleepsUntouched == Spec => []AsleepUntouched
<1>1. IInv => AsleepUntouched
  BY DEF IInv
<1> QED BY <1>1, InitIInv, NextIInv, PTL DEF Spec

----------------------------------------------------------------------------
(* How SHUTDN ends.                                                        *)

\* What requests make of a processor that slept with interrupts enabled.
AtMostOnce(c) == c = cpu \/ c = enter_interrupt(cpu)

LEMMA ExpireOnce ==
    ASSUME cpu \in Cpu, cpu.intenable, NEW c, AtMostOnce(c), NEW request \in BOOLEAN
    PROVE  AtMostOnce(Expire(c, request))
<1>1. do_interupt(cpu) = enter_interrupt(cpu)
  BY DEF do_interupt
<1>2. do_interupt(enter_interrupt(cpu)) = enter_interrupt(cpu)
  BY EnterFields DEF do_interupt
<1> QED BY <1>1, <1>2 DEF AtMostOnce, Expire

\* With interrupts disabled no device gets anything.
LEMMA ExpireNever ==
    ASSUME NEW c \in Cpu, ~c.intenable, NEW request \in BOOLEAN
    PROVE  Expire(c, request) = c
BY DEF Expire, do_interupt

LEMMA AlarmWakesOnce ==
    ASSUME IInv, HandleAlarm
    PROVE  \/ cpu.intenable /\ AtMostOnce(cpu')
           \/ /\ ~cpu.intenable
              /\ cpu' = cpu \/ cpu' = do_kbd_int(cpu)
<1> DEFINE a == IF poll_interrupts(kbd, cpu.kbd_ien) THEN do_kbd_int(cpu) ELSE cpu
<1>1. PICK i1 \in BOOLEAN, i2 \in BOOLEAN, i3 \in BOOLEAN :
        cpu' = Expire(Expire(Expire(a, i1), i2), i3)
  <2> DEFINE t1(expired) == IF expired THEN t1_ctrl ELSE {}
             t2(expired) == IF expired THEN t2_ctrl ELSE {}
             t2Int(y) == INT \in t2(y)
             t1Int(x) == t1(x) \cap {INT, LOW} # {}
             last(x, y, z) ==
               ~Wakes(poll_interrupts(kbd, cpu.kbd_ien), t1(x), t2(y)) /\ z
  <2>1. PICK x \in BOOLEAN, y \in BOOLEAN, z \in BOOLEAN :
          cpu' = Expire(Expire(Expire(a, t2Int(y)), t1Int(x)), last(x, y, z))
    BY DEF HandleAlarm
  <2>2. t2Int(y) \in BOOLEAN /\ t1Int(x) \in BOOLEAN /\ last(x, y, z) \in BOOLEAN
    OBVIOUS
  <2> HIDE DEF a, t1Int, t2Int, last
  <2> QED BY <2>1, <2>2
<1>2. cpu \in Cpu /\ (a = cpu \/ a = do_kbd_int(cpu))
  BY DEF IInv
<1> HIDE DEF a
<1>3. CASE cpu.intenable
  <2>1. AtMostOnce(a)
    BY <1>2, <1>3 DEF AtMostOnce, do_kbd_int
  <2>2. AtMostOnce(Expire(a, i1))
    BY <1>2, <1>3, <2>1, ExpireOnce
  <2>3. AtMostOnce(Expire(Expire(a, i1), i2))
    BY <1>2, <1>3, <2>2, ExpireOnce
  <2>4. AtMostOnce(cpu')
    BY <1>1, <1>2, <1>3, <2>3, ExpireOnce
  <2> QED BY <1>3, <2>4
<1>4. CASE ~cpu.intenable
  <2>1. a \in Cpu /\ ~a.intenable
    BY <1>2, <1>4, KeyFields
  <2>2. cpu' = a
    BY <1>1, <2>1, ExpireNever
  <2> QED BY <1>2, <1>4, <2>2
<1> QED BY <1>3, <1>4

\* SHUTDN ends with one entry of the handler and one address pushed, however many keys, timers
\* and received bytes asked at the same alarm, or with the stack as it was (actions.c,
\* do_shutdown and do_interupt).
THEOREM WakesUpOnce == Spec => WakesOnce
<1> DEFINE Once ==
      thread = "woken" /\ thread' = "check"
      => \/ /\ slept.intenable
            /\ cpu'.PC = IntVector
            /\ ~cpu'.intenable
            /\ ~cpu'.int_pending
            /\ cpu'.rstk = push_return_addr(slept, slept.PC).rstk
            /\ cpu'.rstkp = push_return_addr(slept, slept.PC).rstkp
         \/ /\ cpu'.PC = slept.PC
            /\ cpu'.intenable = slept.intenable
            /\ cpu'.rstk = slept.rstk
            /\ cpu'.rstkp = slept.rstkp
<1>1. ASSUME IInv, [Next]_vars, thread = "woken", thread' = "check"
      PROVE  Once
  <2>1. cpu \in Cpu /\ NonePending(cpu) /\ slept = cpu
    BY <1>1 DEF IInv, AsleepUntouched, Asleep
  <2>2. HandleAlarm \/ NoAlarm
    BY <1>1 DEF Next, vars, Terminated, UIThread, onPause, onResume, stopHPEmulator, PressKey, ReleaseKey,
                TimerThread, SetAlarm,
                Signal, Instruction, Execute, WriteTimerCtrl, Shutdn, AtInstruction, PollKeys,
                TimerInterrupt, EndIteration, BehindInstruction, InShutdn, Wait, SpuriousWakeup
  <2>3. ASSUME cpu' = cpu
        PROVE  Once
    BY <2>1, <2>3
  <2>4. ASSUME cpu' = enter_interrupt(cpu), cpu.intenable
        PROVE  Once
    BY <2>1, <2>4, EnterFields DEF NonePending
  <2>5. ASSUME cpu' = do_kbd_int(cpu), ~cpu.intenable
        PROVE  Once
    BY <2>1, <2>5, KeyFields DEF Cpu
  <2>6. CASE NoAlarm
    BY <2>3, <2>6 DEF NoAlarm
  <2>7. CASE HandleAlarm
    BY <1>1, <2>3, <2>4, <2>5, <2>7, AlarmWakesOnce DEF AtMostOnce
  <2> QED BY <2>2, <2>6, <2>7
<1>2. IInv /\ [Next]_vars => Once
  BY <1>1
<1>3. Spec => [][Once]_vars
  <2>1. IInv /\ [Next]_vars => [Once]_vars
    BY <1>2
  <2> HIDE DEF Once
  <2> QED BY <2>1, InitIInv, NextIInv, PTL DEF Spec
<1> QED BY <1>3 DEF WakesOnce
=============================================================================

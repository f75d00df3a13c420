--------------------------- MODULE Control_proofs ---------------------------
(***************************************************************************)
(* Proofs about Control, for every depth of the stack, every set of        *)
(* addresses and every program.  The inductive invariant IInv is preserved *)
(* action by action, over lemmas about the operators of ReturnStack and    *)
(* SaturnInt; the action properties and the refinement of CallStack follow *)
(* from it.                                                                *)
(***************************************************************************)
EXTENDS Control, SequenceTheorems, TLAPS

USE ReturnStackAssumption, SaturnIntAssumption
    DEF ReturnStackAssumption, SaturnIntAssumption

----------------------------------------------------------------------------
(* What the operators of the stack do to each field of a processor.         *)

\* A push keeps a processor well formed, changes nothing but the stack, and
\* leaves the address in the top slot.
LEMMA PushFields ==
    ASSUME NEW s \in Cpu, NEW a \in Addr
    PROVE  LET t == push_return_addr(s, a)
           IN  /\ t \in Cpu
               /\ t.PC = s.PC
               /\ t.intenable = s.intenable
               /\ t.int_pending = s.int_pending
               /\ t.kbd_ien = s.kbd_ien
               /\ t.rstkp = IF Full(s) THEN s.rstkp ELSE s.rstkp + 1
               /\ t.rstkp \in Slot
               /\ t.rstk[t.rstkp] = a
<1> DEFINE top  == IF Full(s) THEN s.rstkp ELSE s.rstkp + 1
           base == IF Full(s) THEN Shifted(s.rstk) ELSE s.rstk
           t    == push_return_addr(s, a)
<1>1. t = [s EXCEPT !.rstkp = top, !.rstk = [base EXCEPT ![top] = a]]
  BY DEF push_return_addr
<1>2. top \in Slot
  BY DEF Cpu, Full, Slot, StackPointer
<1>3. base \in [Slot -> Addr]
  BY DEF Cpu, Shifted, Slot
<1> HIDE DEF top, base, t
<1>4. [base EXCEPT ![top] = a] \in [Slot -> Addr]
  BY <1>2, <1>3
<1>5. top \in StackPointer
  BY <1>2 DEF Slot, StackPointer
<1>6. t \in Cpu
  BY <1>1, <1>4, <1>5 DEF Cpu
<1>7. t.rstk[t.rstkp] = a
  BY <1>1, <1>2, <1>3 DEF Cpu
<1> QED
  BY <1>1, <1>2, <1>6, <1>7 DEF t, top, Cpu

\* A push keeps every entry below the new top, one slot lower if it was full.
LEMMA PushKeeps ==
    ASSUME NEW s \in Cpu, NEW a \in Addr, NEW i \in Slot
    PROVE  LET t == push_return_addr(s, a)
           IN  /\ ~Full(s) /\ i <= s.rstkp => t.rstk[i] = s.rstk[i]
               /\ Full(s) /\ i > 0 => t.rstk[i - 1] = s.rstk[i]
<1> DEFINE t == push_return_addr(s, a)
<1>1. ASSUME ~Full(s), i <= s.rstkp
      PROVE  t.rstk[i] = s.rstk[i]
  <2>1. t.rstk = [s.rstk EXCEPT ![s.rstkp + 1] = a]
    BY <1>1 DEF push_return_addr, Cpu
  <2> QED
    BY <1>1, <2>1 DEF Cpu, Slot, StackPointer
<1>2. ASSUME Full(s), i > 0
      PROVE  t.rstk[i - 1] = s.rstk[i]
  <2>1. t.rstk = [Shifted(s.rstk) EXCEPT ![s.rstkp] = a]
    BY <1>2 DEF push_return_addr, Cpu
  <2>2. s.rstkp = NR_RSTK - 1 /\ i - 1 \in Slot /\ i - 1 # s.rstkp
    BY <1>2 DEF Cpu, Full, Slot, StackPointer
  <2>3. Shifted(s.rstk)[i - 1] = s.rstk[i]
    BY <2>2 DEF Shifted, Slot
  <2> QED
    BY <2>1, <2>2, <2>3 DEF Shifted
<1> QED
  BY <1>1, <1>2

\* A pop keeps a processor well formed and moves only the index.
LEMMA PopFields ==
    ASSUME NEW s \in Cpu
    PROVE  LET t == pop_return_addr(s)
           IN  /\ t \in Cpu
               /\ t.PC = s.PC
               /\ t.intenable = s.intenable
               /\ t.int_pending = s.int_pending
               /\ t.kbd_ien = s.kbd_ien
               /\ t.rstk = s.rstk
               /\ t.rstkp = IF s.rstkp < 0 THEN s.rstkp ELSE s.rstkp - 1
               /\ top_return_addr(s) \in Addr
<1> DEFINE index == IF s.rstkp < 0 THEN s.rstkp ELSE s.rstkp - 1
<1>1. s.rstkp \in StackPointer /\ s.rstk \in [Slot -> Addr]
  BY DEF Cpu
<1>2. index \in StackPointer
  BY <1>1 DEF StackPointer
<1>3. pop_return_addr(s) = [s EXCEPT !.rstkp = index]
  BY DEF pop_return_addr
<1>4. top_return_addr(s) \in Addr
  <2>1. s.rstkp < 0 \/ s.rstkp \in Slot
    BY <1>1 DEF StackPointer, Slot
  <2> QED
    BY <1>1, <2>1 DEF top_return_addr, StackPointer
<1> HIDE DEF index
<1>5. [s EXCEPT !.rstkp = index] \in Cpu
  BY <1>2 DEF Cpu
<1>6. [s EXCEPT !.rstkp = index].rstkp = index
  BY DEF Cpu
<1> QED
  BY <1>3, <1>4, <1>5, <1>6 DEF index, Cpu

\* Interrupt entry is a push of PC, a jump to the vector, and interrupts off.
LEMMA EnterFields ==
    ASSUME NEW s \in Cpu
    PROVE  LET t == enter_interrupt(s)
           IN  /\ t \in Cpu
               /\ t.PC = IntVector
               /\ t.intenable = FALSE
               /\ t.int_pending = s.int_pending
               /\ t.rstk = push_return_addr(s, s.PC).rstk
               /\ t.rstkp = push_return_addr(s, s.PC).rstkp
<1>1. s.PC \in Addr
  BY DEF Cpu
<1>2. push_return_addr(s, s.PC) \in Cpu
      /\ push_return_addr(s, s.PC).int_pending = s.int_pending
  BY <1>1, PushFields
<1> HIDE DEF push_return_addr
<1> QED
  BY <1>2 DEF enter_interrupt, Cpu

----------------------------------------------------------------------------
(* The history variable follows the stack.                                 *)

StackAs(s) == cpu'.rstk = s.rstk /\ cpu'.rstkp = s.rstkp

LEMMA FrameSame ==
    ASSUME FrameIntact, StackAs(cpu), UNCHANGED frame
    PROVE  FrameIntact'
  BY DEF FrameIntact, StackAs

LEMMA FrameEntered ==
    ASSUME NEW s \in Cpu, StackAs(push_return_addr(s, s.PC)), EnterFrame(s.PC)
    PROVE  frame' \in Frame /\ FrameIntact'
<1>1. s.PC \in Addr
  BY DEF Cpu
<1> DEFINE t == push_return_addr(s, s.PC)
<1>2. t.rstkp \in Slot /\ t.rstk[t.rstkp] = s.PC
  BY <1>1, PushFields
<1>3. cpu'.rstkp = t.rstkp /\ cpu'.rstk = t.rstk
  BY DEF StackAs
<1> HIDE DEF t
<1> QED
  BY <1>1, <1>2, <1>3 DEF EnterFrame, Frame, FrameIntact, StackPointer, Slot

LEMMA FramePushed ==
    ASSUME TypeOK, FrameIntact, NEW a \in Addr,
           StackAs(push_return_addr(cpu, a)), PushFrame
    PROVE  frame' \in Frame /\ FrameIntact'
<1>1. cpu \in Cpu /\ frame \in Frame
  BY DEF TypeOK
<1>2. cpu.rstkp \in StackPointer
  BY <1>1 DEF Cpu
<1>3. cpu'.rstkp = IF Full(cpu) THEN cpu.rstkp ELSE cpu.rstkp + 1
  BY <1>1, PushFields DEF StackAs
<1>4. CASE frame.at < 0 \/ (Full(cpu) /\ frame.at = 0)
  BY <1>1, <1>4 DEF PushFrame, NoFrame, Frame, FrameIntact, StackPointer
<1>5. CASE ~Full(cpu) /\ frame.at >= 0
  <2>1. frame.at \in Slot /\ frame.at <= cpu.rstkp
    BY <1>1, <1>2, <1>5 DEF Frame, FrameIntact, StackPointer, Slot
  <2>2. cpu'.rstk[frame.at] = cpu.rstk[frame.at]
    BY <1>1, <1>5, <2>1, PushKeeps DEF StackAs
  <2> QED
    BY <1>1, <1>2, <1>3, <1>5, <2>1, <2>2 DEF PushFrame, Frame, FrameIntact, StackPointer
<1>6. CASE Full(cpu) /\ frame.at > 0
  <2>1. frame.at \in Slot /\ frame.at <= cpu.rstkp
    BY <1>1, <1>2, <1>6 DEF Frame, FrameIntact, StackPointer, Slot
  <2>2. cpu'.rstk[frame.at - 1] = cpu.rstk[frame.at]
    BY <1>1, <1>6, <2>1, PushKeeps DEF StackAs
  <2>3. frame' = [frame EXCEPT !.at = frame.at - 1]
    BY <1>1, <1>6 DEF PushFrame, Frame, StackPointer
  <2> QED
    BY <1>1, <1>2, <1>3, <1>6, <2>1, <2>2, <2>3 DEF Frame, FrameIntact, StackPointer
<1> QED
  BY <1>1, <1>4, <1>5, <1>6 DEF Frame, StackPointer

LEMMA FramePopped ==
    ASSUME TypeOK, FrameIntact, StackAs(pop_return_addr(cpu)), PopFrame
    PROVE  frame' \in Frame /\ FrameIntact'
<1>1. cpu \in Cpu /\ frame \in Frame /\ cpu.rstkp \in StackPointer
  BY DEF TypeOK, Cpu
<1>2. /\ cpu'.rstk = cpu.rstk
      /\ cpu'.rstkp = IF cpu.rstkp < 0 THEN cpu.rstkp ELSE cpu.rstkp - 1
  BY <1>1, PopFields DEF StackAs
<1> QED
  BY <1>1, <1>2 DEF PopFrame, NoFrame, Frame, FrameIntact, StackPointer

----------------------------------------------------------------------------
(* The inductive invariant.  FrameIntact needs TypeOK for the indices, and  *)
(* the three parts are preserved together.                                  *)

IInv == TypeOK /\ PendingOnlyWhileDisabled /\ FrameIntact

LEMMA InitIInv == Init => IInv
<1> SUFFICES ASSUME Init
             PROVE  IInv
  OBVIOUS
<1>1. InitCpu \in Cpu
  BY DEF InitCpu, Cpu, Slot, StackPointer
<1>2. NoFrame \in Frame
  BY DEF NoFrame, Frame, StackPointer
<1>3. TypeOK
  BY <1>1, <1>2 DEF Init, TypeOK
<1>4. PendingOnlyWhileDisabled
  BY DEF Init, InitCpu, PendingOnlyWhileDisabled
<1>5. FrameIntact
  BY DEF Init, NoFrame, FrameIntact
<1> QED
  BY <1>3, <1>4, <1>5 DEF IInv

\* A request that is taken at once, whichever of the two handlers serves it.
LEMMA EnterStep ==
    ASSUME NEW s \in Cpu, s.int_pending => ~s.intenable, s.intenable,
           cpu' = enter_interrupt(s), EnterFrame(s.PC)
    PROVE  cpu' \in Cpu /\ frame' \in Frame /\ PendingOnlyWhileDisabled' /\ FrameIntact'
<1>1. /\ cpu' \in Cpu
      /\ cpu'.intenable = FALSE
      /\ StackAs(push_return_addr(s, s.PC))
  BY EnterFields DEF StackAs
<1> QED
  BY <1>1, FrameEntered DEF PendingOnlyWhileDisabled

LEMMA NextIInv == IInv /\ [Next]_vars => IInv'
<1> SUFFICES ASSUME IInv, [Next]_vars
             PROVE  IInv'
  OBVIOUS
<1> USE DEF IInv
<1>0. /\ cpu \in Cpu /\ C \in Addr /\ keydown \in BOOLEAN /\ frame \in Frame
      /\ cpu.int_pending => ~cpu.intenable
      /\ Following \subseteq Addr
  BY DEF TypeOK, PendingOnlyWhileDisabled, Following
<1>1. CASE Gosub
  <2>1. PICK resume \in Following, dest \in Addr :
            cpu' = [push_return_addr(cpu, resume) EXCEPT !.PC = dest]
    BY <1>1 DEF Gosub
  <2> DEFINE t == push_return_addr(cpu, resume)
  <2>2. t \in Cpu /\ t.int_pending = cpu.int_pending /\ t.intenable = cpu.intenable
    BY <1>0, PushFields
  <2>3. cpu' = [t EXCEPT !.PC = dest]
    BY <2>1
  <2> HIDE DEF t
  <2>4. /\ cpu' \in Cpu /\ cpu'.rstk = t.rstk /\ cpu'.rstkp = t.rstkp
        /\ cpu'.int_pending = cpu.int_pending /\ cpu'.intenable = cpu.intenable
    BY <2>2, <2>3 DEF Cpu
  <2>5. frame' \in Frame /\ FrameIntact'
    BY <1>0, <1>1, <2>4, FramePushed DEF Gosub, StackAs, t
  <2> QED
    BY <1>0, <1>1, <2>4, <2>5 DEF Gosub, TypeOK, PendingOnlyWhileDisabled
<1>2. CASE PushC
  <2>1. PICK next \in Following :
            cpu' = [push_return_addr(cpu, C) EXCEPT !.PC = next]
    BY <1>2 DEF PushC
  <2> DEFINE t == push_return_addr(cpu, C)
  <2>2. t \in Cpu /\ t.int_pending = cpu.int_pending /\ t.intenable = cpu.intenable
    BY <1>0, PushFields
  <2>3. cpu' = [t EXCEPT !.PC = next] /\ next \in Addr
    BY <1>0, <2>1
  <2> HIDE DEF t
  <2>4. /\ cpu' \in Cpu /\ cpu'.rstk = t.rstk /\ cpu'.rstkp = t.rstkp
        /\ cpu'.int_pending = cpu.int_pending /\ cpu'.intenable = cpu.intenable
    BY <2>2, <2>3 DEF Cpu
  <2>5. frame' \in Frame /\ FrameIntact'
    BY <1>0, <1>2, <2>4, FramePushed DEF PushC, StackAs, t
  <2> QED
    BY <1>0, <1>2, <2>4, <2>5 DEF PushC, TypeOK, PendingOnlyWhileDisabled
<1>3. ASSUME NEW next \in Addr, cpu' = [pop_return_addr(cpu) EXCEPT !.PC = next], PopFrame
      PROVE  /\ cpu' \in Cpu /\ frame' \in Frame
             /\ FrameIntact' /\ PendingOnlyWhileDisabled'
  <2> DEFINE t == pop_return_addr(cpu)
  <2>1. t \in Cpu /\ t.int_pending = cpu.int_pending /\ t.intenable = cpu.intenable
    BY <1>0, PopFields
  <2>2. cpu' = [t EXCEPT !.PC = next]
    BY <1>3
  <2> HIDE DEF t
  <2>3. /\ cpu' \in Cpu /\ cpu'.rstk = t.rstk /\ cpu'.rstkp = t.rstkp
        /\ cpu'.int_pending = cpu.int_pending /\ cpu'.intenable = cpu.intenable
    BY <2>1, <2>2 DEF Cpu
  <2>4. frame' \in Frame /\ FrameIntact'
    BY <1>3, <2>3, FramePopped DEF StackAs, t
  <2> QED
    BY <1>0, <2>3, <2>4 DEF PendingOnlyWhileDisabled
<1>4. CASE Rtn
  <2>1. top_return_addr(cpu) \in Addr
    BY <1>0, PopFields
  <2> QED
    BY <1>0, <1>3, <1>4, <2>1 DEF Rtn, TypeOK
<1>5. CASE PopC
  <2>1. top_return_addr(cpu) \in Addr
    BY <1>0, PopFields
  <2> QED
    BY <1>0, <1>3, <1>5, <2>1 DEF PopC, TypeOK
<1>6. CASE Rti /\ cpu.int_pending
  <2>1. cpu' = [cpu EXCEPT !.int_pending = FALSE, !.intenable = FALSE, !.PC = IntVector]
    BY <1>6 DEF Rti, do_return_interupt
  <2>2. cpu' \in Cpu /\ StackAs(cpu) /\ cpu'.intenable = FALSE
    BY <1>0, <2>1 DEF Cpu, StackAs
  <2> QED
    BY <1>0, <1>6, <2>2, FrameSame DEF Rti, TypeOK, PendingOnlyWhileDisabled
<1>7. CASE Rti /\ ~cpu.int_pending
  <2> DEFINE t == pop_return_addr(cpu)
  <2>1. t \in Cpu /\ t.int_pending = cpu.int_pending /\ top_return_addr(cpu) \in Addr
    BY <1>0, PopFields
  <2>2. cpu' = [t EXCEPT !.PC = top_return_addr(cpu), !.intenable = TRUE]
    BY <1>7 DEF Rti, do_return_interupt
  <2> HIDE DEF t
  <2>3. /\ cpu' \in Cpu /\ cpu'.rstk = t.rstk /\ cpu'.rstkp = t.rstkp
        /\ cpu'.int_pending = cpu.int_pending
    BY <2>1, <2>2 DEF Cpu
  <2>4. frame' \in Frame /\ FrameIntact'
    BY <1>7, <2>3, FramePopped DEF Rti, StackAs, t
  <2> QED
    BY <1>0, <1>7, <2>3, <2>4 DEF Rti, TypeOK, PendingOnlyWhileDisabled
<1>8. CASE RtnTest \/ Compute
  <2>1. PICK next \in Addr : cpu' = [cpu EXCEPT !.PC = next]
    BY <1>0, <1>8 DEF RtnTest, Compute
  <2>2. /\ cpu' \in Cpu /\ StackAs(cpu)
        /\ cpu'.int_pending = cpu.int_pending /\ cpu'.intenable = cpu.intenable
    BY <1>0, <2>1 DEF Cpu, StackAs
  <2> QED
    BY <1>0, <1>8, <2>2, FrameSame
       DEF RtnTest, Compute, TypeOK, PendingOnlyWhileDisabled
<1>9. CASE IntOnOff
  <2>1. PICK next \in Addr, on \in BOOLEAN :
            cpu' = [cpu EXCEPT !.PC = next, !.kbd_ien = on]
    BY <1>0, <1>9 DEF IntOnOff
  <2>2. /\ cpu' \in Cpu /\ StackAs(cpu)
        /\ cpu'.int_pending = cpu.int_pending /\ cpu'.intenable = cpu.intenable
    BY <1>0, <2>1 DEF Cpu, StackAs
  <2> QED
    BY <1>0, <1>9, <2>2, FrameSame DEF IntOnOff, TypeOK, PendingOnlyWhileDisabled
<1>10. CASE Rsi
  <2>1. PICK next \in Following :
           /\ cpu' = do_reset_interrupt_system([cpu EXCEPT !.PC = next], keydown)
           /\ IF keydown /\ cpu.intenable THEN EnterFrame(next) ELSE UNCHANGED frame
           /\ UNCHANGED <<C, keydown>>
    BY <1>10 DEF Rsi
  <2> DEFINE s == [[cpu EXCEPT !.PC = next] EXCEPT !.kbd_ien = TRUE]
  <2>2. /\ s \in Cpu /\ s.PC = next /\ s.rstk = cpu.rstk /\ s.rstkp = cpu.rstkp
        /\ s.int_pending = cpu.int_pending /\ s.intenable = cpu.intenable
    BY <1>0 DEF Cpu, StackAs
  <2>3. cpu' = IF keydown THEN do_kbd_int(s) ELSE s
    BY <2>1 DEF do_reset_interrupt_system
  <2> HIDE DEF s
  <2>4. CASE keydown /\ cpu.intenable
    BY <1>0, <2>1, <2>2, <2>3, <2>4, EnterStep DEF do_kbd_int, TypeOK
  <2>5. CASE keydown /\ ~cpu.intenable
    <3>1. cpu' = [s EXCEPT !.int_pending = TRUE]
      BY <2>2, <2>3, <2>5 DEF do_kbd_int
    <3>2. cpu' \in Cpu /\ cpu'.intenable = cpu.intenable /\ StackAs(cpu)
      BY <2>2, <3>1 DEF Cpu, StackAs
    <3> QED
      BY <1>0, <2>1, <2>5, <3>2, FrameSame DEF TypeOK, PendingOnlyWhileDisabled
  <2>6. CASE ~keydown
    <3>1. cpu' = s /\ StackAs(cpu)
      BY <2>2, <2>3, <2>6 DEF StackAs
    <3> QED
      BY <1>0, <2>1, <2>2, <2>6, <3>1, FrameSame DEF TypeOK, PendingOnlyWhileDisabled
  <2> QED
    BY <2>4, <2>5, <2>6
<1>11. CASE Shutdn
  <2>1. PICK next \in Addr, outIsZero \in BOOLEAN :
            cpu' = shutdown_entry([cpu EXCEPT !.PC = next], outIsZero)
    BY <1>0, <1>11 DEF Shutdn
  <2>2. /\ cpu' \in Cpu /\ StackAs(cpu)
        /\ cpu'.int_pending => ~cpu'.intenable
    BY <1>0, <2>1 DEF shutdown_entry, Cpu, StackAs
  <2> QED
    BY <1>0, <1>11, <2>2, FrameSame DEF Shutdn, TypeOK, PendingOnlyWhileDisabled
<1>12. CASE DeviceInterrupt
  <2>1. CASE cpu.intenable
    BY <1>0, <1>12, <2>1, EnterStep DEF DeviceInterrupt, do_interupt, TypeOK
  <2>2. CASE ~cpu.intenable
    BY <1>0, <1>12, <2>2
       DEF DeviceInterrupt, do_interupt, TypeOK, PendingOnlyWhileDisabled, FrameIntact
  <2> QED
    BY <2>1, <2>2
<1>13. CASE KeyPress
  <2>1. PICK isOn \in BOOLEAN :
            LET interrupts == isOn \/ cpu.kbd_ien
            IN  /\ cpu' = IF interrupts THEN do_kbd_int(cpu) ELSE cpu
                /\ IF interrupts /\ cpu.intenable THEN EnterFrame(cpu.PC)
                                                  ELSE UNCHANGED frame
    BY <1>13 DEF KeyPress
  <2>2. keydown' = TRUE /\ C' = C
    BY <1>13 DEF KeyPress
  <2>3. CASE (isOn \/ cpu.kbd_ien) /\ cpu.intenable
    BY <1>0, <2>1, <2>2, <2>3, EnterStep DEF do_kbd_int, TypeOK
  <2>4. CASE (isOn \/ cpu.kbd_ien) /\ ~cpu.intenable
    <3>1. cpu' = [cpu EXCEPT !.int_pending = TRUE]
      BY <2>1, <2>4 DEF do_kbd_int
    <3>2. cpu' \in Cpu /\ cpu'.intenable = cpu.intenable /\ StackAs(cpu)
      BY <1>0, <3>1 DEF Cpu, StackAs
    <3> QED
      BY <1>0, <2>1, <2>2, <2>4, <3>2, FrameSame DEF TypeOK, PendingOnlyWhileDisabled
  <2>5. CASE ~(isOn \/ cpu.kbd_ien)
    BY <1>0, <2>1, <2>2, <2>5 DEF TypeOK, PendingOnlyWhileDisabled, FrameIntact
  <2> QED
    BY <2>3, <2>4, <2>5
<1>14. CASE KeyRelease
  BY <1>0, <1>14 DEF KeyRelease, TypeOK, PendingOnlyWhileDisabled, FrameIntact
<1>15. CASE UNCHANGED vars
  BY <1>15 DEF vars, TypeOK, PendingOnlyWhileDisabled, FrameIntact
<1> QED
  BY <1>1, <1>2, <1>4, <1>5, <1>6, <1>7, <1>8, <1>9, <1>10, <1>11, <1>12, <1>13,
     <1>14, <1>15 DEF Next

THEOREM IInvariant == Spec => []IInv
  BY InitIInv, NextIInv, PTL DEF Spec

\* The fields of `saturn' keep their ranges for every program.
THEOREM TypeCorrect == Spec => []TypeOK
<1>1. IInv => TypeOK
  BY DEF IInv
<1> QED
  BY <1>1, IInvariant, PTL

\* A key interrupt waits only while interrupts are disabled.
THEOREM PendingImpliesDisabled == Spec => []PendingOnlyWhileDisabled
<1>1. IInv => PendingOnlyWhileDisabled
  BY DEF IInv
<1> QED
  BY <1>1, IInvariant, PTL

\* The return address of the newest interrupt is never corrupted.
THEOREM FrameStaysIntact == Spec => []FrameIntact
<1>1. IInv => FrameIntact
  BY DEF IInv
<1> QED
  BY <1>1, IInvariant, PTL

----------------------------------------------------------------------------
(* What a step may do to the two interrupt flags.                          *)

\* Only RTI and SHUTDN enable interrupts or stop a key interrupt from waiting.
LEMMA FlagsKept ==
    ASSUME IInv, Next, ~Rti, ~Shutdn
    PROVE  /\ cpu'.intenable => cpu.intenable
           /\ cpu.int_pending => cpu'.int_pending
<1>0. cpu \in Cpu /\ C \in Addr
  BY DEF IInv, TypeOK
<1>1. ASSUME NEW s \in Cpu, s.intenable = cpu.intenable, s.int_pending = cpu.int_pending,
             cpu' = do_kbd_int(s)
      PROVE  /\ cpu'.intenable => cpu.intenable
             /\ cpu.int_pending => cpu'.int_pending
  <2>1. CASE s.intenable
    BY <1>1, <2>1, EnterFields DEF do_kbd_int
  <2>2. CASE ~s.intenable
    BY <1>1, <2>2 DEF do_kbd_int, Cpu
  <2> QED
    BY <2>1, <2>2
<1>2. CASE Gosub
  <2>1. PICK resume \in Addr, dest \in Addr :
            cpu' = [push_return_addr(cpu, resume) EXCEPT !.PC = dest]
    BY <1>2 DEF Gosub, Following
  <2> HIDE DEF push_return_addr
  <2> QED
    BY <1>0, <2>1, PushFields DEF Cpu
<1>3. CASE PushC
  <2>1. PICK next \in Addr : cpu' = [push_return_addr(cpu, C) EXCEPT !.PC = next]
    BY <1>3 DEF PushC, Following
  <2> QED
    BY <1>0, <2>1, PushFields DEF Cpu
<1>4. CASE Rtn \/ PopC
  <2>1. PICK next : cpu' = [pop_return_addr(cpu) EXCEPT !.PC = next]
    BY <1>4 DEF Rtn, PopC
  <2> QED
    BY <1>0, <2>1, PopFields DEF Cpu
<1>5. CASE RtnTest \/ Compute
  <2>1. PICK next : cpu' = [cpu EXCEPT !.PC = next]
    BY <1>5 DEF RtnTest, Compute
  <2> QED
    BY <1>0, <2>1 DEF Cpu
<1>6. CASE IntOnOff
  <2>1. PICK next, on : cpu' = [cpu EXCEPT !.PC = next, !.kbd_ien = on]
    BY <1>6 DEF IntOnOff
  <2> QED
    BY <1>0, <2>1 DEF Cpu
<1>7. CASE Rsi
  <2>1. PICK next \in Addr :
            cpu' = do_reset_interrupt_system([cpu EXCEPT !.PC = next], keydown)
    BY <1>7 DEF Rsi, Following
  <2> DEFINE s == [[cpu EXCEPT !.PC = next] EXCEPT !.kbd_ien = TRUE]
  <2>2. s \in Cpu /\ s.intenable = cpu.intenable /\ s.int_pending = cpu.int_pending
    BY <1>0 DEF Cpu
  <2>3. cpu' = IF keydown THEN do_kbd_int(s) ELSE s
    BY <2>1 DEF do_reset_interrupt_system
  <2> HIDE DEF s
  <2> QED
    BY <1>1, <2>2, <2>3
<1>8. CASE DeviceInterrupt
  BY <1>0, <1>8, EnterFields DEF DeviceInterrupt, do_interupt
<1>9. CASE KeyPress
  <2>1. cpu' = do_kbd_int(cpu) \/ cpu' = cpu
    BY <1>9 DEF KeyPress
  <2> QED
    BY <1>0, <1>1, <2>1
<1>10. CASE KeyRelease
  BY <1>10 DEF KeyRelease
<1> QED
  BY <1>2, <1>3, <1>4, <1>5, <1>6, <1>7, <1>8, <1>9, <1>10 DEF Next

\* Where SHUTDN leaves the processor.
LEMMA ShutdnFields ==
    ASSUME IInv, Shutdn
    PROVE  /\ cpu'.PC \in Following
           /\ cpu'.rstk = cpu.rstk
           /\ cpu'.rstkp = cpu.rstkp
           /\ cpu.int_pending /\ ~cpu'.int_pending => cpu'.intenable
  BY DEF Shutdn, shutdown_entry, IInv, TypeOK, Cpu

\* The RTI that ends an interrupt resumes the interrupted program.
THEOREM RtiAlwaysResumes == Spec => RtiResumes
<1>1. ASSUME IInv, Next, ~cpu.intenable, cpu'.intenable, frame.at = cpu.rstkp,
             frame.at >= 0, cpu'.rstkp < cpu.rstkp
      PROVE  cpu'.PC = frame.resume
  <2>1. cpu \in Cpu /\ cpu.rstkp \in StackPointer
    BY <1>1 DEF IInv, TypeOK, Cpu
  <2>2. ~Shutdn
    BY <1>1, <2>1, ShutdnFields DEF StackPointer
  <2>3. Rti
    BY <1>1, <2>2, FlagsKept
  <2>4. ~cpu.int_pending
    BY <1>1, <2>1, <2>3 DEF Rti, do_return_interupt, Cpu
  <2>5. cpu' = [pop_return_addr(cpu) EXCEPT !.PC = top_return_addr(cpu), !.intenable = TRUE]
    BY <2>3, <2>4 DEF Rti, do_return_interupt
  <2>6. cpu'.PC = top_return_addr(cpu)
    BY <2>1, <2>5, PopFields DEF Cpu
  <2>7. top_return_addr(cpu) = cpu.rstk[frame.at]
    BY <1>1, <2>1 DEF top_return_addr, StackPointer
  <2> QED
    BY <1>1, <2>6, <2>7 DEF IInv, FrameIntact
<1> DEFINE A == ~cpu.intenable /\ cpu'.intenable /\ frame.at = cpu.rstkp /\ frame.at >= 0
                   /\ cpu'.rstkp < cpu.rstkp
                => cpu'.PC = frame.resume
<1>2. IInv /\ [Next]_vars => [A]_vars
  BY <1>1
<1> QED
  BY <1>2, IInvariant, PTL DEF Spec, RtiResumes

\* A waiting key interrupt is served by RTI or superseded by SHUTDN, never lost
\* with a return address.
THEOREM PendingAlwaysServiced == Spec => PendingServiced
<1> DEFINE A == cpu.int_pending /\ ~cpu'.int_pending
                => /\ \/ cpu'.PC = IntVector /\ ~cpu'.intenable
                      \/ cpu'.PC \in Following /\ cpu'.intenable
                   /\ cpu'.rstkp = cpu.rstkp
                   /\ cpu'.rstk = cpu.rstk
<1>1. ASSUME IInv, Next, cpu.int_pending, ~cpu'.int_pending
      PROVE  A
  <2>1. cpu \in Cpu
    BY <1>1 DEF IInv, TypeOK
  <2>2. CASE Shutdn
    BY <1>1, <2>2, ShutdnFields
  <2>3. CASE Rti
    <3>1. cpu' = [cpu EXCEPT !.int_pending = FALSE, !.intenable = FALSE, !.PC = IntVector]
      BY <1>1, <2>3 DEF Rti, do_return_interupt
    <3> QED
      BY <2>1, <3>1 DEF Cpu
  <2> QED
    BY <1>1, <2>2, <2>3, FlagsKept
<1>2. IInv /\ [Next]_vars => [A]_vars
  BY <1>1
<1> QED
  BY <1>2, IInvariant, PTL DEF Spec, PendingServiced

----------------------------------------------------------------------------
(* Control implements CallStack.                                           *)

LEMMA EntriesIsSeq ==
    ASSUME NEW s \in Cpu
    PROVE  /\ Entries(s) \in Seq(Addr)
           /\ Len(Entries(s)) = s.rstkp + 1
           /\ \A i \in 1 .. s.rstkp + 1 : Entries(s)[i] = s.rstk[i - 1]
<1>1. s.rstkp + 1 \in Nat /\ Entries(s) \in [1 .. s.rstkp + 1 -> Addr]
  BY DEF Entries, Cpu, Slot, StackPointer
<1>2. Entries(s) \in Seq(Addr)
  BY <1>1, SeqDef
<1>3. DOMAIN Entries(s) = 1 .. s.rstkp + 1
  BY DEF Entries
<1>4. Len(Entries(s)) = s.rstkp + 1
  BY <1>1, <1>2, <1>3, LenProperties
<1> QED
  BY <1>2, <1>4 DEF Entries

LEMMA EntriesPushed ==
    ASSUME NEW s \in Cpu, NEW a \in Addr
    PROVE  Entries(push_return_addr(s, a)) = Abstract!Newest(Append(Entries(s), a))
<1> DEFINE t   == push_return_addr(s, a)
           q   == Entries(s)
           qa  == Append(q, a)
           new == Abstract!Newest(qa)
<1>0. /\ s.rstkp \in StackPointer
      /\ t \in Cpu
      /\ t.rstkp = IF Full(s) THEN s.rstkp ELSE s.rstkp + 1
      /\ t.rstk[t.rstkp] = a
  BY PushFields DEF Cpu
<1>1. /\ q \in Seq(Addr) /\ Len(q) = s.rstkp + 1
      /\ \A i \in 1 .. s.rstkp + 1 : q[i] = s.rstk[i - 1]
  BY EntriesIsSeq
<1>2. /\ Entries(t) \in Seq(Addr) /\ Len(Entries(t)) = t.rstkp + 1
      /\ \A i \in 1 .. t.rstkp + 1 : Entries(t)[i] = t.rstk[i - 1]
  BY <1>0, EntriesIsSeq
<1>3. \A i \in Slot : /\ ~Full(s) /\ i <= s.rstkp => t.rstk[i] = s.rstk[i]
                      /\ Full(s) /\ i > 0 => t.rstk[i - 1] = s.rstk[i]
  BY PushKeeps
<1> HIDE DEF t, q
<1>4. /\ qa \in Seq(Addr) /\ Len(qa) = Len(q) + 1
      /\ \A i \in 1 .. Len(q) : qa[i] = q[i]
      /\ qa[Len(q) + 1] = a
  BY <1>1
<1> HIDE DEF qa
<1>5. CASE ~Full(s)
  <2>1. new = qa
    BY <1>0, <1>1, <1>4, <1>5 DEF Abstract!Newest, Full, StackPointer
  <2>2. \A i \in 1 .. Len(qa) : qa[i] = Entries(t)[i]
    <3>0. Len(qa) = s.rstkp + 2
      BY <1>0, <1>1, <1>4 DEF StackPointer
    <3> SUFFICES ASSUME NEW i \in 1 .. s.rstkp + 2
                 PROVE  qa[i] = Entries(t)[i]
      BY <3>0
    <3>1. CASE i = s.rstkp + 2
      BY <1>0, <1>1, <1>2, <1>4, <1>5, <3>1 DEF StackPointer
    <3>2. CASE i <= s.rstkp + 1
      <4>1. i - 1 \in Slot /\ i - 1 <= s.rstkp
        BY <1>0, <1>5, <3>2 DEF Full, Slot, StackPointer
      <4>2. t.rstk[i - 1] = s.rstk[i - 1]
        BY <1>3, <1>5, <4>1
      <4> QED
        BY <1>0, <1>1, <1>2, <1>4, <1>5, <3>2, <4>2 DEF StackPointer
    <3> QED
      BY <1>0, <3>1, <3>2 DEF StackPointer
  <2>3. Len(qa) = Len(Entries(t))
    BY <1>0, <1>1, <1>2, <1>4, <1>5 DEF StackPointer
  <2>4. qa = Entries(t)
    BY <1>2, <1>4, <2>2, <2>3, SeqEqual
  <2> QED
    BY <2>1, <2>4 DEF t, qa, q
<1>6. CASE Full(s)
  <2>1. s.rstkp = NR_RSTK - 1 /\ t.rstkp = s.rstkp
    BY <1>0, <1>6 DEF Full, StackPointer
  <2>2. new = Tail(qa) /\ qa # <<>>
    BY <1>1, <1>4, <2>1 DEF Abstract!Newest
  <2>3. /\ Tail(qa) \in Seq(Addr) /\ Len(Tail(qa)) = NR_RSTK
        /\ \A i \in 1 .. Len(Tail(qa)) : Tail(qa)[i] = qa[i + 1]
    BY <1>1, <1>4, <2>1, <2>2, HeadTailProperties
  <2>4. \A i \in 1 .. Len(Tail(qa)) : Tail(qa)[i] = Entries(t)[i]
    <3> SUFFICES ASSUME NEW i \in 1 .. NR_RSTK
                 PROVE  qa[i + 1] = t.rstk[i - 1]
      BY <1>2, <2>1, <2>3
    <3>1. CASE i = NR_RSTK
      BY <1>0, <1>1, <1>4, <2>1, <3>1
    <3>2. CASE i < NR_RSTK
      <4>1. i \in Slot /\ i > 0
        BY <3>2 DEF Slot
      <4>2. t.rstk[i - 1] = s.rstk[i]
        BY <1>3, <1>6, <4>1
      <4>3. qa[i + 1] = s.rstk[i]
        BY <1>1, <1>4, <2>1, <3>2
      <4> QED
        BY <4>2, <4>3
    <3> QED
      BY <3>1, <3>2
  <2>5. Len(Tail(qa)) = Len(Entries(t))
    BY <1>2, <2>1, <2>3
  <2>6. Tail(qa) = Entries(t)
    BY <1>2, <2>3, <2>4, <2>5, SeqEqual
  <2> QED
    BY <2>2, <2>6 DEF t, qa, q
<1> QED
  BY <1>5, <1>6

LEMMA EntriesPopped ==
    ASSUME NEW s \in Cpu
    PROVE  LET q == Entries(s)
           IN  /\ top_return_addr(s) = IF q = <<>> THEN 0 ELSE q[Len(q)]
               /\ Entries(pop_return_addr(s))
                    = IF q = <<>> THEN <<>> ELSE SubSeq(q, 1, Len(q) - 1)
<1> DEFINE q == Entries(s)
           t == pop_return_addr(s)
<1>0. /\ s.rstkp \in StackPointer
      /\ t \in Cpu
      /\ t.rstk = s.rstk
      /\ t.rstkp = IF s.rstkp < 0 THEN s.rstkp ELSE s.rstkp - 1
  BY PopFields DEF Cpu
<1>1. /\ q \in Seq(Addr) /\ Len(q) = s.rstkp + 1
      /\ \A i \in 1 .. s.rstkp + 1 : q[i] = s.rstk[i - 1]
  BY EntriesIsSeq
<1>2. /\ Entries(t) \in Seq(Addr) /\ Len(Entries(t)) = t.rstkp + 1
      /\ \A i \in 1 .. t.rstkp + 1 : Entries(t)[i] = t.rstk[i - 1]
  BY <1>0, EntriesIsSeq
<1> HIDE DEF t, q
<1>3. CASE s.rstkp < 0
  <2>1. q = <<>> /\ Entries(t) = <<>>
    BY <1>0, <1>1, <1>2, <1>3, EmptySeq DEF StackPointer
  <2> QED
    BY <1>3, <2>1 DEF top_return_addr, t, q
<1>4. CASE s.rstkp >= 0
  <2>1. q # <<>> /\ Len(q) >= 1
    BY <1>0, <1>1, <1>4, EmptySeq DEF StackPointer
  <2>2. q[Len(q)] = top_return_addr(s)
    BY <1>0, <1>1, <1>4 DEF top_return_addr, StackPointer
  <2> DEFINE r == SubSeq(q, 1, Len(q) - 1)
  <2>3. /\ r \in Seq(Addr) /\ Len(r) = s.rstkp
        /\ \A i \in 1 .. s.rstkp : r[i] = q[i]
    <3>1. \A i \in 1 .. Len(q) - 1 : q[i] \in Addr
      BY <1>1, ElementOfSeq
    <3>2. 1 \in Int /\ Len(q) - 1 \in Int
      BY <1>0, <1>1 DEF StackPointer
    <3> QED
      BY <1>0, <1>1, <1>4, <3>1, <3>2, SubSeqProperties DEF StackPointer
  <2> HIDE DEF r
  <2>4. Len(Entries(t)) = Len(r) /\ \A i \in 1 .. Len(r) : Entries(t)[i] = r[i]
    BY <1>0, <1>1, <1>2, <1>4, <2>3 DEF StackPointer
  <2>5. Entries(t) = r
    BY <1>2, <2>3, <2>4, SeqEqual
  <2> QED
    BY <2>1, <2>2, <2>5 DEF t, q, r
<1> QED
  BY <1>0, <1>3, <1>4 DEF StackPointer

\* Steps of Control, one for each action of CallStack.

LEMMA StackKept ==
    ASSUME NEW s \in Cpu, cpu' \in Cpu, cpu'.rstk = s.rstk, cpu'.rstkp = s.rstkp
    PROVE  Entries(cpu)' = Entries(s)
  BY DEF Entries

LEMMA CallStep ==
    ASSUME NEW s \in Cpu, NEW resume \in Addr, s.rstk = cpu.rstk, s.rstkp = cpu.rstkp,
           cpu' \in Cpu, StackAs(push_return_addr(s, resume)), C' = C
    PROVE  Abstract!Next
<1> DEFINE t == push_return_addr(s, resume)
<1>1. t \in Cpu
  BY PushFields
<1>2. cpu'.rstk = t.rstk /\ cpu'.rstkp = t.rstkp
  BY DEF StackAs
<1>3. Entries(t) = Abstract!Newest(Append(Entries(s), resume))
  BY EntriesPushed
<1> HIDE DEF t
<1>4. Entries(cpu)' = Entries(t)
  BY <1>1, <1>2, StackKept
<1>5. Entries(s) = Entries(cpu)
  BY DEF Entries
<1>6. cpu'.PC \in Addr
  BY DEF Cpu
<1>7. Abstract!Call(resume)
  BY <1>3, <1>4, <1>5, <1>6 DEF Abstract!Call
<1> QED
  BY <1>7 DEF Abstract!Next

LEMMA EnterCallStep ==
    ASSUME NEW s \in Cpu, s.rstk = cpu.rstk, s.rstkp = cpu.rstkp,
           cpu' = enter_interrupt(s), C' = C
    PROVE  Abstract!Next
<1>1. cpu' \in Cpu /\ StackAs(push_return_addr(s, s.PC)) /\ s.PC \in Addr
  BY EnterFields DEF StackAs, Cpu
<1> QED
  BY <1>1, CallStep

LEMMA OtherStep ==
    ASSUME cpu \in Cpu, cpu' \in Cpu, StackAs(cpu), C' \in Addr
    PROVE  Abstract!Next
<1>1. Entries(cpu)' = Entries(cpu)
  BY StackKept DEF StackAs
<1>2. cpu'.PC \in Addr
  BY DEF Cpu
<1> QED
  BY <1>1, <1>2 DEF Abstract!Next, Abstract!Other

LEMMA PoppedEntries ==
    ASSUME cpu \in Cpu, NEW next, NEW on,
           \/ cpu' = [pop_return_addr(cpu) EXCEPT !.PC = next]
           \/ cpu' = [pop_return_addr(cpu) EXCEPT !.PC = next, !.intenable = on]
    PROVE  /\ Entries(cpu)' = Abstract!Popped
           /\ top_return_addr(cpu) = Abstract!Top
           /\ cpu'.PC = next
<1> DEFINE t == pop_return_addr(cpu)
<1>1. t \in Cpu
  BY PopFields
<1>2. /\ top_return_addr(cpu) = Abstract!Top
      /\ Entries(t) = Abstract!Popped
  BY EntriesPopped DEF Abstract!Top, Abstract!Popped
<1>3. \/ cpu' = [t EXCEPT !.PC = next]
      \/ cpu' = [t EXCEPT !.PC = next, !.intenable = on]
  OBVIOUS
<1> HIDE DEF t
<1>4. cpu'.rstk = t.rstk /\ cpu'.rstkp = t.rstkp /\ cpu'.PC = next
  BY <1>1, <1>3 DEF Cpu
<1>5. Entries(cpu)' = Entries(t)
  BY <1>4 DEF Entries
<1> QED
  BY <1>2, <1>4, <1>5

LEMMA RefinementInit == Init => Abstract!Init
<1> SUFFICES ASSUME Init
             PROVE  Abstract!Init
  OBVIOUS
<1>1. cpu \in Cpu /\ cpu.rstkp = -1 /\ cpu.PC = 0
  BY InitIInv DEF IInv, TypeOK, Init, InitCpu
<1>2. Entries(cpu) = <<>>
  BY <1>1, EntriesIsSeq, EmptySeq
<1> QED
  BY <1>1, <1>2 DEF Init, Abstract!Init

LEMMA RefinementStep == IInv /\ IInv' /\ [Next]_vars => [Abstract!Next]_(Abstract!vars)
<1> SUFFICES ASSUME IInv, IInv', [Next]_vars
             PROVE  [Abstract!Next]_(Abstract!vars)
  OBVIOUS
<1>0. cpu \in Cpu /\ C \in Addr /\ cpu' \in Cpu /\ C' \in Addr /\ Following \subseteq Addr
  BY DEF IInv, TypeOK, Following
<1>1. CASE Gosub
  <2>1. PICK resume \in Addr, dest \in Addr :
            cpu' = [push_return_addr(cpu, resume) EXCEPT !.PC = dest]
    BY <1>0, <1>1 DEF Gosub
  <2>2. StackAs(push_return_addr(cpu, resume))
    BY <1>0, <2>1, PushFields DEF StackAs, Cpu
  <2> QED
    BY <1>0, <1>1, <2>2, CallStep DEF Gosub
<1>2. CASE PushC
  <2>1. PICK next \in Addr : cpu' = [push_return_addr(cpu, C) EXCEPT !.PC = next]
    BY <1>0, <1>2 DEF PushC
  <2>2. StackAs(push_return_addr(cpu, C))
    BY <1>0, <2>1, PushFields DEF StackAs, Cpu
  <2> QED
    BY <1>0, <1>2, <2>2, CallStep DEF PushC
<1>3. CASE Rtn
  BY <1>0, <1>3, PoppedEntries DEF Rtn, Abstract!Next, Abstract!Return
<1>4. CASE PopC
  <2>1. PICK next : cpu' = [pop_return_addr(cpu) EXCEPT !.PC = next]
    BY <1>4 DEF PopC
  <2>2. cpu'.PC \in Addr
    BY <1>0 DEF Cpu
  <2> QED
    BY <1>0, <1>4, <2>1, <2>2, PoppedEntries DEF PopC, Abstract!Next, Abstract!PopToC
<1>5. CASE Rti /\ ~cpu.int_pending
  <2>1. cpu' = [pop_return_addr(cpu) EXCEPT !.PC = top_return_addr(cpu), !.intenable = TRUE]
    BY <1>5 DEF Rti, do_return_interupt
  <2> QED
    BY <1>0, <1>5, <2>1, PoppedEntries DEF Rti, Abstract!Next, Abstract!Return
<1>6. CASE Rti /\ cpu.int_pending
  <2>1. StackAs(cpu)
    BY <1>0, <1>6 DEF Rti, do_return_interupt, StackAs, Cpu
  <2> QED
    BY <1>0, <2>1, OtherStep
<1>7. CASE RtnTest \/ IntOnOff \/ Compute \/ Shutdn \/ KeyRelease
  <2>1. StackAs(cpu)
    BY <1>0, <1>7
       DEF RtnTest, IntOnOff, Compute, Shutdn, KeyRelease, shutdown_entry, StackAs, Cpu
  <2> QED
    BY <1>0, <2>1, OtherStep
<1>8. ASSUME NEW s \in Cpu, s.rstk = cpu.rstk, s.rstkp = cpu.rstkp, C' = C,
             cpu' = do_kbd_int(s) \/ cpu' = s
      PROVE  Abstract!Next
  <2>1. CASE cpu' = enter_interrupt(s)
    BY <1>8, <2>1, EnterCallStep
  <2>2. CASE cpu' = [s EXCEPT !.int_pending = TRUE] \/ cpu' = s
    <3>1. StackAs(cpu)
      BY <1>8, <2>2 DEF StackAs, Cpu
    <3> QED
      BY <1>0, <3>1, OtherStep
  <2> QED
    BY <1>8, <2>1, <2>2 DEF do_kbd_int
<1>9. CASE Rsi
  <2>1. PICK next \in Addr :
            cpu' = do_reset_interrupt_system([cpu EXCEPT !.PC = next], keydown)
    BY <1>0, <1>9 DEF Rsi
  <2> DEFINE s == [[cpu EXCEPT !.PC = next] EXCEPT !.kbd_ien = TRUE]
  <2>2. s \in Cpu /\ s.rstk = cpu.rstk /\ s.rstkp = cpu.rstkp
    BY <1>0 DEF Cpu
  <2>3. cpu' = do_kbd_int(s) \/ cpu' = s
    BY <2>1 DEF do_reset_interrupt_system
  <2> HIDE DEF s
  <2> QED
    BY <1>8, <1>9, <2>2, <2>3 DEF Rsi
<1>10. CASE DeviceInterrupt
  <2>1. CASE cpu.intenable
    BY <1>0, <1>10, <2>1, EnterCallStep DEF DeviceInterrupt, do_interupt
  <2>2. CASE ~cpu.intenable
    <3>1. StackAs(cpu)
      BY <1>10, <2>2 DEF DeviceInterrupt, do_interupt, StackAs
    <3> QED
      BY <1>0, <3>1, OtherStep
  <2> QED
    BY <2>1, <2>2
<1>11. CASE KeyPress
  <2>1. C' = C /\ (cpu' = do_kbd_int(cpu) \/ cpu' = cpu)
    BY <1>11 DEF KeyPress
  <2> QED
    BY <1>0, <1>8, <2>1
<1>12. CASE UNCHANGED vars
  BY <1>12 DEF vars, Abstract!vars, Entries
<1> QED
  BY <1>1, <1>2, <1>3, <1>4, <1>5, <1>6, <1>7, <1>9, <1>10, <1>11, <1>12 DEF Next

\* For every depth, every address set and every program, calls, returns and
\* interrupts use the array and its index as the bounded stack of CallStack.
THEOREM Refinement == Spec => ImplementsCallStack
  BY RefinementInit, RefinementStep, IInvariant, PTL
     DEF Spec, ImplementsCallStack, Abstract!Spec
=============================================================================

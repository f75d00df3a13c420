----------------------------- MODULE CallStack -----------------------------
(***************************************************************************)
(* What the return stack promises a program: subroutine calls, interrupts  *)
(* and explicit pushes nest, and each return takes the newest address that *)
(* has not been returned to.  Depth bounds the promise: a push beyond it   *)
(* forgets the oldest address, and a return with nothing left goes to 0.   *)
(*                                                                         *)
(* Control implements this specification with an array and an index.       *)
(***************************************************************************)
EXTENDS Integers, Sequences

CONSTANTS Depth, Addr

VARIABLES PC,      \* where the program is
          C,       \* the address in the register that can be pushed and popped
          stack    \* the addresses still to be returned to, oldest first

vars == <<PC, C, stack>>

Newest(s) == IF Len(s) > Depth THEN Tail(s) ELSE s

Top == IF stack = <<>> THEN 0 ELSE stack[Len(stack)]

Popped == IF stack = <<>> THEN <<>> ELSE SubSeq(stack, 1, Len(stack) - 1)

Init == PC = 0 /\ C \in Addr /\ stack = <<>>

\* A subroutine call, an interrupt, or a push of C: something will want resume back.
Call(resume) ==
    /\ stack' = Newest(Append(stack, resume))
    /\ PC' \in Addr
    /\ C' = C

\* A return of any kind takes the newest address into PC ...
Return == PC' = Top /\ stack' = Popped /\ C' = C

\* ... or, for C=RSTK, into C.
PopToC == C' = Top /\ stack' = Popped /\ PC' \in Addr

\* Anything else leaves the stack alone.
Other == stack' = stack /\ PC' \in Addr /\ C' \in Addr

Next == (\E resume \in Addr : Call(resume)) \/ Return \/ PopToC \/ Other

Spec == Init /\ [][Next]_vars
=============================================================================

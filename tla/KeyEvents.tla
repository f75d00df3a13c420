----------------------------- MODULE KeyEvents -----------------------------
(***************************************************************************)
(* How a key reaches the emulated keyboard: the codes HPView queues, the   *)
(* key matrix keybuf.rows, and the effect of key_event and do_in on it     *)
(* (x48.c, actions.c).                                                     *)
(*                                                                         *)
(* A row of the matrix is a bit mask in the code and a set of columns      *)
(* here.  The ON key has no place in the matrix: it sets a bit of its own  *)
(* in every row.                                                           *)
(***************************************************************************)
EXTENDS Integers, Sequences

CONSTANTS Button,     \* the buttons in use, numbers below MAX_TOUCHES
          On,         \* the ON key, 44 in the code
          Row,        \* the rows of the matrix, 0 .. 8 in the code
          RowOf, Col, \* buttons[b].code: row and column of an ordinary button
          Repeating   \* <<row, column>> of the keys the patch in do_in looks for

MAX_TOUCHES == 49     \* HPView.java: codes of buttons are below this

OnBit == "ON"

ASSUME KeyEventsAssumption ==
    /\ On \in Button /\ Button \subseteq 0 .. MAX_TOUCHES - 1
    /\ Row # {} /\ RowOf \in [Button \ {On} -> Row]
    /\ \A b, c \in Button \ {On} : RowOf[b] = RowOf[c] /\ Col[b] = Col[c] => b = c
    /\ OnBit \notin {Col[b] : b \in Button \ {On}}
    /\ Repeating \subseteq Row \X {Col[b] : b \in Button \ {On}}

Column == {Col[b] : b \in Button \ {On}} \cup {OnBit}

Matrix == [Row -> SUBSET Column]

NoKeys == [r \in Row |-> {}]

Down(rows, b) ==
    IF b = On THEN \A r \in Row : OnBit \in rows[r] ELSE Col[b] \in rows[RowOf[b]]

\* Is there any bit of b's in the matrix?
Visible(rows, b) ==
    IF b = On THEN \E r \in Row : OnBit \in rows[r] ELSE Col[b] \in rows[RowOf[b]]

----------------------------------------------------------------------------
(* The queue: one number stands for a press or for a release.              *)

press_code(b) == b + 1

release_code(b) == b + 100

IsPress(code) == code < 100

----------------------------------------------------------------------------
(* key_event.                                                              *)

pressed(rows, b) ==
    IF b = On
    THEN [r \in Row |-> rows[r] \cup {OnBit}]
    ELSE [rows EXCEPT ![RowOf[b]] = @ \cup {Col[b]}]

\* Mutant: INTOFF holds for the ON key as well.
OnMaskable(rows, kbd_ien, b) == kbd_ien

\* Does the press of b request an interrupt?  A key that is down already does not.
press_interrupts(rows, kbd_ien, b) ==
    b = On \/ (Col[b] \notin rows[RowOf[b]] /\ kbd_ien)

\* Mutant: the loop over the rows stops one short.
ReleasedButOneRow(rows, b) ==
    IF b = On THEN [r \in Row |-> IF \A q \in Row : q <= r THEN rows[r] ELSE {}]
    ELSE [rows EXCEPT ![RowOf[b]] = @ \ {Col[b]}]

\* The release of ON clears the whole matrix.
released(rows, b) ==
    IF b = On THEN NoKeys ELSE [rows EXCEPT ![RowOf[b]] = @ \ {Col[b]}]

----------------------------------------------------------------------------
(* GetEvent, on a record of what it reads and writes.                      *)

None == -1

Code == {press_code(b) : b \in Button} \cup {release_code(b) : b \in Button}

Keys == [ rows            : Matrix,
          queuedCodes     : Seq(Code),              \* HPView's queue
          release_pending : Button \cup {None} ]    \* the release that waits, if any

InitKeys == [rows |-> NoKeys, queuedCodes |-> <<>>, release_pending |-> None]

queued(k, code) == [k EXCEPT !.queuedCodes = Append(@, code)]

\* The button whose press the next call of GetEvent takes, or None.
NextPress(k) ==
    IF k.release_pending = None /\ k.queuedCodes # <<>> /\ IsPress(Head(k.queuedCodes))
    THEN Head(k.queuedCodes) - 1
    ELSE None

\* Mutant: a release acts at once, as the line commented out in GetEvent has it.
PolledAtOnce(k) ==
    CASE k.queuedCodes = <<>> -> k
      [] NextPress(k) # None ->
            [k EXCEPT !.rows = pressed(@, NextPress(k)), !.queuedCodes = Tail(@)]
      [] OTHER ->
            [k EXCEPT !.rows = released(@, Head(k.queuedCodes) - 100), !.queuedCodes = Tail(@)]

\* Mutant: the queue before the release that waits, which a second one overwrites.
PolledQueueFirst(k) ==
    CASE k.queuedCodes = <<>> /\ k.release_pending # None ->
            [k EXCEPT !.rows = released(@, k.release_pending), !.release_pending = None]
      [] k.queuedCodes = <<>> /\ k.release_pending = None ->
            k
      [] k.queuedCodes # <<>> /\ IsPress(Head(k.queuedCodes)) ->
            [k EXCEPT !.rows = pressed(@, Head(k.queuedCodes) - 1), !.queuedCodes = Tail(@)]
      [] OTHER ->
            [k EXCEPT !.release_pending = Head(k.queuedCodes) - 100, !.queuedCodes = Tail(@)]

\* At most one code per call; a release waits for the call after.
polled(k) ==
    CASE k.release_pending # None ->
            [k EXCEPT !.rows = released(@, k.release_pending), !.release_pending = None]
      [] NextPress(k) # None ->
            [k EXCEPT !.rows = pressed(@, NextPress(k)), !.queuedCodes = Tail(@)]
      [] k.release_pending = None /\ k.queuedCodes = <<>> ->
            k
      [] OTHER ->
            [k EXCEPT !.release_pending = Head(k.queuedCodes) - 100, !.queuedCodes = Tail(@)]

\* Does the next call of GetEvent request an interrupt?
poll_interrupts(k, kbd_ien) ==
    NextPress(k) # None /\ press_interrupts(k.rows, kbd_ien, NextPress(k))

----------------------------------------------------------------------------
(* do_in, with out the set of rows that register OUT drives.               *)

InLines(rows, out) == UNION {rows[r] : r \in out}

\* The patch for repeating keys: rows 4, 6 and 7 and the bits of four arrows
\* and the backspace key; the test is on IN, the OR of all rows driven.
RepeatSeen(rows, out) ==
    \E k \in Repeating : k[1] \in out /\ k[2] \in InLines(rows, out)

ClearRows(rows, out) == [r \in Row |-> IF r \in out THEN {} ELSE rows[r]]
=============================================================================

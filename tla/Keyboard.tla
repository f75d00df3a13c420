----------------------------- MODULE Keyboard -----------------------------
(***************************************************************************)
(* The way of a key from a finger to the program: HPView turns touch and   *)
(* hardware key events into codes on a queue (Android's UI thread); the    *)
(* emulator thread takes at most one code per call of GetEvent, holds a    *)
(* release back until the next call, and changes the key matrix, which the *)
(* program reads through do_in.                                            *)
(*                                                                         *)
(* Fingers and hardware keys are the environment.  It also may cancel a    *)
(* gesture: Android then sends no UP for fingers that were down, and       *)
(* onTouchEvent ignores the ACTION_CANCEL it sends instead.                *)
(***************************************************************************)
EXTENDS KeyEvents, Sequences, FiniteSetsExt

CONSTANTS Pointer,   \* pointer ids plus 1, as onTouchEvent stores them
          MaxMoves   \* bound on the events of fingers and hardware keys

ASSUME KeyboardAssumption ==
    /\ Pointer \subseteq 1 .. 254
    /\ MaxMoves \in Nat

VARIABLES
    finger,          \* environment: the button each finger went down on
    hard,            \* environment: buttons whose hardware key is down
    moves,           \* environment: events so far
    touches,         \* HPView: pointer that pressed each button, or 0
    kbd,             \* queue of HPView, state of GetEvent and saturn.keybuf.rows
    IN_reg,          \* saturn.IN
    first_press,     \* actions.c: the patch for repeating keys in do_in
    cancelled,       \* history: has the platform cancelled a gesture?
    poll,            \* history: toggles at each GetEvent
    fresh,           \* history: buttons the last GetEvent pressed, not cleared by do_in
    wiped            \* history: buttons cleared although nobody let go of them

vars == <<finger, hard, moves, touches, kbd, IN_reg, first_press, cancelled, poll,
          fresh, wiped>>

environment == <<finger, hard, moves, cancelled>>
native == <<IN_reg, first_press, poll, fresh>>

Up == -1                 \* a finger that is not on the screen
NoButton == -2           \* a finger that went down beside the buttons
Hardware == 255          \* the pointer id HPView uses for hardware keys

Init ==
    /\ finger = [p \in Pointer |-> Up]
    /\ hard = {}
    /\ moves = 0
    /\ touches = [b \in Button |-> 0]
    /\ kbd = InitKeys
    /\ IN_reg = {}
    /\ first_press = TRUE
    /\ cancelled = FALSE
    /\ poll = 0
    /\ fresh = {}
    /\ wiped = {}

----------------------------------------------------------------------------
(* The UI thread.                                                          *)

Move == moves < MaxMoves /\ moves' = moves + 1

\* HPView.key
key(code, down, pointerID) ==
    IF down
    THEN /\ kbd' = queued(kbd, press_code(code))
         /\ touches' = [touches EXCEPT ![code] = pointerID]
         /\ wiped' = wiped \ {code}
    ELSE /\ kbd' = queued(kbd, release_code(code))
         /\ touches' = [touches EXCEPT ![code] = 0]
         /\ wiped' = IF code = On THEN Button ELSE wiped

FingerDown(p) ==
    /\ Move
    /\ finger[p] = Up
    /\ UNCHANGED <<hard, cancelled, native>>
    /\ \E b \in Button \cup {NoButton} :
        /\ finger' = [finger EXCEPT ![p] = b]
        /\ IF b = NoButton THEN UNCHANGED <<touches, kbd, wiped>> ELSE key(b, TRUE, p)

\* Mutant: the test of touches[i] with != 0 for == pointerID.
PressedByAny(p) == {b \in Button : touches[b] # 0}

\* UP: the buttons that `touches' says this pointer pressed.
PressedBy(p) == {b \in Button : touches[b] = p}

FingerUp(p) ==
    /\ Move
    /\ finger[p] # Up
    /\ finger' = [finger EXCEPT ![p] = Up]
    /\ UNCHANGED <<hard, cancelled, native>>
    /\ IF PressedBy(p) = {}
       THEN UNCHANGED <<touches, kbd, wiped>>
       ELSE key(Min(PressedBy(p)), FALSE, p)

\* ACTION_CANCEL: all fingers are gone as far as the view will ever hear.
Cancel ==
    /\ Move
    /\ \E p \in Pointer : finger[p] # Up
    /\ finger' = [p \in Pointer |-> Up]
    /\ cancelled' = TRUE
    /\ UNCHANGED <<hard, touches, kbd, native, wiped>>

\* onKeyDown and onKeyUp; a key held down repeats its DOWN.
HardKey(b) ==
    /\ Move
    /\ UNCHANGED <<finger, cancelled, native>>
    /\ \/ hard' = hard \cup {b} /\ key(b, TRUE, Hardware)
       \/ b \in hard /\ hard' = hard \ {b} /\ key(b, FALSE, Hardware)

----------------------------------------------------------------------------
(* The emulator thread.                                                    *)

\* One call, from schedule or do_shutdown, once per alarm.
GetEvent ==
    /\ kbd' = polled(kbd)
    /\ poll' = 1 - poll
    /\ fresh' = {NextPress(kbd)} \ {None}
    /\ UNCHANGED <<environment, touches, IN_reg, first_press, wiped>>

\* A=IN, C=IN.  atPatch: is PC the address of the ROM's test for repeating keys?
do_in(out, atPatch) ==
    LET rows    == kbd.rows
        clear   == atPatch /\ ~first_press /\ RepeatSeen(rows, out)
        after   == IF clear THEN ClearRows(rows, out) ELSE rows
        seen(m) == {b \in Button : Visible(m, b)}
    IN  /\ kbd' = [kbd EXCEPT !.rows = after]
        /\ first_press' = clear
        /\ IN_reg' = InLines(rows, out)
        /\ fresh' = fresh \cap {b \in Button : Down(after, b)}
        /\ wiped' = wiped \cup (seen(rows) \ seen(after))
        /\ UNCHANGED <<environment, touches, poll>>

Next ==
    \/ \E p \in Pointer : FingerDown(p) \/ FingerUp(p)
    \/ \E b \in Button : HardKey(b)
    \/ Cancel
    \/ GetEvent
    \/ \E out \in SUBSET Row, atPatch \in BOOLEAN : do_in(out, atPatch)

\* The alarm comes every 20 ms and the emulator thread polls once per alarm.
Spec == Init /\ [][Next]_vars /\ WF_vars(GetEvent)

----------------------------------------------------------------------------
(* Properties.                                                             *)

TypeOK ==
    /\ finger \in [Pointer -> Button \cup {Up, NoButton}]
    /\ hard \subseteq Button
    /\ moves \in 0 .. MaxMoves
    /\ touches \in [Button -> Pointer \cup {0, Hardware}]
    /\ kbd \in Keys
    /\ IN_reg \subseteq Column
    /\ first_press \in BOOLEAN
    /\ cancelled \in BOOLEAN
    /\ poll \in 0 .. 1
    /\ fresh \subseteq Button
    /\ wiped \subseteq Button

\* What a code makes of the matrix once it is taken from the queue and acts.
taken(rows, code) ==
    IF IsPress(code) THEN pressed(rows, code - 1) ELSE released(rows, code - 100)

\* The matrix once the emulator has caught up with a queue.
CaughtUp(rows, codes) ==
    LET behind[n \in 0 .. Len(codes)] ==
            IF n = 0 THEN rows ELSE taken(behind[n - 1], codes[n])
    IN  behind[Len(codes)]

Now(k) == IF k.release_pending = None THEN k.rows ELSE released(k.rows, k.release_pending)

\* The matrix once the emulator has caught up with everything HPView queued.
Settled == CaughtUp(Now(kbd), kbd.queuedCodes)

Held(b) == b \in hard \/ \E p \in Pointer : finger[p] = b

\* What HPView shows, the matrix follows: however far the emulator lags behind, once it
\* catches up a key HPView shows as pressed is down, unless the release of ON or the patch in
\* do_in cleared it (no lost key), and a key that is down is one that somebody still holds,
\* whatever mixture of fingers, hardware keys and pointers that share a key led here (no stuck
\* key; but the button of a cancelled gesture stays down until it is pressed and released
\* again).
MatrixFollows ==
    \A b \in Button :
        /\ touches[b] # 0 /\ b \notin wiped => Visible(Settled, b)
        /\ ~cancelled /\ Visible(Settled, b) => Held(b)

\* A tap is long enough to be seen: the call of GetEvent that follows the one
\* that pressed a key never releases it, even if the finger was up before the
\* press was taken from the queue, so the program has 20 ms to scan the key.
HeldForOnePoll == [][poll' # poll => \A b \in fresh : Down(kbd'.rows, b)]_vars

UpByPointer ==
    \A p \in Pointer :
        finger[p] # Up /\ finger'[p] = Up /\ kbd' # kbd
        => kbd' = queued(kbd, release_code(finger[p]))

\* A finger's UP releases the button that this finger pressed, or none if somebody
\* else took the button over, as long as no gesture was cancelled.  (Behind a cancelled
\* one it may release the button of that one, as the pointer is used again.)
UpReleasesItsKey == [][cancelled \/ UpByPointer]_vars

\* When everybody has let go for good, and no gesture was cancelled, the matrix is
\* empty in the end.
AllUp == hard = {} /\ \A p \in Pointer : finger[p] = Up

KeysComeUp == <>[](AllUp /\ ~cancelled) => <>[](kbd.rows = NoKeys)
=============================================================================

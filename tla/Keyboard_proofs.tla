--------------------------- MODULE Keyboard_proofs ---------------------------
(***************************************************************************)
(* That the key matrix follows the fingers, for any keyboard, any number   *)
(* of pointers, and a queue of any length.                                 *)
(*                                                                         *)
(* What the matrix becomes once the emulator has caught up is a recursive  *)
(* function of the queue, and the lemmas about it go by induction over the *)
(* codes.                                                                  *)
(***************************************************************************)
EXTENDS Keyboard, TLAPS, WellFoundedInduction

----------------------------------------------------------------------------
(* The matrix: what a press and a release do to each key.                  *)

Ordinary == Button \ {On}

LEMMA Keyboards ==
    /\ \A b \in Button : b \in Nat /\ b < 49
    /\ On \in Button /\ Row # {}
    /\ \A b \in Ordinary : RowOf[b] \in Row /\ Col[b] \in Column /\ Col[b] # OnBit
    /\ \A b, c \in Ordinary : RowOf[b] = RowOf[c] /\ Col[b] = Col[c] => b = c
    /\ OnBit \in Column
<1>1. Button \subseteq 0 .. 48
  BY KeyEventsAssumption DEF MAX_TOUCHES
<1> QED BY <1>1, KeyEventsAssumption DEF Ordinary, Column

LEMMA PressShows ==
    ASSUME NEW m \in Matrix, NEW c \in Button
    PROVE  /\ pressed(m, c) \in Matrix /\ Down(pressed(m, c), c)
           /\ \A b \in Button : Visible(pressed(m, c), b) <=> b = c \/ Visible(m, b)
           /\ \A b \in Button : Down(m, b) => Down(pressed(m, c), b)
<1> DEFINE p == pressed(m, c)
<1>1. CASE c = On
  <2>1. p = [r \in Row |-> m[r] \cup {OnBit}]
    BY <1>1 DEF pressed
  <2>2. p \in Matrix /\ \A r \in Row : p[r] = m[r] \cup {OnBit}
    BY <2>1, Keyboards DEF Matrix
  <2> HIDE DEF p
  <2> QED BY <1>1, <2>2, Keyboards DEF Visible, Down, Ordinary, p
<1>2. CASE c # On
  <2>1. c \in Ordinary /\ RowOf[c] \in Row /\ Col[c] \in Column
    BY <1>2, Keyboards DEF Ordinary
  <2>2. p = [m EXCEPT ![RowOf[c]] = @ \cup {Col[c]}]
    BY <1>2 DEF pressed
  <2>3. /\ p \in Matrix
        /\ \A r \in Row : p[r] = IF r = RowOf[c] THEN m[r] \cup {Col[c]} ELSE m[r]
    BY <2>1, <2>2 DEF Matrix
  <2> HIDE DEF p
  <2>4. ASSUME NEW b \in Button
        PROVE  /\ Visible(p, b) <=> b = c \/ Visible(m, b)
               /\ Down(m, b) => Down(p, b)
    <3>1. CASE b = On
      BY <1>2, <2>1, <2>3, <3>1, Keyboards DEF Visible, Down
    <3>2. CASE b # On
      <4>1. b \in Ordinary /\ RowOf[b] \in Row
        BY <3>2, Keyboards DEF Ordinary
      <4>2. Col[b] \in p[RowOf[b]] <=> b = c \/ Col[b] \in m[RowOf[b]]
        <5>1. CASE RowOf[b] = RowOf[c]
          <6>1. p[RowOf[b]] = m[RowOf[b]] \cup {Col[c]}
            BY <2>3, <4>1, <5>1
          <6>2. Col[b] = Col[c] <=> b = c
            BY <2>1, <4>1, <5>1, Keyboards
          <6> QED BY <6>1, <6>2
        <5>2. CASE RowOf[b] # RowOf[c]
          BY <2>3, <4>1, <5>2
        <5> QED BY <5>1, <5>2
      <4> QED BY <3>2, <4>2 DEF Visible, Down
    <3> QED BY <3>1, <3>2
  <2>5. Down(p, c)
    BY <1>2, <2>1, <2>3 DEF Down
  <2> QED BY <2>3, <2>4, <2>5 DEF p
<1> QED BY <1>1, <1>2

LEMMA ReleaseShows ==
    ASSUME NEW m \in Matrix, NEW c \in Button
    PROVE  /\ released(m, c) \in Matrix
           /\ \A b \in Button : Visible(released(m, c), b) <=> c # On /\ b # c /\ Visible(m, b)
<1> DEFINE p == released(m, c)
<1>1. CASE c = On
  <2>1. p = [r \in Row |-> {}]
    BY <1>1 DEF released, NoKeys
  <2>2. p \in Matrix /\ \A r \in Row : p[r] = {}
    BY <2>1 DEF Matrix
  <2> HIDE DEF p
  <2> QED BY <1>1, <2>2, Keyboards DEF Visible, Ordinary, p
<1>2. CASE c # On
  <2>1. c \in Ordinary /\ RowOf[c] \in Row /\ Col[c] \in Column
    BY <1>2, Keyboards DEF Ordinary
  <2>2. p = [m EXCEPT ![RowOf[c]] = @ \ {Col[c]}]
    BY <1>2 DEF released
  <2>3. /\ p \in Matrix
        /\ \A r \in Row : p[r] = IF r = RowOf[c] THEN m[r] \ {Col[c]} ELSE m[r]
    BY <2>1, <2>2 DEF Matrix
  <2> HIDE DEF p
  <2>4. ASSUME NEW b \in Button
        PROVE  Visible(p, b) <=> b # c /\ Visible(m, b)
    <3>1. CASE b = On
      BY <1>2, <2>1, <2>3, <3>1, Keyboards DEF Visible
    <3>2. CASE b # On
      <4>1. b \in Ordinary /\ RowOf[b] \in Row
        BY <3>2, Keyboards DEF Ordinary
      <4> QED BY <2>1, <2>3, <3>2, <4>1, Keyboards DEF Visible
    <3> QED BY <3>1, <3>2
  <2> QED BY <1>2, <2>3, <2>4 DEF p
<1> QED BY <1>1, <1>2

LEMMA Codes ==
    /\ \A b \in Button : /\ press_code(b) \in Code /\ IsPress(press_code(b))
                         /\ press_code(b) - 1 = b
                         /\ release_code(b) \in Code /\ ~IsPress(release_code(b))
                         /\ release_code(b) - 100 = b
    /\ \A c \in Code : \/ IsPress(c) /\ c - 1 \in Button
                       \/ ~IsPress(c) /\ c - 100 \in Button
BY Keyboards DEF press_code, release_code, IsPress, Code

\* A code acts on what can be seen of a key, whatever else is in the matrix.
LEMMA TakenShows ==
    ASSUME NEW m \in Matrix, NEW c \in Code
    PROVE  /\ taken(m, c) \in Matrix
           /\ \A n \in Matrix, b \in Button :
                (Visible(m, b) => Visible(n, b)) => (Visible(taken(m, c), b) => Visible(taken(n, c), b))
<1>1. CASE IsPress(c) /\ c - 1 \in Button
  BY <1>1, PressShows DEF taken
<1>2. CASE ~IsPress(c) /\ c - 100 \in Button
  BY <1>2, ReleaseShows DEF taken
<1> QED BY <1>1, <1>2, Codes

----------------------------------------------------------------------------
(* Catching up with a queue, code by code.                                 *)

LEMMA Inductive ==
    ASSUME NEW T, 0 \in T, \A n \in Nat : n \in T => n + 1 \in T
    PROVE  Nat \subseteq T
<1> SUFFICES ASSUME Nat \ T # {} PROVE FALSE
  OBVIOUS
<1> DEFINE R == OpToRel(<, Nat)
<1>1. IsWellFoundedOn(R, Nat)
  BY NatLessThanWellFounded
<1>2. \A x, y \in Nat : x < y => <<x, y>> \in R
  BY DEF OpToRel
<1> HIDE DEF R
<1>3. PICK x \in Nat \ T : \A y \in Nat \ T : <<y, x>> \notin R
  BY <1>1, WFMin
<1>4. x - 1 \in Nat /\ x - 1 < x /\ x - 1 + 1 = x
  OBVIOUS
<1>5. <<x - 1, x>> \in R
  BY <1>2, <1>4
<1>6. x - 1 \in T
  BY <1>3, <1>4, <1>5
<1> QED BY <1>4, <1>6

\* f[n] is the matrix behind n codes.
Behind(f, m, q) ==
    /\ f \in [0 .. Len(q) -> Matrix]
    /\ f[0] = m
    /\ \A n \in 1 .. Len(q) : f[n] = taken(f[n - 1], q[n])

\* The emulator can catch up with any queue: the recursive function of CaughtUp exists.
LEMMA Catching ==
    ASSUME NEW m \in Matrix, NEW q \in Seq(Code)
    PROVE  \E f : Behind(f, m, q)
<1> DEFINE Upto(n) == \E f \in [0 .. Len(q) -> Matrix] :
              f[0] = m /\ \A i \in 1 .. n : f[i] = taken(f[i - 1], q[i])
           T == {n \in Nat : n <= Len(q) => Upto(n)}
<1>1. Len(q) \in Nat
  OBVIOUS
<1>2. 0 \in T
  <2> DEFINE f == [i \in 0 .. Len(q) |-> m]
  <2>1. f \in [0 .. Len(q) -> Matrix] /\ f[0] = m
    BY <1>1
  <2> QED BY <2>1
<1>3. ASSUME NEW n \in Nat, n \in T PROVE n + 1 \in T
  <2>1. SUFFICES ASSUME n + 1 <= Len(q) PROVE Upto(n + 1)
    OBVIOUS
  <2>2. PICK f \in [0 .. Len(q) -> Matrix] :
             f[0] = m /\ \A i \in 1 .. n : f[i] = taken(f[i - 1], q[i])
    BY <1>1, <1>3, <2>1
  <2> DEFINE x == taken(f[n], q[n + 1])
             g == [f EXCEPT ![n + 1] = x]
  <2>3. q[n + 1] \in Code /\ f[n] \in Matrix /\ n + 1 \in 0 .. Len(q)
    BY <1>1, <2>1
  <2>4. x \in Matrix
    BY <2>3, TakenShows
  <2> HIDE DEF x
  <2>5. /\ g \in [0 .. Len(q) -> Matrix] /\ g[n + 1] = x
        /\ \A i \in 0 .. n : g[i] = f[i]
    BY <2>3, <2>4
  <2> HIDE DEF g
  <2>6. ASSUME NEW i \in 1 .. n + 1 PROVE g[i] = taken(g[i - 1], q[i])
    <3>1. CASE i = n + 1
      <4>1. i - 1 = n /\ g[n] = f[n]
        BY <2>5, <3>1
      <4> QED BY <2>5, <3>1, <4>1 DEF x
    <3>2. CASE i \in 1 .. n
      <4>1. i - 1 \in 0 .. n /\ i \in 0 .. n
        BY <3>2
      <4> QED BY <2>2, <2>5, <3>2, <4>1
    <3>3. i = n + 1 \/ i \in 1 .. n
      OBVIOUS
    <3> QED BY <3>1, <3>2, <3>3
  <2>7. g[0] = m
    BY <2>2, <2>5
  <2> QED BY <2>5, <2>6, <2>7
<1>4. Upto(Len(q))
  <2>1. Nat \subseteq T
    <3> HIDE DEF T
    <3> QED BY <1>2, <1>3, Inductive
  <2> QED BY <1>1, <2>1
<1> QED BY <1>4 DEF Behind

LEMMA CaughtUpIs ==
    ASSUME NEW m \in Matrix, NEW q \in Seq(Code)
    PROVE  \E f : Behind(f, m, q) /\ CaughtUp(m, q) = f[Len(q)]
<1> DEFINE Is(f) == f = [n \in 0 .. Len(q) |-> IF n = 0 THEN m ELSE taken(f[n - 1], q[n])]
           b == CHOOSE f : Is(f)
<1>1. Len(q) \in Nat
  OBVIOUS
<1>2. CaughtUp(m, q) = b[Len(q)]
  BY DEF CaughtUp
<1>3. PICK f : Behind(f, m, q)
  BY Catching
<1>4. Is(f)
  <2>1. f = [n \in 0 .. Len(q) |-> f[n]]
    BY <1>3 DEF Behind
  <2>2. \A n \in 0 .. Len(q) : f[n] = IF n = 0 THEN m ELSE taken(f[n - 1], q[n])
    BY <1>1, <1>3 DEF Behind
  <2> QED BY <2>1, <2>2
<1>5. Is(b)
  BY <1>4
<1> HIDE DEF b
<1>6. \A n \in 0 .. Len(q) : b[n] = IF n = 0 THEN m ELSE taken(b[n - 1], q[n])
  BY <1>5
<1>7. DOMAIN b = 0 .. Len(q)
  BY <1>5
<1>8. \A n \in 0 .. Len(q) : b[n] \in Matrix
  <2> DEFINE T == {n \in Nat : n <= Len(q) => b[n] \in Matrix}
  <2>1. 0 \in T
    BY <1>1, <1>6
  <2>2. ASSUME NEW n \in Nat, n \in T PROVE n + 1 \in T
    <3>1. SUFFICES ASSUME n + 1 <= Len(q) PROVE b[n + 1] \in Matrix
      OBVIOUS
    <3>2. n + 1 \in 0 .. Len(q) /\ n + 1 # 0 /\ n + 1 - 1 = n /\ q[n + 1] \in Code
      BY <1>1, <3>1
    <3>3. b[n + 1] = taken(b[n], q[n + 1])
      BY <1>6, <3>2
    <3>4. b[n] \in Matrix
      BY <1>1, <2>2, <3>1
    <3> QED BY <3>2, <3>3, <3>4, TakenShows
  <2>3. Nat \subseteq T
    <3> HIDE DEF T
    <3> QED BY <2>1, <2>2, Inductive
  <2> QED BY <1>1, <2>3
<1>9. b \in [0 .. Len(q) -> Matrix]
  <2>1. b = [n \in 0 .. Len(q) |-> b[n]]
    BY <1>5
  <2> QED BY <1>8, <2>1
<1>10. Behind(b, m, q)
  BY <1>1, <1>6, <1>9 DEF Behind
<1> QED BY <1>2, <1>10

\* The l codes behind the first j of q are those behind the first k of p.
Alike(q, j, p, k, l) ==
    /\ j \in Nat /\ k \in Nat /\ l \in Nat
    /\ j + l <= Len(q) /\ k + l <= Len(p)
    /\ \A i \in 1 .. l : q[j + i] = p[k + i]

Meet(f, j, g, k) == f[j] = g[k]

\* Two that start with the same matrix and take the same codes stay the same.
LEMMA Together ==
    ASSUME NEW q \in Seq(Code), NEW m, NEW f, Behind(f, m, q), NEW j,
           NEW p \in Seq(Code), NEW n, NEW g, Behind(g, n, p), NEW k,
           NEW l, Alike(q, j, p, k, l), Meet(f, j, g, k)
    PROVE  Meet(f, j + l, g, k + l)
<1> DEFINE T == {i \in Nat : i <= l => f[j + i] = g[k + i]}
<1>1. /\ Len(q) \in Nat /\ Len(p) \in Nat /\ j \in Nat /\ k \in Nat /\ l \in Nat
      /\ j + l <= Len(q) /\ k + l <= Len(p)
      /\ \A i \in 1 .. l : q[j + i] = p[k + i]
  BY DEF Alike
<1>2. 0 \in T
  BY <1>1 DEF Meet
<1>3. ASSUME NEW i \in Nat, i \in T PROVE i + 1 \in T
  <2>1. SUFFICES ASSUME i + 1 <= l PROVE f[j + (i + 1)] = g[k + (i + 1)]
    OBVIOUS
  <2>2. f[j + i] = g[k + i] /\ i + 1 \in 1 .. l
    BY <1>1, <1>3, <2>1
  <2>3. /\ j + (i + 1) \in 1 .. Len(q) /\ j + (i + 1) - 1 = j + i
        /\ k + (i + 1) \in 1 .. Len(p) /\ k + (i + 1) - 1 = k + i
    BY <1>1, <2>1
  <2>4. f[j + (i + 1)] = taken(f[j + i], q[j + (i + 1)])
    BY <1>1, <2>3 DEF Behind
  <2>5. g[k + (i + 1)] = taken(g[k + i], p[k + (i + 1)])
    BY <1>1, <2>3 DEF Behind
  <2>6. q[j + (i + 1)] = p[k + (i + 1)]
    BY <1>1, <2>2
  <2> QED BY <2>2, <2>4, <2>5, <2>6
<1>4. Nat \subseteq T
  <2> HIDE DEF T
  <2> QED BY <1>2, <1>3, Inductive
<1> QED BY <1>1, <1>4 DEF Meet

\* A code that is queued acts last.
LEMMA CaughtUpQueued ==
    ASSUME NEW m \in Matrix, NEW q \in Seq(Code), NEW c \in Code
    PROVE  /\ CaughtUp(m, q) \in Matrix
           /\ CaughtUp(m, Append(q, c)) = taken(CaughtUp(m, q), c)
<1> DEFINE a == Append(q, c)
<1>1. /\ a \in Seq(Code) /\ Len(a) = Len(q) + 1 /\ Len(q) \in Nat /\ a[Len(q) + 1] = c
      /\ \A i \in 1 .. Len(q) : q[i] = a[i]
  OBVIOUS
<1> HIDE DEF a
<1>2. PICK f : Behind(f, m, q) /\ CaughtUp(m, q) = f[Len(q)]
  BY CaughtUpIs
<1>3. PICK g : Behind(g, m, a) /\ CaughtUp(m, a) = g[Len(a)]
  BY <1>1, CaughtUpIs
<1>4. f[Len(q)] = g[Len(q)]
  <2>1. Meet(f, 0, g, 0)
    BY <1>2, <1>3 DEF Behind, Meet
  <2>2. Alike(q, 0, a, 0, Len(q))
    BY <1>1 DEF Alike
  <2>3. Meet(f, 0 + Len(q), g, 0 + Len(q))
    BY <1>1, <1>2, <1>3, <2>1, <2>2, Together, Zenon
  <2>4. 0 + Len(q) = Len(q)
    BY <1>1
  <2> QED BY <2>3, <2>4 DEF Meet
<1>5. g[Len(a)] = taken(g[Len(q)], c)
  <2>1. Len(a) \in 1 .. Len(a) /\ Len(a) - 1 = Len(q) /\ a[Len(a)] = c
    BY <1>1
  <2> QED BY <1>3, <2>1 DEF Behind
<1>6. f[Len(q)] \in Matrix
  BY <1>1, <1>2 DEF Behind
<1> QED BY <1>2, <1>3, <1>4, <1>5, <1>6 DEF a

\* The first code of a queue acts first.
LEMMA CaughtUpTaken ==
    ASSUME NEW m \in Matrix, NEW q \in Seq(Code), q # <<>>
    PROVE  CaughtUp(taken(m, Head(q)), Tail(q)) = CaughtUp(m, q)
<1> DEFINE t == Tail(q)
           n == taken(m, Head(q))
<1>1. /\ t \in Seq(Code) /\ Len(t) + 1 = Len(q) /\ Len(t) \in Nat /\ Head(q) = q[1]
      /\ Head(q) \in Code /\ \A i \in 1 .. Len(t) : t[i] = q[1 + i]
  OBVIOUS
<1>2. n \in Matrix
  BY <1>1, TakenShows
<1> HIDE DEF t
<1>3. PICK f : Behind(f, m, q) /\ CaughtUp(m, q) = f[Len(q)]
  BY CaughtUpIs
<1>4. PICK g : Behind(g, n, t) /\ CaughtUp(n, t) = g[Len(t)]
  BY <1>1, <1>2, CaughtUpIs
<1>5. f[1] = n
  <2>1. 1 \in 1 .. Len(q) /\ 1 - 1 = 0
    BY <1>1
  <2>2. f[1] = taken(f[1 - 1], q[1]) /\ f[0] = m
    BY <1>3, <2>1 DEF Behind
  <2> QED BY <1>1, <2>1, <2>2
<1> HIDE DEF n
<1>6. Meet(g, 0 + Len(t), f, 1 + Len(t))
  <2>1. Meet(g, 0, f, 1)
    BY <1>4, <1>5 DEF Behind, Meet
  <2>2. Alike(t, 0, q, 1, Len(t))
    BY <1>1 DEF Alike
  <2> QED BY <1>1, <1>3, <1>4, <2>1, <2>2, Together, Zenon
<1>7. 0 + Len(t) = Len(t) /\ 1 + Len(t) = Len(q)
  BY <1>1
<1> QED BY <1>3, <1>4, <1>6, <1>7 DEF Meet, t, n

\* Of what is in the matrix now, only what can be seen of a key tells what can be seen of it
\* once the emulator has caught up.
LEMMA CaughtUpShows ==
    ASSUME NEW m \in Matrix, NEW n \in Matrix, NEW q \in Seq(Code), NEW b \in Button,
           Visible(m, b) => Visible(n, b), Visible(CaughtUp(m, q), b)
    PROVE  Visible(CaughtUp(n, q), b)
<1>1. PICK f : Behind(f, m, q) /\ CaughtUp(m, q) = f[Len(q)]
  BY CaughtUpIs
<1>2. PICK g : Behind(g, n, q) /\ CaughtUp(n, q) = g[Len(q)]
  BY CaughtUpIs
<1> DEFINE T == {i \in Nat : i <= Len(q) => (Visible(f[i], b) => Visible(g[i], b))}
<1>3. Len(q) \in Nat
  OBVIOUS
<1>4. 0 \in T
  <2>1. f[0] = m /\ g[0] = n
    BY <1>1, <1>2 DEF Behind
  <2> QED BY <2>1
<1>5. ASSUME NEW i \in Nat, i \in T PROVE i + 1 \in T
  <2>1. SUFFICES ASSUME i + 1 <= Len(q) PROVE Visible(f[i + 1], b) => Visible(g[i + 1], b)
    OBVIOUS
  <2>2. i + 1 \in 1 .. Len(q) /\ i + 1 - 1 = i /\ q[i + 1] \in Code /\ i \in 0 .. Len(q)
    BY <1>3, <2>1
  <2>3. f[i] \in Matrix /\ g[i] \in Matrix
    BY <1>1, <1>2, <2>2 DEF Behind
  <2>4. f[i + 1] = taken(f[i], q[i + 1])
    BY <1>1, <2>2 DEF Behind
  <2>5. g[i + 1] = taken(g[i], q[i + 1])
    BY <1>2, <2>2 DEF Behind
  <2>6. Visible(f[i], b) => Visible(g[i], b)
    BY <1>3, <1>5, <2>1
  <2>7. (Visible(f[i], b) => Visible(g[i], b))
          => (Visible(taken(f[i], q[i + 1]), b) => Visible(taken(g[i], q[i + 1]), b))
    BY <2>2, <2>3, TakenShows, Zenon
  <2> QED BY <2>4, <2>5, <2>6, <2>7, Zenon
<1>6. Nat \subseteq T
  <2> HIDE DEF T
  <2> QED BY <1>4, <1>5, Inductive
<1>7. Visible(f[Len(q)], b) => Visible(g[Len(q)], b)
  BY <1>3, <1>6
<1> QED BY <1>1, <1>2, <1>7

----------------------------------------------------------------------------
(* What the steps of HPView, of GetEvent and of do_in make of the matrix   *)
(* to come.                                                                *)

Ends(k) == CaughtUp(Now(k), k.queuedCodes)

LEMMA NoneIsNoButton == None \notin Button
BY Keyboards DEF None

LEMMA EndsIsAMatrix ==
    ASSUME NEW k \in Keys
    PROVE  Now(k) \in Matrix /\ Ends(k) \in Matrix /\ k.rows \in Matrix
<1>1. /\ k.rows \in Matrix /\ k.queuedCodes \in Seq(Code)
      /\ k.release_pending \in Button \cup {None}
  BY DEF Keys
<1>2. Now(k) \in Matrix
  BY <1>1, ReleaseShows DEF Now
<1>3. On \in Button /\ press_code(On) \in Code
  BY Keyboards, Codes
<1> QED BY <1>1, <1>2, <1>3, CaughtUpQueued DEF Ends

LEMMA QueuedEnds ==
    ASSUME NEW k \in Keys, NEW c \in Code
    PROVE  queued(k, c) \in Keys /\ Ends(queued(k, c)) = taken(Ends(k), c)
<1> DEFINE q == queued(k, c)
<1>1. /\ k.rows \in Matrix /\ k.queuedCodes \in Seq(Code)
      /\ k.release_pending \in Button \cup {None}
  BY DEF Keys
<1>2. Append(k.queuedCodes, c) \in Seq(Code)
  BY <1>1
<1>3. /\ q \in Keys /\ q.rows = k.rows /\ q.release_pending = k.release_pending
      /\ q.queuedCodes = Append(k.queuedCodes, c)
  BY <1>1, <1>2 DEF queued, Keys
<1> HIDE DEF q
<1>4. Now(q) = Now(k) /\ Now(k) \in Matrix
  BY <1>3, EndsIsAMatrix DEF Now
<1>5. CaughtUp(Now(k), Append(k.queuedCodes, c)) = taken(CaughtUp(Now(k), k.queuedCodes), c)
  BY <1>1, <1>4, CaughtUpQueued
<1> QED BY <1>3, <1>4, <1>5 DEF Ends, q

\* A press that is taken, a release that is put off and one that acts: no call of GetEvent
\* changes what the matrix will be.
LEMMA PolledEnds ==
    ASSUME NEW k \in Keys
    PROVE  polled(k) \in Keys /\ Ends(polled(k)) = Ends(k)
<1> DEFINE q == polled(k)
           c == Head(k.queuedCodes)
           rest == Tail(k.queuedCodes)
<1>1. /\ k.rows \in Matrix /\ k.queuedCodes \in Seq(Code)
      /\ k.release_pending \in Button \cup {None}
  BY DEF Keys
<1>2. CASE k.release_pending # None
  <2> DEFINE m == released(k.rows, k.release_pending)
             o == [k EXCEPT !.rows = m]
  <2>1. m \in Matrix
    BY <1>1, <1>2, ReleaseShows
  <2>2. q = [o EXCEPT !.release_pending = None]
    <3>1. NextPress(k) = None
      BY <1>2 DEF NextPress
    <3>2. q = [k EXCEPT !.rows = m, !.release_pending = None]
      BY <1>2, <3>1 DEF polled, Keys
    <3> HIDE DEF q, m
    <3> QED BY <3>2 DEF Keys
  <2>3. Now(k) = m
    BY <1>2 DEF Now
  <2> HIDE DEF m
  <2>4. o \in Keys /\ o.rows = m /\ o.queuedCodes = k.queuedCodes
    BY <2>1 DEF Keys
  <2> HIDE DEF o, q
  <2>5. q \in Keys /\ q.rows = m /\ q.queuedCodes = k.queuedCodes /\ q.release_pending = None
    BY <2>2, <2>4 DEF Keys
  <2> QED BY <2>3, <2>5 DEF Ends, Now, q
<1>3. CASE k.release_pending = None /\ k.queuedCodes = <<>>
  <2>1. NextPress(k) = None
    BY <1>3 DEF NextPress
  <2> QED BY <1>3, <2>1 DEF polled
<1>4. CASE k.release_pending = None /\ k.queuedCodes # <<>>
  <2>1. c \in Code /\ rest \in Seq(Code)
    BY <1>1, <1>4
  <2>2. CaughtUp(taken(k.rows, c), rest) = CaughtUp(k.rows, k.queuedCodes)
    BY <1>1, <1>4, CaughtUpTaken
  <2>3. Now(k) = k.rows
    BY <1>4 DEF Now
  <2>4. CASE IsPress(c) /\ c - 1 \in Button
    <3> DEFINE m == pressed(k.rows, c - 1)
               o == [k EXCEPT !.rows = m]
    <3>1. NextPress(k) = c - 1 /\ c - 1 # None
      BY <1>4, <2>4, NoneIsNoButton DEF NextPress
    <3>2. q = [o EXCEPT !.queuedCodes = rest]
      BY <1>4, <3>1 DEF polled, Keys
    <3>3. m \in Matrix /\ m = taken(k.rows, c)
      BY <1>1, <2>4, PressShows DEF taken
    <3> HIDE DEF m, c, rest
    <3>4. o \in Keys /\ o.rows = m /\ o.release_pending = None
      BY <1>4, <3>3 DEF Keys
    <3> HIDE DEF o, q
    <3>5. q \in Keys /\ q.rows = m /\ q.release_pending = None /\ q.queuedCodes = rest
      BY <2>1, <3>2, <3>4 DEF Keys
    <3> QED BY <2>2, <2>3, <3>3, <3>5 DEF Ends, Now, q
  <2>5. CASE ~IsPress(c) /\ c - 100 \in Button
    <3> DEFINE b == c - 100
               o == [k EXCEPT !.release_pending = b]
    <3>1. NextPress(k) = None
      BY <2>5 DEF NextPress
    <3>2. q = [o EXCEPT !.queuedCodes = rest]
      BY <1>4, <3>1 DEF polled, Keys
    <3>3. b \in Button /\ b # None /\ released(k.rows, b) = taken(k.rows, c)
      BY <2>5, NoneIsNoButton DEF taken
    <3> HIDE DEF b, c, rest
    <3>4. o \in Keys /\ o.rows = k.rows /\ o.release_pending = b
      BY <3>3 DEF Keys
    <3> HIDE DEF o, q
    <3>5. q \in Keys /\ q.rows = k.rows /\ q.release_pending = b /\ q.queuedCodes = rest
      BY <2>1, <3>2, <3>4 DEF Keys
    <3> QED BY <2>2, <2>3, <3>3, <3>5 DEF Ends, Now, q
  <2> QED BY <2>1, <2>4, <2>5, Codes
<1> QED BY <1>2, <1>3, <1>4

\* The program clears rows of the matrix: what cannot be seen less cannot be seen less then.
LEMMA ClearedEnds ==
    ASSUME NEW k \in Keys, NEW m \in Matrix
    PROVE  LET q == [k EXCEPT !.rows = m]
           IN  /\ q \in Keys
               /\ \A b \in Button :
                    /\ (Visible(m, b) => Visible(k.rows, b))
                         => (Visible(Ends(q), b) => Visible(Ends(k), b))
                    /\ (Visible(k.rows, b) => Visible(m, b))
                         => (Visible(Ends(k), b) => Visible(Ends(q), b))
<1> DEFINE q == [k EXCEPT !.rows = m]
<1>1. /\ k.rows \in Matrix /\ k.queuedCodes \in Seq(Code)
      /\ k.release_pending \in Button \cup {None}
  BY DEF Keys
<1>2. /\ q \in Keys /\ q.rows = m /\ q.queuedCodes = k.queuedCodes
      /\ q.release_pending = k.release_pending
  BY DEF Keys
<1> HIDE DEF q
<1>3. Now(q) \in Matrix /\ Now(k) \in Matrix
  BY <1>2, EndsIsAMatrix
<1>4. ASSUME NEW b \in Button
      PROVE  /\ (Visible(m, b) => Visible(k.rows, b)) => (Visible(Now(q), b) => Visible(Now(k), b))
             /\ (Visible(k.rows, b) => Visible(m, b)) => (Visible(Now(k), b) => Visible(Now(q), b))
  <2>1. CASE k.release_pending = None
    BY <1>2, <2>1 DEF Now
  <2>2. CASE k.release_pending # None
    <3>1. k.release_pending \in Button
      BY <1>1, <2>2
    <3>2. Now(q) = released(m, k.release_pending) /\ Now(k) = released(k.rows, k.release_pending)
      BY <1>2, <2>2 DEF Now
    <3>3. /\ Visible(Now(q), b) <=> k.release_pending # On /\ b # k.release_pending /\ Visible(m, b)
          /\ Visible(Now(k), b) <=> k.release_pending # On /\ b # k.release_pending /\ Visible(k.rows, b)
      BY <1>1, <3>1, <3>2, ReleaseShows
    <3> QED BY <3>3
  <2> QED BY <2>1, <2>2
<1>5. ASSUME NEW b \in Button
      PROVE  /\ (Visible(m, b) => Visible(k.rows, b))
                  => (Visible(Ends(q), b) => Visible(Ends(k), b))
             /\ (Visible(k.rows, b) => Visible(m, b))
                  => (Visible(Ends(k), b) => Visible(Ends(q), b))
  BY <1>1, <1>2, <1>3, <1>4, CaughtUpShows DEF Ends
<1> QED BY <1>2, <1>5 DEF q

----------------------------------------------------------------------------
(* The inductive invariant.                                                *)

\* A pointer that touches a button is on it, and a button nobody touches will come up.
Owned ==
    ~cancelled => \A b \in Button : /\ touches[b] \in Pointer => finger[touches[b]] = b
                                    /\ touches[b] = Hardware => b \in hard
                                    /\ touches[b] = 0 => ~Visible(Ends(kbd), b)

\* A button that is touched will be seen.
Seen == \A b \in Button : touches[b] # 0 /\ b \notin wiped => Visible(Ends(kbd), b)

\* No release waits behind a key that was just pressed.
Sure ==
    /\ \A b \in fresh : Down(kbd.rows, b)
    /\ fresh # {} => kbd.release_pending = None

Sound ==
    /\ kbd \in Keys
    /\ touches \in [Button -> Pointer \cup {0, Hardware}]
    /\ finger \in [Pointer -> Button \cup {Up, NoButton}]
    /\ hard \subseteq Button
    /\ fresh \subseteq Button

IInv == Sound /\ Owned /\ Seen /\ Sure

LEMMA Pointers ==
    /\ \A p \in Pointer : p \in Nat /\ p # 0 /\ p # Hardware
    /\ Hardware # 0 /\ NoButton \notin Button /\ Up \notin Button
BY KeyboardAssumption, Keyboards DEF Hardware, NoButton, Up

\* What key leaves, of a press and of a release.
KeyDown(b, p) ==
    /\ kbd' \in Keys /\ kbd'.rows = kbd.rows /\ kbd'.release_pending = kbd.release_pending
    /\ touches' \in [Button -> Pointer \cup {0, Hardware}]
    /\ touches'[b] = p /\ \A c \in Button \ {b} : touches'[c] = touches[c]
    /\ wiped' = wiped \ {b}
    /\ \A c \in Button : Visible(Ends(kbd'), c) <=> c = b \/ Visible(Ends(kbd), c)

KeyUp(b) ==
    /\ kbd' \in Keys /\ kbd'.rows = kbd.rows /\ kbd'.release_pending = kbd.release_pending
    /\ touches' \in [Button -> Pointer \cup {0, Hardware}]
    /\ touches'[b] = 0 /\ \A c \in Button \ {b} : touches'[c] = touches[c]
    /\ wiped' = IF b = On THEN Button ELSE wiped
    /\ \A c \in Button : Visible(Ends(kbd'), c) <=> b # On /\ c # b /\ Visible(Ends(kbd), c)

LEMMA QueuedSame ==
    ASSUME NEW k \in Keys, NEW c
    PROVE  queued(k, c).rows = k.rows /\ queued(k, c).release_pending = k.release_pending
BY DEF queued, Keys

LEMMA KeyDownIs ==
    ASSUME Sound, NEW b \in Button, NEW p \in Pointer \cup {Hardware}, key(b, TRUE, p)
    PROVE  KeyDown(b, p)
<1>1. /\ kbd' = queued(kbd, press_code(b)) /\ touches' = [touches EXCEPT ![b] = p]
      /\ wiped' = wiped \ {b}
  BY DEF key
<1>2. kbd \in Keys /\ Ends(kbd) \in Matrix /\ touches \in [Button -> Pointer \cup {0, Hardware}]
  BY EndsIsAMatrix DEF Sound
<1>3. press_code(b) \in Code /\ IsPress(press_code(b)) /\ press_code(b) - 1 = b
  BY Codes
<1>4. /\ kbd' \in Keys /\ Ends(kbd') = taken(Ends(kbd), press_code(b))
      /\ kbd'.rows = kbd.rows /\ kbd'.release_pending = kbd.release_pending
  BY <1>1, <1>2, <1>3, QueuedEnds, QueuedSame
<1>5. Ends(kbd') = pressed(Ends(kbd), b)
  BY <1>3, <1>4 DEF taken
<1>6. \A c \in Button : Visible(Ends(kbd'), c) <=> c = b \/ Visible(Ends(kbd), c)
  BY <1>2, <1>5, PressShows
<1>7. /\ touches' \in [Button -> Pointer \cup {0, Hardware}]
      /\ touches'[b] = p /\ \A c \in Button \ {b} : touches'[c] = touches[c]
  BY <1>1, <1>2
<1> QED BY <1>1, <1>4, <1>6, <1>7 DEF KeyDown

LEMMA KeyUpIs ==
    ASSUME Sound, NEW b \in Button, NEW p, key(b, FALSE, p)
    PROVE  KeyUp(b) /\ kbd' = queued(kbd, release_code(b))
<1>1. /\ kbd' = queued(kbd, release_code(b)) /\ touches' = [touches EXCEPT ![b] = 0]
      /\ wiped' = IF b = On THEN Button ELSE wiped
  BY DEF key
<1>2. kbd \in Keys /\ Ends(kbd) \in Matrix /\ touches \in [Button -> Pointer \cup {0, Hardware}]
  BY EndsIsAMatrix DEF Sound
<1>3. release_code(b) \in Code /\ ~IsPress(release_code(b)) /\ release_code(b) - 100 = b
  BY Codes
<1>4. /\ kbd' \in Keys /\ Ends(kbd') = taken(Ends(kbd), release_code(b))
      /\ kbd'.rows = kbd.rows /\ kbd'.release_pending = kbd.release_pending
  BY <1>1, <1>2, <1>3, QueuedEnds, QueuedSame
<1>5. Ends(kbd') = released(Ends(kbd), b)
  BY <1>3, <1>4 DEF taken
<1>6. \A c \in Button : Visible(Ends(kbd'), c) <=> b # On /\ c # b /\ Visible(Ends(kbd), c)
  BY <1>2, <1>5, ReleaseShows
<1>7. /\ touches' \in [Button -> Pointer \cup {0, Hardware}]
      /\ touches'[b] = 0 /\ \A c \in Button \ {b} : touches'[c] = touches[c]
  BY <1>1, <1>2
<1> QED BY <1>1, <1>4, <1>6, <1>7 DEF KeyUp

\* As long as no gesture was cancelled, a pointer touches the button it is on, or none.
LEMMA TouchesItsOwn ==
    ASSUME IInv, ~cancelled, NEW p \in Pointer, PressedBy(p) # {}
    PROVE  finger[p] \in Button /\ Min(PressedBy(p)) = finger[p] /\ touches[finger[p]] = p
<1>1. \A b \in PressedBy(p) : b \in Button /\ b \in Nat /\ touches[b] = p /\ finger[p] = b
  BY Keyboards DEF IInv, Owned, PressedBy
<1>2. PressedBy(p) = {finger[p]} /\ finger[p] \in Nat
  BY <1>1
<1>3. Min({finger[p]}) = finger[p]
  BY <1>2 DEF Min
<1> QED BY <1>1, <1>2, <1>3

LEMMA MinIsOneOfThem ==
    ASSUME NEW p, PressedBy(p) # {}
    PROVE  Min(PressedBy(p)) \in Button
<1>1. PressedBy(p) \subseteq Button /\ \A b \in Button : b \in Nat /\ b < 49
  BY Keyboards DEF PressedBy
<1> DEFINE S == PressedBy(p)
<1> HIDE DEF S
<1>2. \E x \in S : \A y \in S : x <= y
  <2> SUFFICES ASSUME ~\E x \in S : \A y \in S : x <= y PROVE FALSE
    OBVIOUS
  <2>1. S \subseteq Nat
    BY <1>1 DEF S
  <2> DEFINE U == {n \in Nat : \A x \in S : n <= x}
  <2>2. 0 \in U
    BY <2>1
  <2>3. ASSUME NEW n \in Nat, n \in U PROVE n + 1 \in U
    <3>1. n \notin S
      BY <2>3
    <3> QED BY <2>1, <2>3, <3>1
  <2>4. Nat \subseteq U
    <3> HIDE DEF U
    <3> QED BY <2>2, <2>3, Inductive
  <2>5. PICK x \in S : TRUE
    BY DEF S
  <2>6. x + 1 \in U /\ x \in Nat
    BY <2>1, <2>4, <2>5
  <2> QED BY <2>5, <2>6
<1>3. Min(S) \in S
  BY <1>2 DEF Min
<1> QED BY <1>1, <1>3 DEF S

LEMMA InitIInv == Init => IInv
<1> SUFFICES ASSUME Init PROVE IInv
  OBVIOUS
<1>1. /\ finger = [p \in Pointer |-> Up] /\ hard = {} /\ touches = [b \in Button |-> 0]
      /\ kbd = InitKeys /\ fresh = {} /\ wiped = {}
  BY DEF Init
<1>2. NoKeys \in Matrix /\ InitKeys \in Keys
  BY DEF NoKeys, Matrix, InitKeys, Keys
<1>3. Sound
  BY <1>1, <1>2 DEF Sound
<1>4. Ends(kbd) = NoKeys
  <2>1. Now(kbd) = NoKeys /\ kbd.queuedCodes = <<>> /\ <<>> \in Seq(Code)
    BY <1>1 DEF Now, InitKeys
  <2>2. PICK f : Behind(f, NoKeys, <<>>) /\ CaughtUp(NoKeys, <<>>) = f[Len(<<>>)]
    BY <1>2, <2>1, CaughtUpIs
  <2>3. f[0] = NoKeys /\ Len(<<>>) = 0
    BY <2>2 DEF Behind
  <2> QED BY <2>1, <2>2, <2>3 DEF Ends
<1>5. \A b \in Button : ~Visible(NoKeys, b)
  BY Keyboards DEF Visible, NoKeys, Ordinary
<1>6. Owned
  BY <1>1, <1>4, <1>5, Pointers DEF Owned
<1> QED BY <1>1, <1>3, <1>6 DEF IInv, Seen, Sure

\* A press keeps everything but that the finger or the hardware key be where it is.
LEMMA PressKeeps ==
    ASSUME IInv, NEW b \in Button, NEW p \in Pointer \cup {Hardware}, KeyDown(b, p),
           UNCHANGED <<fresh, cancelled>>,
           finger' \in [Pointer -> Button \cup {Up, NoButton}], hard' \subseteq Button,
           \A q \in Pointer : finger[q] \in Button => finger'[q] = finger[q],
           hard \subseteq hard', p \in Pointer => finger'[p] = b, p = Hardware => b \in hard'
    PROVE  IInv'
<1>1. Sound /\ Owned /\ Seen /\ Sure
  BY DEF IInv
<1>2. Sound'
  BY <1>1 DEF Sound, KeyDown
<1>3. Owned'
  <2> SUFFICES ASSUME ~cancelled, NEW c \in Button
               PROVE  /\ touches'[c] \in Pointer => finger'[touches'[c]] = c
                      /\ touches'[c] = Hardware => c \in hard'
                      /\ touches'[c] = 0 => ~Visible(Ends(kbd'), c)
    BY DEF Owned
  <2>1. CASE c = b
    BY <2>1, Pointers DEF KeyDown
  <2>2. CASE c # b
    <3>1. /\ touches'[c] = touches[c]
          /\ Visible(Ends(kbd'), c) <=> Visible(Ends(kbd), c)
      BY <2>2 DEF KeyDown
    <3>2. /\ touches[c] \in Pointer => finger[touches[c]] = c
          /\ touches[c] = Hardware => c \in hard
          /\ touches[c] = 0 => ~Visible(Ends(kbd), c)
      BY <1>1 DEF Owned
    <3> QED BY <3>1, <3>2
  <2> QED BY <2>1, <2>2
<1>4. Seen'
  BY <1>1 DEF Seen, KeyDown
<1>5. Sure'
  BY <1>1 DEF Sure, KeyDown
<1> QED BY <1>2, <1>3, <1>4, <1>5 DEF IInv

\* A release keeps everything but that its button be touched.
LEMMA ReleaseKeeps ==
    ASSUME IInv, NEW b \in Button, KeyUp(b),
           UNCHANGED <<fresh, cancelled>>,
           finger' \in [Pointer -> Button \cup {Up, NoButton}], hard' \subseteq Button,
           ~cancelled => \A q \in Pointer, c \in Button \ {b} : finger[q] = c => finger'[q] = c,
           hard \ {b} \subseteq hard'
    PROVE  IInv'
<1>1. Sound /\ Owned /\ Seen /\ Sure
  BY DEF IInv
<1>2. Sound'
  BY <1>1 DEF Sound, KeyUp
<1>3. Owned'
  <2> SUFFICES ASSUME ~cancelled, NEW c \in Button
               PROVE  /\ touches'[c] \in Pointer => finger'[touches'[c]] = c
                      /\ touches'[c] = Hardware => c \in hard'
                      /\ touches'[c] = 0 => ~Visible(Ends(kbd'), c)
    BY DEF Owned
  <2>1. CASE c = b
    BY <2>1, Pointers DEF KeyUp
  <2>2. CASE c # b
    <3>1. /\ touches'[c] = touches[c]
          /\ Visible(Ends(kbd'), c) => Visible(Ends(kbd), c)
      BY <2>2 DEF KeyUp
    <3>2. /\ touches[c] \in Pointer => finger[touches[c]] = c
          /\ touches[c] = Hardware => c \in hard
          /\ touches[c] = 0 => ~Visible(Ends(kbd), c)
      BY <1>1 DEF Owned
    <3> QED BY <2>2, <3>1, <3>2
  <2> QED BY <2>1, <2>2
<1>4. Seen'
  BY <1>1, Keyboards DEF Seen, KeyUp
<1>5. Sure'
  BY <1>1 DEF Sure, KeyUp
<1> QED BY <1>2, <1>3, <1>4, <1>5 DEF IInv

LEMMA FingerDownKeeps ==
    ASSUME IInv, NEW p \in Pointer, FingerDown(p)
    PROVE  IInv'
<1>1. /\ finger[p] = Up /\ UNCHANGED <<hard, cancelled, fresh>> /\ Sound
  BY DEF FingerDown, native, IInv
<1>2. PICK b \in Button \cup {NoButton} :
        /\ finger' = [finger EXCEPT ![p] = b]
        /\ IF b = NoButton THEN UNCHANGED <<touches, kbd, wiped>> ELSE key(b, TRUE, p)
  BY DEF FingerDown
<1>3. /\ finger' \in [Pointer -> Button \cup {Up, NoButton}] /\ finger'[p] = b
      /\ \A q \in Pointer : finger[q] \in Button => finger'[q] = finger[q]
  BY <1>1, <1>2, Pointers DEF Sound
<1>4. CASE b = NoButton
  <2>1. UNCHANGED <<touches, kbd, wiped>>
    BY <1>2, <1>4
  <2>2. Sound' /\ Seen' /\ Sure'
    BY <1>1, <1>3, <2>1 DEF IInv, Sound, Seen, Sure
  <2>3. Owned'
    BY <1>1, <1>3, <2>1 DEF IInv, Owned
  <2> QED BY <2>2, <2>3 DEF IInv
<1>5. CASE b # NoButton
  <2>1. b \in Button /\ key(b, TRUE, p)
    BY <1>2, <1>5
  <2>2. KeyDown(b, p)
    BY <1>1, <2>1, KeyDownIs
  <2>3. p # Hardware /\ hard' \subseteq Button
    BY <1>1, Pointers DEF Sound
  <2> QED BY <1>1, <1>3, <2>1, <2>2, <2>3, PressKeeps
<1> QED BY <1>4, <1>5

LEMMA FingerUpKeeps ==
    ASSUME IInv, NEW p \in Pointer, FingerUp(p)
    PROVE  /\ IInv'
           /\ cancelled \/ kbd' = kbd \/ kbd' = queued(kbd, release_code(finger[p]))
<1>1. /\ UNCHANGED <<hard, cancelled, fresh>> /\ Sound /\ finger' = [finger EXCEPT ![p] = Up]
      /\ IF PressedBy(p) = {} THEN UNCHANGED <<touches, kbd, wiped>>
         ELSE key(Min(PressedBy(p)), FALSE, p)
  BY DEF FingerUp, native, IInv
<1>2. /\ finger' \in [Pointer -> Button \cup {Up, NoButton}]
      /\ \A q \in Pointer \ {p} : finger'[q] = finger[q]
  BY <1>1 DEF Sound
<1>3. CASE PressedBy(p) = {}
  <2>1. UNCHANGED <<touches, kbd, wiped>>
    BY <1>1, <1>3
  <2>2. Sound' /\ Seen' /\ Sure'
    BY <1>1, <1>2, <2>1 DEF IInv, Sound, Seen, Sure
  <2>3. \A b \in Button : touches[b] # p
    BY <1>3 DEF PressedBy
  <2>4. Owned'
    BY <1>1, <1>2, <2>1, <2>3 DEF IInv, Owned
  <2> QED BY <2>1, <2>2, <2>4 DEF IInv
<1>4. CASE PressedBy(p) # {}
  <2> DEFINE b == Min(PressedBy(p))
  <2>1. b \in Button /\ key(b, FALSE, p)
    BY <1>1, <1>4, MinIsOneOfThem
  <2>2. ~cancelled => b = finger[p]
    BY <1>4, TouchesItsOwn
  <2> HIDE DEF b
  <2>3. KeyUp(b) /\ kbd' = queued(kbd, release_code(b))
    BY <1>1, <2>1, KeyUpIs
  <2>4. ~cancelled => \A q \in Pointer, c \in Button \ {b} : finger[q] = c => finger'[q] = c
    BY <1>2, <2>2
  <2>5. hard' \subseteq Button /\ hard \ {b} \subseteq hard'
    BY <1>1 DEF Sound
  <2>6. IInv'
    BY <1>1, <1>2, <2>1, <2>3, <2>4, <2>5, ReleaseKeeps
  <2> QED BY <2>2, <2>3, <2>6
<1> QED BY <1>3, <1>4

LEMMA HardKeyKeeps ==
    ASSUME IInv, NEW b \in Button, HardKey(b)
    PROVE  IInv'
<1>1. UNCHANGED <<finger, cancelled, fresh>> /\ Sound
  BY DEF HardKey, native, IInv
<1>2. finger' \in [Pointer -> Button \cup {Up, NoButton}] /\ finger' = finger
  BY <1>1 DEF Sound
<1>3. CASE hard' = hard \cup {b} /\ key(b, TRUE, Hardware)
  <2>1. KeyDown(b, Hardware)
    BY <1>1, <1>3, KeyDownIs
  <2>2. hard' \subseteq Button /\ hard \subseteq hard' /\ b \in hard' /\ Hardware \notin Pointer
    BY <1>1, <1>3, Pointers DEF Sound
  <2> QED BY <1>1, <1>2, <2>1, <2>2, PressKeeps
<1>4. CASE hard' = hard \ {b} /\ key(b, FALSE, Hardware)
  <2>1. KeyUp(b)
    BY <1>1, <1>4, KeyUpIs
  <2>2. hard' \subseteq Button /\ hard \ {b} \subseteq hard'
    BY <1>1, <1>4 DEF Sound
  <2> QED BY <1>1, <1>2, <2>1, <2>2, ReleaseKeeps
<1> QED BY <1>3, <1>4 DEF HardKey

LEMMA CancelKeeps ==
    ASSUME IInv, Cancel
    PROVE  IInv'
<1>1. /\ finger' = [p \in Pointer |-> Up] /\ cancelled'
      /\ UNCHANGED <<hard, touches, kbd, fresh, wiped>> /\ Sound
  BY DEF Cancel, native, IInv
<1>2. Sound'
  BY <1>1 DEF Sound
<1>3. Owned' /\ Seen' /\ Sure'
  BY <1>1 DEF IInv, Owned, Seen, Sure
<1> QED BY <1>2, <1>3 DEF IInv

\* GetEvent lets go of no key it has just pressed, and puts no release off behind a press.
LEMMA PolledHolds ==
    ASSUME NEW k \in Keys
    PROVE  /\ NextPress(k) \in Button \cup {None}
           /\ NextPress(k) # None => /\ polled(k).release_pending = None
                                     /\ Down(polled(k).rows, NextPress(k))
           /\ k.release_pending = None =>
                \A b \in Button : Down(k.rows, b) => Down(polled(k).rows, b)
<1> DEFINE c == Head(k.queuedCodes)
           q == polled(k)
<1>1. /\ k.rows \in Matrix /\ k.queuedCodes \in Seq(Code)
      /\ k.release_pending \in Button \cup {None}
  BY DEF Keys
<1>2. NextPress(k) \in Button \cup {None}
  <2>1. CASE k.release_pending = None /\ k.queuedCodes # <<>> /\ IsPress(c)
    <3>1. c \in Code
      BY <1>1, <2>1
    <3>2. c - 1 \in Button
      BY <2>1, <3>1, Codes
    <3> QED BY <2>1, <3>2 DEF NextPress
  <2>2. CASE ~(k.release_pending = None /\ k.queuedCodes # <<>> /\ IsPress(c))
    BY <2>2 DEF NextPress
  <2> QED BY <2>1, <2>2
<1>3. CASE NextPress(k) # None
  <2>1. k.release_pending = None /\ k.queuedCodes # <<>>
    BY <1>3 DEF NextPress
  <2> DEFINE b == NextPress(k)
             m == pressed(k.rows, b)
             o == [k EXCEPT !.rows = m]
  <2>2. q = [o EXCEPT !.queuedCodes = Tail(k.queuedCodes)]
    <3>1. q = [k EXCEPT !.rows = m, !.queuedCodes = Tail(k.queuedCodes)]
      BY <1>3, <2>1, Zenon DEF polled
    <3> HIDE DEF q, m
    <3> QED BY <3>1 DEF Keys
  <2>3. b \in Button
    BY <1>2, <1>3
  <2> HIDE DEF b
  <2>4. Down(m, b) /\ \A d \in Button : Down(k.rows, d) => Down(m, d)
    BY <1>1, <2>3, PressShows
  <2> HIDE DEF m
  <2>5. q.rows = m /\ q.release_pending = None
    BY <2>1, <2>2 DEF Keys
  <2> HIDE DEF q
  <2> QED BY <1>2, <2>4, <2>5 DEF q, b
<1>4. CASE NextPress(k) = None
  <2>1. SUFFICES ASSUME k.release_pending = None PROVE polled(k).rows = k.rows
    BY <1>2, <1>4
  <2>2. CASE k.queuedCodes = <<>>
    BY <1>4, <2>1, <2>2 DEF polled
  <2>3. CASE k.queuedCodes # <<>>
    BY <1>4, <2>1, <2>3 DEF polled, Keys
  <2> QED BY <2>2, <2>3
<1> QED BY <1>3, <1>4

LEMMA GetEventKeeps ==
    ASSUME IInv, GetEvent
    PROVE  IInv' /\ \A b \in fresh : Down(kbd'.rows, b)
<1>1. /\ kbd' = polled(kbd) /\ fresh' = {NextPress(kbd)} \ {None} /\ kbd \in Keys
      /\ UNCHANGED <<finger, hard, cancelled, touches, wiped>>
      /\ Sound /\ Owned /\ Seen /\ Sure
  BY DEF GetEvent, environment, IInv, Sound
<1>2. kbd' \in Keys /\ Ends(kbd') = Ends(kbd)
  BY <1>1, PolledEnds
<1>3. /\ NextPress(kbd) \in Button \cup {None}
      /\ NextPress(kbd) # None => /\ kbd'.release_pending = None
                                  /\ Down(kbd'.rows, NextPress(kbd))
      /\ kbd.release_pending = None =>
           \A b \in Button : Down(kbd.rows, b) => Down(kbd'.rows, b)
  BY <1>1, PolledHolds
<1>4. Sound'
  BY <1>1, <1>2, <1>3 DEF Sound
<1>5. Owned' /\ Seen'
  BY <1>1, <1>2 DEF Owned, Seen
<1>6. Sure'
  BY <1>1, <1>3 DEF Sure
<1>7. \A b \in fresh : Down(kbd'.rows, b)
  BY <1>1, <1>3 DEF Sure, Sound
<1> QED BY <1>4, <1>5, <1>6, <1>7 DEF IInv

LEMMA ClearedShows ==
    ASSUME NEW m \in Matrix, NEW out
    PROVE  /\ ClearRows(m, out) \in Matrix
           /\ \A b \in Button : Visible(ClearRows(m, out), b) => Visible(m, b)
<1> DEFINE p == ClearRows(m, out)
<1>1. p \in Matrix /\ \A r \in Row : p[r] \subseteq m[r]
  BY DEF ClearRows, Matrix
<1> HIDE DEF p
<1>2. ASSUME NEW b \in Button, Visible(p, b) PROVE Visible(m, b)
  <2>1. CASE b = On
    BY <1>1, <1>2, <2>1 DEF Visible
  <2>2. CASE b # On
    <3>1. RowOf[b] \in Row
      BY <2>2, Keyboards DEF Ordinary
    <3> QED BY <1>1, <1>2, <2>2, <3>1 DEF Visible
  <2> QED BY <2>1, <2>2
<1> QED BY <1>1, <1>2 DEF p

LEMMA DoInKeeps ==
    ASSUME IInv, NEW out, NEW atPatch, do_in(out, atPatch)
    PROVE  IInv'
<1> DEFINE clear == atPatch /\ ~first_press /\ RepeatSeen(kbd.rows, out)
           after == IF clear THEN ClearRows(kbd.rows, out) ELSE kbd.rows
<1>1. /\ kbd' = [kbd EXCEPT !.rows = after]
      /\ fresh' = fresh \cap {b \in Button : Down(after, b)}
      /\ wiped' = wiped \cup ({b \in Button : Visible(kbd.rows, b)} \ {b \in Button : Visible(after, b)})
      /\ UNCHANGED <<finger, hard, cancelled, touches>>
  BY DEF do_in, environment
<1>2. Sound /\ Owned /\ Seen /\ Sure /\ kbd \in Keys /\ kbd.rows \in Matrix
  BY EndsIsAMatrix DEF IInv, Sound
<1>3. after \in Matrix /\ \A b \in Button : Visible(after, b) => Visible(kbd.rows, b)
  BY <1>2, ClearedShows
<1> HIDE DEF after
<1>4. kbd' \in Keys
  BY <1>1, <1>2, <1>3, ClearedEnds
<1>5. ASSUME NEW b \in Button
      PROVE  /\ Visible(Ends(kbd'), b) => Visible(Ends(kbd), b)
             /\ b \notin wiped' => b \notin wiped /\ (Visible(Ends(kbd), b) => Visible(Ends(kbd'), b))
  <2>1. /\ (Visible(after, b) => Visible(kbd.rows, b))
             => (Visible(Ends(kbd'), b) => Visible(Ends(kbd), b))
        /\ (Visible(kbd.rows, b) => Visible(after, b))
             => (Visible(Ends(kbd), b) => Visible(Ends(kbd'), b))
    BY <1>1, <1>2, <1>3, ClearedEnds
  <2> QED BY <1>1, <1>3, <2>1
<1>6. kbd'.rows = after /\ kbd'.release_pending = kbd.release_pending
  BY <1>1, <1>2 DEF Keys
<1>7. Sound'
  BY <1>1, <1>2, <1>4 DEF Sound
<1>8. Owned'
  BY <1>1, <1>2, <1>5 DEF Owned
<1>9. Seen'
  BY <1>1, <1>2, <1>5 DEF Seen
<1>10. Sure'
  BY <1>1, <1>2, <1>6 DEF Sure
<1> QED BY <1>7, <1>8, <1>9, <1>10 DEF IInv

LEMMA NextIInv == IInv /\ [Next]_vars => IInv'
<1> SUFFICES ASSUME IInv, [Next]_vars PROVE IInv'
  OBVIOUS
<1>1. CASE \E p \in Pointer : FingerDown(p) \/ FingerUp(p)
  BY <1>1, FingerDownKeeps, FingerUpKeeps
<1>2. CASE \E b \in Button : HardKey(b)
  BY <1>2, HardKeyKeeps
<1>3. CASE Cancel
  BY <1>3, CancelKeeps
<1>4. CASE GetEvent
  BY <1>4, GetEventKeeps
<1>5. CASE \E out \in SUBSET Row, atPatch \in BOOLEAN : do_in(out, atPatch)
  BY <1>5, DoInKeeps
<1>6. CASE UNCHANGED vars
  <2>1. UNCHANGED <<finger, hard, cancelled, touches, kbd, fresh, wiped>>
    BY <1>6 DEF vars
  <2>2. Sound' /\ Owned' /\ Seen' /\ Sure'
    BY <2>1 DEF IInv, Sound, Owned, Seen, Sure
  <2> QED BY <2>2 DEF IInv
<1> QED BY <1>1, <1>2, <1>3, <1>4, <1>5, <1>6 DEF Next

\* No key is lost and none is stuck, with any number of pointers, on any keyboard, and however
\* many codes wait: what the matrix will be agrees with HPView's touches, and these with the
\* fingers (HPView.java, onTouchEvent and key; x48.c, GetEvent; actions.c, do_in).
THEOREM TheMatrixFollows == Spec => []MatrixFollows
<1>1. IInv => MatrixFollows
  <2> SUFFICES ASSUME IInv, NEW b \in Button
               PROVE  /\ touches[b] # 0 /\ b \notin wiped => Visible(Settled, b)
                      /\ ~cancelled /\ Visible(Settled, b) => Held(b)
    BY DEF MatrixFollows
  <2>1. Settled = Ends(kbd)
    BY DEF Settled, Ends
  <2>2. touches[b] # 0 /\ b \notin wiped => Visible(Settled, b)
    BY <2>1 DEF IInv, Seen
  <2>3. ASSUME ~cancelled, Visible(Settled, b) PROVE Held(b)
    <3>1. touches[b] \in Pointer \cup {0, Hardware}
      BY DEF IInv, Sound
    <3>2. /\ touches[b] \in Pointer => finger[touches[b]] = b
          /\ touches[b] = Hardware => b \in hard
          /\ touches[b] = 0 => ~Visible(Ends(kbd), b)
      BY <2>3 DEF IInv, Owned
    <3> QED BY <2>1, <2>3, <3>1, <3>2 DEF Held
  <2> QED BY <2>2, <2>3
<1> QED BY <1>1, InitIInv, NextIInv, PTL DEF Spec

\* A key that was pressed is there for the program until the second call of GetEvent behind the
\* one that pressed it, even if the finger was up before (x48.c, GetEvent and its
\* release_pending).
THEOREM TapsAreHeld == Spec => HeldForOnePoll
<1>1. IInv /\ [Next]_vars => [poll' # poll => \A b \in fresh : Down(kbd'.rows, b)]_vars
  <2> SUFFICES ASSUME IInv, [Next]_vars, poll' # poll
               PROVE  \A b \in fresh : Down(kbd'.rows, b)
    OBVIOUS
  <2>1. GetEvent
    BY DEF Next, FingerDown, FingerUp, HardKey, Cancel, do_in, native, vars
  <2> QED BY <2>1, GetEventKeeps
<1> QED BY <1>1, InitIInv, NextIInv, PTL DEF Spec, HeldForOnePoll

\* A finger that comes up releases its own button or none (HPView.java, onTouchEvent and its
\* loop over touches), whatever others do to that button.
THEOREM FingersReleaseTheirOwn == Spec => UpReleasesItsKey
<1>1. IInv /\ [Next]_vars => [cancelled \/ UpByPointer]_vars
  <2> SUFFICES ASSUME IInv, [Next]_vars, ~cancelled, NEW p \in Pointer,
                      finger[p] # Up, finger'[p] = Up, kbd' # kbd
               PROVE  kbd' = queued(kbd, release_code(finger[p]))
    BY DEF UpByPointer
  <2>1. finger \in [Pointer -> Button \cup {Up, NoButton}]
    BY DEF IInv, Sound
  <2>2. CASE \E q \in Pointer : FingerDown(q)
    <3>1. PICK q \in Pointer, b \in Button \cup {NoButton} :
            finger[q] = Up /\ finger' = [finger EXCEPT ![q] = b]
      BY <2>2 DEF FingerDown
    <3>2. q # p
      BY <3>1
    <3>3. finger'[p] = finger[p]
      BY <2>1, <3>1, <3>2
    <3> QED BY <3>3
  <2>3. CASE \E q \in Pointer : FingerUp(q)
    <3>1. PICK q \in Pointer : FingerUp(q)
      BY <2>3
    <3>2. finger' = [finger EXCEPT ![q] = Up]
      BY <3>1 DEF FingerUp
    <3>3. q = p
      BY <2>1, <3>2
    <3> QED BY <3>1, <3>3, FingerUpKeeps
  <2>4. CASE ~\E q \in Pointer : FingerDown(q) \/ FingerUp(q)
    <3>1. finger' = finger \/ kbd' = kbd
      BY <2>4 DEF Next, HardKey, Cancel, GetEvent, do_in, environment, vars
    <3> QED BY <3>1
  <2> QED BY <2>2, <2>3, <2>4
<1> QED BY <1>1, InitIInv, NextIInv, PTL DEF Spec, UpReleasesItsKey
=============================================================================

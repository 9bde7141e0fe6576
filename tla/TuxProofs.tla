-------------------------------- MODULE TuxProofs --------------------------------
(***************************************************************************)
(* Proofs about the Tux driver.                                             *)
(*                                                                         *)
(* TuxLdisc: for rings, packet arrays and serial ports of any size, bursts   *)
(* and commands of any length, and any number of them.                      *)
(* TuxLeds: for every time of the clock and any number of LEDs.             *)
(***************************************************************************)
EXTENDS TuxLdisc, TuxLeds, FiniteSetTheorems, SequenceTheorems, WellFoundedInduction, TLAPS

-----------------------------------------------------------------------------
(* Induction, over sets: a step of a loop at a time. *)

LEMMA NatMin ==
  ASSUME NEW S \in SUBSET Nat, S # {}
  PROVE  \E x \in S : \A y \in S : x <= y
<1> DEFINE R == {p \in Nat \X Nat : p[1] < p[2]}
<1>1. IsWellFoundedOn(R, Nat)
  BY NatLessThanWellFounded DEF OpToRel
<1>2. \E x \in S : \A y \in S : ~ (<<y, x>> \in R)
  <2> HIDE DEF R
  <2> QED
    BY <1>1, WFMin, Zenon
<1>3. PICK x \in S : \A y \in S : <<y, x>> \notin R
  <2> HIDE DEF R
  <2> QED
    BY <1>2
<1>4. \A y \in S : x <= y
  <2> TAKE y \in S
  <2>1. <<y, x>> \in Nat \X Nat /\ <<y, x>>[1] = y /\ <<y, x>>[2] = x
    OBVIOUS
  <2>2. ~ (y < x)
    BY <1>3, <2>1
  <2> QED
    BY <2>2
<1> QED
  BY <1>4

LEMMA NatInd ==
  ASSUME NEW T \in SUBSET Nat, 0 \in T, \A n \in T : n + 1 \in T
  PROVE  T = Nat
<1> SUFFICES ASSUME Nat \ T # {} PROVE FALSE
  OBVIOUS
<1>1. PICK x \in Nat \ T : \A y \in Nat \ T : x <= y
  <2>1. Nat \ T \in SUBSET Nat
    OBVIOUS
  <2> QED
    BY <2>1, NatMin, Zenon
<1>2. x # 0 /\ x - 1 \in Nat /\ ~(x <= x - 1)
  BY <1>1
<1>3. x - 1 \in T
  BY <1>1, <1>2
<1>4. (x - 1) + 1 = x
  BY <1>1
<1> QED
  BY <1>1, <1>3, <1>4

\* f is the sequence of states of a loop of n rounds from c.
IsRun(f, c, n, G) == /\ f[0] = c
                     /\ \A k \in 1..n : f[k] = G[<<k, f[k - 1]>>]

LEMMA LoopExists ==
  ASSUME NEW A, NEW c \in A, NEW n \in Nat, NEW G \in [(1..n) \X A -> A]
  PROVE  \E f \in [0..n -> A] : IsRun(f, c, n, G)
<1> DEFINE Runs(m, f) == /\ f \in [0..m -> A] /\ f[0] = c
                         /\ \A k \in 1..m : f[k] = G[<<k, f[k - 1]>>]
<1> DEFINE T == {m \in Nat : m <= n => \E f : Runs(m, f)}
<1>1. 0 \in T
  <2>1. Runs(0, [i \in 0..0 |-> c])
    OBVIOUS
  <2> QED
    BY <2>1
<1>2. \A m \in T : m + 1 \in T
  <2> SUFFICES ASSUME NEW m \in T, m + 1 <= n PROVE \E f : Runs(m + 1, f)
    OBVIOUS
  <2>1. PICK f : Runs(m, f)
    OBVIOUS
  <2> DEFINE g == [i \in 0..(m + 1) |-> IF i <= m THEN f[i] ELSE G[<<m + 1, f[m]>>]]
  <2>2. f[m] \in A /\ <<m + 1, f[m]>> \in (1..n) \X A
    BY <2>1
  <2>3. G[<<m + 1, f[m]>>] \in A
    BY <2>2
  <2>4. g \in [0..(m + 1) -> A] /\ g[0] = c
    BY <2>1, <2>3
  <2>5. \A k \in 1..(m + 1) : g[k] = G[<<k, g[k - 1]>>]
    <3> TAKE k \in 1..(m + 1)
    <3>1. CASE k <= m
      <4>1. k \in 1..m /\ k - 1 \in 0..(m + 1) /\ k - 1 <= m /\ k \in 0..(m + 1)
        BY <3>1
      <4>2. g[k] = f[k] /\ g[k - 1] = f[k - 1]
        BY <4>1, <3>1
      <4> QED
        BY <4>1, <4>2, <2>1
    <3>2. CASE k = m + 1
      <4>1. ~(k <= m) /\ k - 1 = m /\ m \in 0..(m + 1) /\ m <= m
        BY <3>2
      <4>2. g[k] = G[<<m + 1, f[m]>>] /\ g[k - 1] = f[m]
        BY <4>1, <3>2
      <4> QED
        BY <4>2, <3>2
    <3> QED
      BY <3>1, <3>2
  <2>6. Runs(m + 1, g)
    BY <2>4, <2>5
  <2> QED
    BY <2>6
<1>3. T \in SUBSET Nat
  OBVIOUS
<1>4. T = Nat
  <2> HIDE DEF T
  <2> QED
    BY <1>1, <1>2, <1>3, NatInd
<1>5. n \in T /\ n <= n
  BY <1>4
<1>6. \E f : Runs(n, f)
  BY <1>5
<1> QED
  BY <1>6 DEF IsRun

-----------------------------------------------------------------------------
(* Rings *)

LEMMA ModSmall ==
  ASSUME NEW N \in Nat \ {0}, NEW x \in Nat
  PROVE  /\ x < N => x % N = x
         /\ x >= N /\ x < N + N => x % N = x - N
OBVIOUS

\* The k-th byte the ring r holds.
Cell(r, k) == r.buf[(r.start + k - 1) % TUXCTL_BUFSIZE]

\* A ring whose bytes in use are of B.
Holds(r, B) == /\ r \in RingType(B)
               /\ \A k \in 1..buf_used(r) : Cell(r, k) \in B

LEMMA RingFacts ==
  ASSUME NEW B, NEW r \in RingType(B)
  PROVE  /\ r.start \in Nat /\ r.end \in Nat
         /\ r.start < TUXCTL_BUFSIZE /\ r.end < TUXCTL_BUFSIZE
         /\ TUXCTL_BUFSIZE \in Nat \ {0} /\ TUXCTL_BUFSIZE >= 2
         /\ buf_used(r) \in 0..(TUXCTL_BUFSIZE - 1)
         /\ r.buf \in [Indices -> B \cup {NoByte}]
BY SizesAssumption DEF RingType, Indices, buf_used

LEMMA CellAt ==
  ASSUME NEW B, NEW r \in RingType(B), NEW k \in 1..TUXCTL_BUFSIZE
  PROVE  /\ r.start + (k - 1) < TUXCTL_BUFSIZE => Cell(r, k) = r.buf[r.start + (k - 1)]
         /\ r.start + (k - 1) >= TUXCTL_BUFSIZE =>
              Cell(r, k) = r.buf[(r.start + (k - 1)) - TUXCTL_BUFSIZE]
<1> DEFINE x == r.start + k - 1
<1>1. x \in Nat /\ x < TUXCTL_BUFSIZE + TUXCTL_BUFSIZE /\ x = r.start + (k - 1)
  BY RingFacts
<1>2. /\ x < TUXCTL_BUFSIZE => x % TUXCTL_BUFSIZE = x
      /\ x >= TUXCTL_BUFSIZE => x % TUXCTL_BUFSIZE = x - TUXCTL_BUFSIZE
  <2> HIDE DEF x
  <2> QED
    BY <1>1, RingFacts, ModSmall
<1> QED
  BY <1>1, <1>2 DEF Cell

LEMMA FirstIsCells ==
  ASSUME NEW B, NEW r, Holds(r, B), NEW n \in 0..buf_used(r)
  PROVE  /\ First(r, n) \in Seq(B) /\ Len(First(r, n)) = n
         /\ \A k \in 1..n : First(r, n)[k] = Cell(r, k)
<1>0. buf_used(r) \in Nat /\ n \in Nat
  BY RingFacts DEF Holds
<1>1. \A k \in 1..n : Cell(r, k) \in B
  BY <1>0 DEF Holds
<1>2. First(r, n) = [k \in 1..n |-> Cell(r, k)]
  BY DEF First, Cell
<1>3. First(r, n) \in [1..n -> B]
  BY <1>1, <1>2
<1> QED
  BY <1>0, <1>2, <1>3

LEMMA PopKeeps ==
  ASSUME NEW B, NEW r, Holds(r, B), NEW n \in 0..buf_used(r)
  PROVE  /\ Holds(Pop(r, n), B)
         /\ buf_used(Pop(r, n)) = buf_used(r) - n
         /\ \A k \in 1..(buf_used(r) - n) : Cell(Pop(r, n), k) = Cell(r, n + k)
<1> DEFINE q == Pop(r, n)
<1> DEFINE N == TUXCTL_BUFSIZE
<1>1. r \in RingType(B) /\ n \in Nat /\ n < N /\ n <= buf_used(r) /\ buf_used(r) \in Nat
  BY RingFacts DEF Holds
<1>2. /\ r.start + n < N => (r.start + n) % N = r.start + n
      /\ r.start + n >= N => (r.start + n) % N = (r.start + n) - N
  <2>1. r.start + n \in Nat /\ r.start + n < N + N /\ N \in Nat \ {0}
    BY <1>1, RingFacts
  <2> QED
    BY <2>1, ModSmall
<1>3. /\ q.buf = r.buf /\ q.end = r.end /\ q.start = (r.start + n) % N
      /\ q = [buf |-> r.buf, start |-> (r.start + n) % N, end |-> r.end]
  BY <1>1 DEF Pop, RingType
<1>4. q \in RingType(B)
  <2>0. r.start \in Nat /\ r.start < N /\ N \in Nat
    BY <1>1, RingFacts
  <2>1. (r.start + n) % N \in Indices
    <3>1. CASE r.start + n < N
      BY <1>1, <1>2, <2>0, <3>1 DEF Indices
    <3>2. CASE r.start + n >= N
      BY <1>1, <1>2, <2>0, <3>2 DEF Indices
    <3> QED
      BY <1>1, <2>0, <3>1, <3>2
  <2> QED
    BY <1>1, <1>3, <2>1 DEF RingType
<1>5. buf_used(q) = buf_used(r) - n
  BY <1>1, <1>2, <1>3, RingFacts DEF buf_used
<1>6. \A k \in 1..(buf_used(r) - n) : Cell(q, k) = Cell(r, n + k)
  <2> TAKE k \in 1..(buf_used(r) - n)
  <2>1. k \in 1..N /\ n + k \in 1..N /\ n + k <= buf_used(r) /\ n + k < N
    BY <1>1, RingFacts
  <2>2. /\ q.start + (k - 1) < N => Cell(q, k) = r.buf[q.start + (k - 1)]
        /\ q.start + (k - 1) >= N => Cell(q, k) = r.buf[(q.start + (k - 1)) - N]
    <3> HIDE DEF q
    <3> QED
      BY <1>3, <1>4, <2>1, CellAt
  <2>3. /\ r.start + ((n + k) - 1) < N => Cell(r, n + k) = r.buf[r.start + ((n + k) - 1)]
        /\ r.start + ((n + k) - 1) >= N =>
             Cell(r, n + k) = r.buf[(r.start + ((n + k) - 1)) - N]
    BY <1>1, <2>1, CellAt
  <2>4. /\ q.start = IF r.start + n < N THEN r.start + n ELSE (r.start + n) - N
        /\ r.start \in Nat /\ r.start < N /\ N \in Nat
    BY <1>1, <1>2, <1>3, RingFacts
  <2> HIDE DEF q, N
  <2>5. CASE r.start + n >= N
    <3>1. q.start + (k - 1) < N /\ r.start + ((n + k) - 1) >= N
          /\ q.start + (k - 1) = (r.start + ((n + k) - 1)) - N
      BY <2>1, <2>4, <2>5, <1>1
    <3> QED
      BY <3>1, <2>2, <2>3
  <2>6. CASE r.start + n < N
    <3>1. q.start + (k - 1) = r.start + ((n + k) - 1)
      BY <2>1, <2>4, <2>6, <1>1
    <3>2. r.start + ((n + k) - 1) \in Nat
      BY <2>1, <2>4, <1>1
    <3>3. CASE r.start + ((n + k) - 1) < N
      BY <3>1, <3>3, <2>2, <2>3
    <3>4. CASE ~(r.start + ((n + k) - 1) < N)
      <4>1. r.start + ((n + k) - 1) >= N
        BY <3>2, <3>4, <2>4
      <4> QED
        BY <3>1, <4>1, <2>2, <2>3
    <3> QED
      BY <3>3, <3>4
  <2> QED
    BY <2>4, <2>5, <2>6, <1>1
<1>7. \A k \in 1..buf_used(q) : Cell(q, k) \in B
  <2> TAKE k \in 1..buf_used(q)
  <2>1. k \in 1..(buf_used(r) - n) /\ n + k \in 1..buf_used(r)
    BY <1>1, <1>5
  <2> QED
    BY <1>6, <2>1 DEF Holds
<1> QED
  BY <1>4, <1>5, <1>6, <1>7 DEF Holds

\* A byte stored is behind all others.
Stored(r, b) == [r EXCEPT !.buf[r.end] = b, !.end = (@ + 1) % TUXCTL_BUFSIZE]

LEMMA StoredIsLast ==
  ASSUME NEW B, NEW r, Holds(r, B), NEW b \in B, ~ buf_full(r)
  PROVE  /\ Holds(Stored(r, b), B)
         /\ buf_used(Stored(r, b)) = buf_used(r) + 1
         /\ \A k \in 1..buf_used(r) : Cell(Stored(r, b), k) = Cell(r, k)
         /\ Cell(Stored(r, b), buf_used(r) + 1) = b
<1> DEFINE q == Stored(r, b)
<1> DEFINE N == TUXCTL_BUFSIZE
<1>1. /\ r \in RingType(B) /\ buf_used(r) \in Nat
      /\ r.start \in Nat /\ r.end \in Nat /\ r.start < N /\ r.end < N /\ N \in Nat
      /\ N >= 2
  BY RingFacts DEF Holds
<1>2. (r.end + 1) % N = IF r.end + 1 < N THEN r.end + 1 ELSE 0
  <2>1. r.end + 1 \in Nat /\ r.end + 1 < N + N /\ N \in Nat \ {0}
    BY <1>1
  <2>2. /\ r.end + 1 < N => (r.end + 1) % N = r.end + 1
        /\ r.end + 1 >= N => (r.end + 1) % N = (r.end + 1) - N
    BY <2>1, ModSmall
  <2> QED
    BY <1>1, <2>2
<1>3. /\ q.start = r.start /\ q.end = (r.end + 1) % N
      /\ q.buf = [r.buf EXCEPT ![r.end] = b]
      /\ q = [buf |-> [r.buf EXCEPT ![r.end] = b], start |-> r.start,
              end |-> (r.end + 1) % N]
  <2>1. r = [buf |-> r.buf, start |-> r.start, end |-> r.end]
    BY <1>1 DEF RingType
  <2> DEFINE e == (r.end + 1) % N
  <2> DEFINE f == [r.buf EXCEPT ![r.end] = b]
  <2>2. q = [[r EXCEPT !.buf = f] EXCEPT !.end = e]
    BY <2>1 DEF Stored
  <2> HIDE DEF e, f
  <2>3. [r EXCEPT !.buf = f] = [buf |-> f, start |-> r.start, end |-> r.end]
    BY <2>1
  <2>4. q = [buf |-> f, start |-> r.start, end |-> e]
    BY <2>2, <2>3
  <2> HIDE DEF q
  <2>5. q.start = r.start /\ q.end = e /\ q.buf = f
    BY <2>4
  <2> QED
    BY <2>4, <2>5 DEF e, f
<1>4. q \in RingType(B)
  <2>1. (r.end + 1) % N \in Indices
    BY <1>1, <1>2 DEF Indices
  <2> QED
    BY <1>1, <1>3, <2>1 DEF RingType
<1>5. buf_used(q) = buf_used(r) + 1 /\ buf_used(q) < N
  <2>1. q.end # r.start
    BY <1>3 DEF buf_full
  <2> QED
    BY <1>1, <1>2, <1>3, <2>1 DEF buf_used
<1>6. DOMAIN r.buf = Indices /\ r.end \in Indices
  BY <1>1 DEF RingType
<1>7. \A k \in 1..buf_used(r) : Cell(q, k) = Cell(r, k)
  <2> TAKE k \in 1..buf_used(r)
  <2>1. k \in 1..N /\ k \in Nat /\ k <= buf_used(r)
    BY <1>1, <1>5
  <2>2. /\ q.start + (k - 1) < N => Cell(q, k) = q.buf[q.start + (k - 1)]
        /\ q.start + (k - 1) >= N => Cell(q, k) = q.buf[(q.start + (k - 1)) - N]
    <3> HIDE DEF q
    <3> QED
      BY <1>4, <2>1, CellAt
  <2>3. /\ r.start + (k - 1) < N => Cell(r, k) = r.buf[r.start + (k - 1)]
        /\ r.start + (k - 1) >= N => Cell(r, k) = r.buf[(r.start + (k - 1)) - N]
    BY <1>1, <2>1, CellAt
  <2>4. CASE r.start + (k - 1) < N
    <3>1. r.start + (k - 1) # r.end /\ r.start + (k - 1) \in Indices
      BY <1>1, <2>1, <2>4 DEF buf_used, Indices
    <3> QED
      BY <1>3, <1>6, <2>2, <2>3, <2>4, <3>1
  <2>5. CASE r.start + (k - 1) >= N
    <3>1. (r.start + (k - 1)) - N # r.end /\ (r.start + (k - 1)) - N \in Indices
      BY <1>1, <1>5, <2>1, <2>5 DEF buf_used, Indices
    <3> QED
      BY <1>3, <1>6, <2>2, <2>3, <2>5, <3>1
  <2> QED
    BY <1>1, <2>1, <2>4, <2>5
<1>8. Cell(q, buf_used(r) + 1) = b
  <2> DEFINE k == buf_used(r) + 1
  <2>1. k \in 1..N /\ k \in Nat
    BY <1>1, <1>5
  <2>2. /\ q.start + (k - 1) < N => Cell(q, k) = q.buf[q.start + (k - 1)]
        /\ q.start + (k - 1) >= N => Cell(q, k) = q.buf[(q.start + (k - 1)) - N]
    <3> HIDE DEF q, k
    <3> QED
      BY <1>4, <2>1, CellAt
  <2>3. /\ r.start + (k - 1) < N => r.start + (k - 1) = r.end
        /\ r.start + (k - 1) >= N => (r.start + (k - 1)) - N = r.end
    BY <1>1, <1>5 DEF buf_used
  <2>4. q.buf[r.end] = b
    BY <1>3, <1>6
  <2>5. r.start + (k - 1) < N \/ r.start + (k - 1) >= N
    BY <1>1
  <2> HIDE DEF k, q
  <2>6. Cell(q, k) = b
    BY <1>3, <2>2, <2>3, <2>4, <2>5
  <2> QED
    BY <2>6 DEF k, q
<1>9. \A k \in 1..buf_used(q) : Cell(q, k) \in B
  <2> TAKE k \in 1..buf_used(q)
  <2>1. k \in 1..buf_used(r) \/ k = buf_used(r) + 1
    BY <1>1, <1>5
  <2> QED
    BY <1>7, <1>8, <2>1 DEF Holds
<1> QED
  BY <1>4, <1>5, <1>7, <1>8, <1>9 DEF Holds

-----------------------------------------------------------------------------
(* The loop of rcv_buf and put *)

PushStates(B) == [ring : {q \in RingType(B) : Holds(q, B)}, stored : Nat]

LEMMA PushIsAState ==
  ASSUME NEW B, NEW state \in PushStates(B), NEW b \in B
  PROVE  Push(state, b) \in PushStates(B)
<1> DEFINE r == state.ring
<1>1. Holds(r, B) /\ state.stored \in Nat
  BY DEF PushStates
<1>2. CASE buf_full(r)
  BY <1>2 DEF Push
<1>3. CASE ~ buf_full(r)
  <2>1. Push(state, b) = [ring |-> Stored(r, b), stored |-> state.stored + 1]
    BY <1>3 DEF Push, Stored
  <2>2. Holds(Stored(r, b), B)
    <3> HIDE DEF r
    <3> QED
      BY <1>1, <1>3, StoredIsLast
  <2>3. Stored(r, b) \in RingType(B)
    BY <2>2 DEF Holds
  <2> QED
    BY <1>1, <2>1, <2>2, <2>3 DEF PushStates
<1> QED
  BY <1>2, <1>3

LEMMA PushingSteps ==
  ASSUME NEW B, NEW r, Holds(r, B), NEW s \in Seq(B)
  PROVE  /\ Pushing(r, s)[0] = [ring |-> r, stored |-> 0]
         /\ \A k \in 1..Len(s) : Pushing(r, s)[k] = Push(Pushing(r, s)[k - 1], s[k])
         /\ \A k \in 0..Len(s) : Pushing(r, s)[k] \in PushStates(B)
<1> DEFINE n == Len(s)
<1> DEFINE A == PushStates(B)
<1> DEFINE c == [ring |-> r, stored |-> 0]
<1> DEFINE G == [p \in (1..n) \X A |-> Push(p[2], s[p[1]])]
<1>1. n \in Nat /\ c \in A
  BY DEF PushStates, Holds
<1>2. G \in [(1..n) \X A -> A]
  <2> SUFFICES ASSUME NEW p \in (1..n) \X A PROVE Push(p[2], s[p[1]]) \in A
    OBVIOUS
  <2>1. p[2] \in PushStates(B) /\ s[p[1]] \in B
    OBVIOUS
  <2> QED
    BY <2>1, PushIsAState
<1>p. PICK f \in [0..n -> A] : IsRun(f, c, n, G)
  <2> HIDE DEF n, A, c, G
  <2> QED
    BY <1>1, <1>2, LoopExists
<1>3. /\ f \in [0..n -> A] /\ f[0] = c
      /\ \A k \in 1..n : f[k] = G[<<k, f[k - 1]>>]
  <2> HIDE DEF n, A, c, G
  <2> QED
    BY <1>p DEF IsRun
<1> DEFINE Body(g) == [k \in 0..n |-> IF k = 0 THEN c ELSE Push(g[k - 1], s[k])]
<1>4. f = Body(f)
  <2>1. \A k \in 1..n : G[<<k, f[k - 1]>>] = Push(f[k - 1], s[k])
    <3> TAKE k \in 1..n
    <3>1. <<k, f[k - 1]>> \in (1..n) \X A
      <4>1. k - 1 \in 0..n
        BY <1>1
      <4> QED
        BY <4>1, <1>3
    <3> QED
      BY <3>1
  <2>2. \A k \in 0..n : f[k] = IF k = 0 THEN c ELSE Push(f[k - 1], s[k])
    <3> TAKE k \in 0..n
    <3>1. k = 0 \/ k \in 1..n
      BY <1>1
    <3> HIDE DEF G, c
    <3> QED
      BY <3>1, <2>1, <1>3
  <2> HIDE DEF G, c, n, A
  <2> QED
    BY <2>2, <1>3
<1>5. Pushing(r, s) = CHOOSE g : g = Body(g)
  BY DEF Pushing
<1> DEFINE L == Pushing(r, s)
<1>6. L = Body(L)
  <2> HIDE DEF Body
  <2>1. \E g : g = Body(g)
    BY <1>4
  <2> QED
    BY <2>1, <1>5
<1>7. /\ L[0] = c
      /\ \A k \in 1..n : L[k] = Push(L[k - 1], s[k])
  <2> HIDE DEF L, c
  <2>1. \A k \in 0..n : L[k] = IF k = 0 THEN c ELSE Push(L[k - 1], s[k])
    BY <1>6
  <2> HIDE DEF Body, n
  <2>2. 0 \in 0..n /\ \A k \in 1..n : k \in 0..n /\ k # 0
    BY <1>1
  <2> QED
    BY <2>1, <2>2
<1> DEFINE T == {k \in Nat : k <= n => L[k] \in A}
<1>8. T = Nat
  <2>1. 0 \in T
    BY <1>7, <1>1
  <2>2. \A k \in T : k + 1 \in T
    <3> SUFFICES ASSUME NEW k \in Nat, k + 1 <= n, L[k] \in A PROVE L[k + 1] \in A
      BY <1>1
    <3>1. k + 1 \in 1..n /\ (k + 1) - 1 = k
      BY <1>1
    <3>2. L[k + 1] = Push(L[k], s[k + 1]) /\ s[k + 1] \in B
      <4> HIDE DEF L
      <4> QED
        BY <1>7, <3>1
    <3> HIDE DEF L
    <3> QED
      BY <3>2, PushIsAState
  <2>3. T \in SUBSET Nat
    OBVIOUS
  <2> HIDE DEF T
  <2> QED
    BY <2>1, <2>2, <2>3, NatInd
<1>9. \A k \in 0..n : L[k] \in A
  <2> TAKE k \in 0..n
  <2>1. k \in T /\ k <= n
    BY <1>1, <1>8
  <2> QED
    BY <2>1
<1> QED
  BY <1>7, <1>9

\* The ring of p is r with a prefix of s, in order, behind what r held.
TakesAPrefix(p, r, s, B) ==
  /\ p.stored \in 0..Len(s)
  /\ Holds(p.ring, B)
  /\ buf_used(p.ring) = buf_used(r) + p.stored
  /\ \A k \in 1..buf_used(r) : Cell(p.ring, k) = Cell(r, k)
  /\ \A k \in 1..p.stored : Cell(p.ring, buf_used(r) + k) = s[k]

LEMMA PushAllTakesAPrefix ==
  ASSUME NEW B, NEW r, Holds(r, B), NEW s \in Seq(B)
  PROVE  TakesAPrefix(PushAll(r, s), r, s, B)
<1> DEFINE n == Len(s)
<1> DEFINE L == Pushing(r, s)
<1> DEFINE u == buf_used(r)
<1> DEFINE Prefix(p, i) ==
             /\ p.stored \in 0..i
             /\ p.stored = i \/ buf_full(p.ring)
             /\ Holds(p.ring, B)
             /\ buf_used(p.ring) = u + p.stored
             /\ \A k \in 1..u : Cell(p.ring, k) = Cell(r, k)
             /\ \A k \in 1..p.stored : Cell(p.ring, u + k) = s[k]
<1>1. n \in Nat /\ u \in Nat
  BY RingFacts DEF Holds
<1>2. /\ L[0] = [ring |-> r, stored |-> 0]
      /\ \A k \in 1..n : L[k] = Push(L[k - 1], s[k])
  BY PushingSteps
<1> HIDE DEF L
<1> DEFINE T == {i \in Nat : i <= n => Prefix(L[i], i)}
<1>3. 0 \in T
  BY <1>1, <1>2
<1>4. \A i \in T : i + 1 \in T
  <2> SUFFICES ASSUME NEW i \in Nat, i + 1 <= n, Prefix(L[i], i)
               PROVE  Prefix(L[i + 1], i + 1)
    <3> HIDE DEF Prefix, n
    <3> QED
      BY <1>1
  <2> DEFINE p == L[i]
  <2> DEFINE q == L[i + 1]
  <2> DEFINE b == s[i + 1]
  <2>1. i + 1 \in 1..n /\ (i + 1) - 1 = i
    BY <1>1
  <2>2. q = Push(p, b) /\ b \in B
    BY <1>2, <2>1
  <2>3. p.stored \in Nat /\ p.stored <= i
    OBVIOUS
  <2> HIDE DEF q, b
  <2>4. CASE buf_full(p.ring)
    <3>1. q = p
      BY <2>2, <2>4 DEF Push
    <3> QED
      BY <3>1, <2>3, <2>4 DEF q
  <2>5. CASE ~ buf_full(p.ring)
    <3> DEFINE t == Stored(p.ring, b)
    <3>1. q.ring = t /\ q.stored = p.stored + 1
      BY <2>2, <2>5 DEF Push, Stored
    <3>2. /\ Holds(t, B)
          /\ buf_used(t) = buf_used(p.ring) + 1
          /\ \A k \in 1..buf_used(p.ring) : Cell(t, k) = Cell(p.ring, k)
          /\ Cell(t, buf_used(p.ring) + 1) = b
      <4> HIDE DEF p
      <4> QED
        BY <2>2, <2>5, StoredIsLast DEF p
    <3> HIDE DEF t
    <3>3. p.stored = i
      BY <2>5
    <3>4. \A k \in 1..u : Cell(t, k) = Cell(r, k)
      <4> TAKE k \in 1..u
      <4>1. k \in 1..buf_used(p.ring)
        BY <1>1, <2>3
      <4>2. Cell(p.ring, k) = Cell(r, k)
        OBVIOUS
      <4> QED
        BY <4>1, <4>2, <3>2
    <3>5. \A k \in 1..(i + 1) : Cell(t, u + k) = s[k]
      <4> TAKE k \in 1..(i + 1)
      <4>1. CASE k = i + 1
        <5>1. u + k = buf_used(p.ring) + 1
          BY <1>1, <4>1, <3>3
        <5> QED
          BY <5>1, <4>1, <3>2 DEF b
      <4>2. CASE k \in 1..i
        <5>1. u + k \in 1..buf_used(p.ring) /\ Cell(p.ring, u + k) = s[k]
          BY <1>1, <4>2, <3>3
        <5> QED
          BY <5>1, <3>2
      <4> QED
        BY <4>1, <4>2
    <3>6. buf_used(t) = u + (i + 1)
      BY <3>2, <3>3, <1>1
    <3> QED
      BY <3>1, <3>2, <3>3, <3>4, <3>5, <3>6 DEF q
  <2> QED
    BY <2>4, <2>5
<1>5. T = Nat
  <2>1. T \in SUBSET Nat
    OBVIOUS
  <2> HIDE DEF T
  <2> QED
    BY <1>3, <1>4, <2>1, NatInd
<1>6. n \in T /\ n <= n
  BY <1>1, <1>5
<1>7. Prefix(L[n], n)
  BY <1>6
<1>8. PushAll(r, s) = L[n]
  BY DEF PushAll, L
<1> QED
  BY <1>7, <1>8 DEF TakesAPrefix

-----------------------------------------------------------------------------
(* data_callback's loop *)

ScanStates == [at : Nat \ {0}, starts : Seq(Nat \ {0})]

LEMMA VisitIsAState ==
  ASSUME NEW s \in Seq(RxBytes), NEW state \in ScanStates
  PROVE  Visit(s, state) \in ScanStates
<1>1. state.at \in Nat \ {0} /\ state.starts \in Seq(Nat \ {0})
  BY DEF ScanStates
<1>2. Append(state.starts, state.at) \in Seq(Nat \ {0})
  BY <1>1, AppendProperties
<1> QED
  BY <1>1, <1>2 DEF Visit, ScanStates

LEMMA ScanningSteps ==
  ASSUME NEW s \in Seq(RxBytes)
  PROVE  /\ Scanning(s)[0] = [at |-> 1, starts |-> <<>>]
         /\ \A k \in 1..Len(s) : Scanning(s)[k] = Visit(s, Scanning(s)[k - 1])
<1> DEFINE n == Len(s)
<1> DEFINE A == ScanStates
<1> DEFINE c == [at |-> 1, starts |-> <<>>]
<1> DEFINE G == [p \in (1..n) \X A |-> Visit(s, p[2])]
<1>1. n \in Nat /\ c \in A
  BY DEF ScanStates
<1>2. G \in [(1..n) \X A -> A]
  <2> SUFFICES ASSUME NEW p \in (1..n) \X A PROVE Visit(s, p[2]) \in A
    OBVIOUS
  <2>1. p[2] \in ScanStates
    OBVIOUS
  <2> QED
    BY <2>1, VisitIsAState
<1>3. PICK f \in [0..n -> A] : IsRun(f, c, n, G)
  <2> HIDE DEF n, A, c, G
  <2> QED
    BY <1>1, <1>2, LoopExists
<1>4. /\ f \in [0..n -> A] /\ f[0] = c
      /\ \A k \in 1..n : f[k] = G[<<k, f[k - 1]>>]
  <2> HIDE DEF n, A, c, G
  <2> QED
    BY <1>3 DEF IsRun
<1> DEFINE Body(g) == [k \in 0..n |-> IF k = 0 THEN c ELSE Visit(s, g[k - 1])]
<1>5. f = Body(f)
  <2>1. \A k \in 1..n : G[<<k, f[k - 1]>>] = Visit(s, f[k - 1])
    <3> TAKE k \in 1..n
    <3>1. <<k, f[k - 1]>> \in (1..n) \X A
      <4>1. k - 1 \in 0..n
        BY <1>1
      <4> QED
        BY <4>1, <1>4
    <3> QED
      BY <3>1
  <2>2. \A k \in 0..n : f[k] = IF k = 0 THEN c ELSE Visit(s, f[k - 1])
    <3> TAKE k \in 0..n
    <3>1. k = 0 \/ k \in 1..n
      BY <1>1
    <3> HIDE DEF G, c
    <3> QED
      BY <3>1, <2>1, <1>4
  <2> HIDE DEF G, c, n, A
  <2> QED
    BY <2>2, <1>4
<1>6. Scanning(s) = CHOOSE g : g = Body(g)
  BY DEF Scanning
<1> DEFINE L == Scanning(s)
<1>7. L = Body(L)
  <2> HIDE DEF Body
  <2>1. \E g : g = Body(g)
    BY <1>5
  <2> QED
    BY <2>1, <1>6
<1> HIDE DEF L, c
<1>8. \A k \in 0..n : L[k] = IF k = 0 THEN c ELSE Visit(s, L[k - 1])
  BY <1>7
<1> HIDE DEF Body, n
<1>9. 0 \in 0..n /\ \A k \in 1..n : k \in 0..n /\ k # 0
  BY <1>1
<1> QED
  BY <1>8, <1>9 DEF L, c, n

Increasing(q) == \A j, k \in 1..Len(q) : j < k => q[j] < q[k]

\* The loop sees every packet of s once, in order; of the last two bytes, those
\* it does not leave end a packet.
LEMMA ScanSeesAll ==
  ASSUME NEW s \in Seq(RxBytes)
  PROVE  LET r == Scan(s) IN
         /\ r.starts \in Seq(Nat \ {0})
         /\ Increasing(r.starts)
         /\ ToSet(r.starts) = {i \in 1..Len(s) : PacketAt(s, i)}
         /\ r.left \in 0..Len(s) /\ r.left <= 2
         /\ \A i \in 1..(Len(s) - r.left) : i > Len(s) - 2 => s[i] = "next"
<1> DEFINE n == Len(s)
<1> DEFINE L == Scanning(s)
<1> DEFINE Seen(p, k) ==
             /\ p \in ScanStates
             /\ p.at \in 1..(n + 1)
             /\ p.at > k \/ p.at > n - 2
             /\ Increasing(p.starts)
             /\ \A i \in 1..Len(p.starts) : p.starts[i] < p.at /\ PacketAt(s, p.starts[i])
             /\ \A i \in 1..(p.at - 1) :
                  PacketAt(s, i) => \E j \in 1..Len(p.starts) : p.starts[j] = i
             /\ \A i \in 1..(p.at - 1) : i > n - 2 => s[i] = "next"
<1>1. n \in Nat
  OBVIOUS
<1>2. /\ L[0] = [at |-> 1, starts |-> <<>>]
      /\ \A k \in 1..n : L[k] = Visit(s, L[k - 1])
  BY ScanningSteps
<1> HIDE DEF L
<1> DEFINE T == {k \in Nat : k <= n => Seen(L[k], k)}
<1>3. 0 \in T
  <2> DEFINE c == [at |-> 1, starts |-> <<>>]
  <2>1. c \in ScanStates /\ c.at = 1 /\ c.starts = <<>> /\ Len(<<>>) = 0
    BY DEF ScanStates
  <2> HIDE DEF c, n
  <2>2. Seen(c, 0)
    BY <1>1, <2>1 DEF Increasing
  <2>3. L[0] = c
    BY <1>2 DEF c
  <2> HIDE DEF Seen
  <2> QED
    BY <1>1, <2>2, <2>3
<1>4. \A k \in T : k + 1 \in T
  <2> SUFFICES ASSUME NEW k \in Nat, k + 1 <= n, Seen(L[k], k)
               PROVE  Seen(L[k + 1], k + 1)
    <3> HIDE DEF Seen, n
    <3> QED
      BY <1>1
  <2> DEFINE p == L[k]
  <2> DEFINE q == L[k + 1]
  <2>1. q = Visit(s, p)
    <3>1. k + 1 \in 1..n /\ (k + 1) - 1 = k
      BY <1>1
    <3> QED
      BY <1>2, <3>1
  <2>2. /\ p \in ScanStates /\ p.at \in Nat /\ p.at >= 1 /\ p.at <= n + 1
        /\ p.starts \in Seq(Nat \ {0}) /\ Len(p.starts) \in Nat
    BY DEF ScanStates
  <2>3. /\ Increasing(p.starts) /\ (p.at > k \/ p.at > n - 2)
        /\ \A i \in 1..Len(p.starts) : p.starts[i] < p.at /\ PacketAt(s, p.starts[i])
        /\ \A i \in 1..(p.at - 1) :
             PacketAt(s, i) => \E j \in 1..Len(p.starts) : p.starts[j] = i
        /\ \A i \in 1..(p.at - 1) : i > n - 2 => s[i] = "next"
    OBVIOUS
  <2>8. p.at \in Nat /\ p.at >= 1 /\ n \in Nat
    BY <2>2, <1>1
  <2>4. q \in ScanStates
    BY <2>1, <2>2, VisitIsAState
  <2> HIDE DEF q, p, L, n, Seen, T
  <2>5. CASE p.at > n - 2
    <3>1. q = p
      BY <2>1, <2>5 DEF Visit, n
    <3>2. p.at \in 1..(n + 1) /\ (p.at > k + 1 \/ p.at > n - 2)
      BY <2>2, <2>5, <2>8
    <3>3. Seen(p, k + 1)
      BY <2>2, <2>3, <3>2 DEF Seen
    <3> QED
      BY <3>1, <3>3 DEF q
  <2>6. CASE ~(p.at > n - 2) /\ PacketAt(s, p.at)
    <3>1. /\ q = [at |-> p.at + 3, starts |-> Append(p.starts, p.at)]
          /\ q.at = p.at + 3 /\ q.starts = Append(p.starts, p.at)
      BY <2>1, <2>6 DEF Visit, n
    <3>2. /\ s[p.at] = "first" /\ s[p.at + 1] = "next" /\ s[p.at + 2] = "next"
          /\ p.at + 2 <= n
      BY <2>6 DEF PacketAt, n
    <3>3. /\ Len(q.starts) = Len(p.starts) + 1
          /\ \A i \in 1..Len(p.starts) : q.starts[i] = p.starts[i]
          /\ q.starts[Len(p.starts) + 1] = p.at
      <4>1. p.at \in Nat \ {0}
        BY <2>2
      <4> QED
        BY <3>1, <2>2, <4>1, AppendProperties
    <3>4. q.at = p.at + 3
      BY <3>1
    <3>10. p.at + 2 <= n
      BY <3>2
    <3>5. \A i \in 1..Len(q.starts) : q.starts[i] < q.at /\ PacketAt(s, q.starts[i])
      <4> TAKE i \in 1..Len(q.starts)
      <4>1. i \in 1..Len(p.starts) \/ i = Len(p.starts) + 1
        BY <2>2, <3>3
      <4>2. CASE i = Len(p.starts) + 1
        BY <4>2, <3>3, <3>1, <2>2, <2>6
      <4>3. CASE i \in 1..Len(p.starts)
        <5>1. q.starts[i] = p.starts[i] /\ p.starts[i] < p.at /\ p.starts[i] \in Nat
              /\ PacketAt(s, p.starts[i])
          BY <4>3, <3>3, <2>3, <2>2
        <5> QED
          BY <5>1, <3>4, <2>8
      <4> QED
        BY <4>1, <4>2, <4>3
    <3>6. Increasing(q.starts)
      <4> SUFFICES ASSUME NEW i \in 1..Len(q.starts), NEW j \in 1..Len(q.starts), i < j
                   PROVE  q.starts[i] < q.starts[j]
        BY DEF Increasing
      <4>0. Len(p.starts) \in Nat /\ Len(q.starts) = Len(p.starts) + 1
        BY <2>2, <3>3
      <4>1. i \in 1..Len(p.starts) /\ (j \in 1..Len(p.starts) \/ j = Len(p.starts) + 1)
        BY <4>0
      <4> QED
        BY <4>1, <3>3, <2>3 DEF Increasing
    <3>7. \A i \in 1..(q.at - 1) :
            PacketAt(s, i) => \E j \in 1..Len(q.starts) : q.starts[j] = i
      <4> SUFFICES ASSUME NEW i \in 1..(q.at - 1), PacketAt(s, i)
                   PROVE  \E j \in 1..Len(q.starts) : q.starts[j] = i
        OBVIOUS
      <4>1. i \in 1..(p.at - 1) \/ i = p.at \/ i = p.at + 1 \/ i = p.at + 2
        BY <3>4, <2>8
      <4>2. i # p.at + 1 /\ i # p.at + 2
        BY <3>2 DEF PacketAt
      <4>3. CASE i = p.at
        <5>1. Len(p.starts) + 1 \in 1..Len(q.starts)
          BY <2>2, <3>3
        <5> QED
          BY <5>1, <3>3, <4>3
      <4>4. CASE i \in 1..(p.at - 1)
        <5>1. PICK j \in 1..Len(p.starts) : p.starts[j] = i
          BY <4>4, <2>3
        <5>0. Len(p.starts) \in Nat /\ Len(q.starts) = Len(p.starts) + 1
          BY <2>2, <3>3
        <5>2. j \in 1..Len(q.starts)
          BY <5>0
        <5>3. q.starts[j] = i
          BY <5>1, <3>3
        <5> QED
          BY <5>2, <5>3
      <4> QED
        BY <4>1, <4>2, <4>3, <4>4
    <3>8. \A i \in 1..(q.at - 1) : i > n - 2 => s[i] = "next"
      <4> SUFFICES ASSUME NEW i \in 1..(q.at - 1), i > n - 2 PROVE s[i] = "next"
        OBVIOUS
      <4>1. i = p.at + 1 \/ i = p.at + 2
        <5>1. i \in Nat /\ i <= p.at + 2
          BY <3>4, <2>8
        <5>2. i >= p.at + 1
          BY <3>10, <2>8, <5>1
        <5> QED
          BY <5>1, <5>2, <2>8
      <4> QED
        BY <4>1, <3>2
    <3>9. q.at \in 1..(n + 1) /\ (q.at > k + 1 \/ q.at > n - 2)
      BY <3>4, <3>10, <2>3, <2>8
    <3> QED
      BY <2>4, <3>5, <3>6, <3>7, <3>8, <3>9 DEF q, Seen
  <2>7. CASE ~(p.at > n - 2) /\ ~ PacketAt(s, p.at)
    <3>1. q.at = p.at + 1 /\ q.starts = p.starts
      BY <2>1, <2>2, <2>7 DEF Visit, ScanStates, n
    <3>2. p.at <= n - 2
      BY <2>2, <2>7, <1>1
    <3>3. q.at \in 1..(n + 1) /\ (q.at > k + 1 \/ q.at > n - 2)
      BY <3>1, <3>2, <2>2, <2>3, <1>1
    <3>4. \A i \in 1..Len(q.starts) : q.starts[i] < q.at /\ PacketAt(s, q.starts[i])
      <4> TAKE i \in 1..Len(q.starts)
      <4>1. q.starts[i] = p.starts[i] /\ p.starts[i] < p.at /\ p.starts[i] \in Nat
            /\ PacketAt(s, p.starts[i])
        BY <3>1, <2>2, <2>3
      <4> QED
        BY <4>1, <3>1, <2>2
    <3>5. \A i \in 1..(q.at - 1) :
            PacketAt(s, i) => \E j \in 1..Len(q.starts) : q.starts[j] = i
      <4> TAKE i \in 1..(q.at - 1)
      <4>1. i \in 1..(p.at - 1) \/ i = p.at
        BY <3>1, <2>2
      <4> QED
        BY <4>1, <3>1, <2>3, <2>7
    <3>6. \A i \in 1..(q.at - 1) : i > n - 2 => s[i] = "next"
      BY <3>1, <3>2, <2>2, <2>3, <1>1
    <3> QED
      BY <2>4, <2>3, <3>1, <3>3, <3>4, <3>5, <3>6 DEF q, Seen
  <2> QED
    BY <2>5, <2>6, <2>7
<1>5. T = Nat
  <2>1. T \in SUBSET Nat
    OBVIOUS
  <2> HIDE DEF T
  <2> QED
    BY <1>3, <1>4, <2>1, NatInd
<1>6. n \in T /\ n <= n
  BY <1>1, <1>5
<1> DEFINE last == L[n]
<1>7. Seen(last, n)
  BY <1>6
<1>8. Scan(s).starts = last.starts /\ Scan(s).left = (n - last.at) + 1
  BY <1>1, <1>7 DEF Scan, L
<1>9. last.at \in Nat /\ last.at > n - 2 /\ last.at <= n + 1 /\ last.at >= 1
  BY <1>1, <1>7
<1>10. last.starts \in Seq(Nat \ {0})
  BY <1>7 DEF ScanStates
<1> HIDE DEF last
<1>11. ToSet(last.starts) = {i \in 1..n : PacketAt(s, i)}
  <2>1. DOMAIN last.starts = 1..Len(last.starts)
    BY <1>10
  <2>2. ASSUME NEW i \in 1..n, PacketAt(s, i) PROVE i \in ToSet(last.starts)
    <3>1. i + 2 <= n
      BY <2>2 DEF PacketAt
    <3>2. i \in 1..(last.at - 1)
      BY <1>1, <1>9, <3>1
    <3> QED
      BY <1>7, <2>1, <2>2, <3>2 DEF ToSet
  <2>3. ASSUME NEW j \in 1..Len(last.starts)
        PROVE  last.starts[j] \in 1..n /\ PacketAt(s, last.starts[j])
    <3>1. /\ last.starts[j] \in Nat \ {0} /\ PacketAt(s, last.starts[j])
      BY <1>7, <1>10
    <3>2. last.starts[j] + 2 <= n
      BY <3>1 DEF PacketAt
    <3> QED
      BY <1>1, <3>1, <3>2
  <2> QED
    BY <2>1, <2>2, <2>3 DEF ToSet
<1> HIDE DEF n
<1>12. (n - last.at) + 1 \in 0..n /\ (n - last.at) + 1 <= 2 /\ n - ((n - last.at) + 1) = last.at - 1
  BY <1>1, <1>9
<1> QED
  BY <1>7, <1>8, <1>10, <1>11, <1>12 DEF n

-----------------------------------------------------------------------------
(* Receiving *)

\* What the bytes saved have to do with the bytes taken: they are the last of
\* them, and what was not saved of the last two ends a packet.
SavedIsTheEnd ==
  /\ Len(saved) <= 2 /\ Len(saved) <= Len(consumed)
  /\ \A k \in 1..Len(saved) : saved[k] = consumed[(Len(consumed) - Len(saved)) + k]
  /\ \A i \in 1..(Len(consumed) - Len(saved)) :
       i > Len(consumed) - 2 => consumed[i] = "next"

ReceiveInv ==
  /\ Holds(rx, RxBytes)
  /\ saved \in Seq(RxBytes) /\ consumed \in Seq(RxBytes) /\ handled \in Seq(Nat \ {0})
  /\ SavedIsTheEnd
  /\ PacketsAreTheWholeOnes

LEMMA CallbackKeepsReceiveInv ==
  ASSUME ReceiveInv, NEW r, Holds(r, RxBytes), data_callback(r)
  PROVE  ReceiveInv'
<1> DEFINE n == Least(PACKET_BUF - Len(saved), buf_used(r))
<1> DEFINE F == First(r, n)
<1> DEFINE packet == saved \o F
<1> DEFINE C == consumed \o F
<1> DEFINE base == Len(consumed) - Len(saved)
<1> DEFINE scan == Scan(packet)
<1>1. /\ rx' = Pop(r, n) /\ consumed' = C
      /\ handled' = handled \o [k \in 1..Len(scan.starts) |-> base + scan.starts[k]]
      /\ saved' = SubSeq(packet, (Len(packet) - scan.left) + 1, Len(packet))
  BY DEF data_callback, Leftover
<1>2. /\ saved \in Seq(RxBytes) /\ consumed \in Seq(RxBytes) /\ handled \in Seq(Nat \ {0})
      /\ Len(saved) \in Nat /\ Len(consumed) \in Nat /\ Len(saved) <= 2
      /\ base \in Nat /\ Len(consumed) = base + Len(saved)
  BY DEF ReceiveInv, SavedIsTheEnd
<1>3. n \in 0..buf_used(r)
  <2>1. buf_used(r) \in Nat
    BY RingFacts DEF Holds
  <2> QED
    BY <1>2, <2>1, SizesAssumption DEF Least
<1> HIDE DEF n
<1>4. F \in Seq(RxBytes) /\ Len(F) = n /\ n \in Nat
  BY <1>3, FirstIsCells
<1> HIDE DEF F
<1>5. /\ packet \in Seq(RxBytes) /\ Len(packet) = Len(saved) + n
      /\ \A k \in 1..(Len(saved) + n) :
           packet[k] = IF k <= Len(saved) THEN saved[k] ELSE F[k - Len(saved)]
  <2>1. /\ packet \in Seq(RxBytes) /\ Len(packet) = Len(saved) + Len(F)
        /\ \A k \in 1..Len(saved) + Len(F) :
             packet[k] = IF k <= Len(saved) THEN saved[k] ELSE F[k - Len(saved)]
    BY <1>2, <1>4, ConcatProperties
  <2> HIDE DEF packet
  <2> QED
    BY <1>4, <2>1
<1>6. /\ C \in Seq(RxBytes) /\ Len(C) = Len(consumed) + n
      /\ \A k \in 1..(Len(consumed) + n) :
           C[k] = IF k <= Len(consumed) THEN consumed[k] ELSE F[k - Len(consumed)]
  <2>1. /\ C \in Seq(RxBytes) /\ Len(C) = Len(consumed) + Len(F)
        /\ \A k \in 1..Len(consumed) + Len(F) :
             C[k] = IF k <= Len(consumed) THEN consumed[k] ELSE F[k - Len(consumed)]
    BY <1>2, <1>4, ConcatProperties
  <2> HIDE DEF C
  <2> QED
    BY <1>4, <2>1
<1> HIDE DEF packet, C, base
<1> DEFINE m == Len(packet)
<1>7. /\ m \in Nat /\ Len(C) \in Nat /\ Len(C) = base + m
  BY <1>2, <1>4, <1>5, <1>6
<1>8. \A k \in 1..m : packet[k] = C[base + k]
  <2> TAKE k \in 1..m
  <2>1. base + k \in 1..(Len(consumed) + n)
    BY <1>2, <1>4, <1>5
  <2>2. CASE k <= Len(saved)
    <3>1. k \in 1..Len(saved) /\ base + k <= Len(consumed)
      BY <1>2, <2>2
    <3>2. saved[k] = consumed[base + k]
      BY <3>1 DEF ReceiveInv, SavedIsTheEnd, base
    <3> QED
      BY <1>5, <1>6, <2>1, <2>2, <3>1, <3>2
  <2>3. CASE ~ (k <= Len(saved))
    <3>1. ~ (base + k <= Len(consumed)) /\ (base + k) - Len(consumed) = k - Len(saved)
      BY <1>2, <2>3
    <3> QED
      BY <1>5, <1>6, <2>1, <2>3, <3>1
  <2> QED
    BY <2>2, <2>3
<1>9. \A i \in 1..Len(consumed) : C[i] = consumed[i]
  <2> TAKE i \in 1..Len(consumed)
  <2>1. i \in 1..(Len(consumed) + n) /\ i <= Len(consumed)
    BY <1>2, <1>4
  <2> QED
    BY <1>6, <2>1
<1>10. /\ scan.starts \in Seq(Nat \ {0}) /\ Increasing(scan.starts)
       /\ ToSet(scan.starts) = {i \in 1..m : PacketAt(packet, i)}
       /\ scan.left \in 0..m /\ scan.left <= 2
       /\ \A i \in 1..(m - scan.left) : i > m - 2 => packet[i] = "next"
  BY <1>5, ScanSeesAll
<1> DEFINE left == scan.left
<1> DEFINE st == scan.starts
<1> HIDE DEF scan
<1>11. left \in Nat /\ left <= m /\ left <= 2
  BY <1>7, <1>10
<1>12. /\ saved' \in Seq(RxBytes) /\ Len(saved') = left
       /\ \A k \in 1..left : saved'[k] = C[(Len(C) - left) + k]
  <2> DEFINE a == (m - left) + 1
  <2>1. a \in Int /\ m \in Int /\ a >= 1 /\ (m - a) + 1 = left /\ (a <= m \/ left = 0)
    BY <1>7, <1>11
  <2>2. \A i \in a..m : packet[i] \in RxBytes
    <3> TAKE i \in a..m
    <3>1. i \in 1..m
      BY <2>1
    <3> QED
      BY <1>5, <3>1
  <2>3. /\ SubSeq(packet, a, m) \in Seq(RxBytes)
        /\ Len(SubSeq(packet, a, m)) = IF a <= m THEN (m - a) + 1 ELSE 0
        /\ \A i \in 1..((m - a) + 1) : SubSeq(packet, a, m)[i] = packet[(a + i) - 1]
    <3> HIDE DEF a, m
    <3>1. /\ SubSeq(packet, a, m) \in Seq(RxBytes)
          /\ Len(SubSeq(packet, a, m)) = IF a <= m THEN m - a + 1 ELSE 0
          /\ \A i \in 1 .. m - a + 1 : SubSeq(packet, a, m)[i] = packet[a + i - 1]
      BY <2>1, <2>2, SubSeqProperties
    <3> QED
      BY <2>1, <3>1
  <2>4. saved' = SubSeq(packet, a, m)
    BY <1>1
  <2>5. Len(saved') = left
    <3> HIDE DEF a, m
    <3> QED
      BY <2>1, <2>3, <2>4
  <2>6. \A k \in 1..left : saved'[k] = C[(Len(C) - left) + k]
    <3> TAKE k \in 1..left
    <3>1. saved'[k] = packet[(a + k) - 1]
      <4> HIDE DEF a, m
      <4> QED
        BY <2>1, <2>3, <2>4
    <3>2. (a + k) - 1 = (m - left) + k /\ (m - left) + k \in 1..m
      BY <1>7, <1>11
    <3>3. base + ((m - left) + k) = (Len(C) - left) + k
      BY <1>2, <1>7, <1>11
    <3> QED
      BY <1>8, <3>1, <3>2, <3>3
  <2> QED
    BY <2>3, <2>4, <2>5, <2>6
<1>13. SavedIsTheEnd'
  <2>1. Len(saved') <= 2 /\ Len(saved') <= Len(consumed')
    BY <1>1, <1>2, <1>7, <1>11, <1>12
  <2>2. \A k \in 1..Len(saved') :
          saved'[k] = consumed'[(Len(consumed') - Len(saved')) + k]
    BY <1>1, <1>12
  <2>3. \A i \in 1..(Len(C) - left) : i > Len(C) - 2 => C[i] = "next"
    <3> SUFFICES ASSUME NEW i \in 1..(Len(C) - left), i > Len(C) - 2 PROVE C[i] = "next"
      OBVIOUS
    <3>0. i \in Nat /\ i >= 1 /\ i <= Len(C) - left
      BY <1>7, <1>11
    <3>1. CASE i > base
      <4>1. i - base \in 1..(m - left) /\ i - base > m - 2 /\ base + (i - base) = i
            /\ i - base \in 1..m
        BY <1>2, <1>7, <1>11, <3>0, <3>1
      <4> QED
        BY <1>8, <1>10, <4>1
    <3>2. CASE ~ (i > base)
      <4>1. i \in 1..base /\ i > Len(consumed) - 2 /\ i \in 1..Len(consumed)
        BY <1>2, <1>4, <1>6, <3>0, <3>2
      <4>2. consumed[i] = "next"
        BY <4>1 DEF ReceiveInv, SavedIsTheEnd, base
      <4> QED
        BY <1>9, <4>1, <4>2
    <3> QED
      BY <3>1, <3>2
  <2>4. \A i \in 1..(Len(consumed') - Len(saved')) :
          i > Len(consumed') - 2 => consumed'[i] = "next"
    BY <1>1, <1>12, <2>3
  <2> QED
    BY <2>1, <2>2, <2>4 DEF SavedIsTheEnd
<1> DEFINE more == [k \in 1..Len(st) |-> base + st[k]]
<1>14. /\ st \in Seq(Nat \ {0}) /\ Len(st) \in Nat
       /\ \A k \in 1..Len(st) : st[k] \in 1..m /\ PacketAt(packet, st[k])
  <2>1. st \in Seq(Nat \ {0}) /\ DOMAIN st = 1..Len(st)
    BY <1>10
  <2>2. \A k \in 1..Len(st) : st[k] \in ToSet(st)
    BY <2>1 DEF ToSet
  <2> QED
    BY <1>10, <2>1, <2>2
<1>15. /\ more \in Seq(Nat \ {0}) /\ Len(more) = Len(st)
       /\ \A k \in 1..Len(st) : more[k] = base + st[k]
  <2>1. \A k \in 1..Len(st) : base + st[k] \in Nat \ {0}
    <3> TAKE k \in 1..Len(st)
    <3>1. st[k] \in 1..m
      BY <1>14
    <3> HIDE DEF m, st
    <3> QED
      BY <1>2, <1>7, <3>1
  <2> QED
    BY <1>14, <2>1
<1> HIDE DEF more, st, left
<1> DEFINE H == handled \o more
<1>16. /\ handled' = H /\ H \in Seq(Nat \ {0}) /\ Len(H) = Len(handled) + Len(st)
       /\ Len(handled) \in Nat /\ Len(H) \in Nat
       /\ \A k \in 1..(Len(handled) + Len(st)) :
            H[k] = IF k <= Len(handled) THEN handled[k] ELSE more[k - Len(handled)]
  <2>1. handled' = H
    BY <1>1 DEF more, st
  <2>2. handled \in Seq(Nat \ {0}) /\ more \in Seq(Nat \ {0}) /\ Len(more) = Len(st)
    BY <1>2, <1>15
  <2>3. /\ H \in Seq(Nat \ {0}) /\ Len(H) = Len(handled) + Len(st)
        /\ \A k \in 1..(Len(handled) + Len(st)) :
             H[k] = IF k <= Len(handled) THEN handled[k] ELSE more[k - Len(handled)]
    <3>1. /\ H \in Seq(Nat \ {0}) /\ Len(H) = Len(handled) + Len(more)
          /\ \A k \in 1..Len(handled) + Len(more) :
               H[k] = IF k <= Len(handled) THEN handled[k] ELSE more[k - Len(handled)]
      BY <2>2, ConcatProperties
    <3> HIDE DEF H
    <3> QED
      BY <2>2, <3>1
  <2>4. Len(handled) \in Nat /\ Len(H) \in Nat
    BY <2>2, <2>3
  <2> QED
    BY <2>1, <2>3, <2>4
<1> HIDE DEF H
<1>24. Len(handled) \in Nat /\ Len(st) \in Nat /\ Len(H) = Len(handled) + Len(st)
  BY <1>14, <1>16
<1>17. \A k \in 1..Len(handled) : /\ handled[k] \in 1..base
                                  /\ handled[k] + 2 <= Len(consumed)
                                  /\ PacketAt(consumed, handled[k])
  <2> TAKE k \in 1..Len(handled)
  <2>1. handled[k] \in ToSet(handled)
    BY <1>2 DEF ToSet
  <2>2. handled[k] \in 1..Len(consumed) /\ PacketAt(consumed, handled[k])
    BY <2>1 DEF ReceiveInv, PacketsAreTheWholeOnes
  <2>3. handled[k] + 2 <= Len(consumed)
    BY <2>2 DEF PacketAt
  <2> QED
    BY <1>2, <2>2, <2>3
<1>18. Increasing(H)
  <2> SUFFICES ASSUME NEW j \in 1..Len(H), NEW k \in 1..Len(H), j < k PROVE H[j] < H[k]
    BY DEF Increasing
  <2>1. CASE k <= Len(handled)
    <3>1. j \in 1..Len(handled) /\ k \in 1..Len(handled) /\ H[j] = handled[j] /\ H[k] = handled[k]
      BY <1>16, <2>1
    <3> QED
      BY <3>1 DEF ReceiveInv, PacketsAreTheWholeOnes
  <2>2. CASE ~ (k <= Len(handled))
    <3>0. k - Len(handled) \in 1..Len(st)
      BY <1>24, <2>2
    <3>1. k - Len(handled) \in 1..Len(st) /\ H[k] = base + st[k - Len(handled)]
      BY <1>15, <1>16, <1>24, <2>2, <3>0
    <3>2. CASE j <= Len(handled)
      <4>1. j \in 1..Len(handled) /\ H[j] = handled[j]
        BY <1>16, <3>2
      <4>2. handled[j] \in 1..base /\ st[k - Len(handled)] \in 1..m
        BY <1>14, <1>17, <3>1, <4>1
      <4>3. base \in Nat /\ handled[j] <= base /\ st[k - Len(handled)] >= 1
            /\ handled[j] \in Nat /\ st[k - Len(handled)] \in Nat
        <5>1. base \in Nat /\ m \in Nat
          BY <1>2, <1>7
        <5> HIDE DEF m, st
        <5> QED
          BY <5>1, <4>2
      <4>4. handled[j] < base + st[k - Len(handled)]
        BY <4>3
      <4> QED
        BY <3>1, <4>1, <4>4
    <3>3. CASE ~ (j <= Len(handled))
      <4>0. j - Len(handled) \in 1..Len(st)
        BY <1>24, <3>3
      <4>5. j - Len(handled) < k - Len(handled)
        BY <1>24
      <4>6. H[j] = more[j - Len(handled)]
        BY <1>16, <1>24, <3>3
      <4>1. j - Len(handled) \in 1..Len(st) /\ H[j] = base + st[j - Len(handled)]
            /\ j - Len(handled) < k - Len(handled)
        BY <1>15, <4>0, <4>5, <4>6
      <4>2. st[j - Len(handled)] < st[k - Len(handled)]
        BY <1>10, <3>1, <4>1 DEF Increasing, st
      <4>3. st[j - Len(handled)] \in 1..m /\ st[k - Len(handled)] \in 1..m
        BY <1>14, <3>1, <4>1
      <4>7. base \in Int /\ st[j - Len(handled)] \in Int /\ st[k - Len(handled)] \in Int
        BY <1>2, <4>3
      <4>8. base + st[j - Len(handled)] < base + st[k - Len(handled)]
        <5> HIDE DEF st
        <5> QED
          BY <4>2, <4>7
      <4> QED
        BY <3>1, <4>1, <4>8
    <3> QED
      BY <3>2, <3>3
  <2> QED
    BY <2>1, <2>2
<1>19. \A i \in 1..m : PacketAt(packet, i) <=> PacketAt(C, base + i)
  <2> TAKE i \in 1..m
  <2>1. (i + 2 <= Len(packet)) <=> ((base + i) + 2 <= Len(C))
    BY <1>2, <1>7
  <2>2. ASSUME i + 2 <= m
        PROVE  /\ packet[i] = C[base + i] /\ packet[i + 1] = C[(base + i) + 1]
               /\ packet[i + 2] = C[(base + i) + 2]
    <3>1. i + 1 \in 1..m /\ i + 2 \in 1..m
      BY <1>7, <2>2
    <3>2. base + (i + 1) = (base + i) + 1 /\ base + (i + 2) = (base + i) + 2
      BY <1>2
    <3> QED
      BY <1>8, <3>1, <3>2
  <2> QED
    BY <2>1, <2>2 DEF PacketAt
<1>20. \A i \in 1..base : PacketAt(C, i) <=> PacketAt(consumed, i)
  <2> TAKE i \in 1..base
  <2>1. i \in Nat /\ i \in 1..Len(consumed)
    BY <1>2
  <2>2. CASE i + 2 <= Len(consumed)
    <3>1. i + 1 \in 1..Len(consumed) /\ i + 2 \in 1..Len(consumed) /\ i + 2 <= Len(C)
      BY <1>2, <1>4, <1>6, <2>1, <2>2
    <3> QED
      BY <1>9, <2>1, <2>2, <3>1 DEF PacketAt
  <2>3. CASE ~ (i + 2 <= Len(consumed))
    <3>1. i > Len(consumed) - 2
      BY <1>2, <2>1, <2>3
    <3>2. consumed[i] = "next"
      BY <3>1 DEF ReceiveInv, SavedIsTheEnd, base
    <3>3. C[i] = "next"
      BY <1>9, <2>1, <3>2
    <3> QED
      BY <2>3, <3>3 DEF PacketAt
  <2> QED
    BY <2>2, <2>3
<1>21. ToSet(H) = {i \in 1..Len(C) : PacketAt(C, i)}
  <2>0. DOMAIN H = 1..Len(H)
    BY <1>16
  <2>1. ASSUME NEW k \in 1..Len(H) PROVE H[k] \in 1..Len(C) /\ PacketAt(C, H[k])
    <3>1. CASE k <= Len(handled)
      <4>1. k \in 1..Len(handled) /\ H[k] = handled[k]
        BY <1>16, <3>1
      <4>2. H[k] \in 1..base /\ PacketAt(consumed, H[k])
        BY <1>17, <4>1
      <4>3. H[k] \in 1..Len(C)
        BY <1>2, <1>7, <4>2
      <4> QED
        BY <1>20, <4>2, <4>3
    <3>2. CASE ~ (k <= Len(handled))
      <4>0. k - Len(handled) \in 1..Len(st)
        BY <1>24, <3>2
      <4>1. k - Len(handled) \in 1..Len(st) /\ H[k] = base + st[k - Len(handled)]
        BY <1>15, <1>16, <1>24, <3>2, <4>0
      <4>2. st[k - Len(handled)] \in 1..m /\ PacketAt(packet, st[k - Len(handled)])
        BY <1>14, <4>1
      <4>3. PacketAt(C, base + st[k - Len(handled)])
        BY <1>19, <4>2
      <4>4. base + st[k - Len(handled)] \in 1..Len(C)
        BY <1>2, <1>7, <4>2
      <4> QED
        BY <4>1, <4>3, <4>4
    <3> QED
      BY <3>1, <3>2
  <2>2. ASSUME NEW i \in 1..Len(C), PacketAt(C, i) PROVE \E k \in 1..Len(H) : H[k] = i
    <3>1. CASE i \in 1..base
      <4>1. PacketAt(consumed, i) /\ i \in 1..Len(consumed)
        BY <1>2, <1>20, <2>2, <3>1
      <4>2. i \in ToSet(handled)
        BY <4>1 DEF ReceiveInv, PacketsAreTheWholeOnes
      <4>3. PICK k \in 1..Len(handled) : handled[k] = i
        BY <1>2, <4>2 DEF ToSet
      <4>4. k \in 1..Len(H) /\ H[k] = handled[k]
        BY <1>14, <1>16, <4>3
      <4> QED
        BY <4>3, <4>4
    <3>2. CASE i \notin 1..base
      <4>1. i - base \in 1..m /\ base + (i - base) = i
        BY <1>2, <1>7, <3>2
      <4>2. PacketAt(packet, i - base)
        BY <1>19, <2>2, <4>1
      <4>3. i - base \in ToSet(st)
        BY <1>10, <4>1, <4>2 DEF st
      <4>4. PICK k \in 1..Len(st) : st[k] = i - base
        BY <1>14, <4>3 DEF ToSet
      <4>7. /\ Len(handled) + k \in 1..(Len(handled) + Len(st)) /\ Len(handled) + k \in 1..Len(H)
            /\ ~ (Len(handled) + k <= Len(handled)) /\ (Len(handled) + k) - Len(handled) = k
        BY <1>24
      <4>5. Len(handled) + k \in 1..Len(H) /\ H[Len(handled) + k] = more[k]
        BY <1>16, <4>7
      <4>6. more[k] = i
        BY <1>15, <4>1, <4>4
      <4> QED
        BY <4>5, <4>6
    <3> QED
      BY <3>1, <3>2
  <2> QED
    BY <2>0, <2>1, <2>2 DEF ToSet
<1>22. Holds(rx', RxBytes)
  BY <1>1, <1>3, PopKeeps
<1>23. PacketsAreTheWholeOnes'
  BY <1>1, <1>16, <1>18, <1>21 DEF PacketsAreTheWholeOnes, Increasing
<1> QED
  BY <1>1, <1>6, <1>12, <1>13, <1>16, <1>22, <1>23 DEF ReceiveInv, Holds, Cell

LEMMA ReceiveKeepsReceiveInv ==
  ASSUME ReceiveInv, Receive
  PROVE  ReceiveInv'
<1>n. PICK n \in Lengths : \E burst \in [1..n -> RxBytes] : rcv_buf(burst)
  BY DEF Receive
<1>1. PICK burst \in [1..n -> RxBytes] : rcv_buf(burst)
  BY <1>n
<1>2. burst \in Seq(RxBytes)
  <2>1. n \in Nat
    BY InputsAssumption
  <2> QED
    BY <2>1
<1>3. Holds(rx, RxBytes)
  BY DEF ReceiveInv
<1>4. Holds(PushAll(rx, burst).ring, RxBytes)
  BY <1>2, <1>3, PushAllTakesAPrefix DEF TakesAPrefix
<1>5. data_callback(PushAll(rx, burst).ring)
  BY <1>1 DEF rcv_buf
<1> QED
  BY <1>4, <1>5, CallbackKeepsReceiveInv

-----------------------------------------------------------------------------
(* Transmitting *)

Buf(c) == ctx[c].buf

\* Bytes are numbered as they are put; those up to Given have left the ring.
Given == nput - buf_used(tx)

\* Consecutive bytes.
IsARun(b) == \A k \in 1..Len(b) : b[k] = b[1] + (k - 1)

Places == {"out", "room", "take", "write"}

ContextType == [pc : Places, room : 0..PORT, buf : Seq(Nat)]

SendType ==
  /\ Holds(tx, Nat)
  /\ ctx \in [Contexts -> ContextType]
  /\ inPort \in 0..PORT /\ overlap \in BOOLEAN
  /\ nput \in Nat /\ wire \in Seq(Nat) /\ lost \in SUBSET Nat /\ IsFiniteSet(lost)

\* The ring holds the last bytes put; the contexts hold runs of those before.
RingIsTheEnd ==
  /\ buf_used(tx) <= nput
  /\ \A k \in 1..buf_used(tx) : Cell(tx, k) = Given + k

BuffersAreRuns ==
  \A c \in Contexts : /\ ctx[c].pc # "write" => Buf(c) = <<>>
                      /\ IsARun(Buf(c))

GivenIsSomewhere ==
  /\ 1..Given = InFlight("ioctl") \cup InFlight("irq") \cup OnWire \cup lost
  /\ InFlight("ioctl") \cap InFlight("irq") = {}
  /\ \A c \in Contexts : InFlight(c) \cap lost = {}
  /\ Given = (Len(Buf("ioctl")) + Len(Buf("irq"))) + (Len(wire) + Cardinality(lost))

WireIsBehind ==
  ~ overlap => /\ \E c \in Contexts : ctx[c].pc = "out"
               /\ Increasing(wire)
               /\ \A c \in Contexts : \A x \in OnWire : \A y \in InFlight(c) : x < y

SendInv == SendType /\ RingIsTheEnd /\ BuffersAreRuns /\ GivenIsSomewhere /\ WireIsBehind

LEMMA ContextFacts ==
  ASSUME SendType, NEW c \in Contexts
  PROVE  /\ ctx[c].pc \in Places /\ ctx[c].room \in 0..PORT
         /\ Buf(c) \in Seq(Nat) /\ Len(Buf(c)) \in Nat
         /\ InFlight(c) = {Buf(c)[k] : k \in 1..Len(Buf(c))}
         /\ ctx[c] = [pc |-> ctx[c].pc, room |-> ctx[c].room, buf |-> Buf(c)]
BY DEF SendType, Buf, InFlight, ToSet, ContextType

LEMMA ContextRecords ==
  ASSUME NEW p, NEW r, NEW b
  PROVE  LET t == [pc |-> p, room |-> r, buf |-> b] IN
         /\ t.pc = p /\ t.room = r /\ t.buf = b
         /\ p \in Places /\ r \in 0..PORT /\ b \in Seq(Nat) => t \in ContextType
BY DEF ContextType

LEMMA RingFacts2 ==
  ASSUME SendType, RingIsTheEnd
  PROVE  /\ buf_used(tx) \in Nat /\ Given \in Nat /\ nput = Given + buf_used(tx)
         /\ buf_used(tx) < TUXCTL_BUFSIZE
BY RingFacts DEF SendType, RingIsTheEnd, Holds, Given

LEMMA WireFacts ==
  ASSUME SendType
  PROVE  OnWire = {wire[k] : k \in 1..Len(wire)} /\ Len(wire) \in Nat /\ Cardinality(lost) \in Nat
BY FS_CardinalityType DEF SendType, OnWire, ToSet

\* A step that leaves what was given where it is.
LEMMA BytesStay ==
  ASSUME SendInv, SendType', RingIsTheEnd', Given' = Given, wire' = wire, lost' = lost,
         overlap' = overlap,
         \A c \in Contexts : Buf(c)' = Buf(c),
         \A c \in Contexts : ctx'[c].pc # "write" => Buf(c)' = <<>>,
         ~ overlap => \E c \in Contexts : ctx'[c].pc = "out"
  PROVE  SendInv'
<1>1. \A c \in Contexts : InFlight(c)' = InFlight(c)
  BY DEF InFlight, Buf
<1>2. "ioctl" \in Contexts /\ "irq" \in Contexts
  BY DEF Contexts
<1>3. OnWire' = OnWire
  BY DEF OnWire
<1>4. BuffersAreRuns'
  BY DEF SendInv, BuffersAreRuns, IsARun
<1>5. GivenIsSomewhere'
  BY <1>1, <1>2, <1>3 DEF SendInv, GivenIsSomewhere
<1>6. WireIsBehind'
  BY <1>1, <1>3 DEF SendInv, WireIsBehind
<1> QED
  BY <1>4, <1>5, <1>6 DEF SendInv

LEMMA PutKeepsSendInv ==
  ASSUME SendInv, NEW c \in Contexts, NEW n \in Lengths, tuxctl_ldisc_put(c, n)
  PROVE  SendInv'
<1> DEFINE s == [k \in 1..n |-> nput + k]
<1> DEFINE p == PushAll(tx, s)
<1>1. /\ MayEnter(c) /\ tx' = p.ring /\ nput' = nput + p.stored
      /\ ctx' = [ctx EXCEPT ![c] = [Out EXCEPT !.pc = "room"]]
      /\ UNCHANGED <<inPort, overlap, wire, lost>>
  BY DEF tuxctl_ldisc_put
<1>2. n \in Nat /\ nput \in Nat /\ Holds(tx, Nat)
  BY InputsAssumption DEF SendInv, SendType
<1>3. s \in Seq(Nat) /\ Len(s) = n /\ \A k \in 1..n : s[k] = nput + k
  BY <1>2
<1> HIDE DEF s
<1>4. /\ p.stored \in 0..n /\ Holds(p.ring, Nat)
      /\ buf_used(p.ring) = buf_used(tx) + p.stored
      /\ \A k \in 1..buf_used(tx) : Cell(p.ring, k) = Cell(tx, k)
      /\ \A k \in 1..p.stored : Cell(p.ring, buf_used(tx) + k) = s[k]
  <2>1. TakesAPrefix(p, tx, s, Nat)
    BY <1>2, <1>3, PushAllTakesAPrefix
  <2> HIDE DEF p
  <2> QED
    BY <1>3, <2>1 DEF TakesAPrefix
<1> HIDE DEF p
<1>5. buf_used(tx) \in Nat /\ Given \in Nat /\ nput = Given + buf_used(tx)
  BY RingFacts2 DEF SendInv
<1>6. p.stored \in Nat /\ p.stored <= n
  BY <1>2, <1>4
<1>7. buf_used(tx)' = buf_used(tx) + p.stored
  <2>1. buf_used(tx)' = buf_used(p.ring)
    BY <1>1 DEF buf_used
  <2> QED
    BY <1>4, <2>1
<1>8. Given' = Given
  BY <1>1, <1>5, <1>6, <1>7 DEF Given
<1>9. \A k : Cell(tx, k)' = Cell(p.ring, k)
  BY <1>1 DEF Cell
<1>10. RingIsTheEnd'
  <2>1. buf_used(tx)' <= nput'
    BY <1>1, <1>5, <1>6, <1>7
  <2>2. ASSUME NEW k \in 1..buf_used(tx)' PROVE Cell(tx, k)' = Given' + k
    <3>1. CASE k \in 1..buf_used(tx)
      <4>1. Cell(tx, k) = Given + k
        BY <3>1 DEF SendInv, RingIsTheEnd
      <4> QED
        BY <1>4, <1>8, <1>9, <3>1, <4>1
    <3>2. CASE k \notin 1..buf_used(tx)
      <4>0. k \in Nat /\ k > buf_used(tx) /\ k <= buf_used(tx) + p.stored
        BY <1>5, <1>6, <1>7, <3>2
      <4>1. k - buf_used(tx) \in 1..p.stored /\ buf_used(tx) + (k - buf_used(tx)) = k
            /\ k - buf_used(tx) \in 1..n
        BY <1>2, <1>5, <1>6, <4>0
      <4>2. Cell(p.ring, k) = nput + (k - buf_used(tx))
        BY <1>3, <1>4, <4>1
      <4>3. nput + (k - buf_used(tx)) = Given + k
        <5>1. k \in Int
          BY <1>5, <1>7, <1>6
        <5> QED
          BY <1>5, <5>1
      <4> QED
        BY <1>8, <1>9, <4>2, <4>3
    <3> QED
      BY <3>1, <3>2
  <2> QED
    BY <2>1, <2>2 DEF RingIsTheEnd
<1>11. ctx \in [Contexts -> ContextType]
  BY DEF SendInv, SendType
<1> DEFINE new == [pc |-> "room", room |-> 0, buf |-> <<>>]
<1>12. ctx' = [ctx EXCEPT ![c] = new]
  <2>1. [Out EXCEPT !.pc = "room"] = new
    BY DEF Out
  <2> QED
    BY <1>1, <2>1
<1>13. new \in ContextType /\ new.pc = "room" /\ new.buf = <<>>
  <2>1. 0 \in 0..PORT /\ "room" \in Places /\ <<>> \in Seq(Nat)
    BY SizesAssumption DEF Places
  <2> QED
    BY <2>1, ContextRecords
<1> HIDE DEF new
<1>14. SendType'
  BY <1>1, <1>4, <1>6, <1>2, <1>11, <1>12, <1>13 DEF SendInv, SendType, Holds, Cell
<1>15. /\ ctx'[c] = new /\ \A d \in Contexts : d # c => ctx'[d] = ctx[d]
  BY <1>11, <1>12
<1>16. \A d \in Contexts : Buf(d)' = Buf(d) /\ (ctx'[d].pc # "write" => Buf(d)' = <<>>)
  <2>1. Buf(c) = <<>>
    BY <1>1 DEF MayEnter, SendInv, BuffersAreRuns
  <2> QED
    BY <1>13, <1>15, <2>1 DEF Buf, SendInv, BuffersAreRuns
<1>17. ~ overlap => \E d \in Contexts : ctx'[d].pc = "out"
  <2> DEFINE d == IF c = "irq" THEN "ioctl" ELSE "irq"
  <2>1. d \in Contexts /\ d # c
    BY DEF Contexts
  <2>2. ~ overlap => ctx[d].pc = "out"
    BY <1>1, <2>1 DEF MayEnter
  <2> QED
    BY <1>15, <2>1, <2>2
<1> QED
  BY <1>1, <1>8, <1>10, <1>14, <1>16, <1>17, BytesStay

LEMMA EnterKeepsSendInv ==
  ASSUME SendInv, Wakeup \/ \E c \in Contexts : ReadRoom(c)
  PROVE  SendInv'
<1>1. PICK c \in Contexts :
        \/ MayEnter(c) /\ ctx' = [ctx EXCEPT ![c] = [Out EXCEPT !.pc = "room"]]
        \/ /\ ctx[c].pc = "room"
           /\ ctx' = [ctx EXCEPT ![c] = [@ EXCEPT !.pc = "take", !.room = Room]]
  BY DEF Wakeup, ReadRoom, Contexts
<1>2. UNCHANGED <<tx, inPort, overlap, nput, wire, lost>>
  BY DEF Wakeup, ReadRoom
<1>3. ctx \in [Contexts -> ContextType]
  BY DEF SendInv, SendType
<1>4. Buf(c) = <<>>
  BY <1>1 DEF MayEnter, SendInv, BuffersAreRuns
<1>5. PICK new \in ContextType :
        new.pc \in {"room", "take"} /\ new.buf = <<>> /\ ctx' = [ctx EXCEPT ![c] = new]
  <2>0. <<>> \in Seq(Nat) /\ "room" \in Places /\ "take" \in Places /\ 0 \in 0..PORT
        /\ Room \in 0..PORT
    BY SizesAssumption DEF Places, Room, SendInv, SendType
  <2>1. CASE MayEnter(c) /\ ctx' = [ctx EXCEPT ![c] = [Out EXCEPT !.pc = "room"]]
    <3> DEFINE new == [pc |-> "room", room |-> 0, buf |-> <<>>]
    <3>1. [Out EXCEPT !.pc = "room"] = new
      BY DEF Out
    <3>2. new \in ContextType /\ new.pc = "room" /\ new.buf = <<>>
      BY <2>0, ContextRecords
    <3> HIDE DEF new
    <3> QED
      BY <2>1, <3>1, <3>2
  <2>2. CASE /\ ctx[c].pc = "room"
             /\ ctx' = [ctx EXCEPT ![c] = [@ EXCEPT !.pc = "take", !.room = Room]]
    <3> DEFINE new == [pc |-> "take", room |-> Room, buf |-> <<>>]
    <3> DEFINE old == [pc |-> ctx[c].pc, room |-> ctx[c].room, buf |-> <<>>]
    <3>1. ctx[c] = old
      BY <1>4, ContextFacts DEF SendInv
    <3>2. [ctx[c] EXCEPT !.pc = "take", !.room = Room] = new
      <4> DEFINE mid == [pc |-> "take", room |-> ctx[c].room, buf |-> <<>>]
      <4>1. [old EXCEPT !.pc = "take"] = mid
        OBVIOUS
      <4>2. [mid EXCEPT !.room = Room] = new
        OBVIOUS
      <4> HIDE DEF old, mid, new
      <4> QED
        BY <3>1, <4>1, <4>2, Zenon
    <3>3. new \in ContextType /\ new.pc = "take" /\ new.buf = <<>>
      BY <2>0, ContextRecords
    <3> HIDE DEF new
    <3>4. ctx' = [ctx EXCEPT ![c] = new]
      BY <2>2, <3>2
    <3> QED
      BY <3>3, <3>4
  <2> QED
    BY <1>1, <2>1, <2>2
<1>6. /\ ctx'[c] = new /\ \A d \in Contexts : d # c => ctx'[d] = ctx[d]
  BY <1>3, <1>5
<1>7. buf_used(tx)' = buf_used(tx) /\ Given' = Given
  BY <1>2 DEF buf_used, Given
<1>8. SendType'
  <2>1. ctx' \in [Contexts -> ContextType]
    BY <1>3, <1>5
  <2> QED
    BY <1>2, <1>7, <2>1 DEF SendInv, SendType, Holds, Cell
<1>9. RingIsTheEnd'
  BY <1>2, <1>7 DEF SendInv, RingIsTheEnd, Cell
<1>10. \A d \in Contexts : Buf(d)' = Buf(d) /\ (ctx'[d].pc # "write" => Buf(d)' = <<>>)
  BY <1>4, <1>5, <1>6 DEF Buf, SendInv, BuffersAreRuns
<1>11. ~ overlap => \E d \in Contexts : ctx'[d].pc = "out"
  <2> DEFINE d == IF c = "irq" THEN "ioctl" ELSE "irq"
  <2>1. d \in Contexts /\ d # c
    BY DEF Contexts
  <2>2. ~ overlap => ctx[d].pc = "out"
    <3>1. CASE MayEnter(c)
      BY <2>1, <3>1 DEF MayEnter
    <3>2. CASE ctx[c].pc = "room"
      <4>1. ~ overlap => \E e \in Contexts : ctx[e].pc = "out"
        BY DEF SendInv, WireIsBehind
      <4> QED
        BY <3>2, <4>1 DEF Contexts
    <3> QED
      BY <1>1, <3>1, <3>2
  <2> QED
    BY <1>6, <2>1, <2>2
<1> QED
  BY <1>2, <1>7, <1>8, <1>9, <1>10, <1>11, BytesStay

\* The bytes given, by the buffers of the contexts in either order.
SomewhereFor(c, d) ==
  /\ 1..Given = InFlight(c) \cup InFlight(d) \cup OnWire \cup lost
  /\ InFlight(c) \cap InFlight(d) = {}
  /\ InFlight(c) \cap lost = {} /\ InFlight(d) \cap lost = {}
  /\ Given = (Len(Buf(c)) + Len(Buf(d))) + (Len(wire) + Cardinality(lost))

LEMMA OtherContext ==
  ASSUME NEW c \in Contexts
  PROVE  \E d \in Contexts : d # c /\ \A e \in Contexts : e = c \/ e = d
<1>1. CASE c = "irq"
  <2>1. "ioctl" \in Contexts /\ "ioctl" # c /\ \A e \in Contexts : e = c \/ e = "ioctl"
    BY <1>1 DEF Contexts
  <2> QED
    BY <2>1
<1>2. CASE c = "ioctl"
  <2>1. "irq" \in Contexts /\ "irq" # c /\ \A e \in Contexts : e = c \/ e = "irq"
    BY <1>2 DEF Contexts
  <2> QED
    BY <2>1
<1> QED
  BY <1>1, <1>2 DEF Contexts

LEMMA EitherOrder ==
  ASSUME NEW c \in Contexts, NEW d \in Contexts, c # d,
         \A e \in Contexts : Len(Buf(e)) \in Nat
  PROVE  GivenIsSomewhere <=> SomewhereFor(c, d)
<1>1. (c = "ioctl" /\ d = "irq") \/ (c = "irq" /\ d = "ioctl")
  BY DEF Contexts
<1>2. Len(Buf("irq")) + Len(Buf("ioctl")) = Len(Buf("ioctl")) + Len(Buf("irq"))
  BY DEF Contexts
<1>3. \A e \in Contexts : e = "ioctl" \/ e = "irq"
  BY DEF Contexts
<1>4. "ioctl" \in Contexts /\ "irq" \in Contexts
  BY DEF Contexts
<1> QED
  BY <1>1, <1>2, <1>3, <1>4 DEF GivenIsSomewhere, SomewhereFor

LEMMA EitherOrderNext ==
  ASSUME NEW c \in Contexts, NEW d \in Contexts, c # d,
         \A e \in Contexts : Len(Buf(e)') \in Nat
  PROVE  GivenIsSomewhere' <=> SomewhereFor(c, d)'
<1>1. (c = "ioctl" /\ d = "irq") \/ (c = "irq" /\ d = "ioctl")
  BY DEF Contexts
<1>2. Len(Buf("irq")') + Len(Buf("ioctl")') = Len(Buf("ioctl")') + Len(Buf("irq")')
  BY DEF Contexts
<1>3. \A e \in Contexts : e = "ioctl" \/ e = "irq"
  BY DEF Contexts
<1>4. "ioctl" \in Contexts /\ "irq" \in Contexts
  BY DEF Contexts
<1> QED
  BY <1>1, <1>2, <1>3, <1>4 DEF GivenIsSomewhere, SomewhereFor

LEMMA TakeKeepsSendInv ==
  ASSUME SendInv, NEW c \in Contexts, Take(c)
  PROVE  SendInv'
<1> DEFINE n == Least(ctx[c].room + 1, buf_used(tx))
<1> DEFINE F == First(tx, n)
<1>1. /\ ctx[c].pc = "take" /\ tx' = Pop(tx, n)
      /\ ctx' = [ctx EXCEPT ![c] = [@ EXCEPT !.pc = "write", !.buf = F]]
      /\ UNCHANGED <<inPort, overlap, nput, wire, lost>>
  BY DEF Take
<1>2. /\ Holds(tx, Nat) /\ ctx \in [Contexts -> ContextType]
      /\ ctx[c].room \in Nat /\ ctx[c].room \in 0..PORT
      /\ buf_used(tx) \in Nat /\ Given \in Nat /\ nput = Given + buf_used(tx)
  <2>1. ctx[c].room \in 0..PORT /\ PORT \in Nat
    BY ContextFacts, SizesAssumption DEF SendInv
  <2> QED
    BY <2>1, RingFacts2 DEF SendInv, SendType
<1>3. n \in 0..buf_used(tx) /\ n \in Nat
  BY <1>2 DEF Least
<1> HIDE DEF n
<1>4. /\ F \in Seq(Nat) /\ Len(F) = n
      /\ \A k \in 1..n : F[k] = Given + k
  <2>1. /\ F \in Seq(Nat) /\ Len(F) = n
        /\ \A k \in 1..n : F[k] = Cell(tx, k)
    BY <1>2, <1>3, FirstIsCells
  <2>2. ASSUME NEW k \in 1..n PROVE Cell(tx, k) = Given + k
    <3>1. k \in 1..buf_used(tx)
      BY <1>2, <1>3
    <3> QED
      BY <3>1 DEF SendInv, RingIsTheEnd
  <2> QED
    BY <2>1, <2>2
<1> HIDE DEF F
<1>5. /\ Holds(tx', Nat)
      /\ buf_used(tx') = buf_used(tx) - n
      /\ \A k \in 1..(buf_used(tx) - n) : Cell(tx', k) = Cell(tx, n + k)
  BY <1>1, <1>2, <1>3, PopKeeps
<1>6. buf_used(tx)' = buf_used(tx) - n /\ Holds(tx, Nat)'
      /\ \A k : Cell(tx, k)' = Cell(tx', k)
  BY <1>5 DEF buf_used, Holds, Cell
<1>7. Given' = Given + n
  BY <1>1, <1>2, <1>3, <1>6 DEF Given
<1>8. RingIsTheEnd'
  <2>1. buf_used(tx)' <= nput'
    BY <1>1, <1>2, <1>3, <1>6
  <2>2. ASSUME NEW k \in 1..buf_used(tx)' PROVE Cell(tx, k)' = Given' + k
    <3>1. k \in 1..(buf_used(tx) - n) /\ n + k \in 1..buf_used(tx) /\ k \in Nat
      BY <1>2, <1>3, <1>6
    <3>2. Cell(tx, n + k) = Given + (n + k)
      BY <3>1 DEF SendInv, RingIsTheEnd
    <3>3. Given + (n + k) = (Given + n) + k
      BY <1>2, <1>3, <3>1
    <3> QED
      BY <1>5, <1>6, <1>7, <3>1, <3>2, <3>3
  <2> QED
    BY <2>1, <2>2 DEF RingIsTheEnd
<1> DEFINE new == [pc |-> "write", room |-> ctx[c].room, buf |-> F]
<1>9. /\ ctx' = [ctx EXCEPT ![c] = new] /\ new \in ContextType
      /\ new.buf = F /\ new.pc = "write"
  <2> DEFINE old == [pc |-> ctx[c].pc, room |-> ctx[c].room, buf |-> Buf(c)]
  <2>1. ctx[c] = old
    BY ContextFacts DEF SendInv
  <2>2. [ctx[c] EXCEPT !.pc = "write", !.buf = F] = new
    <3> DEFINE mid == [pc |-> "write", room |-> ctx[c].room, buf |-> Buf(c)]
    <3>1. [old EXCEPT !.pc = "write"] = mid
      OBVIOUS
    <3>2. [mid EXCEPT !.buf = F] = new
      OBVIOUS
    <3> HIDE DEF old, mid, new
    <3> QED
      BY <2>1, <3>1, <3>2, Zenon
  <2>3. new \in ContextType /\ new.buf = F /\ new.pc = "write"
    <3>1. "write" \in Places
      BY DEF Places
    <3> QED
      BY <1>2, <1>4, <3>1, ContextRecords
  <2> HIDE DEF new
  <2> QED
    BY <1>1, <2>2, <2>3
<1> HIDE DEF new
<1>10. /\ ctx'[c] = new /\ ctx' \in [Contexts -> ContextType]
       /\ \A e \in Contexts : e # c => ctx'[e] = ctx[e]
  BY <1>2, <1>9
<1>11. SendType'
  BY <1>1, <1>6, <1>10 DEF SendInv, SendType
<1>12. PICK d \in Contexts : d # c /\ \A e \in Contexts : e = c \/ e = d
  BY OtherContext
<1>13. /\ Buf(c)' = F /\ Buf(d)' = Buf(d)
       /\ Buf(c) = <<>> /\ Len(Buf(c)) = 0 /\ InFlight(c) = {}
       /\ InFlight(d)' = InFlight(d) /\ OnWire' = OnWire
  <2>1. Buf(c) = <<>>
    BY <1>1 DEF SendInv, BuffersAreRuns
  <2> QED
    BY <1>1, <1>9, <1>10, <1>12, <2>1 DEF Buf, InFlight, OnWire, ToSet
<1>14. InFlight(c)' = (Given + 1)..(Given + n)
  <2>1. InFlight(c)' = {F[k] : k \in 1..n}
    BY <1>4, <1>13 DEF InFlight, ToSet, Buf
  <2>2. ASSUME NEW x \in (Given + 1)..(Given + n) PROVE x \in {F[k] : k \in 1..n}
    <3>1. x - Given \in 1..n /\ Given + (x - Given) = x
      BY <1>2, <1>3
    <3>2. F[x - Given] = x
      BY <1>4, <3>1
    <3> QED
      BY <3>1, <3>2
  <2>3. ASSUME NEW k \in 1..n PROVE F[k] \in (Given + 1)..(Given + n)
    BY <1>2, <1>3, <1>4
  <2> QED
    BY <2>1, <2>2, <2>3
<1>15. SomewhereFor(c, d) /\ \A e \in Contexts : Len(Buf(e)) \in Nat
  BY <1>12, ContextFacts, EitherOrder DEF SendInv
<1>16. SomewhereFor(c, d)'
  <2>1. 1..Given = InFlight(d) \cup OnWire \cup lost
    BY <1>13, <1>15 DEF SomewhereFor
  <2>2. 1..(Given + n) = 1..Given \cup (Given + 1)..(Given + n)
        /\ 1..Given \cap (Given + 1)..(Given + n) = {}
    BY <1>2, <1>3
  <2>3. 1..(Given + n) = InFlight(c)' \cup InFlight(d) \cup OnWire \cup lost
    BY <1>14, <2>1, <2>2
  <2>4. InFlight(c)' \cap InFlight(d) = {} /\ InFlight(c)' \cap lost = {}
    BY <1>14, <2>1, <2>2
  <2>5. Given + n = (n + Len(Buf(d))) + (Len(wire) + Cardinality(lost))
    <3>1. Given = (0 + Len(Buf(d))) + (Len(wire) + Cardinality(lost))
      BY <1>13, <1>15 DEF SomewhereFor
    <3>2. Len(Buf(d)) \in Nat /\ Len(wire) \in Nat /\ Cardinality(lost) \in Nat
      BY <1>12, <1>15, WireFacts DEF SendInv
    <3> QED
      BY <1>3, <3>1, <3>2
  <2> QED
    BY <1>1, <1>4, <1>7, <1>13, <1>15, <2>3, <2>4, <2>5 DEF SomewhereFor
<1>17. GivenIsSomewhere'
  <2>1. \A e \in Contexts : Len(Buf(e)') \in Nat
    BY <1>3, <1>4, <1>12, <1>13, <1>15
  <2> QED
    BY <1>12, <1>16, <2>1, EitherOrderNext
<1>18. BuffersAreRuns'
  <2>1. IsARun(F)
    <3> SUFFICES ASSUME NEW k \in 1..Len(F) PROVE F[k] = F[1] + (k - 1)
      BY DEF IsARun
    <3>1. 1 \in 1..n /\ k \in 1..n
      BY <1>3, <1>4
    <3> QED
      BY <1>2, <1>3, <1>4, <3>1
  <2>2. \A e \in Contexts : IsARun(Buf(e))'
    BY <1>12, <1>13, <2>1 DEF SendInv, BuffersAreRuns, IsARun
  <2>3. \A e \in Contexts : ctx'[e].pc # "write" => Buf(e)' = <<>>
    BY <1>9, <1>10, <1>12, <1>13 DEF SendInv, BuffersAreRuns
  <2> QED
    BY <2>2, <2>3 DEF BuffersAreRuns
<1>19. WireIsBehind'
  <2> SUFFICES ASSUME ~ overlap
               PROVE  /\ \E e \in Contexts : ctx'[e].pc = "out"
                      /\ Increasing(wire)
                      /\ \A e \in Contexts : \A x \in OnWire : \A y \in InFlight(e)' : x < y
    BY <1>1, <1>13 DEF WireIsBehind
  <2>1. WireIsBehind /\ ctx[d].pc = "out"
    <3>1. \E e \in Contexts : ctx[e].pc = "out"
      BY DEF SendInv, WireIsBehind
    <3> QED
      BY <1>1, <1>12, <3>1 DEF SendInv
  <2>2. \E e \in Contexts : ctx'[e].pc = "out"
    BY <1>10, <1>12, <2>1
  <2>3. \A x \in OnWire : \A y \in InFlight(c)' : x < y
    <3> TAKE x \in OnWire
    <3> TAKE y \in InFlight(c)'
    <3>1. x \in 1..Given /\ y \in (Given + 1)..(Given + n)
      BY <1>14, <1>15 DEF SomewhereFor
    <3> QED
      BY <1>2, <1>3, <3>1
  <2> QED
    BY <1>12, <1>13, <2>1, <2>2, <2>3 DEF WireIsBehind
<1> QED
  BY <1>8, <1>11, <1>17, <1>18, <1>19 DEF SendInv

\* What is left of a run after its first m elements.
LEMMA RunSplits ==
  ASSUME NEW b \in Seq(Nat), IsARun(b), NEW m \in 0..Len(b)
  PROVE  /\ IsFiniteSet({b[k] : k \in (m + 1)..Len(b)})
         /\ Cardinality({b[k] : k \in (m + 1)..Len(b)}) = Len(b) - m
         /\ \A x \in {b[k] : k \in 1..m} : \A y \in {b[k] : k \in (m + 1)..Len(b)} : x < y
<1> DEFINE n == Len(b)
<1> DEFINE rest == {b[k] : k \in (m + 1)..n}
<1>1. n \in Nat /\ m \in Nat /\ m <= n
  OBVIOUS
<1>2. \A k \in 1..n : b[k] = b[1] + (k - 1)
  BY DEF IsARun
<1>3. CASE n = 0
  <2>1. rest = {} /\ m = 0
    BY <1>1, <1>3
  <2> QED
    BY <1>1, <1>3, <2>1, FS_EmptySet
<1>4. CASE n # 0
  <2>1. b[1] \in Nat
    BY <1>1, <1>4
  <2> DEFINE lo == b[1] + m
  <2> DEFINE hi == b[1] + (n - 1)
  <2>2. lo \in Int /\ hi \in Int
    BY <1>1, <2>1
  <2>3. rest = lo..hi
    <3>1. ASSUME NEW x \in lo..hi PROVE x \in rest
      <4>1. (x - b[1]) + 1 \in (m + 1)..n /\ (x - b[1]) + 1 \in 1..n
            /\ b[1] + (((x - b[1]) + 1) - 1) = x
        <5> HIDE DEF n
        <5> QED
          BY <1>1, <2>1
      <4>2. b[(x - b[1]) + 1] = x
        BY <1>2, <4>1
      <4> QED
        BY <4>1, <4>2
    <3>2. ASSUME NEW k \in (m + 1)..n PROVE b[k] \in lo..hi
      <4>1. k \in 1..n /\ k \in Int
        BY <1>1
      <4>2. b[k] = b[1] + (k - 1)
        BY <1>2, <4>1
      <4>3. b[1] + (k - 1) \in lo..hi
        <5> HIDE DEF n
        <5> QED
          BY <1>1, <2>1, <4>1
      <4> QED
        BY <4>2, <4>3
    <3> QED
      BY <3>1, <3>2
  <2>4. IsFiniteSet(lo..hi) /\ Cardinality(lo..hi) = IF lo > hi THEN 0 ELSE (hi - lo) + 1
    <3> HIDE DEF lo, hi
    <3>1. IsFiniteSet(lo..hi) /\ Cardinality(lo..hi) = IF lo > hi THEN 0 ELSE hi - lo + 1
      BY <2>2, FS_Interval
    <3> QED
      BY <2>2, <3>1
  <2>5. (IF lo > hi THEN 0 ELSE (hi - lo) + 1) = n - m
    <3> HIDE DEF n, rest
    <3>1. CASE m = n
      <4>1. lo > hi
        BY <1>1, <2>1, <3>1
      <4> QED
        BY <1>1, <3>1, <4>1
    <3>2. CASE m < n
      <4>1. ~ (lo > hi) /\ (hi - lo) + 1 = n - m
        BY <1>1, <2>1, <3>2
      <4> QED
        BY <4>1
    <3> QED
      BY <1>1, <3>1, <3>2
  <2>6. \A j \in 1..m : \A k \in (m + 1)..n : b[j] < b[k]
    <3> TAKE j \in 1..m
    <3> TAKE k \in (m + 1)..n
    <3>1. j \in 1..n /\ k \in 1..n /\ j \in Int /\ k \in Int /\ j < k
      <4> HIDE DEF n
      <4> QED
        BY <1>1
    <3>2. b[j] = b[1] + (j - 1) /\ b[k] = b[1] + (k - 1)
      BY <1>2, <3>1
    <3> QED
      BY <2>1, <3>1, <3>2
  <2> QED
    BY <2>3, <2>4, <2>5, <2>6
<1> QED
  BY <1>3, <1>4

LEMMA WriteKeepsSendInv ==
  ASSUME SendInv, NEW c \in Contexts, Write(c)
  PROVE  SendInv'
<1> DEFINE b == Buf(c)
<1> DEFINE sent == Least(Room, Len(b))
<1> DEFINE rest == {b[k] : k \in (sent + 1)..Len(b)}
<1> DEFINE first == SubSeq(b, 1, sent)
<1>1. /\ ctx[c].pc = "write" /\ wire' = wire \o first /\ lost' = lost \cup rest
      /\ inPort' = inPort + sent /\ ctx' = [ctx EXCEPT ![c] = Out]
      /\ UNCHANGED <<tx, overlap, nput>>
  BY DEF Write, Buf
<1>2. /\ b \in Seq(Nat) /\ Len(b) \in Nat /\ IsARun(b)
      /\ InFlight(c) = {b[k] : k \in 1..Len(b)}
      /\ ctx \in [Contexts -> ContextType]
  BY ContextFacts DEF SendInv, BuffersAreRuns, SendType
<1> HIDE DEF b
<1>3. /\ sent \in 0..Len(b) /\ sent \in Nat /\ inPort + sent \in 0..PORT
  <2>1. inPort \in Nat /\ inPort <= PORT /\ PORT \in Nat
    BY SizesAssumption DEF SendInv, SendType
  <2>2. Room \in Nat /\ Room = PORT - inPort
    BY <2>1 DEF Room
  <2> QED
    BY <1>2, <2>1, <2>2 DEF Least
<1> HIDE DEF sent
<1>4. /\ IsFiniteSet(rest) /\ Cardinality(rest) = Len(b) - sent
      /\ \A x \in {b[k] : k \in 1..sent} : \A y \in rest : x < y
  BY <1>2, <1>3, RunSplits
<1>5. /\ first \in Seq(Nat) /\ Len(first) = sent
      /\ \A k \in 1..sent : first[k] = b[k]
  <2>1. \A k \in 1..sent : b[k] \in Nat
    <3> TAKE k \in 1..sent
    <3>1. k \in 1..Len(b)
      BY <1>2, <1>3
    <3> QED
      BY <1>2, <3>1
  <2>2. /\ first \in Seq(Nat) /\ Len(first) = (IF 1 <= sent THEN sent - 1 + 1 ELSE 0)
        /\ \A i \in 1..sent - 1 + 1 : first[i] = b[1 + i - 1]
    <3>1. 1 \in Int /\ sent \in Int
      BY <1>3
    <3> QED
      BY <2>1, <3>1, SubSeqProperties
  <2> HIDE DEF first
  <2>3. Len(first) = sent /\ sent - 1 + 1 = sent
    BY <1>3, <2>2
  <2>4. \A i \in 1..sent : 1 + i - 1 = i
    BY <1>3
  <2> QED
    BY <2>2, <2>3, <2>4
<1> HIDE DEF first, rest
<1>6. /\ wire \in Seq(Nat) /\ Len(wire) \in Nat /\ IsFiniteSet(lost) /\ lost \in SUBSET Nat
      /\ Cardinality(lost) \in Nat /\ OnWire = {wire[k] : k \in 1..Len(wire)}
  BY WireFacts DEF SendInv, SendType
<1>7. /\ wire' \in Seq(Nat) /\ Len(wire') = Len(wire) + sent
      /\ \A k \in 1..(Len(wire) + sent) :
           wire'[k] = IF k <= Len(wire) THEN wire[k] ELSE first[k - Len(wire)]
  <2>1. /\ wire \o first \in Seq(Nat) /\ Len(wire \o first) = Len(wire) + Len(first)
        /\ \A k \in 1..Len(wire) + Len(first) :
             (wire \o first)[k] = IF k <= Len(wire) THEN wire[k] ELSE first[k - Len(wire)]
    BY <1>5, <1>6, ConcatProperties
  <2> QED
    BY <1>1, <1>5, <2>1
<1> DEFINE head == {b[k] : k \in 1..sent}
<1>8. OnWire' = OnWire \cup head
  <2>1. OnWire' = {wire'[k] : k \in 1..(Len(wire) + sent)}
    BY <1>7 DEF OnWire, ToSet
  <2>2. ASSUME NEW k \in 1..(Len(wire) + sent) PROVE wire'[k] \in OnWire \cup head
    <3>1. CASE k <= Len(wire)
      BY <1>6, <1>7, <3>1
    <3>2. CASE ~ (k <= Len(wire))
      <4>1. k - Len(wire) \in 1..sent
        BY <1>3, <1>6, <3>2
      <4>2. wire'[k] = b[k - Len(wire)]
        BY <1>5, <1>7, <3>2, <4>1
      <4> QED
        BY <4>1, <4>2
    <3> QED
      BY <3>1, <3>2
  <2>3. ASSUME NEW k \in 1..Len(wire) PROVE wire[k] \in OnWire'
    <3>1. k \in 1..(Len(wire) + sent) /\ k <= Len(wire)
      BY <1>3, <1>6
    <3>2. wire'[k] = wire[k]
      BY <1>7, <3>1
    <3> QED
      BY <2>1, <3>1, <3>2
  <2>4. ASSUME NEW k \in 1..sent PROVE b[k] \in OnWire'
    <3>1. /\ Len(wire) + k \in 1..(Len(wire) + sent) /\ ~ (Len(wire) + k <= Len(wire))
          /\ (Len(wire) + k) - Len(wire) = k
      BY <1>3, <1>6
    <3>2. wire'[Len(wire) + k] = b[k]
      BY <1>5, <1>7, <3>1
    <3> QED
      BY <2>1, <3>1, <3>2
  <2> QED
    BY <1>6, <2>1, <2>2, <2>3, <2>4
<1>9. InFlight(c) = head \cup rest
  <2>1. \A k \in 1..Len(b) : k \in 1..sent \/ k \in (sent + 1)..Len(b)
    BY <1>2, <1>3
  <2>2. \A k \in 1..sent : k \in 1..Len(b)
    BY <1>2, <1>3
  <2>3. \A k \in (sent + 1)..Len(b) : k \in 1..Len(b)
    BY <1>2, <1>3
  <2> QED
    BY <1>2, <2>1, <2>2, <2>3 DEF rest
<1>10. PICK d \in Contexts : d # c /\ \A e \in Contexts : e = c \/ e = d
  BY OtherContext
<1>11. SomewhereFor(c, d) /\ \A e \in Contexts : Len(Buf(e)) \in Nat
  BY <1>10, ContextFacts, EitherOrder DEF SendInv
<1>12. /\ Out \in ContextType /\ Out.buf = <<>> /\ Out.pc = "out"
  <2>1. "out" \in Places /\ 0 \in 0..PORT /\ <<>> \in Seq(Nat)
    BY SizesAssumption DEF Places
  <2> QED
    BY <2>1, ContextRecords DEF Out
<1>13. /\ ctx' \in [Contexts -> ContextType] /\ ctx'[c] = Out /\ ctx'[d] = ctx[d]
  BY <1>1, <1>2, <1>10, <1>12
<1>14. /\ Buf(c)' = <<>> /\ Buf(d)' = Buf(d) /\ Len(<<>>) = 0
       /\ InFlight(c)' = {} /\ InFlight(d)' = InFlight(d)
  BY <1>12, <1>13 DEF Buf, InFlight, ToSet
<1>15. Cardinality(lost') = Cardinality(lost) + (Len(b) - sent) /\ IsFiniteSet(lost')
  <2>1. lost \cap rest = {}
    BY <1>9, <1>11 DEF SomewhereFor
  <2>2. /\ IsFiniteSet(lost \cup rest)
        /\ Cardinality(lost \cup rest) =
             Cardinality(lost) + Cardinality(rest) - Cardinality(lost \cap rest)
    BY <1>4, <1>6, FS_Union
  <2>3. Cardinality(lost \cap rest) = 0
    BY <2>1, FS_EmptySet
  <2>4. Len(b) - sent \in Nat
    BY <1>2, <1>3
  <2> QED
    BY <1>1, <1>4, <1>6, <2>2, <2>3, <2>4
<1>16. /\ buf_used(tx)' = buf_used(tx) /\ Given' = Given /\ \A k : Cell(tx, k)' = Cell(tx, k)
  BY <1>1 DEF buf_used, Given, Cell
<1>17. RingIsTheEnd'
  BY <1>1, <1>16 DEF SendInv, RingIsTheEnd
<1>18. SendType'
  <2>1. rest \in SUBSET Nat
    <3>1. rest \subseteq InFlight(c)
      BY <1>9
    <3> QED
      BY <1>2, <3>1
  <2> QED
    BY <1>1, <1>3, <1>6, <1>7, <1>13, <1>15, <1>16, <2>1 DEF SendInv, SendType, Holds
<1>19. SomewhereFor(c, d)'
  <2>1. 1..Given' = InFlight(c)' \cup InFlight(d)' \cup OnWire' \cup lost'
    BY <1>1, <1>8, <1>9, <1>11, <1>14, <1>16 DEF SomewhereFor
  <2>2. InFlight(d) \cap lost' = {}
    BY <1>1, <1>9, <1>11 DEF SomewhereFor
  <2>3. Given = (0 + Len(Buf(d))) + ((Len(wire) + sent) + (Cardinality(lost) + (Len(b) - sent)))
    <3>1. Given = (Len(b) + Len(Buf(d))) + (Len(wire) + Cardinality(lost))
      BY <1>11 DEF SomewhereFor, b
    <3>2. Len(Buf(d)) \in Nat
      BY <1>10, <1>11
    <3> QED
      BY <1>2, <1>3, <1>6, <3>1, <3>2
  <2> QED
    BY <1>7, <1>14, <1>15, <1>16, <2>1, <2>2, <2>3 DEF SomewhereFor
<1>20. GivenIsSomewhere'
  <2>1. \A e \in Contexts : Len(Buf(e)') \in Nat
    BY <1>10, <1>11, <1>14
  <2> QED
    BY <1>10, <1>19, <2>1, EitherOrderNext
<1>21. BuffersAreRuns'
  <2>1. IsARun(<<>>)
    BY DEF IsARun
  <2>2. \A e \in Contexts : IsARun(Buf(e))'
    BY <1>10, <1>14, <2>1 DEF SendInv, BuffersAreRuns, IsARun
  <2>3. \A e \in Contexts : ctx'[e].pc # "write" => Buf(e)' = <<>>
    BY <1>10, <1>13, <1>14 DEF SendInv, BuffersAreRuns
  <2> QED
    BY <2>2, <2>3 DEF BuffersAreRuns
<1>22. WireIsBehind'
  <2> SUFFICES ASSUME ~ overlap
               PROVE  /\ \E e \in Contexts : ctx'[e].pc = "out"
                      /\ Increasing(wire')
                      /\ \A e \in Contexts : \A x \in OnWire' : \A y \in InFlight(e)' : x < y
    BY <1>1 DEF WireIsBehind
  <2>0. WireIsBehind
    BY DEF SendInv
  <2>1. Increasing(wire) /\ \A x \in OnWire : \A y \in InFlight(c) : x < y
    BY <2>0 DEF WireIsBehind
  <2>2. ctx[d].pc = "out"
    <3>1. \E e \in Contexts : ctx[e].pc = "out"
      BY <2>0 DEF WireIsBehind
    <3> QED
      BY <1>1, <1>10, <3>1
  <2>3. InFlight(d)' = {}
    <3>1. Buf(d) = <<>>
      BY <2>2 DEF SendInv, BuffersAreRuns
    <3> QED
      BY <1>14, <3>1 DEF InFlight, Buf, ToSet
  <2>4. Increasing(wire')
    <3> SUFFICES ASSUME NEW j \in 1..(Len(wire) + sent), NEW k \in 1..(Len(wire) + sent), j < k
                 PROVE  wire'[j] < wire'[k]
      BY <1>7 DEF Increasing
    <3>1. CASE k <= Len(wire)
      <4>1. j \in 1..Len(wire) /\ k \in 1..Len(wire) /\ j <= Len(wire)
        BY <1>3, <1>6, <3>1
      <4> QED
        BY <1>7, <2>1, <3>1, <4>1 DEF Increasing
    <3>2. CASE ~ (k <= Len(wire))
      <4>1. k - Len(wire) \in 1..sent /\ k - Len(wire) \in 1..Len(b)
        BY <1>2, <1>3, <1>6, <3>2
      <4>2. wire'[k] = b[k - Len(wire)]
        BY <1>5, <1>7, <3>2, <4>1
      <4>3. CASE j <= Len(wire)
        <5>1. j \in 1..Len(wire) /\ wire'[j] = wire[j]
          BY <1>6, <1>7, <4>3
        <5>2. wire[j] \in OnWire /\ b[k - Len(wire)] \in InFlight(c)
          BY <1>2, <1>6, <4>1, <5>1
        <5> QED
          BY <2>1, <4>2, <5>1, <5>2
      <4>4. CASE ~ (j <= Len(wire))
        <5>1. j - Len(wire) \in 1..sent /\ j - Len(wire) \in 1..Len(b)
              /\ j - Len(wire) < k - Len(wire)
          BY <1>2, <1>3, <1>6, <4>4
        <5>2. wire'[j] = b[j - Len(wire)]
          BY <1>5, <1>7, <4>4, <5>1
        <5>3. /\ b[j - Len(wire)] = b[1] + ((j - Len(wire)) - 1)
              /\ b[k - Len(wire)] = b[1] + ((k - Len(wire)) - 1)
          BY <1>2, <4>1, <5>1 DEF IsARun
        <5>4. b[1] \in Nat /\ j - Len(wire) \in Int /\ k - Len(wire) \in Int
          <6>1. 1 \in 1..Len(b)
            BY <1>2, <4>1
          <6> QED
            BY <1>2, <1>6, <6>1
        <5> QED
          BY <4>2, <5>1, <5>2, <5>3, <5>4
      <4> QED
        BY <4>3, <4>4
    <3> QED
      BY <3>1, <3>2
  <2> QED
    BY <1>10, <1>12, <1>13, <1>14, <2>3, <2>4
<1> QED
  BY <1>17, <1>18, <1>20, <1>21, <1>22 DEF SendInv

LEMMA PortSendsKeepsSendInv ==
  ASSUME SendInv, PortSends
  PROVE  SendInv'
<1>1. /\ inPort > 0 /\ inPort' = inPort - 1
      /\ UNCHANGED <<tx, ctx, overlap, nput, wire, lost>>
  BY DEF PortSends
<1>2. inPort' \in 0..PORT
  BY <1>1, SizesAssumption DEF SendInv, SendType
<1>3. /\ buf_used(tx)' = buf_used(tx) /\ Given' = Given /\ \A k : Cell(tx, k)' = Cell(tx, k)
  BY <1>1 DEF buf_used, Given, Cell
<1>4. SendType' /\ RingIsTheEnd'
  BY <1>1, <1>2, <1>3 DEF SendInv, SendType, RingIsTheEnd, Holds
<1>5. \A c \in Contexts : Buf(c)' = Buf(c) /\ (ctx'[c].pc # "write" => Buf(c)' = <<>>)
  BY <1>1 DEF Buf, SendInv, BuffersAreRuns
<1>6. ~ overlap => \E c \in Contexts : ctx'[c].pc = "out"
  BY <1>1 DEF SendInv, WireIsBehind
<1> QED
  BY <1>1, <1>3, <1>4, <1>5, <1>6, BytesStay

-----------------------------------------------------------------------------
(* The theorems *)

IInv == ReceiveInv /\ SendInv

LEMMA EmptyRingHolds ==
  ASSUME NEW B
  PROVE  Holds(EmptyRing, B) /\ buf_used(EmptyRing) = 0
<1>1. 0 \in Indices
  BY SizesAssumption DEF Indices
<1>2. EmptyRing \in RingType(B)
  BY <1>1 DEF EmptyRing, RingType
<1>3. buf_used(EmptyRing) = 0
  BY DEF EmptyRing, buf_used
<1> QED
  BY <1>2, <1>3 DEF Holds

LEMMA InitIInv ==
  ASSUME Init
  PROVE  IInv
<1>1. ReceiveInv
  <2>1. rx = EmptyRing /\ saved = <<>> /\ consumed = <<>> /\ handled = <<>>
    BY DEF Init
  <2>2. Len(<<>>) = 0
    OBVIOUS
  <2> QED
    BY <2>1, <2>2, EmptyRingHolds DEF ReceiveInv, SavedIsTheEnd, PacketsAreTheWholeOnes, ToSet
<1>2. /\ tx = EmptyRing /\ ctx = [c \in Contexts |-> Out] /\ inPort = 0
      /\ overlap \in BOOLEAN /\ nput = 0 /\ wire = <<>> /\ lost = {}
  BY DEF Init
<1>3. /\ Out \in ContextType /\ Out.buf = <<>> /\ Out.pc = "out"
  <2>1. "out" \in Places /\ 0 \in 0..PORT /\ <<>> \in Seq(Nat)
    BY SizesAssumption DEF Places
  <2> QED
    BY <2>1, ContextRecords DEF Out
<1>4. SendType
  <2>1. 0 \in 0..PORT
    BY SizesAssumption
  <2> QED
    BY <1>2, <1>3, <2>1, EmptyRingHolds, FS_EmptySet DEF SendType
<1>5. buf_used(tx) = 0 /\ Given = 0
  BY <1>2, EmptyRingHolds DEF Given
<1>6. RingIsTheEnd
  BY <1>2, <1>5 DEF RingIsTheEnd
<1>7. \A c \in Contexts : ctx[c] = Out /\ Buf(c) = <<>> /\ InFlight(c) = {}
  BY <1>2, <1>3 DEF Buf, InFlight, ToSet
<1>8. BuffersAreRuns
  BY <1>7 DEF BuffersAreRuns, IsARun
<1>9. OnWire = {} /\ Len(wire) = 0 /\ Cardinality(lost) = 0
  BY <1>2, FS_EmptySet DEF OnWire, ToSet
<1>10. "ioctl" \in Contexts /\ "irq" \in Contexts
  BY DEF Contexts
<1>11. GivenIsSomewhere
  <2>1. Len(Buf("ioctl")) = 0 /\ Len(Buf("irq")) = 0
    BY <1>7, <1>10
  <2>2. 1..Given = {} /\ (0 + 0) + (0 + 0) = Given
    BY <1>5
  <2>3. InFlight("ioctl") = {} /\ InFlight("irq") = {} /\ lost = {} /\ OnWire = {}
    BY <1>2, <1>7, <1>9, <1>10
  <2>4. \A c \in Contexts : InFlight(c) \cap lost = {}
    BY <2>3
  <2> QED
    BY <1>9, <2>1, <2>2, <2>3, <2>4 DEF GivenIsSomewhere
<1>12. WireIsBehind
  BY <1>2, <1>3, <1>7, <1>9, <1>10 DEF WireIsBehind, Increasing
<1> QED
  BY <1>1, <1>4, <1>6, <1>8, <1>11, <1>12 DEF IInv, SendInv

LEMMA NextIInv ==
  ASSUME IInv, [Next]_vars
  PROVE  IInv'
<1>1. ASSUME UNCHANGED txVars, UNCHANGED overlap PROVE SendInv'
  <2>1. UNCHANGED <<tx, ctx, inPort, overlap, nput, wire, lost>>
    BY <1>1 DEF txVars
  <2>2. /\ buf_used(tx)' = buf_used(tx) /\ Given' = Given /\ \A k : Cell(tx, k)' = Cell(tx, k)
    BY <2>1 DEF buf_used, Given, Cell
  <2>3. SendType' /\ RingIsTheEnd'
    BY <2>1, <2>2 DEF IInv, SendInv, SendType, RingIsTheEnd, Holds
  <2>4. \A c \in Contexts : Buf(c)' = Buf(c) /\ (ctx'[c].pc # "write" => Buf(c)' = <<>>)
    BY <2>1 DEF Buf, IInv, SendInv, BuffersAreRuns
  <2>5. ~ overlap => \E c \in Contexts : ctx'[c].pc = "out"
    BY <2>1 DEF IInv, SendInv, WireIsBehind
  <2> QED
    BY <2>1, <2>2, <2>3, <2>4, <2>5, BytesStay DEF IInv
<1>2. ASSUME UNCHANGED rxVars PROVE ReceiveInv'
  <2>1. UNCHANGED <<rx, saved, consumed, handled>>
    BY <1>2 DEF rxVars
  <2>2. buf_used(rx)' = buf_used(rx) /\ \A k : Cell(rx, k)' = Cell(rx, k)
    BY <2>1 DEF buf_used, Cell
  <2> QED
    BY <2>1, <2>2 DEF IInv, ReceiveInv, SavedIsTheEnd, PacketsAreTheWholeOnes, Holds
<1>3. CASE Receive
  <2>1. UNCHANGED txVars /\ UNCHANGED overlap
    BY <1>3 DEF Receive, rcv_buf
  <2> QED
    BY <1>1, <1>3, <2>1, ReceiveKeepsReceiveInv DEF IInv
<1>4. ASSUME NEW c \in Contexts, NEW n \in Lengths, tuxctl_ldisc_put(c, n) PROVE IInv'
  <2>1. UNCHANGED rxVars
    BY <1>4 DEF tuxctl_ldisc_put
  <2> QED
    BY <1>2, <1>4, <2>1, PutKeepsSendInv DEF IInv
<1>5. CASE Wakeup
  <2>1. UNCHANGED rxVars
    BY <1>5 DEF Wakeup
  <2> QED
    BY <1>2, <1>5, <2>1, EnterKeepsSendInv DEF IInv
<1>6. ASSUME NEW c \in Contexts, WriteStep(c) PROVE IInv'
  <2>1. UNCHANGED rxVars
    BY <1>6 DEF WriteStep, ReadRoom, Take, Write
  <2> QED
    BY <1>2, <1>6, <2>1, EnterKeepsSendInv, TakeKeepsSendInv, WriteKeepsSendInv
       DEF WriteStep, IInv
<1>7. CASE PortSends
  <2>1. UNCHANGED rxVars
    BY <1>7 DEF PortSends
  <2> QED
    BY <1>2, <1>7, <2>1, PortSendsKeepsSendInv DEF IInv
<1>8. CASE UNCHANGED vars
  <2>1. UNCHANGED txVars /\ UNCHANGED overlap /\ UNCHANGED rxVars
    BY <1>8 DEF vars, txVars, rxVars
  <2> QED
    BY <1>1, <1>2, <2>1 DEF IInv
<1> QED
  BY <1>3, <1>4, <1>5, <1>6, <1>7, <1>8 DEF Next

\* The invariant holds of every behaviour of the driver.
LEMMA InvariantHolds == Spec => []IInv
<1>1. Init => IInv
  BY InitIInv
<1>2. IInv /\ [Next]_vars => IInv'
  BY NextIInv
<1> QED
  BY <1>1, <1>2, PTL DEF Spec

\* The rings' indices stay in their arrays, no more than two bytes are saved
\* between calls of data_callback, and the port never holds more than its room.
THEOREM TypeCorrect == Spec => []TypeOK
<1>1. IInv => TypeOK
  BY DEF IInv, ReceiveInv, SendInv, SendType, SavedIsTheEnd, TypeOK, Holds, ContextType, Places
<1> QED
  BY <1>1, InvariantHolds, PTL

\* tuxctl_ldisc_data_callback hands on exactly the whole packets among the bytes
\* it took from the ring, each once and in order, however rcv_buf's bursts were
\* split and whatever the full ring made it drop.
THEOREM WholePacketsOnly == Spec => []PacketsAreTheWholeOnes
<1>1. IInv => PacketsAreTheWholeOnes
  BY DEF IInv, ReceiveInv
<1> QED
  BY <1>1, InvariantHolds, PTL

\* Whatever interrupts write_wakeup between its unlocked reading of the port's
\* room and its unlocked write, no byte put is doubled or forgotten.
THEOREM BytesAreOnce == Spec => []EachByteIsOnce
<1>1. IInv => EachByteIsOnce
  <2> SUFFICES ASSUME IInv PROVE EachByteIsOnce
    OBVIOUS
  <2> DEFINE u == buf_used(tx)
  <2>1. u \in Nat /\ Given \in Nat /\ nput = Given + u
    BY RingFacts2 DEF IInv, SendInv
  <2>2. /\ Len(First(tx, u)) = u /\ DOMAIN First(tx, u) = 1..u
        /\ \A k \in 1..u : First(tx, u)[k] = Given + k
    <3>1. u \in 0..u /\ Holds(tx, Nat)
      BY <2>1 DEF IInv, SendInv, SendType
    <3>2. /\ First(tx, u) \in Seq(Nat) /\ Len(First(tx, u)) = u
          /\ \A k \in 1..u : First(tx, u)[k] = Cell(tx, k)
      BY <3>1, FirstIsCells
    <3>3. \A k \in 1..u : Cell(tx, k) = Given + k
      BY DEF IInv, SendInv, RingIsTheEnd
    <3> QED
      BY <3>2, <3>3
  <2> HIDE DEF u
  <2>3. InRing = (Given + 1)..nput
    <3>1. InRing = {First(tx, u)[k] : k \in 1..u}
      BY <2>2 DEF InRing, ToSet, u
    <3>2. ASSUME NEW x \in (Given + 1)..nput PROVE x \in InRing
      <4>1. x - Given \in 1..u /\ Given + (x - Given) = x
        BY <2>1
      <4> QED
        BY <2>2, <3>1, <4>1
    <3>3. ASSUME NEW k \in 1..u PROVE First(tx, u)[k] \in (Given + 1)..nput
      BY <2>1, <2>2
    <3> QED
      BY <3>1, <3>2, <3>3
  <2>4. 1..nput = 1..Given \cup (Given + 1)..nput
    BY <2>1
  <2>5. GivenIsSomewhere
    BY DEF IInv, SendInv
  <2>6. 1..nput = InRing \cup InFlight("ioctl") \cup InFlight("irq") \cup OnWire \cup lost
    BY <2>3, <2>4, <2>5 DEF GivenIsSomewhere
  <2>7. nput = u + Len(Buf("ioctl")) + Len(Buf("irq")) + Len(wire) + Cardinality(lost)
    <3>1. /\ Len(Buf("ioctl")) \in Nat /\ Len(Buf("irq")) \in Nat
          /\ Len(wire) \in Nat /\ Cardinality(lost) \in Nat
      BY ContextFacts, WireFacts DEF IInv, SendInv, Contexts
    <3> QED
      BY <2>1, <2>5, <3>1 DEF GivenIsSomewhere
  <2> QED
    BY <2>6, <2>7 DEF EachByteIsOnce, Buf, u
<1> QED
  BY <1>1, InvariantHolds, PTL

\* As long as no interrupt comes between an ioctl's steps in write_wakeup, bytes
\* reach the controller in the order they were put.
THEOREM WireIsInOrder == Spec => []WireKeepsOrder
<1>1. IInv => WireKeepsOrder
  BY DEF IInv, SendInv, WireIsBehind, WireKeepsOrder, Increasing
<1> QED
  BY <1>1, InvariantHolds, PTL

-----------------------------------------------------------------------------
(* The controller takes a command that sets all LEDs. *)

\* The LEDs when m bytes behind the mask have been taken.
Shown(d, s, m) == [k \in LEDs |-> IF k < m THEN s[k + 3] ELSE d.leds[k]]

\* A controller that has taken i bytes of a command that sets all LEDs.
Taken(d, s, i) ==
  IF i = 0 THEN d
  ELSE IF i = 1 THEN [d EXCEPT !.mask = TRUE]
  ELSE [d EXCEPT !.leds = Shown(d, s, i - 2), !.want = (i - 2)..(LED_COUNT - 1)]

LEMMA WaitingAgain ==
  ASSUME NEW d, IsWaiting(d), NEW X \in [LEDs -> Nat]
  PROVE  /\ [[d EXCEPT !.mask = TRUE] EXCEPT !.mask = FALSE, !.want = LEDs]
            = [d EXCEPT !.leds = d.leds, !.want = LEDs]
         /\ [d EXCEPT !.leds = X, !.want = {}] = [d EXCEPT !.leds = X]
BY DEF IsWaiting

LEMMA LeastFirst ==
  ASSUME NEW a \in Int, NEW b \in Int, a <= b
  PROVE  Min(a..b) = a
<1>1. a \in a..b /\ \A y \in a..b : a <= y
  OBVIOUS
<1>2. \A x \in a..b : (\A y \in a..b : x <= y) => x = a
  BY <1>1
<1> QED
  BY <1>1, <1>2 DEF Min

\* The mask and each byte take the controller one step further.
LEMMA TakesByte ==
  ASSUME NEW d, IsWaiting(d),
         NEW s, s[1] = MTCP_LED_SET, {k \in LEDs : Bit(s[2], k) = 1} = LEDs,
         \A k \in LEDs : s[k + 3] \in Nat,
         NEW i \in 1..(LED_COUNT + 2)
  PROVE  Consume(Taken(d, s, i - 1), s[i]).dev = Taken(d, s, i)
<1> DEFINE n == LED_COUNT
<1>1. n \in Nat /\ n >= 1 /\ LEDs = 0..(n - 1)
  BY LedsAssumption DEF LEDs
<1>2. CASE i = 1
  BY <1>2 DEF Consume, Taken, IsWaiting, MTCP_LED_SET, MTCP_BIOC_ON, MTCP_LED_USR, MTCP_CMD
<1>3. CASE i = 2
  <2>1. Taken(d, s, 1) = [d EXCEPT !.mask = TRUE]
    BY DEF Taken
  <2>2. Shown(d, s, 0) = d.leds
    <3>1. \A k \in LEDs : ~(k < 0)
      BY <1>1
    <3> QED
      BY <3>1 DEF Shown, IsWaiting
  <2>3. Taken(d, s, 2) = [d EXCEPT !.leds = d.leds, !.want = LEDs]
    <3>1. 2 - 2 = 0 /\ 2 # 0 /\ 2 # 1
      OBVIOUS
    <3> QED
      BY <1>1, <2>2, <3>1 DEF Taken
  <2>4. Consume(Taken(d, s, 1), s[2]).dev
        = [Taken(d, s, 1) EXCEPT !.mask = FALSE, !.want = LEDs]
    BY <2>1 DEF Consume, IsWaiting
  <2>5. [Taken(d, s, 1) EXCEPT !.mask = FALSE, !.want = LEDs] = Taken(d, s, 2)
    BY <2>1, <2>3, WaitingAgain DEF IsWaiting
  <2> QED
    BY <1>3, <2>4, <2>5
<1>4. CASE i > 2
  <2> DEFINE k == i - 3
             c == Taken(d, s, i - 1)
  <2>1. k \in LEDs /\ k \in Int /\ k <= n - 1 /\ i = k + 3
    BY <1>1, <1>4
  <2>2. i - 1 # 0 /\ i - 1 # 1 /\ i # 0 /\ i # 1 /\ (i - 1) - 2 = k /\ i - 2 = k + 1
    BY <2>1, <1>4
  <2>3. c = [d EXCEPT !.leds = Shown(d, s, k), !.want = k..(n - 1)]
    <3> HIDE DEF k
    <3> QED
      BY <2>2 DEF Taken
  <2>4. c.mask = FALSE /\ c.want = k..(n - 1) /\ c.leds = Shown(d, s, k)
    <3> HIDE DEF c, k, n
    <3> QED
      BY <2>3 DEF IsWaiting
  <2>5. c.want # {} /\ Min(c.want) = k
    <3>1. k \in k..(n - 1)
      BY <1>1, <2>1
    <3>2. Min(k..(n - 1)) = k
      BY <1>1, <2>1, LeastFirst
    <3> HIDE DEF c, k, n
    <3> QED
      BY <2>4, <3>1, <3>2
  <2>6. Consume(c, s[i]).dev = [c EXCEPT !.leds[k] = s[i], !.want = @ \ {k}]
    <3> HIDE DEF c, k
    <3> QED
      BY <2>4, <2>5 DEF Consume
  <2>7. [Shown(d, s, k) EXCEPT ![k] = s[i]] = Shown(d, s, k + 1)
    <3>1. \A x \in LEDs : x < k + 1 <=> x < k \/ x = k
      BY <1>1, <2>1
    <3>2. ~(k < k)
      BY <2>1
    <3> HIDE DEF k
    <3> QED
      BY <2>1, <3>1, <3>2 DEF Shown
  <2>8. (k..(n - 1)) \ {k} = (k + 1)..(n - 1)
    BY <1>1, <2>1
  <2>9. Taken(d, s, i) = [d EXCEPT !.leds = Shown(d, s, k + 1), !.want = (k + 1)..(n - 1)]
    <3> HIDE DEF k
    <3> QED
      BY <2>2 DEF Taken
  <2>10. [c EXCEPT !.leds[k] = s[i], !.want = @ \ {k}]
        = [d EXCEPT !.leds = Shown(d, s, k + 1), !.want = (k + 1)..(n - 1)]
    <3> HIDE DEF c, k, n
    <3> QED
      BY <2>3, <2>7, <2>8 DEF IsWaiting
  <2> QED
    BY <2>6, <2>9, <2>10
<1> QED
  BY <1>1, <1>2, <1>3, <1>4

LEMMA ConsumedIsTaken ==
  ASSUME NEW d, IsWaiting(d),
         NEW s, s \in Seq(Nat), Len(s) = LED_COUNT + 2,
         s[1] = MTCP_LED_SET, {k \in LEDs : Bit(s[2], k) = 1} = LEDs
  PROVE  Consumed(d, s) = [d EXCEPT !.leds = [k \in LEDs |-> s[k + 3]]]
<1> DEFINE n == LED_COUNT + 2
           Body(f) == [i \in 0..n |-> IF i = 0 THEN d ELSE Consume(f[i - 1], s[i]).dev]
           g == [i \in 0..n |-> Taken(d, s, i)]
           after == CHOOSE f : f = Body(f)
<1>1. n \in Nat /\ n - 2 >= 1 /\ LEDs = 0..(n - 3) /\ \A k \in LEDs : s[k + 3] \in Nat
  <2>1. LED_COUNT \in Nat /\ LED_COUNT >= 1
    BY LedsAssumption
  <2>2. \A k \in LEDs : k + 3 \in 1..Len(s)
    BY <2>1 DEF LEDs
  <2> QED
    BY <2>1, <2>2 DEF LEDs
<1>2. g = Body(g)
  <2>1. \A i \in 0..n : g[i] = IF i = 0 THEN d ELSE Consume(g[i - 1], s[i]).dev
    <3> TAKE i \in 0..n
    <3>1. CASE i = 0
      BY <3>1 DEF Taken
    <3>2. CASE i # 0
      <4>1. i \in 1..(LED_COUNT + 2) /\ i - 1 \in 0..n
        BY <1>1, <3>2
      <4>2. g[i] = Taken(d, s, i) /\ g[i - 1] = Taken(d, s, i - 1)
        BY <4>1
      <4>3. Consume(Taken(d, s, i - 1), s[i]).dev = Taken(d, s, i)
        BY <1>1, <4>1, TakesByte
      <4> QED
        BY <3>2, <4>2, <4>3
    <3> QED
      BY <3>1, <3>2
  <2> HIDE DEF n
  <2> QED
    BY <2>1
<1>3. after = Body(after)
  <2> HIDE DEF g, Body
  <2> QED
    BY <1>2
<1>4. \A i \in 0..n : after[i] = IF i = 0 THEN d ELSE Consume(after[i - 1], s[i]).dev
  <2> HIDE DEF after, n
  <2> QED
    BY <1>3
<1>5. \A i \in 0..n : g[i] = IF i = 0 THEN d ELSE Consume(g[i - 1], s[i]).dev
  <2> HIDE DEF g, n
  <2> QED
    BY <1>2
<1> HIDE DEF after, g, Body
<1> DEFINE T == {m \in Nat : m <= n => after[m] = g[m]}
<1>6. 0 \in T
  BY <1>1, <1>4, <1>5
<1>7. \A m \in T : m + 1 \in T
  <2> SUFFICES ASSUME NEW m \in T, m + 1 <= n PROVE after[m + 1] = g[m + 1]
    BY <1>1
  <2>1. m + 1 \in 0..n /\ m + 1 # 0 /\ (m + 1) - 1 = m /\ m <= n
    <3> HIDE DEF n
    <3> QED
      BY <1>1
  <2>2. after[m] = g[m]
    BY <2>1
  <2> HIDE DEF T, n
  <2> QED
    BY <2>1, <2>2, <1>4, <1>5
<1>8. T = Nat
  <2> HIDE DEF T
  <2>1. T \in SUBSET Nat
    BY DEF T
  <2> QED
    BY <1>6, <1>7, <2>1, NatInd
<1>9. after[n] = g[n]
  BY <1>1, <1>8
<1>10. g[n] = [d EXCEPT !.leds = [k \in LEDs |-> s[k + 3]]]
  <2>1. g[n] = Taken(d, s, n) /\ n # 0 /\ n # 1
    BY <1>1 DEF g
  <2>2. Shown(d, s, n - 2) = [k \in LEDs |-> s[k + 3]]
    <3>1. \A k \in LEDs : k < n - 2
      BY <1>1
    <3> QED
      BY <3>1 DEF Shown
  <2>3. (n - 2)..(LED_COUNT - 1) = {}
    BY <1>1, LedsAssumption
  <2> HIDE DEF n
  <2>4. Taken(d, s, n) = [d EXCEPT !.leds = [k \in LEDs |-> s[k + 3]], !.want = {}]
    BY <2>1, <2>2, <2>3 DEF Taken
  <2>5. [k \in LEDs |-> s[k + 3]] \in [LEDs -> Nat]
    BY <1>1
  <2>6. [d EXCEPT !.leds = [k \in LEDs |-> s[k + 3]], !.want = {}]
        = [d EXCEPT !.leds = [k \in LEDs |-> s[k + 3]]]
    BY <2>5, WaitingAgain
  <2> QED
    BY <2>1, <2>4, <2>6
<1>11. Consumed(d, s) = after[n]
  BY DEF Consumed, after, Body
<1> QED
  BY <1>9, <1>10, <1>11

-----------------------------------------------------------------------------
(* Digits and segments. *)

LEMMA Powers ==
  /\ 2^0 = 1 /\ 2^1 = 2 /\ 2^2 = 4 /\ 2^3 = 8 /\ 2^4 = 16 /\ 2^5 = 32 /\ 2^6 = 64
  /\ 2^7 = 128 /\ 2^8 = 256 /\ 2^12 = 4096 /\ 2^16 = 65536 /\ 2^24 = 16777216
  /\ 16^0 = 1 /\ 16^1 = 16 /\ 16^2 = 256 /\ 16^3 = 4096
OBVIOUS

LEMMA Bits ==
  ASSUME NEW v \in Nat
  PROVE  /\ Bit(v, 0) = v % 2          /\ Bit(v, 1) = (v \div 2) % 2
         /\ Bit(v, 2) = (v \div 4) % 2 /\ Bit(v, 3) = (v \div 8) % 2
         /\ Bit(v, 4) = (v \div 16) % 2 /\ Bit(v, 5) = (v \div 32) % 2
         /\ Bit(v, 6) = (v \div 64) % 2 /\ Bit(v, 7) = (v \div 128) % 2
BY Powers DEF Bit

\* tux_clock in the numbers of its digits.
LEMMA ClockValue ==
  ASSUME NEW t \in Nat, t < 6000
  PROVE  /\ t \div 60 \in 0..99 /\ t % 60 \in 0..59
         /\ tux_clock(t)
            = LED_DEFAULT + 4096 * ((t \div 60) \div 10) + 256 * ((t \div 60) % 10)
                          + 16 * ((t % 60) \div 10) + ((t % 60) % 10)
<1> DEFINE a == t \div 60
           b == t % 60
<1>1. a \in 0..99 /\ b \in 0..59
  <2>1. t \in Nat /\ t < 6000
    OBVIOUS
  <2>2. t \div 60 \in Nat /\ t \div 60 < 100 /\ t % 60 \in 0..59
    BY <2>1
  <2> QED
    BY <2>2
<1>2. tux_clock(t) = LED_DEFAULT + 2^12 * (a \div 10) + 2^8 * (a % 10) + 2^4 * (b \div 10) + (b % 10)
  BY DEF tux_clock
<1> HIDE DEF a, b
<1>3. tux_clock(t) = LED_DEFAULT + 4096 * (a \div 10) + 256 * (a % 10) + 16 * (b \div 10) + (b % 10)
  BY <1>2, Powers
<1> QED
  BY <1>1, <1>3 DEF a, b

\* The argument of TUX_SET_LED that shows the digits p, q, r and s.
Argument(p, q, r, s) == LED_DEFAULT + 4096 * p + 256 * q + 16 * r + s

LEMMA Digits ==
  ASSUME NEW p \in Nat, NEW q \in Nat, NEW r \in Nat, NEW s \in Nat,
         p < 16, q < 16, r < 16, s < 16
  PROVE  LET arg == Argument(p, q, r, s) IN
         /\ arg \in Nat
         /\ HexDigit(arg, 0) = s /\ HexDigit(arg, 1) = r
         /\ HexDigit(arg, 2) = q /\ HexDigit(arg, 3) = p
         /\ (arg \div 2^16) % 16 = 15 /\ (arg \div 2^24) % 16 = 4
<1> DEFINE arg == Argument(p, q, r, s)
<1>0. arg = 67108864 + 983040 + 4096 * p + 256 * q + 16 * r + s
  BY Powers, SMT DEF LED_DEFAULT, Argument
<1> HIDE DEF arg
<1> DEFINE x1 == 4194304 + 61440 + 256 * p + 16 * q + r
           x2 == 262144 + 3840 + 16 * p + q
           x3 == 16384 + 240 + p
<1>1. /\ arg \in Nat /\ x1 \in Nat /\ x2 \in Nat /\ x3 \in Nat
      /\ arg = 16 * x1 + s /\ x1 = 16 * x2 + r /\ x2 = 16 * x3 + q
  BY <1>0, SMT
<1>2. x3 % 16 = p /\ x3 \div 16 = 1039 /\ x3 \div 4096 = 4
  BY SMT
<1> HIDE DEF x1, x2, x3
<1>3. arg % 16 = s /\ arg \div 16 = x1
  BY <1>1, SMT
<1>4. x1 % 16 = r /\ x1 \div 16 = x2
  BY <1>1, SMT
<1>5. x2 % 16 = q /\ x2 \div 16 = x3
  BY <1>1, SMT
<1>6. arg \div 256 = x2
  BY <1>1, <1>3, <1>4, SMT
<1>7. arg \div 4096 = x3
  BY <1>1, <1>5, <1>6, SMT
<1>8. arg \div 65536 = 1039 /\ arg \div 16777216 = 4
  BY <1>1, <1>2, <1>7, SMT
<1>9. arg \div 1 = arg /\ 1039 % 16 = 15 /\ 4 % 16 = 4
  BY <1>1
<1> QED
  BY <1>1, <1>2, <1>3, <1>4, <1>5, <1>6, <1>7, <1>8, <1>9, Powers DEF HexDigit, arg

\* The segments a byte lights.
LEMMA LitSegments ==
  ASSUME NEW v \in Nat
  PROVE  /\ Lit(v) \subseteq {"A", "B", "C", "D", "E", "F", "G"}
         /\ "A" \in Lit(v) <=> (v \div 128) % 2 = 1
         /\ "B" \in Lit(v) <=> (v \div 2) % 2 = 1
         /\ "C" \in Lit(v) <=> (v \div 4) % 2 = 1
         /\ "D" \in Lit(v) <=> v % 2 = 1
         /\ "E" \in Lit(v) <=> (v \div 64) % 2 = 1
         /\ "F" \in Lit(v) <=> (v \div 32) % 2 = 1
         /\ "G" \in Lit(v) <=> (v \div 8) % 2 = 1
<1>1. /\ DOMAIN SegmentBit = {"A", "B", "C", "D", "E", "F", "G"}
      /\ SegmentBit["A"] = 7 /\ SegmentBit["B"] = 1 /\ SegmentBit["C"] = 2
      /\ SegmentBit["D"] = 0 /\ SegmentBit["E"] = 6 /\ SegmentBit["F"] = 5
      /\ SegmentBit["G"] = 3
  BY DEF SegmentBit
<1>2. /\ Bit(v, 7) = (v \div 128) % 2 /\ Bit(v, 1) = (v \div 2) % 2
      /\ Bit(v, 2) = (v \div 4) % 2 /\ Bit(v, 0) = v % 2 /\ Bit(v, 6) = (v \div 64) % 2
      /\ Bit(v, 5) = (v \div 32) % 2 /\ Bit(v, 3) = (v \div 8) % 2
  BY Bits
<1>3. \A x \in DOMAIN SegmentBit : x \in Lit(v) <=> Bit(v, SegmentBit[x]) = 1
  BY DEF Lit
<1>4. Lit(v) \subseteq DOMAIN SegmentBit
  BY DEF Lit
<1> QED
  BY <1>1, <1>2, <1>3, <1>4

LEMMA LitUnion ==
  ASSUME NEW v \in Nat
  PROVE  LET If(n, x) == IF (v \div n) % 2 = 1 THEN {x} ELSE {} IN
         Lit(v) = If(128, "A") \cup If(2, "B") \cup If(4, "C") \cup If(1, "D")
                  \cup If(64, "E") \cup If(32, "F") \cup If(8, "G")
<1>1. \A x \in Lit(v) : x \in {"A", "B", "C", "D", "E", "F", "G"}
  BY LitSegments
<1>2. v \div 1 = v
  OBVIOUS
<1> QED
  BY <1>1, <1>2, LitSegments

\* Every digit drawn is the one meant, with or without its point.
LEMMA Drawn ==
  ASSUME NEW d \in 0..9
  PROVE  /\ hex_num_to_byte(d) \in Nat
         /\ ShowsDigit(hex_num_to_byte(d), d, FALSE)
         /\ ShowsDigit(hex_num_to_byte(d) + 16, d, TRUE)
<1>1. \/ d = 0 \/ d = 1 \/ d = 2 \/ d = 3 \/ d = 4
      \/ d = 5 \/ d = 6 \/ d = 7 \/ d = 8 \/ d = 9
  OBVIOUS
<1>2. CASE d = 0
  <2>1. hex_num_to_byte(d) = 231 /\ Segments[d + 1] = {"A", "B", "C", "D", "E", "F"}
    BY <1>2 DEF hex_num_to_byte, SevenSegment, Segments
  <2>2. Lit(231) = {"A", "B", "C", "D", "E", "F"} /\ Bit(231, 4) = 0
    <3>1. Bit(231, 4) = 0
      BY Bits
    <3>2. Lit(231) = {"A", "B", "C", "D", "E", "F"}
      BY LitUnion
    <3> QED
      BY <3>1, <3>2
  <2>3. Lit(247) = {"A", "B", "C", "D", "E", "F"} /\ Bit(247, 4) = 1
    <3>1. Bit(247, 4) = 1
      BY Bits
    <3>2. Lit(247) = {"A", "B", "C", "D", "E", "F"}
      BY LitUnion
    <3> QED
      BY <3>1, <3>2
  <2> QED
    BY <2>1, <2>2, <2>3 DEF ShowsDigit
<1>3. CASE d = 1
  <2>1. hex_num_to_byte(d) = 6 /\ Segments[d + 1] = {"B", "C"}
    BY <1>3 DEF hex_num_to_byte, SevenSegment, Segments
  <2>2. Lit(6) = {"B", "C"} /\ Bit(6, 4) = 0
    <3>1. Bit(6, 4) = 0
      BY Bits
    <3>2. Lit(6) = {"B", "C"}
      BY LitUnion
    <3> QED
      BY <3>1, <3>2
  <2>3. Lit(22) = {"B", "C"} /\ Bit(22, 4) = 1
    <3>1. Bit(22, 4) = 1
      BY Bits
    <3>2. Lit(22) = {"B", "C"}
      BY LitUnion
    <3> QED
      BY <3>1, <3>2
  <2> QED
    BY <2>1, <2>2, <2>3 DEF ShowsDigit
<1>4. CASE d = 2
  <2>1. hex_num_to_byte(d) = 203 /\ Segments[d + 1] = {"A", "B", "D", "E", "G"}
    BY <1>4 DEF hex_num_to_byte, SevenSegment, Segments
  <2>2. Lit(203) = {"A", "B", "D", "E", "G"} /\ Bit(203, 4) = 0
    <3>1. Bit(203, 4) = 0
      BY Bits
    <3>2. Lit(203) = {"A", "B", "D", "E", "G"}
      BY LitUnion
    <3> QED
      BY <3>1, <3>2
  <2>3. Lit(219) = {"A", "B", "D", "E", "G"} /\ Bit(219, 4) = 1
    <3>1. Bit(219, 4) = 1
      BY Bits
    <3>2. Lit(219) = {"A", "B", "D", "E", "G"}
      BY LitUnion
    <3> QED
      BY <3>1, <3>2
  <2> QED
    BY <2>1, <2>2, <2>3 DEF ShowsDigit
<1>5. CASE d = 3
  <2>1. hex_num_to_byte(d) = 143 /\ Segments[d + 1] = {"A", "B", "C", "D", "G"}
    BY <1>5 DEF hex_num_to_byte, SevenSegment, Segments
  <2>2. Lit(143) = {"A", "B", "C", "D", "G"} /\ Bit(143, 4) = 0
    <3>1. Bit(143, 4) = 0
      BY Bits
    <3>2. Lit(143) = {"A", "B", "C", "D", "G"}
      BY LitUnion
    <3> QED
      BY <3>1, <3>2
  <2>3. Lit(159) = {"A", "B", "C", "D", "G"} /\ Bit(159, 4) = 1
    <3>1. Bit(159, 4) = 1
      BY Bits
    <3>2. Lit(159) = {"A", "B", "C", "D", "G"}
      BY LitUnion
    <3> QED
      BY <3>1, <3>2
  <2> QED
    BY <2>1, <2>2, <2>3 DEF ShowsDigit
<1>6. CASE d = 4
  <2>1. hex_num_to_byte(d) = 46 /\ Segments[d + 1] = {"B", "C", "F", "G"}
    BY <1>6 DEF hex_num_to_byte, SevenSegment, Segments
  <2>2. Lit(46) = {"B", "C", "F", "G"} /\ Bit(46, 4) = 0
    <3>1. Bit(46, 4) = 0
      BY Bits
    <3>2. Lit(46) = {"B", "C", "F", "G"}
      BY LitUnion
    <3> QED
      BY <3>1, <3>2
  <2>3. Lit(62) = {"B", "C", "F", "G"} /\ Bit(62, 4) = 1
    <3>1. Bit(62, 4) = 1
      BY Bits
    <3>2. Lit(62) = {"B", "C", "F", "G"}
      BY LitUnion
    <3> QED
      BY <3>1, <3>2
  <2> QED
    BY <2>1, <2>2, <2>3 DEF ShowsDigit
<1>7. CASE d = 5
  <2>1. hex_num_to_byte(d) = 173 /\ Segments[d + 1] = {"A", "C", "D", "F", "G"}
    BY <1>7 DEF hex_num_to_byte, SevenSegment, Segments
  <2>2. Lit(173) = {"A", "C", "D", "F", "G"} /\ Bit(173, 4) = 0
    <3>1. Bit(173, 4) = 0
      BY Bits
    <3>2. Lit(173) = {"A", "C", "D", "F", "G"}
      BY LitUnion
    <3> QED
      BY <3>1, <3>2
  <2>3. Lit(189) = {"A", "C", "D", "F", "G"} /\ Bit(189, 4) = 1
    <3>1. Bit(189, 4) = 1
      BY Bits
    <3>2. Lit(189) = {"A", "C", "D", "F", "G"}
      BY LitUnion
    <3> QED
      BY <3>1, <3>2
  <2> QED
    BY <2>1, <2>2, <2>3 DEF ShowsDigit
<1>8. CASE d = 6
  <2>1. hex_num_to_byte(d) = 237 /\ Segments[d + 1] = {"A", "C", "D", "E", "F", "G"}
    BY <1>8 DEF hex_num_to_byte, SevenSegment, Segments
  <2>2. Lit(237) = {"A", "C", "D", "E", "F", "G"} /\ Bit(237, 4) = 0
    <3>1. Bit(237, 4) = 0
      BY Bits
    <3>2. Lit(237) = {"A", "C", "D", "E", "F", "G"}
      BY LitUnion
    <3> QED
      BY <3>1, <3>2
  <2>3. Lit(253) = {"A", "C", "D", "E", "F", "G"} /\ Bit(253, 4) = 1
    <3>1. Bit(253, 4) = 1
      BY Bits
    <3>2. Lit(253) = {"A", "C", "D", "E", "F", "G"}
      BY LitUnion
    <3> QED
      BY <3>1, <3>2
  <2> QED
    BY <2>1, <2>2, <2>3 DEF ShowsDigit
<1>9. CASE d = 7
  <2>1. hex_num_to_byte(d) = 134 /\ Segments[d + 1] = {"A", "B", "C"}
    BY <1>9 DEF hex_num_to_byte, SevenSegment, Segments
  <2>2. Lit(134) = {"A", "B", "C"} /\ Bit(134, 4) = 0
    <3>1. Bit(134, 4) = 0
      BY Bits
    <3>2. Lit(134) = {"A", "B", "C"}
      BY LitUnion
    <3> QED
      BY <3>1, <3>2
  <2>3. Lit(150) = {"A", "B", "C"} /\ Bit(150, 4) = 1
    <3>1. Bit(150, 4) = 1
      BY Bits
    <3>2. Lit(150) = {"A", "B", "C"}
      BY LitUnion
    <3> QED
      BY <3>1, <3>2
  <2> QED
    BY <2>1, <2>2, <2>3 DEF ShowsDigit
<1>10. CASE d = 8
  <2>1. hex_num_to_byte(d) = 239 /\ Segments[d + 1] = {"A", "B", "C", "D", "E", "F", "G"}
    BY <1>10 DEF hex_num_to_byte, SevenSegment, Segments
  <2>2. Lit(239) = {"A", "B", "C", "D", "E", "F", "G"} /\ Bit(239, 4) = 0
    <3>1. Bit(239, 4) = 0
      BY Bits
    <3>2. Lit(239) = {"A", "B", "C", "D", "E", "F", "G"}
      BY LitUnion
    <3> QED
      BY <3>1, <3>2
  <2>3. Lit(255) = {"A", "B", "C", "D", "E", "F", "G"} /\ Bit(255, 4) = 1
    <3>1. Bit(255, 4) = 1
      BY Bits
    <3>2. Lit(255) = {"A", "B", "C", "D", "E", "F", "G"}
      BY LitUnion
    <3> QED
      BY <3>1, <3>2
  <2> QED
    BY <2>1, <2>2, <2>3 DEF ShowsDigit
<1>11. CASE d = 9
  <2>1. hex_num_to_byte(d) = 175 /\ Segments[d + 1] = {"A", "B", "C", "D", "F", "G"}
    BY <1>11 DEF hex_num_to_byte, SevenSegment, Segments
  <2>2. Lit(175) = {"A", "B", "C", "D", "F", "G"} /\ Bit(175, 4) = 0
    <3>1. Bit(175, 4) = 0
      BY Bits
    <3>2. Lit(175) = {"A", "B", "C", "D", "F", "G"}
      BY LitUnion
    <3> QED
      BY <3>1, <3>2
  <2>3. Lit(191) = {"A", "B", "C", "D", "F", "G"} /\ Bit(191, 4) = 1
    <3>1. Bit(191, 4) = 1
      BY Bits
    <3>2. Lit(191) = {"A", "B", "C", "D", "F", "G"}
      BY LitUnion
    <3> QED
      BY <3>1, <3>2
  <2> QED
    BY <2>1, <2>2, <2>3 DEF ShowsDigit
<1> QED
  BY <1>1, <1>2, <1>3, <1>4, <1>5, <1>6, <1>7, <1>8, <1>9, <1>10, <1>11

-----------------------------------------------------------------------------
(* A time, its bytes, its segments. *)

LEMMA AllOn ==
  /\ Bit(1, 0) = 1
  /\ Bit(3, 0) = 1 /\ Bit(3, 1) = 1
  /\ Bit(7, 0) = 1 /\ Bit(7, 1) = 1 /\ Bit(7, 2) = 1
  /\ Bit(15, 0) = 1 /\ Bit(15, 1) = 1 /\ Bit(15, 2) = 1 /\ Bit(15, 3) = 1
  /\ Bit(4, 0) = 0 /\ Bit(4, 1) = 0 /\ Bit(4, 2) = 1 /\ Bit(4, 3) = 0
<1>1. Bit(1, 0) = 1 /\ Bit(3, 0) = 1 /\ Bit(3, 1) = 1
  BY Bits
<1>2. Bit(7, 0) = 1 /\ Bit(7, 1) = 1 /\ Bit(7, 2) = 1
  BY Bits
<1>3. Bit(15, 0) = 1 /\ Bit(15, 1) = 1
  BY Bits
<1>4. Bit(15, 2) = 1 /\ Bit(15, 3) = 1
  BY Bits
<1>5. Bit(4, 0) = 0 /\ Bit(4, 1) = 0 /\ Bit(4, 2) = 1 /\ Bit(4, 3) = 0
  BY Bits
<1> QED
  BY <1>1, <1>2, <1>3, <1>4, <1>5

\* The bytes of tux_set_led for a time of the clock.
LEMMA ClockBytes ==
  ASSUME NEW t \in Nat, t < 6000, NEW s, s = led_set_buf(tux_clock(t))
  PROVE  /\ s \in Seq(Nat) /\ Len(s) = LED_COUNT + 2
         /\ s[1] = MTCP_LED_SET
         /\ \A k \in LEDs :
              /\ Bit(s[2], k) = 1
              /\ ClockDigit(t, k) \in 0..9
              /\ s[k + 3] = hex_num_to_byte(ClockDigit(t, k)) + (IF k = 2 THEN 16 ELSE 0)
<1> DEFINE arg == tux_clock(t)
           on  == (arg \div 2^16) % 2^LED_COUNT
           points == (arg \div 2^24) % 16
           Shape(k) == IF Bit(on, k) = 0 THEN 0
                       ELSE hex_num_to_byte(HexDigit(arg, k)) + 16 * Bit(points, k)
           a == t \div 60
           b == t % 60
<1>1. LED_COUNT \in 1..4 /\ LED_COUNT \in Nat
  BY LedsAssumption
<1>2. \A k \in LEDs : k \in {0, 1, 2, 3} /\ k < LED_COUNT /\ k + 1 \in 1..LED_COUNT
  BY <1>1 DEF LEDs
<1>3. /\ a \in 0..99 /\ b \in 0..59
      /\ arg = LED_DEFAULT + 4096 * (a \div 10) + 256 * (a % 10)
               + 16 * (b \div 10) + (b % 10)
  BY ClockValue
<1>4. /\ a \div 10 \in 0..9 /\ a % 10 \in 0..9 /\ b \div 10 \in 0..9 /\ b % 10 \in 0..9
  <2> HIDE DEF a, b, arg
  <2> QED
    BY <1>3
<1>5. /\ arg \in Nat
      /\ HexDigit(arg, 0) = b % 10 /\ HexDigit(arg, 1) = b \div 10
      /\ HexDigit(arg, 2) = a % 10 /\ HexDigit(arg, 3) = a \div 10
      /\ (arg \div 2^16) % 16 = 15 /\ (arg \div 2^24) % 16 = 4
  <2> HIDE DEF a, b, arg
  <2> DEFINE p == a \div 10
             q == a % 10
             r == b \div 10
             u == b % 10
  <2>1. /\ p \in Nat /\ q \in Nat /\ r \in Nat /\ u \in Nat
        /\ p < 16 /\ q < 16 /\ r < 16 /\ u < 16
        /\ arg = Argument(p, q, r, u)
    BY <1>3, <1>4 DEF Argument
  <2> HIDE DEF p, q, r, u
  <2>2. /\ arg \in Nat
        /\ HexDigit(arg, 0) = u /\ HexDigit(arg, 1) = r
        /\ HexDigit(arg, 2) = q /\ HexDigit(arg, 3) = p
        /\ (arg \div 2^16) % 16 = 15 /\ (arg \div 2^24) % 16 = 4
    BY <2>1, Digits
  <2> QED
    BY <2>2 DEF p, q, r, u
<1>6. \A k \in LEDs : HexDigit(arg, k) = ClockDigit(t, k) /\ ClockDigit(t, k) \in 0..9
  <2>1. /\ ClockDigit(t, 0) = b % 10 /\ ClockDigit(t, 1) = b \div 10
        /\ ClockDigit(t, 2) = a % 10 /\ ClockDigit(t, 3) = a \div 10
    BY DEF ClockDigit
  <2> HIDE DEF a, b, arg
  <2> QED
    BY <1>2, <1>4, <1>5, <2>1
<1>7. on \in Nat /\ \A k \in LEDs : Bit(on, k) = 1
  <2> DEFINE v == arg \div 2^16
  <2>1. v \in Nat /\ v % 16 = 15
    <3> HIDE DEF arg
    <3> QED
      BY <1>5, Powers
  <2> HIDE DEF v, arg
  <2>2. v % 2 = 1 /\ v % 4 = 3 /\ v % 8 = 7 /\ v % 16 = 15
    BY <2>1
  <2>3. on = v % 2^LED_COUNT
    BY DEF v
  <2> HIDE DEF on
  <2>4. CASE LED_COUNT = 1
    <3>1. on = 1 /\ \A k \in LEDs : k = 0
      BY <1>2, <2>2, <2>3, <2>4, Powers
    <3> QED
      BY <3>1, AllOn
  <2>5. CASE LED_COUNT = 2
    <3>1. on = 3 /\ \A k \in LEDs : k = 0 \/ k = 1
      BY <1>2, <2>2, <2>3, <2>5, Powers
    <3> QED
      BY <3>1, AllOn
  <2>6. CASE LED_COUNT = 3
    <3>1. on = 7 /\ \A k \in LEDs : k = 0 \/ k = 1 \/ k = 2
      BY <1>2, <2>2, <2>3, <2>6, Powers
    <3> QED
      BY <3>1, AllOn
  <2>7. CASE LED_COUNT = 4
    <3>1. on = 15
      BY <2>2, <2>3, <2>7, Powers
    <3> QED
      BY <1>2, <3>1, AllOn
  <2> QED
    BY <1>1, <2>4, <2>5, <2>6, <2>7
<1>8. \A k \in LEDs : Bit(points, k) = IF k = 2 THEN 1 ELSE 0
  <2>1. points = 4
    BY <1>5
  <2> HIDE DEF points
  <2> QED
    BY <1>2, <2>1, AllOn
<1>9. \A k \in LEDs :
        /\ Shape(k) = hex_num_to_byte(ClockDigit(t, k)) + (IF k = 2 THEN 16 ELSE 0)
        /\ Shape(k) \in Nat
  <2> TAKE k \in LEDs
  <2>1. Shape(k) = hex_num_to_byte(HexDigit(arg, k)) + 16 * Bit(points, k)
    <3> HIDE DEF on, points, arg
    <3> QED
      BY <1>7
  <2>2. hex_num_to_byte(ClockDigit(t, k)) \in Nat
    BY <1>6, Drawn
  <2> HIDE DEF on, points, arg, Shape
  <2> QED
    BY <1>6, <1>8, <2>1, <2>2
<1> DEFINE w == [k \in 1..LED_COUNT |-> Shape(k - 1)]
<1>10. s = <<MTCP_LED_SET, on>> \o w
  BY DEF led_set_buf
<1> HIDE DEF arg, on, points, Shape
<1>11. w \in Seq(Nat) /\ Len(w) = LED_COUNT /\ \A k \in LEDs : w[k + 1] = Shape(k)
  <2>1. \A k \in 1..LED_COUNT : k - 1 \in LEDs
    BY <1>1 DEF LEDs
  <2>2. w \in [1..LED_COUNT -> Nat]
    BY <1>9, <2>1
  <2>3. \A k \in LEDs : k \in Int /\ (k + 1) - 1 = k
    BY <1>2
  <2> QED
    BY <1>1, <1>2, <2>2, <2>3
<1>12. MTCP_LED_SET \in Nat
  BY DEF MTCP_LED_SET, MTCP_CMD
<1> HIDE DEF w
<1>13. /\ s \in Seq(Nat) /\ Len(s) = LED_COUNT + 2 /\ s[1] = MTCP_LED_SET /\ s[2] = on
       /\ \A k \in LEDs : s[k + 3] = w[k + 1]
  <2>1. <<MTCP_LED_SET, on>> \in Seq(Nat) /\ Len(<<MTCP_LED_SET, on>>) = 2
    BY <1>7, <1>12
  <2>2. s \in Seq(Nat) /\ Len(s) = LED_COUNT + 2
    BY <1>1, <1>10, <1>11, <2>1
  <2>3. \A k \in LEDs : s[k + 3] = w[k + 1]
    <3> TAKE k \in LEDs
    <3>1. k + 3 \in 1..(LED_COUNT + 2) /\ k + 3 > 2 /\ (k + 3) - 2 = k + 1
      BY <1>1, <1>2
    <3> QED
      BY <1>1, <1>10, <1>11, <2>1, <3>1
  <2>4. s[1] = MTCP_LED_SET /\ s[2] = on
    BY <1>1, <1>10, <1>11, <2>1
  <2> QED
    BY <2>2, <2>3, <2>4
<1> QED
  BY <1>6, <1>7, <1>9, <1>11, <1>13

(* Every time of the clock, from the digits in tux_clock to the segments that
   are lit in a controller with any number of LEDs, in every state in which it
   waits for a command: the hypothesis is the property's own, not a type of Spec. *)
THEOREM ClocksAreShown == EveryClockCanBeShown
<1> SUFFICES
      ASSUME IsWaiting(dev), NEW t \in Times
      PROVE  LET shown == Consumed(dev, led_set_buf(tux_clock(t)))
             IN /\ \A k \in LEDs : ShowsDigit(shown.leds[k], ClockDigit(t, k), k = 2)
                /\ shown = [dev EXCEPT !.leds = shown.leds]
  BY DEF EveryClockCanBeShown
<1> DEFINE s      == led_set_buf(tux_clock(t))
           shown  == Consumed(dev, s)
           new    == [k \in LEDs |-> s[k + 3]]
<1>1. t \in Nat /\ t < 6000
  BY TimesAssumption
<1>2. /\ s \in Seq(Nat) /\ Len(s) = LED_COUNT + 2
      /\ s[1] = MTCP_LED_SET
      /\ \A k \in LEDs :
           /\ Bit(s[2], k) = 1
           /\ ClockDigit(t, k) \in 0..9
           /\ s[k + 3] = hex_num_to_byte(ClockDigit(t, k)) + (IF k = 2 THEN 16 ELSE 0)
  <2>1. s = led_set_buf(tux_clock(t))
    OBVIOUS
  <2> HIDE DEF s
  <2> QED
    BY <1>1, <2>1, ClockBytes
<1> HIDE DEF s
<1>3. {k \in LEDs : Bit(s[2], k) = 1} = LEDs
  BY <1>2
<1>4. shown = [dev EXCEPT !.leds = new]
  BY <1>2, <1>3, ConsumedIsTaken
<1> HIDE DEF shown
<1>5. shown.leds = new
  <2> HIDE DEF new
  <2> QED
    BY <1>4 DEF IsWaiting
<1>6. shown = [dev EXCEPT !.leds = shown.leds]
  BY <1>4, <1>5
<1>7. \A k \in LEDs : ShowsDigit(shown.leds[k], ClockDigit(t, k), k = 2)
  <2> TAKE k \in LEDs
  <2> DEFINE d == ClockDigit(t, k)
             v == hex_num_to_byte(d)
  <2>1. d \in 0..9 /\ shown.leds[k] = v + (IF k = 2 THEN 16 ELSE 0)
    BY <1>2, <1>5
  <2> HIDE DEF d
  <2>2. v \in Nat /\ ShowsDigit(v, d, FALSE) /\ ShowsDigit(v + 16, d, TRUE)
    BY <2>1, Drawn
  <2> HIDE DEF v
  <2>3. CASE k = 2
    <3>1. shown.leds[k] = v + 16
      BY <2>1, <2>3
    <3>2. ShowsDigit(shown.leds[k], d, k = 2)
      BY <2>2, <2>3, <3>1 DEF ShowsDigit
    <3> QED
      BY <3>2 DEF d
  <2>4. CASE k # 2
    <3>1. shown.leds[k] = v
      BY <2>1, <2>2, <2>4
    <3>2. ShowsDigit(shown.leds[k], d, k = 2)
      BY <2>2, <2>4, <3>1 DEF ShowsDigit
    <3> QED
      BY <3>2 DEF d
  <2> QED
    BY <2>3, <2>4
<1> QED
  BY <1>6, <1>7 DEF s, shown

=============================================================================

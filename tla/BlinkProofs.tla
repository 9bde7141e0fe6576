----------------------------- MODULE BlinkProofs -----------------------------
(***************************************************************************)
(* Proofs about Blink, for any number of structures, cells, lengths and     *)
(* calls: the list mp1_rtc_tasklet walks is whole between any two accesses   *)
(* of an ioctl, nothing allocated is lost, synchronised structures stay      *)
(* alike and every structure toggles after its own lengths.                 *)
(***************************************************************************)
EXTENDS Blink, FiniteSetTheorems, WellFoundedInduction, TLAPS

-----------------------------------------------------------------------------
(* Minima *)

\* A non-empty set of naturals has a least element.
LEMMA NatMin ==
  ASSUME NEW S \in SUBSET Nat, S # {}
  PROVE  \E x \in S : \A y \in S : x <= y
<1> DEFINE R == {p \in Nat \X Nat : p[1] < p[2]}
<1>1. IsWellFoundedOn(R, Nat)
  BY NatLessThanWellFounded DEF OpToRel
<1>2. \E x \in S : \A y \in S : ~ (<<y, x>> \in R)
  <2> HIDE DEF R
  <2> QED
    BY <1>1, WFMin, Zenon
<1>3. PICK x \in S : \A y \in S : <<y, x>> \notin R
  <2> HIDE DEF R
  <2> QED
    BY <1>2
<1>4. \A y \in S : x <= y
  <2> TAKE y \in S
  <2>1. <<y, x>> \in Nat \X Nat /\ <<y, x>>[1] = y /\ <<y, x>>[2] = x
    OBVIOUS
  <2>2. ~ (y < x)
    BY <1>3, <2>1
  <2> QED
    BY <2>2
<1> QED
  BY <1>4

\* What FiniteSetsExt's Min chooses.
LEMMA MinIsLeast ==
  ASSUME NEW S \in SUBSET Nat, S # {}
  PROVE  Min(S) \in S /\ \A y \in S : Min(S) <= y
BY NatMin DEF Min

-----------------------------------------------------------------------------
(* The list, by the sequence of its structures *)

\* L[1] .. L[n] are linked from the head to the end.
Linked(L, n) ==
  /\ n \in Nat /\ L \in [1..n -> Structs]
  /\ \A i, j \in 1..n : L[i] = L[j] => i = j
  /\ mp1_list_head = IF n = 0 THEN NULL ELSE L[1]
  /\ \A i \in 1..n : mem[L[i]].next = IF i = n THEN NULL ELSE L[i + 1]

On(L, n) == {L[i] : i \in 1..n}

\* A list without repetition is no longer than there are structures.
LEMMA LinkedIsShort ==
  ASSUME NEW L, NEW n, Linked(L, n)
  PROVE  n <= Cardinality(Structs) /\ Cardinality(Structs) \in Nat /\ n \in Nat
<1>1. IsFiniteSet(Structs) /\ Cardinality(Structs) \in Nat
  BY AddressAssumption, FS_CardinalityType
<1>2. n \in Nat /\ L \in Injection(1..n, Structs)
  BY DEF Linked, Injection, IsInjective
<1>3. Cardinality(1..n) = n
  BY <1>2, FS_Interval
<1> QED
  BY <1>1, <1>2, <1>3, FS_Injection

\* What the walk of Path meets.
LEMMA PathIsTheList ==
  ASSUME NEW L, NEW n, Linked(L, n)
  PROVE  /\ DOMAIN Path = 1..(Cardinality(Structs) + 1)
         /\ \A i \in DOMAIN Path : Path[i] = IF i <= n THEN L[i] ELSE NULL
         /\ n + 1 \in DOMAIN Path
         /\ Elements = On(L, n)
<1> DEFINE N == Cardinality(Structs)
<1> DEFINE Body(at) == [i \in 1..(N + 1) |->
                          IF i = 1 THEN mp1_list_head
                          ELSE LET before == at[i - 1]
                               IN  IF before = NULL THEN NULL ELSE mem[before].next]
<1> DEFINE P == [i \in 1..(N + 1) |-> IF i <= n THEN L[i] ELSE NULL]
<1>1. N \in Nat /\ n \in Nat /\ n <= N
  BY LinkedIsShort
<1>2. NULL \notin Structs /\ \A i \in 1..n : L[i] \in Structs
  BY AddressAssumption DEF Linked
<1>3. Path = CHOOSE at : at = Body(at)
  BY DEF Path
<1>4. P = Body(P)
  <2>1. ASSUME NEW i \in 1..(N + 1)
        PROVE  P[i] = Body(P)[i]
    <3>1. CASE i = 1
      BY <1>1, <2>1, <3>1 DEF Linked
    <3>2. CASE i # 1
      <4>1. i - 1 \in 1..(N + 1) /\ (i - 1) + 1 = i
        BY <1>1, <2>1, <3>2
      <4>2. CASE i - 1 <= n
        <5>1. i - 1 \in 1..n /\ P[i - 1] = L[i - 1]
          BY <4>1, <4>2
        <5>2. Body(P)[i] = mem[L[i - 1]].next
          BY <1>2, <2>1, <3>2, <5>1
        <5>3. mem[L[i - 1]].next = IF i - 1 = n THEN NULL ELSE L[i]
          BY <4>1, <5>1 DEF Linked
        <5> QED
          BY <1>1, <2>1, <4>1, <4>2, <5>2, <5>3
      <4>3. CASE ~(i - 1 <= n)
        <5>1. P[i - 1] = NULL /\ ~(i <= n)
          BY <1>1, <2>1, <4>1, <4>3
        <5> QED
          BY <2>1, <3>2, <5>1
      <4> QED
        BY <4>2, <4>3
    <3> QED
      BY <3>1, <3>2
  <2> QED
    BY <2>1
<1>5. Path = Body(Path)
  <2> HIDE DEF Body, P
  <2> QED
    BY <1>3, <1>4
<1>6. DOMAIN Path = 1..(N + 1)
  BY <1>5
<1>7. \A i \in 1..(N + 1) : Path[i] = P[i]
  <2> DEFINE Wrong == {i \in 1..(N + 1) : Path[i] # P[i]}
  <2>1. SUFFICES ASSUME Wrong # {} PROVE FALSE
    OBVIOUS
  <2>2. Wrong \in SUBSET Nat
    BY <1>1
  <2>3. PICK i \in Wrong : \A j \in Wrong : i <= j
    <3> HIDE DEF Wrong
    <3> QED
      BY <2>1, <2>2, NatMin
  <2>4. i \in 1..(N + 1) /\ Path[i] # P[i]
    OBVIOUS
  <2>5. Path[i] = Body(Path)[i] /\ P[i] = Body(P)[i]
    <3> HIDE DEF Body, P, Wrong
    <3> QED
      BY <1>4, <1>5
  <2>6. CASE i = 1
    <3>1. Body(Path)[i] = mp1_list_head /\ Body(P)[i] = mp1_list_head
      <4> HIDE DEF P
      <4> QED
        BY <2>4, <2>6
    <3> QED
      BY <2>4, <2>5, <3>1
  <2>7. CASE i # 1
    <3>1. i - 1 \in 1..(N + 1) /\ ~(i <= i - 1)
      BY <1>1, <2>4, <2>7
    <3>2. i - 1 \notin Wrong
      <4> HIDE DEF Wrong
      <4> QED
        BY <2>3, <3>1
    <3>3. Path[i - 1] = P[i - 1]
      BY <3>1, <3>2
    <3>4. Body(Path)[i] = Body(P)[i]
      <4> HIDE DEF P, Wrong
      <4> QED
        BY <2>4, <2>7, <3>3
    <3> QED
      <4> HIDE DEF Body, P, Wrong
      <4> QED
        BY <2>4, <2>5, <3>4
  <2> QED
    BY <2>6, <2>7
<1>8. \A i \in DOMAIN Path : Path[i] = IF i <= n THEN L[i] ELSE NULL
  <2> HIDE DEF Body
  <2> QED
    BY <1>6, <1>7
<1>9. Elements = On(L, n)
  <2>1. Elements = {Path[i] : i \in DOMAIN Path} \ {NULL}
    BY DEF Elements, ToSet
  <2>2. \A i \in 1..n : i \in DOMAIN Path /\ Path[i] = L[i]
    BY <1>1, <1>6, <1>8
  <2> HIDE DEF Body, P
  <2> QED
    BY <1>1, <1>2, <1>6, <1>8, <2>1, <2>2 DEF On
<1> QED
  BY <1>1, <1>6, <1>8, <1>9

-----------------------------------------------------------------------------
(* The inductive invariant *)

StructType ==
  [location : Cells \cup {Outside}, on_length : 0..(WORD - 1), off_length : 0..(WORD - 1),
   countdown : 0..(WORD - 1), status : {0, 1}, next : Structs \cup {NULL}, live : BOOLEAN]

MemoryIsTyped   == mem \in [Structs -> StructType]
Operations == {"none", "add", "remove", "find", "sync"}
Places     == {"idle", "link", "publish", "poke", "unlink", "copy", "free",
               "lengths", "countdown", "load", "status", "character"}
CallIsTyped == call \in [op : Operations, pc : Places, ebx : Structs \cup {NULL},
                         edx : Structs \cup {NULL}, ax : Nat]
CountersAreTyped ==
  /\ quiet \in BOOLEAN /\ ncalls \in Nat
  /\ age \in [Structs -> Nat] /\ synced \in [Structs -> BOOLEAN]
ScreenIsTyped   == screen \in [Cells -> {"on", "off"}]

ListEnds == \E n \in Nat : \E L \in [1..n -> Structs] : Linked(L, n)
ListIsFilled == \A a \in Elements : mem[a].live /\ mem[a].location \in Cells

\* The ioctl in progress has a structure that is not on the list.
HoldsOne == \/ call.op = "add" /\ call.pc \in {"link", "publish", "free"}
            \/ call.op = "remove" /\ call.pc = "free"
            \/ call.op = "find"

\* What is allocated is on the list or that structure.
AllAccountedFor ==
  IF HoldsOne THEN call.ebx \in Structs \ Elements /\ Allocated = Elements \cup {call.ebx}
  ELSE Allocated = Elements

Stages == ({"add"} \X {"link", "publish", "poke", "free"}) \cup ({"remove"} \X {"unlink", "free"})
          \cup ({"find"} \X {"copy", "free"})
          \cup ({"sync"} \X {"lengths", "countdown", "load", "status", "character", "poke"})

CallIsAt == call = Idle \/ <<call.op, call.pc>> \in Stages

\* What the registers of an ioctl mean for the structures it works on.
RegistersAreRight ==
  /\ call.op = "add" /\ call.pc \in {"link", "publish"} => mem[call.ebx].location \in Cells
  /\ call.op = "add" /\ call.pc = "publish" => mem[call.ebx].next = mp1_list_head
  /\ call.op = "add" /\ call.pc = "poke" => call.ebx \in Elements
  /\ call.op = "remove" /\ call.pc = "unlink" => call.ebx \in Elements
  /\ call.op = "sync" => call.ebx \in Elements /\ call.edx \in Elements
  /\ call.op = "sync" /\ call.pc = "countdown" => call.ax \in 0..(WORD - 1)
  /\ call.op = "sync" /\ call.pc = "status" => call.ax \in {0, 1}

ListInv ==
  /\ MemoryIsTyped /\ CallIsTyped /\ CountersAreTyped /\ ScreenIsTyped
  /\ ListEnds /\ ListIsFilled /\ CallIsAt /\ AllAccountedFor /\ RegistersAreRight

\* Two structures that will toggle together.
Alike(a, b) ==
  /\ mem[a].on_length = mem[b].on_length /\ mem[a].off_length = mem[b].off_length
  /\ mem[a].countdown = mem[b].countdown /\ mem[a].status = mem[b].status

\* A sync has made its second structure unlike the ones it was like.
Midway == call.op = "sync" /\ call.pc \in {"countdown", "load", "status"} /\ call.ebx # call.edx

PairsAreAlike ==
  \A pair \in together :
    /\ pair \subseteq Allocated
    /\ (Midway /\ call.edx \in pair) \/ (\A a, b \in pair : Alike(a, b))

\* How far a sync has come.
SyncProgress ==
  call.op = "sync" =>
    /\ call.pc \in {"countdown", "load", "status"} =>
         /\ mem[call.edx].on_length = mem[call.ebx].on_length
         /\ mem[call.edx].off_length = mem[call.ebx].off_length
    /\ call.pc = "countdown" => call.ax = mem[call.ebx].countdown
    /\ call.pc \in {"load", "status"} => mem[call.edx].countdown = mem[call.ebx].countdown
    /\ call.pc = "status" => call.ax = mem[call.ebx].status

SyncInv == quiet => PairsAreAlike /\ SyncProgress

\* The countdown is what is left of the length that is running.
OnTime(a) ==
  LET due == Due(mem[a]) IN
  /\ age[a] < due
  /\ mem[a].countdown = IF due - age[a] = WORD THEN 0 ELSE due - age[a]

TimeInv ==
  /\ \A a \in Structs : ~synced[a] => OnTime(a)
  /\ call.op = "sync" /\ call.pc \in {"countdown", "load", "status"} => synced[call.edx]

IInv == ListInv /\ SyncInv /\ TimeInv

-----------------------------------------------------------------------------
(* What a step makes of the list *)

\* The list's elements, for the next state too.
LEMMA ElementsAre ==
  \A n \in Nat : \A L \in [1..n -> Structs] : Linked(L, n) => Elements = On(L, n)
<1> SUFFICES ASSUME NEW n \in Nat, NEW L \in [1..n -> Structs], Linked(L, n)
             PROVE  Elements = On(L, n)
  OBVIOUS
<1> QED
  BY PathIsTheList

\* The same after a step.
LEMMA ElementsWillBe ==
  \A n \in Nat : \A L \in [1..n -> Structs] : Linked(L, n)' => Elements' = On(L, n)
<1>1. (\A n \in Nat : \A L \in [1..n -> Structs] : Linked(L, n) => Elements = On(L, n))'
  BY ElementsAre, PTL
<1> QED
  BY <1>1 DEF On

\* A step that leaves the head and the links of the structures on the list.
LEMMA ListStays ==
  ASSUME ListEnds, mp1_list_head' = mp1_list_head,
         \A a \in Elements : mem'[a].next = mem[a].next
  PROVE  ListEnds' /\ Elements' = Elements
<1>1. PICK n \in Nat : \E L \in [1..n -> Structs] : Linked(L, n)
  BY DEF ListEnds
<1>2. PICK L \in [1..n -> Structs] : Linked(L, n)
  BY <1>1
<1>3. Elements = On(L, n)
  BY <1>2, ElementsAre
<1>4. \A i \in 1..n : mem'[L[i]].next = mem[L[i]].next
  BY <1>3 DEF On
<1>5. Linked(L, n)'
  BY <1>2, <1>4 DEF Linked
<1>6. Elements' = On(L, n)
  BY <1>5, ElementsWillBe
<1> QED
  BY <1>3, <1>5, <1>6 DEF ListEnds

\* A structure that leads to the head becomes the head.
LEMMA ListGrows ==
  ASSUME ListEnds, NEW a \in Structs \ Elements, mem[a].next = mp1_list_head,
         mp1_list_head' = a, mem' = mem
  PROVE  ListEnds' /\ Elements' = Elements \cup {a}
<1>1. PICK n \in Nat : \E L \in [1..n -> Structs] : Linked(L, n)
  BY DEF ListEnds
<1>2. PICK L \in [1..n -> Structs] : Linked(L, n)
  BY <1>1
<1>3. Elements = On(L, n)
  BY <1>2, ElementsAre
<1>4. \A i \in 1..n : L[i] # a
  BY <1>3 DEF On
<1> DEFINE m == n + 1
           K == [i \in 1..m |-> IF i = 1 THEN a ELSE L[i - 1]]
<1>5. m \in Nat /\ 1 \in 1..m /\ \A i \in 1..m : i # 1 => i - 1 \in 1..n
  OBVIOUS
<1>6. K \in [1..m -> Structs] /\ K[1] = a /\ \A i \in 1..m : i # 1 => K[i] = L[i - 1]
  BY <1>5
<1>7. Linked(K, m)'
  <2>1. \A i, j \in 1..m : K[i] = K[j] => i = j
    <3> SUFFICES ASSUME NEW i \in 1..m, NEW j \in 1..m, K[i] = K[j] PROVE i = j
      OBVIOUS
    <3> HIDE DEF K
    <3> QED
      BY <1>2, <1>4, <1>5, <1>6 DEF Linked
  <2>2. \A i \in 1..m : mem[K[i]].next = IF i = m THEN NULL ELSE K[i + 1]
    <3> TAKE i \in 1..m
    <3>1. CASE i = 1
      <4>1. mem[K[i]].next = IF n = 0 THEN NULL ELSE L[1]
        BY <1>2, <1>6, <3>1 DEF Linked
      <4>2. n # 0 => K[2] = L[1]
        BY <1>6
      <4> HIDE DEF K
      <4> QED
        BY <3>1, <4>1, <4>2
    <3>2. CASE i # 1
      <4>1. i - 1 \in 1..n /\ K[i] = L[i - 1] /\ (i # m => K[i + 1] = L[i])
        BY <1>5, <1>6, <3>2
      <4>2. mem[L[i - 1]].next = IF i - 1 = n THEN NULL ELSE L[(i - 1) + 1]
        BY <1>2, <4>1 DEF Linked
      <4>3. (i - 1) + 1 = i /\ ((i - 1 = n) <=> (i = m))
        OBVIOUS
      <4> HIDE DEF K, m
      <4> QED
        BY <4>1, <4>2, <4>3
    <3> QED
      BY <3>1, <3>2
  <2> HIDE DEF K
  <2> QED
    BY <1>5, <1>6, <2>1, <2>2 DEF Linked
<1>8. Elements' = On(K, m)
  <2> HIDE DEF K, m
  <2> QED
    BY <1>5, <1>6, <1>7, ElementsWillBe
<1>9. On(K, m) = On(L, n) \cup {a}
  <2>1. \A i \in 1..n : i + 1 \in 1..m /\ K[i + 1] = L[i]
    BY <1>6
  <2> HIDE DEF K
  <2> QED
    BY <1>5, <1>6, <2>1 DEF On
<1>10. ListEnds'
  <2> HIDE DEF K, m
  <2> QED
    BY <1>5, <1>6, <1>7 DEF ListEnds
<1> QED
  BY <1>3, <1>8, <1>9, <1>10

\* The structure before one on the list.
LEMMA BeforeIs ==
  ASSUME NEW n \in Nat, NEW L \in [1..n -> Structs], Linked(L, n), NEW k \in 1..n
  PROVE  Before(L[k]) = IF k = 1 THEN NULL ELSE L[k - 1]
<1> DEFINE N == Cardinality(Structs)
<1>1. /\ DOMAIN Path = 1..(N + 1) /\ N \in Nat /\ n <= N
      /\ \A i \in DOMAIN Path : Path[i] = IF i <= n THEN L[i] ELSE NULL
  BY PathIsTheList, LinkedIsShort
<1>2. k \in DOMAIN Path /\ Path[k] = L[k]
  BY <1>1
<1>3. \A j \in DOMAIN Path : Path[j] = L[k] => j = k
  <2> TAKE j \in DOMAIN Path
  <2> HAVE Path[j] = L[k]
  <2>1. L[k] # NULL
    BY AddressAssumption
  <2>2. j \in 1..n /\ Path[j] = L[j]
    BY <1>1, <2>1
  <2> QED
    BY <2>2 DEF Linked
<1> DEFINE here == CHOOSE j \in DOMAIN Path : Path[j] = L[k]
<1>4. here = k
  BY <1>2, <1>3
<1>5. Before(L[k]) = IF here = 1 THEN NULL ELSE Path[here - 1]
  BY DEF Before
<1>6. k # 1 => k - 1 \in DOMAIN Path /\ k - 1 <= n
  BY <1>1
<1> QED
  BY <1>1, <1>4, <1>5, <1>6

\* RemoveUnlink takes its structure, and no other, off the list.
LEMMA ListShrinks ==
  ASSUME ListEnds, MemoryIsTyped, NEW a \in Elements,
         mp1_list_head' = HeadWithout(a),
         mem' = IF Before(a) = NULL THEN mem ELSE [mem EXCEPT ![Before(a)].next = mem[a].next]
  PROVE  ListEnds' /\ Elements' = Elements \ {a}
<1>1. PICK n \in Nat : \E L \in [1..n -> Structs] : Linked(L, n)
  BY DEF ListEnds
<1>2. PICK L \in [1..n -> Structs] : Linked(L, n)
  BY <1>1
<1>3. Elements = On(L, n)
  BY <1>2, ElementsAre
<1>4. PICK k \in 1..n : a = L[k]
  BY <1>3 DEF On
<1>5. Before(a) = IF k = 1 THEN NULL ELSE L[k - 1]
  BY <1>2, <1>4, BeforeIs
<1> DEFINE m == n - 1
           K == [i \in 1..m |-> IF i < k THEN L[i] ELSE L[i + 1]]
           Skip(i) == IF i < k THEN i ELSE i + 1
<1>6. m \in Nat /\ (k # 1 => k - 1 \in 1..n)
  OBVIOUS
<1>7. \A i \in 1..m : Skip(i) \in 1..n /\ Skip(i) # k /\ K[i] = L[Skip(i)]
  OBVIOUS
<1>8. K \in [1..m -> Structs]
  OBVIOUS
<1>9. mem[a].next = IF k = n THEN NULL ELSE L[k + 1]
  BY <1>2, <1>4 DEF Linked
<1>10. \A i \in 1..n :
         mem'[L[i]].next = IF i = k - 1 THEN mem[a].next ELSE mem[L[i]].next
  <2> TAKE i \in 1..n
  <2>1. NULL \notin Structs /\ \A j \in 1..n : L[j] \in Structs
    BY AddressAssumption
  <2>2. CASE k = 1
    BY <1>5, <2>2
  <2>3. CASE k # 1
    <3>1. Before(a) = L[k - 1] /\ L[k - 1] \in Structs /\ Before(a) # NULL
      BY <1>5, <1>6, <2>1, <2>3
    <3>2. mem' = [mem EXCEPT ![L[k - 1]].next = mem[a].next]
      BY <3>1
    <3>3. i = k - 1 => mem'[L[i]].next = mem[a].next
      BY <2>1, <3>1, <3>2 DEF MemoryIsTyped, StructType
    <3>4. i # k - 1 => L[i] # L[k - 1]
      BY <1>2, <1>6, <2>3 DEF Linked
    <3>5. i # k - 1 => mem'[L[i]] = mem[L[i]]
      BY <2>1, <3>1, <3>2, <3>4 DEF MemoryIsTyped
    <3>6. CASE i = k - 1
      BY <3>3, <3>6
    <3>7. CASE i # k - 1
      <4>1. mem'[L[i]] = mem[L[i]]
        BY <3>5, <3>7
      <4>2. mem'[L[i]].next = mem[L[i]].next
        BY <4>1
      <4> QED
        BY <3>7, <4>2
    <3> QED
      BY <3>6, <3>7
  <2> QED
    BY <2>2, <2>3
<1>11. Linked(K, m)'
  <2>1. \A i, j \in 1..m : K[i] = K[j] => i = j
    <3> SUFFICES ASSUME NEW i \in 1..m, NEW j \in 1..m, K[i] = K[j] PROVE i = j
      OBVIOUS
    <3>1. Skip(i) = Skip(j)
      <4> HIDE DEF Skip, K
      <4> QED
        BY <1>2, <1>7 DEF Linked
    <3> QED
      BY <3>1
  <2>2. mp1_list_head' = IF m = 0 THEN NULL ELSE K[1]
    <3>1. CASE k = 1
      <4>1. mp1_list_head' = mem[a].next
        BY <1>5, <3>1 DEF HeadWithout
      <4>2. m # 0 => K[1] = L[2]
        BY <3>1
      <4> HIDE DEF K
      <4> QED
        BY <1>9, <3>1, <4>1, <4>2
    <3>2. CASE k # 1
      <4>1. Before(a) # NULL
        BY <1>5, <1>6, <3>2, AddressAssumption
      <4>2. mp1_list_head' = mp1_list_head
        BY <4>1 DEF HeadWithout
      <4>3. n # 0 /\ m # 0 /\ K[1] = L[1]
        BY <3>2
      <4> HIDE DEF K, m
      <4> QED
        BY <1>2, <4>2, <4>3 DEF Linked
    <3> QED
      BY <3>1, <3>2
  <2>3. \A i \in 1..m : mem'[K[i]].next = IF i = m THEN NULL ELSE K[i + 1]
    <3> TAKE i \in 1..m
    <3>1. \A j \in 1..n : mem[L[j]].next = IF j = n THEN NULL ELSE L[j + 1]
      BY <1>2 DEF Linked
    <3>2. CASE i < k - 1
      <4>1. i \in 1..n /\ i # n /\ i # k - 1 /\ i # m /\ K[i] = L[i] /\ K[i + 1] = L[i + 1]
        BY <3>2
      <4> HIDE DEF K, m
      <4> QED
        BY <1>10, <3>1, <4>1
    <3>3. CASE i = k - 1
      <4>1. i \in 1..n /\ K[i] = L[i] /\ ((i = m) <=> (k = n)) /\ (i # m => K[i + 1] = L[k + 1])
        BY <3>3
      <4> HIDE DEF K, m
      <4> QED
        BY <1>9, <1>10, <3>3, <4>1
    <3>4. CASE i > k - 1
      <4>1. /\ i + 1 \in 1..n /\ i + 1 # k - 1 /\ K[i] = L[i + 1]
            /\ ((i = m) <=> (i + 1 = n)) /\ (i # m => K[i + 1] = L[(i + 1) + 1])
        BY <3>4
      <4> HIDE DEF K, m
      <4> QED
        BY <1>10, <3>1, <4>1
    <3> QED
      BY <3>2, <3>3, <3>4
  <2> HIDE DEF K, m
  <2> QED
    BY <1>6, <1>8, <2>1, <2>2, <2>3 DEF Linked
<1>12. Elements' = On(K, m)
  <2> HIDE DEF K, m
  <2> QED
    BY <1>6, <1>8, <1>11, ElementsWillBe
<1>13. On(K, m) = On(L, n) \ {L[k]}
  <2>1. \A i \in 1..m : L[Skip(i)] \in On(L, n) /\ L[Skip(i)] # L[k]
    <3> HIDE DEF Skip, m
    <3> QED
      BY <1>2, <1>7 DEF Linked, On
  <2>2. \A i \in 1..m : K[i] = L[Skip(i)]
    BY <1>7
  <2>3. ASSUME NEW j \in 1..n, j # k PROVE \E i \in 1..m : L[j] = K[i]
    <3>1. CASE j < k
      <4>1. j \in 1..m /\ K[j] = L[j]
        BY <3>1
      <4> HIDE DEF K, m
      <4> QED
        BY <4>1
    <3>2. CASE ~(j < k)
      <4>1. j - 1 \in 1..m /\ K[j - 1] = L[j]
        BY <2>3, <3>2
      <4> HIDE DEF K, m
      <4> QED
        BY <4>1
    <3> QED
      BY <3>1, <3>2
  <2> HIDE DEF K, m, Skip
  <2> QED
    BY <2>1, <2>2, <2>3 DEF On
<1>14. ListEnds'
  <2> HIDE DEF K, m
  <2> QED
    BY <1>6, <1>8, <1>11 DEF ListEnds
<1> QED
  BY <1>3, <1>4, <1>12, <1>13, <1>14

\* A search finds a structure on the list or nothing.
LEMMA FoundIsOnTheList ==
  ASSUME ListEnds, NEW l
  PROVE  Found(l) \in Elements \cup {NULL}
<1>1. PICK n \in Nat : \E L \in [1..n -> Structs] : Linked(L, n)
  BY DEF ListEnds
<1>2. PICK L \in [1..n -> Structs] : Linked(L, n)
  BY <1>1
<1>3. DOMAIN Path = 1..(Cardinality(Structs) + 1) /\ Cardinality(Structs) \in Nat
  BY <1>2, PathIsTheList, LinkedIsShort
<1> DEFINE hits == {i \in DOMAIN Path : Path[i] # NULL /\ mem[Path[i]].location = l}
<1>4. hits \in SUBSET Nat
  BY <1>3
<1>5. ASSUME hits # {} PROVE Path[Min(hits)] \in Elements
  <2>1. Min(hits) \in hits
    <3> HIDE DEF hits
    <3> QED
      BY <1>4, <1>5, MinIsLeast
  <2> QED
    BY <2>1 DEF Elements, ToSet
<1>6. Found(l) = IF hits = {} THEN NULL ELSE Path[Min(hits)]
  BY DEF Found
<1> HIDE DEF hits
<1> QED
  BY <1>5, <1>6

\* What is on the list is a structure.
LEMMA ElementsAreStructs ==
  ASSUME ListEnds
  PROVE  Elements \subseteq Structs
BY ElementsAre DEF ListEnds, On

\* What a step keeps when it leaves the links, the locations and the marks of
\* the structures on the list.
LEMMA ListIsKept ==
  ASSUME ListInv, mp1_list_head' = mp1_list_head,
         \A a \in Elements : /\ mem'[a].next = mem[a].next
                             /\ mem'[a].live = mem[a].live
                             /\ mem'[a].location = mem[a].location
  PROVE  ListEnds' /\ Elements' = Elements /\ ListIsFilled'
<1>1. ListEnds' /\ Elements' = Elements
  BY ListStays DEF ListInv
<1> QED
  BY <1>1 DEF ListIsFilled, ListInv

-----------------------------------------------------------------------------
(* The list: every action keeps ListInv *)

\* The link, the new head and the first draw of an add.
LEMMA AddKeepsList ==
  ASSUME ListInv, AddLink \/ AddPublish \/ AddPoke
  PROVE  ListInv'
<1> DEFINE a == call.ebx
<1>1. /\ MemoryIsTyped /\ CallIsTyped /\ CountersAreTyped /\ ScreenIsTyped
      /\ ListEnds /\ ListIsFilled /\ CallIsAt /\ AllAccountedFor /\ RegistersAreRight
  BY DEF ListInv
<1>2. call.op = "add" /\ UNCHANGED <<ncalls, quiet, age, synced>>
  BY DEF AddLink, AddPublish, AddPoke, AddStep
<1>3. CountersAreTyped'
  BY <1>1, <1>2 DEF CountersAreTyped
<1>4. mp1_list_head \in Structs \cup {NULL} /\ Elements \subseteq Structs
  BY <1>1, ElementsAreStructs DEF ListEnds, Linked
<1>5. CASE AddLink
  <2>1. /\ call.pc = "link" /\ call' = [call EXCEPT !.pc = "publish"]
        /\ mem' = [mem EXCEPT ![a].next = mp1_list_head]
        /\ UNCHANGED <<mp1_list_head, screen>>
    BY <1>5 DEF AddLink, AddStep, Goto, NextOfNew
  <2>2. a \in Structs \ Elements /\ Allocated = Elements \cup {a} /\ mem[a].location \in Cells
    BY <1>1, <1>2, <2>1 DEF AllAccountedFor, HoldsOne, RegistersAreRight
  <2>3. \A b \in Structs \ {a} : mem'[b] = mem[b]
    BY <1>1, <2>1, <2>2 DEF MemoryIsTyped
  <2>4. mem'[a] = [mem[a] EXCEPT !.next = mp1_list_head]
    BY <1>1, <2>1, <2>2 DEF MemoryIsTyped
  <2>5. /\ mem'[a].next = mp1_list_head
        /\ mem'[a].live = mem[a].live /\ mem'[a].location = mem[a].location
    BY <1>1, <2>2, <2>4 DEF MemoryIsTyped, StructType
  <2>6. MemoryIsTyped' /\ ScreenIsTyped'
    BY <1>1, <1>4, <2>1, <2>2 DEF MemoryIsTyped, StructType, ScreenIsTyped
  <2>7. ListEnds' /\ Elements' = Elements /\ ListIsFilled'
    BY <1>4, <2>1, <2>2, <2>3, ListIsKept
  <2>8. Allocated' = Allocated
    BY <2>3, <2>5 DEF Allocated
  <2>9. CallIsTyped' /\ call'.op = "add" /\ call'.pc = "publish" /\ call'.ebx = a
    BY <1>1, <1>2, <2>1 DEF CallIsTyped, Operations, Places
  <2>10. CallIsAt'
    BY <2>9 DEF CallIsAt, Stages
  <2>11. AllAccountedFor'
    BY <2>2, <2>7, <2>8, <2>9 DEF AllAccountedFor, HoldsOne
  <2>12. RegistersAreRight'
    BY <2>1, <2>2, <2>5, <2>9 DEF RegistersAreRight
  <2> QED
    BY <1>3, <2>6, <2>7, <2>9, <2>10, <2>11, <2>12 DEF ListInv
<1>6. CASE AddPublish
  <2>1. /\ call.pc = "publish" /\ call' = [call EXCEPT !.pc = "poke"]
        /\ mp1_list_head' = a /\ UNCHANGED <<mem, screen>>
    BY <1>6 DEF AddPublish, AddStep, Goto
  <2>2. /\ a \in Structs \ Elements /\ Allocated = Elements \cup {a}
        /\ mem[a].location \in Cells /\ mem[a].next = mp1_list_head
    BY <1>1, <1>2, <2>1 DEF AllAccountedFor, HoldsOne, RegistersAreRight
  <2>3. ListEnds' /\ Elements' = Elements \cup {a}
    BY <1>1, <2>1, <2>2, ListGrows
  <2>4. Allocated' = Allocated
    BY <2>1 DEF Allocated
  <2>5. ListIsFilled'
    <3>1. mem[a].live
      BY <2>2 DEF Allocated
    <3> QED
      BY <1>1, <2>1, <2>2, <2>3, <3>1 DEF ListIsFilled
  <2>6. CallIsTyped' /\ call'.op = "add" /\ call'.pc = "poke" /\ call'.ebx = a
    BY <1>1, <1>2, <2>1 DEF CallIsTyped, Operations, Places
  <2>7. CallIsAt' /\ MemoryIsTyped' /\ ScreenIsTyped'
    BY <1>1, <2>1, <2>6 DEF CallIsAt, Stages, MemoryIsTyped, ScreenIsTyped
  <2>8. AllAccountedFor'
    BY <2>2, <2>3, <2>4, <2>6 DEF AllAccountedFor, HoldsOne
  <2>9. RegistersAreRight'
    BY <2>3, <2>6 DEF RegistersAreRight
  <2> QED
    BY <1>3, <2>3, <2>5, <2>6, <2>7, <2>8, <2>9 DEF ListInv
<1>7. CASE AddPoke
  <2>1. /\ call.pc = "poke" /\ call' = Idle /\ UNCHANGED <<mem, mp1_list_head>>
        /\ screen' = [screen EXCEPT ![mem[a].location] = "on"]
    BY <1>7 DEF AddPoke, AddStep, Return
  <2>2. Allocated = Elements
    BY <1>1, <1>2, <2>1 DEF AllAccountedFor, HoldsOne
  <2>3. ListEnds' /\ Elements' = Elements /\ ListIsFilled'
    BY <2>1, ListIsKept
  <2>4. Allocated' = Allocated
    BY <2>1 DEF Allocated
  <2>5. CallIsTyped' /\ CallIsAt' /\ MemoryIsTyped' /\ ScreenIsTyped'
    BY <1>1, <2>1 DEF CallIsTyped, Operations, Places, CallIsAt, MemoryIsTyped, ScreenIsTyped, Idle
  <2>6. AllAccountedFor' /\ RegistersAreRight'
    BY <2>1, <2>2, <2>3, <2>4 DEF AllAccountedFor, HoldsOne, RegistersAreRight, Idle
  <2> QED
    BY <1>3, <2>3, <2>5, <2>6 DEF ListInv
<1> QED
  BY <1>5, <1>6, <1>7

\* What a remove and a find do after their search.
LEMMA RemoveAndFindKeepList ==
  ASSUME ListInv, RemoveUnlink \/ FindCopy \/ Free
  PROVE  ListInv'
<1> DEFINE a == call.ebx
<1>1. /\ MemoryIsTyped /\ CallIsTyped /\ CountersAreTyped /\ ScreenIsTyped
      /\ ListEnds /\ ListIsFilled /\ CallIsAt /\ AllAccountedFor /\ RegistersAreRight
  BY DEF ListInv
<1>2. Elements \subseteq Structs /\ NULL \notin Structs
  BY <1>1, ElementsAreStructs, AddressAssumption
<1>3. CASE RemoveUnlink
  <2>1. /\ call.op = "remove" /\ call.pc = "unlink" /\ call' = [call EXCEPT !.pc = "free"]
        /\ mp1_list_head' = HeadWithout(a)
        /\ mem' = IF Before(a) = NULL THEN mem ELSE [mem EXCEPT ![Before(a)].next = mem[a].next]
        /\ UNCHANGED <<screen, ncalls, quiet, age, synced>>
    BY <1>3 DEF RemoveUnlink, Goto
  <2>2. a \in Elements /\ Allocated = Elements
    BY <1>1, <2>1 DEF AllAccountedFor, HoldsOne, RegistersAreRight
  <2>3. ListEnds' /\ Elements' = Elements \ {a}
    BY <1>1, <2>1, <2>2, ListShrinks
  <2>4. mem[a].next \in Structs \cup {NULL}
    BY <1>1, <1>2, <2>2 DEF MemoryIsTyped, StructType
  <2>5. MemoryIsTyped' /\ \A b \in Structs : mem'[b].live = mem[b].live
                                             /\ mem'[b].location = mem[b].location
    <3>1. CASE Before(a) = NULL
      BY <1>1, <2>1, <3>1 DEF MemoryIsTyped
    <3>2. CASE Before(a) # NULL
      <4> DEFINE c == Before(a)
      <4>1. mem' = [mem EXCEPT ![c].next = mem[a].next]
        BY <2>1, <3>2
      <4> HIDE DEF c
      <4>2. mem' \in [Structs -> StructType]
        BY <1>1, <2>4, <4>1 DEF MemoryIsTyped, StructType
      <4>3. \A b \in Structs : /\ mem'[b].live = mem[b].live
                               /\ mem'[b].location = mem[b].location
        <5> TAKE b \in Structs
        <5>1. mem'[b] = mem[b] \/ mem'[b] = [mem[b] EXCEPT !.next = mem[a].next]
          BY <1>1, <4>1 DEF MemoryIsTyped
        <5>2. mem[b] \in StructType
          BY <1>1 DEF MemoryIsTyped
        <5> QED
          BY <5>1, <5>2 DEF StructType
      <4> QED
        BY <4>2, <4>3 DEF MemoryIsTyped
    <3> QED
      BY <3>1, <3>2
  <2>6. Allocated' = Allocated
    BY <2>5 DEF Allocated
  <2>7. ListIsFilled'
    BY <1>1, <1>2, <2>3, <2>5 DEF ListIsFilled
  <2>8. CallIsTyped' /\ call'.op = "remove" /\ call'.pc = "free" /\ call'.ebx = a
    BY <1>1, <2>1 DEF CallIsTyped, Operations, Places
  <2>9. CallIsAt' /\ ScreenIsTyped' /\ CountersAreTyped'
    BY <1>1, <2>1, <2>8 DEF CallIsAt, Stages, ScreenIsTyped, CountersAreTyped
  <2>10. AllAccountedFor' /\ RegistersAreRight'
    BY <1>2, <2>2, <2>3, <2>6, <2>8 DEF AllAccountedFor, HoldsOne, RegistersAreRight
  <2> QED
    BY <2>3, <2>5, <2>7, <2>8, <2>9, <2>10 DEF ListInv
<1>4. CASE FindCopy
  <2>1. /\ call.op = "find" /\ call.pc = "copy" /\ call' = [call EXCEPT !.pc = "free"]
        /\ UNCHANGED <<mem, mp1_list_head, screen, ncalls, quiet, age, synced>>
    BY <1>4 DEF FindCopy, Goto
  <2>2. ListEnds' /\ Elements' = Elements /\ ListIsFilled'
    BY <2>1, ListIsKept
  <2>3. Allocated' = Allocated
    BY <2>1 DEF Allocated
  <2>4. CallIsTyped' /\ call'.op = "find" /\ call'.pc = "free" /\ call'.ebx = a
    BY <1>1, <2>1 DEF CallIsTyped, Operations, Places
  <2>5. CallIsAt' /\ MemoryIsTyped' /\ ScreenIsTyped' /\ CountersAreTyped'
    BY <1>1, <2>1, <2>4 DEF CallIsAt, Stages, MemoryIsTyped, ScreenIsTyped, CountersAreTyped
  <2>6. AllAccountedFor' /\ RegistersAreRight'
    BY <1>1, <2>1, <2>2, <2>3, <2>4 DEF AllAccountedFor, HoldsOne, RegistersAreRight
  <2> QED
    BY <2>2, <2>4, <2>5, <2>6 DEF ListInv
<1>5. CASE Free
  <2>1. /\ call.pc = "free" /\ call' = Idle /\ mem' = [mem EXCEPT ![a] = Dead]
        /\ age' = [age EXCEPT ![a] = 0] /\ synced' = [synced EXCEPT ![a] = FALSE]
        /\ UNCHANGED <<mp1_list_head, screen, ncalls, quiet>>
    BY <1>5 DEF Free, Freed, Return
  <2>2. call.op \in {"add", "remove", "find"}
    BY <1>1, <2>1 DEF CallIsAt, Stages, Idle
  <2>3. a \in Structs \ Elements /\ Allocated = Elements \cup {a}
    BY <1>1, <2>1, <2>2 DEF AllAccountedFor, HoldsOne
  <2>4. \A b \in Structs : mem'[b] = IF b = a THEN Dead ELSE mem[b]
    BY <1>1, <2>1 DEF MemoryIsTyped
  <2>5. Dead \in StructType /\ Dead.live = FALSE
    BY NumbersAssumption DEF Dead, StructType
  <2>6. MemoryIsTyped'
    BY <1>1, <2>1, <2>5 DEF MemoryIsTyped
  <2>7. ListEnds' /\ Elements' = Elements /\ ListIsFilled'
    BY <1>2, <2>1, <2>3, <2>4, ListIsKept
  <2>8. Allocated' = Elements
    BY <1>2, <2>3, <2>4, <2>5 DEF Allocated
  <2>9. CallIsTyped' /\ CallIsAt' /\ ScreenIsTyped' /\ CountersAreTyped'
    BY <1>1, <2>1 DEF CallIsTyped, Operations, Places, CallIsAt, ScreenIsTyped, CountersAreTyped, Idle
  <2>10. AllAccountedFor' /\ RegistersAreRight'
    BY <2>1, <2>7, <2>8 DEF AllAccountedFor, HoldsOne, RegistersAreRight, Idle
  <2> QED
    BY <2>6, <2>7, <2>9, <2>10 DEF ListInv
<1> QED
  BY <1>3, <1>4, <1>5

SyncSteps == \/ SyncLengths \/ SyncCountdown \/ SyncLoadStatus \/ SyncStatus
             \/ SyncCharacter \/ SyncPoke

\* A sync writes the timing of its second structure and nothing else.
LEMMA SyncWritesTiming ==
  ASSUME ListInv, SyncSteps
  PROVE  /\ MemoryIsTyped' /\ call.edx \in Elements /\ call.ebx \in Elements
         /\ \A c \in Structs : /\ mem'[c].next = mem[c].next
                               /\ mem'[c].live = mem[c].live
                               /\ mem'[c].location = mem[c].location
                               /\ c # call.edx => mem'[c] = mem[c]
<1> DEFINE b == call.edx
<1>1. MemoryIsTyped /\ CallIsTyped /\ ListEnds /\ RegistersAreRight /\ Elements \subseteq Structs
  BY ElementsAreStructs DEF ListInv
<1>2. call.op = "sync"
  BY DEF SyncSteps, SyncLengths, SyncCountdown, SyncLoadStatus, SyncStatus, SyncCharacter,
         SyncPoke, SyncStep
<1>3. b \in Elements /\ call.ebx \in Elements /\ b \in Structs /\ call.ebx \in Structs
  BY <1>1, <1>2 DEF RegistersAreRight
<1>4. mem[b] \in StructType /\ mem[call.ebx] \in StructType
  BY <1>1, <1>3 DEF MemoryIsTyped
<1>5. \/ UNCHANGED mem
      \/ /\ mem' = [mem EXCEPT ![b] = [@ EXCEPT !.on_length = mem[call.ebx].on_length,
                                                !.off_length = mem[call.ebx].off_length]]
      \/ /\ mem' = [mem EXCEPT ![b].countdown = call.ax] /\ call.ax \in 0..(WORD - 1)
      \/ /\ mem' = [mem EXCEPT ![b].status = call.ax] /\ call.ax \in {0, 1}
  BY <1>1, <1>2 DEF SyncSteps, SyncLengths, SyncCountdown, SyncLoadStatus, SyncStatus,
         SyncCharacter, SyncPoke, SyncStep, StatusOfSynced, RegistersAreRight
<1>6. CASE UNCHANGED mem
  BY <1>1, <1>3, <1>6 DEF MemoryIsTyped
<1>7. CASE mem' = [mem EXCEPT ![b] = [@ EXCEPT !.on_length = mem[call.ebx].on_length,
                                               !.off_length = mem[call.ebx].off_length]]
  <2> DEFINE s == [mem[b] EXCEPT !.on_length = mem[call.ebx].on_length,
                                 !.off_length = mem[call.ebx].off_length]
  <2>1. s \in StructType /\ s.next = mem[b].next /\ s.live = mem[b].live
        /\ s.location = mem[b].location
    BY <1>4 DEF StructType
  <2>2. mem' = [mem EXCEPT ![b] = s]
    BY <1>7
  <2> HIDE DEF s
  <2> QED
    BY <1>1, <1>3, <2>1, <2>2 DEF MemoryIsTyped
<1>8. CASE mem' = [mem EXCEPT ![b].countdown = call.ax] /\ call.ax \in 0..(WORD - 1)
  BY <1>1, <1>3, <1>8 DEF MemoryIsTyped, StructType
<1>9. CASE mem' = [mem EXCEPT ![b].status = call.ax] /\ call.ax \in {0, 1}
  BY <1>1, <1>3, <1>9 DEF MemoryIsTyped, StructType
<1> QED
  BY <1>5, <1>6, <1>7, <1>8, <1>9

\* Every access of a sync.
LEMMA SyncKeepsList ==
  ASSUME ListInv, SyncSteps
  PROVE  ListInv'
<1>1. /\ MemoryIsTyped /\ CallIsTyped /\ CountersAreTyped /\ ScreenIsTyped
      /\ ListEnds /\ ListIsFilled /\ CallIsAt /\ AllAccountedFor /\ RegistersAreRight
  BY DEF ListInv
<1>2. call.op = "sync" /\ UNCHANGED <<mp1_list_head, ncalls, quiet, age>>
  BY DEF SyncSteps, SyncLengths, SyncCountdown, SyncLoadStatus, SyncStatus, SyncCharacter,
         SyncPoke, SyncStep
<1>3. /\ MemoryIsTyped' /\ call.edx \in Elements /\ call.ebx \in Elements
      /\ \A c \in Structs : /\ mem'[c].next = mem[c].next
                            /\ mem'[c].live = mem[c].live
                            /\ mem'[c].location = mem[c].location
  BY SyncWritesTiming
<1>4. Elements \subseteq Structs /\ call.ebx \in Structs /\ call.edx \in Structs
  BY <1>1, <1>3, ElementsAreStructs
<1>5. ListEnds' /\ Elements' = Elements /\ ListIsFilled'
  BY <1>2, <1>3, <1>4, ListIsKept
<1>6. Allocated' = Allocated
  BY <1>3 DEF Allocated
<1>7. Allocated = Elements
  BY <1>1, <1>2 DEF AllAccountedFor, HoldsOne
<1>8. CountersAreTyped'
  <2>1. UNCHANGED synced \/ synced' = [synced EXCEPT ![call.edx] = TRUE]
    BY DEF SyncSteps, SyncLengths, SyncCountdown, SyncLoadStatus, SyncStatus, SyncCharacter,
           SyncPoke
  <2>2. synced' \in [Structs -> BOOLEAN]
    BY <1>1, <2>1 DEF CountersAreTyped
  <2> QED
    BY <1>1, <1>2, <2>2 DEF CountersAreTyped
<1>9. ScreenIsTyped'
  <2>1. CASE UNCHANGED screen
    BY <1>1, <2>1 DEF ScreenIsTyped
  <2>2. CASE SyncPoke
    <3> DEFINE l == mem[call.edx].location
               c == Character([mem[call.edx] EXCEPT !.status = call.ax])
    <3>1. screen' = [screen EXCEPT ![l] = c] /\ c \in {"on", "off"}
      BY <2>2 DEF SyncPoke, Character
    <3> HIDE DEF l, c
    <3> QED
      BY <1>1, <3>1 DEF ScreenIsTyped
  <2> QED
    BY <2>1, <2>2 DEF SyncSteps, SyncLengths, SyncCountdown, SyncLoadStatus, SyncStatus,
                      SyncCharacter
<1>10. \/ call' = Idle
       \/ /\ CallIsTyped' /\ call'.op = "sync" /\ call'.ebx = call.ebx /\ call'.edx = call.edx
          /\ \/ call'.pc = "countdown" /\ call'.ax \in 0..(WORD - 1)
             \/ call'.pc = "status" /\ call'.ax \in {0, 1}
             \/ call'.pc \in {"load", "character", "poke"}
  <2>1. mem[call.ebx] \in StructType /\ mem[call.edx] \in StructType
    BY <1>1, <1>4 DEF MemoryIsTyped
  <2>2. \/ call' = Idle
        \/ \E pc \in {"load", "character"} : call' = [call EXCEPT !.pc = pc]
        \/ call' = [call EXCEPT !.pc = "countdown", !.ax = mem[call.ebx].countdown]
        \/ call' = [call EXCEPT !.pc = "status", !.ax = mem[call.ebx].status]
        \/ call' = [call EXCEPT !.pc = "poke", !.ax = mem[call.edx].status]
    BY DEF SyncSteps, SyncLengths, SyncCountdown, SyncLoadStatus, SyncStatus, SyncCharacter,
           SyncPoke, Goto, Return
  <2>3. /\ mem[call.ebx].countdown \in 0..(WORD - 1) /\ mem[call.ebx].countdown \in Nat
        /\ mem[call.ebx].status \in {0, 1} /\ mem[call.edx].status \in {0, 1}
    BY <2>1, NumbersAssumption DEF StructType
  <2>4. CASE \E pc \in {"load", "character"} : call' = [call EXCEPT !.pc = pc]
    BY <1>1, <1>2, <2>4 DEF CallIsTyped, Operations, Places
  <2>5. ASSUME NEW pc \in {"countdown", "status", "poke"}, NEW x \in Nat,
               call' = [call EXCEPT !.pc = pc, !.ax = x]
        PROVE  /\ CallIsTyped' /\ call'.op = "sync" /\ call'.ebx = call.ebx
               /\ call'.edx = call.edx /\ call'.pc = pc /\ call'.ax = x
    BY <1>1, <1>2, <2>5 DEF CallIsTyped, Operations, Places
  <2>6. CASE call' = [call EXCEPT !.pc = "countdown", !.ax = mem[call.ebx].countdown]
    BY <2>3, <2>5, <2>6
  <2>7. CASE call' = [call EXCEPT !.pc = "status", !.ax = mem[call.ebx].status]
    BY <2>3, <2>5, <2>7
  <2>8. CASE call' = [call EXCEPT !.pc = "poke", !.ax = mem[call.edx].status]
    BY <2>3, <2>5, <2>8
  <2> QED
    BY <2>2, <2>4, <2>6, <2>7, <2>8
<1>11. CallIsTyped' /\ CallIsAt'
  BY <1>10 DEF CallIsAt, Stages, CallIsTyped, Operations, Places, Idle
<1>12. AllAccountedFor' /\ RegistersAreRight'
  BY <1>3, <1>5, <1>6, <1>7, <1>10 DEF AllAccountedFor, HoldsOne, RegistersAreRight, Idle
<1> QED
  BY <1>3, <1>5, <1>8, <1>9, <1>11, <1>12 DEF ListInv

-----------------------------------------------------------------------------
(* One tick of a structure *)

\* decw.
LEMMA CountDown ==
  ASSUME NEW c \in 0..(WORD - 1)
  PROVE  (c - 1) % WORD = IF c = 0 THEN WORD - 1 ELSE c - 1
<1>1. WORD \in Nat /\ WORD > 0
  BY NumbersAssumption
<1>2. CASE c = 0
  <2>1. (c - 1) % WORD = WORD - 1
    BY <1>1, <1>2
  <2> QED
    BY <1>2, <2>1
<1>3. CASE c # 0
  <2>1. (c - 1) % WORD = c - 1
    BY <1>1, <1>3
  <2> QED
    BY <1>3, <2>1
<1> QED
  BY <1>2, <1>3

\* A tick: the countdown goes down, and at 0 the other length begins.
LEMMA TickIs ==
  ASSUME NEW s \in StructType
  PROVE  /\ Ticked(s) \in StructType
         /\ Ticked(s).next = s.next /\ Ticked(s).live = s.live
         /\ Ticked(s).location = s.location
         /\ Ticked(s).on_length = s.on_length /\ Ticked(s).off_length = s.off_length
         /\ Toggles(s) <=> (IF s.countdown = 0 THEN WORD - 1 ELSE s.countdown - 1) = 0
         /\ ~Toggles(s) => /\ Ticked(s).status = s.status
                           /\ Ticked(s).countdown = IF s.countdown = 0 THEN WORD - 1
                                                    ELSE s.countdown - 1
         /\ Toggles(s) =>
              /\ Ticked(s).status = 1 - s.status
              /\ Ticked(s).countdown = IF s.status = 0 THEN s.on_length ELSE s.off_length
<1> DEFINE c == (s.countdown - 1) % WORD
<1>1. s.countdown \in 0..(WORD - 1)
  BY DEF StructType
<1>2. c = IF s.countdown = 0 THEN WORD - 1 ELSE s.countdown - 1
  BY <1>1, CountDown
<1>3. c \in 0..(WORD - 1)
  <2> HIDE DEF c
  <2> QED
    BY <1>1, <1>2, NumbersAssumption
<1>4. Counted(s) = [s EXCEPT !.countdown = c]
  BY DEF Counted
<1> HIDE DEF c
<1>5. /\ Counted(s) \in StructType /\ Counted(s).countdown = c
      /\ Counted(s).next = s.next /\ Counted(s).live = s.live
      /\ Counted(s).location = s.location /\ Counted(s).status = s.status
      /\ Counted(s).on_length = s.on_length /\ Counted(s).off_length = s.off_length
  BY <1>3, <1>4 DEF StructType
<1>6. CASE c = 0
  <2>1. Ticked(s) = Rearmed(Counted(s)) /\ Toggles(s)
    BY <1>5, <1>6 DEF Ticked, Toggles
  <2>2. s.status \in {0, 1}
    BY DEF StructType
  <2>3. CASE s.status = 0
    <3>1. Ticked(s) = [Counted(s) EXCEPT !.status = 1, !.countdown = s.on_length]
      BY <1>5, <2>1, <2>3 DEF Rearmed
    <3>2. /\ Ticked(s) \in StructType
          /\ Ticked(s).next = s.next /\ Ticked(s).live = s.live
          /\ Ticked(s).location = s.location
          /\ Ticked(s).on_length = s.on_length /\ Ticked(s).off_length = s.off_length
          /\ Ticked(s).status = 1 /\ Ticked(s).countdown = s.on_length
      BY <1>5, <3>1 DEF StructType
    <3> QED
      BY <1>2, <1>6, <2>1, <2>3, <3>2
  <2>4. CASE s.status = 1
    <3>1. Ticked(s) = [Counted(s) EXCEPT !.status = 0, !.countdown = s.off_length]
      BY <1>5, <2>1, <2>4 DEF Rearmed
    <3>2. /\ Ticked(s) \in StructType
          /\ Ticked(s).next = s.next /\ Ticked(s).live = s.live
          /\ Ticked(s).location = s.location
          /\ Ticked(s).on_length = s.on_length /\ Ticked(s).off_length = s.off_length
          /\ Ticked(s).status = 0 /\ Ticked(s).countdown = s.off_length
      BY <1>5, <3>1 DEF StructType
    <3> QED
      BY <1>2, <1>6, <2>1, <2>4, <3>2
  <2> QED
    BY <2>2, <2>3, <2>4
<1>7. CASE c # 0
  <2>1. Ticked(s) = Counted(s) /\ ~Toggles(s)
    BY <1>5, <1>7 DEF Ticked, Toggles
  <2> QED
    BY <1>2, <1>5, <1>7, <2>1
<1> QED
  BY <1>6, <1>7

\* A tick moves no structure and links none.
LEMMA TaskletKeepsList ==
  ASSUME ListInv, mp1_rtc_tasklet
  PROVE  ListInv'
<1>1. /\ MemoryIsTyped /\ CallIsTyped /\ CountersAreTyped /\ ScreenIsTyped
      /\ ListEnds /\ ListIsFilled /\ CallIsAt /\ AllAccountedFor /\ RegistersAreRight
  BY DEF ListInv
<1>2. /\ mem' = [a \in Structs |-> IF a \in Elements THEN Ticked(mem[a]) ELSE mem[a]]
      /\ screen' = [l \in Cells |-> Drawn(l)]
      /\ age' = [a \in Structs |-> IF a \notin Elements THEN age[a]
                                   ELSE IF Toggles(mem[a]) THEN 0 ELSE age[a] + 1]
      /\ UNCHANGED <<mp1_list_head, call, ncalls, quiet, synced>>
  BY DEF mp1_rtc_tasklet
<1>3. Elements \subseteq Structs
  BY <1>1, ElementsAreStructs
<1>4. \A a \in Structs : /\ mem'[a] \in StructType /\ mem'[a].next = mem[a].next
                         /\ mem'[a].live = mem[a].live /\ mem'[a].location = mem[a].location
  <2> TAKE a \in Structs
  <2>1. mem[a] \in StructType
    BY <1>1 DEF MemoryIsTyped
  <2>2. mem'[a] = IF a \in Elements THEN Ticked(mem[a]) ELSE mem[a]
    BY <1>2
  <2> QED
    BY <2>1, <2>2, TickIs
<1>5. MemoryIsTyped'
  BY <1>2, <1>4 DEF MemoryIsTyped
<1>6. ListEnds' /\ Elements' = Elements /\ ListIsFilled'
  BY <1>2, <1>3, <1>4, ListIsKept
<1>7. Allocated' = Allocated
  BY <1>4 DEF Allocated
<1>8. CallIsTyped' /\ CallIsAt'
  BY <1>1, <1>2 DEF CallIsTyped, CallIsAt
<1>9. CountersAreTyped'
  BY <1>1, <1>2 DEF CountersAreTyped
<1>10. ScreenIsTyped'
  <2>1. ASSUME NEW l \in Cells PROVE Drawn(l) \in {"on", "off"}
    <3>1. screen[l] \in {"on", "off"}
      BY <1>1 DEF ScreenIsTyped
    <3> QED
      BY <3>1 DEF Drawn, Character
  <2> QED
    BY <1>2, <2>1 DEF ScreenIsTyped
<1>11. AllAccountedFor'
  BY <1>1, <1>2, <1>6, <1>7 DEF AllAccountedFor, HoldsOne
<1>12. RegistersAreRight'
  <2>1. call.op = "add" /\ call.pc \in {"link", "publish"} => call.ebx \in Structs
    BY <1>1 DEF AllAccountedFor, HoldsOne, CallIsAt, Stages, Idle
  <2>2. call.op = "add" /\ call.pc \in {"link", "publish"} => mem'[call.ebx].location \in Cells
    BY <1>1, <1>4, <2>1 DEF RegistersAreRight
  <2>3. call.op = "add" /\ call.pc = "publish" => mem'[call.ebx].next = mp1_list_head
    BY <1>1, <1>4, <2>1 DEF RegistersAreRight
  <2> QED
    BY <1>1, <1>2, <1>6, <2>2, <2>3 DEF RegistersAreRight
<1> QED
  BY <1>5, <1>6, <1>8, <1>9, <1>10, <1>11, <1>12 DEF ListInv

-----------------------------------------------------------------------------
(* The list: a new ioctl, and a whole step *)

\* What Start makes of the registers.
LEMMA StartIs ==
  ASSUME NEW op \in Operations, NEW pc \in Places, NEW a \in Structs \cup {NULL},
         NEW b \in Structs \cup {NULL}, Start(op, pc, a, b), CountersAreTyped
  PROVE  /\ call = Idle /\ ncalls' \in Nat /\ CallIsTyped'
         /\ call'.op = op /\ call'.pc = pc /\ call'.ebx = a /\ call'.edx = b
<1>1. call = Idle /\ ncalls \in Nat /\ ncalls > 0 /\ ncalls' = ncalls - 1
  BY DEF Start, CountersAreTyped
<1>2. call' = [op |-> op, pc |-> pc, ebx |-> a, edx |-> b, ax |-> 0]
  BY DEF Start, Idle
<1>3. CallIsTyped'
  BY <1>2 DEF CallIsTyped
<1> QED
  BY <1>1, <1>2, <1>3

\* An add fills a structure that is not on the list.
LEMMA NewAddKeepsList ==
  ASSUME ListInv, NEW l \in Cells, NEW length \in Lengths, mp1_ioctl_add(l, length)
  PROVE  ListInv'
<1>1. /\ MemoryIsTyped /\ CountersAreTyped /\ ScreenIsTyped
      /\ ListEnds /\ ListIsFilled /\ AllAccountedFor
  BY DEF ListInv
<1>2. PICK a \in Structs, next \in {NULL, Min(Structs)} :
        /\ Fresh(a) /\ Start("add", "link", a, NULL)
        /\ mem' = [mem EXCEPT ![a] = [location |-> l, on_length |-> length[1],
                                      off_length |-> length[2], countdown |-> length[1],
                                      status |-> 1, next |-> next, live |-> TRUE]]
        /\ age' = [age EXCEPT ![a] = 0]
        /\ synced' = [synced EXCEPT ![a] = FALSE]
        /\ UNCHANGED <<mp1_list_head, screen, quiet>>
  BY DEF mp1_ioctl_add
<1>3. /\ call = Idle /\ ncalls' \in Nat /\ CallIsTyped'
      /\ call'.op = "add" /\ call'.pc = "link" /\ call'.ebx = a
  BY <1>1, <1>2, StartIs DEF Operations, Places
<1> DEFINE s == [location |-> l, on_length |-> length[1], off_length |-> length[2],
                 countdown |-> length[1], status |-> 1, next |-> next, live |-> TRUE]
<1>4. s \in StructType /\ s.live /\ s.location = l
  <2>1. Structs \in SUBSET Nat /\ Structs # {}
    BY AddressAssumption
  <2>2. Min(Structs) \in Structs
    BY <2>1, MinIsLeast
  <2>3. next \in Structs \cup {NULL}
    BY <2>2
  <2>4. length[1] \in 0..(WORD - 1) /\ length[2] \in 0..(WORD - 1)
    BY NumbersAssumption
  <2> QED
    BY <2>3, <2>4 DEF StructType
<1>5. mem' = [mem EXCEPT ![a] = s]
  BY <1>2
<1> HIDE DEF s
<1>6. Allocated = Elements /\ Elements \subseteq Structs
  BY <1>1, <1>3, ElementsAreStructs DEF AllAccountedFor, HoldsOne, Idle
<1>7. a \notin Elements
  BY <1>2, <1>6 DEF Fresh
<1>8. \A b \in Structs : mem'[b] = IF b = a THEN s ELSE mem[b]
  BY <1>1, <1>5 DEF MemoryIsTyped
<1>9. MemoryIsTyped'
  BY <1>1, <1>4, <1>5 DEF MemoryIsTyped
<1>10. ListEnds' /\ Elements' = Elements /\ ListIsFilled'
  BY <1>2, <1>6, <1>7, <1>8, ListIsKept
<1>11. Allocated' = Elements \cup {a}
  BY <1>4, <1>6, <1>8 DEF Allocated
<1>12. CountersAreTyped' /\ ScreenIsTyped'
  BY <1>1, <1>2, <1>3 DEF CountersAreTyped, ScreenIsTyped
<1>13. CallIsAt'
  BY <1>3 DEF CallIsAt, Stages
<1>14. AllAccountedFor' /\ RegistersAreRight'
  BY <1>3, <1>4, <1>7, <1>8, <1>10, <1>11 DEF AllAccountedFor, HoldsOne, RegistersAreRight
<1> QED
  BY <1>3, <1>9, <1>10, <1>12, <1>13, <1>14 DEF ListInv

\* A find, or an add that fails.
TakesOne == AddFails \/ \E l \in Cells \cup {Outside} : mp1_ioctl_find(l)

LEMMA TakesOneIs ==
  ASSUME TakesOne
  PROVE  \E stage \in {<<"find", "copy">>, <<"find", "free">>, <<"add", "free">>},
            l \in Cells \cup {Outside} : Takes(stage[1], stage[2], l)
<1>1. CASE AddFails
  <2>1. Outside \in Cells \cup {Outside} /\ Takes(<<"add", "free">>[1], <<"add", "free">>[2], Outside)
    BY <1>1 DEF AddFails
  <2> QED
    BY <2>1, Zenon
<1>2. ASSUME NEW l \in Cells \cup {Outside}, mp1_ioctl_find(l)
      PROVE  \E stage \in {<<"find", "copy">>, <<"find", "free">>} : Takes(stage[1], stage[2], l)
  <2>1. \/ Takes(<<"find", "copy">>[1], <<"find", "copy">>[2], l)
        \/ Takes(<<"find", "free">>[1], <<"find", "free">>[2], l)
    BY <1>2 DEF mp1_ioctl_find
  <2> QED
    BY <2>1, Zenon
<1> QED
  BY <1>1, <1>2, Zenon DEF TakesOne

\* Either copies its argument to a structure that is not on the list.
LEMMA TakesKeepsList ==
  ASSUME ListInv, NEW l \in Cells \cup {Outside},
         NEW stage \in {<<"find", "copy">>, <<"find", "free">>, <<"add", "free">>},
         Takes(stage[1], stage[2], l)
  PROVE  ListInv'
<1>1. /\ MemoryIsTyped /\ CountersAreTyped /\ ScreenIsTyped
      /\ ListEnds /\ ListIsFilled /\ AllAccountedFor
  BY DEF ListInv
<1> DEFINE op == stage[1]
           pc == stage[2]
<1>2. PICK a \in Structs :
        /\ Fresh(a) /\ Start(op, pc, a, NULL)
        /\ mem' = [mem EXCEPT ![a] = [@ EXCEPT !.live = TRUE, !.location = l]]
        /\ UNCHANGED <<mp1_list_head, screen, quiet, age, synced>>
  BY DEF Takes
<1>3. \/ op = "find" /\ pc \in {"copy", "free"}
      \/ op = "add" /\ pc = "free"
  OBVIOUS
<1> HIDE DEF op, pc
<1>4. /\ call = Idle /\ ncalls' \in Nat /\ CallIsTyped'
      /\ call'.op = op /\ call'.pc = pc /\ call'.ebx = a
  BY <1>1, <1>2, <1>3, StartIs DEF Operations, Places
<1> DEFINE s == [mem[a] EXCEPT !.live = TRUE, !.location = l]
<1>5. s \in StructType /\ s.live
  BY <1>1 DEF StructType, MemoryIsTyped
<1>6. mem' = [mem EXCEPT ![a] = s]
  BY <1>2
<1> HIDE DEF s
<1>7. Allocated = Elements /\ Elements \subseteq Structs
  BY <1>1, <1>4, ElementsAreStructs DEF AllAccountedFor, HoldsOne, Idle
<1>8. a \notin Elements
  BY <1>2, <1>7 DEF Fresh
<1>9. \A b \in Structs : mem'[b] = IF b = a THEN s ELSE mem[b]
  BY <1>1, <1>6 DEF MemoryIsTyped
<1>10. MemoryIsTyped'
  BY <1>1, <1>5, <1>6 DEF MemoryIsTyped
<1>11. ListEnds' /\ Elements' = Elements /\ ListIsFilled'
  BY <1>2, <1>7, <1>8, <1>9, ListIsKept
<1>12. Allocated' = Elements \cup {a}
  BY <1>5, <1>7, <1>9 DEF Allocated
<1>13. CountersAreTyped' /\ ScreenIsTyped'
  BY <1>1, <1>2, <1>4 DEF CountersAreTyped, ScreenIsTyped
<1>14. CallIsAt'
  BY <1>3, <1>4 DEF CallIsAt, Stages
<1>15. AllAccountedFor' /\ RegistersAreRight'
  BY <1>3, <1>4, <1>8, <1>11, <1>12 DEF AllAccountedFor, HoldsOne, RegistersAreRight
<1> QED
  BY <1>4, <1>10, <1>11, <1>13, <1>14, <1>15 DEF ListInv

\* A remove and a sync begin with structures that are on the list.
LEMMA NewRemoveOrSyncKeepsList ==
  ASSUME ListInv,
         \/ \E l \in Cells : mp1_ioctl_remove(l)
         \/ \E l1, l2 \in Cells : mp1_ioctl_sync(l1, l2)
  PROVE  /\ ListInv' /\ call = Idle
         /\ \/ call'.op = "remove" /\ call'.pc = "unlink"
            \/ call'.op = "sync" /\ call'.pc = "lengths"
         /\ UNCHANGED <<mem, mp1_list_head, screen, quiet, together, age, synced>>
<1>1. /\ MemoryIsTyped /\ CountersAreTyped /\ ScreenIsTyped
      /\ ListEnds /\ ListIsFilled /\ AllAccountedFor
  BY DEF ListInv
<1>2. UNCHANGED <<mem, mp1_list_head, screen, quiet, together, age, synced>>
  BY DEF mp1_ioctl_remove, mp1_ioctl_sync
<1>3. Elements \subseteq Structs /\ NULL \notin Structs
  BY <1>1, ElementsAreStructs, AddressAssumption
<1>4. /\ call = Idle /\ ncalls' \in Nat /\ CallIsTyped' /\ call'.ebx \in Elements
      /\ \/ call'.op = "remove" /\ call'.pc = "unlink"
         \/ call'.op = "sync" /\ call'.pc = "lengths" /\ call'.edx \in Elements
  <2>1. CASE \E l \in Cells : mp1_ioctl_remove(l)
    <3>1. PICK l \in Cells : Start("remove", "unlink", Found(l), NULL) /\ Found(l) # NULL
      BY <2>1 DEF mp1_ioctl_remove
    <3>2. Found(l) \in Elements
      BY <1>1, <3>1, FoundIsOnTheList
    <3> QED
      BY <1>1, <1>3, <3>1, <3>2, StartIs DEF Operations, Places
  <2>2. CASE \E l1, l2 \in Cells : mp1_ioctl_sync(l1, l2)
    <3>1. PICK l1 \in Cells, l2 \in Cells :
            Start("sync", "lengths", Found(l1), Found(l2)) /\ NULL \notin {Found(l1), Found(l2)}
      BY <2>2 DEF mp1_ioctl_sync
    <3>2. Found(l1) \in Elements /\ Found(l2) \in Elements
      BY <1>1, <3>1, FoundIsOnTheList
    <3> QED
      BY <1>1, <1>3, <3>1, <3>2, StartIs DEF Operations, Places
  <2> QED
    BY <2>1, <2>2
<1>5. ListEnds' /\ Elements' = Elements /\ ListIsFilled'
  BY <1>2, ListIsKept
<1>6. Allocated' = Allocated
  BY <1>2 DEF Allocated
<1>7. MemoryIsTyped' /\ ScreenIsTyped'
  BY <1>1, <1>2 DEF MemoryIsTyped, ScreenIsTyped
<1>8. CountersAreTyped' /\ CallIsAt'
  BY <1>1, <1>2, <1>4 DEF CountersAreTyped, CallIsAt, Stages
<1>9. AllAccountedFor' /\ RegistersAreRight'
  BY <1>1, <1>4, <1>5, <1>6 DEF AllAccountedFor, HoldsOne, RegistersAreRight, Idle
<1> QED
  BY <1>2, <1>4, <1>5, <1>7, <1>8, <1>9 DEF ListInv

\* A step that changes nothing.
LEMMA NothingKeepsList ==
  ASSUME ListInv, UNCHANGED vars
  PROVE  ListInv'
<1>1. UNCHANGED <<mem, mp1_list_head, screen, call, ncalls, quiet, age, synced>>
  BY DEF vars
<1>2. ListEnds' /\ Elements' = Elements /\ ListIsFilled'
  BY <1>1, ListIsKept
<1>3. Allocated' = Allocated
  BY <1>1 DEF Allocated
<1>4. MemoryIsTyped' /\ CallIsTyped' /\ CountersAreTyped' /\ ScreenIsTyped' /\ CallIsAt'
  BY <1>1 DEF ListInv, MemoryIsTyped, CallIsTyped, CountersAreTyped, ScreenIsTyped, CallIsAt
<1>5. AllAccountedFor' /\ RegistersAreRight'
  BY <1>1, <1>2, <1>3 DEF ListInv, AllAccountedFor, HoldsOne, RegistersAreRight
<1> QED
  BY <1>2, <1>4, <1>5 DEF ListInv

\* Every step of the module.
LEMMA StepKeepsList ==
  ASSUME ListInv, [Next]_vars
  PROVE  ListInv'
<1>1. CASE mp1_rtc_tasklet
  BY <1>1, TaskletKeepsList
<1>2. CASE mp1_ioctl
  <2>1. CASE TakesOne
    BY <2>1, TakesOneIs, TakesKeepsList
  <2> QED
    BY <1>2, <2>1, NothingKeepsList, NewAddKeepsList, NewRemoveOrSyncKeepsList
       DEF mp1_ioctl, AddRefused, TakesOne
<1>3. CASE Continue
  BY <1>3, AddKeepsList, RemoveAndFindKeepList, SyncKeepsList DEF Continue, SyncSteps
<1>4. CASE UNCHANGED vars
  BY <1>4, NothingKeepsList
<1> QED
  BY <1>1, <1>2, <1>3, <1>4 DEF Next

\* At the start the list and the memory are empty.
LEMMA InitGivesList ==
  ASSUME Init
  PROVE  ListInv
<1>1. /\ mem = [a \in Structs |-> Dead] /\ mp1_list_head = NULL
      /\ screen = [l \in Cells |-> "off"] /\ call = Idle /\ quiet \in BOOLEAN
      /\ ncalls = CALLS[quiet] /\ age = [a \in Structs |-> 0]
      /\ synced = [a \in Structs |-> FALSE]
  BY DEF Init
<1>2. Dead \in StructType /\ Dead.live = FALSE
  BY NumbersAssumption DEF Dead, StructType
<1>3. MemoryIsTyped
  BY <1>1, <1>2 DEF MemoryIsTyped
<1>4. CallIsTyped /\ CallIsAt
  BY <1>1 DEF CallIsTyped, Operations, Places, CallIsAt, Idle
<1>5. CountersAreTyped /\ ScreenIsTyped
  BY <1>1, NumbersAssumption DEF CountersAreTyped, ScreenIsTyped
<1> DEFINE none == [i \in 1..0 |-> NULL]
<1>6. none \in [1..0 -> Structs] /\ Linked(none, 0)
  BY <1>1 DEF Linked
<1>7. ListEnds
  <2> HIDE DEF none
  <2> QED
    BY <1>6 DEF ListEnds
<1>8. Elements = {}
  <2>1. Elements = On(none, 0)
    <3> HIDE DEF none
    <3> QED
      BY <1>6, ElementsAre
  <2> QED
    BY <2>1 DEF On
<1>9. Allocated = {}
  BY <1>1, <1>2 DEF Allocated
<1>10. ListIsFilled /\ AllAccountedFor /\ RegistersAreRight
  BY <1>1, <1>8, <1>9 DEF ListIsFilled, AllAccountedFor, HoldsOne, RegistersAreRight, Idle
<1> QED
  BY <1>3, <1>4, <1>5, <1>7, <1>10 DEF ListInv

-----------------------------------------------------------------------------
(* Timing: what each action makes of lengths, countdowns and statuses *)

SameTiming(c) ==
  /\ mem'[c].on_length = mem[c].on_length /\ mem'[c].off_length = mem[c].off_length
  /\ mem'[c].countdown = mem[c].countdown /\ mem'[c].status = mem[c].status

\* Add, remove and find leave the timing of every structure once they run.
LEMMA LinkingLeavesTiming ==
  ASSUME ListInv, AddLink \/ AddPublish \/ AddPoke \/ RemoveUnlink \/ FindCopy
  PROVE  /\ \A c \in Structs : SameTiming(c) /\ mem'[c].live = mem[c].live
         /\ UNCHANGED <<quiet, together, age, synced>>
         /\ call.op # "sync" /\ call'.op # "sync"
<1>1. MemoryIsTyped /\ CallIsTyped
  BY DEF ListInv
<1>2. UNCHANGED <<quiet, together, age, synced>> /\ call.op # "sync"
  BY DEF AddLink, AddPublish, AddPoke, RemoveUnlink, FindCopy, AddStep
<1>3. call'.op # "sync"
  <2>1. call' = Idle \/ \E pc \in Places : call' = [call EXCEPT !.pc = pc]
    BY DEF AddLink, AddPublish, AddPoke, RemoveUnlink, FindCopy, AddStep, Goto, Return, Places
  <2> QED
    BY <1>1, <1>2, <2>1 DEF CallIsTyped, Idle
<1>4. UNCHANGED mem \/ \E a, n : mem' = [mem EXCEPT ![a].next = n]
  BY DEF AddLink, AddPublish, AddPoke, RemoveUnlink, FindCopy
<1>5. \A c \in Structs : SameTiming(c) /\ mem'[c].live = mem[c].live
  <2>1. CASE UNCHANGED mem
    BY <2>1 DEF SameTiming
  <2>2. CASE \E a, n : mem' = [mem EXCEPT ![a].next = n]
    BY <1>1, <2>2 DEF SameTiming, MemoryIsTyped, StructType
  <2> QED
    BY <1>4, <2>1, <2>2
<1> QED
  BY <1>2, <1>3, <1>5

\* Add and find begin with a structure that was not allocated.
LEMMA NewStructureIs ==
  ASSUME ListInv,
         \/ \E l \in Cells, length \in Lengths : mp1_ioctl_add(l, length)
         \/ TakesOne
  PROVE  /\ UNCHANGED <<quiet, together>> /\ call = Idle /\ call'.op # "sync"
         /\ \E a \in Structs \ Allocated :
              /\ \A c \in Structs \ {a} : /\ SameTiming(c) /\ mem'[c].live = mem[c].live
                                          /\ age'[c] = age[c] /\ synced'[c] = synced[c]
              /\ \/ SameTiming(a) /\ age'[a] = age[a] /\ synced'[a] = synced[a]
                 \/ OnTime(a)'
<1>1. MemoryIsTyped /\ CountersAreTyped
  BY DEF ListInv
<1>2. CASE \E l \in Cells, length \in Lengths : mp1_ioctl_add(l, length)
  <2>1. PICK l \in Cells, length \in Lengths : mp1_ioctl_add(l, length)
    BY <1>2
  <2>2. PICK a \in Structs, next \in {NULL, Min(Structs)} :
          /\ Fresh(a) /\ Start("add", "link", a, NULL)
          /\ mem' = [mem EXCEPT ![a] = [location |-> l, on_length |-> length[1],
                                        off_length |-> length[2], countdown |-> length[1],
                                        status |-> 1, next |-> next, live |-> TRUE]]
          /\ age' = [age EXCEPT ![a] = 0]
          /\ synced' = [synced EXCEPT ![a] = FALSE]
          /\ UNCHANGED <<quiet, together>>
    BY <2>1 DEF mp1_ioctl_add
  <2>3. call = Idle /\ call'.op # "sync"
    BY <2>2 DEF Start, Idle
  <2>4. a \in Structs \ Allocated
    BY <2>2 DEF Fresh
  <2>5. \A c \in Structs \ {a} : /\ SameTiming(c) /\ mem'[c].live = mem[c].live
                                 /\ age'[c] = age[c] /\ synced'[c] = synced[c]
    BY <1>1, <2>2 DEF SameTiming, MemoryIsTyped, CountersAreTyped
  <2>6. age'[a] = 0 /\ mem'[a].status = 1 /\ mem'[a].on_length = length[1]
        /\ mem'[a].countdown = length[1]
    BY <1>1, <2>2 DEF MemoryIsTyped, CountersAreTyped
  <2>7. length[1] \in 0..(WORD - 1) /\ WORD \in Nat \ {0}
    BY NumbersAssumption
  <2>8. OnTime(a)'
    BY <2>6, <2>7 DEF OnTime, Due
  <2> QED
    BY <2>2, <2>3, <2>4, <2>5, <2>8
<1>3. CASE TakesOne
  <2>1. PICK stage \in {<<"find", "copy">>, <<"find", "free">>, <<"add", "free">>},
             l \in Cells \cup {Outside} : Takes(stage[1], stage[2], l)
    BY <1>3, TakesOneIs
  <2> DEFINE op == stage[1]
             pc == stage[2]
  <2>2. PICK a \in Structs :
          /\ Fresh(a) /\ Start(op, pc, a, NULL)
          /\ mem' = [mem EXCEPT ![a] = [@ EXCEPT !.live = TRUE, !.location = l]]
          /\ UNCHANGED <<quiet, together, age, synced>>
    BY <2>1 DEF Takes
  <2>3. call = Idle /\ call'.op # "sync"
    <3>1. op # "sync"
      OBVIOUS
    <3> HIDE DEF op, pc
    <3> QED
      BY <2>2, <3>1 DEF Start, Idle
  <2> HIDE DEF op, pc
  <2>4. a \in Structs \ Allocated
    BY <2>2 DEF Fresh
  <2>5. \A c \in Structs \ {a} : SameTiming(c) /\ mem'[c].live = mem[c].live
    BY <1>1, <2>2 DEF SameTiming, MemoryIsTyped
  <2>6. SameTiming(a)
    <3> DEFINE s == [mem[a] EXCEPT !.live = TRUE, !.location = l]
    <3>1. mem'[a] = s
      BY <1>1, <2>2 DEF MemoryIsTyped
    <3>2. /\ s.on_length = mem[a].on_length /\ s.off_length = mem[a].off_length
          /\ s.countdown = mem[a].countdown /\ s.status = mem[a].status
      BY <1>1 DEF MemoryIsTyped, StructType
    <3> HIDE DEF s
    <3> QED
      BY <3>1, <3>2 DEF SameTiming
  <2> QED
    BY <2>2, <2>3, <2>4, <2>5, <2>6
<1> QED
  BY <1>2, <1>3

\* A structure's timing is that of OnTime if nothing of it changes.
LEMMA OnTimeStays ==
  ASSUME NEW a, SameTiming(a), age'[a] = age[a], OnTime(a)
  PROVE  OnTime(a)'
BY DEF SameTiming, OnTime, Due

\* A tick of a structure that is on time.
LEMMA TickIsOnTime ==
  ASSUME NEW s \in StructType, NEW g \in Nat, g < Due(s),
         s.countdown = IF Due(s) - g = WORD THEN 0 ELSE Due(s) - g
  PROVE  /\ Toggles(s) <=> g + 1 = Due(s)
         /\ \A h : h = (IF Toggles(s) THEN 0 ELSE g + 1) =>
              /\ h < Due(Ticked(s))
              /\ Ticked(s).countdown = IF Due(Ticked(s)) - h = WORD THEN 0
                                       ELSE Due(Ticked(s)) - h
<1>1. WORD \in Nat /\ WORD > 0
  BY NumbersAssumption
<1>2. /\ s.on_length \in 0..(WORD - 1) /\ s.off_length \in 0..(WORD - 1)
      /\ s.status \in {0, 1} /\ s.countdown \in 0..(WORD - 1)
  BY DEF StructType
<1>3. Due(s) \in 1..WORD
  BY <1>1, <1>2 DEF Due
<1> DEFINE d == Due(s)
<1> HIDE DEF d
<1>4. d \in 1..WORD /\ d = Due(s)
  BY <1>3 DEF d
<1>5. (IF s.countdown = 0 THEN WORD - 1 ELSE s.countdown - 1) = d - g - 1
  BY <1>1, <1>2, <1>4
<1>6. Toggles(s) <=> g + 1 = d
  BY <1>4, <1>5, TickIs
<1>7. CASE Toggles(s)
  <2> DEFINE length == IF s.status = 0 THEN s.on_length ELSE s.off_length
  <2>1. Ticked(s).countdown = length
    BY <1>7, TickIs
  <2>2. Due(Ticked(s)) = IF length = 0 THEN WORD ELSE length
    BY <1>2, <1>7, TickIs DEF Due
  <2>3. length \in 0..(WORD - 1)
    BY <1>2
  <2> HIDE DEF length
  <2> QED
    BY <1>1, <1>4, <1>6, <1>7, <2>1, <2>2, <2>3
<1>8. CASE ~Toggles(s)
  <2>1. Due(Ticked(s)) = d
    BY <1>4, <1>8, TickIs DEF Due
  <2>2. Ticked(s).countdown = d - g - 1
    BY <1>5, <1>8, TickIs
  <2> QED
    BY <1>1, <1>4, <1>6, <1>8, <2>1, <2>2
<1> QED
  BY <1>7, <1>8

-----------------------------------------------------------------------------
(* Timing: every step keeps TimeInv *)

\* What a sync's steps make of the timing of its second structure, and of the
\* registers.
LEMMA SyncIs ==
  ASSUME ListInv, SyncSteps
  PROVE  /\ call.op = "sync" /\ call.ebx \in Structs /\ call.edx \in Structs
         /\ UNCHANGED <<quiet, age>>
         /\ \A c \in Structs : c # call.edx => mem'[c] = mem[c] /\ synced'[c] = synced[c]
         /\ synced[call.edx] => synced'[call.edx]
         /\ \/ /\ call.pc = "lengths" /\ synced'[call.edx] /\ together' = together
               /\ mem'[call.edx].on_length = mem[call.ebx].on_length
               /\ mem'[call.edx].off_length = mem[call.ebx].off_length
               /\ mem'[call.edx].countdown = mem[call.edx].countdown
               /\ mem'[call.edx].status = mem[call.edx].status
               /\ call' = [call EXCEPT !.pc = "countdown", !.ax = mem[call.ebx].countdown]
            \/ /\ call.pc = "countdown" /\ together' = together
               /\ mem'[call.edx].on_length = mem[call.edx].on_length
               /\ mem'[call.edx].off_length = mem[call.edx].off_length
               /\ mem'[call.edx].countdown = call.ax
               /\ mem'[call.edx].status = mem[call.edx].status
               /\ call' = [call EXCEPT !.pc = "load"]
            \/ /\ call.pc = "load" /\ UNCHANGED <<mem, together>>
               /\ call' = [call EXCEPT !.pc = "status", !.ax = mem[call.ebx].status]
            \/ /\ call.pc = "status" /\ together' = PairsWith(call.ebx, call.edx)
               /\ mem'[call.edx].on_length = mem[call.edx].on_length
               /\ mem'[call.edx].off_length = mem[call.edx].off_length
               /\ mem'[call.edx].countdown = mem[call.edx].countdown
               /\ mem'[call.edx].status = call.ax
               /\ call' = [call EXCEPT !.pc = "character"]
            \/ /\ call.pc = "character" /\ UNCHANGED <<mem, together>>
               /\ call' = [call EXCEPT !.pc = "poke", !.ax = mem[call.edx].status]
            \/ /\ call.pc = "poke" /\ UNCHANGED <<mem, together>> /\ call' = Idle
<1> DEFINE b == call.edx
<1>1. MemoryIsTyped /\ CountersAreTyped /\ ListEnds
  BY DEF ListInv
<1>2. call.op = "sync" /\ UNCHANGED <<quiet, age>>
  BY DEF SyncSteps, SyncLengths, SyncCountdown, SyncLoadStatus, SyncStatus, SyncCharacter,
         SyncPoke, SyncStep
<1>3. /\ call.ebx \in Structs /\ b \in Structs
      /\ \A c \in Structs : c # b => mem'[c] = mem[c]
  BY <1>1, SyncWritesTiming, ElementsAreStructs
<1>4. mem[b] \in StructType
  BY <1>1, <1>3 DEF MemoryIsTyped
<1>5. /\ \A c \in Structs : c # b => synced'[c] = synced[c]
      /\ synced[b] => synced'[b]
      /\ SyncLengths => synced'[b]
  <2>1. UNCHANGED synced \/ synced' = [synced EXCEPT ![b] = TRUE]
    BY DEF SyncSteps, SyncLengths, SyncCountdown, SyncLoadStatus, SyncStatus, SyncCharacter,
           SyncPoke
  <2>2. SyncLengths => synced' = [synced EXCEPT ![b] = TRUE]
    BY DEF SyncLengths
  <2> QED
    BY <1>1, <1>3, <2>1, <2>2 DEF CountersAreTyped
<1>6. CASE SyncLengths
  <2> DEFINE s == [mem[b] EXCEPT !.on_length = mem[call.ebx].on_length,
                                 !.off_length = mem[call.ebx].off_length]
  <2>1. /\ s.on_length = mem[call.ebx].on_length /\ s.off_length = mem[call.ebx].off_length
        /\ s.countdown = mem[b].countdown /\ s.status = mem[b].status
    BY <1>4 DEF StructType
  <2>2. /\ call.pc = "lengths" /\ together' = together /\ mem' = [mem EXCEPT ![b] = s]
        /\ call' = [call EXCEPT !.pc = "countdown", !.ax = mem[call.ebx].countdown]
    BY <1>6 DEF SyncLengths, SyncStep
  <2> HIDE DEF s
  <2>3. mem'[b] = s
    BY <1>1, <1>3, <2>2 DEF MemoryIsTyped
  <2> QED
    BY <1>2, <1>3, <1>5, <1>6, <2>1, <2>2, <2>3
<1>7. CASE SyncCountdown
  <2>1. /\ call.pc = "countdown" /\ together' = together
        /\ mem' = [mem EXCEPT ![b].countdown = call.ax]
        /\ call' = [call EXCEPT !.pc = "load"]
    BY <1>7 DEF SyncCountdown, SyncStep, Goto
  <2>2. mem'[b] = [mem[b] EXCEPT !.countdown = call.ax]
    BY <1>1, <1>3, <2>1 DEF MemoryIsTyped
  <2>3. /\ mem'[b].on_length = mem[b].on_length /\ mem'[b].off_length = mem[b].off_length
        /\ mem'[b].countdown = call.ax /\ mem'[b].status = mem[b].status
    BY <1>4, <2>2 DEF StructType
  <2> QED
    BY <1>2, <1>3, <1>5, <2>1, <2>3
<1>8. CASE SyncStatus
  <2>1. /\ call.pc = "status" /\ together' = PairsWith(call.ebx, call.edx)
        /\ mem' = [mem EXCEPT ![b].status = call.ax]
        /\ call' = [call EXCEPT !.pc = "character"]
    BY <1>8 DEF SyncStatus, SyncStep, Goto, StatusOfSynced
  <2>2. mem'[b] = [mem[b] EXCEPT !.status = call.ax]
    BY <1>1, <1>3, <2>1 DEF MemoryIsTyped
  <2>3. /\ mem'[b].on_length = mem[b].on_length /\ mem'[b].off_length = mem[b].off_length
        /\ mem'[b].countdown = mem[b].countdown /\ mem'[b].status = call.ax
    BY <1>4, <2>2 DEF StructType
  <2> QED
    BY <1>2, <1>3, <1>5, <2>1, <2>3
<1>9. CASE SyncLoadStatus
  BY <1>2, <1>3, <1>5, <1>9 DEF SyncLoadStatus, SyncStep
<1>10. CASE SyncCharacter
  BY <1>2, <1>3, <1>5, <1>10 DEF SyncCharacter, SyncStep
<1>11. CASE SyncPoke
  BY <1>2, <1>3, <1>5, <1>11 DEF SyncPoke, SyncStep, Return
<1> QED
  BY <1>6, <1>7, <1>8, <1>9, <1>10, <1>11 DEF SyncSteps

\* A tick keeps every structure on time.
LEMMA TaskletKeepsTime ==
  ASSUME ListInv, TimeInv, mp1_rtc_tasklet
  PROVE  TimeInv'
<1>1. MemoryIsTyped /\ CountersAreTyped
  BY DEF ListInv
<1>2. /\ mem' = [a \in Structs |-> IF a \in Elements THEN Ticked(mem[a]) ELSE mem[a]]
      /\ age' = [a \in Structs |-> IF a \notin Elements THEN age[a]
                                   ELSE IF Toggles(mem[a]) THEN 0 ELSE age[a] + 1]
      /\ UNCHANGED <<call, synced>>
  BY DEF mp1_rtc_tasklet
<1>3. ASSUME NEW a \in Structs, ~synced'[a] PROVE OnTime(a)'
  <2>1. OnTime(a) /\ mem[a] \in StructType /\ age[a] \in Nat
    BY <1>1, <1>2, <1>3 DEF TimeInv, MemoryIsTyped, CountersAreTyped
  <2>2. CASE a \notin Elements
    <3>1. mem'[a] = mem[a] /\ age'[a] = age[a]
      BY <1>2, <2>2
    <3> QED
      BY <2>1, <3>1 DEF OnTime
  <2>3. CASE a \in Elements
    <3>1. /\ mem'[a] = Ticked(mem[a])
          /\ age'[a] = IF Toggles(mem[a]) THEN 0 ELSE age[a] + 1
      BY <1>2, <2>3
    <3>2. /\ age[a] < Due(mem[a])
          /\ mem[a].countdown = IF Due(mem[a]) - age[a] = WORD THEN 0
                                ELSE Due(mem[a]) - age[a]
      BY <2>1 DEF OnTime
    <3>3. /\ age'[a] < Due(Ticked(mem[a]))
          /\ Ticked(mem[a]).countdown = IF Due(Ticked(mem[a])) - age'[a] = WORD THEN 0
                                        ELSE Due(Ticked(mem[a])) - age'[a]
      BY <2>1, <3>1, <3>2, TickIsOnTime
    <3>4. Due(mem[a])' = Due(Ticked(mem[a]))
      BY <3>1 DEF Due
    <3> QED
      BY <3>1, <3>3, <3>4 DEF OnTime
  <2> QED
    BY <2>2, <2>3
<1> QED
  BY <1>2, <1>3 DEF TimeInv

\* Every access of an ioctl keeps the structures no sync set on time.
LEMMA IoctlKeepsTime ==
  ASSUME ListInv, TimeInv, mp1_ioctl \/ Continue \/ UNCHANGED vars
  PROVE  TimeInv'
<1>1. MemoryIsTyped /\ CountersAreTyped /\ CallIsTyped
  BY DEF ListInv
<1>2. CASE AddLink \/ AddPublish \/ AddPoke \/ RemoveUnlink \/ FindCopy
  <2>1. /\ \A c \in Structs : SameTiming(c)
        /\ UNCHANGED <<age, synced>> /\ call'.op # "sync"
    BY <1>2, LinkingLeavesTiming
  <2> QED
    BY <2>1, OnTimeStays DEF TimeInv
<1>3. CASE \/ \E l \in Cells, length \in Lengths : mp1_ioctl_add(l, length)
           \/ TakesOne
  <2>1. call'.op # "sync"
    BY <1>3, NewStructureIs
  <2>2. PICK a \in Structs \ Allocated :
          /\ \A c \in Structs \ {a} : SameTiming(c) /\ age'[c] = age[c] /\ synced'[c] = synced[c]
          /\ \/ SameTiming(a) /\ age'[a] = age[a] /\ synced'[a] = synced[a]
             \/ OnTime(a)'
    BY <1>3, NewStructureIs
  <2>3. ASSUME NEW c \in Structs, ~synced'[c] PROVE OnTime(c)'
    <3>1. OnTime(c)' \/ (SameTiming(c) /\ age'[c] = age[c] /\ synced'[c] = synced[c])
      BY <2>2
    <3> QED
      BY <2>3, <3>1, OnTimeStays DEF TimeInv
  <2> QED
    BY <2>1, <2>3 DEF TimeInv
<1>4. CASE \/ \E l \in Cells : mp1_ioctl_remove(l)
           \/ \E l1, l2 \in Cells : mp1_ioctl_sync(l1, l2)
  <2>1. /\ UNCHANGED <<mem, age, synced>>
        /\ call'.pc \in {"unlink", "lengths"}
    BY <1>4, NewRemoveOrSyncKeepsList
  <2> QED
    BY <2>1 DEF TimeInv, OnTime
<1>5. CASE Free
  <2> DEFINE a == call.ebx
  <2>1. /\ call' = Idle /\ mem' = [mem EXCEPT ![a] = Dead]
        /\ age' = [age EXCEPT ![a] = 0] /\ synced' = [synced EXCEPT ![a] = FALSE]
    BY <1>5 DEF Free, Freed, Return
  <2>2. ASSUME NEW c \in Structs, ~synced'[c] PROVE OnTime(c)'
    <3>1. CASE c = a
      <4>1. mem'[c] = Dead /\ age'[c] = 0
        BY <1>1, <2>1, <3>1 DEF MemoryIsTyped, CountersAreTyped
      <4> QED
        BY <4>1, NumbersAssumption DEF OnTime, Due, Dead
    <3>2. CASE c # a
      <4>1. mem'[c] = mem[c] /\ age'[c] = age[c] /\ synced'[c] = synced[c]
        BY <1>1, <2>1, <3>2 DEF MemoryIsTyped, CountersAreTyped
      <4> QED
        BY <2>2, <4>1 DEF TimeInv, OnTime
    <3> QED
      BY <3>1, <3>2
  <2> QED
    BY <2>1, <2>2 DEF TimeInv, Idle
<1>6. CASE SyncSteps
  <2> DEFINE b == call.edx
  <2>1. /\ call.op = "sync" /\ b \in Structs /\ UNCHANGED age
        /\ \A c \in Structs : c # b => mem'[c] = mem[c] /\ synced'[c] = synced[c]
        /\ synced[b] => synced'[b]
    BY <1>6, SyncIs
  <2>2. /\ SameTiming(b) \/ synced'[b]
        /\ call'.pc \in {"countdown", "load", "status"} => synced'[b]
        /\ call' = Idle \/ call'.edx = b
    <3>1. /\ call.pc \in {"countdown", "load", "status"} => synced'[b]
          /\ call.pc = "lengths" => synced'[b]
      BY <1>6, <2>1, SyncIs DEF TimeInv
    <3>2. CASE call.pc \in {"lengths", "countdown", "load", "status"}
      <4>1. synced'[b]
        BY <3>1, <3>2
      <4> QED
        BY <1>1, <1>6, <4>1, SyncIs DEF CallIsTyped
    <3>3. CASE call.pc \in {"character", "poke"}
      <4>1. UNCHANGED mem /\ (call' = Idle \/ \E x : call' = [call EXCEPT !.pc = "poke", !.ax = x])
        BY <1>6, <3>3, SyncIs
      <4>2. SameTiming(b)
        BY <4>1 DEF SameTiming
      <4>3. CASE call' = Idle
        BY <4>2, <4>3 DEF Idle
      <4>4. CASE \E x : call' = [call EXCEPT !.pc = "poke", !.ax = x]
        <5>1. call'.pc = "poke" /\ call'.edx = b
          BY <1>1, <4>4 DEF CallIsTyped
        <5> QED
          BY <4>2, <5>1
      <4> QED
        BY <4>1, <4>3, <4>4
    <3> QED
      BY <1>6, <3>2, <3>3, SyncIs
  <2>3. ASSUME NEW c \in Structs, ~synced'[c] PROVE OnTime(c)'
    <3>1. SameTiming(c) /\ age'[c] = age[c] /\ ~synced[c]
      BY <2>1, <2>2, <2>3 DEF SameTiming
    <3> QED
      BY <3>1, OnTimeStays DEF TimeInv
  <2> QED
    BY <2>2, <2>3 DEF TimeInv, Idle
<1>7. CASE UNCHANGED vars
  BY <1>7 DEF vars, TimeInv, OnTime
<1> QED
  BY <1>2, <1>3, <1>4, <1>5, <1>6, <1>7
     DEF mp1_ioctl, AddRefused, TakesOne, Continue, SyncSteps

-----------------------------------------------------------------------------
(* Synchronised structures: every step keeps SyncInv *)

\* Alike structures whose timing stays are alike.
LEMMA AlikeStays ==
  ASSUME NEW a, NEW b, SameTiming(a), SameTiming(b), Alike(a, b)
  PROVE  Alike(a, b)'
BY DEF SameTiming, Alike

\* A step outside a sync that forgets no allocated structure.
LEMMA PairsStay ==
  ASSUME PairsAreAlike, ~Midway, together' \subseteq together,
         \A pair \in together' : \A c \in pair :
            c \in Allocated => SameTiming(c) /\ c \in Allocated'
  PROVE  PairsAreAlike'
<1> SUFFICES ASSUME NEW pair \in together'
             PROVE  (pair \subseteq Allocated)' /\ (\A a, b \in pair : Alike(a, b))'
  BY DEF PairsAreAlike
<1>1. pair \subseteq Allocated /\ \A a, b \in pair : Alike(a, b)
  BY DEF PairsAreAlike
<1>2. \A a, b \in pair : Alike(a, b)'
  BY <1>1, AlikeStays
<1> QED
  BY <1>1, <1>2

\* Every access of an ioctl but a sync's.
LEMMA IoctlKeepsPairs ==
  ASSUME ListInv, quiet, SyncInv,
         \/ mp1_ioctl
         \/ AddLink \/ AddPublish \/ AddPoke \/ RemoveUnlink \/ Free \/ FindCopy
         \/ UNCHANGED vars
  PROVE  PairsAreAlike' /\ SyncProgress'
<1>1. MemoryIsTyped /\ PairsAreAlike /\ SyncProgress
  BY DEF ListInv, SyncInv
<1>2. CASE AddLink \/ AddPublish \/ AddPoke \/ RemoveUnlink \/ FindCopy
  <2>1. /\ \A c \in Structs : SameTiming(c) /\ mem'[c].live = mem[c].live
        /\ together' = together /\ call.op # "sync" /\ call'.op # "sync"
    BY <1>2, LinkingLeavesTiming
  <2>2. Allocated' = Allocated /\ Allocated \subseteq Structs /\ ~Midway
    BY <2>1 DEF Allocated, Midway
  <2> QED
    BY <1>1, <2>1, <2>2, PairsStay DEF SyncProgress
<1>3. CASE \/ \E l \in Cells, length \in Lengths : mp1_ioctl_add(l, length)
           \/ TakesOne
  <2>1. together' = together /\ call = Idle /\ call'.op # "sync"
    BY <1>3, NewStructureIs
  <2>2. PICK a \in Structs \ Allocated :
          \A c \in Structs \ {a} : SameTiming(c) /\ mem'[c].live = mem[c].live
    BY <1>3, NewStructureIs
  <2>3. \A c \in Allocated : SameTiming(c) /\ c \in Allocated'
    BY <2>2 DEF Allocated
  <2>4. ~Midway
    BY <2>1 DEF Midway, Idle
  <2> QED
    BY <1>1, <2>1, <2>3, <2>4, PairsStay DEF SyncProgress
<1>4. CASE \/ \E l \in Cells : mp1_ioctl_remove(l)
           \/ \E l1, l2 \in Cells : mp1_ioctl_sync(l1, l2)
  <2>1. /\ UNCHANGED <<mem, together>> /\ call = Idle /\ call'.pc \in {"unlink", "lengths"}
    BY <1>4, NewRemoveOrSyncKeepsList
  <2>2. \A c \in Allocated : SameTiming(c) /\ c \in Allocated'
    BY <2>1 DEF SameTiming, Allocated
  <2>3. ~Midway
    BY <2>1 DEF Midway, Idle
  <2> QED
    BY <1>1, <2>1, <2>2, <2>3, PairsStay DEF SyncProgress
<1>5. CASE Free
  <2> DEFINE a == call.ebx
  <2>1. /\ call.pc = "free" /\ call' = Idle /\ mem' = [mem EXCEPT ![a] = Dead]
        /\ together' = {pair \in together : a \notin pair}
    BY <1>5 DEF Free, Freed, Return
  <2>2. \A c \in Structs : c # a => mem'[c] = mem[c]
    BY <1>1, <2>1 DEF MemoryIsTyped
  <2>3. \A c \in Allocated : c # a => SameTiming(c) /\ c \in Allocated'
    BY <2>2 DEF SameTiming, Allocated
  <2>4. ~Midway
    BY <2>1 DEF Midway
  <2> QED
    BY <1>1, <2>1, <2>3, <2>4, PairsStay DEF SyncProgress, Idle
<1>6. CASE UNCHANGED vars
  BY <1>1, <1>6 DEF vars, PairsAreAlike, SyncProgress, Alike, Midway, Allocated
<1> QED
  BY <1>2, <1>3, <1>4, <1>5, <1>6 DEF mp1_ioctl, AddRefused, TakesOne

\* The tasklet ticks both structures of a pair, and from alike to alike.
LEMMA TaskletKeepsPairs ==
  ASSUME ListInv, quiet, SyncInv, mp1_rtc_tasklet
  PROVE  PairsAreAlike' /\ SyncProgress'
<1>1. MemoryIsTyped /\ AllAccountedFor /\ ListEnds /\ PairsAreAlike
  BY DEF ListInv, SyncInv
<1>2. /\ call = Idle /\ UNCHANGED <<call, together>>
      /\ mem' = [a \in Structs |-> IF a \in Elements THEN Ticked(mem[a]) ELSE mem[a]]
  BY DEF mp1_rtc_tasklet
<1>3. Allocated = Elements /\ Elements \subseteq Structs
  BY <1>1, <1>2, ElementsAreStructs DEF AllAccountedFor, HoldsOne, Idle
<1>4. \A a \in Elements : mem'[a] = Ticked(mem[a]) /\ mem[a] \in StructType
  BY <1>1, <1>2, <1>3 DEF MemoryIsTyped
<1>5. Elements \subseteq Allocated'
  BY <1>3, <1>4, TickIs DEF Allocated
<1>6. ASSUME NEW a \in Elements, NEW b \in Elements, Alike(a, b)
      PROVE  Alike(a, b)'
  <2>1. mem[a] \in StructType /\ mem[b] \in StructType
    BY <1>4
  <2>2. Toggles(mem[a]) <=> Toggles(mem[b])
    BY <1>6, <2>1, TickIs DEF Alike
  <2>3. /\ Ticked(mem[a]).on_length = Ticked(mem[b]).on_length
        /\ Ticked(mem[a]).off_length = Ticked(mem[b]).off_length
    BY <1>6, <2>1, TickIs DEF Alike
  <2>4. /\ Ticked(mem[a]).countdown = Ticked(mem[b]).countdown
        /\ Ticked(mem[a]).status = Ticked(mem[b]).status
    <3>1. CASE Toggles(mem[a])
      BY <1>6, <2>1, <2>2, <3>1, TickIs DEF Alike
    <3>2. CASE ~Toggles(mem[a])
      BY <1>6, <2>1, <2>2, <3>2, TickIs DEF Alike
    <3> QED
      BY <3>1, <3>2
  <2> QED
    BY <1>4, <2>3, <2>4 DEF Alike
<1>7. ASSUME NEW pair \in together
      PROVE  (pair \subseteq Allocated)' /\ (\A a, b \in pair : Alike(a, b))'
  <2>1. pair \subseteq Elements /\ \A a, b \in pair : Alike(a, b)
    BY <1>1, <1>2, <1>3 DEF PairsAreAlike, Midway, Idle
  <2>2. \A a, b \in pair : Alike(a, b)'
    BY <1>6, <2>1
  <2> QED
    BY <1>5, <2>1, <2>2
<1> QED
  BY <1>2, <1>7 DEF PairsAreAlike, SyncProgress, Idle

WillBeAlike(a, b) ==
  /\ mem'[a].on_length = mem'[b].on_length /\ mem'[a].off_length = mem'[b].off_length
  /\ mem'[a].countdown = mem'[b].countdown /\ mem'[a].status = mem'[b].status

\* The last write of a sync makes its structures alike, and the pairs follow.
LEMMA SyncKeepsPairs ==
  ASSUME ListInv, quiet, SyncInv, SyncSteps
  PROVE  PairsAreAlike' /\ SyncProgress'
<1> DEFINE a == call.ebx
           b == call.edx
<1>1. /\ MemoryIsTyped /\ CallIsTyped /\ ListEnds /\ AllAccountedFor
      /\ PairsAreAlike /\ SyncProgress
  BY DEF ListInv, SyncInv
<1>2. /\ call.op = "sync" /\ a \in Structs /\ b \in Structs
      /\ \A c \in Structs : c # b => mem'[c] = mem[c]
  BY SyncIs
<1>3. /\ \A c \in Structs : mem'[c].live = mem[c].live
      /\ a \in Elements /\ b \in Elements /\ Elements = Allocated
  BY <1>1, <1>2, SyncWritesTiming DEF AllAccountedFor, HoldsOne
<1>4. Allocated' = Allocated /\ Allocated \subseteq Structs
  BY <1>3 DEF Allocated
<1>5. ASSUME NEW pair \in together, b \notin pair
      PROVE  (\A c, d \in pair : Alike(c, d)) /\ (\A c, d \in pair : Alike(c, d))'
  <2>1. pair \subseteq Structs /\ \A c, d \in pair : Alike(c, d)
    BY <1>1, <1>4, <1>5 DEF PairsAreAlike
  <2>2. \A c \in pair : mem'[c] = mem[c]
    BY <1>2, <1>5, <2>1
  <2>3. \A c, d \in pair : Alike(c, d)'
    BY <2>1, <2>2 DEF Alike
  <2> QED
    BY <2>1, <2>3
<1>6. ASSUME NEW pc \in Places, NEW x \in Nat,
             call' = [call EXCEPT !.pc = pc, !.ax = x] \/ call' = [call EXCEPT !.pc = pc]
      PROVE  call'.op = "sync" /\ call'.pc = pc /\ call'.ebx = a /\ call'.edx = b
  BY <1>1, <1>2, <1>6 DEF CallIsTyped
<1>7. /\ mem[a] \in StructType /\ mem[a].countdown \in Nat /\ mem[a].status \in Nat
      /\ mem[b].status \in Nat
  BY <1>1, <1>2, NumbersAssumption DEF MemoryIsTyped, StructType
<1>8. ASSUME together' = together, Midway' /\ b = call'.edx
      PROVE  PairsAreAlike'
  <2>1. ASSUME NEW pair \in together
        PROVE  /\ pair \subseteq Allocated'
               /\ (Midway' /\ call'.edx \in pair) \/ (\A c, d \in pair : Alike(c, d))'
    BY <1>1, <1>4, <1>5, <1>8 DEF PairsAreAlike
  <2> QED
    BY <1>8, <2>1 DEF PairsAreAlike
<1>9. ASSUME together' = together, mem' = mem, ~Midway
      PROVE  PairsAreAlike'
  BY <1>1, <1>4, <1>9 DEF PairsAreAlike, Alike
<1>10. ASSUME together' = together, a = b, \A c \in Structs : SameTiming(c)
       PROVE  PairsAreAlike'
  <2>1. ~Midway
    BY <1>10 DEF Midway
  <2> QED
    BY <1>1, <1>4, <1>10, <2>1, PairsStay
<1>11. CASE call.pc = "lengths"
  <2>1. /\ together' = together
        /\ mem'[b].on_length = mem[a].on_length /\ mem'[b].off_length = mem[a].off_length
        /\ mem'[b].countdown = mem[b].countdown /\ mem'[b].status = mem[b].status
        /\ call' = [call EXCEPT !.pc = "countdown", !.ax = mem[a].countdown]
    BY <1>11, SyncIs
  <2>2. call'.op = "sync" /\ call'.pc = "countdown" /\ call'.ebx = a /\ call'.edx = b
    BY <1>6, <1>7, <2>1 DEF Places
  <2>3. call'.ax = mem[a].countdown
    BY <1>1, <2>1 DEF CallIsTyped
  <2>4. /\ mem'[a].on_length = mem[a].on_length /\ mem'[a].off_length = mem[a].off_length
        /\ mem'[a].countdown = mem[a].countdown
    BY <1>2, <2>1
  <2>5. SyncProgress'
    BY <2>1, <2>2, <2>3, <2>4 DEF SyncProgress
  <2>6. CASE a = b
    BY <1>2, <1>10, <2>1, <2>5, <2>6 DEF SameTiming
  <2>7. CASE a # b
    BY <1>8, <2>1, <2>2, <2>5, <2>7 DEF Midway
  <2> QED
    BY <2>6, <2>7
<1>12. CASE call.pc = "countdown"
  <2>1. /\ together' = together
        /\ mem'[b].on_length = mem[b].on_length /\ mem'[b].off_length = mem[b].off_length
        /\ mem'[b].countdown = call.ax /\ mem'[b].status = mem[b].status
        /\ call' = [call EXCEPT !.pc = "load"]
    BY <1>12, SyncIs
  <2>2. call'.op = "sync" /\ call'.pc = "load" /\ call'.ebx = a /\ call'.edx = b
    BY <1>6, <2>1 DEF Places
  <2>3. /\ call.ax = mem[a].countdown
        /\ mem[b].on_length = mem[a].on_length /\ mem[b].off_length = mem[a].off_length
    BY <1>1, <1>2, <1>12 DEF SyncProgress
  <2>4. /\ mem'[a].on_length = mem[a].on_length /\ mem'[a].off_length = mem[a].off_length
        /\ mem'[a].countdown = mem[a].countdown
    BY <1>2, <2>1, <2>3
  <2>5. SyncProgress'
    BY <2>1, <2>2, <2>3, <2>4 DEF SyncProgress
  <2>6. CASE a = b
    BY <1>2, <1>10, <2>1, <2>3, <2>5, <2>6 DEF SameTiming
  <2>7. CASE a # b
    BY <1>8, <2>1, <2>2, <2>5, <2>7 DEF Midway
  <2> QED
    BY <2>6, <2>7
<1>13. CASE call.pc = "load"
  <2>1. /\ together' = together /\ mem' = mem
        /\ call' = [call EXCEPT !.pc = "status", !.ax = mem[a].status]
    BY <1>13, SyncIs
  <2>2. call'.op = "sync" /\ call'.pc = "status" /\ call'.ebx = a /\ call'.edx = b
    BY <1>6, <1>7, <2>1 DEF Places
  <2>3. call'.ax = mem[a].status
    BY <1>1, <2>1 DEF CallIsTyped
  <2>4. SyncProgress'
    BY <1>1, <1>2, <1>13, <2>1, <2>2, <2>3 DEF SyncProgress
  <2>5. CASE a = b
    BY <1>10, <2>1, <2>4, <2>5 DEF SameTiming
  <2>6. CASE a # b
    BY <1>8, <2>1, <2>2, <2>4, <2>6 DEF Midway
  <2> QED
    BY <2>5, <2>6
<1>14. CASE call.pc = "status"
  <2>1. /\ together' = PairsWith(a, b)
        /\ mem'[b].on_length = mem[b].on_length /\ mem'[b].off_length = mem[b].off_length
        /\ mem'[b].countdown = mem[b].countdown /\ mem'[b].status = call.ax
        /\ call' = [call EXCEPT !.pc = "character"]
    BY <1>14, SyncIs
  <2>2. call'.op = "sync" /\ call'.pc = "character" /\ ~Midway'
    <3>1. call'.op = "sync" /\ call'.pc = "character"
      BY <1>6, <2>1 DEF Places
    <3> QED
      BY <3>1 DEF Midway
  <2>3. SyncProgress'
    BY <2>2 DEF SyncProgress
  <2>4. /\ call.ax = mem[a].status /\ mem[b].countdown = mem[a].countdown
        /\ mem[b].on_length = mem[a].on_length /\ mem[b].off_length = mem[a].off_length
    BY <1>1, <1>2, <1>14 DEF SyncProgress
  <2>5. CASE a = b
    <3>1. together' = together
      BY <2>1, <2>5 DEF PairsWith
    <3> QED
      BY <1>2, <1>10, <2>1, <2>3, <2>4, <2>5, <3>1 DEF SameTiming
  <2>6. CASE a # b
    <3> DEFINE others == {pair \in together : b \notin pair}
               alikes == {a} \cup UNION {pair \in others : a \in pair}
    <3>1. together' = others \cup {{c, b} : c \in alikes}
      BY <2>1, <2>6 DEF PairsWith
    <3>2. WillBeAlike(a, b) /\ WillBeAlike(b, a) /\ WillBeAlike(b, b)
      <4>1. mem'[a] = mem[a]
        BY <1>2, <2>6
      <4> QED
        BY <2>1, <2>4, <4>1 DEF WillBeAlike
    <3>3. ASSUME NEW c \in alikes PROVE c \in Allocated /\ WillBeAlike(c, a) /\ WillBeAlike(c, c)
      <4>1. CASE c = a
        BY <1>3, <4>1 DEF WillBeAlike
      <4>2. CASE c # a
        <5>1. PICK pair \in others : a \in pair /\ c \in pair
          BY <4>2
        <5>2. pair \in together /\ b \notin pair
          BY <5>1
        <5>3. pair \subseteq Allocated
          BY <1>1, <5>2 DEF PairsAreAlike
        <5> QED
          BY <1>5, <5>1, <5>2, <5>3 DEF Alike, WillBeAlike
      <4> QED
        BY <4>1, <4>2
    <3>4. ASSUME NEW c \in alikes
          PROVE  /\ {c, b} \subseteq Allocated
                 /\ \A d, e \in {c, b} : WillBeAlike(d, e)
      <4>1. WillBeAlike(c, b) /\ WillBeAlike(b, c) /\ WillBeAlike(c, c)
        BY <3>2, <3>3 DEF WillBeAlike
      <4> QED
        BY <1>3, <3>2, <3>3, <4>1
    <3>5. ASSUME NEW pair \in together'
          PROVE  (pair \subseteq Allocated)' /\ (\A c, d \in pair : Alike(c, d))'
      <4>1. CASE pair \in others
        <5>1. pair \in together /\ b \notin pair
          BY <4>1
        <5>2. pair \subseteq Allocated
          BY <1>1, <5>1 DEF PairsAreAlike
        <5> QED
          BY <1>4, <1>5, <5>1, <5>2
      <4>2. CASE \E c \in alikes : pair = {c, b}
        <5>1. PICK c \in alikes : pair = {c, b}
          BY <4>2
        <5>2. pair \subseteq Allocated /\ \A d, e \in pair : WillBeAlike(d, e)
          BY <3>4, <5>1
        <5> QED
          BY <1>4, <5>2 DEF Alike, WillBeAlike
      <4> HIDE DEF others, alikes
      <4> QED
        BY <3>1, <4>1, <4>2
    <3> QED
      BY <2>3, <3>5 DEF PairsAreAlike
  <2> QED
    BY <2>5, <2>6
<1>15. CASE call.pc \in {"character", "poke"}
  <2>1. /\ together' = together /\ mem' = mem
        /\ call' = Idle \/ call' = [call EXCEPT !.pc = "poke", !.ax = mem[b].status]
    BY <1>15, SyncIs
  <2>2. PairsAreAlike'
    BY <1>9, <1>15, <2>1 DEF Midway
  <2>3. call'.pc \in {"idle", "poke"}
    <3>1. CASE call' = Idle
      BY <3>1 DEF Idle
    <3>2. CASE call' = [call EXCEPT !.pc = "poke", !.ax = mem[b].status]
      BY <1>6, <1>7, <3>2 DEF Places
    <3> QED
      BY <2>1, <3>1, <3>2
  <2> QED
    BY <2>2, <2>3 DEF SyncProgress
<1> QED
  BY <1>11, <1>12, <1>13, <1>14, <1>15, SyncIs

-----------------------------------------------------------------------------
(* The theorems *)

\* The invariant holds at the start and every step keeps it.
THEOREM InvariantHolds == Spec => []IInv
<1>1. Init => IInv
  <2> SUFFICES ASSUME Init PROVE IInv
    OBVIOUS
  <2>1. ListInv
    BY InitGivesList
  <2>2. SyncInv
    BY DEF Init, SyncInv, PairsAreAlike, SyncProgress, Idle
  <2>3. TimeInv
    <3>1. \A a \in Structs : mem[a] = Dead /\ age[a] = 0
      BY DEF Init
    <3>2. \A a \in Structs : OnTime(a)
      BY <3>1, NumbersAssumption DEF OnTime, Due, Dead
    <3> QED
      BY <3>2 DEF Init, TimeInv, Idle
  <2> QED
    BY <2>1, <2>2, <2>3 DEF IInv
<1>2. IInv /\ [Next]_vars => IInv'
  <2> SUFFICES ASSUME IInv, [Next]_vars PROVE IInv'
    OBVIOUS
  <2>1. ListInv /\ SyncInv /\ TimeInv
    BY DEF IInv
  <2>2. ListInv'
    BY <2>1, StepKeepsList
  <2>3. TimeInv'
    BY <2>1, TaskletKeepsTime, IoctlKeepsTime DEF Next
  <2>4. quiet' = quiet
    BY <2>1, SyncIs DEF Next, mp1_rtc_tasklet, mp1_ioctl, AddRefused, AddFails, Takes,
         mp1_ioctl_add, mp1_ioctl_remove, mp1_ioctl_find, mp1_ioctl_sync, Continue, SyncSteps,
         AddLink, AddPublish, AddPoke, AddStep, RemoveUnlink, Free, FindCopy, vars
  <2>5. quiet => PairsAreAlike' /\ SyncProgress'
    BY <2>1, TaskletKeepsPairs, IoctlKeepsPairs, SyncKeepsPairs DEF Next, Continue, SyncSteps
  <2> QED
    BY <2>2, <2>3, <2>4, <2>5 DEF IInv, SyncInv
<1> QED
  BY <1>1, <1>2, PTL DEF Spec

\* Whenever the tasklet can run, between any two accesses of an ioctl to the
\* list, the list it walks ends and its structures are allocated and filled.
THEOREM ListStaysSound == Spec => []ListIsSound
<1>1. IInv => ListIsSound
  <2> SUFFICES ASSUME IInv PROVE ListIsSound
    OBVIOUS
  <2>1. MemoryIsTyped /\ ListEnds /\ ListIsFilled
    BY DEF IInv, ListInv
  <2>2. PICK n \in Nat : \E L \in [1..n -> Structs] : Linked(L, n)
    BY <2>1 DEF ListEnds
  <2>3. PICK L \in [1..n -> Structs] : Linked(L, n)
    BY <2>2
  <2>4. n + 1 \in DOMAIN Path /\ Path[n + 1] = NULL
    BY <2>3, PathIsTheList
  <2>5. \A a \in Elements : mem[a].live /\ mem[a].location \in Cells /\ mem[a].status \in {0, 1}
    BY <2>1, ElementsAreStructs DEF ListIsFilled, MemoryIsTyped, StructType
  <2> QED
    BY <2>4, <2>5 DEF ListIsSound
<1> QED
  BY <1>1, InvariantHolds, PTL

\* Between ioctls what mp1_malloc gave and mp1_free has not taken back is on
\* the list.
THEOREM NothingIsLost == Spec => []NothingLeaks
<1>1. IInv => NothingLeaks
  BY DEF IInv, ListInv, AllAccountedFor, HoldsOne, NothingLeaks, Idle
<1> QED
  BY <1>1, InvariantHolds, PTL

\* What mp1_ioctl_sync made alike while the tasklet stayed away blinks
\* together as long as both structures live.
THEOREM SyncedStayTogether == Spec => []SyncedBlinkTogether
<1>1. IInv => SyncedBlinkTogether
  <2> SUFFICES ASSUME IInv, quiet, call = Idle, NEW pair \in together,
                      NEW a \in pair, NEW b \in pair
               PROVE  mem[a].status = mem[b].status /\ mem[a].countdown = mem[b].countdown
    BY DEF SyncedBlinkTogether
  <2>1. PairsAreAlike /\ ~Midway
    BY DEF IInv, SyncInv, Midway, Idle
  <2> QED
    BY <2>1 DEF PairsAreAlike, Alike
<1> QED
  BY <1>1, InvariantHolds, PTL

\* No ioctl on another structure, however the tasklet comes between its
\* accesses, makes a structure toggle early or late.
THEOREM TogglesOnTime == Spec => BlinksOnTime
<1> DEFINE A == \A a \in Elements : ~synced[a] =>
                  /\ age[a] < Due(mem[a])
                  /\ mem'[a].status # mem[a].status => age[a] + 1 = Due(mem[a])
<1>1. IInv /\ [Next]_vars => A
  <2> SUFFICES ASSUME IInv, [Next]_vars, NEW a \in Elements, ~synced[a]
               PROVE  /\ age[a] < Due(mem[a])
                      /\ mem'[a].status # mem[a].status => age[a] + 1 = Due(mem[a])
    OBVIOUS
  <2>1. ListInv /\ TimeInv /\ MemoryIsTyped /\ CountersAreTyped /\ ListIsFilled
    BY DEF IInv, ListInv
  <2>2. a \in Structs /\ a \in Allocated
    BY <2>1, ElementsAreStructs DEF ListInv, ListIsFilled, Allocated
  <2>3. OnTime(a) /\ mem[a] \in StructType /\ age[a] \in Nat
    BY <2>1, <2>2 DEF TimeInv, MemoryIsTyped, CountersAreTyped
  <2>4. /\ age[a] < Due(mem[a])
        /\ mem[a].countdown = IF Due(mem[a]) - age[a] = WORD THEN 0 ELSE Due(mem[a]) - age[a]
    BY <2>3 DEF OnTime
  <2>5. mem'[a].status = mem[a].status \/ age[a] + 1 = Due(mem[a])
    <3>1. CASE mp1_rtc_tasklet
      <4>1. mem'[a] = Ticked(mem[a])
        BY <2>2, <3>1 DEF mp1_rtc_tasklet
      <4>2. mem'[a].status # mem[a].status => Toggles(mem[a])
        BY <2>3, <4>1, TickIs
      <4> QED
        BY <2>3, <2>4, <4>2, TickIsOnTime
    <3>2. CASE AddLink \/ AddPublish \/ AddPoke \/ RemoveUnlink \/ FindCopy
      BY <2>1, <2>2, <3>2, LinkingLeavesTiming DEF SameTiming
    <3>3. CASE \/ \E l \in Cells, length \in Lengths : mp1_ioctl_add(l, length)
               \/ TakesOne
      <4>1. PICK b \in Structs \ Allocated : \A c \in Structs \ {b} : SameTiming(c)
        BY <2>1, <3>3, NewStructureIs
      <4> QED
        BY <2>2, <4>1 DEF SameTiming
    <3>4. CASE \/ \E l \in Cells : mp1_ioctl_remove(l)
               \/ \E l1, l2 \in Cells : mp1_ioctl_sync(l1, l2)
      BY <2>1, <3>4, NewRemoveOrSyncKeepsList
    <3>5. CASE Free
      <4>1. call.pc = "free" /\ mem' = [mem EXCEPT ![call.ebx] = Dead]
        BY <3>5 DEF Free, Freed
      <4>2. HoldsOne
        BY <2>1, <4>1 DEF ListInv, CallIsAt, Stages, Idle, HoldsOne
      <4>3. call.ebx # a
        BY <2>1, <4>2 DEF ListInv, AllAccountedFor
      <4> QED
        BY <2>1, <2>2, <4>1, <4>3 DEF MemoryIsTyped
    <3>6. CASE SyncSteps
      <4>1. CASE a # call.edx
        BY <2>1, <2>2, <3>6, <4>1, SyncIs
      <4>2. CASE a = call.edx
        <5>1. call.op = "sync" /\ call.pc # "status"
          BY <2>1, <3>6, <4>2, SyncIs DEF TimeInv
        <5> QED
          BY <2>1, <3>6, <4>2, <5>1, SyncIs
      <4> QED
        BY <4>1, <4>2
    <3>7. CASE UNCHANGED vars
      BY <3>7 DEF vars
    <3> QED
      BY <3>1, <3>2, <3>3, <3>4, <3>5, <3>6, <3>7
         DEF Next, mp1_ioctl, AddRefused, TakesOne, Continue, SyncSteps
  <2> QED
    BY <2>4, <2>5
<1>2. IInv /\ [Next]_vars => [A]_vars
  BY <1>1
<1> QED
  BY <1>2, InvariantHolds, PTL DEF Spec, BlinksOnTime

=============================================================================

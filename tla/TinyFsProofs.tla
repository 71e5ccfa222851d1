---------------------------- MODULE TinyFsProofs ----------------------------
(***************************************************************************)
(* Proofs about TinyFs: the types, that recovery finds the tail of the     *)
(* log, that programming meets only erased flash, that collecting loses no *)
(* node, the refinement of VersionedStore, and, until the power first      *)
(* fails, that there is room for every write and that all that is stored   *)
(* can be read.                                                            *)
(*                                                                         *)
(* The module follows sections and walks with recursive functions, of      *)
(* which the first lemmas say what the others need: that a recursion whose *)
(* measure falls is defined, and what holds of its values if each step     *)
(* keeps it.  Then come pages, units, the scan of a section, the ends of   *)
(* the ring and the lists, and with them the invariants: TypesInv,         *)
(* RingInv, TailInv, and, for what is stored, ContentInv and RootedInv.    *)
(* Last come sums of sizes, the room a collection needs (RoomInv), and     *)
(* what is read back of a node in the lists and of one half written        *)
(* (ReadInv).                                                              *)
(***************************************************************************)
EXTENDS TinyFs, WellFoundedInduction, SequenceTheorems, FiniteSetTheorems, TLAPS

-----------------------------------------------------------------------------
(* Recursive functions.  Every recursion of the module is linear: the      *)
(* value at x is made of the value at one other argument, next[x], of      *)
(* smaller measure, or is given outright on "stop".                        *)

LEMMA LeastMeasure ==
  ASSUME NEW S, NEW m \in [S -> Nat], NEW A, A \subseteq S, A # {}
  PROVE  \E x \in A : \A y \in A : m[x] <= m[y]
<1> DEFINE M == { m[x] : x \in A }
<1>1. M \subseteq Nat /\ M # {}
  OBVIOUS
<1> HIDE DEF M
<1>2. PICK k \in M : \A j \in M : ~(<<j, k>> \in OpToRel(<, Nat))
  BY <1>1, NatLessThanWellFounded, WFMin
<1>3. ASSUME NEW j \in M, j < k PROVE FALSE
  <2>1. <<j, k>> \in Nat \X Nat /\ <<j, k>>[1] = j /\ <<j, k>>[2] = k
    BY <1>1
  <2>2. <<j, k>> \in OpToRel(<, Nat)
    BY <1>3, <2>1, Zenon DEF OpToRel
  <2>. QED  BY <1>2, <2>2
<1>4. PICK x \in A : k = m[x]
  BY <1>2 DEF M
<1>5. \A y \in A : m[y] \in M
  BY DEF M
<1>6. \A y \in A : ~(m[y] < k)
  BY <1>3, <1>5
<1>7. \A y \in A : m[x] <= m[y]
  BY <1>4, <1>6
<1>. QED  BY <1>7

(* What holds at every x if it holds wherever the measure is smaller.      *)
LEMMA ByMeasure ==
  ASSUME NEW S, NEW m \in [S -> Nat], NEW Good,
         \A x \in S : (\A y \in S : m[y] < m[x] => y \in Good) => x \in Good
  PROVE  S \subseteq Good
<1> DEFINE Bad == { x \in S : x \notin Good }
<1>1. SUFFICES ASSUME Bad # {} PROVE FALSE
  OBVIOUS
<1>2. Bad \subseteq S
  OBVIOUS
<1>3. PICK x \in Bad : \A y \in Bad : m[x] <= m[y]
  <2> HIDE DEF Bad
  <2>. QED  BY <1>1, <1>2, LeastMeasure
<1>4. \A y \in S : m[y] < m[x] => y \in Good
  BY <1>3
<1>. QED  BY <1>3, <1>4

Recursion(S, T, stop, base, next, step, m) ==
  /\ stop \subseteq S
  /\ base \in [S -> T]
  /\ next \in [S -> S]
  /\ step \in [S \X T -> T]
  /\ m \in [S -> Nat]
  /\ \A x \in S \ stop : m[next[x]] < m[x]

Satisfies(g, S, stop, base, next, step) ==
  g = [x \in S |-> IF x \in stop THEN base[x] ELSE step[<<x, g[next[x]]>>]]

LEMMA RecursionUpTo ==
  ASSUME NEW S, NEW T, NEW stop, NEW base, NEW next, NEW step, NEW m,
         Recursion(S, T, stop, base, next, step, m), NEW n \in Nat
  PROVE  \E g \in [S -> T] : \A x \in S : m[x] < n =>
           g[x] = IF x \in stop THEN base[x] ELSE step[<<x, g[next[x]]>>]
<1> DEFINE Eq(g, x) == g[x] = IF x \in stop THEN base[x] ELSE step[<<x, g[next[x]]>>]
           Good == { k \in Nat : \E g \in [S -> T] : \A x \in S : m[x] < k => Eq(g, x) }
           id == [k \in Nat |-> k]
<1>1. \A k \in Nat : (\A j \in Nat : id[j] < id[k] => j \in Good) => k \in Good
  <2>1. SUFFICES ASSUME NEW k \in Nat, \A j \in Nat : j < k => j \in Good
                 PROVE  k \in Good
    OBVIOUS
  <2>2. CASE k = 0
    <3>1. base \in [S -> T] /\ \A x \in S : ~(m[x] < 0)
      BY DEF Recursion
    <3>. QED  BY <2>2, <3>1
  <2>3. CASE k # 0
    <3>1. k - 1 \in Nat /\ k - 1 < k
      BY <2>3
    <3>2. PICK g \in [S -> T] : \A x \in S : m[x] < k - 1 => Eq(g, x)
      BY <2>1, <3>1
    <3> DEFINE h == [x \in S |-> IF x \in stop THEN base[x] ELSE step[<<x, g[next[x]]>>]]
    <3>3. h \in [S -> T]
      BY <3>2 DEF Recursion
    <3>4. ASSUME NEW x \in S, m[x] < k PROVE Eq(h, x)
      <4>1. CASE x \in stop
        BY <4>1
      <4>2. CASE x \notin stop
        <5>1. next[x] \in S /\ m[next[x]] \in Nat /\ m[x] \in Nat /\ m[next[x]] < m[x]
          BY <4>2 DEF Recursion
        <5>2. m[next[x]] < k - 1
          BY <3>4, <5>1
        <5>3. Eq(g, next[x])
          BY <3>2, <5>1, <5>2
        <5>4. h[next[x]] = g[next[x]]
          BY <5>1, <5>3
        <5>. QED  BY <4>2, <5>4
      <4>. QED  BY <4>1, <4>2
    <3> HIDE DEF h
    <3>. QED  BY <3>3, <3>4
  <2>. QED  BY <2>2, <2>3
<1>2. Nat \subseteq Good
  <2>1. id \in [Nat -> Nat]
    OBVIOUS
  <2> HIDE DEF id, Good
  <2>. QED  BY <1>1, <2>1, ByMeasure
<1>. QED  BY <1>2

(* A recursion of bounded measure has a solution.                          *)
LEMMA RecursionIsDefined ==
  ASSUME NEW S, NEW T, NEW stop, NEW base, NEW next, NEW step, NEW m,
         Recursion(S, T, stop, base, next, step, m),
         NEW n \in Nat, \A x \in S : m[x] < n
  PROVE  \E g \in [S -> T] : Satisfies(g, S, stop, base, next, step)
<1>1. PICK g \in [S -> T] : \A x \in S : m[x] < n =>
           g[x] = IF x \in stop THEN base[x] ELSE step[<<x, g[next[x]]>>]
  BY RecursionUpTo
<1>. QED  BY <1>1 DEF Satisfies

(* ... and only one.                                                       *)
Agreeing(S, m, stop, next, g, h) ==
  /\ m \in [S -> Nat]
  /\ g = [x \in S |-> g[x]] /\ h = [x \in S |-> h[x]]
  /\ \A x \in S : x \in stop => g[x] = h[x]
  /\ \A x \in S : x \notin stop =>
       /\ next[x] \in S /\ m[next[x]] < m[x]
       /\ g[next[x]] = h[next[x]] => g[x] = h[x]

LEMMA SolutionsAgree ==
  ASSUME NEW S, NEW m, NEW stop, NEW next, NEW g, NEW h,
         Agreeing(S, m, stop, next, g, h)
  PROVE  g = h
<1> DEFINE Good == { x \in S : g[x] = h[x] }
<1>1. \A x \in S : (\A y \in S : m[y] < m[x] => y \in Good) => x \in Good
  BY DEF Agreeing
<1>2. S \subseteq Good
  <2>1. m \in [S -> Nat]
    BY DEF Agreeing
  <2> HIDE DEF Good
  <2>. QED  BY <1>1, <2>1, ByMeasure
<1>. QED  BY <1>2, Zenon DEF Agreeing

-----------------------------------------------------------------------------
(* Division, and the pages it makes of a section.                          *)

LEMMA Divided ==
  ASSUME NEW o \in Nat, NEW d \in Nat, d >= 1
  PROVE  /\ o % d \in 0 .. d - 1
         /\ o \div d \in Nat
         /\ o = (o \div d) * d + (o % d)
OBVIOUS

LEMMA Rest ==
  ASSUME NEW q \in Int, NEW d \in Nat, d >= 1, NEW r \in 0 .. d - 1
  PROVE  (q * d + r) % d = r
OBVIOUS

LEMMA Multiples ==
  ASSUME NEW q \in Int, NEW k \in Int, NEW d \in Nat, q < k
  PROVE  q * d + d <= k * d
<1>1. (k - q - 1) * d >= 0
  OBVIOUS
<1>. QED  BY <1>1

LEMMA Order ==
  ASSUME NEW q \in Int, NEW k \in Int, NEW d \in Nat, d >= 1, q * d < k * d
  PROVE  q < k
<1>1. ~(q >= k)
 <2>1. SUFFICES ASSUME q >= k PROVE FALSE
   OBVIOUS
 <2>2. (q - k) * d >= 0
   BY <2>1
 <2>. QED  BY <2>2
<1>. QED  BY <1>1

LEMMA PageBounds ==
  ASSUME NEW q \in Nat, NEW d \in Nat, d >= 1, NEW r \in 0 .. d - 1,
         NEW o \in Nat, o = q * d + r
  PROVE  /\ o - r \in Nat
         /\ (o - r) % d = 0
         /\ (o - r + d) % d = 0
<1>1. q * d \in Nat /\ (q + 1) * d = q * d + d
  OBVIOUS
<1>2. o - r = q * d + 0
  BY <1>1
<1>3. o - r + d = (q + 1) * d + 0
  BY <1>1
<1>4. (q * d + 0) % d = 0 /\ ((q + 1) * d + 0) % d = 0
  BY Rest
<1>. QED  BY <1>1, <1>2, <1>3, <1>4

(* Pages of d units: where the one of o begins and ends. *)
LEMMA PageOf ==
  ASSUME NEW o \in Nat, NEW d \in Nat, d >= 1
  PROVE  /\ o % d \in 0 .. d - 1
         /\ o - (o % d) \in Nat
         /\ (o - (o % d)) % d = 0
         /\ (o - (o % d) + d) % d = 0
<1>1. PICK r \in 0 .. d - 1 : r = o % d
  BY Divided
<1>2. PICK q \in Nat : o = q * d + r
  BY <1>1, Divided
<1>3. o - r \in Nat /\ (o - r) % d = 0 /\ (o - r + d) % d = 0
  BY <1>2, PageBounds
<1>. QED  BY <1>1, <1>3

LEMMA PageAfter ==
  ASSUME NEW o \in Nat, NEW p \in Nat, NEW d \in Nat, d >= 1, p % d = 0, p > o
  PROVE  p >= o - (o % d) + d
<1>1. PICK q \in Nat : o = q * d + (o % d)
  BY Divided
<1>2. PICK k \in Nat : p = k * d
  <2>1. p = (p \div d) * d + (p % d) /\ p \div d \in Nat
    BY Divided
  <2>2. p = (p \div d) * d + 0
    BY <2>1
  <2>3. (p \div d) * d \in Nat
    BY <2>1
  <2>. QED  BY <2>1, <2>2, <2>3
<1>3. o % d \in 0 .. d - 1
  BY Divided
<1>4. q * d < k * d
  BY <1>1, <1>2, <1>3
<1>5. q < k 
  BY <1>4, Order
<1>6. q * d + d <= k * d
  BY <1>5, Multiples
<1>. QED  BY <1>1, <1>2, <1>3, <1>6

LEMMA InPage ==
  ASSUME NEW o \in Nat, NEW d \in Nat, d >= 1, NEW k \in Nat, (o % d) + k <= d
  PROVE  (o + k) % d = IF (o % d) + k = d THEN 0 ELSE (o % d) + k
<1>1. PICK q \in Nat : o = q * d + (o % d)
  BY Divided
<1>3. o % d \in 0 .. d - 1
  BY Divided
<1>4. CASE (o % d) + k = d
  <2>1. o + k = (q + 1) * d + 0
    BY <1>1, <1>3, <1>4
  <2>2. ((q + 1) * d + 0) % d = 0
    BY Rest
  <2>. QED  BY <2>1, <2>2, <1>4
<1>5. CASE (o % d) + k # d
  <2>1. (o % d) + k \in 0 .. d - 1
    BY <1>3, <1>5
  <2>2. o + k = q * d + ((o % d) + k)
    BY <1>1, <1>3
  <2>3. (q * d + ((o % d) + k)) % d = (o % d) + k
    BY <2>1, Rest
  <2>. QED  BY <2>2, <2>3, <1>5
<1>. QED  BY <1>4, <1>5

-----------------------------------------------------------------------------
(* The types.                                                              *)

Op == {"add", "rm"}

Unit == {Erased}
        \cup { SectionHead(c, o) : c \in 0 .. CountSize - 1, o \in 1 .. Size - 1 }
        \cup { Meta(op, n) : op \in Op, n \in Node }
        \cup { More(op, n, i) : op \in Op, n \in Node, i \in 1 .. MetaRest }
        \cup { Data(n, i) : n \in Node, i \in 1 .. Size }
        \cup { CrcOf(op, n, i) : op \in Op, n \in Node, i \in 1 .. Crc }

Copied == { CopyOf(s, o) : s \in Section, o \in 1 .. Size - 1 }

Flash == [Section -> [0 .. Size - 1 -> Unit]]

Entry == [n : Node, off : 1 .. Size - 1]

Lists == [Section -> Seq(Entry)]

LogEntry == [op : Op, n : Node, sec : Section, off : 1 .. Size - 1]

-----------------------------------------------------------------------------
(* Nodes and units.                                                        *)

LEMMA Sizes ==
  /\ NSection \in Nat /\ NSection >= 3 /\ Page \in Nat /\ Page >= 2
  /\ Size \in Nat /\ Size > Page
  /\ MetaRest \in Nat /\ Crc \in Nat /\ Crc >= 1 /\ 2 + MetaRest + Crc <= Size
  /\ CountSize \in Nat /\ CountSize >= 6 /\ NodeMax \in Nat /\ DirIdLimit \in Nat
  /\ \A v \in Val : v \in Nat /\ v >= 1 /\ 2 + MetaRest + v + Crc <= Size
BY SizesAssumption

LEMMA NodeFields ==
  ASSUME NEW n \in Node
  PROVE  /\ n.kind \in {"record", "dir"}
         /\ n.id \in 0 .. DirIdLimit /\ n.parent \in 0 .. DirIdLimit
         /\ n.kind = "record" => n.val \in Val
BY Sizes DEF Node, Record, Dir

LEMMA NodeLengths ==
  ASSUME NEW op \in Op, NEW n \in Node
  PROVE  /\ BodyLen(op, n) \in Nat /\ BodyLen(op, n) >= MetaRest
         /\ NodeLength(op, n) \in Nat
         /\ NodeLength(op, n) = 1 + BodyLen(op, n) + Crc
         /\ NodeLength(op, n) >= 2 /\ NodeLength(op, n) + 1 <= Size
BY Sizes, NodeFields DEF DataLen, BodyLen, NodeLength

LEMMA UnitKinds ==
  ASSUME NEW u \in Unit
  PROVE  /\ u.u \in {"erased", "head", "meta", "more", "data", "crc"}
         /\ u.u = "erased" <=> u = Erased
         /\ u.u = "head" => u.count \in 0 .. CountSize - 1 /\ u.node_offset \in 1 .. Size - 1
         /\ u.u = "meta" => u.op \in Op /\ u.n \in Node /\ u = Meta(u.op, u.n)
BY DEF Unit, Erased, SectionHead, Meta, More, Data, CrcOf

LEMMA BodyTyped ==
  ASSUME NEW op \in Op, NEW n \in Node, NEW i \in 1 .. BodyLen(op, n)
  PROVE  Body(op, n, i) \in Unit \ {Erased}
<1>1. PICK d \in Nat : d = BodyLen(op, n) /\ d >= MetaRest /\ 2 + d + Crc <= Size
  BY NodeLengths, Sizes
<1>2. CASE i <= MetaRest
  <2>1. i \in 1 .. MetaRest
    BY <1>1, <1>2, Sizes
  <2>. QED  BY <1>2, <2>1 DEF Body, Unit, More, Erased
<1>3. CASE ~(i <= MetaRest)
  <2>1. i - MetaRest \in 1 .. Size
    BY <1>1, <1>3, Sizes
  <2>. QED  BY <1>3, <2>1 DEF Body, Unit, Data, Erased
<1>. QED  BY <1>2, <1>3

LEMMA PageArithmetic ==
  ASSUME NEW o \in Nat
  PROVE  /\ o % Page \in 0 .. Page - 1
         /\ PageStart(o) \in Nat /\ PageStart(o) = o - (o % Page)
         /\ PageStart(o) % Page = 0
         /\ NextPage(o) \in Nat /\ NextPage(o) = PageStart(o) + Page
         /\ NextPage(o) > o /\ NextPage(o) % Page = 0
         /\ \A p \in Nat : p % Page = 0 /\ p > o => p >= NextPage(o)
<1>. Page \in Nat /\ Page >= 1
  BY Sizes
<1>1. /\ o % Page \in 0 .. Page - 1
      /\ o - (o % Page) \in Nat
      /\ (o - (o % Page)) % Page = 0
      /\ (o - (o % Page) + Page) % Page = 0
  BY PageOf
<1>2. \A p \in Nat : p % Page = 0 /\ p > o => p >= o - (o % Page) + Page
  BY PageAfter
<1>. QED  BY <1>1, <1>2, Sizes DEF PageStart, NextPage

-----------------------------------------------------------------------------
(* The scan of a section.                                                  *)

ScanResult == [log : Seq(LogEntry), end : Nat]

ScanEnds(f, tl, s, o) ==
  \/ o < 1 \/ o >= Size
  \/ ~ValidNode(f, tl, s, o) /\ o % Page = 0 /\ PageEmpty(f, s, o)

ScanNext(f, tl, s, o) ==
  IF ValidNode(f, tl, s, o) THEN o + NodeLength(f[s][o].op, f[s][o].n)
                            ELSE NextPage(o)

ScanLog(f, tl, s, o, log) ==
  IF ValidNode(f, tl, s, o)
  THEN << [op |-> f[s][o].op, n |-> f[s][o].n, sec |-> s, off |-> o] >> \o log
  ELSE log

IsScan(g, f, tl, s) ==
  /\ ScanSection(f, tl, s) = g[f[s][0].node_offset]
  /\ \A o \in Nat :
       g[o] = IF ScanEnds(f, tl, s, o) THEN [log |-> <<>>, end |-> o]
              ELSE LET r == g[ScanNext(f, tl, s, o)]
                   IN  [r EXCEPT !.log = ScanLog(f, tl, s, o, @)]

LEMMA ScanUnfolds ==
  ASSUME NEW f \in Flash, NEW tl \in Section, NEW s \in Section
  PROVE  \E g \in [Nat -> ScanResult] : IsScan(g, f, tl, s)
<1> DEFINE stop == { o \in Nat : ScanEnds(f, tl, s, o) }
           base == [o \in Nat |-> [log |-> <<>>, end |-> o]]
           next == [o \in Nat |-> IF o \in stop THEN 0 ELSE ScanNext(f, tl, s, o)]
           step == [a \in Nat \X ScanResult |->
                      IF a[1] \in stop THEN a[2]
                      ELSE [a[2] EXCEPT !.log = ScanLog(f, tl, s, a[1], @)]]
           m == [o \in Nat |-> IF o >= Size THEN 0 ELSE Size - o]
           Sol(g) == g = [o \in Nat |->
             IF o < 1 \/ o >= Size THEN [log |-> <<>>, end |-> o]
             ELSE IF ValidNode(f, tl, s, o)
             THEN [g[o + NodeLength(f[s][o].op, f[s][o].n)] EXCEPT !.log =
                     << [op |-> f[s][o].op, n |-> f[s][o].n, sec |-> s, off |-> o] >> \o @]
             ELSE IF o % Page = 0 /\ PageEmpty(f, s, o)
             THEN [log |-> <<>>, end |-> o]
             ELSE g[NextPage(o)]]
<1>1. ScanSection(f, tl, s) = (CHOOSE g : Sol(g))[f[s][0].node_offset]
  BY DEF ScanSection
<1>2. ASSUME NEW o \in Nat, o \notin stop
      PROVE  /\ ScanNext(f, tl, s, o) \in Nat /\ ScanNext(f, tl, s, o) > o
             /\ ValidNode(f, tl, s, o) => f[s][o].op \in Op /\ f[s][o].n \in Node
             /\ o \in 1 .. Size - 1
  <2>1. o \in 1 .. Size - 1
    BY <1>2, Sizes DEF ScanEnds
  <2>2. f[s][o] \in Unit
    BY <2>1, Sizes DEF Flash
  <2>3. ValidNode(f, tl, s, o) => f[s][o].op \in Op /\ f[s][o].n \in Node
    BY <2>2, UnitKinds DEF ValidNode
  <2>4. CASE ValidNode(f, tl, s, o)
    BY <2>1, <2>3, <2>4, NodeLengths DEF ScanNext
  <2>5. CASE ~ValidNode(f, tl, s, o)
    BY <2>1, <2>3, <2>5, PageArithmetic DEF ScanNext
  <2>. QED  BY <2>1, <2>3, <2>4, <2>5
<1>3. Recursion(Nat, ScanResult, stop, base, next, step, m)
  <2>1. stop \subseteq Nat
    OBVIOUS
  <2>2. base \in [Nat -> ScanResult]
    BY DEF ScanResult
  <2>3. next \in [Nat -> Nat]
    BY <1>2
  <2>4. step \in [Nat \X ScanResult -> ScanResult]
    <3>1. SUFFICES ASSUME NEW o \in Nat, NEW r \in ScanResult, o \notin stop
                   PROVE  [r EXCEPT !.log = ScanLog(f, tl, s, o, @)] \in ScanResult
      BY DEF ScanResult
    <3>2. ScanLog(f, tl, s, o, r.log) \in Seq(LogEntry)
      <4>1. r.log \in Seq(LogEntry)
        BY DEF ScanResult
      <4>2. CASE ValidNode(f, tl, s, o)
        <5>1. [op |-> f[s][o].op, n |-> f[s][o].n, sec |-> s, off |-> o] \in LogEntry
          BY <1>2, <3>1, <4>2 DEF LogEntry
        <5>. QED  BY <4>1, <4>2, <5>1, ConcatProperties DEF ScanLog
      <4>. QED  BY <4>1, <4>2 DEF ScanLog
    <3>. QED  BY <3>2 DEF ScanResult
  <2>5. m \in [Nat -> Nat]
    BY Sizes
  <2>6. \A o \in Nat \ stop : m[next[o]] < m[o]
    BY <1>2, Sizes
  <2> HIDE DEF stop, base, next, step, m
  <2>. QED  BY <2>1, <2>2, <2>3, <2>4, <2>5, <2>6 DEF Recursion
<1>4. PICK h \in [Nat -> ScanResult] : Satisfies(h, Nat, stop, base, next, step)
  <2>1. Size + 1 \in Nat /\ \A o \in Nat : m[o] < Size + 1
    BY Sizes
  <2> HIDE DEF stop, base, next, step, m
  <2>. QED  BY <1>3, <2>1, RecursionIsDefined
<1>5. Sol(h)
  <2>1. ASSUME NEW o \in Nat
        PROVE  h[o] = IF o < 1 \/ o >= Size THEN [log |-> <<>>, end |-> o]
             ELSE IF ValidNode(f, tl, s, o)
             THEN [h[o + NodeLength(f[s][o].op, f[s][o].n)] EXCEPT !.log =
                     << [op |-> f[s][o].op, n |-> f[s][o].n, sec |-> s, off |-> o] >> \o @]
             ELSE IF o % Page = 0 /\ PageEmpty(f, s, o)
             THEN [log |-> <<>>, end |-> o]
             ELSE h[NextPage(o)]
    <3>1. h[o] = IF o \in stop THEN base[o] ELSE step[<<o, h[next[o]]>>]
      BY <1>4, Zenon DEF Satisfies
    <3>2. CASE o \in stop
      BY <3>1, <3>2 DEF ScanEnds
    <3>3. CASE o \notin stop
      <4>1. next[o] = ScanNext(f, tl, s, o) /\ next[o] \in Nat /\ h[next[o]] \in ScanResult
        BY <1>2, <1>4, <3>3
      <4>2. h[o] = [h[next[o]] EXCEPT !.log = ScanLog(f, tl, s, o, @)]
        BY <3>1, <3>3, <4>1
      <4>3. o \in 1 .. Size - 1
        BY <1>2, <3>3
      <4>4. CASE ValidNode(f, tl, s, o)
        <5>1. next[o] = o + NodeLength(f[s][o].op, f[s][o].n)
          BY <4>1, <4>4 DEF ScanNext
        <5>2. h[o] = [h[next[o]] EXCEPT !.log =
                << [op |-> f[s][o].op, n |-> f[s][o].n, sec |-> s, off |-> o] >> \o @]
          BY <4>2, <4>4, Zenon DEF ScanLog
        <5>3. ~(o < 1 \/ o >= Size)
          BY <4>3, Sizes
        <5> HIDE DEF next
        <5>. QED  BY <4>4, <5>1, <5>2, <5>3, Zenon
      <4>5. CASE ~ValidNode(f, tl, s, o)
        <5>1. h[o] = h[NextPage(o)]
          BY <4>1, <4>2, <4>5 DEF ScanNext, ScanLog, ScanResult
        <5>. QED  BY <3>3, <4>3, <4>5, <5>1 DEF ScanEnds
      <4>. QED  BY <4>4, <4>5
    <3>. QED  BY <3>2, <3>3
  <2>2. h = [o \in Nat |-> h[o]]
    BY <1>4
  <2> HIDE DEF stop, base, next, step, m
  <2>. QED  BY <2>1, <2>2
<1>6. ASSUME NEW g, Sol(g) PROVE g = h
  <2>1. g = [o \in Nat |-> g[o]] /\ h = [o \in Nat |-> h[o]]
    BY <1>4, <1>6
  <2>2. ASSUME NEW o \in Nat, o \in stop PROVE g[o] = h[o]
    BY <1>5, <1>6, <2>2 DEF ScanEnds
  <2>3. ASSUME NEW o \in Nat, o \notin stop
        PROVE  /\ next[o] \in Nat /\ m[next[o]] < m[o]
               /\ g[next[o]] = h[next[o]] => g[o] = h[o]
    <3>1. next[o] \in Nat /\ m[next[o]] < m[o]
      BY <1>3, <2>3 DEF Recursion
    <3>2. next[o] = ScanNext(f, tl, s, o) /\ o \in 1 .. Size - 1
      BY <1>2, <2>3
    <3>3. ~(o < 1 \/ o >= Size)
      BY <3>2, Sizes
    <3>4. CASE ValidNode(f, tl, s, o)
      <4>1. next[o] = o + NodeLength(f[s][o].op, f[s][o].n)
        BY <3>2, <3>4 DEF ScanNext
      <4>2. \A x \in {g, h} :
              x[o] = [x[o + NodeLength(f[s][o].op, f[s][o].n)] EXCEPT !.log =
                << [op |-> f[s][o].op, n |-> f[s][o].n, sec |-> s, off |-> o] >> \o @]
        BY <1>5, <1>6, <3>3, <3>4
      <4> HIDE DEF next, m, Sol
      <4>. QED  BY <3>1, <4>1, <4>2
    <3>5. CASE ~ValidNode(f, tl, s, o)
      <4>1. next[o] = NextPage(o)
        BY <3>2, <3>5 DEF ScanNext
      <4>2. ~(o % Page = 0 /\ PageEmpty(f, s, o))
        BY <2>3, <3>5 DEF ScanEnds
      <4> HIDE DEF next
      <4>. QED  BY <1>5, <1>6, <3>1, <3>3, <3>5, <4>1, <4>2, Zenon
    <3>. QED  BY <3>4, <3>5
  <2>4. m \in [Nat -> Nat]
    BY <1>3 DEF Recursion
  <2> HIDE DEF stop, base, next, step, m, Sol
  <2>5. \A o \in Nat : o \in stop => g[o] = h[o]
    BY <2>2
  <2>6. \A o \in Nat : o \notin stop =>
          /\ next[o] \in Nat /\ m[next[o]] < m[o]
          /\ g[next[o]] = h[next[o]] => g[o] = h[o]
    BY <2>3
  <2>7. Agreeing(Nat, m, stop, next, g, h)
    BY <2>1, <2>4, <2>5, <2>6 DEF Agreeing
  <2>. QED  BY <2>7, SolutionsAgree
<1>7. (CHOOSE g : Sol(g)) = h
  <2> HIDE DEF Sol
  <2>. QED  BY <1>5, <1>6
<1>8. ASSUME NEW o \in Nat
      PROVE  h[o] = IF ScanEnds(f, tl, s, o) THEN [log |-> <<>>, end |-> o]
                    ELSE LET r == h[ScanNext(f, tl, s, o)]
                         IN  [r EXCEPT !.log = ScanLog(f, tl, s, o, @)]
  <2>1. h[o] = IF o \in stop THEN base[o] ELSE step[<<o, h[next[o]]>>]
    BY <1>4, Zenon DEF Satisfies
  <2>2. CASE ScanEnds(f, tl, s, o)
    BY <2>1, <2>2
  <2>3. CASE ~ScanEnds(f, tl, s, o)
    BY <1>2, <1>4, <2>1, <2>3
  <2>. QED  BY <2>2, <2>3
<1> HIDE DEF Sol, stop, base, next, step, m
<1>9. IsScan(h, f, tl, s)
  BY <1>1, <1>7, <1>8 DEF IsScan
<1>. QED  BY <1>4, <1>9

LEMMA ScanTyped ==
  ASSUME NEW f \in Flash, NEW tl \in Section, NEW s \in Section, f[s][0].u = "head"
  PROVE  ScanSection(f, tl, s) \in ScanResult
<1>1. f[s][0] \in Unit
  BY Sizes DEF Flash
<1>2. f[s][0].node_offset \in Nat
  BY <1>1, UnitKinds, Sizes
<1>3. PICK g \in [Nat -> ScanResult] : IsScan(g, f, tl, s)
  BY ScanUnfolds
<1>. QED  BY <1>2, <1>3 DEF IsScan

(* What erases a section leaves, and what programming it page by page.     *)
Blank(f, s) == \A i \in 0 .. Size - 1 : f[s][i] = Erased

ErasedFrom(f, s, o) == \A i \in o .. Size - 1 : f[s][i] = Erased

(* Behind the head there is, from node_offset on, no page that begins with *)
(* an erased unit before one that does not.                                *)
Packed(f, s) ==
  /\ f[s][0].u = "head"
  /\ \A p \in 1 .. Size - 1 :
       p % Page = 0 /\ p >= f[s][0].node_offset /\ f[s][p] = Erased => ErasedFrom(f, s, p)

LEMMA PagesFit ==
  ASSUME NEW p \in 0 .. Size - 1, p % Page = 0
  PROVE  p + Page <= Size
<1>1. Page \in Nat /\ Page >= 1 /\ Size \in Nat /\ Size % Page = 0 /\ p \in Nat /\ Size > p
  BY Sizes, SizesAssumption
<1>2. Size >= p - (p % Page) + Page
  BY <1>1, PageAfter
<1>. QED  BY <1>1, <1>2

LEMMA NextSections ==
  ASSUME NEW s \in Section
  PROVE  /\ get_next_section(s) \in Section /\ get_next_section(s) # s
         /\ get_prev_section(s) \in Section
         /\ get_prev_section(get_next_section(s)) = s
BY Sizes DEF Section, get_next_section, get_prev_section

(* A node found in the tail section ends before the erased rest of it.     *)
LEMMA NodeInTail ==
  ASSUME NEW f \in Flash, NEW s \in Section, NEW o \in 1 .. Size - 1,
         ValidNode(f, s, s, o)
  PROVE  LET end == o + NodeLength(f[s][o].op, f[s][o].n)
         IN  /\ end <= Size - 1 + Crc
             /\ \A p \in o .. Size - 1 : ErasedFrom(f, s, p) => end <= p
<1>1. f[s][o] \in Unit
  BY Sizes DEF Flash
<1> DEFINE op == f[s][o].op
           n == f[s][o].n
           at == Behind(s, o, 1 + BodyLen(op, n))
<1>2. op \in Op /\ n \in Node /\ f[s][o] # Erased
  BY <1>1, UnitKinds DEF ValidNode, Erased
<1>3. PICK d \in Nat : d = BodyLen(op, n) /\ NodeLength(op, n) = 1 + d + Crc
  BY <1>2, NodeLengths
<1>4. /\ at[1] = s
      /\ \A i \in 1 .. Crc : LET c == Behind(at[1], at[2], i - 1)
                             IN  f[c[1]][c[2]] = CrcOf(op, n, i)
  BY DEF ValidNode
<1>5. o + (1 + d) < Size /\ at = << s, o + (1 + d) >>
  <2>1. ~(o + (1 + d) >= Size)
    BY <1>3, <1>4, NextSections DEF Behind
  <2>. QED  BY <2>1, <1>3, Sizes DEF Behind
<1>6. \A i \in 1 .. Crc : LET c == Behind(s, o + (1 + d), i - 1)
                          IN  f[c[1]][c[2]] = CrcOf(op, n, i)
  <2>1. at[1] = s /\ at[2] = o + (1 + d)
    BY <1>5
  <2> HIDE DEF op, n, at
  <2>. QED  BY <1>4, <2>1
<1> HIDE DEF op, n, at
<1>7. ASSUME NEW p \in o .. Size - 1, ErasedFrom(f, s, p), o + (1 + d + Crc) > p
      PROVE  FALSE
  <2>1. f[s][p] = Erased
    BY <1>7, Sizes DEF ErasedFrom
  <2>2. o # p
    BY <2>1, <1>2
  <2>3. CASE p < o + (1 + d)
    <3>1. o + (1 + d) \in p .. Size - 1
      BY <2>3, <1>5, Sizes
    <3>2. f[s][o + (1 + d)] = Erased
      BY <3>1, <1>7 DEF ErasedFrom
    <3>3. Behind(s, o + (1 + d), 1 - 1) = << s, o + (1 + d) >>
      BY <1>5, Sizes DEF Behind
    <3>4. f[s][o + (1 + d)] = CrcOf(op, n, 1)
      BY <1>6, <3>3, Sizes
    <3>. QED  BY <3>2, <3>4 DEF Erased, CrcOf
  <2>4. CASE p >= o + (1 + d)
    <3>1. PICK i \in 1 .. Crc : p = o + (1 + d) + (i - 1)
      <4>1. p - (o + (1 + d)) + 1 \in 1 .. Crc
        BY <2>4, <1>7, Sizes
      <4>. QED  BY <4>1, Sizes
    <3>2. Behind(s, o + (1 + d), i - 1) = << s, p >>
      BY <3>1, Sizes DEF Behind
    <3>3. f[s][p] = CrcOf(op, n, i)
      BY <1>6, <3>2
    <3>. QED  BY <2>1, <3>3 DEF Erased, CrcOf
  <2>. QED  BY <2>3, <2>4, Sizes
<1>8. o + NodeLength(op, n) = o + (1 + d + Crc)
  BY <1>3
<1>9. o + (1 + d + Crc) <= Size - 1 + Crc
  BY <1>5, Sizes
<1>10. \A p \in o .. Size - 1 : ErasedFrom(f, s, p) => o + (1 + d + Crc) <= p
  BY <1>7, Sizes
<1>. QED  BY <1>8, <1>9, <1>10 DEF op, n


(* Where the scan of the tail section ends: at its end, or at a page from  *)
(* which on nothing was programmed, and behind every page that was.        *)
ScannedTail(f, s, o, end) ==
  /\ end >= o
  /\ end < Size => end % Page = 0 /\ PageEmpty(f, s, end)
  /\ Crc = 1 /\ o <= Size => end <= Size
  /\ \A p \in 1 .. Size - 1 :
       p >= o /\ p % Page = 0 /\ ErasedFrom(f, s, p) => end <= p

LEMMA ScanOfTail ==
  ASSUME NEW f \in Flash, NEW s \in Section, f[s][0].u = "head"
  PROVE  ScannedTail(f, s, f[s][0].node_offset, ScanSection(f, s, s).end)
<1>1. f[s][0].node_offset \in Nat /\ f[s][0].node_offset >= 1
  <2>1. f[s][0] \in Unit
    BY Sizes DEF Flash
  <2>. QED  BY <2>1, UnitKinds, Sizes
<1>2. PICK g \in [Nat -> ScanResult] : IsScan(g, f, s, s)
  BY ScanUnfolds
<1> USE DEF IsScan
<1> DEFINE Good == { o \in Nat : o >= 1 => ScannedTail(f, s, o, g[o].end) }
           m == [o \in Nat |-> IF o >= Size THEN 0 ELSE Size - o]
<1>3. ASSUME NEW o \in Nat, o >= 1, \A y \in Nat : m[y] < m[o] => y \in Good
      PROVE  ScannedTail(f, s, o, g[o].end)
  <2>1. CASE o >= Size
    <3>1. g[o].end = o
      BY <1>2, <2>1 DEF ScanEnds
    <3>. QED  BY <2>1, <3>1, Sizes DEF ScannedTail
  <2>2. CASE o < Size /\ ScanEnds(f, s, s, o)
    <3>1. g[o].end = o /\ o % Page = 0 /\ PageEmpty(f, s, o)
      BY <1>2, <1>3, <2>2, Sizes DEF ScanEnds
    <3>. QED  BY <2>2, <3>1, Sizes DEF ScannedTail
  <2>3. CASE o < Size /\ ~ScanEnds(f, s, s, o)
    <3> DEFINE q == ScanNext(f, s, s, o)
    <3>1. o \in 1 .. Size - 1
      BY <1>3, <2>3, Sizes
    <3>2. /\ q \in Nat /\ q > o
          /\ Crc = 1 => q <= Size
          /\ \A p \in 1 .. Size - 1 :
               p >= o /\ p % Page = 0 /\ ErasedFrom(f, s, p) => q <= p
      <4>1. CASE ValidNode(f, s, s, o)
        <5>1. f[s][o] \in Unit
          BY <3>1, Sizes DEF Flash
        <5>2. f[s][o].op \in Op /\ f[s][o].n \in Node
          BY <4>1, <5>1, UnitKinds DEF ValidNode
        <5>3. q = o + NodeLength(f[s][o].op, f[s][o].n)
          BY <4>1 DEF ScanNext
        <5>4. NodeLength(f[s][o].op, f[s][o].n) \in Nat /\ NodeLength(f[s][o].op, f[s][o].n) >= 1
          BY <5>2, NodeLengths
        <5>5. q <= Size - 1 + Crc /\ \A p \in o .. Size - 1 : ErasedFrom(f, s, p) => q <= p
          BY <3>1, <4>1, <5>3, NodeInTail
        <5> HIDE DEF q
        <5>. QED  BY <3>1, <5>3, <5>4, <5>5, Sizes
      <4>2. CASE ~ValidNode(f, s, s, o)
        <5>1. q = NextPage(o)
          BY <4>2 DEF ScanNext
        <5>2. q \in Nat /\ q > o /\ \A p \in Nat : p % Page = 0 /\ p > o => p >= q
          BY <5>1, PageArithmetic
        <5>3. Crc = 1 => q <= Size
          BY <2>3, <5>2, Sizes, SizesAssumption
        <5>4. ASSUME o % Page = 0, ErasedFrom(f, s, o) PROVE FALSE
          <6>1. o + Page <= Size
            BY <3>1, <5>4, PagesFit, Sizes
          <6>2. PageEmpty(f, s, o)
            BY <3>1, <5>4, <6>1, Sizes DEF PageEmpty, ErasedFrom
          <6>. QED  BY <2>3, <4>2, <5>4, <6>2 DEF ScanEnds
        <5> HIDE DEF q
        <5>. QED  BY <3>1, <5>2, <5>3, <5>4, Sizes
      <4>. QED  BY <4>1, <4>2
    <3>3. g[o].end = g[q].end
      <4>1. g[o] = [g[q] EXCEPT !.log = ScanLog(f, s, s, o, @)] /\ g[q] \in ScanResult
        BY <1>2, <2>3, <3>2
      <4>. QED  BY <4>1 DEF ScanResult
    <3>4. ScannedTail(f, s, q, g[q].end) /\ g[q].end \in Nat
      <4>1. m[q] < m[o] /\ q >= 1
        BY <3>1, <3>2, Sizes
      <4>2. q \in Good
        BY <1>3, <3>2, <4>1
      <4>3. g[q].end \in Nat
        BY <3>2 DEF ScanResult
      <4>. QED  BY <4>1, <4>2, <4>3
    <3> HIDE DEF q
    <3>. QED  BY <3>1, <3>2, <3>3, <3>4, Sizes DEF ScannedTail
  <2>. QED  BY <2>1, <2>2, <2>3, Sizes
<1>4. Nat \subseteq Good
  <2>1. m \in [Nat -> Nat]
    BY Sizes
  <2>2. \A o \in Nat : (\A y \in Nat : m[y] < m[o] => y \in Good) => o \in Good
    BY <1>3
  <2> HIDE DEF m, Good
  <2>. QED  BY <2>1, <2>2, ByMeasure
<1>. QED  BY <1>1, <1>2, <1>4


-----------------------------------------------------------------------------
(* The ends of the ring.                                                   *)

LEMMA LeastNat ==
  ASSUME NEW S, S \subseteq Nat, S # {}
  PROVE  Min(S) \in S /\ \A k \in S : Min(S) <= k
<1> DEFINE id == [k \in Nat |-> k]
<1>1. id \in [Nat -> Nat]
  OBVIOUS
<1>2. \E x \in S : \A y \in S : id[x] <= id[y]
  <2> HIDE DEF id
  <2>. QED  BY <1>1, LeastMeasure
<1>3. \E x \in S : \A y \in S : x <= y
  BY <1>2
<1> HIDE DEF id
<1>. QED  BY <1>3 DEF Min

LEMMA RingPlaces ==
  ASSUME NEW s \in Section, NEW d \in Nat
  PROVE  (s + d) % NSection \in Section
BY Sizes DEF Section

LEMMA RingReach ==
  ASSUME NEW s \in Section, NEW r \in Section
  PROVE  \E d \in 1 .. NSection : (s + d) % NSection = r
<1>1. NSection \in Nat /\ NSection >= 1 /\ s \in 0 .. NSection - 1 /\ r \in 0 .. NSection - 1
  BY Sizes DEF Section
<1>2. CASE r > s
  <2>1. r - s \in 1 .. NSection /\ s + (r - s) = r /\ r % NSection = r
    BY <1>1, <1>2
  <2>. QED  BY <2>1
<1>3. CASE r <= s
  <2>1. r - s + NSection \in 1 .. NSection /\ s + (r - s + NSection) = 1 * NSection + r
    BY <1>1, <1>3
  <2>2. (1 * NSection + r) % NSection = r
    BY <1>1, Rest
  <2>. QED  BY <2>1, <2>2
<1>. QED  BY <1>1, <1>2, <1>3

LEMMA NextValidIsNext ==
  ASSUME NEW f, NEW s \in Section, ValidSections(f) # {}
  PROVE  \E d \in 1 .. NSection :
           /\ NextValid(f, s) = (s + d) % NSection
           /\ NextValid(f, s) \in ValidSections(f)
           /\ \A e \in 1 .. d - 1 : (s + e) % NSection \notin ValidSections(f)
<1> DEFINE far == { d \in 1 .. NSection : (s + d) % NSection \in ValidSections(f) }
<1>1. far \subseteq Nat /\ far # {}
  <2>1. PICK r \in ValidSections(f) : r \in Section
    BY DEF ValidSections
  <2>. QED  BY <2>1, RingReach
<1>2. Min(far) \in far /\ \A k \in far : Min(far) <= k
  <2> HIDE DEF far
  <2>. QED  BY <1>1, LeastNat
<1>3. NextValid(f, s) = (s + Min(far)) % NSection
  BY DEF NextValid
<1>4. PICK d \in 1 .. NSection : d = Min(far) /\ (s + d) % NSection \in ValidSections(f)
  BY <1>2
<1>5. ASSUME NEW e \in 1 .. d - 1 PROVE (s + e) % NSection \notin ValidSections(f)
  <2>1. e \in 1 .. NSection /\ ~(d <= e)
    BY <1>4, Sizes
  <2>. QED  BY <1>2, <1>4, <2>1
<1>. QED  BY <1>3, <1>4, <1>5

Ascends(f, p) == f[p][0].count + 1 = f[NextValid(f, p)][0].count

IsWalk(w, f) ==
  /\ \A p \in ValidSections(f) : w[p] = IF Ascends(f, p) THEN w[NextValid(f, p)] ELSE p
  /\ HeadAndTail(f) =
       LET prev == w[Min(ValidSections(f))]
           curr == NextValid(f, prev)
           diff == (f[prev][0].count - f[curr][0].count) % CountSize
       IN  IF diff > 0 /\ diff < CountSize \div 2
           THEN [head |-> curr, tail |-> prev]
           ELSE [head |-> prev, tail |-> curr]

LEMMA ValidHeads ==
  ASSUME NEW f \in Flash, NEW s \in ValidSections(f)
  PROVE  /\ s \in Section /\ f[s][0].u = "head"
         /\ f[s][0].count \in 0 .. CountSize - 1
         /\ f[s][0].node_offset \in 1 .. Size - 1
<1>1. s \in Section /\ f[s][0].u = "head"
  BY DEF ValidSections
<1>2. f[s][0] \in Unit
  BY <1>1, Sizes DEF Flash
<1>. QED  BY <1>1, <1>2, UnitKinds

LEMMA WalkUnfolds ==
  ASSUME NEW f \in Flash, ValidSections(f) # {}
  PROVE  \E w \in [ValidSections(f) -> ValidSections(f)] : IsWalk(w, f)
<1> DEFINE V == ValidSections(f)
           stop == { p \in V : ~Ascends(f, p) }
           base == [p \in V |-> p]
           next == [p \in V |-> NextValid(f, p)]
           step == [a \in V \X V |-> a[2]]
           m == [p \in V |-> CountSize - f[p][0].count]
           Sol(g) == g = [p \in V |->
             IF f[p][0].count + 1 = f[NextValid(f, p)][0].count THEN g[NextValid(f, p)] ELSE p]
<1>1. HeadAndTail(f) =
       LET prev == (CHOOSE g : Sol(g))[Min(V)]
           curr == NextValid(f, prev)
           diff == (f[prev][0].count - f[curr][0].count) % CountSize
       IN  IF diff > 0 /\ diff < CountSize \div 2
           THEN [head |-> curr, tail |-> prev]
           ELSE [head |-> prev, tail |-> curr]
  BY DEF HeadAndTail
<1>2. ASSUME NEW p \in V
      PROVE  NextValid(f, p) \in V /\ f[p][0].count \in 0 .. CountSize - 1
  BY NextValidIsNext, ValidHeads
<1>3. Recursion(V, V, stop, base, next, step, m)
  <2>1. stop \subseteq V /\ base \in [V -> V]
    OBVIOUS
  <2>2. next \in [V -> V]
    BY <1>2
  <2>3. step \in [V \X V -> V]
    OBVIOUS
  <2>4. m \in [V -> Nat]
    BY <1>2, Sizes
  <2>5. \A p \in V \ stop : m[next[p]] < m[p]
    <3>1. SUFFICES ASSUME NEW p \in V, Ascends(f, p) PROVE m[next[p]] < m[p]
      OBVIOUS
    <3>2. next[p] = NextValid(f, p) /\ next[p] \in V
      BY <1>2
    <3>3. m[next[p]] = CountSize - f[next[p]][0].count /\ m[p] = CountSize - f[p][0].count
      BY <3>2
    <3>4. f[p][0].count + 1 = f[next[p]][0].count
      BY <3>1, <3>2 DEF Ascends
    <3> HIDE DEF V, next, m
    <3>. QED  BY <1>2, <3>2, <3>3, <3>4, Sizes
  <2> HIDE DEF V, stop, base, next, step, m
  <2>. QED  BY <2>1, <2>2, <2>3, <2>4, <2>5 DEF Recursion
<1>4. PICK h \in [V -> V] : Satisfies(h, V, stop, base, next, step)
  <2>1. CountSize + 1 \in Nat /\ \A p \in V : m[p] < CountSize + 1
    BY <1>2, Sizes
  <2> HIDE DEF V, stop, base, next, step, m
  <2>. QED  BY <1>3, <2>1, RecursionIsDefined
<1>5. ASSUME NEW p \in V
      PROVE  h[p] = IF Ascends(f, p) THEN h[NextValid(f, p)] ELSE p
  <2>1. h[p] = IF p \in stop THEN base[p] ELSE step[<<p, h[next[p]]>>]
    BY <1>4, Zenon DEF Satisfies
  <2>. QED  BY <1>2, <1>4, <2>1
<1>6. Sol(h)
  <2>1. h = [p \in V |-> h[p]]
    BY <1>4
  <2> HIDE DEF V
  <2>. QED  BY <1>5, <2>1 DEF Ascends
<1>7. ASSUME NEW g, Sol(g) PROVE g = h
  <2>1. g = [p \in V |-> g[p]] /\ h = [p \in V |-> h[p]]
    BY <1>4, <1>7
  <2>2. \A p \in V : p \in stop => g[p] = h[p]
    BY <1>6, <1>7 DEF Ascends
  <2>3. \A p \in V : p \notin stop =>
          /\ next[p] \in V /\ m[next[p]] < m[p]
          /\ g[next[p]] = h[next[p]] => g[p] = h[p]
    <3>1. SUFFICES ASSUME NEW p \in V, p \notin stop
                   PROVE  /\ next[p] \in V /\ m[next[p]] < m[p]
                          /\ g[next[p]] = h[next[p]] => g[p] = h[p]
      OBVIOUS
    <3>2. next[p] \in V /\ m[next[p]] < m[p]
      BY <1>3, <3>1 DEF Recursion
    <3>3. next[p] = NextValid(f, p)
      OBVIOUS
    <3>4. g[p] = g[NextValid(f, p)] /\ h[p] = h[NextValid(f, p)]
      BY <1>6, <1>7, <3>1 DEF Ascends
    <3> HIDE DEF V, next, m
    <3>. QED  BY <3>2, <3>3, <3>4
  <2>4. m \in [V -> Nat]
    BY <1>3 DEF Recursion
  <2> HIDE DEF V, stop, base, next, step, m, Sol
  <2>5. Agreeing(V, m, stop, next, g, h)
    BY <2>1, <2>2, <2>3, <2>4 DEF Agreeing
  <2>. QED  BY <2>5, SolutionsAgree
<1>8. (CHOOSE g : Sol(g)) = h
  <2> HIDE DEF Sol
  <2>. QED  BY <1>6, <1>7
<1> HIDE DEF Sol, stop, base, next, step, m
<1>9. IsWalk(h, f)
  BY <1>1, <1>5, <1>8 DEF IsWalk
<1>. QED  BY <1>4, <1>9

LEMMA EndsAreValid ==
  ASSUME NEW f \in Flash, ValidSections(f) # {}
  PROVE  /\ HeadAndTail(f).head \in ValidSections(f)
         /\ HeadAndTail(f).tail \in ValidSections(f)
<1>1. PICK w \in [ValidSections(f) -> ValidSections(f)] : IsWalk(w, f)
  BY WalkUnfolds
<1>2. Min(ValidSections(f)) \in ValidSections(f)
  <2>1. ValidSections(f) \subseteq Nat
    BY Sizes DEF ValidSections, Section
  <2>. QED  BY <2>1, LeastNat
<1>3. w[Min(ValidSections(f))] \in ValidSections(f)
  BY <1>2
<1>4. \A p \in ValidSections(f) : NextValid(f, p) \in ValidSections(f)
  BY NextValidIsNext, ValidHeads
<1>. QED  BY <1>1, <1>3, <1>4 DEF IsWalk


-----------------------------------------------------------------------------
(* The lists, and what the nodes found make of them.                       *)

LEMMA Removed ==
  ASSUME NEW T, NEW q \in Seq(T), NEW i \in DOMAIN q
  PROVE  /\ RemoveAt(q, i) \in Seq(T)
         /\ Len(RemoveAt(q, i)) = Len(q) - 1
         /\ \A j \in 1 .. Len(q) - 1 :
              RemoveAt(q, i)[j] = IF j < i THEN q[j] ELSE q[j + 1]
<1>1. i \in 1 .. Len(q) /\ Len(q) \in Nat
  BY LenProperties
<1> DEFINE a == SubSeq(q, 1, i - 1)
           b == SubSeq(q, i + 1, Len(q))
<1>2. a \in Seq(T) /\ Len(a) = i - 1 /\ \A j \in 1 .. i - 1 : a[j] = q[j]
  BY <1>1
<1>3. b \in Seq(T) /\ Len(b) = Len(q) - i /\ \A j \in 1 .. Len(q) - i : b[j] = q[j + i]
  BY <1>1
<1>4. RemoveAt(q, i) = a \o b
  BY DEF RemoveAt
<1> HIDE DEF a, b
<1>5. a \o b \in Seq(T) /\ Len(a \o b) = Len(a) + Len(b)
  BY <1>2, <1>3, ConcatProperties
<1>6. ASSUME NEW j \in 1 .. Len(q) - 1
      PROVE  (a \o b)[j] = IF j < i THEN q[j] ELSE q[j + 1]
  <2>1. CASE j < i
    <3>1. j \in 1 .. i - 1 /\ j <= Len(a) /\ j \in 1 .. Len(a) + Len(b)
      BY <1>1, <1>2, <1>3, <2>1
    <3>2. (a \o b)[j] = a[j]
      BY <1>2, <1>3, <3>1, ConcatProperties
    <3>. QED  BY <1>2, <2>1, <3>1, <3>2
  <2>2. CASE j >= i
    <3>1. j - (i - 1) \in 1 .. Len(q) - i /\ ~(j <= Len(a)) /\ j \in 1 .. Len(a) + Len(b)
      <4>1. Len(a) = i - 1 /\ Len(b) = Len(q) - i
        BY <1>2, <1>3, Zenon
      <4>2. j - (i - 1) \in 1 .. Len(q) - i /\ ~(j <= i - 1)
        BY <1>1, <2>2
      <4>3. j \in 1 .. (i - 1) + (Len(q) - i)
        BY <1>1
      <4>. QED  BY <4>1, <4>2, <4>3, Zenon
    <3>2. (a \o b)[j] = b[j - Len(a)]
      BY <1>2, <1>3, <3>1, ConcatProperties
    <3>3. b[j - (i - 1)] = q[(j - (i - 1)) + i]
      BY <1>3, <3>1, Zenon
    <3>4. (j - (i - 1)) + i = j + 1 /\ ~(j < i)
      BY <1>1, <2>2
    <3>5. b[j - Len(a)] = q[j + 1]
      BY <1>2, <3>3, <3>4, Zenon
    <3>. QED  BY <3>2, <3>4, <3>5, Zenon
  <2>3. j < i \/ j >= i
    BY <1>1
  <2>. QED  BY <2>1, <2>2, <2>3, Zenon
<1>7. RemoveAt(q, i) \in Seq(T) /\ Len(RemoveAt(q, i)) = Len(q) - 1
  <2>1. Len(a) + Len(b) = Len(q) - 1
    BY <1>1, <1>2, <1>3
  <2>. QED  BY <1>4, <1>5, <2>1, Zenon
<1>8. \A j \in 1 .. Len(q) - 1 : RemoveAt(q, i)[j] = IF j < i THEN q[j] ELSE q[j + 1]
  BY <1>4, <1>6, Zenon
<1>. QED  BY <1>7, <1>8, Zenon

LEMMA ListsTyped ==
  ASSUME NEW l \in Lists, NEW n \in Node
  PROVE  /\ ListDel(l, n) \in Lists
         /\ \A s \in Section, o \in 1 .. Size - 1 : ListPush(l, s, n, o) \in Lists
<1>1. ListDel(l, n) \in Lists
  <2>1. ASSUME NEW s \in Section, NEW at, at = { i \in DOMAIN l[s] : SameNode(l[s][i].n, n) },
               at # {}
        PROVE  RemoveAt(l[s], CHOOSE i \in at : TRUE) \in Seq(Entry)
    <3>1. (CHOOSE i \in at : TRUE) \in DOMAIN l[s] /\ l[s] \in Seq(Entry)
      BY <2>1 DEF Lists
    <3>. QED  BY <3>1, Removed
  <2>. QED  BY <2>1 DEF ListDel, Lists
<1>2. ASSUME NEW s \in Section, NEW o \in 1 .. Size - 1
      PROVE  ListPush(l, s, n, o) \in Lists
  <2>1. [n |-> n, off |-> o] \in Entry /\ l[s] \in Seq(Entry)
    BY DEF Entry, Lists
  <2>2. Append(l[s], [n |-> n, off |-> o]) \in Seq(Entry)
    BY <2>1, AppendProperties
  <2>. QED  BY <2>2 DEF ListPush, Lists
<1>. QED  BY <1>1, <1>2

LEMMA EmptyListsTyped == EmptyLists \in Lists
BY DEF EmptyLists, Lists

LEMMA ParsedTyped ==
  ASSUME NEW l \in Lists, NEW e \in LogEntry
  PROVE  ParseNode(l, e) \in Lists
<1>1. e.n \in Node /\ e.sec \in Section /\ e.off \in 1 .. Size - 1
  BY DEF LogEntry
<1>2. ListDel(l, e.n) \in Lists
  BY <1>1, ListsTyped
<1>. QED  BY <1>1, <1>2, ListsTyped DEF ParseNode

(* A recursion that counts up from 0.                                      *)
Counts(h, n, a, step) ==
  h[0] = a /\ \A i \in 1 .. n : h[i] = step[<<i, h[i - 1]>>]

LEMMA CountingIsDefined ==
  ASSUME NEW n \in Nat, NEW T, NEW a \in T, NEW step \in [(1 .. n) \X T -> T]
  PROVE  \E h \in [0 .. n -> T] : Counts(h, n, a, step)
<1> DEFINE S == 0 .. n
           stop == {0}
           base == [i \in S |-> a]
           next == [i \in S |-> IF i = 0 THEN 0 ELSE i - 1]
           st == [b \in S \X T |-> IF b[1] = 0 THEN a ELSE step[b]]
           m == [i \in S |-> i]
<1>1. Recursion(S, T, stop, base, next, st, m)
  <2>1. st \in [S \X T -> T]
    <3>1. ASSUME NEW b \in S \X T, b[1] # 0 PROVE b \in (1 .. n) \X T
      <4>1. b[1] \in 1 .. n /\ b[2] \in T /\ b = <<b[1], b[2]>>
        BY <3>1
      <4>. QED  BY <4>1
    <3>. QED  BY <3>1
  <2>2. stop \subseteq S /\ base \in [S -> T] /\ next \in [S -> S] /\ m \in [S -> Nat]
    OBVIOUS
  <2>3. \A x \in S \ stop : m[next[x]] < m[x]
    OBVIOUS
  <2> HIDE DEF S, stop, base, next, st, m
  <2>. QED  BY <2>1, <2>2, <2>3 DEF Recursion
<1>2. PICK h \in [S -> T] : Satisfies(h, S, stop, base, next, st)
  <2>1. n + 1 \in Nat /\ \A i \in S : m[i] < n + 1
    OBVIOUS
  <2> HIDE DEF S, stop, base, next, st, m
  <2>. QED  BY <1>1, <2>1, RecursionIsDefined
<1>3. \A i \in S : h[i] = IF i \in stop THEN base[i] ELSE st[<<i, h[next[i]]>>]
  BY <1>2, Zenon DEF Satisfies
<1>4. h[0] = a
  <2>1. 0 \in S /\ 0 \in stop /\ base[0] = a
    OBVIOUS
  <2> HIDE DEF S, stop, base, st, next
  <2>. QED  BY <1>3, <2>1
<1>5. ASSUME NEW i \in 1 .. n PROVE h[i] = step[<<i, h[i - 1]>>]
  <2>1. i \in S /\ i - 1 \in S /\ next[i] = i - 1 /\ i \notin stop
    OBVIOUS
  <2>2. h[i] = st[<<i, h[i - 1]>>]
    BY <1>3, <2>1
  <2>3. h[i - 1] \in T /\ <<i, h[i - 1]>> \in S \X T /\ <<i, h[i - 1]>>[1] = i
    BY <2>1
  <2>. QED  BY <2>2, <2>3
<1>. QED  BY <1>4, <1>5 DEF Counts

CountAlike(n, g, h) ==
  /\ g = [i \in 0 .. n |-> g[i]] /\ h = [i \in 0 .. n |-> h[i]]
  /\ g[0] = h[0]
  /\ \A i \in 1 .. n : g[i - 1] = h[i - 1] => g[i] = h[i]

LEMMA CountsAgree ==
  ASSUME NEW n \in Nat, NEW g, NEW h, CountAlike(n, g, h)
  PROVE  g = h
<1> DEFINE S == 0 .. n
           stop == {0}
           next == [i \in S |-> IF i = 0 THEN 0 ELSE i - 1]
           m == [i \in S |-> i]
<1>1. m \in [S -> Nat] /\ \A x \in S : x \in stop => g[x] = h[x]
  BY DEF CountAlike
<1>2. \A x \in S : x \notin stop =>
       /\ next[x] \in S /\ m[next[x]] < m[x]
       /\ g[next[x]] = h[next[x]] => g[x] = h[x]
  <2>1. ASSUME NEW x \in S, x \notin stop
        PROVE  /\ next[x] \in S /\ m[next[x]] < m[x]
               /\ g[next[x]] = h[next[x]] => g[x] = h[x]
    <3>1. x \in 1 .. n
      BY <2>1
    <3>2. next[x] = x - 1 /\ x - 1 \in S /\ m[x - 1] = x - 1 /\ m[x] = x
      BY <3>1
    <3>3. g[x - 1] = h[x - 1] => g[x] = h[x]
      BY <3>1 DEF CountAlike
    <3>4. m[next[x]] < m[x]
      BY <3>1, <3>2
    <3> HIDE DEF S, next, m
    <3>. QED  BY <3>2, <3>3, <3>4
  <2>. QED  BY <2>1
<1>3. g = [i \in S |-> g[i]] /\ h = [i \in S |-> h[i]]
  BY DEF CountAlike
<1> HIDE DEF S, stop, next, m
<1>4. Agreeing(S, m, stop, next, g, h)
  BY <1>1, <1>2, <1>3 DEF Agreeing
<1>. QED  BY <1>4, SolutionsAgree


IsLog(h, f, tl) ==
  /\ LogOf(f, tl) = h[NSection]
  /\ h[0] = <<>>
  /\ \A d \in 1 .. NSection :
       h[d] = IF (tl + d) % NSection \in ValidSections(f)
              THEN h[d - 1] \o ScanSection(f, tl, (tl + d) % NSection).log
              ELSE h[d - 1]

LEMMA LogUnfolds ==
  ASSUME NEW f \in Flash, NEW tl \in Section
  PROVE  \E h \in [0 .. NSection -> Seq(LogEntry)] : IsLog(h, f, tl)
<1> DEFINE T == Seq(LogEntry)
           Grow(d, log) == IF (tl + d) % NSection \in ValidSections(f)
                           THEN log \o ScanSection(f, tl, (tl + d) % NSection).log
                           ELSE log
           step == [b \in (1 .. NSection) \X T |-> Grow(b[1], b[2])]
           Sol(g) == g = [d \in 0 .. NSection |->
             IF d = 0 THEN <<>>
             ELSE IF (tl + d) % NSection \in ValidSections(f)
             THEN g[d - 1] \o ScanSection(f, tl, (tl + d) % NSection).log
             ELSE g[d - 1]]
<1>1. LogOf(f, tl) = (CHOOSE g : Sol(g))[NSection]
  BY DEF LogOf
<1>2. NSection \in Nat
  BY Sizes
<1>3. step \in [(1 .. NSection) \X T -> T]
  <2>1. ASSUME NEW d \in 1 .. NSection, NEW log \in T PROVE Grow(d, log) \in T
    <3>1. CASE (tl + d) % NSection \in ValidSections(f)
      <4>1. (tl + d) % NSection \in Section /\ f[(tl + d) % NSection][0].u = "head"
        BY <3>1, ValidHeads
      <4>2. ScanSection(f, tl, (tl + d) % NSection) \in ScanResult
        BY <4>1, ScanTyped
      <4>3. ScanSection(f, tl, (tl + d) % NSection).log \in T
        BY <4>2 DEF ScanResult
      <4>. QED  BY <3>1, <4>3, ConcatProperties
    <3>2. CASE (tl + d) % NSection \notin ValidSections(f)
      BY <3>2
    <3>. QED  BY <3>1, <3>2
  <2> HIDE DEF Grow, T
  <2>. QED  BY <2>1
<1>4. <<>> \in T
  OBVIOUS
<1>5. PICK h \in [0 .. NSection -> T] : Counts(h, NSection, <<>>, step)
  <2> HIDE DEF T, step
  <2>. QED  BY <1>2, <1>3, <1>4, CountingIsDefined
<1>6. h[0] = <<>> /\ \A d \in 1 .. NSection : h[d] = Grow(d, h[d - 1])
  <2>1. ASSUME NEW d \in 1 .. NSection PROVE h[d] = Grow(d, h[d - 1])
    <3>1. h[d] = step[<<d, h[d - 1]>>]
      BY <1>5 DEF Counts
    <3>2. h[d - 1] \in T
      BY <1>2, <1>5
    <3> HIDE DEF Grow, T
    <3>. QED  BY <3>1, <3>2
  <2>2. h[0] = <<>>
    BY <1>5 DEF Counts
  <2>. QED  BY <2>1, <2>2
<1>7. Sol(h)
  <2>1. h = [d \in 0 .. NSection |-> h[d]]
    BY <1>5
  <2>2. ASSUME NEW d \in 0 .. NSection
        PROVE  h[d] = IF d = 0 THEN <<>> ELSE Grow(d, h[d - 1])
    <3>1. d = 0 \/ (d # 0 /\ d \in 1 .. NSection)
      BY <1>2
    <3> HIDE DEF Grow
    <3>. QED  BY <1>6, <3>1
  <2>. QED  BY <2>1, <2>2
<1>8. ASSUME NEW g, Sol(g) PROVE g = h
  <2>1. g = [d \in 0 .. NSection |-> g[d]] /\ h = [d \in 0 .. NSection |-> h[d]]
    BY <1>5, <1>8
  <2>2. g[0] = h[0]
    BY <1>2, <1>6, <1>8
  <2>3. ASSUME NEW d \in 1 .. NSection PROVE g[d] = Grow(d, g[d - 1])
    <3>1. d # 0 /\ d \in 0 .. NSection
      BY <1>2
    <3>. QED  BY <1>8, <3>1
  <2>4. \A d \in 1 .. NSection : g[d - 1] = h[d - 1] => g[d] = h[d]
    <3> HIDE DEF Grow, Sol
    <3>. QED  BY <1>6, <2>3
  <2> HIDE DEF Grow, Sol
  <2>5. CountAlike(NSection, g, h)
    BY <2>1, <2>2, <2>4 DEF CountAlike
  <2>. QED  BY <1>2, <2>5, CountsAgree
<1>9. (CHOOSE g : Sol(g)) = h
  <2> HIDE DEF Sol
  <2>. QED  BY <1>7, <1>8
<1>10. IsLog(h, f, tl)
  <2> HIDE DEF Sol
  <2>. QED  BY <1>1, <1>6, <1>9 DEF IsLog
<1>. QED  BY <1>5, <1>10

IsReplay(h, log) ==
  /\ LoadedLists(log) = h[Len(log)]
  /\ h[0] = EmptyLists
  /\ \A i \in 1 .. Len(log) : h[i] = ParseNode(h[i - 1], log[i])

LEMMA ReplayUnfolds ==
  ASSUME NEW log \in Seq(LogEntry)
  PROVE  \E h \in [0 .. Len(log) -> Lists] : IsReplay(h, log)
<1> DEFINE step == [b \in (1 .. Len(log)) \X Lists |-> ParseNode(b[2], log[b[1]])]
           Sol(g) == g = [i \in 0 .. Len(log) |->
             IF i = 0 THEN EmptyLists ELSE ParseNode(g[i - 1], log[i])]
<1>1. LoadedLists(log) = (CHOOSE g : Sol(g))[Len(log)]
  BY DEF LoadedLists
<1>2. Len(log) \in Nat
  OBVIOUS
<1>3. step \in [(1 .. Len(log)) \X Lists -> Lists]
  <2>1. ASSUME NEW i \in 1 .. Len(log), NEW l \in Lists PROVE ParseNode(l, log[i]) \in Lists
    BY ParsedTyped
  <2>. QED  BY <2>1
<1>4. PICK h \in [0 .. Len(log) -> Lists] : Counts(h, Len(log), EmptyLists, step)
  <2> HIDE DEF step
  <2>. QED  BY <1>2, <1>3, EmptyListsTyped, CountingIsDefined
<1>5. h[0] = EmptyLists /\ \A i \in 1 .. Len(log) : h[i] = ParseNode(h[i - 1], log[i])
  <2>1. ASSUME NEW i \in 1 .. Len(log) PROVE h[i] = ParseNode(h[i - 1], log[i])
    <3>1. h[i] = step[<<i, h[i - 1]>>]
      BY <1>4 DEF Counts
    <3>2. h[i - 1] \in Lists
      BY <1>2, <1>4
    <3>. QED  BY <3>1, <3>2
  <2>2. h[0] = EmptyLists
    BY <1>4 DEF Counts
  <2>. QED  BY <2>1, <2>2
<1>6. Sol(h)
  <2>1. h = [i \in 0 .. Len(log) |-> h[i]]
    BY <1>4
  <2>2. \A i \in 0 .. Len(log) : h[i] = IF i = 0 THEN EmptyLists ELSE ParseNode(h[i - 1], log[i])
    BY <1>2, <1>5
  <2>. QED  BY <2>1, <2>2
<1>7. ASSUME NEW g, Sol(g) PROVE g = h
  <2>1. g = [i \in 0 .. Len(log) |-> g[i]] /\ h = [i \in 0 .. Len(log) |-> h[i]]
    BY <1>4, <1>7
  <2>2. g[0] = h[0]
    BY <1>2, <1>5, <1>7
  <2>3. \A i \in 1 .. Len(log) : g[i] = ParseNode(g[i - 1], log[i])
    BY <1>2, <1>7
  <2>4. \A i \in 1 .. Len(log) : g[i - 1] = h[i - 1] => g[i] = h[i]
    BY <1>5, <2>3
  <2> HIDE DEF Sol
  <2>5. CountAlike(Len(log), g, h)
    BY <2>1, <2>2, <2>4 DEF CountAlike
  <2>. QED  BY <1>2, <2>5, CountsAgree
<1>8. (CHOOSE g : Sol(g)) = h
  <2> HIDE DEF Sol
  <2>. QED  BY <1>6, <1>7
<1>9. IsReplay(h, log)
  <2> HIDE DEF Sol
  <2>. QED  BY <1>1, <1>5, <1>8 DEF IsReplay
<1>. QED  BY <1>4, <1>9

LEMMA LoadedTyped ==
  ASSUME NEW f \in Flash, NEW tl \in Section
  PROVE  LogOf(f, tl) \in Seq(LogEntry) /\ LoadedLists(LogOf(f, tl)) \in Lists
<1>1. LogOf(f, tl) \in Seq(LogEntry)
  <2>1. PICK h \in [0 .. NSection -> Seq(LogEntry)] : IsLog(h, f, tl)
    BY LogUnfolds
  <2>2. NSection \in 0 .. NSection
    BY Sizes
  <2>. QED  BY <2>1, <2>2 DEF IsLog
<1>2. PICK log \in Seq(LogEntry) : log = LogOf(f, tl)
  BY <1>1
<1>3. PICK h \in [0 .. Len(log) -> Lists] : IsReplay(h, log)
  BY ReplayUnfolds
<1>4. Len(log) \in 0 .. Len(log)
  OBVIOUS
<1>. QED  BY <1>1, <1>2, <1>3, <1>4 DEF IsReplay

LEMMA LoadedIdsTyped ==
  ASSUME NEW log \in Seq(LogEntry)
  PROVE  LoadedDirIdMax(log) \in 0 .. DirIdLimit
<1> DEFINE I == {0} \cup { log[i].n.id : i \in { j \in DOMAIN log : log[j].op = "add" } }
           m == [k \in 0 .. DirIdLimit |-> DirIdLimit - k]
<1>1. I \subseteq 0 .. DirIdLimit
  <2>1. ASSUME NEW i \in DOMAIN log PROVE log[i].n.id \in 0 .. DirIdLimit
    <3>1. log[i] \in LogEntry
      OBVIOUS
    <3>. QED  BY <3>1, NodeFields DEF LogEntry
  <2>. QED  BY <2>1, Sizes
<1>2. I # {} /\ m \in [0 .. DirIdLimit -> Nat]
  BY Sizes
<1>3. PICK k \in I : \A j \in I : m[k] <= m[j]
  <2> HIDE DEF I, m
  <2>. QED  BY <1>1, <1>2, LeastMeasure
<1>4. \A j \in I : k >= j
  <2>1. ASSUME NEW j \in I PROVE k >= j
    <3>1. j \in 0 .. DirIdLimit /\ k \in 0 .. DirIdLimit /\ m[k] <= m[j]
      BY <1>1, <1>3
    <3> HIDE DEF I
    <3>. QED  BY <3>1, Sizes
  <2>. QED  BY <2>1
<1> HIDE DEF I
<1>5. Max(I) \in I
  BY <1>4 DEF Max
<1>. QED  BY <1>1, <1>5 DEF LoadedDirIdMax, I


-----------------------------------------------------------------------------
(* What tinyfs_init makes of a flash.                                      *)

LEMMA FirstLiveTyped ==
  ASSUME NEW l, NEW s \in Section
  PROVE  FirstLiveSection(l, s) \in Section \cup {NoSection}
<1> DEFINE far == { d \in 0 .. NSection - 1 : l[(s + d) % NSection] # <<>> }
<1>1. CASE far = {}
  BY <1>1 DEF FirstLiveSection
<1>2. CASE far # {}
  <2>1. far \subseteq Nat
    BY Sizes
  <2>2. Min(far) \in far
    <3> HIDE DEF far
    <3>. QED  BY <1>2, <2>1, LeastNat
  <2>3. (s + Min(far)) % NSection \in Section
    <3>1. Min(far) \in Nat
      <4> HIDE DEF far
      <4>. QED  BY <2>1, <2>2
    <3>. QED  BY <3>1, RingPlaces
  <2>. QED  BY <1>2, <2>3 DEF FirstLiveSection
<1>. QED  BY <1>1, <1>2

Rebuilt(r) ==
  /\ r.pc \in {"idle", "hung", "failed"}
  /\ r.off \in Nat /\ r.off >= 1
  /\ IF r.off > Size THEN r.pc = "failed" ELSE r.off % Page = 0
  /\ r.head \in Section /\ r.tail \in Section
  /\ r.gc \in Section \cup {NoSection}
  /\ r.count \in 0 .. CountSize - 1 /\ r.dirIdMax \in 0 .. DirIdLimit
  /\ r.lists \in Lists

LEMMA RecoveredTyped ==
  ASSUME NEW f \in Flash
  PROVE  Rebuilt(Recovered(f))
<1>1. CASE ValidSections(f) = {}
  <2>1. Size % Page = 0 /\ 0 \in Section /\ get_prev_section(0) \in Section
    BY Sizes, SizesAssumption DEF Section, get_prev_section
  <2>. QED  BY <1>1, <2>1, EmptyListsTyped, Sizes DEF Recovered, Rebuilt
<1>2. CASE ValidSections(f) # {}
  <2> DEFINE h == HeadAndTail(f).head
             t == HeadAndTail(f).tail
             log == LogOf(f, t)
             g == FirstLiveSection(LoadedLists(log), h)
             end == ScanSection(f, t, t).end
  <2>1. /\ h \in Section /\ t \in Section /\ f[t][0].u = "head"
        /\ f[t][0].count \in 0 .. CountSize - 1 /\ f[t][0].node_offset \in 1 .. Size - 1
    BY <1>2, EndsAreValid, ValidHeads
  <2>2. log \in Seq(LogEntry) /\ LoadedLists(log) \in Lists
    BY <2>1, LoadedTyped
  <2>3. LoadedDirIdMax(log) \in 0 .. DirIdLimit
    BY <2>2, LoadedIdsTyped
  <2>4. g \in Section \cup {NoSection}
    BY <2>1, FirstLiveTyped
  <2>5. end \in Nat /\ end >= 1 /\ (end <= Size => end % Page = 0)
    <3>1. end \in Nat
      <4>1. ScanSection(f, t, t) \in ScanResult
        BY <2>1, ScanTyped
      <4>. QED  BY <4>1 DEF ScanResult
    <3>2. ScannedTail(f, t, f[t][0].node_offset, end)
      BY <2>1, ScanOfTail
    <3> HIDE DEF end, t
    <3>. QED  BY <2>1, <3>1, <3>2, Sizes, SizesAssumption DEF ScannedTail
  <2>6. Recovered(f) =
          [pc |-> IF end > Size THEN "failed" ELSE IF g = NoSection THEN "hung" ELSE "idle",
           off |-> end, head |-> h, tail |-> t, gc |-> g, count |-> f[t][0].count,
           dirIdMax |-> LoadedDirIdMax(log), lists |-> LoadedLists(log)]
    BY <1>2 DEF Recovered
  <2> HIDE DEF h, t, log, g, end
  <2>. QED  BY <2>1, <2>2, <2>3, <2>4, <2>5, <2>6, Sizes DEF Rebuilt
<1>. QED  BY <1>1, <1>2

-----------------------------------------------------------------------------
(* Type correctness.                                                       *)

Write == [op : Op, n : Node, sec : Section \cup {NoSection}, off : 0 .. Size - 1]

RamTypes ==
  /\ cache \in Seq(Unit)
  /\ off \in Nat /\ off >= 1
  /\ IF off > Size THEN pc = "failed" /\ cache = <<>> ELSE Len(cache) = off % Page
  /\ head \in Section /\ tail \in Section /\ gc \in Section \cup {NoSection}
  /\ count \in 0 .. CountSize - 1 /\ dirIdMax \in 0 .. DirIdLimit
  /\ lists \in Lists
  /\ pc \in {"idle", "next", "collect", "copy", "write", "failed", "hung"}
  /\ todo \subseteq Node

(* The collection goes on with a section and the update it is made for.    *)
CallTypes ==
  pc \in {"collect", "copy"} =>
    /\ gc \in Section
    /\ call.op \in Op \cup {"sync"}
    /\ call.op # "sync" => call.n \in Node

(* A node fits in a section, the head of the next one in front of its rest *)
(* included.                                                               *)
WriteTypes ==
  Writing =>
    /\ cur \in Write
    /\ out \in Seq(Unit \cup Copied) /\ Len(out) \in 1 .. Size - 1
    /\ cur.sec # NoSection => cur.off >= 1 /\ Len(out) <= Size - 2
    /\ pc = "write" => \A i \in 1 .. Len(out) : out[i] \in Unit \ {Erased}

TypesInv == flash \in Flash /\ RamTypes /\ CallTypes /\ WriteTypes

LEMMA LiveTyped == lists \in Lists => Live \subseteq Node
<1>1. SUFFICES ASSUME lists \in Lists, NEW s \in Section, NEW i \in DOMAIN lists[s]
               PROVE  lists[s][i].n \in Node
  BY DEF Live, NodesIn
<1>2. lists[s][i] \in Entry
  BY <1>1 DEF Lists
<1>. QED  BY <1>2 DEF Entry

LEMMA TypesImplyTypeOK == TypesInv => TypeOK
<1>1. TypesInv => Live \subseteq Node
  BY LiveTyped DEF TypesInv, RamTypes
<1>. QED  BY <1>1, Sizes DEF TypesInv, RamTypes, TypeOK

LEMMA UnitsTyped ==
  ASSUME NEW op \in Op, NEW n \in Node
  PROVE  /\ UnitsOf(op, n) \in Seq(Unit)
         /\ Len(UnitsOf(op, n)) = NodeLength(op, n)
         /\ \A i \in 1 .. Len(UnitsOf(op, n)) : UnitsOf(op, n)[i] \in Unit \ {Erased}
<1>1. PICK d \in Nat : d = BodyLen(op, n) /\ NodeLength(op, n) = 1 + d + Crc /\ 2 + d + Crc <= Size
  BY NodeLengths, Sizes
<1> DEFINE T == Unit \ {Erased}
           a == << Meta(op, n) >>
           b == [i \in 1 .. d |-> Body(op, n, i)]
           c == [i \in 1 .. Crc |-> CrcOf(op, n, i)]
<1>2. a \in Seq(T) /\ Len(a) = 1
  BY DEF Unit, Meta, Erased
<1>3. b \in Seq(T) /\ Len(b) = d
  <2>1. \A i \in 1 .. d : Body(op, n, i) \in T
    BY <1>1, BodyTyped
  <2>. QED  BY <2>1
<1>4. c \in Seq(T) /\ Len(c) = Crc
  <2>1. \A i \in 1 .. Crc : CrcOf(op, n, i) \in T
    BY <1>1, Sizes DEF Unit, CrcOf, Erased
  <2>. QED  BY <2>1, Sizes
<1>5. UnitsOf(op, n) = a \o b \o c
  BY <1>1 DEF UnitsOf
<1> HIDE DEF a, b, c, T
<1>6. a \o b \in Seq(T) /\ Len(a \o b) = 1 + d
  BY <1>2, <1>3, ConcatProperties
<1>7. a \o b \o c \in Seq(T) /\ Len(a \o b \o c) = 1 + d + Crc
  BY <1>4, <1>6, ConcatProperties
<1>8. UnitsOf(op, n) \in Seq(T)
  BY <1>5, <1>7
<1>. QED  BY <1>1, <1>5, <1>7, <1>8 DEF T

LEMMA BehindTyped ==
  ASSUME NEW s \in Section, NEW o \in 1 .. Size - 1, NEW n \in Nat, n <= Size - 1
  PROVE  /\ Behind(s, o, n) \in Section \X (1 .. Size - 1)
         /\ Behind(s, o, n)[1] \in Section /\ Behind(s, o, n)[2] \in 1 .. Size - 1
<1>1. CASE o + n >= Size
  BY <1>1, NextSections, Sizes DEF Behind
<1>2. CASE o + n < Size
  BY <1>2, NextSections, Sizes DEF Behind
<1>. QED  BY <1>1, <1>2, Sizes


LEMMA FetchedTyped ==
  ASSUME TypesInv, NEW unit \in Unit \cup Copied
  PROVE  Fetched(unit) \in Unit
<1>1. CASE unit \in Unit
  BY <1>1, UnitKinds DEF Fetched
<1>2. CASE unit \in Copied
  <2>1. unit.u = "copy" /\ unit.sec \in Section /\ unit.off \in 1 .. Size - 1
    BY <1>2 DEF Copied, CopyOf
  <2>2. CASE unit.sec = tail /\ unit.off >= off - Len(cache) /\ unit.off < off
    <3>1. unit.off - (off - Len(cache)) + 1 \in 1 .. Len(cache) /\ cache \in Seq(Unit)
      BY <2>1, <2>2, Sizes DEF TypesInv, RamTypes
    <3>. QED  BY <2>1, <2>2, <3>1 DEF Fetched, ReadUnit
  <2>3. CASE ~(unit.sec = tail /\ unit.off >= off - Len(cache) /\ unit.off < off)
    <3>1. flash[unit.sec][unit.off] \in Unit
      BY <2>1, Sizes DEF TypesInv, Flash
    <3>. QED  BY <2>1, <2>3, <3>1, Zenon DEF Fetched, ReadUnit
  <2>. QED  BY <2>2, <2>3
<1>. QED  BY <1>1, <1>2

LEMMA ProgramTyped ==
  ASSUME NEW f \in Flash, NEW s \in Section, NEW o \in Nat, NEW units \in Seq(Unit)
  PROVE  ProgramPage(f, s, o, units) \in Flash
<1>1. ASSUME NEW i \in 0 .. Size - 1
      PROVE  (IF i >= o /\ i < o + Len(units) THEN units[i - o + 1] ELSE f[s][i]) \in Unit
  <2>1. f[s][i] \in Unit
    BY DEF Flash
  <2>2. i >= o /\ i < o + Len(units) => i - o + 1 \in 1 .. Len(units)
    BY Sizes
  <2>. QED  BY <2>1, <2>2
<1>. QED  BY <1>1 DEF ProgramPage, Flash

LEMMA EraseTyped ==
  ASSUME NEW f \in Flash, NEW s \in Section
  PROVE  EraseSection(f, s) \in Flash
BY DEF EraseSection, Flash, Unit

LEMMA FlushTyped ==
  ASSUME TypesInv, off % Page # 0, pc # "failed", FlushPage
  PROVE  /\ flash' \in Flash /\ cache' = <<>>
         /\ off' \in Nat /\ off' >= 1 /\ off' <= Size /\ off' % Page = 0
         /\ off' > off
<1>1. off \in Nat /\ off < Size /\ off >= 1 /\ tail \in Section /\ cache \in Seq(Unit)
  BY Sizes, SizesAssumption DEF TypesInv, RamTypes
<1>2. NextPage(off) \in Nat /\ NextPage(off) > off /\ NextPage(off) % Page = 0
      /\ PageStart(off) \in Nat /\ NextPage(off) <= Size
  <2>1. Size \in Nat /\ Size % Page = 0 /\ Size > off
    BY <1>1, Sizes, SizesAssumption
  <2>. QED  BY <1>1, <2>1, PageArithmetic
<1>3. flash' \in Flash
  BY <1>1, <1>2, ProgramTyped DEF FlushPage, TypesInv
<1>. QED  BY <1>1, <1>2, <1>3 DEF FlushPage

LEMMA StartTyped ==
  ASSUME TypesInv, NEW op \in Op, NEW n \in Node, NEW where \in {"write", "copy"},
         NEW units \in Seq(Unit \cup Copied), Len(units) \in 1 .. Size - 1,
         where = "write" => \A i \in 1 .. Len(units) : units[i] \in Unit \ {Erased},
         StartNode(where, op, n, units)
  PROVE  WriteTypes' /\ gc' \in Section
<1>1. gc' \in Section
  BY DEF StartNode, TypesInv, RamTypes
<1>2. cur' = [op |-> op, n |-> n, sec |-> NoSection, off |-> 0] /\ out' = units /\ pc' = where
  BY DEF StartNode
<1>3. cur' \in Write /\ cur'.sec = NoSection
  BY <1>2, Sizes DEF Write
<1>. QED  BY <1>1, <1>2, <1>3 DEF WriteTypes

LEMMA BeginTyped ==
  ASSUME TypesInv, NEW op \in Op, NEW n \in Node, pc \in {"idle", "next"},
         BeginUpdate(op, n), dirIdMax' \in 0 .. DirIdLimit, todo' \subseteq Node
  PROVE  TypesInv'
<1> DEFINE l == IF op = "add" THEN ListDel(lists, n) ELSE lists
<1>1. l \in Lists
  BY ListsTyped DEF TypesInv, RamTypes
<1>2. /\ lists' = l /\ call' = [op |-> op, n |-> n]
      /\ UNCHANGED <<flash, cache, off, head, tail, count>>
  BY DEF BeginUpdate
<1>3. call'.op \in Op /\ call'.n \in Node
  BY <1>2
<1>4. CASE CollectionDue(l, NodeLength(op, n))
  <2>1. pc' = "collect" /\ gc' = gc /\ gc \in Section
    BY <1>4 DEF BeginUpdate, CollectionDue, TypesInv, RamTypes
  <2> HIDE DEF l
  <2>2. RamTypes'
    BY <1>1, <1>2, <2>1 DEF TypesInv, RamTypes
  <2>3. CallTypes' /\ WriteTypes'
    BY <1>3, <2>1 DEF CallTypes, WriteTypes, Writing
  <2>. QED  BY <1>2, <2>2, <2>3 DEF TypesInv
<1>5. CASE ~CollectionDue(l, NodeLength(op, n))
  <2>1. StartNode("write", op, n, UnitsOf(op, n))
    BY <1>5 DEF BeginUpdate
  <2>2. WriteTypes' /\ gc' \in Section
    <3>1. UnitsOf(op, n) \in Seq(Unit \cup Copied) /\ Len(UnitsOf(op, n)) \in 1 .. Size - 1
          /\ \A i \in 1 .. Len(UnitsOf(op, n)) : UnitsOf(op, n)[i] \in Unit \ {Erased}
      <4>1. UnitsOf(op, n) \in Seq(Unit)
        BY UnitsTyped
      <4>2. UnitsOf(op, n) \in Seq(Unit \cup Copied)
        BY <4>1
      <4>. QED  BY <4>2, UnitsTyped, NodeLengths, Sizes
    <3>. QED  BY <2>1, <3>1, StartTyped
  <2>3. pc' = "write"
    BY <2>1 DEF StartNode
  <2> HIDE DEF l
  <2>4. RamTypes'
    BY <1>1, <1>2, <2>2, <2>3 DEF TypesInv, RamTypes
  <2>5. CallTypes'
    BY <2>3 DEF CallTypes
  <2>. QED  BY <1>2, <2>2, <2>4, <2>5 DEF TypesInv
<1>. QED  BY <1>4, <1>5

LEMMA BelowIsLive ==
  ASSUME NEW U, NEW n \in U, Live \subseteq U
  PROVE  Below(n) \subseteq U
<1> DEFINE T == SUBSET U
           Grow(B) == B \cup UNION { Children(m) : m \in B }
           step == [b \in (1 .. NodeMax) \X T |-> Grow(b[2])]
           Sol(g) == g = [k \in 0 .. NodeMax |->
             IF k = 0 THEN {n} ELSE g[k - 1] \cup UNION { Children(m) : m \in g[k - 1] }]
<1>1. Below(n) = (CHOOSE g : Sol(g))[NodeMax]
  BY DEF Below
<1>2. NodeMax \in Nat /\ {n} \in T
  BY Sizes
<1>3. step \in [(1 .. NodeMax) \X T -> T]
  <2>1. ASSUME NEW B \in T PROVE Grow(B) \in T
    <3>1. \A m : Children(m) \subseteq U
      BY DEF Children
    <3>. QED  BY <3>1
  <2> HIDE DEF Grow, T
  <2>. QED  BY <2>1
<1>4. PICK h \in [0 .. NodeMax -> T] : Counts(h, NodeMax, {n}, step)
  <2> HIDE DEF step, T
  <2>. QED  BY <1>2, <1>3, CountingIsDefined
<1>5. h[0] = {n} /\ \A i \in 1 .. NodeMax : h[i] = Grow(h[i - 1])
  <2>1. ASSUME NEW i \in 1 .. NodeMax PROVE h[i] = Grow(h[i - 1])
    <3>1. h[i] = step[<<i, h[i - 1]>>]
      BY <1>4 DEF Counts
    <3>2. h[i - 1] \in T
      BY <1>2, <1>4
    <3> HIDE DEF Grow, T
    <3>. QED  BY <3>1, <3>2
  <2>2. h[0] = {n}
    BY <1>4 DEF Counts
  <2>. QED  BY <2>1, <2>2
<1>6. Sol(h)
  <2>1. h = [i \in 0 .. NodeMax |-> h[i]]
    BY <1>4
  <2>2. \A i \in 0 .. NodeMax : h[i] = IF i = 0 THEN {n} ELSE Grow(h[i - 1])
    <3>1. ASSUME NEW i \in 0 .. NodeMax PROVE i = 0 \/ (i # 0 /\ i \in 1 .. NodeMax)
      BY <1>2
    <3> HIDE DEF Grow
    <3>. QED  BY <1>5, <3>1
  <2>. QED  BY <2>1, <2>2
<1>7. ASSUME NEW g, Sol(g) PROVE g = h
  <2>1. g = [i \in 0 .. NodeMax |-> g[i]] /\ h = [i \in 0 .. NodeMax |-> h[i]]
    BY <1>4, <1>7
  <2>2. g[0] = h[0]
    BY <1>2, <1>5, <1>7
  <2>3. \A i \in 1 .. NodeMax : g[i] = Grow(g[i - 1])
    <3>1. \A i \in 1 .. NodeMax : i # 0 /\ i \in 0 .. NodeMax
      BY <1>2
    <3>. QED  BY <1>7, <3>1
  <2>4. \A i \in 1 .. NodeMax : g[i - 1] = h[i - 1] => g[i] = h[i]
    <3> HIDE DEF Grow, Sol
    <3>. QED  BY <1>5, <2>3
  <2> HIDE DEF Sol, Grow
  <2>5. CountAlike(NodeMax, g, h)
    BY <2>1, <2>2, <2>4 DEF CountAlike
  <2>. QED  BY <1>2, <2>5, CountsAgree
<1>8. (CHOOSE g : Sol(g)) = h
  <2> HIDE DEF Sol
  <2>. QED  BY <1>6, <1>7
<1>9. Below(n) = h[NodeMax]
  <2> HIDE DEF Sol
  <2>. QED  BY <1>1, <1>8
<1>. QED  BY <1>2, <1>4, <1>9


LEMMA CallTyped == TypesInv /\ Call => TypesInv'
<1>1. SUFFICES ASSUME TypesInv, Call PROVE TypesInv'
  OBVIOUS
<1> USE DEF CallAllowed
<1>2. Live \subseteq Node /\ todo \subseteq Node /\ dirIdMax \in 0 .. DirIdLimit
  BY <1>1, LiveTyped DEF TypesInv, RamTypes
<1>3. CASE \E d \in 0 .. DirIdLimit, name \in Name, val \in Val : WriteRecord(d, name, val)
  <2>1. PICK d \in 0 .. DirIdLimit, name \in Name, val \in Val : WriteRecord(d, name, val)
    BY <1>3
  <2>2. Record(d, name, val) \in Node /\ "add" \in Op
    BY DEF Node, Op
  <2>. QED  BY <1>1, <1>2, <2>1, <2>2, BeginTyped DEF WriteRecord
<1>4. CASE \E d \in 0 .. DirIdLimit, name \in Name : MakeDir(d, name)
  <2>1. PICK d \in 0 .. DirIdLimit, name \in Name : MakeDir(d, name)
    BY <1>4
  <2>2. dirIdMax + 1 \in 1 .. DirIdLimit
    BY <1>2, <2>1, Sizes DEF MakeDir
  <2>3. Dir(dirIdMax + 1, d, name) \in Node /\ "add" \in Op
    BY <2>2 DEF Node, Op
  <2>4. dirIdMax' \in 0 .. DirIdLimit /\ todo' \subseteq Node
    BY <1>2, <2>1, <2>2 DEF MakeDir
  <2>. QED  BY <1>1, <2>1, <2>3, <2>4, BeginTyped DEF MakeDir
<1>5. CASE \E n \in Live : DelRecord(n)
  <2>1. PICK n \in Live : DelRecord(n)
    BY <1>5
  <2>2. n \in Node /\ "rm" \in Op
    BY <1>2 DEF Op
  <2>. QED  BY <1>1, <1>2, <2>1, <2>2, BeginTyped DEF DelRecord
<1>6. CASE \E n \in Live : DelDir(n)
  <2>1. PICK n \in Live : DelDir(n)
    BY <1>6
  <2>2. todo' \subseteq Node
    BY <1>2, <2>1, BelowIsLive DEF DelDir
  <2>3. RamTypes'
    BY <1>1, <2>1, <2>2 DEF DelDir, TypesInv, RamTypes
  <2>4. CallTypes' /\ WriteTypes'
    BY <2>1 DEF DelDir, CallTypes, WriteTypes, Writing
  <2>. QED  BY <1>1, <2>1, <2>3, <2>4 DEF DelDir, TypesInv
<1>7. CASE WriteThrough
  <2>1. CASE off % Page = 0 \/ CollectionDue(lists, Page - (off % Page))
    <3>1. UNCHANGED <<flash, cache, off, head, tail, gc, count, dirIdMax, lists, todo, cur, out>>
      BY <1>7, <2>1 DEF WriteThrough
    <3>2. CASE off % Page = 0
      <4>1. pc' = "idle" /\ pc = "idle"
        BY <1>7, <3>2 DEF WriteThrough
      <4>2. RamTypes'
        BY <1>1, <3>1, <4>1 DEF TypesInv, RamTypes
      <4>3. CallTypes' /\ WriteTypes'
        BY <4>1 DEF CallTypes, WriteTypes, Writing
      <4>. QED  BY <1>1, <3>1, <4>2, <4>3 DEF TypesInv
    <3>3. CASE off % Page # 0
      <4>1. pc' = "collect" /\ pc = "idle" /\ call'.op = "sync"
        BY <1>7, <2>1, <3>3 DEF WriteThrough, NoCall
      <4>2. gc \in Section
        BY <1>1, <2>1, <3>3 DEF CollectionDue, TypesInv, RamTypes
      <4>3. RamTypes'
        BY <1>1, <3>1, <4>1 DEF TypesInv, RamTypes
      <4>4. CallTypes' /\ WriteTypes'
        BY <3>1, <4>1, <4>2 DEF CallTypes, WriteTypes, Writing
      <4>. QED  BY <1>1, <3>1, <4>3, <4>4 DEF TypesInv
    <3>. QED  BY <3>2, <3>3
  <2>2. CASE ~(off % Page = 0 \/ CollectionDue(lists, Page - (off % Page)))
    <3>1. /\ FlushPage /\ pc = "idle" /\ pc' = "idle"
          /\ UNCHANGED <<head, tail, gc, count, dirIdMax, lists, todo, cur, out>>
      BY <1>7, <2>2 DEF WriteThrough
    <3>2. /\ flash' \in Flash /\ cache' = <<>>
          /\ off' \in Nat /\ off' >= 1 /\ off' <= Size /\ off' % Page = 0
      BY <1>1, <2>2, <3>1, FlushTyped
    <3>3. RamTypes'
      <4>1. <<>> \in Seq(Unit) /\ Len(<<>>) = 0
        OBVIOUS
      <4>2. ~(off' > Size)
        BY <3>2, Sizes
      <4>. QED  BY <1>1, <3>1, <3>2, <4>1, <4>2 DEF TypesInv, RamTypes
    <3>4. CallTypes' /\ WriteTypes'
      BY <3>1 DEF CallTypes, WriteTypes, Writing
    <3>. QED  BY <3>2, <3>3, <3>4 DEF TypesInv
  <2>. QED  BY <2>1, <2>2
<1>. QED  BY <1>1, <1>3, <1>4, <1>5, <1>6, <1>7 DEF Call

LEMMA DelNextTyped == TypesInv /\ DelNext => TypesInv'
<1>1. SUFFICES ASSUME TypesInv, DelNext PROVE TypesInv'
  OBVIOUS
<1>2. PICK n \in todo : todo' = todo \ {n} /\ BeginUpdate("rm", n)
  BY <1>1 DEF DelNext
<1>3. n \in Node /\ todo' \subseteq Node /\ dirIdMax' \in 0 .. DirIdLimit /\ "rm" \in Op
  BY <1>1, <1>2 DEF DelNext, TypesInv, RamTypes, Op
<1>. QED  BY <1>1, <1>2, <1>3, BeginTyped DEF DelNext

LEMMA CopyNodeTyped == TypesInv /\ CopyNode => TypesInv'
<1>1. SUFFICES ASSUME TypesInv, CopyNode PROVE TypesInv'
  OBVIOUS
<1> DEFINE e == Head(lists[gc])
           copied == NodeLength("add", e.n) - 1
           unit(i) == LET b == Behind(gc, e.off, i)
                      IN  IF i <= MetaRest THEN More("add", e.n, i)
                          ELSE CopyOf(b[1], b[2])
           units == IF e.n.kind = "dir" THEN UnitsOf("add", e.n)
                    ELSE << Meta("add", e.n) >> \o [i \in 1 .. copied |-> unit(i)]
<1>2. /\ pc = "collect" /\ lists[gc] # <<>>
      /\ lists' = [lists EXCEPT ![gc] = Tail(@)]
      /\ StartNode("copy", "add", e.n, units)
      /\ UNCHANGED <<flash, cache, off, head, tail, count, dirIdMax, call, todo>>
  BY <1>1 DEF CopyNode
<1>3. /\ gc \in Section /\ call.op \in Op \cup {"sync"}
      /\ call.op # "sync" => call.n \in Node
  BY <1>1, <1>2 DEF TypesInv, CallTypes
<1>4. lists[gc] \in Seq(Entry) /\ e \in Entry /\ Tail(lists[gc]) \in Seq(Entry)
  BY <1>1, <1>2, <1>3 DEF TypesInv, RamTypes, Lists
<1>5. e.n \in Node /\ e.off \in 1 .. Size - 1 /\ "add" \in Op
  BY <1>4 DEF Entry, Op
<1>6. copied \in Nat /\ copied >= 1 /\ copied + 2 <= Size
  BY <1>5, NodeLengths, Sizes
<1>7. units \in Seq(Unit \cup Copied) /\ Len(units) \in 1 .. Size - 1
  <2>1. CASE e.n.kind = "dir"
    <3>1. UnitsOf("add", e.n) \in Seq(Unit) /\ Len(UnitsOf("add", e.n)) = copied + 1
      BY <1>5, UnitsTyped, NodeLengths
    <3>2. UnitsOf("add", e.n) \in Seq(Unit \cup Copied)
      BY <3>1
    <3> HIDE DEF copied
    <3>. QED  BY <2>1, <3>1, <3>2, <1>6, Sizes
  <2>2. CASE e.n.kind # "dir"
    <3> DEFINE a == << Meta("add", e.n) >>
               b == [i \in 1 .. copied |-> unit(i)]
    <3>1. a \in Seq(Unit \cup Copied) /\ Len(a) = 1
      BY <1>5 DEF Unit, Meta
    <3>2. b \in Seq(Unit \cup Copied) /\ Len(b) = copied
      <4>1. ASSUME NEW i \in 1 .. copied PROVE unit(i) \in Unit \cup Copied
        <5>1. i \in Nat /\ i >= 1 /\ i <= Size - 1
          BY <1>6, Sizes
        <5>2. CASE i <= MetaRest
          <6>1. i \in 1 .. MetaRest
            BY <5>1, <5>2, Sizes
          <6>. QED  BY <1>5, <5>2, <6>1 DEF Unit
        <5>3. CASE ~(i <= MetaRest)
          BY <1>3, <1>5, <5>1, <5>3, BehindTyped DEF Copied
        <5>. QED  BY <5>2, <5>3
      <4> HIDE DEF unit, copied
      <4>. QED  BY <4>1, <1>6
    <3>3. units = a \o b
      BY <2>2
    <3> HIDE DEF a, b, units, copied
    <3>. QED  BY <3>1, <3>2, <3>3, <1>6, ConcatProperties, Sizes
  <2>. QED  BY <2>1, <2>2
<1> HIDE DEF e, copied, unit, units
<1>8. WriteTypes' /\ gc' \in Section /\ pc' = "copy"
  <2>1. "copy" \in {"write", "copy"} /\ "copy" # "write"
    OBVIOUS
  <2>2. WriteTypes' /\ gc' \in Section
    BY <1>1, <1>2, <1>5, <1>7, <2>1, StartTyped
  <2>. QED  BY <1>2, <2>2 DEF StartNode
<1>9. lists' \in Lists
  BY <1>1, <1>2, <1>4 DEF TypesInv, RamTypes, Lists
<1>10. RamTypes'
  BY <1>1, <1>2, <1>8, <1>9 DEF TypesInv, RamTypes
<1>11. CallTypes'
  BY <1>2, <1>3, <1>8 DEF CallTypes
<1>. QED  BY <1>1, <1>2, <1>8, <1>10, <1>11 DEF TypesInv

LEMMA CollectionDoneTyped == TypesInv /\ CollectionDone => TypesInv'
<1>1. SUFFICES ASSUME TypesInv, CollectionDone PROVE TypesInv'
  OBVIOUS
<1>2. /\ pc = "collect" /\ gc \in Section /\ call.op \in Op \cup {"sync"}
      /\ call.op # "sync" => call.n \in Node
  BY <1>1 DEF TypesInv, CallTypes, CollectionDone
<1>3. /\ gc' \in Section
      /\ UNCHANGED <<head, tail, count, dirIdMax, lists, todo>>
  BY <1>1, <1>2, NextSections DEF CollectionDone
<1>4. /\ flash' \in Flash /\ cache' \in Seq(Unit)
      /\ off' \in Nat /\ off' >= 1 /\ off' <= Size /\ Len(cache') = off' % Page
  <2>1. CASE off % Page # 0
    <3>1. FlushPage
      BY <1>1, <2>1 DEF CollectionDone
    <3>. QED  BY <1>1, <1>2, <2>1, <3>1, FlushTyped
  <2>2. CASE off % Page = 0
    <3>1. UNCHANGED <<flash, cache, off>>
      BY <1>1, <2>2 DEF CollectionDone
    <3>. QED  BY <1>1, <1>2, <3>1, Sizes DEF TypesInv, RamTypes
  <2>. QED  BY <2>1, <2>2
<1>5. CASE call.op = "sync"
  <2>1. pc' = "idle"
    BY <1>1, <1>5 DEF CollectionDone
  <2>2. RamTypes'
    BY <1>1, <1>3, <1>4, <2>1, Sizes DEF TypesInv, RamTypes
  <2>3. CallTypes' /\ WriteTypes'
    BY <2>1 DEF CallTypes, WriteTypes, Writing
  <2>. QED  BY <1>4, <2>2, <2>3 DEF TypesInv
<1>6. CASE call.op # "sync"
  <2>2. /\ pc' = "write" /\ out' = UnitsOf(call.op, call.n)
        /\ cur' = [op |-> call.op, n |-> call.n, sec |-> NoSection, off |-> 0]
    BY <1>1, <1>6 DEF CollectionDone
  <2>3. call.op \in Op /\ call.n \in Node
    BY <1>2, <1>6
  <2>4. /\ out' \in Seq(Unit) /\ Len(out') \in 1 .. Size - 1
        /\ \A i \in 1 .. Len(out') : out'[i] \in Unit \ {Erased}
    BY <2>2, <2>3, UnitsTyped, NodeLengths, Sizes
  <2>5. out' \in Seq(Unit \cup Copied)
    BY <2>4
  <2>6. cur' \in Write /\ cur'.sec = NoSection
    BY <2>2, <2>3, Sizes DEF Write
  <2>7. WriteTypes'
    BY <2>4, <2>5, <2>6 DEF WriteTypes
  <2>8. RamTypes'
    BY <1>1, <1>3, <1>4, <2>2, Sizes DEF TypesInv, RamTypes
  <2>9. CallTypes'
    BY <2>2 DEF CallTypes
  <2>. QED  BY <1>4, <2>7, <2>8, <2>9 DEF TypesInv
<1>. QED  BY <1>5, <1>6

LEMMA RestartTyped ==
  ASSUME NEW f \in Flash, RestartOn(f)
  PROVE  TypesInv'
<1>1. PICK r : r = Recovered(f)
  OBVIOUS
<1>2. Rebuilt(r)
  BY <1>1, RecoveredTyped
<1>3. /\ flash' = f /\ pc' = r.pc /\ off' = r.off /\ head' = r.head /\ tail' = r.tail
      /\ gc' = r.gc /\ count' = r.count /\ dirIdMax' = r.dirIdMax /\ lists' = r.lists
      /\ cache' = <<>> /\ todo' = {}
  BY <1>1 DEF RestartOn
<1>4. RamTypes'
  BY <1>2, <1>3 DEF Rebuilt, RamTypes
<1>5. CallTypes' /\ WriteTypes'
  BY <1>2, <1>3 DEF Rebuilt, CallTypes, WriteTypes, Writing
<1>. QED  BY <1>3, <1>4, <1>5 DEF TypesInv


LEMMA NextSectionTyped == TypesInv /\ NextSection => TypesInv'
<1>1. SUFFICES ASSUME TypesInv, NextSection PROVE TypesInv'
  OBVIOUS
<1> DEFINE next == get_next_section(tail)
           after == IF cur.sec = NoSection THEN 1
                    ELSE IF Len(out) + 1 >= Size THEN 0 ELSE Len(out) + 1
           first == Fetched(Head(out))
<1>2. /\ Writing /\ off = Size
      /\ out' = << first >> \o Tail(out)
      /\ UNCHANGED <<gc, dirIdMax, lists, call, todo, cur>>
  BY <1>1 DEF NextSection
<1>3. /\ cur \in Write
      /\ out \in Seq(Unit \cup Copied) /\ Len(out) \in 1 .. Size - 1
      /\ cur.sec # NoSection => cur.off >= 1 /\ Len(out) <= Size - 2
      /\ pc = "write" => \A i \in 1 .. Len(out) : out[i] \in Unit \ {Erased}
  BY <1>1, <1>2 DEF TypesInv, WriteTypes
<1>4. Head(out) = out[1] /\ out[1] \in Unit \cup Copied /\ first \in Unit
      /\ (pc = "write" => first \in Unit \ {Erased})
  <2>1. Head(out) = out[1] /\ out[1] \in Unit \cup Copied
    BY <1>3
  <2>2. first \in Unit
    BY <1>1, <2>1, FetchedTyped
  <2>3. ASSUME pc = "write" PROVE first \in Unit \ {Erased}
    <3>1. out[1] \in Unit \ {Erased}
      BY <1>3, <2>3
    <3>2. first = out[1]
      BY <2>1, <3>1, UnitKinds DEF Fetched
    <3>. QED  BY <3>1, <3>2
  <2>. QED  BY <2>1, <2>2, <2>3
<1> HIDE DEF first
<1>5. out' \in Seq(Unit \cup Copied) /\ Len(out') = Len(out)
      /\ \A i \in 1 .. Len(out) : out'[i] = IF i = 1 THEN first ELSE out[i]
  <2>1. << first >> \in Seq(Unit \cup Copied) /\ Tail(out) \in Seq(Unit \cup Copied)
        /\ Len(<< first >>) = 1 /\ Len(Tail(out)) = Len(out) - 1
        /\ \A i \in 1 .. Len(out) - 1 : Tail(out)[i] = out[i + 1]
    BY <1>3, <1>4
  <2>2. \A i \in 1 .. Len(out) : out'[i] = IF i = 1 THEN first ELSE out[i]
    <3>1. ASSUME NEW i \in 1 .. Len(out) PROVE out'[i] = IF i = 1 THEN first ELSE out[i]
      <4>1. out'[i] = IF i <= 1 THEN << first >>[i] ELSE Tail(out)[i - 1]
        BY <1>2, <2>1, ConcatProperties
      <4>2. CASE i = 1
        BY <4>1, <4>2
      <4>3. CASE i # 1
        <5>1. i - 1 \in 1 .. Len(out) - 1 /\ (i - 1) + 1 = i /\ ~(i <= 1)
          BY <4>3, <1>3
        <5>. QED  BY <2>1, <4>1, <4>3, <5>1
      <4>. QED  BY <4>2, <4>3
    <3>. QED  BY <3>1
  <2>3. out' \in Seq(Unit \cup Copied) /\ Len(out') = 1 + (Len(out) - 1)
    BY <1>2, <2>1, ConcatProperties
  <2>. QED  BY <1>3, <2>2, <2>3
<1>6. WriteTypes' \/ pc' = "failed"
  <2>1. pc' = pc \/ pc' = "failed"
    BY <1>1 DEF NextSection
  <2>2. ASSUME pc' = pc PROVE WriteTypes'
    <3>1. cur' \in Write /\ Len(out') \in 1 .. Size - 1
          /\ (cur'.sec # NoSection => cur'.off >= 1 /\ Len(out') <= Size - 2)
      BY <1>2, <1>3, <1>5
    <3>2. pc' = "write" => \A i \in 1 .. Len(out') : out'[i] \in Unit \ {Erased}
      BY <1>3, <1>4, <1>5, <2>2
    <3>. QED  BY <1>5, <3>1, <3>2 DEF WriteTypes
  <2>. QED  BY <2>1, <2>2
<1>7. CASE head = next /\ lists[head] # <<>>
  <2>1. pc' = "failed" /\ UNCHANGED <<flash, cache, off, head, tail, count>>
    BY <1>1, <1>7 DEF NextSection
  <2>2. RamTypes'
    BY <1>1, <1>2, <2>1, Sizes DEF TypesInv, RamTypes
  <2>3. CallTypes' /\ WriteTypes'
    BY <2>1 DEF CallTypes, WriteTypes, Writing
  <2>. QED  BY <1>1, <2>1, <2>2, <2>3 DEF TypesInv
<1>8. CASE ~(head = next /\ lists[head] # <<>>)
  <2>1. /\ tail' = next
        /\ head' = IF head = next THEN get_next_section(head) ELSE head
        /\ flash' = EraseSection(flash, next)
        /\ count' = (count + 1) % CountSize
        /\ cache' = << SectionHead((count + 1) % CountSize, after) >>
        /\ off' = 1 /\ pc' = pc
    BY <1>1, <1>8 DEF NextSection
  <2>2. tail' \in Section /\ head' \in Section /\ next \in Section
    BY <1>1, <2>1, NextSections DEF TypesInv, RamTypes
  <2>3. flash' \in Flash
    BY <1>1, <2>1, <2>2, EraseTyped DEF TypesInv
  <2>4. count' \in 0 .. CountSize - 1
    BY <1>1, <2>1, Sizes, SizesAssumption DEF TypesInv, RamTypes
  <2>5. cache' \in Seq(Unit) /\ Len(cache') = 1
    <3>1. after \in 1 .. Size - 1
      BY <1>3, Sizes DEF Write
    <3>2. SectionHead((count + 1) % CountSize, after) \in Unit
      BY <2>1, <2>4, <3>1 DEF Unit
    <3>. QED  BY <2>1, <3>2
  <2>6. 1 % Page = 1
    BY Sizes
  <2>7. RamTypes'
    BY <1>1, <1>2, <2>1, <2>2, <2>4, <2>5, <2>6, Sizes DEF TypesInv, RamTypes
  <2>8. CallTypes' /\ WriteTypes'
    BY <1>1, <1>2, <1>6, <2>1 DEF TypesInv, CallTypes, Writing
  <2>. QED  BY <2>3, <2>7, <2>8 DEF TypesInv
<1>. QED  BY <1>7, <1>8

LEMMA LeastOfTwo ==
  ASSUME NEW a \in Nat, NEW b \in Nat
  PROVE  Min({a, b}) = IF a <= b THEN a ELSE b
<1>1. Min({a, b}) \in {a, b} /\ \A k \in {a, b} : Min({a, b}) <= k
  BY LeastNat
<1>. QED  BY <1>1

(* What tinyfs_nvm_program moves into the page in the cache.               *)
MovedInto ==
  /\ Portion \in Nat /\ Portion >= 1 /\ Portion <= Len(out)
  /\ Filled \in Seq(Unit) /\ Len(Filled) = Len(cache) + Portion
  /\ Len(Filled) <= Page
  /\ Len(Filled) < Page => Portion = Len(out)
  /\ \A i \in 1 .. Len(cache) : Filled[i] = cache[i]
  /\ \A i \in 1 .. Portion : Filled[Len(cache) + i] = Fetched(out[i])
  /\ off + Portion \in Nat /\ off + Portion <= Size
  /\ (off + Portion) % Page = IF Len(Filled) = Page THEN 0 ELSE Len(Filled)
  /\ off \in Nat /\ off >= 1 /\ Len(cache) = off % Page /\ Len(cache) < Page
  /\ PageStart(off) \in Nat /\ PageStart(off) = off - Len(cache)
  /\ PageStart(off) % Page = 0

LEMMA ProgramMoves == TypesInv /\ Writing /\ off < Size => MovedInto
<1>1. SUFFICES ASSUME TypesInv, Writing, off < Size PROVE MovedInto
  OBVIOUS
<1>2. /\ off \in Nat /\ off >= 1 /\ Len(cache) = off % Page /\ cache \in Seq(Unit)
      /\ out \in Seq(Unit \cup Copied) /\ Len(out) \in Nat /\ Len(out) >= 1
  BY <1>1, Sizes DEF TypesInv, RamTypes, WriteTypes
<1>3. /\ Len(cache) \in Nat /\ Len(cache) < Page
      /\ PageStart(off) \in Nat /\ PageStart(off) = off - Len(cache)
      /\ PageStart(off) % Page = 0 /\ NextPage(off) <= Size
  <2>1. Size \in Nat /\ Size % Page = 0 /\ Size > off
    BY <1>1, <1>2, Sizes, SizesAssumption
  <2>2. /\ off % Page \in 0 .. Page - 1
        /\ PageStart(off) \in Nat /\ PageStart(off) = off - (off % Page)
        /\ PageStart(off) % Page = 0
        /\ \A p \in Nat : p % Page = 0 /\ p > off => p >= NextPage(off)
        /\ NextPage(off) \in Nat
    BY <1>2, PageArithmetic
  <2>3. NextPage(off) <= Size
    BY <1>2, <2>1, <2>2
  <2>4. Len(cache) \in Nat /\ Len(cache) < Page
    BY <1>2, <2>2, Sizes
  <2>. QED  BY <1>2, <2>2, <2>3, <2>4
<1>4. Portion = IF Len(out) <= Page - Len(cache) THEN Len(out) ELSE Page - Len(cache)
  <2>1. Page - Len(cache) \in Nat
    BY <1>3, Sizes
  <2>. QED  BY <1>2, <2>1, LeastOfTwo DEF Portion
<1>5. /\ Portion \in Nat /\ Portion >= 1 /\ Portion <= Len(out)
      /\ Len(cache) + Portion <= Page
      /\ Len(cache) + Portion < Page => Portion = Len(out)
  BY <1>2, <1>3, <1>4, Sizes
<1> DEFINE moved == [i \in 1 .. Portion |-> Fetched(out[i])]
<1>6. moved \in Seq(Unit) /\ Len(moved) = Portion
      /\ \A i \in 1 .. Portion : moved[i] = Fetched(out[i])
  <2>1. ASSUME NEW i \in 1 .. Portion PROVE Fetched(out[i]) \in Unit
    <3>1. i \in 1 .. Len(out)
      BY <1>2, <1>5
    <3>2. out[i] \in Unit \cup Copied
      BY <1>2, <3>1
    <3>. QED  BY <1>1, <3>2, FetchedTyped
  <2>. QED  BY <1>5, <2>1
<1>7. Filled = cache \o moved
  BY DEF Filled
<1> HIDE DEF moved
<1>8. /\ Filled \in Seq(Unit) /\ Len(Filled) = Len(cache) + Portion
      /\ \A i \in 1 .. Len(cache) + Portion :
           Filled[i] = IF i <= Len(cache) THEN cache[i] ELSE moved[i - Len(cache)]
  BY <1>2, <1>6, <1>7, ConcatProperties
<1>9. \A i \in 1 .. Len(cache) : Filled[i] = cache[i]
  BY <1>3, <1>5, <1>8
<1>10. ASSUME NEW i \in 1 .. Portion PROVE Filled[Len(cache) + i] = Fetched(out[i])
  <2>1. Len(cache) + i \in 1 .. Len(cache) + Portion /\ ~(Len(cache) + i <= Len(cache))
        /\ (Len(cache) + i) - Len(cache) = i
    BY <1>3, <1>5
  <2>. QED  BY <1>6, <1>8, <2>1
<1>11. (off + Portion) % Page = IF Len(Filled) = Page THEN 0 ELSE Len(Filled)
  <2>1. Page \in Nat /\ Page >= 1 /\ (off % Page) + Portion <= Page
    BY <1>2, <1>5, Sizes
  <2>2. off \in Nat /\ Portion \in Nat
    BY <1>2, <1>5
  <2>3. (off + Portion) % Page = IF (off % Page) + Portion = Page THEN 0 ELSE (off % Page) + Portion
    <3>1. \A o, k \in Nat : (o % Page) + k <= Page =>
            (o + k) % Page = IF (o % Page) + k = Page THEN 0 ELSE (o % Page) + k
      BY <2>1, InPage
    <3>. QED  BY <2>1, <2>2, <3>1, Zenon
  <2>. QED  BY <1>2, <1>8, <2>3
<1>12. off + Portion \in Nat /\ off + Portion <= Size
  <2>1. NextPage(off) = PageStart(off) + Page
    BY DEF NextPage
  <2>. QED  BY <1>2, <1>3, <1>5, <2>1, Sizes
<1>. QED  BY <1>2, <1>3, <1>5, <1>8, <1>9, <1>10, <1>11, <1>12 DEF MovedInto


LEMMA ProgramStepTyped == TypesInv /\ Program => TypesInv'
<1>1. SUFFICES ASSUME TypesInv, Program PROVE TypesInv'
  OBVIOUS
<1> DEFINE rest == SubSeq(out, Portion + 1, Len(out))
           full == Len(Filled) = Page
           place == IF cur.sec = NoSection THEN [cur EXCEPT !.sec = tail, !.off = off] ELSE cur
<1>2. Writing /\ off < Size /\ MovedInto /\ RamTypes /\ flash \in Flash
  BY <1>1, ProgramMoves DEF Program, TypesInv
<1>3. /\ cur \in Write
      /\ out \in Seq(Unit \cup Copied) /\ Len(out) \in 1 .. Size - 1
      /\ cur.sec # NoSection => cur.off >= 1 /\ Len(out) <= Size - 2
      /\ pc = "write" => \A i \in 1 .. Len(out) : out[i] \in Unit \ {Erased}
  BY <1>1, <1>2 DEF TypesInv, WriteTypes
<1>4. /\ flash' = IF full THEN ProgramPage(flash, tail, PageStart(off), Filled) ELSE flash
      /\ cache' = IF full THEN <<>> ELSE Filled
      /\ off' = off + Portion
      /\ out' = rest
      /\ IF rest = <<>> THEN NodeWritten(place)
         ELSE cur' = place /\ UNCHANGED <<lists, pc, call>>
      /\ UNCHANGED <<head, tail, gc, count, dirIdMax, todo>>
  BY <1>1 DEF Program
<1>5. flash' \in Flash
  BY <1>2, <1>4, ProgramTyped DEF MovedInto, RamTypes
<1>6. cache' \in Seq(Unit) /\ Len(cache') = off' % Page
  <2>1. CASE full
    BY <1>2, <1>4, <2>1 DEF MovedInto
  <2>2. CASE ~full
    BY <1>2, <1>4, <2>2 DEF MovedInto
  <2>. QED  BY <2>1, <2>2
<1>7. off' \in Nat /\ off' >= 1 /\ off' <= Size
  BY <1>2, <1>4 DEF MovedInto
<1>8. place \in Write /\ place.sec \in Section /\ place.off \in 1 .. Size - 1
  <2>1. CASE cur.sec = NoSection
    <3>1. off \in 1 .. Size - 1 /\ tail \in Section
      BY <1>2, Sizes DEF RamTypes
    <3>2. place = [cur EXCEPT !.sec = tail, !.off = off]
      BY <2>1
    <3>3. PICK op \in Op, n \in Node, sec \in Section \cup {NoSection}, o \in 0 .. Size - 1 :
            cur = [op |-> op, n |-> n, sec |-> sec, off |-> o]
      BY <1>3 DEF Write
    <3>4. place = [op |-> op, n |-> n, sec |-> tail, off |-> off]
      BY <3>2, <3>3
    <3>5. off \in 0 .. Size - 1
      BY <3>1, Sizes
    <3> HIDE DEF place
    <3>. QED  BY <3>1, <3>4, <3>5 DEF Write
  <2>2. CASE cur.sec # NoSection
    BY <1>3, <2>2, Sizes DEF Write
  <2>. QED  BY <2>1, <2>2
<1>9. /\ rest \in Seq(Unit \cup Copied) /\ Len(rest) = Len(out) - Portion
      /\ \A i \in 1 .. Len(rest) : rest[i] = out[i + Portion]
  <2>1. Portion \in Nat /\ Portion >= 1 /\ Portion <= Len(out) /\ Len(out) \in Nat
    BY <1>2, <1>3 DEF MovedInto
  <2>2. \A q \in Seq(Unit \cup Copied), k \in Nat : k <= Len(q) =>
          LET r == SubSeq(q, k + 1, Len(q))
          IN  /\ r \in Seq(Unit \cup Copied) /\ Len(r) = Len(q) - k
              /\ \A i \in 1 .. Len(r) : r[i] = q[i + k]
    OBVIOUS
  <2>. QED  BY <1>3, <2>1, <2>2
<1> HIDE DEF rest, place, full
<1>10. CASE rest = <<>>
  <2>1. NodeWritten(place)
    BY <1>4, <1>10
  <2>2. place.sec \in Section /\ place.off \in 1 .. Size - 1 /\ cur.n \in Node /\ lists \in Lists
    BY <1>2, <1>3, <1>8 DEF Write, RamTypes
  <2>3. lists' \in Lists /\ pc' \in {"collect", "idle", "next"}
    BY <2>1, <2>2, ListsTyped DEF NodeWritten
  <2>4. RamTypes'
    BY <1>2, <1>4, <1>6, <1>7, <2>3, Sizes DEF RamTypes
  <2>5. CallTypes'
    <3>1. CASE pc = "copy"
      <4>1. pc' = "collect" /\ call' = call /\ gc' = gc
        BY <1>4, <2>1, <3>1 DEF NodeWritten
      <4>. QED  BY <1>1, <3>1, <4>1 DEF TypesInv, CallTypes
    <3>2. CASE pc # "copy"
      <4>1. pc' \in {"idle", "next"}
        BY <2>1, <3>2 DEF NodeWritten
      <4>. QED  BY <4>1 DEF CallTypes
    <3>. QED  BY <3>1, <3>2
  <2>6. WriteTypes'
    BY <2>3 DEF WriteTypes, Writing
  <2>. QED  BY <1>5, <2>4, <2>5, <2>6 DEF TypesInv
<1>11. CASE rest # <<>>
  <2>1. cur' = place /\ UNCHANGED <<lists, pc, call>>
    BY <1>4, <1>11
  <2>2. Len(rest) >= 1 /\ Len(rest) <= Size - 2
    <3>1. Portion \in Nat /\ Portion >= 1 /\ Portion <= Len(out)
      BY <1>2 DEF MovedInto
    <3>2. Len(rest) >= 1
      BY <1>9, <1>11
    <3>3. Len(rest) = Len(out) - Portion /\ Len(out) \in 1 .. Size - 1
      BY <1>3, <1>9
    <3>. QED  BY <3>1, <3>2, <3>3, Sizes
  <2>3. RamTypes'
    BY <1>2, <1>4, <1>6, <1>7, <2>1, Sizes DEF RamTypes, Writing
  <2>4. CallTypes'
    BY <1>1, <1>4, <2>1 DEF TypesInv, CallTypes
  <2>5. ASSUME pc = "write", NEW i \in 1 .. Len(rest) PROVE rest[i] \in Unit \ {Erased}
    <3>1. Portion \in Nat /\ Portion >= 1 /\ Portion <= Len(out) /\ Len(out) \in Nat
      BY <1>2, <1>3 DEF MovedInto
    <3>2. rest[i] = out[i + Portion] /\ i + Portion \in 1 .. Len(out)
      BY <1>9, <3>1
    <3>. QED  BY <1>3, <2>5, <3>2
  <2>6. WriteTypes'
    BY <1>4, <1>8, <1>9, <2>1, <2>2, <2>5, Sizes DEF WriteTypes
  <2>. QED  BY <1>5, <2>3, <2>4, <2>6 DEF TypesInv
<1>. QED  BY <1>10, <1>11

(* What a power loss leaves of the page being programmed.                  *)
TornPage(f, units, k) ==
  /\ units \in Seq(Unit) /\ k \in 1 .. Len(units) - 1
  /\ f = ProgramPage(flash, tail, PageStart(off), SubSeq(units, 1, k))
  /\ \/ Writing /\ off < Size /\ Len(Filled) = Page /\ units = Filled
     \/ pc \in {"idle", "collect"} /\ units = cache
  /\ RestartOn(f)

LEMMA TornPages ==
  ASSUME TypesInv, PowerLossInPage
  PROVE  \E f \in Flash : \E units \in Seq(Unit), k \in Nat : TornPage(f, units, k)
<1>1. PICK units \in (IF Writing /\ off < Size /\ Len(Filled) = Page THEN {Filled} ELSE {})
                     \cup (IF pc = "idle" \/ (pc = "collect" /\ lists[gc] = <<>>)
                           THEN {cache} ELSE {}) :
           \E k \in 1 .. Len(units) - 1 :
             RestartOn(ProgramPage(flash, tail, PageStart(off), SubSeq(units, 1, k)))
  BY DEF PowerLossInPage
<1>2. \/ Writing /\ off < Size /\ Len(Filled) = Page /\ units = Filled
      \/ pc \in {"idle", "collect"} /\ units = cache
  BY <1>1
<1>3. units \in Seq(Unit)
  <2>1. Writing /\ off < Size => Filled \in Seq(Unit)
    BY ProgramMoves DEF MovedInto
  <2>2. cache \in Seq(Unit)
    BY DEF TypesInv, RamTypes
  <2>. QED  BY <1>2, <2>1, <2>2
<1>4. PICK k \in 1 .. Len(units) - 1 :
        RestartOn(ProgramPage(flash, tail, PageStart(off), SubSeq(units, 1, k)))
  BY <1>1
<1>5. SubSeq(units, 1, k) \in Seq(Unit) /\ k \in Nat
  BY <1>3, <1>4
<1>6. PageStart(off) \in Nat /\ flash \in Flash /\ tail \in Section
  BY PageArithmetic DEF TypesInv, RamTypes
<1>7. ProgramPage(flash, tail, PageStart(off), SubSeq(units, 1, k)) \in Flash
  BY <1>5, <1>6, ProgramTyped
<1>. QED  BY <1>2, <1>3, <1>4, <1>5, <1>7 DEF TornPage

LEMMA TypesStart == Init => TypesInv
<1>1. SUFFICES ASSUME Init PROVE TypesInv
  OBVIOUS
<1>2. flash \in Flash
  BY <1>1 DEF Init, Flash, Unit
<1>3. PICK r : r = Recovered(flash)
  OBVIOUS
<1>4. Rebuilt(r)
  BY <1>2, <1>3, RecoveredTyped
<1>5. /\ pc = r.pc /\ off = r.off /\ head = r.head /\ tail = r.tail
      /\ gc = r.gc /\ count = r.count /\ dirIdMax = r.dirIdMax /\ lists = r.lists
      /\ cache = <<>> /\ todo = {}
  BY <1>1, <1>3 DEF Init
<1>6. RamTypes
  BY <1>4, <1>5 DEF Rebuilt, RamTypes
<1>7. CallTypes /\ WriteTypes
  BY <1>4, <1>5 DEF Rebuilt, CallTypes, WriteTypes, Writing
<1>. QED  BY <1>2, <1>6, <1>7 DEF TypesInv

LEMMA TypesStep == TypesInv /\ [Next]_vars => TypesInv'
<1>1. ASSUME TypesInv, Call PROVE TypesInv'
  BY <1>1, CallTyped
<1>2. ASSUME TypesInv, Step PROVE TypesInv'
  BY <1>2, DelNextTyped, CopyNodeTyped, CollectionDoneTyped, ProgramStepTyped,
     NextSectionTyped DEF Step
<1>3. ASSUME TypesInv, PowerLoss PROVE TypesInv'
  BY <1>3, RestartTyped DEF PowerLoss, TypesInv
<1>4. ASSUME TypesInv, PowerLossInPage PROVE TypesInv'
  <2>1. PICK f \in Flash : RestartOn(f)
    BY <1>4, TornPages DEF TornPage
  <2>. QED  BY <2>1, RestartTyped
<1>5. ASSUME TypesInv, UNCHANGED vars PROVE TypesInv'
  BY <1>5 DEF vars, ram, TypesInv, RamTypes, CallTypes, WriteTypes, Writing
<1>. QED  BY <1>1, <1>2, <1>3, <1>4, <1>5 DEF Next

(* The RAM stays what its types say, through calls, collection and power   *)
(* loss.  In particular tail_available_offset never passes the end of the  *)
(* section, the cache always holds the beginning of its page, and what     *)
(* tinyfs_init computes from any flash is well formed.                     *)
THEOREM TypeCorrect == Spec => []TypeOK
<1>1. TypesInv => TypeOK
  BY TypesImplyTypeOK
<1>. QED  BY TypesStart, TypesStep, <1>1, PTL DEF Spec


-----------------------------------------------------------------------------
(* The ring.  The sections with a head on the flash are an arc that ends   *)
(* at the newest one, numbered one by one; find_head_tail_section finds    *)
(* the end of such an arc.                                                 *)

Back(t, j) == IF j <= t THEN t - j ELSE t - j + NSection

Arc(f, t, n) ==
  /\ ValidSections(f) = { Back(t, j) : j \in 0 .. n - 1 }
  /\ \A j \in 0 .. n - 1 : f[Back(t, j)][0].count = f[t][0].count - j

LEMMA BackOf ==
  ASSUME NEW t \in Section, NEW j \in 0 .. NSection - 1
  PROVE  /\ Back(t, j) \in Section
         /\ Back(t, 0) = t /\ Back(t, NSection - 1) = get_next_section(t)
         /\ j >= 1 => /\ get_next_section(Back(t, j)) = Back(t, j - 1)
                      /\ Back(get_next_section(t), j) = Back(t, j - 1)
         /\ \A i \in 0 .. NSection - 1 : Back(t, i) = Back(t, j) => i = j
BY Sizes DEF Section, Back, get_next_section

LEMMA NextPlace ==
  ASSUME NEW s \in Section
  PROVE  (s + 1) % NSection = get_next_section(s)
<1>1. s \in 0 .. NSection - 1 /\ NSection \in Nat /\ NSection >= 3
  BY Sizes DEF Section
<1>2. CASE s + 1 = NSection
  BY <1>1, <1>2 DEF get_next_section
<1>3. CASE s + 1 # NSection
  BY <1>1, <1>3 DEF get_next_section
<1>. QED  BY <1>2, <1>3

LEMMA ArcEnd ==
  ASSUME NEW f \in Flash, NEW t \in Section, NEW n \in 1 .. NSection, Arc(f, t, n)
  PROVE  HeadAndTail(f).tail = t
<1> DEFINE V == ValidSections(f)
<1>1. \A j \in 0 .. n - 1 : j \in 0 .. NSection - 1 /\ Back(t, j) \in V
  BY Sizes DEF Arc
<1>2. \A p \in V : \E j \in 0 .. n - 1 : p = Back(t, j) /\ f[p][0].count = f[t][0].count - j
  BY DEF Arc
<1>3. t \in V /\ Back(t, 0) = t
  <2>1. 0 \in 0 .. n - 1
    OBVIOUS
  <2>2. Back(t, 0) = t
    BY <1>1, <2>1, BackOf
  <2>. QED  BY <1>1, <2>1, <2>2
<1>4. \A p \in V : p \in Section /\ f[p][0].count \in 0 .. CountSize - 1
  BY ValidHeads
<1>5. PICK w \in [V -> V] : IsWalk(w, f)
  BY <1>3, WalkUnfolds
<1>6. \A p \in V : w[p] = IF Ascends(f, p) THEN w[NextValid(f, p)] ELSE p
  BY <1>5 DEF IsWalk
<1>7. ASSUME NEW p \in V
      PROVE  NextValid(f, p) \in V
  BY <1>3, <1>4, NextValidIsNext
<1>8. w[t] = t
  <2>1. PICK j \in 0 .. n - 1 : f[NextValid(f, t)][0].count = f[t][0].count - j
    BY <1>2, <1>3, <1>7
  <2>2. f[t][0].count \in Int
    BY <1>3, <1>4
  <2>3. ~Ascends(f, t)
    BY <2>1, <2>2 DEF Ascends
  <2>. QED  BY <1>3, <1>6, <2>3
<1>9. ASSUME NEW j \in 1 .. n - 1
      PROVE  w[Back(t, j)] = w[Back(t, j - 1)]
  <2>1. j \in 0 .. n - 1 /\ j - 1 \in 0 .. n - 1
    OBVIOUS
  <2>2. Back(t, j) \in V /\ Back(t, j - 1) \in V
    BY <1>1, <2>1
  <2>3. (Back(t, j) + 1) % NSection = Back(t, j - 1)
    <3>1. get_next_section(Back(t, j)) = Back(t, j - 1)
      BY <1>1, <2>1, BackOf
    <3>. QED  BY <1>4, <2>2, <3>1, NextPlace
  <2>4. PICK d \in 1 .. NSection :
          /\ NextValid(f, Back(t, j)) = (Back(t, j) + d) % NSection
          /\ \A e \in 1 .. d - 1 : (Back(t, j) + e) % NSection \notin V
    BY <1>3, <1>4, <2>2, NextValidIsNext
  <2>5. d = 1
    <3>1. 1 \notin 1 .. d - 1
      BY <2>2, <2>3, <2>4
    <3>. QED  BY <3>1
  <2>6. NextValid(f, Back(t, j)) = Back(t, j - 1)
    BY <2>3, <2>4, <2>5
  <2>7. /\ f[Back(t, j)][0].count = f[t][0].count - j
        /\ f[Back(t, j - 1)][0].count = f[t][0].count - (j - 1)
    BY <2>1 DEF Arc
  <2>8. f[t][0].count \in Int
    BY <1>3, <1>4
  <2>9. Ascends(f, Back(t, j))
    BY <2>6, <2>7, <2>8 DEF Ascends
  <2>. QED  BY <1>6, <2>2, <2>6, <2>9
<1>10. \A j \in 0 .. n - 1 : w[Back(t, j)] = t
  <2> DEFINE S == 0 .. n - 1
             m == [j \in S |-> j]
             Good == { j \in S : w[Back(t, j)] = t }
  <2>1. \A j \in S : (\A i \in S : m[i] < m[j] => i \in Good) => j \in Good
    <3>1. SUFFICES ASSUME NEW j \in S, \A i \in S : i < j => i \in Good
                   PROVE  w[Back(t, j)] = t
      OBVIOUS
    <3>2. CASE j = 0
      BY <1>3, <1>8, <3>2
    <3>3. CASE j # 0
      <4>1. j \in 1 .. n - 1 /\ j - 1 \in S /\ j - 1 < j
        BY <3>3
      <4>. QED  BY <1>9, <3>1, <4>1
    <3>. QED  BY <3>2, <3>3
  <2>2. m \in [S -> Nat]
    OBVIOUS
  <2>3. S \subseteq Good
    <3> HIDE DEF S, m, Good
    <3>. QED  BY <2>1, <2>2, ByMeasure
  <2>. QED  BY <2>3
<1>11. w[Min(V)] = t
  <2>1. V \subseteq Nat /\ V # {}
    <3>1. Section \subseteq Nat
      BY Sizes DEF Section
    <3> HIDE DEF V
    <3>. QED  BY <1>3, <1>4, <3>1
  <2>2. Min(V) \in V
    <3> HIDE DEF V
    <3>. QED  BY <2>1, LeastNat
  <2>. QED  BY <1>2, <1>10, <2>2
<1> DEFINE curr == NextValid(f, t)
<1>12. PICK j \in 0 .. n - 1 : curr = Back(t, j) /\ f[curr][0].count = f[t][0].count - j
  BY <1>2, <1>3, <1>7
<1>13. (f[t][0].count - f[curr][0].count) % CountSize = j
  <2>1. f[t][0].count \in Int
    BY <1>3, <1>4
  <2>2. f[t][0].count - f[curr][0].count = j
    BY <1>12, <2>1
  <2>3. j \in 0 .. CountSize - 1
    BY Sizes, SizesAssumption
  <2>4. 0 * CountSize + j = j /\ (0 * CountSize + j) % CountSize = j
    BY <2>3, Sizes, Rest
  <2>. QED  BY <2>2, <2>4
<1>14. j < CountSize \div 2
  BY Sizes, SizesAssumption
<1>15. HeadAndTail(f) = IF j > 0 /\ j < CountSize \div 2
                        THEN [head |-> curr, tail |-> t] ELSE [head |-> t, tail |-> curr]
  BY <1>5, <1>11, <1>13 DEF IsWalk
<1>16. CASE j > 0
  BY <1>14, <1>15, <1>16
<1>17. CASE j = 0
  BY <1>3, <1>12, <1>15, <1>17
<1>. QED  BY <1>16, <1>17


(* The head of the tail section is still in the cache.                     *)
Fresh == off <= Size /\ off = Len(cache)

Newest == IF Fresh THEN get_prev_section(tail) ELSE tail

RingOk ==
  \E n \in 0 .. NSection :
    /\ Arc(flash, Newest, n)
    /\ count <= fills
    /\ IF Fresh THEN /\ flash[tail][0].u # "head"
                     /\ cache[1].u = "head" /\ cache[1].count = count
                     /\ n > 0 => count = flash[Newest][0].count + 1
       ELSE IF n = 0 THEN off = Size ELSE flash[tail][0].count = count

RingInv == TypesInv /\ fills \in Nat /\ (fills < CountSize => RingOk)

LEMMA ArcEmpty ==
  ASSUME NEW f, NEW t, NEW n \in Nat, Arc(f, t, n)
  PROVE  ValidSections(f) = {} <=> n = 0
<1>1. n = 0 => 0 .. n - 1 = {}
  OBVIOUS
<1>2. n # 0 => 0 \in 0 .. n - 1
  OBVIOUS
<1>. QED  BY <1>1, <1>2 DEF Arc

LEMMA ArcFirst ==
  ASSUME NEW f, NEW t \in Section, NEW n \in 0 .. NSection, Arc(f, t, n), n # 0
  PROVE  t \in ValidSections(f)
<1>1. 0 \in 0 .. n - 1 /\ Back(t, 0) = t
  BY Sizes DEF Back, Section
<1>. QED  BY <1>1 DEF Arc

LEMMA NewestTyped == RamTypes => Newest \in Section
BY NextSections DEF RamTypes, Newest

(* A write of the page in the cache, or of its beginning, adds the head of *)
(* the tail section to the arc if it was not there before.                 *)
Written(f) ==
  /\ f \in Flash
  /\ f[tail][0] = IF Fresh THEN cache[1] ELSE flash[tail][0]
  /\ \A s \in Section \ {tail} : f[s][0] = flash[s][0]

LEMMA WrittenArc ==
  ASSUME TypesInv, RingOk, NEW f, Written(f), Fresh \/ off < Size
  PROVE  \E n \in 1 .. NSection : Arc(f, tail, n) /\ f[tail][0].count = count
<1>1. PICK n \in 0 .. NSection :
        /\ Arc(flash, Newest, n)
        /\ IF Fresh THEN /\ flash[tail][0].u # "head"
                         /\ cache[1].u = "head" /\ cache[1].count = count
                         /\ n > 0 => count = flash[Newest][0].count + 1
           ELSE IF n = 0 THEN off = Size ELSE flash[tail][0].count = count
  BY DEF RingOk
<1>2. tail \in Section /\ Newest \in Section /\ count \in Nat /\ NSection \in Nat /\ off \in Nat
  BY NewestTyped, Sizes DEF TypesInv, RamTypes
<1>3. CASE ~Fresh
  <2>1. n # 0 /\ n \in 1 .. NSection /\ Newest = tail
    BY <1>1, <1>2, <1>3, Sizes DEF Newest
  <2>2. \A s \in Section : f[s][0] = flash[s][0]
    BY <1>3 DEF Written
  <2>3. ValidSections(f) = ValidSections(flash)
    BY <2>2 DEF ValidSections
  <2>4. \A j \in 0 .. n - 1 : Back(tail, j) \in Section
    BY <1>2, BackOf
  <2>5. Arc(f, tail, n)
    BY <1>1, <1>2, <2>1, <2>2, <2>3, <2>4 DEF Arc
  <2>. QED  BY <1>1, <1>2, <1>3, <2>1, <2>2, <2>5
<1>4. CASE Fresh
  <2>1. Newest = get_prev_section(tail) /\ get_next_section(Newest) = tail
    BY <1>2, <1>4, Sizes DEF Newest, get_prev_section, get_next_section, Section
  <2>2. f[tail][0].u = "head" /\ f[tail][0].count = count
    BY <1>1, <1>4 DEF Written
  <2>3. n # NSection
    <3>1. SUFFICES ASSUME n = NSection PROVE FALSE
      OBVIOUS
    <3>2. NSection - 1 \in 0 .. n - 1 /\ NSection - 1 \in 0 .. NSection - 1
      BY <3>1, Sizes
    <3>3. Back(Newest, NSection - 1) = tail
      BY <1>2, <2>1, <3>2, BackOf
    <3>4. tail \in ValidSections(flash)
      BY <1>1, <3>2, <3>3 DEF Arc
    <3>. QED  BY <1>1, <1>4, <3>4 DEF ValidSections
  <2>4. \A j \in 1 .. n : Back(tail, j) = Back(Newest, j - 1) /\ Back(tail, j) \in Section
                          /\ Back(tail, j) # tail
    <3>1. ASSUME NEW j \in 1 .. n
          PROVE  Back(tail, j) = Back(Newest, j - 1) /\ Back(tail, j) \in Section
                 /\ Back(tail, j) # tail
      <4>1. j \in 0 .. NSection - 1 /\ j >= 1 /\ 0 \in 0 .. NSection - 1 /\ j # 0
        BY <2>3, Sizes
      <4>2. Back(get_next_section(Newest), j) = Back(Newest, j - 1)
        BY <1>2, <4>1, BackOf
      <4>3. Back(tail, j) # Back(tail, 0) /\ Back(tail, 0) = tail /\ Back(tail, j) \in Section
        BY <1>2, <4>1, BackOf
      <4>. QED  BY <2>1, <4>2, <4>3
    <3>. QED  BY <3>1
  <2>5. ValidSections(flash) = { Back(tail, j) : j \in 1 .. n }
    <3>1. ValidSections(flash) = { Back(Newest, j) : j \in 0 .. n - 1 }
      BY <1>1 DEF Arc
    <3>2. \A j \in 1 .. n : j - 1 \in 0 .. n - 1
      OBVIOUS
    <3>3. \A j \in 0 .. n - 1 : j + 1 \in 1 .. n /\ (j + 1) - 1 = j
      OBVIOUS
    <3>4. ASSUME NEW s \in ValidSections(flash) PROVE \E j \in 1 .. n : s = Back(tail, j)
      <4>1. PICK j \in 0 .. n - 1 : s = Back(Newest, j)
        BY <3>1
      <4>. QED  BY <2>4, <3>3, <4>1
    <3>5. ASSUME NEW j \in 1 .. n PROVE Back(tail, j) \in ValidSections(flash)
      <4>1. Back(Newest, j - 1) \in ValidSections(flash)
        BY <3>1, <3>2
      <4>. QED  BY <2>4, <4>1
    <3>. QED  BY <3>4, <3>5
  <2>6. ValidSections(f) = ValidSections(flash) \cup {tail}
    BY <1>2, <2>2 DEF ValidSections, Written
  <2>7. ValidSections(f) = { Back(tail, j) : j \in 0 .. (n + 1) - 1 }
    <3>1. Back(tail, 0) = tail
      BY <1>2, Sizes, BackOf
    <3>2. 0 .. (n + 1) - 1 = {0} \cup 1 .. n
      OBVIOUS
    <3>. QED  BY <2>5, <2>6, <3>1, <3>2
  <2>8. \A j \in 0 .. (n + 1) - 1 : f[Back(tail, j)][0].count = f[tail][0].count - j
    <3>1. ASSUME NEW j \in 0 .. (n + 1) - 1
          PROVE  f[Back(tail, j)][0].count = f[tail][0].count - j
      <4>1. CASE j = 0
        <5>1. Back(tail, 0) = tail
          BY <1>2, Sizes, BackOf
        <5>. QED  BY <1>2, <2>2, <4>1, <5>1
      <4>2. CASE j # 0
        <5>1. j \in 1 .. n /\ j - 1 \in 0 .. n - 1 /\ n > 0
          BY <4>2
        <5>2. flash[Back(Newest, j - 1)][0].count = flash[Newest][0].count - (j - 1)
          BY <1>1, <5>1 DEF Arc
        <5>3. f[Back(tail, j)][0] = flash[Back(Newest, j - 1)][0]
          BY <2>4, <5>1 DEF Written
        <5>4. count = flash[Newest][0].count + 1
          BY <1>1, <1>4, <5>1
        <5>5. flash[Newest][0].count \in Int
          <6>1. Newest \in ValidSections(flash)
            BY <1>1, <1>2, <5>1, ArcFirst
          <6>. QED  BY <6>1, ValidHeads DEF TypesInv
        <5>. QED  BY <2>2, <5>2, <5>3, <5>4, <5>5
      <4>. QED  BY <4>1, <4>2
    <3>. QED  BY <3>1
  <2>9. Arc(f, tail, n + 1)
    BY <2>7, <2>8 DEF Arc
  <2>10. n + 1 \in 1 .. NSection
    BY <1>2, <2>3
  <2>. QED  BY <2>2, <2>9, <2>10
<1>. QED  BY <1>3, <1>4

(* ProgramPage of what is in the page's cache, or a prefix of it.          *)
LEMMA ProgramWrites ==
  ASSUME TypesInv, off < Size, NEW units \in Seq(Unit), Len(units) >= 1,
         Len(cache) >= 1 => units[1] = cache[1]
  PROVE  Written(ProgramPage(flash, tail, PageStart(off), units))
<1> DEFINE f == ProgramPage(flash, tail, PageStart(off), units)
<1>1. /\ off \in Nat /\ off >= 1 /\ tail \in Section /\ flash \in Flash
      /\ cache \in Seq(Unit) /\ Len(cache) = off % Page
  BY Sizes DEF TypesInv, RamTypes
<1>2. PageStart(off) \in Nat /\ PageStart(off) = off - Len(cache)
  BY <1>1, PageArithmetic
<1>3. f \in Flash
  BY <1>1, <1>2, ProgramTyped
<1>4. \A s \in Section \ {tail} : f[s][0] = flash[s][0]
  BY <1>1 DEF ProgramPage, Flash
<1>5. f[tail][0] = IF 0 >= PageStart(off) /\ 0 < PageStart(off) + Len(units)
                   THEN units[0 - PageStart(off) + 1] ELSE flash[tail][0]
  BY <1>1, Sizes DEF ProgramPage, Flash
<1>6. CASE Fresh
  <2>1. PageStart(off) = 0 /\ Len(cache) >= 1
    BY <1>1, <1>2, <1>6 DEF Fresh
  <2>2. f[tail][0] = units[1]
    BY <1>5, <2>1
  <2>. QED  BY <1>3, <1>4, <1>6, <2>1, <2>2 DEF Written
<1>7. CASE ~Fresh
  <2>1. PageStart(off) > 0
    BY <1>1, <1>2, <1>7, Sizes DEF Fresh
  <2>2. f[tail][0] = flash[tail][0]
    BY <1>2, <1>5, <2>1
  <2>. QED  BY <1>3, <1>4, <1>7, <2>2 DEF Written
<1>. QED  BY <1>6, <1>7


LEMMA FlushRing ==
  ASSUME TypesInv, RingOk, off % Page # 0, pc # "failed", FlushPage,
         UNCHANGED <<tail, count, fills>>
  PROVE  RingOk'
<1>1. /\ off \in Nat /\ off < Size /\ off >= 1 /\ tail \in Section /\ cache \in Seq(Unit)
      /\ Len(cache) = off % Page /\ off % Page \in Nat
  <2>1. off \in Nat /\ off >= 1 /\ ~(off > Size) /\ off # Size
    BY Sizes, SizesAssumption DEF TypesInv, RamTypes
  <2>. QED  BY <2>1, Sizes, PageArithmetic DEF TypesInv, RamTypes
<1>2. flash' = ProgramPage(flash, tail, PageStart(off), cache)
  BY DEF FlushPage
<1>3. cache' = <<>> /\ off' \in Nat /\ off' > off
  BY FlushTyped
<1>4. Len(cache) >= 1
  BY <1>1
<1>5. PICK f : f = ProgramPage(flash, tail, PageStart(off), cache)
  OBVIOUS
<1>6. Written(f)
  BY <1>1, <1>4, <1>5, ProgramWrites
<1>7. PICK n \in 1 .. NSection : Arc(f, tail, n) /\ f[tail][0].count = count
  BY <1>1, <1>6, WrittenArc
<1>8. ~Fresh' /\ Newest' = tail'
  BY <1>1, <1>3 DEF Fresh, Newest
<1>9. count <= fills
  BY DEF RingOk
<1>10. n \in 0 .. NSection /\ n # 0
  OBVIOUS
<1>. QED  BY <1>2, <1>5, <1>7, <1>8, <1>9, <1>10 DEF RingOk

LEMMA ProgramRing ==
  ASSUME TypesInv, RingOk, Program, UNCHANGED fills
  PROVE  RingOk'
<1>1. Writing /\ off < Size /\ MovedInto
  BY ProgramMoves DEF Program
<1>2. UNCHANGED <<tail, count>> /\ off' = off + Portion
  BY DEF Program
<1>3. CASE Len(Filled) = Page
  <2>1. PICK f : f = ProgramPage(flash, tail, PageStart(off), Filled)
    OBVIOUS
  <2>2. flash' = f /\ cache' = <<>>
    BY <1>3, <2>1 DEF Program
  <2>3. Written(f)
    <3>1. Filled \in Seq(Unit) /\ Len(Filled) >= 1 /\ (Len(cache) >= 1 => Filled[1] = cache[1])
      <4>1. Len(cache) >= 1 => 1 \in 1 .. Len(cache)
        BY <1>1 DEF MovedInto
      <4>. QED  BY <1>1, <1>3, <4>1, Sizes DEF MovedInto
    <3>. QED  BY <1>1, <2>1, <3>1, ProgramWrites
  <2>4. PICK n \in 1 .. NSection : Arc(f, tail, n) /\ f[tail][0].count = count
    BY <1>1, <2>3, WrittenArc
  <2>5. ~Fresh' /\ Newest' = tail'
    BY <1>1, <1>2, <2>2 DEF Fresh, Newest, MovedInto
  <2>6. count <= fills
    BY DEF RingOk
  <2>7. n \in 0 .. NSection /\ n # 0
    OBVIOUS
  <2>. QED  BY <1>2, <2>2, <2>4, <2>5, <2>6, <2>7 DEF RingOk
<1>4. CASE Len(Filled) # Page
  <2>1. flash' = flash /\ cache' = Filled
    BY <1>4 DEF Program
  <2>2. Fresh' <=> Fresh
    BY <1>1, <1>2, <2>1, Sizes DEF Fresh, MovedInto
  <2>3. Newest' = Newest
    BY <1>2, <2>2 DEF Newest
  <2>4. Fresh => cache'[1] = cache[1]
    <3>1. Fresh => 1 \in 1 .. Len(cache)
      BY <1>1 DEF Fresh, MovedInto
    <3>. QED  BY <1>1, <2>1, <3>1 DEF MovedInto
  <2>5. off # Size
    BY <1>1, Sizes DEF MovedInto
  <2>. QED  BY <1>2, <2>1, <2>2, <2>3, <2>4, <2>5 DEF RingOk
<1>. QED  BY <1>3, <1>4

LEMMA EmptiedArc ==
  ASSUME NEW f \in Flash, NEW t \in Section, NEW n \in 0 .. NSection, Arc(f, t, n)
  PROVE  \E k \in 0 .. NSection - 1 : /\ Arc(EraseSection(f, get_next_section(t)), t, k)
                                      /\ k > 0 => n > 0
<1> DEFINE next == get_next_section(t)
           e == EraseSection(f, next)
           k == IF n = NSection THEN NSection - 1 ELSE n
<1>1. k \in 0 .. NSection - 1 /\ k <= n /\ (k > 0 => n > 0)
      /\ NSection \in Nat /\ NSection >= 3
  BY Sizes
<1>2. next \in Section /\ next # t
  BY NextSections
<1>3. \A s \in Section \ {next} : e[s][0] = f[s][0]
  BY <1>2 DEF EraseSection, Flash
<1>4. e[next][0] = Erased
  BY <1>2, Sizes DEF EraseSection, Flash
<1>5. ASSUME NEW j \in 0 .. NSection - 2
      PROVE  Back(t, j) \in Section /\ Back(t, j) # next
  <2>1. j \in 0 .. NSection - 1 /\ NSection - 1 \in 0 .. NSection - 1 /\ j # NSection - 1
    BY <1>1
  <2>2. Back(t, NSection - 1) = next
    BY <2>1, BackOf
  <2>. QED  BY <2>1, <2>2, BackOf
<1>6. ValidSections(e) = ValidSections(f) \ {next}
  BY <1>3, <1>4 DEF ValidSections, Erased
<1>7. ValidSections(e) = { Back(t, j) : j \in 0 .. k - 1 }
  <2>1. ValidSections(f) = { Back(t, j) : j \in 0 .. n - 1 }
    BY DEF Arc
  <2>2. ASSUME NEW j \in 0 .. k - 1 PROVE Back(t, j) \in ValidSections(e)
    <3>1. j \in 0 .. NSection - 2 /\ j \in 0 .. n - 1
      BY <1>1
    <3>. QED  BY <1>5, <1>6, <2>1, <3>1
  <2>3. ASSUME NEW s \in ValidSections(e) PROVE \E j \in 0 .. k - 1 : s = Back(t, j)
    <3>1. PICK j \in 0 .. n - 1 : s = Back(t, j) /\ s # next
      BY <1>6, <2>1
    <3>2. j # NSection - 1
      <4>1. Back(t, NSection - 1) = next
        BY <1>1, BackOf
      <4>. QED  BY <3>1, <4>1
    <3>3. j \in 0 .. k - 1
      BY <1>1, <3>2
    <3>. QED  BY <3>1, <3>3
  <2> HIDE DEF e, k
  <2>. QED  BY <2>2, <2>3
<1>8. \A j \in 0 .. k - 1 : e[Back(t, j)][0].count = e[t][0].count - j
  <2>1. ASSUME NEW j \in 0 .. k - 1 PROVE e[Back(t, j)][0].count = e[t][0].count - j
    <3>1. j \in 0 .. NSection - 2 /\ j \in 0 .. n - 1
      BY <1>1
    <3>2. f[Back(t, j)][0].count = f[t][0].count - j
      BY <3>1 DEF Arc
    <3>3. e[Back(t, j)][0] = f[Back(t, j)][0] /\ e[t][0] = f[t][0]
      BY <1>2, <1>3, <1>5, <3>1
    <3>. QED  BY <3>2, <3>3
  <2>. QED  BY <2>1
<1> HIDE DEF next, e, k
<1>9. Arc(e, t, k)
  BY <1>7, <1>8 DEF Arc
<1>. QED  BY <1>1, <1>9 DEF e, next

LEMMA NextSectionRing ==
  ASSUME TypesInv, RingOk, NextSection, fills \in Nat, fills' < CountSize
  PROVE  RingOk'
<1>1. fills' = fills + 1 /\ off = Size
  BY DEF NextSection
<1>2. PICK n \in 0 .. NSection :
        /\ Arc(flash, Newest, n)
        /\ count <= fills
        /\ IF Fresh THEN /\ flash[tail][0].u # "head"
                         /\ cache[1].u = "head" /\ cache[1].count = count
                         /\ n > 0 => count = flash[Newest][0].count + 1
           ELSE IF n = 0 THEN off = Size ELSE flash[tail][0].count = count
  BY DEF RingOk
<1>3. ~Fresh /\ Newest = tail /\ tail \in Section /\ count \in Nat /\ NSection \in Nat
      /\ Size \in Nat /\ Size > 1 /\ CountSize \in Nat
  <2>1. Len(cache) = 0 /\ Size # 0
    BY <1>1, Sizes, SizesAssumption DEF TypesInv, RamTypes
  <2>2. ~Fresh
    BY <1>1, <2>1 DEF Fresh
  <2>. QED  BY <2>2, Sizes DEF Newest, TypesInv, RamTypes
<1> DEFINE next == get_next_section(tail)
<1>4. CASE pc' = "failed"
  <2>1. UNCHANGED <<flash, cache, off, head, tail, count>>
    BY <1>4 DEF NextSection, Writing
  <2>2. Fresh' = Fresh /\ Newest' = Newest
    BY <2>1 DEF Fresh, Newest
  <2>3. count <= fills'
    BY <1>1, <1>2, <1>3
  <2>. QED  BY <1>2, <1>3, <2>1, <2>2, <2>3 DEF RingOk
<1>5. CASE pc' # "failed"
  <2>1. /\ tail' = next /\ flash' = EraseSection(flash, next)
        /\ count' = (count + 1) % CountSize /\ off' = 1
        /\ Len(cache') = 1
        /\ cache'[1].u = "head" /\ cache'[1].count = count'
    BY <1>5 DEF NextSection, SectionHead
  <2>2. count' = count + 1 /\ count' <= fills'
    <3>1. count + 1 \in 0 .. CountSize - 1
      BY <1>1, <1>2, <1>3
    <3>2. (0 * CountSize + (count + 1)) % CountSize = count + 1
      BY <1>3, <3>1, Rest, Sizes
    <3>3. 0 * CountSize + (count + 1) = count + 1
      BY <1>3
    <3>4. count' = count + 1
      BY <2>1, <3>2, <3>3, Zenon
    <3>. QED  BY <1>1, <1>2, <1>3, <3>4
  <2>3. next \in Section /\ get_prev_section(next) = tail
    BY <1>3, NextSections
  <2>4. Fresh' /\ Newest' = tail
    BY <1>3, <2>1, <2>3 DEF Fresh, Newest
  <2>5. PICK k \in 0 .. NSection - 1 : Arc(flash', tail, k) /\ (k > 0 => n > 0)
    BY <1>2, <1>3, <2>1, EmptiedArc DEF TypesInv
  <2>6. flash'[tail'][0].u # "head"
    BY <2>1, <2>3, Sizes DEF EraseSection, Erased, TypesInv, Flash
  <2>7. k > 0 => count' = flash'[tail][0].count + 1
    <3>1. flash'[tail][0] = flash[tail][0]
      BY <1>3, <2>1, <2>3, NextSections DEF EraseSection, TypesInv, Flash
    <3>. QED  BY <1>2, <1>3, <2>2, <2>5, <3>1
  <2>8. k \in 0 .. NSection
    BY <1>3
  <2>. QED  BY <2>1, <2>2, <2>4, <2>5, <2>6, <2>7, <2>8 DEF RingOk
<1>. QED  BY <1>4, <1>5


LEMMA RestartRing ==
  ASSUME NEW f \in Flash, NEW t \in Section, NEW n \in 0 .. NSection, Arc(f, t, n),
         n > 0 => f[t][0].count <= fills, fills \in Nat, RestartOn(f)
  PROVE  RingOk'
<1>1. PICK r : r = Recovered(f)
  OBVIOUS
<1>2. Rebuilt(r)
  BY <1>1, RecoveredTyped
<1>3. /\ flash' = f /\ off' = r.off /\ tail' = r.tail /\ count' = r.count
      /\ cache' = <<>> /\ fills' = fills
  BY <1>1 DEF RestartOn
<1>4. ~Fresh' /\ Newest' = r.tail
  <2>1. off' # 0 /\ Len(cache') = 0
    BY <1>2, <1>3 DEF Rebuilt
  <2>2. ~Fresh'
    BY <2>1 DEF Fresh
  <2>. QED  BY <1>3, <2>2 DEF Newest
<1>5. ValidSections(f) = {} <=> n = 0
  BY ArcEmpty
<1>6. CASE n = 0
  <2>1. r.off = Size /\ r.count = 0
    BY <1>1, <1>5, <1>6 DEF Recovered
  <2>2. Arc(f, r.tail, 0)
    <3>1. 0 .. 0 - 1 = {}
      OBVIOUS
    <3>. QED  BY <1>5, <1>6, <3>1 DEF Arc
  <2>. QED  BY <1>3, <1>4, <1>6, <2>1, <2>2 DEF RingOk
<1>7. CASE n # 0
  <2>1. HeadAndTail(f).tail = t
    BY <1>7, ArcEnd
  <2>2. r.tail = t /\ r.count = f[t][0].count
    BY <1>1, <1>5, <1>7, <2>1 DEF Recovered
  <2>. QED  BY <1>3, <1>4, <1>7, <2>2 DEF RingOk
<1>. QED  BY <1>6, <1>7

LEMMA PowerLossRing ==
  ASSUME TypesInv, RingOk, fills \in Nat, PowerLoss
  PROVE  RingOk'
<1>1. PICK n \in 0 .. NSection :
        /\ Arc(flash, Newest, n)
        /\ count <= fills
        /\ IF Fresh THEN /\ flash[tail][0].u # "head"
                         /\ cache[1].u = "head" /\ cache[1].count = count
                         /\ n > 0 => count = flash[Newest][0].count + 1
           ELSE IF n = 0 THEN off = Size ELSE flash[tail][0].count = count
  BY DEF RingOk
<1>2. Newest \in Section /\ flash \in Flash /\ count \in Nat
  BY NewestTyped, Sizes DEF TypesInv, RamTypes
<1>3. ASSUME n > 0 PROVE flash[Newest][0].count <= fills
  <2>1. flash[Newest][0].count \in Int
    <3>1. Newest \in ValidSections(flash)
      BY <1>1, <1>2, <1>3, ArcFirst
    <3>. QED  BY <1>2, <3>1, ValidHeads
  <2>2. CASE Fresh
    BY <1>1, <1>3, <2>1, <2>2
  <2>3. CASE ~Fresh
    <3>1. Newest = tail
      BY <2>3 DEF Newest
    <3>. QED  BY <1>1, <1>3, <2>3, <3>1
  <2>. QED  BY <2>2, <2>3
<1>. QED  BY <1>1, <1>2, <1>3, RestartRing DEF PowerLoss

LEMMA TornBounds ==
  ASSUME TypesInv, NEW f, NEW units \in Seq(Unit), NEW k \in Nat, TornPage(f, units, k)
  PROVE  /\ off < Size /\ k >= 1 /\ k < Len(units)
         /\ Len(units) <= Page /\ Len(cache) <= Len(units)
         /\ \A i \in 1 .. Len(cache) : units[i] = cache[i]
<1>1. CASE Writing /\ off < Size /\ Len(Filled) = Page /\ units = Filled
  <2>1. MovedInto
    BY <1>1, ProgramMoves
  <2>2. Len(cache) \in Nat
    BY DEF TypesInv, RamTypes
  <2>3. k >= 1 /\ k < Len(units)
    BY DEF TornPage
  <2>4. /\ Len(cache) < Page /\ Len(Filled) = Page
        /\ \A i \in 1 .. Len(cache) : Filled[i] = cache[i]
    BY <1>1, <2>1 DEF MovedInto
  <2>5. units = Filled /\ off < Size
    BY <1>1
  <2>. QED  BY <2>2, <2>3, <2>4, <2>5, Sizes
<1>2. CASE pc \in {"idle", "collect"} /\ units = cache
  <2>1. k >= 1 /\ k < Len(cache) /\ Len(cache) \in Nat
    BY <1>2 DEF TornPage
  <2>2. off \in Nat /\ ~(off > Size) /\ Len(cache) = off % Page
    BY <1>2 DEF TypesInv, RamTypes
  <2>3. off # Size
    BY <2>1, <2>2, SizesAssumption
  <2>4. Len(cache) <= Page
    BY <2>2, PageArithmetic, Sizes
  <2>. QED  BY <1>2, <2>1, <2>2, <2>3, <2>4, Sizes
<1>. QED  BY <1>1, <1>2 DEF TornPage

LEMMA TornRing ==
  ASSUME TypesInv, RingOk, fills \in Nat, PowerLossInPage
  PROVE  RingOk'
<1>1. PICK f \in Flash : \E units \in Seq(Unit), k \in Nat : TornPage(f, units, k)
  BY TornPages
<1>2. PICK units \in Seq(Unit), k \in Nat : TornPage(f, units, k)
  BY <1>1
<1>3. /\ off < Size /\ k >= 1 /\ k < Len(units)
      /\ Len(units) <= Page /\ Len(cache) <= Len(units)
      /\ \A i \in 1 .. Len(cache) : units[i] = cache[i]
  BY <1>2, TornBounds
<1>4. PICK q : q = SubSeq(units, 1, k)
  OBVIOUS
<1>5. q \in Seq(Unit) /\ Len(q) = k /\ q[1] = units[1]
  BY <1>3, <1>4
<1>6. Len(cache) >= 1 => q[1] = cache[1]
  <2>1. cache \in Seq(Unit)
    BY DEF TypesInv, RamTypes
  <2>2. Len(cache) >= 1 => 1 \in 1 .. Len(cache)
    BY <2>1
  <2>. QED  BY <1>3, <1>5, <2>2
<1>7. f = ProgramPage(flash, tail, PageStart(off), q) /\ RestartOn(f)
  BY <1>2, <1>4 DEF TornPage
<1>8. Written(f)
  BY <1>3, <1>5, <1>6, <1>7, ProgramWrites
<1>9. PICK n \in 1 .. NSection : Arc(f, tail, n) /\ f[tail][0].count = count
  BY <1>3, <1>8, WrittenArc
<1>10. count <= fills /\ tail \in Section /\ n \in 0 .. NSection
  BY DEF RingOk, TypesInv, RamTypes
<1>. QED  BY <1>7, <1>9, <1>10, RestartRing

LEMMA RingStart == Init => RingInv
<1>1. SUFFICES ASSUME Init PROVE RingInv
  OBVIOUS
<1>2. ValidSections(flash) = {}
  BY <1>1, Sizes DEF Init, ValidSections, Erased
<1>3. off = Size /\ count = 0 /\ cache = <<>> /\ fills = 0
  BY <1>1, <1>2 DEF Init, Recovered
<1>4. ~Fresh
  <2>1. Len(<<>>) = 0 /\ Size # 0
    BY Sizes
  <2>. QED  BY <1>3, <2>1 DEF Fresh
<1>5. Arc(flash, Newest, 0)
  <2>1. 0 .. 0 - 1 = {}
    OBVIOUS
  <2>. QED  BY <1>2, <2>1 DEF Arc
<1>6. 0 \in 0 .. NSection /\ ~(0 > 0)
  BY Sizes
<1>. QED  BY <1>1, <1>3, <1>4, <1>5, <1>6, TypesStart DEF RingInv, RingOk

LEMMA RingStep == RingInv /\ [Next]_vars => RingInv'
<1>1. SUFFICES ASSUME RingInv, [Next]_vars PROVE RingInv'
  OBVIOUS
<1>2. TypesInv /\ TypesInv' /\ fills \in Nat
  BY <1>1, TypesStep DEF RingInv
<1>3. ASSUME UNCHANGED <<flash, cache, off, tail, count, fills>> PROVE RingInv'
  <2>1. RingOk' = RingOk
    BY <1>3 DEF RingOk, Fresh, Newest
  <2>. QED  BY <1>1, <1>2, <1>3, <2>1 DEF RingInv
<1>4. SUFFICES ASSUME ~UNCHANGED <<flash, cache, off, tail, count, fills>>
               PROVE  fills' \in Nat /\ fills <= fills' /\ (RingOk /\ fills' < CountSize => RingOk')
  BY <1>1, <1>2, <1>3, Sizes DEF RingInv
<1>5. CASE Call /\ UNCHANGED <<fills, losses>>
  <2>1. WriteThrough
    BY <1>4, <1>5 DEF Call, WriteRecord, MakeDir, DelRecord, DelDir, BeginUpdate
  <2>2. FlushPage /\ off % Page # 0 /\ pc = "idle" /\ UNCHANGED <<tail, count>>
    BY <1>4, <1>5, <2>1 DEF WriteThrough
  <2>. QED  BY <1>2, <1>5, <2>2, FlushRing
<1>6. CASE NextSection
  <2>1. fills' = fills + 1
    BY <1>6 DEF NextSection
  <2>. QED  BY <1>2, <1>6, <2>1, NextSectionRing
<1>7. CASE (DelNext \/ CopyNode \/ CollectionDone \/ Program) /\ UNCHANGED fills
  <2>1. CASE DelNext \/ CopyNode
    BY <1>4, <1>7, <2>1 DEF DelNext, CopyNode, BeginUpdate
  <2>2. CASE CollectionDone
    <3>1. FlushPage /\ off % Page # 0 /\ pc # "failed" /\ UNCHANGED <<tail, count>>
      BY <1>4, <1>7, <2>2 DEF CollectionDone
    <3>. QED  BY <1>2, <1>7, <3>1, FlushRing
  <2>3. CASE Program
    BY <1>2, <1>7, <2>3, ProgramRing
  <2>. QED  BY <1>7, <2>1, <2>2, <2>3
<1>8. CASE PowerLoss
  <2>1. fills' = fills
    BY <1>8 DEF PowerLoss, RestartOn
  <2>. QED  BY <1>2, <1>8, <2>1, PowerLossRing
<1>9. CASE PowerLossInPage
  <2>1. fills' = fills
    BY <1>9 DEF PowerLossInPage, RestartOn
  <2>. QED  BY <1>2, <1>9, <2>1, TornRing
<1>10. CASE UNCHANGED vars
  BY <1>4, <1>10 DEF vars, ram
<1>. QED  BY <1>1, <1>5, <1>6, <1>7, <1>8, <1>9, <1>10 DEF Next, Step

LEMMA RingImpliesTailFound == RingInv => TailFound
<1>1. SUFFICES ASSUME RingInv, fills < CountSize, ValidSections(flash) # {}
               PROVE  HeadAndTail(flash).tail =
                        IF flash[tail][0].u = "head" THEN tail ELSE get_prev_section(tail)
  BY DEF TailFound
<1>2. PICK n \in 0 .. NSection :
        /\ Arc(flash, Newest, n)
        /\ Fresh => flash[tail][0].u # "head"
  BY <1>1 DEF RingInv, RingOk
<1>3. Newest \in Section /\ flash \in Flash
  BY <1>1, NewestTyped DEF RingInv, TypesInv
<1>4. n # 0
  BY <1>1, <1>2, ArcEmpty
<1>5. HeadAndTail(flash).tail = Newest
  BY <1>2, <1>3, <1>4, ArcEnd
<1>6. CASE Fresh
  BY <1>2, <1>5, <1>6 DEF Newest
<1>7. CASE ~Fresh
  <2>1. Newest = tail
    BY <1>7 DEF Newest
  <2>2. tail \in ValidSections(flash)
    BY <1>2, <1>3, <1>4, <2>1, ArcFirst
  <2>. QED  BY <1>5, <2>1, <2>2 DEF ValidSections
<1>. QED  BY <1>6, <1>7

(* At any moment, through writes, collection and power losses that tear a  *)
(* page, find_head_tail_section finds on the flash the section the last    *)
(* head was programmed in, as long as fewer sections were begun than the   *)
(* 16-bit number counts.                                                   *)
THEOREM TailIsFound == Spec => []TailFound
BY RingStart, RingStep, RingImpliesTailFound, PTL DEF Spec


-----------------------------------------------------------------------------
(* Programming only what is erased.                                        *)

LayoutOk(f) == \A s \in Section : Blank(f, s) \/ Packed(f, s)

(* In front of what is cached every page of the tail section begins with a *)
(* unit that is not erased, which is what the scan for its end relies on.  *)
PagesBegun(f, s, o) ==
  \A p \in 1 .. o - 1 :
    p % Page = 0 /\ p >= f[s][0].node_offset => f[s][p] # Erased

TailOk ==
  off <= Size =>
    /\ ErasedFrom(flash, tail, off - Len(cache))
    /\ \A i \in 1 .. Len(cache) : cache[i] # Erased
    /\ \/ Fresh /\ cache[1].u = "head"
       \/ /\ ~Fresh /\ flash[tail][0].u = "head"
          /\ PagesBegun(flash, tail, off - Len(cache))
       \/ off = Size /\ Blank(flash, tail)

CopyLength == pc = "copy" => Len(out) <= NodeLength("add", cur.n)

TailInv == TypesInv /\ LayoutOk(flash) /\ TailOk /\ CopyLength

LEMMA TailInvErased == TailInv => TailErased
<1>1. SUFFICES ASSUME TailInv PROVE TailErased
  OBVIOUS
<1>2. CASE off <= Size
  BY <1>1, <1>2 DEF TailInv, TailOk, ErasedFrom, TailErased
<1>3. CASE ~(off <= Size)
  <2>1. off > Size /\ Len(cache) = 0 /\ off \in Nat
    BY <1>1, <1>3, Sizes DEF TailInv, TypesInv, RamTypes
  <2>2. off - Len(cache) .. Size - 1 = {}
    BY <2>1, Sizes
  <2>. QED  BY <2>2 DEF TailErased
<1>. QED  BY <1>2, <1>3

(* The page at off, or its beginning, is programmed with units that are    *)
(* not erased.                                                             *)
Fills(f, q) ==
  /\ q \in Seq(Unit) /\ Len(q) \in 1 .. Page
  /\ \A i \in 1 .. Len(q) : q[i] # Erased
  /\ Fresh => q[1] = cache[1]
  /\ f = ProgramPage(flash, tail, PageStart(off), q)

LEMMA FilledPage ==
  ASSUME TailInv, off < Size, NEW f, NEW q, Fills(f, q)
  PROVE  /\ f \in Flash /\ LayoutOk(f)
         /\ f[tail][0].u = "head"
         /\ ErasedFrom(f, tail, PageStart(off) + Len(q))
         /\ PagesBegun(f, tail, PageStart(off) + Page)
<1>1. /\ off \in Nat /\ off >= 1 /\ tail \in Section /\ flash \in Flash
      /\ cache \in Seq(Unit) /\ Len(cache) = off % Page
      /\ q \in Seq(Unit) /\ Len(q) \in 1 .. Page
  BY Sizes DEF TailInv, TypesInv, RamTypes, Fills
<1>2. /\ PageStart(off) \in Nat /\ PageStart(off) = off - Len(cache)
      /\ PageStart(off) % Page = 0
  BY <1>1, PageArithmetic
<1>3. PICK b \in Nat : b = PageStart(off) /\ b = off - Len(cache) /\ b % Page = 0 /\ b < Size
  BY <1>1, <1>2, Sizes
<1>4. f = ProgramPage(flash, tail, b, q) /\ f \in Flash
  BY <1>1, <1>3, ProgramTyped DEF Fills
<1>5. \A s \in Section \ {tail}, i \in 0 .. Size - 1 : f[s][i] = flash[s][i]
  BY <1>1, <1>4 DEF ProgramPage, Flash
<1>6. \A i \in 0 .. Size - 1 :
        f[tail][i] = IF i >= b /\ i < b + Len(q) THEN q[i - b + 1] ELSE flash[tail][i]
  BY <1>1, <1>4 DEF ProgramPage, Flash
<1>7. /\ ErasedFrom(flash, tail, b)
      /\ \/ Fresh /\ cache[1].u = "head"
         \/ /\ ~Fresh /\ flash[tail][0].u = "head"
            /\ PagesBegun(flash, tail, b)
  BY <1>1, <1>3, Sizes DEF TailInv, TailOk
<1>8. Fresh <=> b = 0
  BY <1>1, <1>3, Sizes DEF Fresh
<1>9. f[tail][0].u = "head" /\ (b > 0 => f[tail][0] = flash[tail][0])
  <2>1. 0 \in 0 .. Size - 1
    BY Sizes
  <2>2. CASE Fresh
    <3>1. 0 >= b /\ 0 < b + Len(q) /\ 0 - b + 1 = 1
      BY <1>1, <1>8, <2>2
    <3>2. f[tail][0] = q[1]
      BY <1>6, <2>1, <3>1
    <3>. QED  BY <1>7, <1>8, <2>2, <3>2 DEF Fills
  <2>3. CASE ~Fresh
    <3>1. ~(0 >= b)
      BY <1>3, <1>8, <2>3
    <3>. QED  BY <1>6, <1>7, <2>1, <2>3, <3>1
  <2>. QED  BY <2>2, <2>3
<1>10. ErasedFrom(f, tail, b + Len(q))
  <2>1. ASSUME NEW i \in b + Len(q) .. Size - 1 PROVE f[tail][i] = Erased
    <3>1. i \in 0 .. Size - 1 /\ i \in b .. Size - 1 /\ ~(i < b + Len(q))
      BY <1>1, <1>3, Sizes
    <3>2. flash[tail][i] = Erased
      BY <1>7, <3>1 DEF ErasedFrom
    <3>. QED  BY <1>6, <3>1, <3>2
  <2>. QED  BY <2>1 DEF ErasedFrom
<1>11. ASSUME NEW p \in 1 .. Size - 1, p % Page = 0, p > b
       PROVE  p >= b + Page /\ ErasedFrom(f, tail, p)
  <2>1. p >= b - (b % Page) + Page
    <3>1. Page \in Nat /\ Page >= 1 /\ p \in Nat
      BY Sizes
    <3>. QED  BY <1>11, <3>1, PageAfter
  <2>2. p >= b + Page
    BY <1>3, <2>1, Sizes
  <2>3. \A i \in p .. Size - 1 : i \in b + Len(q) .. Size - 1
    BY <1>1, <1>3, <2>2, Sizes
  <2>. QED  BY <1>10, <2>2, <2>3 DEF ErasedFrom
<1>12. ASSUME NEW p \in 1 .. Size - 1, p % Page = 0, p <= b, p >= f[tail][0].node_offset
       PROVE  f[tail][p] # Erased
  <2>1. p \in Nat /\ p \in 0 .. Size - 1 /\ ~Fresh /\ b > 0 /\ f[tail][0] = flash[tail][0]
    BY <1>3, <1>8, <1>9, <1>12
  <2>2. CASE p = b
    <3>1. p >= b /\ p < b + Len(q) /\ p - b + 1 = 1
      BY <1>1, <1>3, <2>2
    <3>2. f[tail][p] = q[1]
      BY <1>6, <2>1, <3>1
    <3>. QED  BY <1>1, <3>2 DEF Fills
  <2>3. CASE p # b
    <3>1. p \in 1 .. b - 1 /\ ~(p >= b)
      BY <1>3, <1>12, <2>1, <2>3
    <3>2. flash[tail][p] # Erased
      BY <1>7, <1>12, <2>1, <3>1 DEF PagesBegun
    <3>. QED  BY <1>6, <2>1, <3>1, <3>2
  <2>. QED  BY <2>2, <2>3
<1>13. PagesBegun(f, tail, b + Page)
  <2>1. ASSUME NEW p \in 1 .. (b + Page) - 1, p % Page = 0, p >= f[tail][0].node_offset
        PROVE  f[tail][p] # Erased
    <3>1. p \in 1 .. Size - 1
      <4>1. b + Page <= Size
        BY <1>3, PagesFit, Sizes
      <4>. QED  BY <1>3, <4>1, Sizes
    <3>2. p <= b
      BY <1>3, <1>11, <2>1, <3>1, Sizes
    <3>. QED  BY <1>12, <2>1, <3>1, <3>2
  <2>2. \A p \in 1 .. (b + Page) - 1 :
          p % Page = 0 /\ p >= f[tail][0].node_offset => f[tail][p] # Erased
    BY <2>1
  <2>. QED  BY <2>2, Zenon DEF PagesBegun
<1>14. Packed(f, tail)
  <2>1. ASSUME NEW p \in 1 .. Size - 1, p % Page = 0, p >= f[tail][0].node_offset,
               f[tail][p] = Erased
        PROVE  ErasedFrom(f, tail, p)
    <3>1. p > b
      BY <1>3, <1>12, <2>1
    <3>. QED  BY <1>11, <2>1, <3>1
  <2>. QED  BY <1>9, <2>1 DEF Packed
<1>15. LayoutOk(f)
  <2>1. ASSUME NEW s \in Section, s # tail PROVE Blank(f, s) \/ Packed(f, s)
    <3>1. \A i \in 0 .. Size - 1 : f[s][i] = flash[s][i]
      BY <1>5, <2>1
    <3>2. Blank(flash, s) \/ Packed(flash, s)
      BY DEF TailInv, LayoutOk
    <3>3. CASE Blank(flash, s)
      BY <3>1, <3>3 DEF Blank
    <3>4. CASE Packed(flash, s)
      <4>1. 0 \in 0 .. Size - 1 /\ \A p \in 1 .. Size - 1 : \A i \in p .. Size - 1 :
                p \in 0 .. Size - 1 /\ i \in 0 .. Size - 1
        BY Sizes
      <4>. QED  BY <3>1, <3>4, <4>1 DEF Packed, ErasedFrom
    <3>. QED  BY <3>2, <3>3, <3>4
  <2>. QED  BY <1>14, <2>1 DEF LayoutOk
<1>. QED  BY <1>3, <1>4, <1>9, <1>10, <1>13, <1>15


(* A page completed or flushed.                                            *)
LEMMA PageDone ==
  ASSUME TailInv, off < Size, NEW q, Fills(flash', q),
         cache' = <<>>, off' = PageStart(off) + Page, tail' = tail
  PROVE  LayoutOk(flash') /\ TailOk'
<1>1. PICK f : f = flash'
  OBVIOUS
<1>2. /\ LayoutOk(f) /\ f[tail][0].u = "head"
      /\ ErasedFrom(f, tail, PageStart(off) + Len(q))
      /\ PagesBegun(f, tail, PageStart(off) + Page)
  BY <1>1, FilledPage
<1>3. PageStart(off) \in Nat /\ Len(q) \in 1 .. Page /\ off \in Nat /\ off >= 1
  BY PageArithmetic DEF Fills, TailInv, TypesInv, RamTypes
<1>4. Len(cache') = 0 /\ off' - Len(cache') = PageStart(off) + Page /\ off' # 0
  BY <1>3, Sizes
<1>5. ErasedFrom(f, tail, PageStart(off) + Page)
  BY <1>2, <1>3, Sizes DEF ErasedFrom
<1>6. ~Fresh'
  BY <1>4 DEF Fresh
<1>7. \A i \in 1 .. Len(cache') : cache'[i] # Erased
  BY <1>4
<1>8. TailOk'
  BY <1>1, <1>2, <1>4, <1>5, <1>6, <1>7 DEF TailOk
<1>. QED  BY <1>1, <1>2, <1>8

LEMMA FlushKeeps ==
  ASSUME TailInv, off % Page # 0, pc # "failed", FlushPage, tail' = tail
  PROVE  LayoutOk(flash') /\ TailOk'
<1>1. /\ off \in Nat /\ off < Size /\ off >= 1 /\ cache \in Seq(Unit)
      /\ Len(cache) \in 1 .. Page - 1 /\ off <= Size
  <2>1. off \in Nat /\ off >= 1 /\ ~(off > Size) /\ off # Size
    BY Sizes, SizesAssumption DEF TailInv, TypesInv, RamTypes
  <2>2. Len(cache) = off % Page /\ off % Page \in 0 .. Page - 1 /\ cache \in Seq(Unit)
    BY <2>1, PageArithmetic DEF TailInv, TypesInv, RamTypes
  <2>. QED  BY <2>1, <2>2, Sizes
<1>2. \A i \in 1 .. Len(cache) : cache[i] # Erased
  BY <1>1 DEF TailInv, TailOk
<1>3. flash' = ProgramPage(flash, tail, PageStart(off), cache) /\ cache' = <<>>
      /\ off' = PageStart(off) + Page
  BY DEF FlushPage, NextPage
<1>4. Fills(flash', cache)
  BY <1>1, <1>2, <1>3, Sizes DEF Fills
<1>. QED  BY <1>1, <1>3, <1>4, PageDone

(* A node's units are not erased, and neither is what a faithful copy      *)
(* reads of them.                                                          *)
LEMMA FetchedNotErased ==
  ASSUME TailInv, CopyFaithful, Writing, NEW i \in 1 .. Len(out)
  PROVE  Fetched(out[i]) # Erased
<1>1. /\ cur \in Write /\ out \in Seq(Unit \cup Copied) /\ Len(out) \in Nat
      /\ pc = "write" => \A j \in 1 .. Len(out) : out[j] \in Unit \ {Erased}
  BY DEF TailInv, TypesInv, WriteTypes
<1>2. CASE pc = "write"
  <2>1. out[i] \in Unit \ {Erased}
    BY <1>1, <1>2
  <2>. QED  BY <2>1, UnitKinds DEF Fetched
<1>3. CASE pc = "copy"
  <2>1. cur.n \in Node /\ "add" \in Op
    BY <1>1 DEF Write, Op
  <2>2. PICK units : units = UnitsOf("add", cur.n)
    OBVIOUS
  <2>3. /\ Len(units) \in Nat /\ Len(out) <= Len(units)
        /\ \A j \in 1 .. Len(units) : units[j] \in Unit \ {Erased}
    BY <1>3, <2>1, <2>2, UnitsTyped, NodeLengths DEF TailInv, CopyLength
  <2>4. Fetched(out[i]) = units[Len(units) - Len(out) + i]
    <3>1. i \in DOMAIN out
      BY <1>1
    <3>. QED  BY <1>3, <2>2, <3>1 DEF CopyFaithful
  <2>5. Len(units) - Len(out) + i \in 1 .. Len(units)
    BY <1>1, <2>3
  <2>. QED  BY <2>3, <2>4, <2>5
<1>. QED  BY <1>2, <1>3 DEF Writing

LEMMA FilledNotErased ==
  ASSUME TailInv, CopyFaithful, Writing, off < Size
  PROVE  \A i \in 1 .. Len(Filled) : Filled[i] # Erased
<1>1. MovedInto
  BY ProgramMoves DEF TailInv
<1>2. /\ Len(cache) \in Nat /\ Portion \in Nat /\ Portion <= Len(out) /\ Len(out) \in Nat
      /\ Len(Filled) = Len(cache) + Portion
      /\ \A i \in 1 .. Len(cache) : Filled[i] = cache[i]
      /\ \A i \in 1 .. Portion : Filled[Len(cache) + i] = Fetched(out[i])
  <2>1. Len(cache) \in Nat /\ Len(out) \in Nat
    BY DEF TailInv, TypesInv, RamTypes, WriteTypes
  <2>. QED  BY <1>1, <2>1 DEF MovedInto
<1>3. \A i \in 1 .. Len(cache) : cache[i] # Erased
  <2>1. off \in Nat /\ off <= Size
    BY Sizes DEF TailInv, TypesInv, RamTypes
  <2>. QED  BY <2>1 DEF TailInv, TailOk
<1>4. ASSUME NEW i \in 1 .. Len(Filled) PROVE Filled[i] # Erased
  <2>1. CASE i <= Len(cache)
    BY <1>2, <1>3, <2>1
  <2>2. CASE i > Len(cache)
    <3>1. i - Len(cache) \in 1 .. Portion /\ i - Len(cache) \in 1 .. Len(out)
          /\ Len(cache) + (i - Len(cache)) = i
      BY <1>2, <2>2
    <3>2. Filled[Len(cache) + (i - Len(cache))] = Fetched(out[i - Len(cache)])
      BY <1>2, <3>1
    <3>. QED  BY <3>1, <3>2, FetchedNotErased
  <2>3. i <= Len(cache) \/ i > Len(cache)
    BY <1>2
  <2>. QED  BY <2>1, <2>2, <2>3, Zenon
<1>. QED  BY <1>4

LEMMA ProgramKeeps ==
  ASSUME TailInv, CopyFaithful, Program
  PROVE  LayoutOk(flash') /\ TailOk' /\ CopyLength'
<1>1. Writing /\ off < Size /\ MovedInto /\ tail' = tail /\ off' = off + Portion
  BY ProgramMoves DEF Program, TailInv
<1>2. \A i \in 1 .. Len(Filled) : Filled[i] # Erased
  BY <1>1, FilledNotErased
<1>3. Len(cache) \in Nat /\ cache \in Seq(Unit) /\ out \in Seq(Unit \cup Copied)
      /\ Len(out) \in Nat
  BY <1>1 DEF TailInv, TypesInv, RamTypes, WriteTypes
<1>4. Fresh => 1 \in 1 .. Len(cache) /\ Filled[1] = cache[1]
  BY <1>1, <1>3 DEF Fresh, MovedInto
<1> DEFINE p == Portion
           s == PageStart(off)
           l == Len(Filled)
<1>5. /\ p \in Nat /\ p >= 1 /\ p <= Len(out) /\ l = Len(cache) + p
      /\ l <= Page /\ l \in Nat /\ off + p <= Size /\ off \in Nat
      /\ s = off - Len(cache) /\ off' = off + p
  BY <1>1, <1>3 DEF MovedInto
<1>6. Size \in Nat /\ Page \in Nat
  BY Sizes
<1> HIDE DEF p, s, l
<1>7. LayoutOk(flash') /\ TailOk'
  <2>1. CASE Len(Filled) = Page
    <3>1. flash' = ProgramPage(flash, tail, PageStart(off), Filled) /\ cache' = <<>>
      BY <2>1 DEF Program
    <3>2. Fills(flash', Filled)
      <4>1. Filled \in Seq(Unit) /\ Len(Filled) \in 1 .. Page
        BY <1>1, <2>1, Sizes DEF MovedInto
      <4>. QED  BY <1>2, <1>4, <3>1, <4>1 DEF Fills
    <3>3. off' = PageStart(off) + Page
      <4>1. l = Page
        BY <2>1 DEF l
      <4>2. off' = s + Page
        BY <1>3, <1>5, <1>6, <4>1
      <4>. QED  BY <4>2 DEF s
    <3>. QED  BY <1>1, <3>1, <3>2, <3>3, PageDone
  <2>2. CASE Len(Filled) # Page
    <3>1. flash' = flash /\ cache' = Filled
      BY <2>2 DEF Program
    <3>2. off' - Len(cache') = off - Len(cache) /\ (off' = Len(cache') <=> off = Len(cache))
          /\ off' <= Size
      <4>1. Len(cache') = l
        BY <3>1 DEF l
      <4>. QED  BY <1>3, <1>5, <1>6, <4>1
    <3>3. Fresh' <=> Fresh
      <4>1. off <= Size
        BY <1>5, <1>6
      <4>. QED  BY <3>2, <4>1 DEF Fresh
    <3>4. off # Size /\ off <= Size
      BY <1>5, <1>6
    <3>5. TailOk'
      BY <1>1, <1>2, <1>4, <3>1, <3>2, <3>3, <3>4 DEF TailInv, TailOk
    <3>. QED  BY <3>1, <3>5 DEF TailInv
  <2>. QED  BY <2>1, <2>2
<1>8. CopyLength'
  <2>1. CASE SubSeq(out, Portion + 1, Len(out)) = <<>>
    <3>1. pc' # "copy"
      BY <2>1 DEF Program, NodeWritten
    <3>. QED  BY <3>1 DEF CopyLength
  <2>2. CASE SubSeq(out, Portion + 1, Len(out)) # <<>>
    <3>1. pc' = pc /\ cur'.n = cur.n /\ out' = SubSeq(out, Portion + 1, Len(out))
      <4>1. cur \in Write
        BY <1>1 DEF TailInv, TypesInv, WriteTypes
      <4>. QED  BY <2>2, <4>1 DEF Program, Write
    <3>2. Len(out') <= Len(out) /\ Len(out') \in Nat
      <4>1. Portion \in Nat /\ Portion >= 1 /\ Portion <= Len(out)
        BY <1>1 DEF MovedInto
      <4>2. \A q \in Seq(Unit \cup Copied), k \in Nat : k <= Len(q) =>
              Len(SubSeq(q, k + 1, Len(q))) = Len(q) - k
        OBVIOUS
      <4>3. Len(out') = Len(out) - Portion
        BY <1>3, <3>1, <4>1, <4>2
      <4>. QED  BY <1>3, <4>1, <4>3
    <3>3. pc = "copy" => NodeLength("add", cur.n) \in Nat
      <4>1. cur.n \in Node /\ "add" \in Op
        BY <1>1 DEF TailInv, TypesInv, WriteTypes, Write, Op
      <4>. QED  BY <4>1, NodeLengths
    <3>4. pc = "copy" => Len(out) <= NodeLength("add", cur.n)
      BY DEF TailInv, CopyLength
    <3>5. pc = "copy" => Len(out') <= NodeLength("add", cur.n)
      BY <1>3, <3>2, <3>3, <3>4
    <3>6. NodeLength("add", cur.n)' = NodeLength("add", cur.n)
      BY <3>1 DEF NodeLength, BodyLen, DataLen
    <3>. QED  BY <3>1, <3>5, <3>6 DEF CopyLength
  <2>. QED  BY <2>1, <2>2
<1>. QED  BY <1>7, <1>8


LEMMA CopyNodeLength ==
  ASSUME TypesInv, CopyNode
  PROVE  CopyLength'
<1> DEFINE e == Head(lists[gc])
           copied == NodeLength("add", e.n) - 1
           unit(i) == LET b == Behind(gc, e.off, i)
                      IN  IF i <= MetaRest THEN More("add", e.n, i)
                          ELSE CopyOf(b[1], b[2])
           units == IF e.n.kind = "dir" THEN UnitsOf("add", e.n)
                    ELSE << Meta("add", e.n) >> \o [i \in 1 .. copied |-> unit(i)]
<1>1. pc = "collect" /\ lists[gc] # <<>> /\ StartNode("copy", "add", e.n, units)
  BY DEF CopyNode
<1>2. gc \in Section /\ lists[gc] \in Seq(Entry)
  BY <1>1 DEF TypesInv, CallTypes, RamTypes, Lists
<1>3. e.n \in Node /\ "add" \in Op
  <2>1. e \in Entry
    BY <1>1, <1>2
  <2>. QED  BY <2>1 DEF Entry, Op
<1>4. copied \in Nat /\ NodeLength("add", e.n) = 1 + copied
  BY <1>3, NodeLengths
<1>5. Len(units) = NodeLength("add", e.n)
  <2>1. CASE e.n.kind = "dir"
    BY <1>3, <2>1, UnitsTyped
  <2>2. CASE e.n.kind # "dir"
    <3> DEFINE T == {Meta("add", e.n)} \cup { unit(i) : i \in 1 .. copied }
               a == << Meta("add", e.n) >>
               b == [i \in 1 .. copied |-> unit(i)]
    <3>1. a \in Seq(T) /\ b \in Seq(T) /\ Len(a) = 1 /\ Len(b) = copied
      <4>1. \A i \in 1 .. copied : unit(i) \in T
        OBVIOUS
      <4> HIDE DEF unit, copied
      <4>. QED  BY <1>4, <4>1
    <3>2. units = a \o b
      BY <2>2
    <3> HIDE DEF a, b, T, units, copied
    <3>. QED  BY <1>4, <3>1, <3>2, ConcatProperties
  <2>. QED  BY <2>1, <2>2
<1> HIDE DEF e, copied, unit, units
<1>6. cur'.n = e.n /\ out' = units
  BY <1>1 DEF StartNode
<1>7. NodeLength("add", cur.n)' = NodeLength("add", e.n)
  BY <1>6 DEF NodeLength, BodyLen, DataLen
<1>8. NodeLength("add", e.n) \in Nat
  BY <1>3, NodeLengths
<1>. QED  BY <1>5, <1>6, <1>7, <1>8 DEF CopyLength

LEMMA NextSectionKeeps ==
  ASSUME TailInv, NextSection
  PROVE  LayoutOk(flash') /\ TailOk' /\ CopyLength'
<1> DEFINE next == get_next_section(tail)
<1>1. /\ Writing /\ off = Size /\ cur' = cur
      /\ out' = << Fetched(Head(out)) >> \o Tail(out)
  BY DEF NextSection
<1>2. /\ tail \in Section /\ next \in Section /\ flash \in Flash
      /\ out \in Seq(Unit \cup Copied) /\ Len(out) \in Nat /\ Len(out) >= 1
      /\ cache \in Seq(Unit) /\ Size \in Nat /\ Size > 1
  BY <1>1, NextSections, Sizes DEF TailInv, TypesInv, RamTypes, WriteTypes
<1>3. CopyLength'
  <2>1. Len(out') = Len(out)
    <3>1. Tail(out) \in Seq(Unit \cup Copied) /\ Len(Tail(out)) = Len(out) - 1
      BY <1>2
    <3>2. << Fetched(Head(out)) >> \in Seq({Fetched(Head(out))} \cup Unit \cup Copied)
          /\ Tail(out) \in Seq({Fetched(Head(out))} \cup Unit \cup Copied)
          /\ Len(<< Fetched(Head(out)) >>) = 1
      BY <3>1
    <3>3. Len(out') = 1 + (Len(out) - 1)
      BY <1>1, <3>1, <3>2, ConcatProperties
    <3>. QED  BY <1>2, <3>3
  <2>2. pc' \in {pc, "failed"}
    BY DEF NextSection
  <2>3. NodeLength("add", cur.n)' = NodeLength("add", cur.n)
    BY <1>1 DEF NodeLength, BodyLen, DataLen
  <2>. QED  BY <2>1, <2>2, <2>3 DEF TailInv, CopyLength
<1>4. CASE pc' = "failed"
  <2>1. UNCHANGED <<flash, cache, off, tail>>
    BY <1>1, <1>4 DEF NextSection, Writing
  <2>2. TailOk' = TailOk
    BY <2>1 DEF TailOk, Fresh
  <2>. QED  BY <1>3, <2>1, <2>2 DEF TailInv
<1>5. CASE pc' # "failed"
  <2>1. /\ tail' = next /\ flash' = EraseSection(flash, next) /\ off' = 1
        /\ Len(cache') = 1 /\ cache'[1].u = "head"
    BY <1>5 DEF NextSection, SectionHead
  <2>2. \A s \in Section : flash'[s] = IF s = next THEN [i \in 0 .. Size - 1 |-> Erased] ELSE flash[s]
    BY <1>2, <2>1 DEF EraseSection, Flash
  <2>3. Blank(flash', next)
    BY <1>2, <2>2 DEF Blank
  <2>4. LayoutOk(flash')
    <3>1. ASSUME NEW s \in Section, s # next PROVE Blank(flash', s) \/ Packed(flash', s)
      <4>1. flash'[s] = flash[s]
        BY <2>2, <3>1
      <4>2. Blank(flash, s) \/ Packed(flash, s)
        BY DEF TailInv, LayoutOk
      <4>. QED  BY <4>1, <4>2 DEF Blank, Packed, ErasedFrom
    <3>. QED  BY <2>3, <3>1 DEF LayoutOk
  <2>5. Fresh'
    BY <1>2, <2>1 DEF Fresh
  <2>6. \A i \in 1 .. Len(cache') : cache'[i] # Erased
    <3>1. cache'[1] # Erased
      BY <2>1 DEF Erased
    <3>. QED  BY <2>1, <3>1
  <2>7. ErasedFrom(flash, tail, off - Len(cache))'
    <3>1. off' - Len(cache') = 0
      BY <2>1
    <3>2. ErasedFrom(flash', tail', 0)
      BY <2>1, <2>3 DEF Blank, ErasedFrom
    <3>. QED  BY <3>1, <3>2
  <2>8. TailOk'
    BY <2>1, <2>5, <2>6, <2>7 DEF TailOk
  <2>. QED  BY <1>3, <2>4, <2>8
<1>. QED  BY <1>4, <1>5

LEMMA RestartKeeps ==
  ASSUME NEW f \in Flash, LayoutOk(f), RestartOn(f)
  PROVE  LayoutOk(flash') /\ TailOk' /\ CopyLength'
<1>1. PICK r : r = Recovered(f)
  OBVIOUS
<1>2. Rebuilt(r)
  BY <1>1, RecoveredTyped
<1>3. /\ flash' = f /\ off' = r.off /\ tail' = r.tail /\ pc' = r.pc /\ cache' = <<>>
      /\ Len(cache') = 0
  BY <1>1 DEF RestartOn
<1>4. CopyLength'
  BY <1>2, <1>3 DEF Rebuilt, CopyLength
<1>5. ~Fresh' /\ off' - Len(cache') = r.off /\ r.off \in Nat
  <2>1. off' # 0 /\ r.off \in Nat
    BY <1>2, <1>3 DEF Rebuilt
  <2>. QED  BY <1>3, <2>1 DEF Fresh
<1>6. \A i \in 1 .. Len(cache') : cache'[i] # Erased
  BY <1>3
<1>7. CASE ValidSections(f) = {}
  <2>1. r.off = Size /\ r.tail \in Section
    BY <1>1, <1>2, <1>7 DEF Recovered, Rebuilt
  <2>2. Blank(f, r.tail)
    BY <1>7, <2>1 DEF LayoutOk, Packed, ValidSections
  <2>3. ErasedFrom(f, r.tail, r.off)
    <3>1. Size .. Size - 1 = {}
      BY Sizes
    <3>. QED  BY <2>1, <3>1 DEF ErasedFrom
  <2>4. TailOk'
    BY <1>3, <1>5, <1>6, <2>1, <2>2, <2>3 DEF TailOk
  <2>. QED  BY <1>3, <1>4, <2>4
<1>8. CASE ValidSections(f) # {}
  <2> DEFINE t == HeadAndTail(f).tail
             end == ScanSection(f, t, t).end
  <2>1. r.tail = t /\ r.off = end
    BY <1>1, <1>8 DEF Recovered
  <2>2. t \in Section /\ f[t][0].u = "head" /\ f[t][0].node_offset \in 1 .. Size - 1
    BY <1>8, EndsAreValid, ValidHeads
  <2>3. ScannedTail(f, t, f[t][0].node_offset, end)
    BY <2>2, ScanOfTail
  <2> HIDE DEF t, end
  <2>4. Packed(f, t)
    <3>1. ~Blank(f, t)
      BY <2>2, Sizes DEF Blank, Erased
    <3>. QED  BY <2>2, <3>1 DEF LayoutOk
  <2>5. end \in Nat /\ end >= 1
    BY <1>2, <2>1 DEF Rebuilt
  <2>6. ErasedFrom(f, t, end)
    <3>1. CASE end >= Size
      <4>1. end .. Size - 1 = {}
        BY <2>5, <3>1, Sizes
      <4>. QED  BY <4>1 DEF ErasedFrom
    <3>2. CASE end < Size
      <4>1. end % Page = 0 /\ PageEmpty(f, t, end) /\ end >= f[t][0].node_offset
        BY <2>3, <3>2 DEF ScannedTail
      <4>2. end \in end .. end + Page - 1
        BY <2>5, Sizes
      <4>3. f[t][end] = Erased
        BY <4>1, <4>2 DEF PageEmpty
      <4>4. end \in 1 .. Size - 1
        BY <2>5, <3>2, Sizes
      <4>. QED  BY <2>4, <4>1, <4>3, <4>4 DEF Packed
    <3>. QED  BY <2>5, <3>1, <3>2, Sizes
  <2>7. ASSUME end <= Size PROVE PagesBegun(f, t, end)
    <3>1. ASSUME NEW p \in 1 .. end - 1, p % Page = 0, p >= f[t][0].node_offset,
                 f[t][p] = Erased
          PROVE  FALSE
      <4>1. p \in 1 .. Size - 1
        BY <2>5, <2>7, Sizes
      <4>2. ErasedFrom(f, t, p)
        BY <2>4, <3>1, <4>1 DEF Packed
      <4>3. end <= p
        BY <2>3, <3>1, <4>1, <4>2 DEF ScannedTail
      <4>. QED  BY <2>5, <4>3
    <3>. QED  BY <3>1 DEF PagesBegun
  <2>8. TailOk'
    BY <1>3, <1>5, <1>6, <2>1, <2>2, <2>6, <2>7 DEF TailOk
  <2>. QED  BY <1>3, <1>4, <2>8
<1>. QED  BY <1>7, <1>8

LEMMA TornKeeps ==
  ASSUME TailInv, CopyFaithful, PowerLossInPage
  PROVE  LayoutOk(flash') /\ TailOk' /\ CopyLength'
<1>1. PICK f \in Flash : \E units \in Seq(Unit), k \in Nat : TornPage(f, units, k)
  BY TornPages DEF TailInv
<1>2. PICK units \in Seq(Unit), k \in Nat : TornPage(f, units, k)
  BY <1>1
<1>3. /\ off < Size /\ k >= 1 /\ k < Len(units)
      /\ Len(units) <= Page /\ Len(cache) <= Len(units)
      /\ \A i \in 1 .. Len(cache) : units[i] = cache[i]
  BY <1>2, TornBounds DEF TailInv
<1>4. \A i \in 1 .. Len(units) : units[i] # Erased
  <2>1. CASE Writing /\ off < Size /\ Len(Filled) = Page /\ units = Filled
    BY <2>1, FilledNotErased
  <2>2. CASE units = cache
    <3>1. off <= Size
      BY <1>3, Sizes DEF TailInv, TypesInv, RamTypes
    <3>. QED  BY <2>2, <3>1 DEF TailInv, TailOk
  <2>. QED  BY <1>2, <2>1, <2>2 DEF TornPage
<1>5. PICK q : q = SubSeq(units, 1, k)
  OBVIOUS
<1>6. q \in Seq(Unit) /\ Len(q) = k /\ \A i \in 1 .. k : q[i] = units[i]
  BY <1>3, <1>5
<1>7. f = ProgramPage(flash, tail, PageStart(off), q) /\ RestartOn(f)
  BY <1>2, <1>5 DEF TornPage
<1>8. Fills(f, q)
  <2>1. Len(q) \in 1 .. Page
    BY <1>3, <1>6, Sizes
  <2>2. \A i \in 1 .. Len(q) : q[i] # Erased
    BY <1>3, <1>4, <1>6
  <2>3. Fresh => q[1] = cache[1]
    <3>1. off \in Nat /\ off >= 1
      BY DEF TailInv, TypesInv, RamTypes
    <3>2. 1 \in 1 .. k
      BY <1>3
    <3>3. Fresh => 1 \in 1 .. Len(cache)
      BY <3>1 DEF Fresh
    <3>. QED  BY <1>3, <1>6, <3>2, <3>3
  <2>. QED  BY <1>6, <1>7, <2>1, <2>2, <2>3 DEF Fills
<1>9. LayoutOk(f)
  BY <1>3, <1>8, FilledPage
<1>. QED  BY <1>7, <1>9, RestartKeeps

LEMMA TailStart == Init => TailInv
<1>1. SUFFICES ASSUME Init PROVE TailInv
  OBVIOUS
<1>2. ValidSections(flash) = {} /\ \A s \in Section : Blank(flash, s)
  BY <1>1, Sizes DEF Init, ValidSections, Erased, Blank
<1>3. off = Size /\ cache = <<>> /\ pc = "idle" /\ Len(cache) = 0
  BY <1>1, <1>2 DEF Init, Recovered
<1>4. TypesInv
  BY <1>1, TypesStart
<1>5. ErasedFrom(flash, tail, off - Len(cache))
  <2>1. off - Len(cache) .. Size - 1 = {}
    BY <1>3, Sizes
  <2>. QED  BY <2>1 DEF ErasedFrom
<1>6. TailOk
  BY <1>2, <1>3, <1>4, <1>5 DEF TailOk, TypesInv, RamTypes
<1>. QED  BY <1>2, <1>3, <1>4, <1>6 DEF TailInv, LayoutOk, CopyLength

LEMMA TailStep == TailInv /\ CopyFaithful /\ [Next]_vars => TailInv'
<1>1. SUFFICES ASSUME TailInv, CopyFaithful, [Next]_vars PROVE TailInv'
  OBVIOUS
<1>2. TypesInv'
  BY <1>1, TypesStep DEF TailInv
<1>3. ASSUME UNCHANGED <<flash, cache, off, tail>>, CopyLength' PROVE TailInv'
  <2>1. TailOk' = TailOk
    BY <1>3 DEF TailOk, Fresh
  <2>. QED  BY <1>1, <1>2, <1>3, <2>1 DEF TailInv
<1>4. CASE Call /\ UNCHANGED <<fills, losses>>
  <2>1. CopyLength'
    <3>1. pc' # "copy"
      BY <1>4 DEF Call, WriteRecord, MakeDir, DelRecord, DelDir, BeginUpdate, StartNode,
                  CallAllowed, WriteThrough
    <3>. QED  BY <3>1 DEF CopyLength
  <2>2. CASE UNCHANGED <<flash, cache, off, tail>>
    BY <1>3, <2>1, <2>2
  <2>3. CASE ~UNCHANGED <<flash, cache, off, tail>>
    <3>1. WriteThrough
      BY <1>4, <2>3 DEF Call, WriteRecord, MakeDir, DelRecord, DelDir, BeginUpdate
    <3>2. FlushPage /\ off % Page # 0 /\ pc # "failed" /\ tail' = tail
      BY <2>3, <3>1 DEF WriteThrough
    <3>. QED  BY <1>1, <1>2, <2>1, <3>2, FlushKeeps DEF TailInv
  <2>. QED  BY <2>2, <2>3
<1>5. CASE NextSection
  BY <1>1, <1>2, <1>5, NextSectionKeeps DEF TailInv
<1>6. CASE DelNext
  <2>1. UNCHANGED <<flash, cache, off, tail>> /\ pc' # "copy"
    BY <1>6 DEF DelNext, BeginUpdate, StartNode
  <2>. QED  BY <1>3, <2>1 DEF CopyLength
<1>7. CASE CopyNode
  <2>1. UNCHANGED <<flash, cache, off, tail>>
    BY <1>7 DEF CopyNode
  <2>2. CopyLength'
    BY <1>1, <1>7, CopyNodeLength DEF TailInv
  <2>. QED  BY <1>3, <2>1, <2>2
<1>8. CASE CollectionDone
  <2>1. CopyLength'
    <3>1. pc' # "copy"
      BY <1>8 DEF CollectionDone
    <3>. QED  BY <3>1 DEF CopyLength
  <2>2. CASE UNCHANGED <<flash, cache, off, tail>>
    BY <1>3, <2>1, <2>2
  <2>3. CASE ~UNCHANGED <<flash, cache, off, tail>>
    <3>1. FlushPage /\ off % Page # 0 /\ pc # "failed" /\ tail' = tail
      BY <1>8, <2>3 DEF CollectionDone
    <3>. QED  BY <1>1, <1>2, <2>1, <3>1, FlushKeeps DEF TailInv
  <2>. QED  BY <2>2, <2>3
<1>9. CASE Program
  BY <1>1, <1>2, <1>9, ProgramKeeps DEF TailInv
<1>10. CASE PowerLoss
  <2>1. RestartOn(flash) /\ flash \in Flash /\ LayoutOk(flash)
    BY <1>1, <1>10 DEF PowerLoss, TailInv, TypesInv
  <2>. QED  BY <1>2, <2>1, RestartKeeps DEF TailInv
<1>11. CASE PowerLossInPage
  BY <1>1, <1>2, <1>11, TornKeeps DEF TailInv
<1>12. CASE UNCHANGED vars
  <2>1. UNCHANGED <<flash, cache, off, tail, pc, out, cur>>
    BY <1>12 DEF vars, ram
  <2>2. CopyLength' = CopyLength
    BY <2>1 DEF CopyLength, NodeLength, BodyLen, DataLen
  <2>. QED  BY <1>1, <1>3, <2>1, <2>2 DEF TailInv
<1>. QED  BY <1>1, <1>4, <1>5, <1>6, <1>7, <1>8, <1>9, <1>10, <1>11, <1>12 DEF Next, Step

(* As long as a copy reads what the node it copies holds, every page that  *)
(* is programmed was erased: also after a power loss that tore a page, the *)
(* scan of tinyfs_init finds an end behind everything that was programmed. *)
THEOREM TailStaysErased == Spec /\ []CopyFaithful => []TailErased
<1>1. TailInv => TailErased
  BY TailInvErased
<1>. QED  BY TailStart, TailStep, <1>1, PTL DEF Spec

-----------------------------------------------------------------------------
(* The content.  A node is in one list at most, and the lists together     *)
(* with the call under way say what the store holds.                       *)

Distinct(l) ==
  \A s, t \in Section : \A i \in DOMAIN l[s], j \in DOMAIN l[t] :
    SameNode(l[s][i].n, l[t][j].n) => s = t /\ i = j

Without(C, n) == { m \in C : ~SameNode(m, n) }

LEMMA SameNodeEquivalence ==
  ASSUME NEW a, NEW b, NEW c
  PROVE  /\ SameNode(a, a)
         /\ SameNode(a, b) <=> SameNode(b, a)
         /\ SameNode(a, b) /\ SameNode(b, c) => SameNode(a, c)
BY DEF SameNode

LEMMA InNodes ==
  ASSUME NEW l, NEW m
  PROVE  m \in NodesIn(l) <=> \E s \in Section : \E i \in DOMAIN l[s] : m = l[s][i].n
BY DEF NodesIn

LEMMA DeletedFrom ==
  ASSUME NEW l \in Lists, Distinct(l), NEW n \in Node, NEW s \in Section
  PROVE  \/ /\ ListDel(l, n)[s] = l[s]
            /\ \A i \in DOMAIN l[s] : ~SameNode(l[s][i].n, n)
         \/ \E k \in DOMAIN l[s] :
              /\ SameNode(l[s][k].n, n)
              /\ ListDel(l, n)[s] = RemoveAt(l[s], k)
              /\ \A t \in Section : \A i \in DOMAIN l[t] :
                   SameNode(l[t][i].n, n) => t = s /\ i = k
<1> DEFINE at == { i \in DOMAIN l[s] : SameNode(l[s][i].n, n) }
           k == CHOOSE i \in at : TRUE
<1>1. ListDel(l, n)[s] = IF at = {} THEN l[s] ELSE RemoveAt(l[s], k)
  BY DEF ListDel
<1>2. CASE at = {}
  BY <1>1, <1>2
<1>3. CASE at # {}
  <2>1. k \in DOMAIN l[s] /\ SameNode(l[s][k].n, n)
    BY <1>3
  <2>2. ASSUME NEW t \in Section, NEW i \in DOMAIN l[t], SameNode(l[t][i].n, n)
        PROVE  t = s /\ i = k
    <3>1. SameNode(l[t][i].n, l[s][k].n)
      BY <2>1, <2>2, SameNodeEquivalence, Zenon
    <3> HIDE DEF k
    <3>. QED  BY <2>1, <3>1, Zenon DEF Distinct
  <2> HIDE DEF at, k
  <2>. QED  BY <1>1, <1>3, <2>1, <2>2
<1>. QED  BY <1>2, <1>3

(* Taking out one node.                                                    *)
TakenOut(l, k, s, i) ==
  /\ s \in Section /\ i \in DOMAIN l[s]
  /\ k \in Lists
  /\ k = [l EXCEPT ![s] = RemoveAt(l[s], i)]

LEMMA TakingOut ==
  ASSUME NEW l \in Lists, Distinct(l), NEW k, NEW s, NEW i, TakenOut(l, k, s, i)
  PROVE  /\ Distinct(k)
         /\ NodesIn(k) = Without(NodesIn(l), l[s][i].n)
         /\ NodesIn(l) = NodesIn(k) \cup {l[s][i].n}
<1> DEFINE q == l[s]
           from(t, j) == IF t = s /\ j >= i THEN j + 1 ELSE j
<1>1. s \in Section /\ q \in Seq(Entry) /\ i \in DOMAIN q /\ k \in Lists
  BY DEF TakenOut, Lists
<1>2. /\ Len(RemoveAt(q, i)) = Len(q) - 1
      /\ \A j \in 1 .. Len(q) - 1 : RemoveAt(q, i)[j] = IF j < i THEN q[j] ELSE q[j + 1]
  BY <1>1, Removed
<1>3. /\ \A t \in Section : t # s => k[t] = l[t]
      /\ k[s] = RemoveAt(q, i)
  BY DEF TakenOut, Lists
<1>4. i \in 1 .. Len(q) /\ Len(q) \in Nat /\ DOMAIN k[s] = 1 .. Len(q) - 1
  <2>1. k[s] \in Seq(Entry)
    BY <1>1 DEF Lists
  <2>. QED  BY <1>1, <1>2, <1>3, <2>1
<1>5. ASSUME NEW t \in Section, NEW j \in DOMAIN k[t]
      PROVE  /\ from(t, j) \in DOMAIN l[t] /\ k[t][j] = l[t][from(t, j)]
             /\ ~(t = s /\ from(t, j) = i)
             /\ j \in Nat
  <2>1. CASE t # s
    <3>1. l[t] \in Seq(Entry) /\ k[t] = l[t] /\ from(t, j) = j
      BY <1>3, <2>1 DEF Lists
    <3>. QED  BY <2>1, <3>1
  <2>2. CASE t = s
    <3>1. j \in 1 .. Len(q) - 1 /\ k[t][j] = IF j < i THEN q[j] ELSE q[j + 1]
      BY <1>2, <1>3, <1>4, <2>2
    <3>2. from(t, j) = IF j >= i THEN j + 1 ELSE j
      BY <2>2
    <3>. QED  BY <1>1, <1>4, <2>2, <3>1, <3>2
  <2>. QED  BY <2>1, <2>2
<1>6. ASSUME NEW t \in Section, NEW j \in DOMAIN l[t], ~(t = s /\ j = i)
      PROVE  \E h \in DOMAIN k[t] : k[t][h] = l[t][j]
  <2>1. CASE t # s
    BY <1>3, <2>1
  <2>2. CASE t = s
    <3>1. j \in 1 .. Len(q) /\ j # i
      BY <1>1, <1>6, <2>2
    <3>2. CASE j < i
      <4>1. j \in 1 .. Len(q) - 1
        BY <1>4, <3>1, <3>2
      <4>. QED  BY <1>2, <1>3, <1>4, <2>2, <3>2, <4>1
    <3>3. CASE j > i
      <4>1. j - 1 \in 1 .. Len(q) - 1 /\ ~(j - 1 < i) /\ (j - 1) + 1 = j
        BY <1>4, <3>1, <3>3
      <4>2. RemoveAt(q, i)[j - 1] = q[j]
        BY <1>2, <4>1
      <4>. QED  BY <1>3, <1>4, <2>2, <4>1, <4>2
    <3>. QED  BY <1>4, <3>1, <3>2, <3>3
  <2>. QED  BY <2>1, <2>2
<1>7. Distinct(k)
  <2>1. SUFFICES ASSUME NEW t \in Section, NEW u \in Section,
                        NEW j \in DOMAIN k[t], NEW h \in DOMAIN k[u],
                        SameNode(k[t][j].n, k[u][h].n)
                 PROVE  t = u /\ j = h
    BY DEF Distinct
  <2>2. t = u /\ from(t, j) = from(u, h)
    <3>1. /\ from(t, j) \in DOMAIN l[t] /\ k[t][j] = l[t][from(t, j)]
          /\ from(u, h) \in DOMAIN l[u] /\ k[u][h] = l[u][from(u, h)]
      BY <1>5
    <3> HIDE DEF from
    <3>. QED  BY <2>1, <3>1 DEF Distinct
  <2>3. j \in Nat /\ h \in Nat /\ i \in Nat
    BY <1>4, <1>5
  <2>. QED  BY <2>2, <2>3
<1>8. ASSUME NEW m \in NodesIn(k) PROVE m \in Without(NodesIn(l), l[s][i].n)
  <2>1. PICK t \in Section : \E j \in DOMAIN k[t] : m = k[t][j].n
    BY <1>8, InNodes
  <2>2. PICK j \in DOMAIN k[t] : m = k[t][j].n
    BY <2>1
  <2>3. PICK h \in DOMAIN l[t] : m = l[t][h].n /\ ~(t = s /\ h = i)
    BY <1>5, <2>2
  <2>4. m \in NodesIn(l)
    BY <2>3, InNodes
  <2>5. ~SameNode(m, l[s][i].n)
    BY <1>1, <2>3 DEF Distinct
  <2>. QED  BY <2>4, <2>5 DEF Without
<1>9. ASSUME NEW m \in NodesIn(l), m # l[s][i].n PROVE m \in NodesIn(k)
  <2>1. PICK t \in Section : \E j \in DOMAIN l[t] : m = l[t][j].n
    BY <1>9, InNodes
  <2>2. PICK j \in DOMAIN l[t] : m = l[t][j].n
    BY <2>1
  <2>3. ~(t = s /\ j = i)
    BY <1>9, <2>2
  <2>4. PICK h \in DOMAIN k[t] : k[t][h] = l[t][j]
    BY <1>6, <2>3
  <2>. QED  BY <2>2, <2>4, InNodes
<1>10. l[s][i].n \in NodesIn(l)
  BY <1>1, InNodes
<1>11. SameNode(l[s][i].n, l[s][i].n)
  BY SameNodeEquivalence
<1>. QED  BY <1>7, <1>8, <1>9, <1>10, <1>11 DEF Without

LEMMA Deleting ==
  ASSUME NEW l \in Lists, Distinct(l), NEW n \in Node
  PROVE  /\ Distinct(ListDel(l, n))
         /\ NodesIn(ListDel(l, n)) = Without(NodesIn(l), n)
<1> DEFINE k == ListDel(l, n)
<1>1. k \in Lists /\ k = [s \in Section |-> k[s]] /\ l = [s \in Section |-> l[s]]
  <2>1. k \in Lists
    BY ListsTyped
  <2> HIDE DEF k
  <2>. QED  BY <2>1 DEF Lists
<1>2. CASE \A s \in Section : \A i \in DOMAIN l[s] : ~SameNode(l[s][i].n, n)
  <2>1. \A s \in Section : k[s] = l[s]
    BY <1>2, DeletedFrom
  <2>2. k = l
    <3> HIDE DEF k
    <3>. QED  BY <1>1, <2>1
  <2>3. \A m \in NodesIn(l) : ~SameNode(m, n)
    BY <1>2, InNodes
  <2> HIDE DEF k
  <2>. QED  BY <2>2, <2>3 DEF Without, k
<1>3. CASE \E s \in Section : \E i \in DOMAIN l[s] : SameNode(l[s][i].n, n)
  <2>1. PICK s \in Section : \E i \in DOMAIN l[s] : SameNode(l[s][i].n, n)
    BY <1>3
  <2>2. PICK i \in DOMAIN l[s] :
          /\ SameNode(l[s][i].n, n)
          /\ k[s] = RemoveAt(l[s], i)
          /\ \A t \in Section : \A j \in DOMAIN l[t] :
               SameNode(l[t][j].n, n) => t = s /\ j = i
    BY <2>1, DeletedFrom
  <2>3. \A t \in Section : t # s => k[t] = l[t]
    BY <2>2, DeletedFrom
  <2>4. k = [l EXCEPT ![s] = RemoveAt(l[s], i)]
    <3> HIDE DEF k
    <3>. QED  BY <1>1, <2>2, <2>3
  <2>5. TakenOut(l, k, s, i)
    BY <1>1, <2>4 DEF TakenOut
  <2>6. Distinct(k) /\ NodesIn(k) = Without(NodesIn(l), l[s][i].n)
    <3> HIDE DEF k
    <3>. QED  BY <2>5, TakingOut
  <2>7. \A m : SameNode(m, l[s][i].n) <=> SameNode(m, n)
    BY <2>2, SameNodeEquivalence
  <2>8. Without(NodesIn(l), l[s][i].n) = Without(NodesIn(l), n)
    BY <2>7 DEF Without
  <2>. QED  BY <2>6, <2>8
<1>. QED  BY <1>2, <1>3

LEMMA Pushing ==
  ASSUME NEW l \in Lists, Distinct(l), NEW n \in Node, NEW s \in Section, NEW o,
         \A m \in NodesIn(l) : ~SameNode(m, n)
  PROVE  /\ Distinct(ListPush(l, s, n, o))
         /\ NodesIn(ListPush(l, s, n, o)) = NodesIn(l) \cup {n}
<1> DEFINE k == ListPush(l, s, n, o)
           q == l[s]
<1>1. q \in Seq(Entry) /\ Len(q) \in Nat /\ DOMAIN q = 1 .. Len(q)
  BY DEF Lists
<1>2. k[s] = Append(q, [n |-> n, off |-> o]) /\ \A t \in Section : t # s => k[t] = l[t]
  BY DEF ListPush, Lists
<1>3. /\ DOMAIN k[s] = 1 .. Len(q) + 1
      /\ k[s][Len(q) + 1].n = n
      /\ \A i \in 1 .. Len(q) : k[s][i] = q[i]
  BY <1>1, <1>2
<1>4. ASSUME NEW t \in Section, NEW j \in DOMAIN k[t]
      PROVE  \/ t = s /\ j = Len(q) + 1 /\ k[t][j].n = n
             \/ j \in DOMAIN l[t] /\ k[t][j] = l[t][j]
  <2>1. CASE t = s /\ j # Len(q) + 1
    <3>1. j \in 1 .. Len(q)
      BY <1>1, <1>3, <2>1
    <3>. QED  BY <1>1, <1>3, <2>1, <3>1
  <2>2. CASE t # s
    BY <1>2, <2>2
  <2>. QED  BY <1>3, <2>1, <2>2
<1>5. \A t \in Section : \A j \in DOMAIN l[t] : ~SameNode(l[t][j].n, n) /\ ~SameNode(n, l[t][j].n)
  BY InNodes, SameNodeEquivalence
<1>6. \A t \in Section : \A j \in DOMAIN l[t] : j \in DOMAIN k[t] /\ k[t][j] = l[t][j]
  <2>1. ASSUME NEW t \in Section, NEW j \in DOMAIN l[t]
        PROVE  j \in DOMAIN k[t] /\ k[t][j] = l[t][j]
    <3>1. CASE t = s
      BY <1>1, <1>3, <3>1
    <3>2. CASE t # s
      BY <1>2, <3>2
    <3>. QED  BY <3>1, <3>2
  <2>. QED  BY <2>1
<1>7. Len(q) + 1 \in DOMAIN k[s]
  BY <1>1, <1>3
<1> HIDE DEF k, q
<1>8. Distinct(k)
  BY <1>4, <1>5 DEF Distinct
<1>9. NodesIn(k) \subseteq NodesIn(l) \cup {n}
  <2>1. ASSUME NEW m \in NodesIn(k) PROVE m \in NodesIn(l) \cup {n}
    <3>1. PICK t \in Section : \E j \in DOMAIN k[t] : m = k[t][j].n
      BY <2>1, InNodes
    <3>2. PICK j \in DOMAIN k[t] : m = k[t][j].n
      BY <3>1
    <3>. QED  BY <1>4, <3>2, InNodes
  <2>. QED  BY <2>1
<1>10. NodesIn(l) \subseteq NodesIn(k)
  BY <1>6, InNodes
<1>11. n \in NodesIn(k)
  BY <1>3, <1>7, InNodes
<1>. QED  BY <1>8, <1>9, <1>10, <1>11 DEF k

LEMMA TakingFirst ==
  ASSUME NEW l \in Lists, Distinct(l), NEW s \in Section, l[s] # <<>>
  PROVE  LET k == [l EXCEPT ![s] = Tail(@)]
         IN  /\ k \in Lists /\ Distinct(k)
             /\ Head(l[s]) \in Entry
             /\ NodesIn(k) = Without(NodesIn(l), Head(l[s]).n)
             /\ NodesIn(l) = NodesIn(k) \cup {Head(l[s]).n}
<1> DEFINE q == l[s]
           k == [l EXCEPT ![s] = Tail(@)]
<1>1. q \in Seq(Entry) /\ q # <<>>
  BY DEF Lists
<1>2. 1 \in DOMAIN q /\ Head(q) = q[1] /\ Tail(q) \in Seq(Entry) /\ Head(q) \in Entry
      /\ Len(q) \in Nat /\ Len(q) >= 1
  BY <1>1
<1>3. Tail(q) = RemoveAt(q, 1)
  <2>1. Len(Tail(q)) = Len(q) - 1 /\ \A j \in 1 .. Len(q) - 1 : Tail(q)[j] = q[j + 1]
    BY <1>1
  <2>2. RemoveAt(q, 1) \in Seq(Entry) /\ Len(RemoveAt(q, 1)) = Len(q) - 1
    BY <1>1, <1>2, Removed
  <2>3. \A j \in 1 .. Len(q) - 1 : RemoveAt(q, 1)[j] = q[j + 1]
    <3>1. \A j \in 1 .. Len(q) - 1 : RemoveAt(q, 1)[j] = IF j < 1 THEN q[j] ELSE q[j + 1]
      BY <1>1, <1>2, Removed
    <3>2. \A j \in 1 .. Len(q) - 1 : ~(j < 1)
      BY <1>2
    <3>. QED  BY <3>1, <3>2
  <2>4. \A a, b \in Seq(Entry) : Len(a) = Len(b) /\ (\A j \in 1 .. Len(a) : a[j] = b[j]) => a = b
    BY SeqEqual
  <2>5. \A j \in 1 .. Len(Tail(q)) : Tail(q)[j] = RemoveAt(q, 1)[j]
    BY <2>1, <2>3
  <2>. QED  BY <1>2, <2>1, <2>2, <2>4, <2>5
<1>4. k = [l EXCEPT ![s] = RemoveAt(l[s], 1)] /\ k \in Lists
  BY <1>2, <1>3 DEF Lists
<1>5. TakenOut(l, k, s, 1)
  BY <1>2, <1>4 DEF TakenOut
<1> HIDE DEF k
<1>6. Distinct(k) /\ NodesIn(k) = Without(NodesIn(l), l[s][1].n)
      /\ NodesIn(l) = NodesIn(k) \cup {l[s][1].n}
  BY <1>5, TakingOut
<1>. QED  BY <1>2, <1>4, <1>6 DEF k

LEMMA EmptyDistinct == Distinct(EmptyLists) /\ NodesIn(EmptyLists) = {}
<1>1. \A s \in Section : DOMAIN EmptyLists[s] = {}
  BY DEF EmptyLists
<1>. QED  BY <1>1 DEF Distinct, NodesIn

LEMMA ParsedDistinct ==
  ASSUME NEW l \in Lists, Distinct(l), NEW e \in LogEntry
  PROVE  Distinct(ParseNode(l, e))
<1>1. e.n \in Node /\ e.sec \in Section
  BY DEF LogEntry
<1>2. ListDel(l, e.n) \in Lists /\ Distinct(ListDel(l, e.n))
  BY <1>1, ListsTyped, Deleting
<1>3. \A m \in NodesIn(ListDel(l, e.n)) : ~SameNode(m, e.n)
  BY <1>1, Deleting DEF Without
<1>. QED  BY <1>1, <1>2, <1>3, Pushing DEF ParseNode

(* What holds at 0 and from each number to the next holds up to n.         *)
LEMMA CountingUp ==
  ASSUME NEW n \in Nat, NEW Good, 0 \in Good,
         \A i \in 1 .. n : i - 1 \in Good => i \in Good
  PROVE  0 .. n \subseteq Good
<1> DEFINE S == 0 .. n
           m == [i \in S |-> i]
<1>1. m \in [S -> Nat]
  OBVIOUS
<1>2. ASSUME NEW i \in S, \A j \in S : m[j] < m[i] => j \in Good
      PROVE  i \in Good
  <2>1. CASE i = 0
    BY <2>1
  <2>2. CASE i # 0
    <3>1. i \in 1 .. n /\ i - 1 \in S /\ m[i - 1] < m[i]
      BY <2>2
    <3>. QED  BY <1>2, <3>1
  <2>. QED  BY <2>1, <2>2
<1>3. \A i \in S : (\A j \in S : m[j] < m[i] => j \in Good) => i \in Good
  BY <1>2
<1>4. S \subseteq Good
  <2> HIDE DEF m, S
  <2>. QED  BY <1>1, <1>3, ByMeasure
<1>. QED  BY <1>4

LEMMA LoadedDistinct ==
  ASSUME NEW log \in Seq(LogEntry)
  PROVE  Distinct(LoadedLists(log))
<1>1. PICK h \in [0 .. Len(log) -> Lists] : IsReplay(h, log)
  BY ReplayUnfolds
<1> DEFINE Good == { i \in 0 .. Len(log) : Distinct(h[i]) }
<1>2. Len(log) \in Nat
  OBVIOUS
<1>3. 0 \in Good
  BY <1>1, <1>2, EmptyDistinct DEF IsReplay
<1>4. ASSUME NEW i \in 1 .. Len(log), i - 1 \in Good PROVE i \in Good
  <2>1. Distinct(h[i - 1]) /\ h[i - 1] \in Lists /\ log[i] \in LogEntry
    BY <1>1, <1>4
  <2>2. h[i] = ParseNode(h[i - 1], log[i])
    BY <1>1 DEF IsReplay
  <2>3. Distinct(h[i])
    BY <2>1, <2>2, ParsedDistinct
  <2>. QED  BY <1>2, <2>3
<1>5. 0 .. Len(log) \subseteq Good
  <2>1. \A i \in 1 .. Len(log) : i - 1 \in Good => i \in Good
    BY <1>4
  <2> HIDE DEF Good
  <2>. QED  BY <1>2, <1>3, <2>1, CountingUp
<1>6. Len(log) \in Good
  BY <1>2, <1>5
<1>. QED  BY <1>1, <1>6 DEF IsReplay

LEMMA RecoveredDistinct ==
  ASSUME NEW f \in Flash
  PROVE  Distinct(Recovered(f).lists)
<1>1. CASE ValidSections(f) = {}
  BY <1>1, EmptyDistinct DEF Recovered
<1>2. CASE ValidSections(f) # {}
  <2>1. HeadAndTail(f).tail \in Section
    BY <1>2, EndsAreValid DEF ValidSections
  <2>2. LogOf(f, HeadAndTail(f).tail) \in Seq(LogEntry)
    BY <2>1, LoadedTyped
  <2>3. Recovered(f).lists = LoadedLists(LogOf(f, HeadAndTail(f).tail))
    BY <1>2 DEF Recovered
  <2>. QED  BY <2>2, <2>3, LoadedDistinct
<1>. QED  BY <1>1, <1>2

-----------------------------------------------------------------------------
(* The content of the store is what the lists hold, the node being copied  *)
(* and the change that the call under way makes.                           *)

Held == Live \cup (IF pc = "copy" THEN {cur.n} ELSE {})

Changed(C, op, n) == CASE op = "add" -> Without(C, n) \cup {n}
                       [] op = "rm"  -> Without(C, n)
                       [] OTHER      -> C

ContentTypes ==
  /\ versions \in Seq(SUBSET Node) /\ versions # <<>>
  /\ Distinct(lists)
  /\ todo \subseteq Current
  /\ pc \in {"idle", "hung"} => todo = {}

ContentOk ==
  /\ pc \in {"idle", "next", "hung"} => Live = Current
  /\ pc \in {"collect", "copy", "write"} =>
       /\ Current = Changed(Held, call.op, call.n)
       /\ call.op = "add" => Without(Held, call.n) = Held
       /\ call.op = "sync" => todo = {}
  /\ pc = "write" => call.op \in Op /\ cur.op = call.op /\ cur.n = call.n
  /\ pc = "copy" => Without(Live, cur.n) = Live

ContentInv == TypesInv /\ ContentTypes /\ ContentOk

LEMMA LastVersion ==
  ASSUME versions \in Seq(SUBSET Node), versions # <<>>
  PROVE  /\ Current \in SUBSET Node
         /\ \A V \in SUBSET Node :
              versions' = Append(versions, V) =>
                versions' \in Seq(SUBSET Node) /\ versions' # <<>> /\ Current' = V
         /\ \A V \in SUBSET Node :
              versions' = <<V>> =>
                versions' \in Seq(SUBSET Node) /\ versions' # <<>> /\ Current' = V
<1>1. Len(versions) \in 1 .. Len(versions)
  BY EmptySeq, LenProperties
<1>2. Current \in SUBSET Node
  BY <1>1 DEF Current
<1>3. ASSUME NEW V \in SUBSET Node, versions' = Append(versions, V)
      PROVE  versions' \in Seq(SUBSET Node) /\ versions' # <<>> /\ Current' = V
  <2>1. /\ Append(versions, V) \in Seq(SUBSET Node)
        /\ Len(Append(versions, V)) = Len(versions) + 1
        /\ Append(versions, V)[Len(versions) + 1] = V
    BY AppendProperties
  <2>. QED  BY <1>1, <1>3, <2>1 DEF Current
<1>4. ASSUME NEW V \in SUBSET Node, versions' = <<V>>
      PROVE  versions' \in Seq(SUBSET Node) /\ versions' # <<>> /\ Current' = V
  BY <1>4 DEF Current
<1>. QED  BY <1>2, <1>3, <1>4

LEMMA BeginContent ==
  ASSUME ContentInv, NEW op \in Op, NEW n \in Node, pc \in {"idle", "next"},
         BeginUpdate(op, n), TypesInv', todo' \subseteq Without(todo, n)
  PROVE  ContentInv'
<1> DEFINE l == IF op = "add" THEN ListDel(lists, n) ELSE lists
           new == IF op = "add" THEN {n} ELSE {}
           old == { m \in Current : SameNode(m, n) }
           V == (Current \ old) \cup new
<1>1. /\ lists' = l /\ call' = [op |-> op, n |-> n]
      /\ versions' = Append(versions, V)
      /\ \/ pc' = "collect"
         \/ pc' = "write" /\ cur' = [op |-> op, n |-> n, sec |-> NoSection, off |-> 0]
  BY DEF BeginUpdate, StartNode
<1>2. /\ lists \in Lists /\ Distinct(lists) /\ Live = Current
      /\ versions \in Seq(SUBSET Node) /\ versions # <<>> /\ todo \subseteq Current
  BY DEF ContentInv, ContentTypes, ContentOk, TypesInv, RamTypes
<1>3. /\ Distinct(l)
      /\ NodesIn(l) = IF op = "add" THEN Without(Live, n) ELSE Live
  BY <1>2, Deleting DEF Live
<1>4. Current \subseteq Node /\ V \in SUBSET Node
  BY <1>2, LastVersion
<1>5. versions' \in Seq(SUBSET Node) /\ versions' # <<>> /\ Current' = V
  BY <1>1, <1>2, <1>4, LastVersion
<1>6. V = Without(Current, n) \cup new
  BY DEF Without
<1>7. Live' = NodesIn(l) /\ Held' = NodesIn(l)
  BY <1>1 DEF Live, Held
<1>8. Without(Without(Live, n), n) = Without(Live, n)
  BY DEF Without
<1>9. Current' = Changed(Held', op, n) /\ (op = "add" => Without(Held', n) = Held')
  BY <1>2, <1>3, <1>5, <1>6, <1>7, <1>8 DEF Changed, Op
<1>10. todo' \subseteq Current'
  BY <1>2, <1>5, <1>6 DEF Without
<1>11. ContentTypes'
  BY <1>1, <1>3, <1>5, <1>10 DEF ContentTypes
<1>12. ContentOk'
  BY <1>1, <1>9 DEF ContentOk, Op
<1>. QED  BY <1>11, <1>12 DEF ContentInv

LEMMA DistinctNodes ==
  ASSUME NEW l, Distinct(l), NEW m \in NodesIn(l), NEW n \in NodesIn(l), SameNode(m, n)
  PROVE  m = n
<1>1. PICK s \in Section : \E i \in DOMAIN l[s] : m = l[s][i].n
  BY InNodes
<1>2. PICK i \in DOMAIN l[s] : m = l[s][i].n
  BY <1>1
<1>3. PICK t \in Section : \E j \in DOMAIN l[t] : n = l[t][j].n
  BY InNodes
<1>4. PICK j \in DOMAIN l[t] : n = l[t][j].n
  BY <1>3
<1>. QED  BY <1>2, <1>4 DEF Distinct

LEMMA CallContent ==
  ASSUME ContentInv, Call, TypesInv'
  PROVE  ContentInv'
<1>1. /\ Live = Current \/ pc \notin {"idle", "next"}
      /\ pc = "idle" => todo = {}
      /\ versions \in Seq(SUBSET Node) /\ versions # <<>> /\ Distinct(lists)
      /\ todo \subseteq Current /\ Live \subseteq Node
  BY LiveTyped DEF ContentInv, ContentTypes, ContentOk, TypesInv, RamTypes
<1>2. Op = {"add", "rm"} /\ \A m : Without({}, m) = {}
  BY DEF Op, Without
<1>3. CASE \E d \in 0 .. DirIdLimit, name \in Name, val \in Val : WriteRecord(d, name, val)
  <2>1. PICK d \in 0 .. DirIdLimit, name \in Name, val \in Val : WriteRecord(d, name, val)
    BY <1>3
  <2>2. Record(d, name, val) \in Node
    BY DEF Node
  <2>3. /\ pc = "idle" /\ todo' = todo /\ BeginUpdate("add", Record(d, name, val))
    BY <2>1 DEF WriteRecord, CallAllowed
  <2>. QED  BY <1>1, <1>2, <2>2, <2>3, BeginContent
<1>4. CASE \E d \in 0 .. DirIdLimit, name \in Name : MakeDir(d, name)
  <2>1. PICK d \in 0 .. DirIdLimit, name \in Name : MakeDir(d, name)
    BY <1>4
  <2>2. /\ pc = "idle" /\ todo' = todo /\ dirIdMax < DirIdLimit
        /\ BeginUpdate("add", Dir(dirIdMax + 1, d, name))
    BY <2>1 DEF MakeDir, CallAllowed
  <2>3. dirIdMax + 1 \in 1 .. DirIdLimit
    BY <2>2, Sizes DEF ContentInv, TypesInv, RamTypes
  <2>4. Dir(dirIdMax + 1, d, name) \in Node
    BY <2>3 DEF Node
  <2>. QED  BY <1>1, <1>2, <2>2, <2>4, BeginContent
<1>5. CASE \E n \in Live : DelRecord(n)
  <2>1. PICK n \in Live : DelRecord(n)
    BY <1>5
  <2>2. /\ pc = "idle" /\ todo' = todo /\ BeginUpdate("rm", n)
    BY <2>1 DEF DelRecord, CallAllowed
  <2>. QED  BY <1>1, <1>2, <2>2, BeginContent
<1>6. CASE \E n \in Live : DelDir(n)
  <2>1. PICK n \in Live : DelDir(n)
    BY <1>6
  <2>2. /\ pc = "idle" /\ pc' = "next" /\ todo' = Below(n)
        /\ UNCHANGED <<lists, versions>>
    BY <2>1 DEF DelDir, CallAllowed
  <2>3. Live' = Live /\ Current' = Current
    BY <2>2 DEF Live, Current
  <2>4. todo' \subseteq Current'
    BY <1>1, <2>2, <2>3, BelowIsLive
  <2>5. ContentTypes' /\ ContentOk'
    BY <1>1, <2>2, <2>3, <2>4 DEF ContentTypes, ContentOk
  <2>. QED  BY <2>5 DEF ContentInv
<1>7. CASE WriteThrough
  <2>1. /\ pc = "idle" /\ UNCHANGED <<lists, todo>>
        /\ \/ versions' = <<Current>> /\ pc' = pc
           \/ pc' = "collect" /\ call'.op = "sync" /\ versions' = versions
    BY <1>7 DEF WriteThrough, NoCall
  <2>2. Live' = Live /\ (pc' # "copy" => Held' = Live)
    BY <2>1 DEF Live, Held
  <2>3. Current' = Current /\ versions' \in Seq(SUBSET Node) /\ versions' # <<>>
    <3>1. CASE versions' = versions
      BY <1>1, <3>1 DEF Current
    <3>2. CASE versions' = <<Current>>
      BY <1>1, <3>2, LastVersion
    <3>. QED  BY <2>1, <3>1, <3>2
  <2>4. ContentTypes'
    BY <1>1, <2>1, <2>3 DEF ContentTypes
  <2>5. ContentOk'
    BY <1>1, <2>1, <2>2, <2>3 DEF ContentOk, Changed
  <2>. QED  BY <2>4, <2>5 DEF ContentInv
<1>. QED  BY <1>3, <1>4, <1>5, <1>6, <1>7 DEF Call

LEMMA DelNextContent ==
  ASSUME ContentInv, DelNext, TypesInv'
  PROVE  ContentInv'
<1>1. PICK n \in todo : todo' = todo \ {n} /\ BeginUpdate("rm", n)
  BY DEF DelNext
<1>2. pc = "next"
  BY DEF DelNext
<1>3. /\ todo \subseteq NodesIn(lists) /\ Distinct(lists) /\ NodesIn(lists) \subseteq Node
  BY <1>2, LiveTyped DEF ContentInv, ContentTypes, ContentOk, TypesInv, RamTypes, Live
<1>4. todo' \subseteq Without(todo, n)
  <2>1. ASSUME NEW m \in todo, m # n PROVE ~SameNode(m, n)
    BY <1>1, <1>3, <2>1, DistinctNodes
  <2>. QED  BY <1>1, <2>1 DEF Without
<1>5. n \in Node /\ "rm" \in Op
  BY <1>1, <1>3 DEF Op
<1>. QED  BY <1>1, <1>2, <1>4, <1>5, BeginContent

LEMMA CopyNodeContent ==
  ASSUME ContentInv, CopyNode, TypesInv'
  PROVE  ContentInv'
<1> DEFINE e == Head(lists[gc])
           l == [lists EXCEPT ![gc] = Tail(@)]
<1>1. /\ pc = "collect" /\ lists[gc] # <<>> /\ lists' = l
      /\ pc' = "copy" /\ cur'.n = e.n
      /\ UNCHANGED <<call, todo, versions>>
  BY DEF CopyNode, StartNode
<1>2. gc \in Section /\ lists \in Lists /\ Distinct(lists)
  BY <1>1 DEF ContentInv, ContentTypes, TypesInv, RamTypes, CallTypes
<1>3. /\ Distinct(l)
      /\ NodesIn(l) = Without(Live, e.n)
      /\ Live = NodesIn(l) \cup {e.n}
  <2> HIDE DEF l
  <2>. QED  BY <1>1, <1>2, TakingFirst DEF l, Live
<1>4. Live' = NodesIn(l) /\ Held' = NodesIn(l) \cup {e.n} /\ Held = Live
  BY <1>1 DEF Live, Held
<1> HIDE DEF e, l
<1>5. Held' = Held /\ Current' = Current
  BY <1>1, <1>3, <1>4 DEF Current
<1>6. Without(Live', e.n) = Live'
  BY <1>3, <1>4 DEF Without
<1>7. ContentTypes'
  BY <1>1, <1>3, <1>5 DEF ContentInv, ContentTypes
<1>8. ContentOk'
  BY <1>1, <1>5, <1>6 DEF ContentInv, ContentOk
<1>. QED  BY <1>7, <1>8 DEF ContentInv

LEMMA CollectionDoneContent ==
  ASSUME ContentInv, CollectionDone, TypesInv'
  PROVE  ContentInv'
<1>1. /\ pc = "collect" /\ UNCHANGED <<lists, todo>>
      /\ Live' = Live /\ Held = Live
  BY DEF CollectionDone, Live, Held
<1>2. /\ versions \in Seq(SUBSET Node) /\ versions # <<>> /\ Distinct(lists)
      /\ todo \subseteq Current
      /\ Current = Changed(Live, call.op, call.n)
      /\ call.op = "add" => Without(Live, call.n) = Live
      /\ call.op = "sync" => todo = {}
      /\ call.op \in Op \cup {"sync"}
  BY <1>1 DEF ContentInv, ContentTypes, ContentOk, TypesInv, CallTypes
<1>3. CASE call.op = "sync"
  <2>1. pc' = "idle" /\ versions' = <<Current>>
    BY <1>3 DEF CollectionDone
  <2>2. versions' \in Seq(SUBSET Node) /\ versions' # <<>> /\ Current' = Current
    BY <1>2, <2>1, LastVersion
  <2>3. Current' = Live'
    BY <1>1, <1>2, <1>3, <2>2 DEF Changed
  <2>4. ContentTypes' /\ ContentOk'
    BY <1>1, <1>2, <1>3, <2>1, <2>2, <2>3 DEF ContentTypes, ContentOk
  <2>. QED  BY <2>4 DEF ContentInv
<1>4. CASE call.op # "sync"
  <2>1. /\ pc' = "write" /\ UNCHANGED <<call, versions>>
        /\ cur' = [op |-> call.op, n |-> call.n, sec |-> NoSection, off |-> 0]
    BY <1>4 DEF CollectionDone
  <2>2. Current' = Current /\ Held' = Held
    BY <1>1, <2>1 DEF Current, Held
  <2>3. ContentTypes'
    BY <1>1, <1>2, <2>1, <2>2 DEF ContentTypes
  <2>4. ContentOk'
    BY <1>1, <1>2, <1>4, <2>1, <2>2 DEF ContentOk
  <2>. QED  BY <2>3, <2>4 DEF ContentInv
<1>. QED  BY <1>3, <1>4

LEMMA NextSectionContent ==
  ASSUME ContentInv, NextSection, TypesInv'
  PROVE  ContentInv'
<1>1. /\ pc \in {"write", "copy"}
      /\ UNCHANGED <<lists, call, todo, cur, versions>>
      /\ pc' = "failed" \/ pc' = pc
  BY DEF NextSection, Writing
<1>2. Live' = Live /\ Current' = Current
  BY <1>1 DEF Live, Current
<1>3. ContentTypes'
  BY <1>1, <1>2 DEF ContentInv, ContentTypes
<1>4. ContentOk'
  <2>1. CASE pc' = "failed"
    BY <2>1 DEF ContentOk
  <2>2. CASE pc' = pc
    <3>1. Held' = Held
      BY <1>1, <1>2, <2>2 DEF Held
    <3>. QED  BY <1>1, <1>2, <2>2, <3>1 DEF ContentInv, ContentOk
  <2>. QED  BY <1>1, <2>1, <2>2
<1>. QED  BY <1>3, <1>4 DEF ContentInv

LEMMA RestartContent ==
  ASSUME NEW f \in Flash, RestartOn(f), TypesInv'
  PROVE  ContentInv'
<1>1. PICK r : r = Recovered(f)
  OBVIOUS
<1>2. /\ pc' = r.pc /\ lists' = r.lists /\ todo' = {} /\ versions' = <<NodesIn(r.lists)>>
  BY <1>1 DEF RestartOn
<1>3. Distinct(r.lists) /\ r.pc \in {"idle", "hung", "failed"} /\ r.lists \in Lists
  BY <1>1, RecoveredDistinct, RecoveredTyped DEF Rebuilt
<1>4. NodesIn(r.lists) \in SUBSET Node
  <2>1. ASSUME NEW m \in NodesIn(r.lists) PROVE m \in Node
    <3>1. PICK s \in Section : \E i \in DOMAIN r.lists[s] : m = r.lists[s][i].n
      BY <2>1, InNodes
    <3>2. PICK i \in DOMAIN r.lists[s] : m = r.lists[s][i].n
      BY <3>1
    <3>3. r.lists[s][i] \in Entry
      BY <1>3, <3>2 DEF Lists
    <3>. QED  BY <3>2, <3>3 DEF Entry
  <2>. QED  BY <2>1
<1>5. versions' \in Seq(SUBSET Node) /\ versions' # <<>> /\ Current' = NodesIn(r.lists)
  BY <1>2, <1>4 DEF Current
<1>6. Live' = Current'
  BY <1>2, <1>5 DEF Live
<1>7. ContentTypes' /\ ContentOk'
  BY <1>2, <1>3, <1>5, <1>6 DEF ContentTypes, ContentOk
<1>. QED  BY <1>7 DEF ContentInv

LEMMA ProgramContent ==
  ASSUME ContentInv, Program, TypesInv'
  PROVE  ContentInv'
<1> DEFINE rest == SubSeq(out, Portion + 1, Len(out))
           place == IF cur.sec = NoSection THEN [cur EXCEPT !.sec = tail, !.off = off] ELSE cur
<1>1. /\ pc \in {"write", "copy"} /\ UNCHANGED <<todo, versions>> /\ off < Size
      /\ IF rest = <<>> THEN NodeWritten(place)
         ELSE cur' = place /\ UNCHANGED <<lists, pc, call>>
  BY DEF Program, Writing
<1>2. /\ cur \in Write /\ tail \in Section /\ off \in Nat /\ off >= 1 /\ lists \in Lists
      /\ cur.sec # NoSection => cur.off >= 1
      /\ Size \in Nat
  BY <1>1, Sizes DEF ContentInv, TypesInv, RamTypes, WriteTypes, Writing
<1>3. /\ place.n = cur.n /\ place.op = cur.op /\ place.sec \in Section
  <2>1. off \in 0 .. Size - 1
    BY <1>1, <1>2
  <2>. QED  BY <1>2, <2>1 DEF Write, NoSection
<1> HIDE DEF place
<1>4. /\ versions \in Seq(SUBSET Node) /\ versions # <<>> /\ Distinct(lists)
      /\ todo \subseteq Current /\ Current' = Current
      /\ Current = Changed(Held, call.op, call.n)
      /\ call.op = "add" => Without(Held, call.n) = Held
      /\ call.op = "sync" => todo = {}
      /\ pc = "write" => call.op \in Op /\ cur.op = call.op /\ cur.n = call.n
      /\ pc = "copy" => Without(Live, cur.n) = Live
      /\ cur.n \in Node
  BY <1>1, <1>2 DEF ContentInv, ContentTypes, ContentOk, Current, Write
<1>5. \A l, o : /\ l = ListPush(lists, place.sec, cur.n, o)
                /\ Without(Live, cur.n) = Live
                => Distinct(l) /\ NodesIn(l) = Live \cup {cur.n}
  <2>1. Without(Live, cur.n) = Live => \A m \in NodesIn(lists) : ~SameNode(m, cur.n)
    BY DEF Without, Live
  <2>. QED  BY <1>2, <1>3, <1>4, <2>1, Pushing DEF Live
<1>6. CASE rest # <<>>
  <2>1. cur'.n = cur.n /\ cur'.op = cur.op /\ UNCHANGED <<lists, pc, call>>
    BY <1>1, <1>3, <1>6
  <2>2. Live' = Live /\ Held' = Held
    BY <2>1 DEF Live, Held
  <2>3. ContentTypes'
    BY <1>1, <1>4, <2>1, <2>2 DEF ContentTypes
  <2>4. ContentOk'
    BY <1>1, <1>4, <2>1, <2>2 DEF ContentOk
  <2>. QED  BY <2>3, <2>4 DEF ContentInv
<1>7. CASE rest = <<>> /\ pc = "copy"
  <2>1. /\ lists' = ListPush(lists, place.sec, cur.n, place.off)
        /\ pc' = "collect" /\ call' = call
    BY <1>1, <1>7 DEF NodeWritten
  <2>2. Distinct(lists') /\ NodesIn(lists') = Live \cup {cur.n}
    BY <1>4, <1>5, <1>7, <2>1
  <2>3. Live' = Held /\ Held' = Held
    BY <1>7, <2>1, <2>2 DEF Live, Held
  <2>4. ContentTypes'
    BY <1>1, <1>4, <2>1, <2>2 DEF ContentTypes
  <2>5. ContentOk'
    BY <1>1, <1>4, <2>1, <2>3 DEF ContentOk
  <2>. QED  BY <2>4, <2>5 DEF ContentInv
<1>8. CASE rest = <<>> /\ pc = "write"
  <2>1. /\ lists' = IF cur.op = "add" THEN ListPush(lists, place.sec, cur.n, place.off)
                    ELSE ListDel(lists, cur.n)
        /\ pc' = IF todo = {} THEN "idle" ELSE "next"
    BY <1>1, <1>8 DEF NodeWritten
  <2>2. Held = Live
    BY <1>8 DEF Held
  <2>3. Distinct(lists') /\ NodesIn(lists') = Current
    <3>1. CASE cur.op = "add"
      <4>1. Without(Live, cur.n) = Live /\ Current = Without(Live, cur.n) \cup {cur.n}
        BY <1>4, <1>8, <2>2, <3>1 DEF Changed
      <4>. QED  BY <1>5, <2>1, <3>1, <4>1
    <3>2. CASE cur.op = "rm"
      <4>1. Current = Without(Live, cur.n)
        BY <1>4, <1>8, <2>2, <3>2 DEF Changed
      <4>. QED  BY <1>2, <1>4, <2>1, <3>2, <4>1, Deleting DEF Live
    <3>. QED  BY <1>4, <1>8, <3>1, <3>2 DEF Op
  <2>4. Live' = Current'
    BY <1>4, <2>3 DEF Live
  <2>5. ContentTypes'
    BY <1>1, <1>4, <2>1, <2>3 DEF ContentTypes
  <2>6. ContentOk'
    BY <2>1, <2>4 DEF ContentOk
  <2>. QED  BY <2>5, <2>6 DEF ContentInv
<1>. QED  BY <1>1, <1>6, <1>7, <1>8

LEMMA ContentStart == Init => ContentInv
<1>1. SUFFICES ASSUME Init PROVE ContentInv
  OBVIOUS
<1>2. PICK f : f = [s \in Section |-> [i \in 0 .. Size - 1 |-> Erased]]
  OBVIOUS
<1>3. ValidSections(f) = {}
  <2>1. \A s \in Section : f[s][0] = Erased
    BY <1>2, Sizes
  <2>. QED  BY <2>1 DEF ValidSections, Erased
<1>4. pc = "idle" /\ lists = EmptyLists /\ todo = {} /\ versions = << {} >>
  BY <1>1, <1>2, <1>3 DEF Init, Recovered
<1>5. versions \in Seq(SUBSET Node) /\ versions # <<>> /\ Current = {} /\ Live = {}
  BY <1>4, EmptyDistinct DEF Current, Live
<1>6. ContentTypes /\ ContentOk
  BY <1>4, <1>5, EmptyDistinct DEF ContentTypes, ContentOk
<1>. QED  BY <1>1, <1>6, TypesStart DEF ContentInv

LEMMA ContentStep == ContentInv /\ [Next]_vars => ContentInv'
<1>1. SUFFICES ASSUME ContentInv, [Next]_vars PROVE ContentInv'
  OBVIOUS
<1>2. TypesInv'
  BY <1>1, TypesStep DEF ContentInv
<1>3. CASE Call
  BY <1>1, <1>2, <1>3, CallContent
<1>4. CASE Step
  BY <1>1, <1>2, <1>4, DelNextContent, CopyNodeContent, CollectionDoneContent,
     ProgramContent, NextSectionContent DEF Step
<1>5. CASE PowerLoss
  BY <1>1, <1>2, <1>5, RestartContent DEF PowerLoss, ContentInv, TypesInv
<1>6. CASE PowerLossInPage
  <2>1. PICK f \in Flash : RestartOn(f)
    BY <1>1, <1>6, TornPages DEF TornPage, ContentInv
  <2>. QED  BY <1>2, <2>1, RestartContent
<1>7. CASE UNCHANGED vars
  BY <1>1, <1>2, <1>7 DEF vars, ram, ContentInv, ContentTypes, ContentOk, Current, Live, Held
<1>. QED  BY <1>1, <1>3, <1>4, <1>5, <1>6, <1>7 DEF Next

(* Between two calls the lists hold what the caller stored: no node is     *)
(* lost, doubled or brought back by replacing, removing and collecting it, *)
(* nor by a power loss, whatever it left on the flash.                     *)
LiveIsCurrent == pc = "idle" => Live = Current

THEOREM ContentKept == Spec => []LiveIsCurrent
<1>1. ContentInv => LiveIsCurrent
  BY DEF ContentInv, ContentOk, LiveIsCurrent
<1>. QED  BY ContentStart, ContentStep, <1>1, PTL DEF Spec

-----------------------------------------------------------------------------
(* The store.  Every step but a power loss is one of VersionedStore.       *)

Restored == losses' # losses => Store!PowerLoss

RecoveryRestores == [][Restored]_vars

StoreStep == UNCHANGED losses => Store!StoreNext \/ UNCHANGED versions

LEMMA BeginStores ==
  ASSUME ContentInv, NEW op \in Op, NEW n \in Node, BeginUpdate(op, n),
         pc \in {"idle", "next"}, op = "rm" => n \in Current
  PROVE  Store!StoreNext
<1> DEFINE old == { m \in Current : SameNode(m, n) }
           new == IF op = "add" THEN {n} ELSE {}
<1>1. versions' = Append(versions, (Current \ old) \cup new)
  BY DEF BeginUpdate
<1>2. Current = NodesIn(lists) /\ Distinct(lists)
  BY DEF ContentInv, ContentTypes, ContentOk, Live
<1>3. \A m \in old : old = {m}
  <2>1. ASSUME NEW m \in old, NEW k \in old PROVE k = m
    <3>1. SameNode(m, n) /\ SameNode(k, n) /\ m \in NodesIn(lists) /\ k \in NodesIn(lists)
      BY <1>2
    <3>2. SameNode(k, m)
      BY <3>1, SameNodeEquivalence
    <3>. QED  BY <1>2, <3>1, <3>2, DistinctNodes
  <2>. QED  BY <2>1
<1>4. Store!Current = Current
  BY DEF Store!Current, Current
<1>5. CASE op = "add" /\ old = {}
  <2>1. versions' = Append(versions, Current \cup {n})
    BY <1>1, <1>5
  <2>2. Store!Add
    BY <1>4, <2>1 DEF Store!Add
  <2>. QED  BY <2>2 DEF Store!StoreNext
<1>6. CASE op = "add" /\ old # {}
  <2>1. PICK o \in old : o \in Current /\ old = {o}
    BY <1>3, <1>6
  <2>2. versions' = Append(versions, (Current \ {o}) \cup {n})
    BY <1>1, <1>6, <2>1
  <2>3. Store!Replace
    BY <1>4, <2>1, <2>2 DEF Store!Replace
  <2>. QED  BY <2>3 DEF Store!StoreNext
<1>7. CASE op = "rm"
  <2>1. n \in old
    BY <1>7, SameNodeEquivalence
  <2>2. old = {n}
    BY <1>3, <2>1
  <2>3. versions' = Append(versions, Current \ {n})
    <3>1. new = {}
      BY <1>7
    <3> HIDE DEF old, new
    <3>. QED  BY <1>1, <2>2, <3>1
  <2>4. Store!Remove
    BY <1>4, <1>7, <2>3 DEF Store!Remove
  <2>. QED  BY <2>4 DEF Store!StoreNext
<1>. QED  BY <1>5, <1>6, <1>7 DEF Op

StoreInv == ContentInv /\ losses \in Nat

LEMMA StoreInvStart == Init => StoreInv
BY ContentStart DEF Init, StoreInv

LEMMA StoreInvStep == StoreInv /\ [Next]_vars => StoreInv'
<1>1. losses \in Nat /\ [Next]_vars => losses' \in Nat
  BY DEF Next, PowerLoss, PowerLossInPage, RestartOn, vars
<1>. QED  BY <1>1, ContentStep DEF StoreInv

LEMMA CallStores ==
  ASSUME ContentInv, Call
  PROVE  Store!StoreNext \/ UNCHANGED versions
<1>1. Live \subseteq Node /\ (pc = "idle" => Live = Current) /\ Op = {"add", "rm"}
  BY LiveTyped DEF ContentInv, ContentOk, TypesInv, RamTypes, Op
<1>2. CASE \E d \in 0 .. DirIdLimit, name \in Name, val \in Val : WriteRecord(d, name, val)
  <2>1. PICK d \in 0 .. DirIdLimit, name \in Name, val \in Val : WriteRecord(d, name, val)
    BY <1>2
  <2>2. Record(d, name, val) \in Node
    BY DEF Node
  <2>3. pc = "idle" /\ BeginUpdate("add", Record(d, name, val))
    BY <2>1 DEF WriteRecord, CallAllowed
  <2>. QED  BY <1>1, <2>2, <2>3, BeginStores
<1>3. CASE \E d \in 0 .. DirIdLimit, name \in Name : MakeDir(d, name)
  <2>1. PICK d \in 0 .. DirIdLimit, name \in Name : MakeDir(d, name)
    BY <1>3
  <2>2. pc = "idle" /\ dirIdMax < DirIdLimit /\ BeginUpdate("add", Dir(dirIdMax + 1, d, name))
    BY <2>1 DEF MakeDir, CallAllowed
  <2>3. dirIdMax + 1 \in 1 .. DirIdLimit
    BY <2>2, Sizes DEF ContentInv, TypesInv, RamTypes
  <2>4. Dir(dirIdMax + 1, d, name) \in Node
    BY <2>3 DEF Node
  <2>. QED  BY <1>1, <2>2, <2>4, BeginStores
<1>4. CASE \E n \in Live : DelRecord(n)
  <2>1. PICK n \in Live : DelRecord(n)
    BY <1>4
  <2>2. pc = "idle" /\ BeginUpdate("rm", n)
    BY <2>1 DEF DelRecord, CallAllowed
  <2>. QED  BY <1>1, <2>1, <2>2, BeginStores
<1>5. CASE \E n \in Live : DelDir(n)
  BY <1>5 DEF DelDir
<1>6. CASE WriteThrough
  <2>1. versions' = <<Current>> \/ UNCHANGED versions
    BY <1>6 DEF WriteThrough
  <2>2. Store!Current = Current
    BY DEF Store!Current, Current
  <2>. QED  BY <2>1, <2>2 DEF Store!StoreNext, Store!WriteThrough
<1>. QED  BY <1>2, <1>3, <1>4, <1>5, <1>6 DEF Call

LEMMA StepStores ==
  ASSUME ContentInv, Step
  PROVE  Store!StoreNext \/ UNCHANGED versions
<1>1. CASE DelNext
  <2>1. PICK n \in todo : BeginUpdate("rm", n)
    BY <1>1 DEF DelNext
  <2>2. pc = "next" /\ n \in Current /\ n \in Node /\ "rm" \in Op
    BY <1>1 DEF DelNext, ContentInv, ContentTypes, TypesInv, RamTypes, Op
  <2>. QED  BY <2>1, <2>2, BeginStores
<1>2. CASE CollectionDone
  <2>1. versions' = <<Current>> \/ UNCHANGED versions
    BY <1>2 DEF CollectionDone
  <2>2. Store!Current = Current
    BY DEF Store!Current, Current
  <2>. QED  BY <2>1, <2>2 DEF Store!StoreNext, Store!WriteThrough
<1>3. CASE CopyNode \/ Program \/ NextSection
  BY <1>3 DEF CopyNode, Program, NextSection
<1>. QED  BY <1>1, <1>2, <1>3 DEF Step

LEMMA StoresWithoutLoss ==
  ASSUME StoreInv, [Next]_vars, UNCHANGED losses
  PROVE  Store!StoreNext \/ UNCHANGED versions
<1>1. losses' # losses + 1
  BY DEF StoreInv
<1>2. ~PowerLoss /\ ~PowerLossInPage
  BY <1>1 DEF PowerLoss, PowerLossInPage, RestartOn
<1>3. CASE UNCHANGED vars
  BY <1>3 DEF vars
<1>. QED  BY <1>2, <1>3, CallStores, StepStores DEF Next, StoreInv

LEMMA StoreStart == Init => Store!StoreInit
BY DEF Init, Store!StoreInit

(* A change to the store is one of VersionedStore's steps, whatever is     *)
(* collected for it and however many losses there were before.             *)
THEOREM StepsOfStore == Spec => [][StoreStep]_vars
<1>1. StoreInv /\ [Next]_vars => [StoreStep]_vars
  BY StoresWithoutLoss DEF StoreStep
<1>. QED  BY StoreInvStart, StoreInvStep, <1>1, PTL DEF Spec

(* If each power loss leaves one of the contents since the last            *)
(* write-through, tinyfs implements VersionedStore.                        *)
LEMMA ImplementsIfRestored == Spec /\ RecoveryRestores => ImplementsStore
<1>1. StoreInv /\ [Next]_vars /\ [Restored]_vars => [Store!StoreNext]_versions
  <2>1. ASSUME StoreInv, [Next]_vars, [Restored]_vars
        PROVE  [Store!StoreNext]_versions
    <3>1. CASE losses' = losses
      BY <2>1, <3>1, StoresWithoutLoss
    <3>2. CASE losses' # losses
      <4>1. ~UNCHANGED vars
        BY <3>2 DEF vars
      <4>. QED  BY <2>1, <3>2, <4>1 DEF Store!StoreNext, Restored
    <3>. QED  BY <3>1, <3>2
  <2>. QED  BY <2>1
<1>. QED  BY StoreInvStart, StoreInvStep, StoreStart, <1>1, PTL
          DEF Spec, RecoveryRestores, ImplementsStore, Store!StoreSpec

-----------------------------------------------------------------------------
(* Directories.                                                            *)

Rooted(V) ==
  \A n \in V : n.parent = RootId \/ \E d \in V : d.kind = "dir" /\ d.id = n.parent

RootedInv ==
  /\ StoreInv
  /\ \A i \in 1 .. Len(versions) : Rooted(versions[i])

LEMMA AddedRooted ==
  ASSUME NEW V, Rooted(V), NEW n,
         n.parent = RootId \/ \E d \in V : d.kind = "dir" /\ d.id = n.parent
  PROVE  Rooted((V \ { m \in V : SameNode(m, n) }) \cup {n})
<1> DEFINE W == (V \ { m \in V : SameNode(m, n) }) \cup {n}
<1>1. SUFFICES ASSUME NEW m \in W, m.parent # RootId
               PROVE  \E d \in W : d.kind = "dir" /\ d.id = m.parent
  BY DEF Rooted
<1>2. PICK d \in V : d.kind = "dir" /\ d.id = m.parent
  BY <1>1 DEF Rooted
<1>3. CASE SameNode(d, n)
  BY <1>2, <1>3 DEF SameNode
<1>4. CASE ~SameNode(d, n)
  BY <1>2, <1>4
<1>. QED  BY <1>3, <1>4

LEMMA RemovedRooted ==
  ASSUME NEW V, Rooted(V), NEW n,
         n.kind = "dir" => \A m \in V : m.parent # n.id
  PROVE  Rooted(V \ { m \in V : SameNode(m, n) })
<1> DEFINE W == V \ { m \in V : SameNode(m, n) }
<1>1. SUFFICES ASSUME NEW m \in W, m.parent # RootId
               PROVE  \E d \in W : d.kind = "dir" /\ d.id = m.parent
  BY DEF Rooted
<1>2. PICK d \in V : d.kind = "dir" /\ d.id = m.parent
  BY <1>1 DEF Rooted
<1>3. ~SameNode(d, n)
  BY <1>1, <1>2 DEF SameNode
<1>. QED  BY <1>2, <1>3

(* What a step adds to the versions, or leaves of them.                    *)
VersionsKept ==
  \/ UNCHANGED versions
  \/ \E i \in 1 .. Len(versions) : versions' = <<versions[i]>>
  \/ \E V \in SUBSET Node : Rooted(V) /\ versions' = Append(versions, V)

LEMMA KeptRooted ==
  ASSUME RootedInv, VersionsKept
  PROVE  \A i \in 1 .. Len(versions') : Rooted(versions'[i])
<1>1. versions \in Seq(SUBSET Node)
  BY DEF RootedInv, StoreInv, ContentInv, ContentTypes
<1>2. CASE UNCHANGED versions
  BY <1>2 DEF RootedInv
<1>3. CASE \E i \in 1 .. Len(versions) : versions' = <<versions[i]>>
  <2>1. PICK i \in 1 .. Len(versions) : versions' = <<versions[i]>>
    BY <1>3
  <2>2. \A j \in 1 .. Len(versions') : versions'[j] = versions[i]
    BY <2>1
  <2>. QED  BY <2>2 DEF RootedInv
<1>4. CASE \E V \in SUBSET Node : Rooted(V) /\ versions' = Append(versions, V)
  <2>1. PICK V \in SUBSET Node : Rooted(V) /\ versions' = Append(versions, V)
    BY <1>4
  <2>2. \A j \in 1 .. Len(versions) + 1 :
          Append(versions, V)[j] = V
          \/ (j \in 1 .. Len(versions) /\ Append(versions, V)[j] = versions[j])
    <3> SUFFICES ASSUME NEW j \in 1 .. Len(versions) + 1
                 PROVE  Append(versions, V)[j] = V
                        \/ (j \in 1 .. Len(versions) /\ Append(versions, V)[j] = versions[j])
      OBVIOUS
    <3>1. Len(versions) \in Nat
      BY <1>1, LenProperties
    <3>2. CASE j = Len(versions) + 1
      <4>1. Append(versions, V)[Len(versions) + 1] = V
        BY <1>1, <3>1
      <4>. QED  BY <3>2, <4>1, Zenon
    <3>3. CASE j # Len(versions) + 1
      <4>1. j \in 1 .. Len(versions)
        BY <3>1, <3>3
      <4>. QED  BY <1>1, <4>1, AppendProperties
    <3>. QED  BY <3>2, <3>3
  <2>3. Len(versions') = Len(versions) + 1
    BY <1>1, <2>1
  <2>. QED  BY <2>1, <2>2, <2>3 DEF RootedInv
<1>. QED  BY <1>2, <1>3, <1>4 DEF VersionsKept

LEMMA CallRooted ==
  ASSUME RootedInv, Call
  PROVE  VersionsKept
<1>1. /\ Live \subseteq Node /\ (pc = "idle" => Live = Current)
      /\ versions \in Seq(SUBSET Node) /\ versions # <<>>
  BY LiveTyped DEF RootedInv, StoreInv, ContentInv, ContentTypes, ContentOk, TypesInv, RamTypes
<1>2. Rooted(Current) /\ Current \subseteq Node
  <2>1. Len(versions) \in 1 .. Len(versions)
    BY <1>1, EmptySeq, LenProperties
  <2>. QED  BY <1>1, <2>1 DEF RootedInv, Current
<1>3. ASSUME NEW n \in Node, BeginUpdate("add", n), pc = "idle", DirExists(n.parent)
      PROVE  VersionsKept
  <2>1. n.parent = RootId \/ \E d \in Current : d.kind = "dir" /\ d.id = n.parent
    BY <1>1, <1>3 DEF DirExists
  <2> DEFINE V == (Current \ { m \in Current : SameNode(m, n) }) \cup {n}
  <2>2. versions' = Append(versions, V)
    BY <1>3 DEF BeginUpdate
  <2>3. Rooted(V) /\ V \in SUBSET Node
    BY <1>2, <2>1, AddedRooted
  <2> HIDE DEF V
  <2>. QED  BY <2>2, <2>3 DEF VersionsKept
<1>4. CASE \E d \in 0 .. DirIdLimit, name \in Name, val \in Val : WriteRecord(d, name, val)
  <2>1. PICK d \in 0 .. DirIdLimit, name \in Name, val \in Val : WriteRecord(d, name, val)
    BY <1>4
  <2>2. Record(d, name, val) \in Node /\ Record(d, name, val).parent = d
    BY DEF Node, Record
  <2>3. pc = "idle" /\ BeginUpdate("add", Record(d, name, val)) /\ DirExists(d)
    BY <2>1 DEF WriteRecord, CallAllowed
  <2>. QED  BY <1>3, <2>2, <2>3
<1>5. CASE \E d \in 0 .. DirIdLimit, name \in Name : MakeDir(d, name)
  <2>1. PICK d \in 0 .. DirIdLimit, name \in Name : MakeDir(d, name)
    BY <1>5
  <2> DEFINE n == Dir(dirIdMax + 1, d, name)
  <2>2. pc = "idle" /\ dirIdMax < DirIdLimit /\ BeginUpdate("add", n) /\ DirExists(d)
    BY <2>1 DEF MakeDir, CallAllowed
  <2>3. dirIdMax + 1 \in 1 .. DirIdLimit
    BY <2>2, Sizes DEF RootedInv, StoreInv, ContentInv, TypesInv, RamTypes
  <2>4. n \in Node /\ n.parent = d
    BY <2>3 DEF Node, Dir
  <2> HIDE DEF n
  <2>. QED  BY <1>3, <2>2, <2>4
<1>6. CASE \E n \in Live : DelRecord(n)
  <2>1. PICK n \in Live : DelRecord(n)
    BY <1>6
  <2>2. n.kind = "record" /\ BeginUpdate("rm", n)
    BY <2>1 DEF DelRecord
  <2> DEFINE V == Current \ { m \in Current : SameNode(m, n) }
  <2>3. versions' = Append(versions, V)
    BY <2>2 DEF BeginUpdate
  <2>4. Rooted(V) /\ V \in SUBSET Node
    BY <1>2, <2>2, RemovedRooted
  <2> HIDE DEF V
  <2>. QED  BY <2>3, <2>4 DEF VersionsKept
<1>7. CASE \E n \in Live : DelDir(n)
  BY <1>7 DEF DelDir, VersionsKept
<1>8. CASE WriteThrough
  <2>1. versions' = <<Current>> \/ UNCHANGED versions
    BY <1>8 DEF WriteThrough
  <2>2. Len(versions) \in 1 .. Len(versions)
    BY <1>1, EmptySeq, LenProperties
  <2>. QED  BY <2>1, <2>2 DEF VersionsKept, Current
<1>. QED  BY <1>4, <1>5, <1>6, <1>7, <1>8 DEF Call

LEMMA StepRooted ==
  ASSUME RootedInv, Step
  PROVE  VersionsKept
<1>1. versions \in Seq(SUBSET Node) /\ versions # <<>>
  BY DEF RootedInv, StoreInv, ContentInv, ContentTypes
<1>2. Len(versions) \in 1 .. Len(versions)
  BY <1>1, EmptySeq, LenProperties
<1>3. Rooted(Current) /\ Current \subseteq Node
  BY <1>1, <1>2 DEF RootedInv, Current
<1>4. CASE DelNext
  <2>1. PICK n \in todo : BeginUpdate("rm", n) /\ Children(n) = {}
    BY <1>4 DEF DelNext
  <2>2. Live = Current
    BY <1>4 DEF DelNext, RootedInv, StoreInv, ContentInv, ContentOk
  <2>3. n.kind = "dir" => \A m \in Current : m.parent # n.id
    BY <2>1, <2>2 DEF Children
  <2> DEFINE V == Current \ { m \in Current : SameNode(m, n) }
  <2>4. versions' = Append(versions, V)
    BY <2>1 DEF BeginUpdate
  <2>5. Rooted(V) /\ V \in SUBSET Node
    BY <1>3, <2>3, RemovedRooted
  <2> HIDE DEF V
  <2>. QED  BY <2>4, <2>5 DEF VersionsKept
<1>5. CASE CollectionDone
  <2>1. versions' = <<Current>> \/ UNCHANGED versions
    BY <1>5 DEF CollectionDone
  <2>. QED  BY <1>2, <2>1 DEF VersionsKept, Current
<1>6. CASE CopyNode \/ Program \/ NextSection
  BY <1>6 DEF CopyNode, Program, NextSection, VersionsKept
<1>. QED  BY <1>4, <1>5, <1>6 DEF Step

LEMMA NextRooted ==
  ASSUME RootedInv, [Next]_vars, [Restored]_vars
  PROVE  VersionsKept
<1>1. CASE UNCHANGED vars
  BY <1>1 DEF vars, VersionsKept
<1>2. CASE Call
  BY <1>2, CallRooted
<1>3. CASE Step
  BY <1>3, StepRooted
<1>4. CASE PowerLoss \/ PowerLossInPage
  <2>1. losses' = losses + 1 /\ losses \in Nat
    BY <1>4 DEF PowerLoss, PowerLossInPage, RestartOn, RootedInv, StoreInv
  <2>2. losses' # losses
    BY <2>1
  <2>3. ~UNCHANGED vars
    BY <2>2 DEF vars
  <2>4. Store!PowerLoss
    BY <2>2, <2>3 DEF Restored
  <2>. QED  BY <2>4 DEF Store!PowerLoss, VersionsKept
<1>. QED  BY <1>1, <1>2, <1>3, <1>4 DEF Next

LEMMA RootedStart == Init => RootedInv
<1>1. Init => \A i \in 1 .. Len(versions) : versions[i] = {}
  BY DEF Init
<1>. QED  BY <1>1, StoreInvStart DEF RootedInv, Rooted

LEMMA RootedStep == RootedInv /\ [Next]_vars /\ [Restored]_vars => RootedInv'
<1>1. SUFFICES ASSUME RootedInv, [Next]_vars, [Restored]_vars PROVE RootedInv'
  OBVIOUS
<1>2. StoreInv'
  BY <1>1, StoreInvStep DEF RootedInv
<1>3. \A i \in 1 .. Len(versions') : Rooted(versions'[i])
  BY <1>1, NextRooted, KeptRooted
<1>. QED  BY <1>2, <1>3 DEF RootedInv

(* A directory goes after all it holds, one call after the other, and      *)
(* nothing is put where there is none: so every content a power loss may   *)
(* bring back has the directories of all its nodes.                        *)
THEOREM NoOrphanLeft == Spec /\ RecoveryRestores => []NoOrphan
<1>1. RootedInv => NoOrphan
  <2>1. SUFFICES ASSUME RootedInv, pc = "idle", NEW n \in Live PROVE DirExists(n.parent)
    BY DEF NoOrphan
  <2>2. versions \in Seq(SUBSET Node) /\ versions # <<>> /\ Live = Current
    BY <2>1 DEF RootedInv, StoreInv, ContentInv, ContentTypes, ContentOk
  <2>3. Len(versions) \in 1 .. Len(versions)
    BY <2>2, EmptySeq, LenProperties
  <2>4. Rooted(Live)
    BY <2>1, <2>2, <2>3 DEF RootedInv, Current
  <2>. QED  BY <2>1, <2>4 DEF Rooted, DirExists
<1>. QED  BY RootedStart, RootedStep, <1>1, PTL DEF Spec, RecoveryRestores

LEMMA NothingToRestore == LossLimit = 0 => (Spec => RecoveryRestores)
<1>1. SUFFICES ASSUME LossLimit = 0 PROVE Spec => RecoveryRestores
  OBVIOUS
<1>2. StoreInv /\ [Next]_vars => [Restored]_vars
  <2>1. SUFFICES ASSUME StoreInv, [Next]_vars PROVE Restored
    OBVIOUS
  <2>2. ~(losses < LossLimit)
    BY <1>1, <2>1 DEF StoreInv
  <2>3. ~PowerLoss /\ ~PowerLossInPage
    BY <2>2 DEF PowerLoss, PowerLossInPage, RestartOn
  <2>4. losses' = losses
    BY <2>1, <2>3 DEF Next, vars
  <2>. QED  BY <2>4 DEF Restored
<1>. QED  BY StoreInvStart, StoreInvStep, <1>2, PTL DEF Spec, RecoveryRestores

(* Without power losses nothing has to be restored: writing, removing and  *)
(* collecting are those of VersionedStore for all constants.               *)
THEOREM ImplementsWithoutLoss ==
  ASSUME LossLimit = 0
  PROVE  Spec => ImplementsStore
BY NothingToRestore, ImplementsIfRestored, PTL

(* Nor is then anything ever without its directory.                        *)
THEOREM NoOrphanWithoutLoss ==
  ASSUME LossLimit = 0
  PROVE  Spec => []NoOrphan
BY NothingToRestore, NoOrphanLeft, PTL

-----------------------------------------------------------------------------
(* Sizes.  The folds of the community modules take the elements of a set   *)
(* in the order in which CHOOSE finds them.                                *)

IsSum(g, S, len) ==
  g = [s \in SUBSET S |-> IF s = {} THEN 0
                          ELSE len[CHOOSE x \in s : TRUE] + g[s \ {CHOOSE x \in s : TRUE}]]

LEMMA OneFewer ==
  ASSUME NEW S, IsFiniteSet(S), NEW x \in S
  PROVE  /\ IsFiniteSet(S \ {x})
         /\ Cardinality(S) \in Nat /\ Cardinality(S \ {x}) \in Nat
         /\ Cardinality(S \ {x}) < Cardinality(S)
<1>1. /\ IsFiniteSet(S \ {x})
      /\ Cardinality(S \ {x}) = IF x \in S THEN Cardinality(S) - 1 ELSE Cardinality(S)
  BY FS_RemoveElement
<1>2. Cardinality(S) \in Nat /\ Cardinality(S \ {x}) \in Nat
  BY <1>1, FS_CardinalityType
<1>. QED  BY <1>1, <1>2

LEMMA SumIsDefined ==
  ASSUME NEW S, IsFiniteSet(S), NEW len \in [S -> Nat]
  PROVE  \E g \in [SUBSET S -> Nat] : IsSum(g, S, len)
<1> DEFINE D == SUBSET S
           stop == {{}}
           base == [s \in D |-> 0]
           next == [s \in D |-> IF s = {} THEN {} ELSE s \ {CHOOSE x \in s : TRUE}]
           step == [a \in D \X Nat |-> IF a[1] = {} THEN 0 ELSE len[CHOOSE x \in a[1] : TRUE] + a[2]]
           m == [s \in D |-> Cardinality(s)]
<1>1. \A s \in D : IsFiniteSet(s) /\ Cardinality(s) \in Nat /\ Cardinality(s) <= Cardinality(S)
  BY FS_Subset, FS_CardinalityType
<1>2. \A s \in D : s # {} => (CHOOSE x \in s : TRUE) \in s
  OBVIOUS
<1>3. Recursion(D, Nat, stop, base, next, step, m)
  <2>1. stop \subseteq D /\ base \in [D -> Nat] /\ next \in [D -> D]
    OBVIOUS
  <2>2. step \in [D \X Nat -> Nat]
    <3>1. ASSUME NEW a \in D \X Nat
          PROVE  (IF a[1] = {} THEN 0 ELSE len[CHOOSE x \in a[1] : TRUE] + a[2]) \in Nat
      <4>1. a[1] \in D /\ a[2] \in Nat
        OBVIOUS
      <4>2. CASE a[1] = {}
        BY <4>2
      <4>3. CASE a[1] # {}
        <5>1. (CHOOSE x \in a[1] : TRUE) \in S
          BY <1>2, <4>1, <4>3
        <5>2. len[CHOOSE x \in a[1] : TRUE] \in Nat
          BY <5>1
        <5>. QED  BY <4>1, <4>3, <5>2
      <4>. QED  BY <4>2, <4>3
    <3>. QED  BY <3>1
  <2>3. m \in [D -> Nat]
    BY <1>1
  <2>4. \A s \in D \ stop : m[next[s]] < m[s]
    <3>1. SUFFICES ASSUME NEW s \in D, s # {} PROVE m[next[s]] < m[s]
      OBVIOUS
    <3> DEFINE c == CHOOSE x \in s : TRUE
    <3>2. c \in s
      BY <3>1
    <3>3. next[s] = s \ {c} /\ s \ {c} \in D
      BY <3>1
    <3> HIDE DEF c
    <3>4. IsFiniteSet(s) /\ Cardinality(s) \in Nat
      BY <1>1
    <3>5. Cardinality(s \ {c}) < Cardinality(s)
      BY <3>2, <3>4, OneFewer
    <3>. QED  BY <3>3, <3>4, <3>5
  <2> HIDE DEF D, stop, base, next, step, m
  <2>. QED  BY <2>1, <2>2, <2>3, <2>4 DEF Recursion
<1>4. PICK g \in [D -> Nat] : Satisfies(g, D, stop, base, next, step)
  <2>1. Cardinality(S) \in Nat
    BY FS_CardinalityType
  <2>2. Cardinality(S) + 1 \in Nat /\ \A s \in D : m[s] < Cardinality(S) + 1
    BY <1>1, <2>1
  <2> HIDE DEF D, stop, base, next, step, m
  <2>. QED  BY <1>3, <2>2, RecursionIsDefined
<1>5. ASSUME NEW s \in D
      PROVE  g[s] = IF s = {} THEN 0
                    ELSE len[CHOOSE x \in s : TRUE] + g[s \ {CHOOSE x \in s : TRUE}]
  <2>1. g[s] = IF s \in stop THEN base[s] ELSE step[<<s, g[next[s]]>>]
    BY <1>4, Zenon DEF Satisfies
  <2>2. CASE s = {}
    BY <2>1, <2>2
  <2>3. CASE s # {}
    <3>1. next[s] = s \ {CHOOSE x \in s : TRUE} /\ next[s] \in D
      BY <2>3
    <3>2. <<s, g[next[s]]>> \in D \X Nat
      BY <1>4, <3>1
    <3>3. step[<<s, g[next[s]]>>] = len[CHOOSE x \in s : TRUE] + g[next[s]]
      BY <2>3, <3>2
    <3>4. g[s] = step[<<s, g[next[s]]>>]
      BY <2>1, <2>3
    <3> HIDE DEF next, step
    <3>. QED  BY <2>3, <3>1, <3>3, <3>4
  <2>. QED  BY <2>2, <2>3
<1>6. g = [s \in D |-> g[s]]
  BY <1>4
<1>7. IsSum(g, S, len)
  BY <1>5, <1>6 DEF IsSum
<1>. QED  BY <1>4, <1>7

LEMMA SumsAgree ==
  ASSUME NEW S, IsFiniteSet(S), NEW len, NEW g, NEW h, NEW T \in SUBSET S,
         IsSum(g, S, len), IsSum(h, T, len)
  PROVE  h[T] = g[T]
<1> DEFINE D == SUBSET T
           m == [s \in D |-> Cardinality(s)]
           Good == { s \in D : h[s] = g[s] }
<1>1. \A s \in D : IsFiniteSet(s) /\ Cardinality(s) \in Nat
  BY FS_Subset, FS_CardinalityType
<1>2. \A x \in D : (\A y \in D : m[y] < m[x] => y \in Good) => x \in Good
  <2>1. SUFFICES ASSUME NEW x \in D, \A y \in D : m[y] < m[x] => y \in Good
                 PROVE  h[x] = g[x]
    OBVIOUS
  <2> DEFINE c == CHOOSE y \in x : TRUE
  <2>2. /\ h[x] = IF x = {} THEN 0 ELSE len[c] + h[x \ {c}]
        /\ g[x] = IF x = {} THEN 0 ELSE len[c] + g[x \ {c}]
    BY DEF IsSum
  <2>3. CASE x = {}
    BY <2>2, <2>3
  <2>4. CASE x # {}
    <3>1. c \in x
      BY <2>4
    <3>2. x \ {c} \in D
      OBVIOUS
    <3> HIDE DEF c
    <3>3. m[x \ {c}] < m[x]
      BY <1>1, <3>1, <3>2, FS_RemoveElement
    <3>4. h[x \ {c}] = g[x \ {c}]
      BY <2>1, <3>2, <3>3
    <3>. QED  BY <2>2, <2>4, <3>4
  <2>. QED  BY <2>3, <2>4
<1>3. m \in [D -> Nat]
  BY <1>1
<1>4. T \in D
  OBVIOUS
<1> HIDE DEF D, m, Good
<1>5. D \subseteq Good
  BY <1>2, <1>3, ByMeasure
<1>. QED  BY <1>4, <1>5 DEF Good

Nodes == { S \in SUBSET Node : IsFiniteSet(S) }

LEMMA SumOfNodes ==
  ASSUME NEW S \in Nodes
  PROVE  \E g \in [SUBSET S -> Nat] :
           /\ IsSum(g, S, [n \in Node |-> NodeLength("add", n)])
           /\ SizeOfNodes(S) = g[S]
<1> DEFINE len == [n \in Node |-> NodeLength("add", n)]
           Sol(g) == g = [s \in SUBSET S |->
             IF s = {} THEN 0
             ELSE NodeLength("add", CHOOSE x \in s : TRUE) + g[s \ {CHOOSE x \in s : TRUE}]]
<1>1. SizeOfNodes(S) = (CHOOSE g : Sol(g))[S]
  BY DEF SizeOfNodes, FoldSet, MapThenFoldSet
<1>2. S \subseteq Node /\ IsFiniteSet(S)
  BY DEF Nodes
<1>3. \A n \in Node : NodeLength("add", n) \in Nat
  BY NodeLengths DEF Op
<1>4. [n \in S |-> len[n]] \in [S -> Nat]
  BY <1>2, <1>3
<1>5. PICK g \in [SUBSET S -> Nat] : IsSum(g, S, [n \in S |-> len[n]])
  BY <1>2, <1>4, SumIsDefined
<1>6. \A s \in SUBSET S : s # {} =>
        /\ (CHOOSE x \in s : TRUE) \in S
        /\ len[CHOOSE x \in s : TRUE] = NodeLength("add", CHOOSE x \in s : TRUE)
        /\ [n \in S |-> len[n]][CHOOSE x \in s : TRUE] = len[CHOOSE x \in s : TRUE]
  BY <1>2
<1>7. ASSUME NEW h
      PROVE  /\ IsSum(h, S, [n \in S |-> len[n]]) <=> Sol(h)
             /\ IsSum(h, S, len) <=> Sol(h)
  <2> DEFINE C(s) == CHOOSE x \in s : TRUE
             A == [s \in SUBSET S |-> IF s = {} THEN 0 ELSE NodeLength("add", C(s)) + h[s \ {C(s)}]]
             B(l) == [s \in SUBSET S |-> IF s = {} THEN 0 ELSE l[C(s)] + h[s \ {C(s)}]]
  <2>1. \A s \in SUBSET S : s # {} => len[C(s)] = NodeLength("add", C(s))
                                      /\ [n \in S |-> len[n]][C(s)] = len[C(s)]
    BY <1>6
  <2> HIDE DEF C, len
  <2>2. A = B(len) /\ A = B([n \in S |-> len[n]])
    BY <2>1
  <2>3. /\ Sol(h) <=> h = A
        /\ IsSum(h, S, len) <=> h = B(len)
        /\ IsSum(h, S, [n \in S |-> len[n]]) <=> h = B([n \in S |-> len[n]])
    BY DEF IsSum, C
  <2> HIDE DEF A, B
  <2>. QED  BY <2>2, <2>3
<1>8. \A h : IsSum(h, S, len) <=> Sol(h)
  BY <1>7
<1> HIDE DEF Sol, len
<1>9. Sol(CHOOSE h : Sol(h))
  BY <1>5, <1>7
<1>10. IsSum(CHOOSE h : Sol(h), S, len) /\ IsSum(g, S, len)
  BY <1>5, <1>7, <1>8, <1>9
<1>11. (CHOOSE h : Sol(h))[S] = g[S]
  BY <1>2, <1>10, SumsAgree
<1>. QED  BY <1>1, <1>10, <1>11 DEF len

LEMMA SizesUnfold ==
  /\ SizeOfNodes({}) = 0
  /\ \A S \in Nodes : S # {} =>
       SizeOfNodes(S) = NodeLength("add", CHOOSE x \in S : TRUE)
                        + SizeOfNodes(S \ {CHOOSE x \in S : TRUE})
  /\ \A S \in Nodes : SizeOfNodes(S) \in Nat
<1> DEFINE len == [n \in Node |-> NodeLength("add", n)]
<1>1. \A S \in Nodes : SizeOfNodes(S) \in Nat
  <2>1. SUFFICES ASSUME NEW S \in Nodes PROVE SizeOfNodes(S) \in Nat
    OBVIOUS
  <2>2. PICK g \in [SUBSET S -> Nat] : SizeOfNodes(S) = g[S]
    BY SumOfNodes
  <2>. QED  BY <2>2
<1>2. SizeOfNodes({}) = 0
  <2>1. {} \in Nodes
    BY FS_EmptySet DEF Nodes
  <2>2. PICK g \in [SUBSET {} -> Nat] : IsSum(g, {}, len) /\ SizeOfNodes({}) = g[{}]
    BY <2>1, SumOfNodes
  <2>3. {} \in SUBSET {}
    OBVIOUS
  <2>. QED  BY <2>2, <2>3 DEF IsSum
<1>3. ASSUME NEW S \in Nodes, S # {}
      PROVE  SizeOfNodes(S) = NodeLength("add", CHOOSE x \in S : TRUE)
                              + SizeOfNodes(S \ {CHOOSE x \in S : TRUE})
  <2> DEFINE c == CHOOSE x \in S : TRUE
  <2>1. c \in S /\ S \subseteq Node /\ IsFiniteSet(S)
    BY <1>3 DEF Nodes
  <2>2. S \ {c} \in Nodes /\ S \ {c} \in SUBSET S
    BY <2>1, FS_Subset DEF Nodes
  <2>3. PICK g \in [SUBSET S -> Nat] : IsSum(g, S, len) /\ SizeOfNodes(S) = g[S]
    BY SumOfNodes
  <2>4. PICK h \in [SUBSET (S \ {c}) -> Nat] : IsSum(h, S \ {c}, len) /\ SizeOfNodes(S \ {c}) = h[S \ {c}]
    BY <2>2, SumOfNodes
  <2>5. g[S] = len[c] + g[S \ {c}]
    BY <1>3, <2>3 DEF IsSum
  <2>6. len[c] = NodeLength("add", c)
    BY <2>1
  <2> HIDE DEF c, len
  <2>7. h[S \ {c}] = g[S \ {c}]
    BY <2>1, <2>2, <2>3, <2>4, SumsAgree
  <2>. QED  BY <2>3, <2>4, <2>5, <2>6, <2>7 DEF c
<1>. QED  BY <1>1, <1>2, <1>3

(* Any node of a set may be counted first. *)
LEMMA CountingOne ==
  ASSUME NEW S \in Nodes, NEW n \in S
  PROVE  /\ S \ {n} \in Nodes
         /\ SizeOfNodes(S \ {n}) \in Nat
         /\ SizeOfNodes(S) = NodeLength("add", n) + SizeOfNodes(S \ {n})
<1> DEFINE m == [s \in Nodes |-> Cardinality(s)]
           Good == { s \in Nodes : \A k \in s :
                       SizeOfNodes(s) = NodeLength("add", k) + SizeOfNodes(s \ {k}) }
<1>1. ASSUME NEW s \in Nodes, NEW k \in s
      PROVE  s \ {k} \in Nodes /\ m[s \ {k}] < m[s]
  <2>1. IsFiniteSet(s) /\ s \in SUBSET Node
    BY DEF Nodes
  <2>2. IsFiniteSet(s \ {k}) /\ Cardinality(s \ {k}) = Cardinality(s) - 1 /\ Cardinality(s) \in Nat
    BY <2>1, FS_RemoveElement, FS_CardinalityType
  <2>3. s \ {k} \in Nodes
    BY <2>1, <2>2 DEF Nodes
  <2>4. m[s] = Cardinality(s) /\ m[s \ {k}] = Cardinality(s \ {k})
    BY <2>3
  <2>. QED  BY <2>2, <2>3, <2>4
<1>2. \A x \in Nodes : (\A y \in Nodes : m[y] < m[x] => y \in Good) => x \in Good
  <2>1. SUFFICES ASSUME NEW x \in Nodes, \A y \in Nodes : m[y] < m[x] => y \in Good,
                        NEW k \in x
                 PROVE  SizeOfNodes(x) = NodeLength("add", k) + SizeOfNodes(x \ {k})
    OBVIOUS
  <2> DEFINE c == CHOOSE y \in x : TRUE
  <2>2. c \in x /\ SizeOfNodes(x) = NodeLength("add", c) + SizeOfNodes(x \ {c})
    BY SizesUnfold
  <2> HIDE DEF c
  <2>3. CASE k = c
    BY <2>2, <2>3
  <2>4. CASE k # c
    <3>1. /\ x \ {c} \in Nodes /\ x \ {c} \in Good /\ k \in x \ {c}
          /\ x \ {k} \in Nodes /\ x \ {k} \in Good /\ c \in x \ {k}
      BY <1>1, <2>1, <2>2, <2>4
    <3>2. SizeOfNodes(x \ {c}) = NodeLength("add", k) + SizeOfNodes((x \ {c}) \ {k})
      BY <3>1
    <3>3. SizeOfNodes(x \ {k}) = NodeLength("add", c) + SizeOfNodes((x \ {k}) \ {c})
      BY <3>1
    <3>4. (x \ {k}) \ {c} = (x \ {c}) \ {k}
      OBVIOUS
    <3>5. /\ NodeLength("add", k) \in Nat /\ NodeLength("add", c) \in Nat
          /\ (x \ {c}) \ {k} \in Nodes
      BY <1>1, <2>2, <3>1, NodeLengths DEF Nodes, Op
    <3>6. SizeOfNodes((x \ {c}) \ {k}) \in Nat
      BY <3>5, SizesUnfold
    <3> HIDE DEF Good, m
    <3>. QED  BY <2>2, <3>2, <3>3, <3>4, <3>5, <3>6
  <2>. QED  BY <2>3, <2>4
<1>3. m \in [Nodes -> Nat]
  BY FS_CardinalityType DEF Nodes
<1>4. S \ {n} \in Nodes
  BY <1>1
<1>5. Nodes \subseteq Good
  <2> HIDE DEF m, Good
  <2>. QED  BY <1>2, <1>3, ByMeasure
<1>. QED  BY <1>4, <1>5, SizesUnfold

LEMMA SmallerSize ==
  ASSUME NEW S \in Nodes, NEW T \in SUBSET S
  PROVE  T \in Nodes /\ SizeOfNodes(T) <= SizeOfNodes(S)
<1> DEFINE m == [s \in Nodes |-> Cardinality(s)]
           Good == { s \in Nodes : \A t \in SUBSET s : SizeOfNodes(t) <= SizeOfNodes(s) }
<1>1. ASSUME NEW s \in Nodes, NEW t \in SUBSET s PROVE t \in Nodes
  BY FS_Subset DEF Nodes
<1>2. \A x \in Nodes : (\A y \in Nodes : m[y] < m[x] => y \in Good) => x \in Good
  <2>1. SUFFICES ASSUME NEW x \in Nodes, \A y \in Nodes : m[y] < m[x] => y \in Good,
                        NEW t \in SUBSET x
                 PROVE  SizeOfNodes(t) <= SizeOfNodes(x)
    OBVIOUS
  <2>2. SizeOfNodes(x) \in Nat /\ SizeOfNodes(t) \in Nat
    BY <1>1, SizesUnfold
  <2>3. CASE t = x
    BY <2>2, <2>3
  <2>4. CASE t # x
    <3>1. PICK k \in x : k \notin t
      BY <2>4
    <3>2. x \ {k} \in Nodes /\ SizeOfNodes(x \ {k}) \in Nat
          /\ SizeOfNodes(x) = NodeLength("add", k) + SizeOfNodes(x \ {k})
      BY CountingOne
    <3>3. IsFiniteSet(x) /\ Cardinality(x) \in Nat
      BY FS_CardinalityType DEF Nodes
    <3>4. Cardinality(x \ {k}) < Cardinality(x)
      BY <3>1, <3>3, OneFewer
    <3>5. x \ {k} \in Good
      BY <2>1, <3>2, <3>4
    <3>6. SizeOfNodes(t) <= SizeOfNodes(x \ {k})
      BY <3>1, <3>5
    <3>7. NodeLength("add", k) \in Nat
      BY NodeLengths DEF Nodes, Op
    <3> HIDE DEF Good, m
    <3>. QED  BY <2>2, <3>2, <3>6, <3>7
  <2>. QED  BY <2>3, <2>4
<1>3. m \in [Nodes -> Nat]
  BY FS_CardinalityType DEF Nodes
<1>5. Nodes \subseteq Good
  <2> HIDE DEF m, Good
  <2>. QED  BY <1>2, <1>3, ByMeasure
<1>. QED  BY <1>1, <1>5

LEMMA ListSize ==
  ASSUME NEW l \in Seq(Entry)
  PROVE  SizeOfList(l) \in Nat
<1> DEFINE len == [i \in DOMAIN l |-> NodeLength("add", l[i].n)]
           C(s) == CHOOSE x \in s : TRUE
           A(h) == [s \in SUBSET DOMAIN l |-> IF s = {} THEN 0
                                  ELSE NodeLength("add", l[C(s)].n) + h[s \ {C(s)}]]
           B(h) == [s \in SUBSET DOMAIN l |-> IF s = {} THEN 0 ELSE len[C(s)] + h[s \ {C(s)}]]
           Sol(h) == h = A(h)
<1>1. SizeOfList(l) = (CHOOSE h : Sol(h))[DOMAIN l]
  BY DEF SizeOfList, FoldSeq, FoldFunction, FoldFunctionOnSet, MapThenFoldSet
<1>2. DOMAIN l = 1 .. Len(l) /\ Len(l) \in Nat
  BY LenProperties
<1>3. IsFiniteSet(DOMAIN l)
  BY <1>2, FS_Interval
<1>4. len \in [DOMAIN l -> Nat]
  <2>1. SUFFICES ASSUME NEW i \in DOMAIN l PROVE NodeLength("add", l[i].n) \in Nat
    OBVIOUS
  <2>2. l[i] \in Entry
    BY ElementOfSeq, <1>2
  <2>3. l[i].n \in Node
    BY <2>2 DEF Entry
  <2>. QED  BY <2>3, NodeLengths DEF Op
<1>5. \A s \in SUBSET DOMAIN l : s # {} => len[C(s)] = NodeLength("add", l[C(s)].n)
  OBVIOUS
<1>6. \A h : A(h) = B(h)
  <2> HIDE DEF C, len
  <2>. QED  BY <1>5
<1>7. PICK g \in [SUBSET DOMAIN l -> Nat] : IsSum(g, DOMAIN l, len)
  BY <1>3, <1>4, SumIsDefined
<1>8. \A h : IsSum(h, DOMAIN l, len) <=> h = B(h)
  BY DEF IsSum
<1>9. \A h : IsSum(h, DOMAIN l, len) <=> Sol(h)
  <2> HIDE DEF A, B
  <2>. QED  BY <1>6, <1>8
<1> HIDE DEF Sol, len
<1>10. Sol(CHOOSE h : Sol(h))
  BY <1>7, <1>9
<1>11. IsSum(CHOOSE h : Sol(h), DOMAIN l, len)
  BY <1>9, <1>10
<1>12. (CHOOSE h : Sol(h))[DOMAIN l] = g[DOMAIN l]
  BY <1>3, <1>7, <1>11, SumsAgree
<1>. QED  BY <1>1, <1>7, <1>12

LEMMA FiniteNodes ==
  ASSUME NEW l \in Lists
  PROVE  /\ NodesIn(l) \in Nodes
         /\ \A s \in Section : { l[s][i].n : i \in DOMAIN l[s] } \in Nodes
<1> DEFINE N(s) == { l[s][i].n : i \in DOMAIN l[s] }
<1>1. ASSUME NEW s \in Section PROVE N(s) \in Nodes
  <2>1. l[s] \in Seq(Entry)
    BY DEF Lists
  <2>2. DOMAIN l[s] = 1 .. Len(l[s]) /\ Len(l[s]) \in Nat
    BY <2>1, LenProperties
  <2>3. IsFiniteSet(DOMAIN l[s])
    BY <2>2, FS_Interval
  <2> DEFINE f == [i \in DOMAIN l[s] |-> l[s][i].n]
  <2>4. f \in Surjection(DOMAIN l[s], N(s))
    BY DEF Surjection
  <2>5. IsFiniteSet(N(s))
    <3> HIDE DEF N, f
    <3>. QED  BY <2>3, <2>4, FS_Surjection
  <2>6. \A i \in DOMAIN l[s] : l[s][i] \in Entry
    BY <2>1, <2>2, ElementOfSeq
  <2>7. N(s) \subseteq Node
    BY <2>6 DEF Entry
  <2>. QED  BY <2>5, <2>7 DEF Nodes
<1>2. IsFiniteSet({ N(s) : s \in Section })
  <2> DEFINE f == [s \in Section |-> N(s)]
             T == { N(s) : s \in Section }
  <2>1. IsFiniteSet(Section)
    BY Sizes, FS_Interval DEF Section
  <2>2. f \in Surjection(Section, T)
    BY DEF Surjection
  <2> HIDE DEF f, T
  <2>3. IsFiniteSet(T)
    BY <2>1, <2>2, FS_Surjection
  <2>. QED  BY <2>3 DEF T
<1>3. NodesIn(l) = UNION { N(s) : s \in Section }
  BY DEF NodesIn
<1>4. IsFiniteSet(NodesIn(l))
  <2>1. \A T \in { N(s) : s \in Section } : IsFiniteSet(T)
    BY <1>1 DEF Nodes
  <2>. QED  BY <1>2, <1>3, <2>1, FS_UNION
<1>5. NodesIn(l) \subseteq Node
  BY <1>1, <1>3 DEF Nodes
<1>. QED  BY <1>1, <1>4, <1>5 DEF Nodes

-----------------------------------------------------------------------------
(* Room.  Until the first power loss head is the section behind tail, and  *)
(* sections are counted from it on.                                        *)

Ahead(h, s) == IF s >= h THEN s - h ELSE s - h + NSection

LEMMA AheadOf ==
  ASSUME NEW h \in Section, NEW s \in Section
  PROVE  /\ Ahead(h, s) \in 0 .. NSection - 1
         /\ Ahead(h, s) = 0 <=> s = h
         /\ Ahead(h, s) = 1 <=> h = get_prev_section(s)
         /\ Ahead(get_next_section(h), s) = IF s = h THEN NSection - 1 ELSE Ahead(h, s) - 1
         /\ Ahead(h, get_next_section(s)) =
              IF Ahead(h, s) = NSection - 1 THEN 0 ELSE Ahead(h, s) + 1
         /\ Ahead(get_next_section(s), s) = NSection - 1
         /\ Ahead(get_next_section(s), get_prev_section(s)) = NSection - 2
BY Sizes DEF Ahead, Section, get_next_section, get_prev_section

LEMMA AheadApart ==
  ASSUME NEW h \in Section, NEW s \in Section, NEW t \in Section, Ahead(h, s) = Ahead(h, t)
  PROVE  s = t
BY Sizes DEF Ahead, Section

(* The caller keeps so little alive that it fits in a section, with a page *)
(* of padding and the node of a removal.                                   *)
LiveFits == LiveLimit \in Nat /\ LiveLimit + Page + 1 + MetaRest + Crc <= Size

(* No section from the oldest one up to gc holds a live node.              *)
Emptied ==
  gc # NoSection => \A s \in Section : Ahead(head, s) < Ahead(head, gc) => lists[s] = <<>>

Waiting == { lists[gc][i].n : i \in DOMAIN lists[gc] }

Underway == IF pc = "copy" THEN Len(out) ELSE 0

Coming == IF call.op \in Op THEN NodeLength(call.op, call.n) ELSE 0

(* What a collection has still to write, with the padding at its end and   *)
(* the node it makes room for.                                             *)
ToWrite == SizeOfNodes(Waiting) + Underway + (Page - 1) + Coming

RoomToWrite ==
  \/ /\ Ahead(head, gc) >= 1
     /\ Ahead(head, gc) = 1 => off + Len(out) <= Size
  \/ gc = head /\ off = Size /\ lists = EmptyLists /\ cur.sec = NoSection

RoomToCollect ==
  \/ Ahead(head, gc) = 1
  \/ gc = head /\ off + ToWrite <= Size

(* A node is begun in the tail section or in the one before it.            *)
Begun ==
  cur.sec # NoSection =>
    \/ cur.sec = tail
    \/ /\ cur.sec = get_prev_section(tail)
       /\ gc # tail /\ off + Len(out) <= Size
       /\ pc = "copy" => gc = head

RoomOk ==
  /\ head = get_next_section(tail)
  /\ pc \notin {"failed", "hung"}
  /\ gc = NoSection => pc \in {"idle", "next"} /\ off = Size /\ lists = EmptyLists
  /\ Emptied
  /\ pc \in {"idle", "next"} => gc # head
  /\ pc = "write" => RoomToWrite
  /\ pc \in {"collect", "copy"} => RoomToCollect
  /\ Writing => Begun

HeldFits ==
  /\ Current \in Nodes /\ SizeOfNodes(Current) <= LiveLimit
  /\ Held \in Nodes /\ SizeOfNodes(Held) <= LiveLimit

LEMMA WaitingInLists ==
  ASSUME lists \in Lists, gc \in Section
  PROVE  Waiting \in Nodes /\ Waiting \subseteq Live
<1>1. Waiting \in Nodes
  BY FiniteNodes DEF Waiting
<1>2. Waiting \subseteq Live
  BY DEF Waiting, Live, NodesIn
<1>. QED  BY <1>1, <1>2

(* When a copy goes on in the next section, everything fits there.         *)
LEMMA EverythingFits ==
  ASSUME LiveFits, TypesInv, CopyLength, ContentInv, HeldFits, pc = "copy"
  PROVE  ToWrite + 1 <= Size /\ ToWrite \in Nat
<1>1. /\ gc \in Section /\ lists \in Lists /\ cur.n \in Node
      /\ call.op \in Op \cup {"sync"} /\ (call.op # "sync" => call.n \in Node)
      /\ Len(out) \in Nat
  BY DEF TypesInv, RamTypes, CallTypes, WriteTypes, Writing, Write
<1>2. Waiting \in Nodes /\ Waiting \subseteq Live
  BY <1>1, WaitingInLists
<1>3. /\ Held = Live \cup {cur.n} /\ Without(Live, cur.n) = Live
      /\ Current = Changed(Held, call.op, call.n)
      /\ call.op = "add" => Without(Held, call.n) = Held
  BY DEF ContentInv, ContentOk, Held
<1>4. cur.n \notin Live
  BY <1>3, SameNodeEquivalence DEF Without
<1> DEFINE W == Waiting \cup {cur.n}
<1>5. W \in SUBSET Held /\ Held \in Nodes
  BY <1>2, <1>3 DEF HeldFits
<1>6. W \in Nodes /\ SizeOfNodes(W) <= SizeOfNodes(Held)
  BY <1>5, SmallerSize
<1>7. W \ {cur.n} = Waiting
  BY <1>2, <1>4
<1>8. SizeOfNodes(W) = NodeLength("add", cur.n) + SizeOfNodes(Waiting)
  <2>1. cur.n \in W
    OBVIOUS
  <2> HIDE DEF W
  <2>. QED  BY <1>6, <1>7, <2>1, CountingOne
<1>9. /\ SizeOfNodes(Waiting) \in Nat /\ SizeOfNodes(W) \in Nat
      /\ SizeOfNodes(Held) \in Nat /\ SizeOfNodes(Current) \in Nat
  BY <1>2, <1>6, SizesUnfold DEF HeldFits
<1>10. Len(out) <= NodeLength("add", cur.n) /\ NodeLength("add", cur.n) \in Nat
  BY <1>1, NodeLengths DEF CopyLength, Op
<1>11. Coming \in Nat /\ SizeOfNodes(W) + Coming <= LiveLimit + 1 + MetaRest + Crc
  <2>1. CASE call.op = "add"
    <3>1. call.n \notin Held /\ Current = Held \cup {call.n}
      BY <1>3, <2>1, SameNodeEquivalence DEF Without, Changed
    <3>2. Current \ {call.n} = Held /\ call.n \in Current
      BY <3>1
    <3>3. SizeOfNodes(Current) = NodeLength("add", call.n) + SizeOfNodes(Held)
      BY <3>2, CountingOne DEF HeldFits
    <3>4. Coming = NodeLength("add", call.n) /\ Coming \in Nat
      BY <1>1, <2>1, NodeLengths DEF Coming, Op
    <3>. QED  BY <1>6, <1>9, <3>3, <3>4, Sizes DEF HeldFits, LiveFits
  <2>2. CASE call.op = "rm"
    <3>1. Coming = 1 + MetaRest + Crc
      BY <2>2, Sizes DEF Coming, Op, NodeLength, BodyLen, DataLen
    <3>. QED  BY <1>6, <1>9, <3>1, Sizes DEF HeldFits, LiveFits
  <2>3. CASE call.op = "sync"
    <3>1. Coming = 0
      BY <2>3 DEF Coming, Op
    <3>. QED  BY <1>6, <1>9, <3>1, Sizes DEF HeldFits, LiveFits
  <2>. QED  BY <1>1, <2>1, <2>2, <2>3 DEF Op
<1>12. Underway = Len(out)
  BY DEF Underway
<1>13. ToWrite = SizeOfNodes(Waiting) + Len(out) + (Page - 1) + Coming
  BY <1>12, Zenon DEF ToWrite
<1> HIDE DEF W
<1>14. SizeOfNodes(Waiting) + Len(out) + Coming <= LiveLimit + 1 + MetaRest + Crc
  <2>1. \A a, b, c, d, e \in Nat : c <= d /\ (d + a) + b <= e => (a + c) + b <= e
    OBVIOUS
  <2>2. LiveLimit + 1 + MetaRest + Crc \in Nat
    BY Sizes DEF LiveFits
  <2>3. (NodeLength("add", cur.n) + SizeOfNodes(Waiting)) + Coming <= LiveLimit + 1 + MetaRest + Crc
    BY <1>8, <1>11, Zenon
  <2>. QED  BY <1>1, <1>9, <1>10, <1>11, <2>1, <2>2, <2>3, Zenon
<1>. QED  BY <1>1, <1>9, <1>11, <1>13, <1>14, Sizes DEF LiveFits

(* Lists that hold only entries of others.                                 *)
Within(k, l) ==
  \A s \in Section : \A i \in DOMAIN k[s] : \E j \in DOMAIN l[s] : k[s][i] = l[s][j]

LEMMA DeletedWithin ==
  ASSUME NEW l \in Lists, Distinct(l), NEW n \in Node
  PROVE  Within(ListDel(l, n), l)
<1>1. SUFFICES ASSUME NEW s \in Section, NEW i \in DOMAIN ListDel(l, n)[s]
               PROVE  \E j \in DOMAIN l[s] : ListDel(l, n)[s][i] = l[s][j]
  BY DEF Within
<1>2. l[s] \in Seq(Entry)
  BY DEF Lists
<1>3. CASE ListDel(l, n)[s] = l[s]
  BY <1>1, <1>3
<1>4. CASE \E k \in DOMAIN l[s] : ListDel(l, n)[s] = RemoveAt(l[s], k)
  <2>1. PICK k \in DOMAIN l[s] : ListDel(l, n)[s] = RemoveAt(l[s], k)
    BY <1>4
  <2>2. k \in 1 .. Len(l[s]) /\ Len(l[s]) \in Nat
    BY <1>2, <2>1
  <2>3. \E j \in DOMAIN l[s] : RemoveAt(l[s], k)[i] = l[s][j]
    <3> DEFINE q == l[s]
               r == RemoveAt(q, k)
    <3>1. /\ r \in Seq(Entry) /\ Len(r) = Len(q) - 1
          /\ \A j \in 1 .. Len(q) - 1 : r[j] = IF j < k THEN q[j] ELSE q[j + 1]
      BY <1>2, <2>1, Removed
    <3>2. i \in DOMAIN r
      BY <1>1, <2>1
    <3> HIDE DEF r
    <3>3. i \in 1 .. Len(q) - 1
      BY <3>1, <3>2, LenProperties
    <3>4. \E j \in 1 .. Len(q) : r[i] = q[j]
      <4>1. i \in 1 .. Len(q) /\ i + 1 \in 1 .. Len(q)
        BY <2>2, <3>3
      <4>. QED  BY <3>1, <3>3, <4>1
    <3>. QED  BY <1>2, <3>4, LenProperties DEF r
  <2>. QED  BY <2>1, <2>3
<1>. QED  BY <1>3, <1>4, DeletedFrom

LEMMA WithinEmpty ==
  ASSUME NEW k \in Lists, NEW l \in Lists, Within(k, l), NEW s \in Section, l[s] = <<>>
  PROVE  k[s] = <<>>
<1>1. k[s] \in Seq(Entry) /\ DOMAIN l[s] = {}
  BY DEF Lists
<1>2. DOMAIN k[s] = {}
  BY <1>1 DEF Within
<1>3. DOMAIN k[s] = 1 .. Len(k[s]) /\ Len(k[s]) \in Nat
  BY <1>1, LenProperties
<1>4. Len(k[s]) = 0
  <2>1. \A m \in Nat : 1 .. m = {} => m = 0
    <3>1. \A m \in Nat : m # 0 => 1 \in 1 .. m
      OBVIOUS
    <3>. QED  BY <3>1
  <2>. QED  BY <1>2, <1>3, <2>1
<1>. QED  BY <1>1, <1>4, EmptySeq

LEMMA NodesGrow ==
  ASSUME NEW S \in Nodes, NEW n \in Node
  PROVE  S \cup {n} \in Nodes /\ Without(S, n) \in Nodes
         /\ Without(S, n) \cup {n} \in Nodes
<1>1. \A T \in Nodes : T \cup {n} \in Nodes
  BY FS_AddElement DEF Nodes
<1>2. Without(S, n) \in SUBSET S
  BY DEF Without
<1>. QED  BY <1>1, <1>2, SmallerSize

(* A call that adds or removes a node. *)
LEMMA BeginRoom ==
  ASSUME LiveFits, ContentInv, RoomOk, HeldFits, NEW op \in Op, NEW n \in Node,
         pc \in {"idle", "next"}, BeginUpdate(op, n), ContentInv',
         op = "add" => SizeOfNodes(Without(Live, n) \cup {n}) <= LiveLimit
  PROVE  RoomOk' /\ HeldFits'
<1> DEFINE l == IF op = "add" THEN ListDel(lists, n) ELSE lists
<1>1. /\ lists' = l /\ call' = [op |-> op, n |-> n]
      /\ UNCHANGED <<head, tail, off>>
  BY DEF BeginUpdate
<1>2. /\ lists \in Lists /\ Distinct(lists) /\ Live = Current
      /\ head \in Section /\ tail \in Section /\ gc \in Section \cup {NoSection}
      /\ off \in Nat
  BY DEF ContentInv, ContentTypes, ContentOk, TypesInv, RamTypes
<1>3. /\ pc' = "collect" /\ CollectionDue(l, NodeLength(op, n)) /\ UNCHANGED gc
      \/ /\ pc' = "write" /\ ~CollectionDue(l, NodeLength(op, n))
         /\ gc' = IF gc = NoSection THEN head ELSE gc
         /\ cur'.sec = NoSection /\ Len(out') = NodeLength(op, n)
  <2>1. Len(UnitsOf(op, n)) = NodeLength(op, n)
    BY UnitsTyped
  <2>. QED  BY <2>1 DEF BeginUpdate, StartNode
<1>4. l \in Lists /\ Within(l, lists)
  <2>1. Within(lists, lists)
    BY DEF Within
  <2>. QED  BY <1>2, <2>1, ListsTyped, DeletedWithin
<1>5. NodesIn(l) = IF op = "add" THEN Without(Live, n) ELSE Live
  BY <1>2, Deleting DEF Live
<1>6. HeldFits'
  <2>1. Live \in Nodes /\ SizeOfNodes(Live) <= LiveLimit
    BY <1>2 DEF HeldFits
  <2>2. Without(Live, n) \in SUBSET Live
    BY DEF Without
  <2>3. Held' = NodesIn(l)
    BY <1>1, <1>3 DEF Held, Live
  <2>4. Current' = Changed(Held', op, n) /\ (op = "add" => Without(Held', n) = Held')
    BY <1>1, <1>3 DEF ContentInv, ContentOk
  <2>5. Held' \in SUBSET Live /\ (op = "add" => Held' = Without(Live, n))
    BY <1>5, <2>2, <2>3 DEF Op
  <2>6. CASE op = "add"
    <3>1. Current' = Without(Live, n) \cup {n}
      BY <2>4, <2>5, <2>6 DEF Changed
    <3>2. Held' \in SUBSET Current' /\ Current' \in Nodes
      BY <2>1, <2>5, <2>6, <3>1, NodesGrow
    <3>3. Held' \in Nodes /\ SizeOfNodes(Held') <= SizeOfNodes(Live)
      BY <2>1, <2>5, SmallerSize
    <3>4. SizeOfNodes(Held') \in Nat /\ SizeOfNodes(Live) \in Nat
      BY <2>1, <3>3, SizesUnfold
    <3>5. SizeOfNodes(Held') <= LiveLimit
      BY <2>1, <3>3, <3>4 DEF LiveFits
    <3>. QED  BY <2>6, <3>1, <3>2, <3>3, <3>5 DEF HeldFits
  <2>7. CASE op = "rm"
    <3>1. Current' = Without(Held', n)
      BY <2>4, <2>7 DEF Changed
    <3>2. Current' \in SUBSET Live
      BY <2>5, <3>1 DEF Without
    <3>3. /\ Held' \in Nodes /\ SizeOfNodes(Held') <= SizeOfNodes(Live)
          /\ Current' \in Nodes /\ SizeOfNodes(Current') <= SizeOfNodes(Live)
      BY <2>1, <2>5, <3>2, SmallerSize
    <3>4. /\ SizeOfNodes(Held') \in Nat /\ SizeOfNodes(Live) \in Nat
          /\ SizeOfNodes(Current') \in Nat
      BY <2>1, <3>3, SizesUnfold
    <3>. QED  BY <2>1, <3>3, <3>4 DEF HeldFits, LiveFits
  <2>. QED  BY <2>6, <2>7 DEF Op
<1>7. ASSUME lists = EmptyLists PROVE l = EmptyLists
  <2>1. \A s \in Section : lists[s] = <<>>
    BY <1>7 DEF EmptyLists
  <2>2. \A s \in Section : l[s] = <<>>
    BY <1>2, <1>4, <2>1, WithinEmpty
  <2>3. l = [s \in Section |-> l[s]]
    BY <1>4 DEF Lists
  <2> HIDE DEF l
  <2>. QED  BY <2>2, <2>3 DEF EmptyLists
<1>8. ASSUME gc # NoSection
      PROVE  \A s \in Section : Ahead(head, s) < Ahead(head, gc) => l[s] = <<>>
  BY <1>2, <1>4, <1>8, WithinEmpty DEF RoomOk, Emptied
<1> HIDE DEF l
<1>9. CASE pc' = "collect"
  <2>1. gc \in Section /\ gc # NoSection /\ gc # head
    BY <1>2, <1>3, <1>9 DEF CollectionDue, RoomOk
  <2>2. head = get_prev_section(gc)
    BY <1>3, <1>9, <2>1 DEF CollectionDue, RoomOk
  <2>3. Ahead(head, gc) = 1
    BY <1>2, <2>1, <2>2, AheadOf
  <2>4. gc' = gc
    BY <1>3, <1>9
  <2>5. Emptied'
    BY <1>1, <1>8, <2>4 DEF Emptied
  <2>6. RoomToCollect'
    BY <1>1, <2>3, <2>4 DEF RoomToCollect
  <2>. QED  BY <1>1, <1>6, <1>9, <2>1, <2>4, <2>5, <2>6 DEF RoomOk, Writing
<1>10. CASE pc' = "write"
  <2>1. /\ ~CollectionDue(l, NodeLength(op, n))
        /\ gc' = IF gc = NoSection THEN head ELSE gc
        /\ cur'.sec = NoSection /\ Len(out') = NodeLength(op, n)
    BY <1>3, <1>10
  <2>2. NodeLength(op, n) \in Nat
    BY NodeLengths
  <2>3. Begun'
    BY <2>1 DEF Begun
  <2>4. CASE gc = NoSection
    <3>1. gc' = head /\ off = Size /\ lists' = EmptyLists
      BY <1>1, <1>7, <2>1, <2>4 DEF RoomOk
    <3>2. RoomToWrite'
      BY <1>1, <2>1, <3>1 DEF RoomToWrite
    <3>3. gc' # NoSection
      BY <1>2, <3>1 DEF Section, NoSection
    <3>4. Emptied'
      <4>1. \A s \in Section : lists'[s] = <<>>
        BY <3>1 DEF EmptyLists
      <4>. QED  BY <4>1 DEF Emptied
    <3>. QED  BY <1>1, <1>6, <1>10, <2>3, <3>2, <3>3, <3>4 DEF RoomOk
  <2>5. CASE gc # NoSection
    <3>1. gc' = gc /\ gc \in Section /\ gc # head
      BY <1>2, <2>1, <2>5 DEF RoomOk
    <3>2. Ahead(head, gc) >= 1
      BY <1>2, <3>1, AheadOf, Sizes
    <3>3. Ahead(head, gc) = 1 => off + Len(out') <= Size
      <4>1. SUFFICES ASSUME Ahead(head, gc) = 1 PROVE off + NodeLength(op, n) <= Size
        BY <2>1
      <4>2. head = get_prev_section(gc)
        BY <1>2, <3>1, <4>1, AheadOf
      <4>3. ~(off + NodeLength(op, n) + SizeOfList(l[gc]) > Size)
        BY <2>1, <2>5, <4>2 DEF CollectionDue, RoomOk
      <4>4. SizeOfList(l[gc]) \in Nat
        <5>1. l[gc] \in Seq(Entry)
          BY <1>4, <3>1 DEF Lists
        <5>. QED  BY <5>1, ListSize
      <4>. QED  BY <1>2, <2>2, <4>3, <4>4, Sizes
    <3>4. RoomToWrite'
      BY <1>1, <3>1, <3>2, <3>3 DEF RoomToWrite
    <3>5. Emptied'
      BY <1>1, <1>8, <3>1 DEF Emptied
    <3>. QED  BY <1>1, <1>6, <1>10, <2>3, <2>5, <3>1, <3>4, <3>5 DEF RoomOk
  <2>. QED  BY <2>4, <2>5
<1>. QED  BY <1>3, <1>9, <1>10

(* The head section comes behind the tail, so every section that is not    *)
(* ahead of gc in the ring may take a node.                                *)
LEMMA CountedFromHead ==
  ASSUME TypesInv, RoomOk
  PROVE  /\ Ahead(head, tail) = NSection - 1
         /\ Ahead(head, get_prev_section(tail)) = NSection - 2
         /\ get_prev_section(tail) \in Section /\ head # tail
         /\ head # get_prev_section(tail)
<1>1. head = get_next_section(tail) /\ tail \in Section
  BY DEF RoomOk, TypesInv, RamTypes
<1>. QED  BY <1>1, Sizes DEF Ahead, get_next_section, get_prev_section, Section

LEMMA CopyNodeRoom ==
  ASSUME LiveFits, ContentInv, RoomOk, HeldFits, CopyNode, TypesInv', CopyLength'
  PROVE  RoomOk' /\ HeldFits'
<1> DEFINE e == Head(lists[gc])
           l == [lists EXCEPT ![gc] = Tail(@)]
<1>1. /\ pc = "collect" /\ lists[gc] # <<>> /\ lists' = l
      /\ pc' = "copy" /\ cur'.n = e.n /\ cur'.sec = NoSection
      /\ gc' = IF gc = NoSection THEN head ELSE gc
      /\ UNCHANGED <<off, head, tail, call, versions>>
  BY DEF CopyNode, StartNode
<1>2. /\ gc \in Section /\ lists \in Lists /\ Distinct(lists) /\ gc # NoSection
      /\ head \in Section /\ off \in Nat
  BY <1>1 DEF ContentInv, ContentTypes, TypesInv, RamTypes, CallTypes, Section, NoSection
<1>3. gc' = gc
  BY <1>1, <1>2
<1>4. NodesIn(l) = Without(Live, e.n) /\ Live = NodesIn(l) \cup {e.n} /\ e \in Entry
  <2> HIDE DEF l
  <2>. QED  BY <1>1, <1>2, TakingFirst DEF l, Live
<1>5. Live' = NodesIn(l) /\ Held' = NodesIn(l) \cup {e.n} /\ Held = Live
  BY <1>1 DEF Live, Held
<1>6. HeldFits'
  <2>1. Held' = Held /\ Current' = Current
    BY <1>1, <1>4, <1>5 DEF Current
  <2>. QED  BY <2>1 DEF HeldFits
<1>7. e.n \in Node /\ NodeLength("add", e.n) \in Nat
  BY <1>4, NodeLengths DEF Entry, Op
<1>8. Waiting' = Waiting \ {e.n} /\ e.n \in Waiting
  <2>1. PICK q : q = lists[gc]
    OBVIOUS
  <2>2. q \in Seq(Entry) /\ q # <<>> /\ Len(q) \in Nat /\ Len(q) >= 1
    BY <1>1, <1>2, <2>1 DEF Lists
  <2>3. e = q[1] /\ l[gc] = Tail(q)
    BY <1>2, <2>1, <2>2 DEF Lists
  <2>4. /\ Tail(q) \in Seq(Entry) /\ Len(Tail(q)) = Len(q) - 1
        /\ \A i \in 1 .. Len(q) - 1 : Tail(q)[i] = q[i + 1]
    BY <2>2
  <2>5. DOMAIN q = 1 .. Len(q) /\ DOMAIN Tail(q) = 1 .. Len(q) - 1
    BY <2>2, <2>4
  <2>6. \A i, j \in 1 .. Len(q) : SameNode(q[i].n, q[j].n) => i = j
    BY <1>2, <2>1, <2>5 DEF Distinct
  <2>7. \A i \in 1 .. Len(q) : q[i].n = q[1].n => i = 1
    BY <2>2, <2>6, SameNodeEquivalence
  <2>8. Waiting' = { Tail(q)[i].n : i \in DOMAIN Tail(q) }
    BY <1>1, <1>3, <2>3 DEF Waiting
  <2>9. Waiting = { q[i].n : i \in DOMAIN q }
    BY <2>1 DEF Waiting
  <2> DEFINE W == { q[i].n : i \in 1 .. Len(q) }
             V == { q[i + 1].n : i \in 1 .. Len(q) - 1 }
  <2>10. Waiting' = V
    BY <2>4, <2>5, <2>8
  <2>11. Waiting = W
    BY <2>5, <2>9
  <2>12. V \subseteq W \ {q[1].n}
    <3>1. SUFFICES ASSUME NEW i \in 1 .. Len(q) - 1
                   PROVE  q[i + 1].n \in W /\ q[i + 1].n # q[1].n
      OBVIOUS
    <3>2. i + 1 \in 1 .. Len(q) /\ i + 1 # 1
      BY <2>2
    <3>. QED  BY <2>7, <3>2
  <2>13. W \ {q[1].n} \subseteq V
    <3>1. SUFFICES ASSUME NEW i \in 1 .. Len(q), q[i].n # q[1].n
                   PROVE  q[i].n \in V
      OBVIOUS
    <3>2. i # 1
      BY <3>1
    <3>3. i - 1 \in 1 .. Len(q) - 1 /\ (i - 1) + 1 = i
      BY <2>2, <3>2
    <3>. QED  BY <3>3
  <2>14. q[1].n \in W
    BY <2>2
  <2> HIDE DEF e, V, W
  <2>. QED  BY <2>3, <2>10, <2>11, <2>12, <2>13, <2>14
<1>9. Waiting \in Nodes /\ NoSection \notin Section
  BY <1>2, WaitingInLists DEF Section, NoSection
<1>10. /\ SizeOfNodes(Waiting) = NodeLength("add", e.n) + SizeOfNodes(Waiting')
       /\ SizeOfNodes(Waiting') \in Nat
  <2> HIDE DEF e
  <2>. QED  BY <1>8, <1>9, CountingOne
<1>11. Len(out') \in Nat /\ Len(out') <= NodeLength("add", e.n)
  <2>1. Len(out') <= NodeLength("add", cur.n)'
    BY <1>1 DEF CopyLength
  <2>2. NodeLength("add", cur.n)' = NodeLength("add", e.n)
    BY <1>1 DEF NodeLength, BodyLen, DataLen
  <2>3. Len(out') \in Nat
    BY <1>1 DEF TypesInv, WriteTypes, Writing
  <2>. QED  BY <2>1, <2>2, <2>3
<1> HIDE DEF e
<1>12. Emptied'
  <2>1. \A s \in Section : s # gc => l[s] = lists[s]
    BY <1>2
  <2>2. ASSUME NEW s \in Section, Ahead(head, s) < Ahead(head, gc) PROVE l[s] = <<>>
    <3>1. s # gc
      BY <1>2, <2>2, AheadOf
    <3>. QED  BY <1>2, <2>1, <2>2, <3>1 DEF RoomOk, Emptied
  <2> HIDE DEF l
  <2>. QED  BY <1>1, <1>3, <2>2 DEF Emptied
<1>13. RoomToCollect'
  <2>1. CASE Ahead(head, gc) = 1
    BY <1>1, <1>3, <2>1 DEF RoomToCollect
  <2>2. CASE gc = head /\ off + ToWrite <= Size
    <3>1. Coming' = Coming
      BY <1>1 DEF Coming, NodeLength, BodyLen, DataLen
    <3>2. SizeOfNodes(Waiting)' = SizeOfNodes(Waiting')
      OBVIOUS
    <3>3. Underway = 0 /\ Underway' = Len(out')
      BY <1>1 DEF Underway
    <3>4. ToWrite' = SizeOfNodes(Waiting)' + Underway' + (Page - 1) + Coming'
      BY DEF ToWrite
    <3>5. ToWrite = SizeOfNodes(Waiting) + Underway + (Page - 1) + Coming
      BY DEF ToWrite
    <3>6. call.op \in Op \cup {"sync"} /\ (call.op # "sync" => call.n \in Node)
      BY <1>1 DEF ContentInv, TypesInv, CallTypes
    <3>7. Coming \in Nat
      BY <3>6, NodeLengths DEF Coming, Op
    <3>8. ToWrite' = SizeOfNodes(Waiting') + Len(out') + (Page - 1) + Coming
      BY <3>1, <3>2, <3>3, <3>4
    <3>9. ToWrite = SizeOfNodes(Waiting) + 0 + (Page - 1) + Coming
      BY <3>3, <3>5, Zenon
    <3>10. ToWrite' <= ToWrite /\ ToWrite' \in Nat /\ ToWrite \in Nat
      BY <1>7, <1>10, <1>11, <3>7, <3>8, <3>9, Sizes
    <3>11. off + ToWrite' <= Size
      <4>1. off \in Nat /\ off + ToWrite <= Size /\ Size \in Nat
        BY <1>2, <2>2, Sizes
      <4>2. \A a, b \in Nat : a <= b /\ off + b <= Size => off + a <= Size
        BY <4>1
      <4>. QED  BY <3>10, <4>1, <4>2, Zenon
    <3>. QED  BY <1>1, <1>3, <2>2, <3>11 DEF RoomToCollect
  <2>3. RoomToCollect
    BY <1>1 DEF RoomOk
  <2>. QED  BY <2>1, <2>2, <2>3 DEF RoomToCollect
<1>14. Begun'
  BY <1>1 DEF Begun
<1>15. head' = get_next_section(tail')
  BY <1>1 DEF RoomOk
<1>. QED  BY <1>1, <1>2, <1>3, <1>6, <1>12, <1>13, <1>14, <1>15 DEF RoomOk

LEMMA FlushedNear ==
  ASSUME TypesInv, off % Page # 0, pc # "failed", FlushPage
  PROVE  off' \in Nat /\ off' <= off + Page - 1 /\ off' <= Size
<1>1. off \in Nat /\ off' = PageStart(off) + Page /\ off' \in Nat /\ off' <= Size
  BY FlushTyped DEF TypesInv, RamTypes, FlushPage, NextPage
<1>2. off % Page \in 0 .. Page - 1 /\ PageStart(off) = off - (off % Page)
  BY <1>1, PageArithmetic
<1>. QED  BY <1>1, <1>2, Sizes

LEMMA NothingWaits == SizeOfNodes({}) = 0
BY SizesUnfold

LEMMA ComingTyped ==
  ASSUME TypesInv, pc \in {"collect", "copy"}
  PROVE  Coming \in Nat
<1>1. call.op \in Op \cup {"sync"} /\ (call.op # "sync" => call.n \in Node)
  BY DEF TypesInv, CallTypes
<1>. QED  BY <1>1, NodeLengths DEF Coming, Op

LEMMA CollectionDoneRoom ==
  ASSUME LiveFits, ContentInv, RoomOk, HeldFits, CollectionDone
  PROVE  RoomOk' /\ HeldFits'
<1>1. /\ pc = "collect" /\ lists[gc] = <<>> /\ gc' = get_next_section(gc)
      /\ UNCHANGED <<head, tail, lists>>
      /\ \/ pc' = "idle" /\ call.op = "sync" /\ versions' = <<Current>>
         \/ /\ pc' = "write" /\ call.op # "sync" /\ cur'.sec = NoSection
            /\ out' = UnitsOf(call.op, call.n) /\ versions' = versions
  BY DEF CollectionDone
<1>2. /\ gc \in Section /\ head \in Section /\ off \in Nat
      /\ call.op \in Op \cup {"sync"} /\ (call.op # "sync" => call.n \in Node)
  BY <1>1 DEF ContentInv, TypesInv, RamTypes, CallTypes
<1>3. off' \in Nat /\ off' <= off + Page - 1
  <2>1. CASE off % Page # 0
    <3>1. FlushPage
      BY <2>1 DEF CollectionDone
    <3>. QED  BY <1>1, <2>1, <3>1, FlushedNear DEF ContentInv
  <2>2. CASE off % Page = 0
    <3>1. off' = off
      BY <2>2 DEF CollectionDone
    <3>. QED  BY <1>2, <3>1, Sizes
  <2>. QED  BY <2>1, <2>2
<1>4. gc' \in Section /\ NoSection \notin Section
  BY <1>1, <1>2, NextSections DEF Section, NoSection
<1>5. /\ Ahead(head, gc) \in {0, 1} /\ (Ahead(head, gc) = 0 => off + ToWrite <= Size)
  <2>1. RoomToCollect
    BY <1>1 DEF RoomOk
  <2>2. gc = head => Ahead(head, gc) = 0
    BY <1>2, AheadOf
  <2>. QED  BY <2>1, <2>2 DEF RoomToCollect
<1>6. Ahead(head, gc') = Ahead(head, gc) + 1
  BY <1>1, <1>2, <1>5, AheadOf, Sizes
<1>7. ToWrite = 0 + 0 + (Page - 1) + Coming /\ Coming \in Nat
  <2>1. Waiting = {}
    BY <1>1 DEF Waiting
  <2>2. SizeOfNodes(Waiting) = 0
    BY <2>1, NothingWaits
  <2>3. Underway = 0
    BY <1>1 DEF Underway
  <2>4. Coming \in Nat
    BY <1>1, ComingTyped DEF ContentInv
  <2>. QED  BY <2>2, <2>3, <2>4 DEF ToWrite
<1>8. Emptied'
  <2>1. ASSUME NEW s \in Section, Ahead(head, s) < Ahead(head, gc) + 1 PROVE lists[s] = <<>>
    <3>1. Ahead(head, s) \in Nat
      BY <1>2, AheadOf, Sizes
    <3>2. Ahead(head, s) < Ahead(head, gc) \/ Ahead(head, s) = Ahead(head, gc)
      BY <1>5, <2>1, <3>1
    <3>3. CASE Ahead(head, s) < Ahead(head, gc)
      BY <1>2, <1>4, <3>3 DEF RoomOk, Emptied
    <3>4. CASE Ahead(head, s) = Ahead(head, gc)
      <4>1. s = gc
        BY <1>2, <3>4, AheadApart
      <4>. QED  BY <1>1, <4>1
    <3>. QED  BY <3>2, <3>3, <3>4
  <2>. QED  BY <1>1, <1>6, <2>1 DEF Emptied
<1>9. gc' # head
  BY <1>2, <1>4, <1>5, <1>6, AheadOf
<1>10. HeldFits'
  <2>1. Live' = Live /\ Held = Live /\ Held' = Live'
    BY <1>1 DEF Live, Held
  <2>2. Current' = Current
    BY <1>1 DEF Current
  <2>. QED  BY <2>1, <2>2 DEF HeldFits
<1>11. head' = get_next_section(tail')
  BY <1>1 DEF RoomOk
<1>12. CASE pc' = "idle"
  BY <1>1, <1>4, <1>8, <1>9, <1>10, <1>11, <1>12 DEF RoomOk, Writing
<1>13. CASE pc' = "write"
  <2>1. call.op \in Op /\ call.n \in Node /\ cur'.sec = NoSection /\ out' = UnitsOf(call.op, call.n)
    BY <1>1, <1>2, <1>13
  <2>2. Len(out') = Coming
    BY <2>1, UnitsTyped DEF Coming
  <2>3. ASSUME Ahead(head, gc') = 1 PROVE off' + Len(out') <= Size
    <3>1. off + ToWrite <= Size
      BY <1>5, <1>6, <2>3
    <3>2. off \in Nat /\ off' \in Nat /\ Coming \in Nat /\ Page \in Nat /\ Size \in Nat
      BY <1>2, <1>3, <1>7, Sizes
    <3>3. ToWrite = Page - 1 + Coming
      BY <1>7, <3>2
    <3>4. off + (Page - 1 + Coming) <= Size
      BY <3>1, <3>3, Zenon
    <3>5. off' + Coming <= Size
      <4>1. \A a, b, c, p, z \in Nat :
              a <= b + p - 1 /\ b + (p - 1 + c) <= z => a + c <= z
        OBVIOUS
      <4>. QED  BY <1>3, <3>2, <3>4, <4>1
    <3>. QED  BY <2>2, <3>5, Zenon
  <2>4. RoomToWrite'
    <3>1. Ahead(head, gc') >= 1
      BY <1>5, <1>6
    <3>2. head' = head
      BY <1>1
    <3>. QED  BY <2>3, <3>1, <3>2 DEF RoomToWrite
  <2>5. Begun'
    BY <2>1 DEF Begun
  <2>. QED  BY <1>1, <1>4, <1>8, <1>10, <1>11, <1>13, <2>4, <2>5 DEF RoomOk
<1>. QED  BY <1>1, <1>12, <1>13

LEMMA NextSectionRoom ==
  ASSUME LiveFits, ContentInv, CopyLength, RoomOk, HeldFits, NextSection
  PROVE  RoomOk' /\ HeldFits' /\ UNCHANGED pc
<1>1. /\ pc \in {"write", "copy"} /\ off = Size /\ head = get_next_section(tail)
      /\ UNCHANGED <<gc, lists, call, cur, versions>>
      /\ out' = << Fetched(Head(out)) >> \o Tail(out)
      /\ lists[head] = <<>> =>
           /\ tail' = head /\ head' = get_next_section(head) /\ off' = 1 /\ pc' = pc
  BY DEF NextSection, Writing, RoomOk
<1>2. /\ gc \in Section /\ gc # NoSection /\ head \in Section /\ tail \in Section
      /\ off \in Nat /\ cur \in Write
      /\ out \in Seq(Unit \cup Copied) /\ Len(out) \in 1 .. Size - 1
      /\ cur.sec # NoSection => Len(out) <= Size - 2
  BY <1>1 DEF ContentInv, TypesInv, RamTypes, WriteTypes, Writing, RoomOk
<1>3. Len(out') = Len(out)
  <2>1. Tail(out) \in Seq(Unit \cup Copied) /\ Len(Tail(out)) = Len(out) - 1
    BY <1>2
  <2>2. << Fetched(Head(out)) >> \in Seq({Fetched(Head(out))} \cup Unit \cup Copied)
        /\ Tail(out) \in Seq({Fetched(Head(out))} \cup Unit \cup Copied)
        /\ Len(<< Fetched(Head(out)) >>) = 1
    BY <2>1
  <2>3. Len(out') = 1 + (Len(out) - 1)
    BY <1>1, <2>1, <2>2, ConcatProperties
  <2>. QED  BY <1>2, <2>3
<1>4. /\ Ahead(head, head) = 0 /\ Ahead(head, gc) \in Nat
      /\ Ahead(head, gc) = 0 => gc = head
  BY <1>2, AheadOf, Sizes
<1>5. lists[head] = <<>>
  <2>1. CASE Ahead(head, gc) >= 1
    BY <1>2, <1>4, <2>1 DEF RoomOk, Emptied
  <2>2. CASE lists = EmptyLists
    BY <1>2, <2>2 DEF EmptyLists
  <2>3. CASE gc = head /\ off + ToWrite <= Size /\ pc = "copy"
    <3>1. Underway = Len(out)
      BY <2>3 DEF Underway
    <3>2. SizeOfNodes(Waiting) \in Nat /\ Coming \in Nat
      <4>1. Waiting \in Nodes
        BY <1>2, WaitingInLists DEF ContentInv, TypesInv, RamTypes
      <4>. QED  BY <2>3, <4>1, SizesUnfold, ComingTyped DEF ContentInv
    <3>3. ToWrite = SizeOfNodes(Waiting) + Len(out) + (Page - 1) + Coming
      BY <3>1, Zenon DEF ToWrite
    <3>. QED  BY <1>1, <1>2, <2>3, <3>2, <3>3, Sizes
  <2>4. pc = "write" => RoomToWrite
    BY DEF RoomOk
  <2>5. pc = "copy" => RoomToCollect
    BY DEF RoomOk
  <2>. QED  BY <1>1, <2>1, <2>2, <2>3, <2>4, <2>5 DEF RoomToWrite, RoomToCollect
<1>6. tail' = head /\ head' = get_next_section(head) /\ off' = 1 /\ pc' = pc
  BY <1>1, <1>5
<1>7. HeldFits'
  <2>1. Live' = Live
    BY <1>1 DEF Live
  <2>2. Held' = Held /\ Current' = Current
    BY <1>1, <1>6, <2>1 DEF Held, Current
  <2>. QED  BY <2>2 DEF HeldFits
<1>8. /\ head' = get_next_section(tail')
      /\ get_prev_section(tail') = tail
  <2>1. get_prev_section(get_next_section(tail)) = tail
    BY <1>2, Sizes DEF get_next_section, get_prev_section, Section
  <2>. QED  BY <1>1, <1>6, <2>1
<1>9. \A s \in Section : Ahead(head', s) = IF s = head THEN NSection - 1 ELSE Ahead(head, s) - 1
  BY <1>2, <1>6, AheadOf
<1>10. off' + Len(out') <= Size
  BY <1>2, <1>3, <1>6, Sizes
<1>11. CASE pc = "write"
  <2>1. RoomToWrite /\ Begun
    BY <1>11 DEF RoomOk, Writing
  <2>2. CASE Ahead(head, gc) >= 1
    <3>1. Ahead(head, gc) >= 2
      BY <1>1, <1>2, <1>4, <2>1, <2>2, Sizes DEF RoomToWrite
    <3>2. gc # head
      BY <1>4, <3>1
    <3>3. Ahead(head', gc) = Ahead(head, gc) - 1
      BY <1>2, <1>9, <3>2
    <3>4. RoomToWrite'
      BY <1>1, <1>4, <1>10, <3>1, <3>3 DEF RoomToWrite
    <3>5. Emptied'
      <4>1. ASSUME NEW s \in Section, Ahead(head', s) < Ahead(head', gc) PROVE lists[s] = <<>>
        <5>1. Ahead(head, gc) <= NSection - 1 /\ Ahead(head, s) \in Nat
          BY <1>2, AheadOf
        <5>2. s # head
          <6>1. Ahead(head', head) = NSection - 1
            BY <1>2, <1>9
          <6>2. ~(Ahead(head', head) < Ahead(head', gc))
            BY <1>4, <3>3, <5>1, <6>1, Sizes
          <6>. QED  BY <4>1, <6>2
        <5>3. Ahead(head, s) < Ahead(head, gc)
          BY <1>4, <1>9, <3>3, <4>1, <5>1, <5>2
        <5>. QED  BY <1>2, <5>3 DEF RoomOk, Emptied
      <4>. QED  BY <1>1, <4>1 DEF Emptied
    <3>6. Begun'
      <4>1. SUFFICES ASSUME cur.sec # NoSection
                     PROVE  cur.sec = tail /\ gc # head
        BY <1>1, <1>6, <1>8, <1>10, <1>11 DEF Begun
      <4>2. ~(off + Len(out) <= Size)
        BY <1>1, <1>2
      <4>. QED  BY <2>1, <3>2, <4>1, <4>2 DEF Begun
    <3>. QED  BY <1>1, <1>2, <1>6, <1>7, <1>8, <1>11, <3>4, <3>5, <3>6 DEF RoomOk
  <2>3. CASE gc = head /\ lists = EmptyLists /\ cur.sec = NoSection
    <3>1. Ahead(head', gc) = NSection - 1
      BY <1>2, <1>9, <2>3
    <3>2. RoomToWrite'
      BY <1>1, <3>1, Sizes DEF RoomToWrite
    <3>3. Emptied'
      <4>1. \A s \in Section : lists'[s] = <<>>
        BY <1>1, <2>3 DEF EmptyLists
      <4>. QED  BY <4>1 DEF Emptied
    <3>4. Begun'
      BY <1>1, <2>3 DEF Begun
    <3>. QED  BY <1>1, <1>2, <1>6, <1>7, <1>8, <1>11, <3>2, <3>3, <3>4 DEF RoomOk
  <2>. QED  BY <2>1, <2>2, <2>3 DEF RoomToWrite
<1>12. CASE pc = "copy"
  <2>1. RoomToCollect /\ Begun
    BY <1>12 DEF RoomOk, Writing
  <2>2. SizeOfNodes(Waiting) \in Nat /\ Coming \in Nat
    <3>1. Waiting \in Nodes
      BY <1>2, WaitingInLists DEF ContentInv, TypesInv, RamTypes
    <3>. QED  BY <1>12, <3>1, SizesUnfold, ComingTyped DEF ContentInv
  <2>3. Underway = Len(out) /\ Underway' = Len(out)
    BY <1>3, <1>6, <1>12 DEF Underway
  <2>4. ToWrite = SizeOfNodes(Waiting) + Len(out) + (Page - 1) + Coming
    BY <2>3, Zenon DEF ToWrite
  <2>5. Ahead(head, gc) = 1
    <3>1. ~(off + ToWrite <= Size)
      BY <1>1, <1>2, <2>2, <2>4, Sizes
    <3>. QED  BY <2>1, <3>1 DEF RoomToCollect
  <2>6. gc # head /\ gc = head'
    <3>1. head = get_prev_section(gc)
      BY <1>2, <2>5, AheadOf
    <3>. QED  BY <1>2, <1>4, <1>6, <2>5, <3>1, Sizes DEF get_prev_section, get_next_section, Section
  <2>7. ToWrite' = ToWrite
    <3>1. Waiting' = Waiting /\ Coming' = Coming
      BY <1>1 DEF Waiting, Coming, NodeLength, BodyLen, DataLen
    <3>2. SizeOfNodes(Waiting)' = SizeOfNodes(Waiting)
      BY <3>1
    <3>. QED  BY <2>3, <3>1, <3>2 DEF ToWrite
  <2>8. RoomToCollect'
    <3>1. ToWrite + 1 <= Size /\ ToWrite \in Nat
      BY <1>12, EverythingFits DEF ContentInv
    <3>2. off' + ToWrite' <= Size
      BY <1>6, <2>7, <3>1, Sizes
    <3>. QED  BY <1>1, <2>6, <3>2 DEF RoomToCollect
  <2>9. Emptied'
    <3>1. \A s \in Section : ~(Ahead(head', s) < Ahead(head', gc))
      <4>1. Ahead(head', gc) = 0
        BY <1>2, <1>9, <2>5, <2>6
      <4>2. \A s \in Section : Ahead(head', s) \in Nat
        BY <1>2, <2>6, AheadOf
      <4>. QED  BY <4>1, <4>2
    <3>. QED  BY <1>1, <3>1 DEF Emptied
  <2>10. Begun'
    <3>1. SUFFICES ASSUME cur.sec # NoSection
                   PROVE  cur.sec = tail
      BY <1>1, <1>6, <1>8, <1>10, <1>12, <2>6 DEF Begun
    <3>2. ~(off + Len(out) <= Size)
      BY <1>1, <1>2
    <3>. QED  BY <2>1, <3>1, <3>2 DEF Begun
  <2>. QED  BY <1>1, <1>2, <1>6, <1>7, <1>8, <1>12, <2>8, <2>9, <2>10 DEF RoomOk, Writing
<1>. QED  BY <1>1, <1>11, <1>12

(* Where the node being written starts. *)
Place == IF cur.sec = NoSection THEN [cur EXCEPT !.sec = tail, !.off = off] ELSE cur

Programmed ==
  /\ UNCHANGED <<head, tail, gc, versions>>
  /\ Writing /\ off < Size
  /\ off' = off + Portion /\ off' \in Nat /\ off' <= Size
  /\ Len(out') = Len(out) - Portion
  /\ cur \in Write /\ Place \in Write /\ Place.n = cur.n /\ Place.op = cur.op
  /\ Place.sec \in Section /\ Place.off \in 1 .. Size - 1
  /\ \/ /\ Portion < Len(out) /\ cur' = Place /\ UNCHANGED <<lists, pc, call>>
     \/ /\ Portion = Len(out) /\ cur' = NoWrite /\ pc = "copy" /\ pc' = "collect"
        /\ lists' = ListPush(lists, Place.sec, cur.n, Place.off) /\ call' = call
     \/ /\ Portion = Len(out) /\ cur' = NoWrite /\ pc = "write"
        /\ pc' = IF todo = {} THEN "idle" ELSE "next"
        /\ lists' = IF cur.op = "add" THEN ListPush(lists, Place.sec, cur.n, Place.off)
                    ELSE ListDel(lists, cur.n)

LEMMA ProgramDoes ==
  ASSUME TypesInv, Program
  PROVE  /\ Programmed
         /\ out' = SubSeq(out, Portion + 1, Len(out))
         /\ \A i \in 1 .. Len(out) - Portion : out'[i] = out[Portion + i]
<1> DEFINE rest == SubSeq(out, Portion + 1, Len(out))
<1>1. /\ pc \in {"write", "copy"} /\ UNCHANGED <<head, tail, gc, versions>> /\ off < Size
      /\ off' = off + Portion /\ out' = rest /\ Writing
      /\ IF rest = <<>> THEN NodeWritten(Place)
         ELSE cur' = Place /\ UNCHANGED <<lists, pc, call>>
  BY DEF Program, Writing, Place
<1>2. /\ cur \in Write /\ tail \in Section /\ off \in Nat /\ off >= 1
      /\ out \in Seq(Unit \cup Copied) /\ Len(out) \in Nat
      /\ cur.sec # NoSection => cur.off >= 1
      /\ Size \in Nat
  BY <1>1, Sizes DEF TypesInv, RamTypes, WriteTypes
<1>3. Portion \in 1 .. Len(out) /\ off + Portion \in Nat /\ off + Portion <= Size
  <2>1. MovedInto
    BY <1>1, ProgramMoves
  <2>. QED  BY <1>2, <2>1 DEF MovedInto
<1>4. /\ Place \in Write /\ Place.n = cur.n /\ Place.op = cur.op
      /\ Place.sec \in Section /\ Place.off \in 1 .. Size - 1
  <2>1. off \in 1 .. Size - 1 /\ off \in 0 .. Size - 1
    BY <1>1, <1>2
  <2>2. CASE cur.sec = NoSection
    BY <1>2, <2>1, <2>2 DEF Write, Place
  <2>3. CASE cur.sec # NoSection
    BY <1>2, <2>3 DEF Write, Place
  <2>. QED  BY <2>2, <2>3
<1>5. /\ Len(rest) = Len(out) - Portion
      /\ \A i \in 1 .. Len(out) - Portion : rest[i] = out[Portion + i]
      /\ rest = <<>> <=> Portion = Len(out)
  <2>1. PICK p \in 1 .. Len(out) : p = Portion
    BY <1>3
  <2>2. PICK q : q = SubSeq(out, p + 1, Len(out))
    OBVIOUS
  <2>3. q \in Seq(Unit \cup Copied) /\ Len(q) = Len(out) - p
        /\ \A i \in 1 .. Len(out) - p : q[i] = out[p + i]
    BY <1>2, <2>1, <2>2
  <2>4. q = <<>> <=> p = Len(out)
    BY <1>2, <2>3
  <2> HIDE DEF rest
  <2>. QED  BY <2>1, <2>2, <2>3, <2>4 DEF rest
<1> HIDE DEF rest
<1>6. CASE rest # <<>>
  <2>1. Portion < Len(out)
    BY <1>2, <1>3, <1>5, <1>6
  <2>. QED  BY <1>1, <1>2, <1>3, <1>4, <1>5, <1>6, <2>1 DEF Programmed, rest
<1>7. CASE rest = <<>>
  <2>1. NodeWritten(Place) /\ Portion = Len(out)
    BY <1>1, <1>5, <1>7
  <2>. QED  BY <1>1, <1>2, <1>3, <1>4, <1>5, <1>7, <2>1 DEF Programmed, NodeWritten, rest
<1>. QED  BY <1>6, <1>7

LEMMA ProgramRoom ==
  ASSUME LiveFits, ContentInv, RoomOk, HeldFits, Program, ContentInv'
  PROVE  RoomOk' /\ HeldFits'
<1>1. Programmed
  BY ProgramDoes DEF ContentInv
<1>2. /\ UNCHANGED <<head, tail, gc, versions>> /\ pc \in {"write", "copy"} /\ off < Size
      /\ off' = off + Portion
  BY <1>1 DEF Programmed, Writing
<1>3. /\ head \in Section /\ tail \in Section /\ lists \in Lists /\ Distinct(lists)
      /\ gc \in Section /\ gc # NoSection /\ head = get_next_section(tail)
      /\ off \in Nat /\ Len(out) \in Nat /\ cur.n \in Node /\ NoSection \notin Section
      /\ Portion \in Nat
  <2>1. cur \in Write
    BY <1>1 DEF Programmed
  <2>2. MovedInto
    BY <1>1, ProgramMoves DEF Programmed, ContentInv
  <2>3. /\ head \in Section /\ tail \in Section /\ lists \in Lists /\ Distinct(lists)
        /\ gc \in Section \cup {NoSection} /\ off \in Nat
    BY DEF ContentInv, ContentTypes, TypesInv, RamTypes
  <2>4. Len(out) \in Nat
    BY <1>2, <2>2 DEF ContentInv, TypesInv, WriteTypes, Writing
  <2>5. NoSection \notin Section
    BY DEF Section, NoSection
  <2>6. gc # NoSection /\ head = get_next_section(tail)
    BY <1>2 DEF RoomOk
  <2>7. cur.n \in Node /\ Portion \in Nat
    BY <2>1, <2>2 DEF Write, MovedInto
  <2>. QED  BY <2>3, <2>4, <2>5, <2>6, <2>7
<1>4. /\ Ahead(head, tail) = NSection - 1
      /\ Ahead(head, get_prev_section(tail)) = NSection - 2
      /\ head # tail /\ head # get_prev_section(tail)
  BY CountedFromHead DEF ContentInv
<1>5. Ahead(head, Place.sec) >= Ahead(head, gc)
  <2>1. Ahead(head, gc) \in Nat /\ Ahead(head, gc) <= NSection - 1
    BY <1>3, AheadOf
  <2>2. CASE cur.sec \in {NoSection, tail}
    <3>1. Place.sec = tail
      BY <1>1, <2>2 DEF Place, Programmed, Write
    <3>. QED  BY <1>4, <2>1, <3>1
  <2>3. CASE cur.sec \notin {NoSection, tail}
    <3>1. Place.sec = get_prev_section(tail) /\ gc # tail
      BY <1>2, <2>3 DEF Place, RoomOk, Begun, Writing
    <3>2. Ahead(head, gc) # NSection - 1
      BY <1>3, <1>4, <3>1, AheadApart
    <3>. QED  BY <1>4, <2>1, <3>1, <3>2, Sizes
  <2>. QED  BY <2>2, <2>3
<1>6. HeldFits'
  <2>1. Current' = Current
    BY <1>2 DEF Current
  <2>2. CASE pc' \in {"idle", "next"}
    <3>1. Held' = Current'
      BY <2>2 DEF ContentInv, ContentOk, Held
    <3>. QED  BY <2>1, <3>1 DEF HeldFits
  <2>3. CASE cur' = Place /\ UNCHANGED <<lists, pc>>
    <3>1. Live' = Live
      BY <2>3 DEF Live
    <3>2. Held' = Held
      BY <1>1, <2>3, <3>1 DEF Held, Programmed
    <3>. QED  BY <2>1, <3>2 DEF HeldFits
  <2>4. CASE /\ pc = "copy" /\ pc' = "collect"
             /\ lists' = ListPush(lists, Place.sec, cur.n, Place.off)
    <3>1. \A m \in NodesIn(lists) : ~SameNode(m, cur.n)
      BY <2>4 DEF ContentInv, ContentOk, Without, Live
    <3>2. NodesIn(lists') = NodesIn(lists) \cup {cur.n}
      BY <1>1, <1>3, <2>4, <3>1, Pushing DEF Programmed
    <3>3. Held' = Held
      BY <2>4, <3>2 DEF Held, Live
    <3>. QED  BY <2>1, <3>3 DEF HeldFits
  <2>. QED  BY <1>1, <2>2, <2>3, <2>4 DEF Programmed
<1>7. ASSUME lists' = ListPush(lists, Place.sec, cur.n, Place.off)
      PROVE  Emptied'
  <2>1. ASSUME NEW s \in Section, Ahead(head, s) < Ahead(head, gc) PROVE lists'[s] = <<>>
    <3>1. Ahead(head, s) \in Nat /\ Ahead(head, gc) \in Nat /\ Ahead(head, Place.sec) \in Nat
      <4>1. \A t \in Section : Ahead(head, t) \in Nat
        BY <1>3, AheadOf, Sizes
      <4>2. Place.sec \in Section
        BY <1>1 DEF Programmed
      <4>. QED  BY <1>3, <4>1, <4>2
    <3>2. s # Place.sec
      BY <1>5, <2>1, <3>1
    <3>3. lists'[s] = lists[s]
      BY <1>3, <1>7, <3>2 DEF ListPush, Lists
    <3>. QED  BY <1>3, <2>1, <3>3 DEF RoomOk, Emptied
  <2>. QED  BY <1>2, <2>1 DEF Emptied
<1>8. head' = get_next_section(tail')
  BY <1>2, <1>3
<1>9. CASE Portion < Len(out) /\ cur' = Place /\ UNCHANGED <<lists, pc, call>>
  <2>1. off' + Len(out') = off + Len(out)
    BY <1>1, <1>3 DEF Programmed
  <2>2. Emptied'
    BY <1>2, <1>9 DEF RoomOk, Emptied
  <2>3. pc = "write" => RoomToWrite'
    <3>1. SUFFICES ASSUME pc = "write" PROVE RoomToWrite'
      OBVIOUS
    <3>2. RoomToWrite /\ off # Size
      BY <1>2, <1>3, <3>1 DEF RoomOk
    <3>. QED  BY <1>2, <2>1, <3>2 DEF RoomToWrite
  <2>4. pc = "copy" => RoomToCollect'
    <3>1. SUFFICES ASSUME pc = "copy" PROVE RoomToCollect'
      OBVIOUS
    <3>2. RoomToCollect
      BY <3>1 DEF RoomOk
    <3>3. SizeOfNodes(Waiting) \in Nat /\ Coming \in Nat
      <4>1. Waiting \in Nodes
        BY <1>3, WaitingInLists
      <4>. QED  BY <3>1, <4>1, SizesUnfold, ComingTyped DEF ContentInv
    <3>4. Waiting' = Waiting /\ Coming' = Coming
      BY <1>2, <1>9 DEF Waiting, Coming, NodeLength, BodyLen, DataLen
    <3>5. SizeOfNodes(Waiting)' = SizeOfNodes(Waiting)
      BY <3>4
    <3>6. Underway = Len(out) /\ Underway' = Len(out) - Portion
      BY <1>1, <1>9, <3>1 DEF Underway, Programmed
    <3>7. /\ ToWrite = SizeOfNodes(Waiting) + Len(out) + (Page - 1) + Coming
          /\ ToWrite' = SizeOfNodes(Waiting) + (Len(out) - Portion) + (Page - 1) + Coming
      BY <3>4, <3>5, <3>6, Zenon DEF ToWrite
    <3>8. off' + ToWrite' = off + ToWrite
      BY <1>2, <1>3, <3>3, <3>7, Sizes
    <3>. QED  BY <1>2, <3>2, <3>8 DEF RoomToCollect
  <2>5. Begun'
    <3>1. Begun
      BY <1>2 DEF RoomOk, Writing
    <3>2. CASE cur.sec = NoSection
      <4>1. cur'.sec = tail
        BY <1>1, <1>9, <3>2 DEF Place, Programmed, Write
      <4>. QED  BY <1>2, <4>1 DEF Begun
    <3>3. CASE cur.sec # NoSection
      <4>1. cur' = cur
        BY <1>9, <3>3 DEF Place
      <4>. QED  BY <1>2, <1>9, <2>1, <3>1, <4>1 DEF Begun
    <3>. QED  BY <3>2, <3>3
  <2>. QED  BY <1>2, <1>3, <1>6, <1>8, <1>9, <2>2, <2>3, <2>4, <2>5 DEF RoomOk
<1>10. CASE /\ Portion = Len(out) /\ cur' = NoWrite /\ pc = "copy" /\ pc' = "collect"
            /\ lists' = ListPush(lists, Place.sec, cur.n, Place.off) /\ call' = call
  <2>1. Emptied'
    BY <1>7, <1>10
  <2>2. RoomToCollect'
    <3>1. RoomToCollect
      BY <1>10 DEF RoomOk
    <3>2. CASE Ahead(head, gc) = 1
      BY <1>2, <3>2 DEF RoomToCollect
    <3>3. CASE gc = head /\ off + ToWrite <= Size
      <4>1. Place.sec # gc
        <5>1. Place.sec \in {tail, get_prev_section(tail)}
          BY <1>1, <1>2 DEF Place, RoomOk, Begun, Writing, Programmed, Write
        <5>. QED  BY <1>4, <3>3, <5>1
      <4>2. lists'[gc] = lists[gc]
        BY <1>3, <1>10, <4>1 DEF ListPush, Lists
      <4>3. Waiting' = Waiting /\ Coming' = Coming
        BY <1>2, <1>10, <4>2 DEF Waiting, Coming, NodeLength, BodyLen, DataLen
      <4>4. SizeOfNodes(Waiting)' = SizeOfNodes(Waiting)
        BY <4>3
      <4>5. SizeOfNodes(Waiting) \in Nat /\ Coming \in Nat
        <5>1. Waiting \in Nodes
          BY <1>3, WaitingInLists
        <5>. QED  BY <1>10, <5>1, SizesUnfold, ComingTyped DEF ContentInv
      <4>6. Underway = Len(out) /\ Underway' = 0
        BY <1>10 DEF Underway
      <4>7. /\ ToWrite = SizeOfNodes(Waiting) + Len(out) + (Page - 1) + Coming
            /\ ToWrite' = SizeOfNodes(Waiting) + 0 + (Page - 1) + Coming
        BY <4>3, <4>4, <4>6, Zenon DEF ToWrite
      <4>8. off' + ToWrite' = off + ToWrite
        <5>1. \A a, b, c, w, p \in Nat :
                (a + b) + (w + 0 + (p - 1) + c) = a + (w + b + (p - 1) + c)
          OBVIOUS
        <5>2. off' = off + Len(out) /\ Page \in Nat
          BY <1>2, <1>10, Sizes
        <5>. QED  BY <1>3, <4>5, <4>7, <5>1, <5>2
      <4>. QED  BY <1>2, <3>3, <4>8 DEF RoomToCollect
    <3>. QED  BY <3>1, <3>2, <3>3 DEF RoomToCollect
  <2>. QED  BY <1>2, <1>3, <1>6, <1>8, <1>10, <2>1, <2>2 DEF RoomOk, Writing
<1>11. CASE /\ Portion = Len(out) /\ cur' = NoWrite /\ pc = "write"
            /\ pc' = IF todo = {} THEN "idle" ELSE "next"
            /\ lists' = IF cur.op = "add" THEN ListPush(lists, Place.sec, cur.n, Place.off)
                        ELSE ListDel(lists, cur.n)
  <2>1. Emptied'
    <3>1. CASE cur.op = "add"
      BY <1>7, <1>11, <3>1
    <3>2. CASE cur.op # "add"
      <4>1. lists' = ListDel(lists, cur.n)
        BY <1>11, <3>2
      <4>2. lists' \in Lists /\ Within(lists', lists)
        BY <1>3, <4>1, ListsTyped, DeletedWithin
      <4>3. \A s \in Section : Ahead(head, s) < Ahead(head, gc) => lists'[s] = <<>>
        BY <1>3, <4>2, WithinEmpty DEF RoomOk, Emptied
      <4>. QED  BY <1>2, <4>3 DEF Emptied
    <3>. QED  BY <3>1, <3>2
  <2>2. gc # head
    <3>1. RoomToWrite /\ off # Size
      BY <1>2, <1>3, <1>11 DEF RoomOk
    <3>2. Ahead(head, gc) >= 1
      BY <3>1 DEF RoomToWrite
    <3>3. Ahead(head, head) = 0
      BY <1>3, AheadOf
    <3>. QED  BY <3>2, <3>3
  <2>. QED  BY <1>2, <1>3, <1>6, <1>8, <1>11, <2>1, <2>2 DEF RoomOk, Writing
<1>. QED  BY <1>1, <1>9, <1>10, <1>11 DEF Programmed

LEMMA WriteThroughRoom ==
  ASSUME LiveFits, ContentInv, RoomOk, HeldFits, WriteThrough
  PROVE  RoomOk' /\ HeldFits'
<1>1. /\ pc = "idle" /\ UNCHANGED <<head, tail, gc, lists>>
      /\ \/ off' = off /\ pc' = pc /\ versions' = <<Current>>
         \/ pc' = "collect" /\ CollectionDue(lists, Page - (off % Page)) /\ off' = off
            /\ versions' = versions
         \/ off % Page # 0 /\ pc' = pc /\ versions' = <<Current>>
  BY DEF WriteThrough
<1>2. head \in Section /\ tail \in Section /\ gc \in Section \cup {NoSection}
  BY DEF ContentInv, TypesInv, RamTypes
<1>3. HeldFits'
  <2>1. Live' = Live /\ Held = Live /\ Held' = Live'
    BY <1>1 DEF Live, Held
  <2>2. Current' = Current
    BY <1>1 DEF Current
  <2>. QED  BY <2>1, <2>2 DEF HeldFits
<1>4. Emptied'
  BY <1>1 DEF RoomOk, Emptied
<1>5. gc # NoSection => gc # head
  BY <1>1 DEF RoomOk
<1>6. CASE off' = off /\ pc' = pc
  BY <1>1, <1>3, <1>4, <1>6 DEF RoomOk, Writing
<1>7. CASE pc' = "collect" /\ CollectionDue(lists, Page - (off % Page)) /\ off' = off
  <2>1. gc \in Section /\ gc # NoSection /\ gc # head /\ head = get_prev_section(gc)
    BY <1>1, <1>2, <1>7 DEF CollectionDue, RoomOk
  <2>2. Ahead(head, gc) = 1
    BY <1>2, <2>1, AheadOf
  <2>3. RoomToCollect'
    BY <1>1, <2>2 DEF RoomToCollect
  <2>. QED  BY <1>1, <1>3, <1>4, <1>7, <2>1, <2>3 DEF RoomOk, Writing
<1>8. CASE off % Page # 0 /\ pc' = pc
  <2>1. gc # NoSection
    BY <1>8, SizesAssumption DEF RoomOk
  <2>. QED  BY <1>1, <1>3, <1>4, <1>8, <2>1 DEF RoomOk, Writing
<1>. QED  BY <1>1, <1>6, <1>7, <1>8

LEMMA CallRoom ==
  ASSUME LiveFits, ContentInv, RoomOk, HeldFits, Call, ContentInv'
  PROVE  RoomOk' /\ HeldFits'
<1>1. Op = {"add", "rm"} /\ Live \subseteq Node
  BY LiveTyped DEF Op, ContentInv, TypesInv, RamTypes
<1>2. CASE \E d \in 0 .. DirIdLimit, name \in Name, val \in Val : WriteRecord(d, name, val)
  <2>1. PICK d \in 0 .. DirIdLimit, name \in Name, val \in Val : WriteRecord(d, name, val)
    BY <1>2
  <2>2. PICK n : n = Record(d, name, val)
    OBVIOUS
  <2>3. n \in Node
    BY <2>2 DEF Node
  <2>4. /\ pc = "idle" /\ BeginUpdate("add", n)
        /\ SizeOfNodes(Without(Live, n) \cup {n}) <= LiveLimit
    BY <2>1, <2>2 DEF WriteRecord, CallAllowed, RoomFor, Without
  <2>. QED  BY <1>1, <2>3, <2>4, BeginRoom
<1>3. CASE \E d \in 0 .. DirIdLimit, name \in Name : MakeDir(d, name)
  <2>1. PICK d \in 0 .. DirIdLimit, name \in Name : MakeDir(d, name)
    BY <1>3
  <2>2. PICK n : n = Dir(dirIdMax + 1, d, name)
    OBVIOUS
  <2>3. dirIdMax + 1 \in 1 .. DirIdLimit
    BY <2>1, Sizes DEF MakeDir, ContentInv, TypesInv, RamTypes
  <2>4. n \in Node
    BY <2>2, <2>3 DEF Node
  <2>5. /\ pc = "idle" /\ BeginUpdate("add", n)
        /\ SizeOfNodes(Without(Live, n) \cup {n}) <= LiveLimit
    BY <2>1, <2>2 DEF MakeDir, CallAllowed, RoomFor, Without
  <2>. QED  BY <1>1, <2>4, <2>5, BeginRoom
<1>4. CASE \E n \in Live : DelRecord(n)
  <2>1. PICK n \in Live : DelRecord(n)
    BY <1>4
  <2>2. pc = "idle" /\ BeginUpdate("rm", n)
    BY <2>1 DEF DelRecord, CallAllowed
  <2>. QED  BY <1>1, <2>2, BeginRoom
<1>5. CASE \E n \in Live : DelDir(n)
  <2>1. /\ pc = "idle" /\ pc' = "next"
        /\ UNCHANGED <<off, head, tail, gc, lists, versions>>
    BY <1>5 DEF DelDir, CallAllowed
  <2>2. Live' = Live /\ Held = Live /\ Held' = Live' /\ Current' = Current
    BY <2>1 DEF Live, Held, Current
  <2>3. HeldFits'
    BY <2>2 DEF HeldFits
  <2>4. Emptied'
    BY <2>1 DEF RoomOk, Emptied
  <2>. QED  BY <2>1, <2>3, <2>4 DEF RoomOk, Writing
<1>. QED  BY <1>2, <1>3, <1>4, <1>5, WriteThroughRoom DEF Call

LEMMA StepRoom ==
  ASSUME LiveFits, ContentInv, RoomOk, HeldFits, CopyLength, Step, ContentInv', CopyLength'
  PROVE  RoomOk' /\ HeldFits'
<1>1. CASE DelNext
  <2>1. PICK n \in todo : BeginUpdate("rm", n)
    BY <1>1 DEF DelNext
  <2>2. pc = "next" /\ n \in Node /\ "rm" \in Op
    BY <1>1 DEF DelNext, ContentInv, TypesInv, RamTypes, Op
  <2>. QED  BY <2>1, <2>2, BeginRoom
<1>2. CASE CopyNode
  BY <1>2, CopyNodeRoom DEF ContentInv
<1>3. CASE CollectionDone
  BY <1>3, CollectionDoneRoom
<1>4. CASE Program
  BY <1>4, ProgramRoom
<1>5. CASE NextSection
  BY <1>5, NextSectionRoom
<1>. QED  BY <1>1, <1>2, <1>3, <1>4, <1>5 DEF Step

LEMMA RoomStart ==
  ASSUME LiveFits, Init
  PROVE  RoomOk /\ HeldFits
<1>1. PICK f : f = [s \in Section |-> [i \in 0 .. Size - 1 |-> Erased]]
  OBVIOUS
<1>2. ValidSections(f) = {}
  <2>1. \A s \in Section : f[s][0] = Erased
    BY <1>1, Sizes
  <2>. QED  BY <2>1 DEF ValidSections, Erased
<1>3. /\ pc = "idle" /\ off = Size /\ head = 0 /\ tail = get_prev_section(0)
      /\ gc = NoSection /\ lists = EmptyLists /\ versions = << {} >>
  BY <1>1, <1>2 DEF Init, Recovered
<1>4. head = get_next_section(tail) /\ gc # head
  BY <1>3, Sizes DEF get_next_section, get_prev_section, NoSection
<1>5. Current = {} /\ Live = {} /\ Held = {}
  BY <1>3, EmptyDistinct DEF Current, Live, Held
<1>6. {} \in Nodes
  BY FS_EmptySet DEF Nodes
<1>7. HeldFits
  <2>1. SizeOfNodes({}) <= LiveLimit
    BY NothingWaits DEF LiveFits
  <2>. QED  BY <1>5, <1>6, <2>1 DEF HeldFits
<1>. QED  BY <1>3, <1>4, <1>7 DEF RoomOk, Emptied, Writing

RoomInv ==
  /\ ContentInv /\ losses \in Nat
  /\ losses = 0 => RoomOk /\ HeldFits /\ CopyLength

LEMMA CopyLengthStep ==
  ASSUME TypesInv, CopyLength, Call \/ Step
  PROVE  CopyLength'
<1>1. CASE Call
  <2>1. pc' # "copy"
    BY <1>1 DEF Call, WriteRecord, MakeDir, DelRecord, DelDir, BeginUpdate, StartNode,
                CallAllowed, WriteThrough
  <2>. QED  BY <2>1 DEF CopyLength
<1>2. CASE DelNext \/ CollectionDone
  <2>1. pc' # "copy"
    BY <1>2 DEF DelNext, BeginUpdate, StartNode, CollectionDone
  <2>. QED  BY <2>1 DEF CopyLength
<1>3. CASE CopyNode
  BY <1>3, CopyNodeLength
<1>4. CASE Program
  <2>1. Programmed /\ Portion \in Nat /\ Len(out) \in Nat
    <3>1. Programmed
      BY <1>4, ProgramDoes
    <3>2. MovedInto
      BY <3>1, ProgramMoves DEF Programmed
    <3>3. Len(out) \in Nat
      BY <3>1 DEF TypesInv, WriteTypes, Programmed
    <3>. QED  BY <3>1, <3>2, <3>3 DEF MovedInto
  <2>2. SUFFICES ASSUME pc' = "copy" PROVE Len(out') <= NodeLength("add", cur.n)'
    BY DEF CopyLength
  <2>3. pc = "copy" /\ cur' = Place /\ Place.n = cur.n
        /\ Len(out') = Len(out) - Portion
    BY <2>1, <2>2 DEF Programmed
  <2>4. NodeLength("add", cur.n)' = NodeLength("add", cur.n)
    BY <2>3 DEF NodeLength, BodyLen, DataLen
  <2>5. cur.n \in Node /\ NodeLength("add", cur.n) \in Nat
    BY <2>1, NodeLengths DEF Programmed, Write, Op
  <2>. QED  BY <2>1, <2>3, <2>4, <2>5 DEF CopyLength
<1>5. CASE NextSection
  <2>1. SUFFICES ASSUME pc' = "copy" PROVE Len(out') <= NodeLength("add", cur.n)'
    BY DEF CopyLength
  <2>2. /\ Writing /\ pc = "copy" /\ cur' = cur
        /\ out' = << Fetched(Head(out)) >> \o Tail(out)
    BY <1>5, <2>1 DEF NextSection, Writing
  <2>3. out \in Seq(Unit \cup Copied) /\ Len(out) \in Nat /\ Len(out) >= 1
    BY <2>2 DEF TypesInv, WriteTypes
  <2>4. Len(out') = Len(out)
    <3>1. Tail(out) \in Seq(Unit \cup Copied) /\ Len(Tail(out)) = Len(out) - 1
      BY <2>3
    <3>2. << Fetched(Head(out)) >> \in Seq({Fetched(Head(out))} \cup Unit \cup Copied)
          /\ Tail(out) \in Seq({Fetched(Head(out))} \cup Unit \cup Copied)
          /\ Len(<< Fetched(Head(out)) >>) = 1
      BY <3>1
    <3>3. Len(out') = 1 + (Len(out) - 1)
      BY <2>2, <3>1, <3>2, ConcatProperties
    <3>. QED  BY <2>3, <3>3
  <2>5. NodeLength("add", cur.n)' = NodeLength("add", cur.n)
    BY <2>2 DEF NodeLength, BodyLen, DataLen
  <2>. QED  BY <2>2, <2>4, <2>5 DEF CopyLength
<1>. QED  BY <1>1, <1>2, <1>3, <1>4, <1>5 DEF Step

(* Losses are only counted up. *)
LEMMA NoLossYet ==
  ASSUME losses \in Nat, [Next]_vars, losses' = 0
  PROVE  losses = 0 /\ (Call \/ Step \/ UNCHANGED vars)
<1>1. ~PowerLoss /\ ~PowerLossInPage
  BY DEF PowerLoss, PowerLossInPage, RestartOn
<1>2. UNCHANGED losses
  BY <1>1 DEF Next, vars
<1>. QED  BY <1>1, <1>2 DEF Next

LEMMA RoomInvStart == LiveFits /\ Init => RoomInv
<1>1. Init => CopyLength
  BY ContentStart DEF Init, CopyLength, ContentInv, TypesInv, Recovered
<1>. QED  BY <1>1, ContentStart, RoomStart DEF RoomInv, Init

LEMMA RoomInvStep == LiveFits /\ RoomInv /\ [Next]_vars => RoomInv'
<1>1. SUFFICES ASSUME LiveFits, RoomInv, [Next]_vars PROVE RoomInv'
  OBVIOUS
<1>2. ContentInv' /\ losses' \in Nat
  BY <1>1, ContentStep, StoreInvStep DEF RoomInv, StoreInv
<1>3. ASSUME losses' = 0 PROVE (RoomOk /\ HeldFits /\ CopyLength)'
  <2>1. /\ RoomOk /\ HeldFits /\ CopyLength /\ ContentInv
        /\ Call \/ Step \/ UNCHANGED vars
    BY <1>1, <1>3, NoLossYet DEF RoomInv
  <2>2. CASE Call
    BY <1>1, <1>2, <2>1, <2>2, CallRoom, CopyLengthStep DEF ContentInv
  <2>3. CASE Step
    <3>1. CopyLength'
      BY <2>1, <2>3, CopyLengthStep DEF ContentInv
    <3>. QED  BY <1>1, <1>2, <2>1, <2>3, <3>1, StepRoom
  <2>4. CASE UNCHANGED vars
    <3>1. UNCHANGED <<flash, off, head, tail, gc, lists, pc, call, cur, out, versions>>
      BY <2>4 DEF vars, ram
    <3>2. Live' = Live /\ Held' = Held /\ Current' = Current
      BY <3>1 DEF Live, Held, Current
    <3>3. HeldFits' /\ CopyLength'
      BY <2>1, <3>1, <3>2 DEF HeldFits, CopyLength, NodeLength, BodyLen, DataLen
    <3>4. Emptied' = Emptied /\ Begun' = Begun /\ RoomToWrite' = RoomToWrite
      BY <3>1 DEF Emptied, Begun, RoomToWrite
    <3>5. RoomToCollect' = RoomToCollect
      <4>1. Waiting' = Waiting /\ Underway' = Underway /\ Coming' = Coming
        BY <3>1 DEF Waiting, Underway, Coming, NodeLength, BodyLen, DataLen
      <4>2. SizeOfNodes(Waiting)' = SizeOfNodes(Waiting)
        BY <4>1
      <4>3. ToWrite' = ToWrite
        BY <4>1, <4>2 DEF ToWrite
      <4>. QED  BY <3>1, <4>3 DEF RoomToCollect
    <3>6. RoomOk' = RoomOk
      BY <3>1, <3>4, <3>5 DEF RoomOk, Writing
    <3>. QED  BY <2>1, <3>3, <3>6
  <2>. QED  BY <2>1, <2>2, <2>3, <2>4
<1>. QED  BY <1>2, <1>3 DEF RoomInv

(* Until the power fails a write finds its section free: if what is alive  *)
(* fits in one section, beside a page of padding and the node of a         *)
(* removal, the assertion of node_write holds.                             *)
THEOREM RoomUntilLoss ==
  ASSUME LiveFits
  PROVE  Spec => [](losses = 0 => RoomIsMade)
<1>1. Init => RoomInv
  BY RoomInvStart
<1>2. RoomInv /\ [Next]_vars => RoomInv'
  BY RoomInvStep
<1>3. RoomInv => (losses = 0 => RoomIsMade)
  BY DEF RoomInv, RoomOk, RoomIsMade
<1>. QED  BY <1>1, <1>2, <1>3, PTL DEF Spec

-----------------------------------------------------------------------------
(* Reading back.  What can be read of every place, through the cache.      *)

Medium == [s \in Section |-> [o \in 0 .. Size - 1 |-> ReadUnit(s, o)]]

(* The first k units of a node that starts at <<s, o>> are there.          *)
Holds(m, s, o, units, k) ==
  \A i \in 1 .. k : LET b == Behind(s, o, i - 1) IN m[b[1]][b[2]] = units[i]

HoldsEntry(m, s, e) ==
  Holds(m, s, e.off, UnitsOf("add", e.n), NodeLength("add", e.n))

HoldsLists(m, l) == \A s \in Section : \A i \in DOMAIN l[s] : HoldsEntry(m, s, l[s][i])

(* m2 has everything that can be read in m.                                *)
KeptIn(m, m2) ==
  \A s \in Section : \A o \in 0 .. Size - 1 : m[s][o] # Erased => m2[s][o] = m[s][o]

FetchedFrom(m, unit) == IF unit.u = "copy" THEN m[unit.sec][unit.off] ELSE unit

(* The units of a node still to write, as they will be fetched.            *)
ToFetch(m, q, units) ==
  /\ Len(q) <= Len(units)
  /\ \A j \in 1 .. Len(q) : FetchedFrom(m, q[j]) = units[Len(units) - Len(q) + j]

Units == UnitsOf(cur.op, cur.n)

Done == Len(Units) - Len(out)

(* A node in the tail section ends in front of off.                        *)
TailEntries ==
  \A i \in DOMAIN lists[tail] :
    lists[tail][i].off + NodeLength("add", lists[tail][i].n) <= off

FromCollected ==
  \A j \in 1 .. Len(out) :
    out[j].u = "copy" => pc = "copy" /\ out[j].sec \in {gc, get_next_section(gc)}

(* What is written of a node ends at off, in its own section or behind the *)
(* head of the next.                                                       *)
Placed ==
  IF cur.sec = NoSection THEN Done = 0
  ELSE /\ Holds(Medium, cur.sec, cur.off, Units, Done)
       /\ \/ cur.sec = tail /\ off = cur.off + Done
          \/ /\ tail = get_next_section(cur.sec)
             /\ off = cur.off + Done - Size + 1 /\ cur.off + Done >= Size

PartOk ==
  /\ pc = "copy" => cur.op = "add"
  /\ ToFetch(Medium, out, Units)
  /\ FromCollected
  /\ Placed

ReadOk ==
  /\ HoldsLists(Medium, lists)
  /\ TailEntries
  /\ Writing => PartOk

LEMMA MediumRead ==
  /\ \A s \in Section, o \in 0 .. Size - 1 : Medium[s][o] = ReadUnit(s, o)
  /\ \A s \in Section, o \in 0 .. Size - 1 : Medium'[s][o] = ReadUnit(s, o)'
BY DEF Medium

LEMMA FetchedFromMedium ==
  /\ \A unit \in Unit \cup Copied : Fetched(unit) = FetchedFrom(Medium, unit)
  /\ \A unit \in Unit : \A m : FetchedFrom(m, unit) = unit
<1>1. ASSUME NEW unit \in Unit, NEW m
      PROVE  Fetched(unit) = unit /\ FetchedFrom(m, unit) = unit
  BY UnitKinds DEF Fetched, FetchedFrom
<1>2. ASSUME NEW unit \in Copied PROVE Fetched(unit) = FetchedFrom(Medium, unit)
  <2>1. unit.u = "copy" /\ unit.sec \in Section /\ unit.off \in 0 .. Size - 1
    BY Sizes DEF Copied, CopyOf
  <2>2. Medium[unit.sec][unit.off] = ReadUnit(unit.sec, unit.off)
    BY <2>1, MediumRead
  <2>. QED  BY <2>1, <2>2 DEF Fetched, FetchedFrom
<1>. QED  BY <1>1, <1>2

(* A node is short enough for all of it to lie in two sections.            *)
LEMMA PlacesTyped ==
  ASSUME NEW s \in Section, NEW o \in 1 .. Size - 1, NEW op \in Op, NEW n \in Node,
         NEW i \in 1 .. NodeLength(op, n)
  PROVE  LET b == Behind(s, o, i - 1)
         IN  /\ b[1] \in Section /\ b[2] \in 0 .. Size - 1 /\ b[2] >= 1
             /\ b = IF o + (i - 1) >= Size
                    THEN << get_next_section(s), o + (i - 1) - Size + 1 >>
                    ELSE << s, o + (i - 1) >>
<1>1. NodeLength(op, n) \in Nat /\ NodeLength(op, n) + 1 <= Size
  BY NodeLengths
<1>2. i - 1 \in Nat /\ i - 1 <= Size - 1
  BY <1>1, Sizes
<1>3. Behind(s, o, i - 1)[1] \in Section /\ Behind(s, o, i - 1)[2] \in 1 .. Size - 1
  BY <1>2, BehindTyped
<1>. QED  BY <1>3, Sizes DEF Behind

LEMMA HoldsKept ==
  ASSUME NEW m, NEW m2, KeptIn(m, m2), NEW s \in Section, NEW o \in 1 .. Size - 1,
         NEW op \in Op, NEW n \in Node, NEW k \in Int, k <= NodeLength(op, n),
         Holds(m, s, o, UnitsOf(op, n), k)
  PROVE  Holds(m2, s, o, UnitsOf(op, n), k)
<1>1. SUFFICES ASSUME NEW i \in 1 .. k
               PROVE  LET b == Behind(s, o, i - 1) IN m2[b[1]][b[2]] = UnitsOf(op, n)[i]
  BY DEF Holds
<1>2. i \in 1 .. NodeLength(op, n) /\ NodeLength(op, n) \in Nat
  BY NodeLengths
<1>3. PICK b : b = Behind(s, o, i - 1)
  OBVIOUS
<1>4. b[1] \in Section /\ b[2] \in 0 .. Size - 1
  BY <1>2, <1>3, PlacesTyped
<1>5. m[b[1]][b[2]] = UnitsOf(op, n)[i]
  BY <1>1, <1>3 DEF Holds
<1>6. UnitsOf(op, n)[i] # Erased
  BY <1>2, UnitsTyped
<1>. QED  BY <1>3, <1>4, <1>5, <1>6 DEF KeptIn

LEMMA ListsKept ==
  ASSUME NEW m, NEW m2, KeptIn(m, m2), NEW l \in Lists, HoldsLists(m, l),
         NEW k \in Lists, Within(k, l)
  PROVE  HoldsLists(m2, k)
<1>1. SUFFICES ASSUME NEW s \in Section, NEW i \in DOMAIN k[s]
               PROVE  HoldsEntry(m2, s, k[s][i])
  BY DEF HoldsLists
<1>2. PICK j \in DOMAIN l[s] : k[s][i] = l[s][j]
  BY DEF Within
<1>3. PICK e : e = l[s][j]
  OBVIOUS
<1>4. e \in Entry /\ HoldsEntry(m, s, e)
  BY <1>3 DEF Lists, HoldsLists
<1>5. e.n \in Node /\ e.off \in 1 .. Size - 1 /\ "add" \in Op
  BY <1>4 DEF Entry, Op
<1>6. NodeLength("add", e.n) \in Nat
  BY <1>5, NodeLengths
<1>7. HoldsEntry(m2, s, e)
  BY <1>4, <1>5, <1>6, HoldsKept DEF HoldsEntry
<1>. QED  BY <1>2, <1>3, <1>7

(* Everything is read as it was when a page is flushed.                    *)
LEMMA FlushMedium ==
  ASSUME TypesInv, off % Page # 0, pc # "failed", FlushPage, tail' = tail
  PROVE  Medium' = Medium
<1>1. /\ off \in Nat /\ tail \in Section /\ flash \in Flash /\ cache \in Seq(Unit)
      /\ Len(cache) = off % Page /\ Len(cache) \in Nat /\ Len(cache) < Page
      /\ PageStart(off) = off - Len(cache) /\ PageStart(off) \in Nat
      /\ off' > off /\ cache' = <<>>
      /\ flash' = ProgramPage(flash, tail, PageStart(off), cache)
  <2>1. off \in Nat /\ Len(cache) = off % Page
    BY Sizes DEF TypesInv, RamTypes
  <2>2. off % Page \in 0 .. Page - 1 /\ PageStart(off) = off - (off % Page) /\ PageStart(off) \in Nat
    BY <2>1, PageArithmetic
  <2>. QED  BY <2>1, <2>2, FlushTyped, Sizes DEF TypesInv, RamTypes, FlushPage
<1>2. ASSUME NEW s \in Section, NEW o \in 0 .. Size - 1
      PROVE  ReadUnit(s, o)' = ReadUnit(s, o)
  <2>1. ReadUnit(s, o)' = flash'[s][o]
    <3>1. ~(o >= off' - Len(cache') /\ o < off')
      BY <1>1, FlushTyped, Sizes
    <3>. QED  BY <3>1 DEF ReadUnit
  <2>2. s # tail => flash'[s][o] = flash[s][o]
    BY <1>1 DEF ProgramPage, Flash
  <2>3. s = tail => flash'[s][o] =
          IF o >= PageStart(off) /\ o < PageStart(off) + Len(cache)
          THEN cache[o - PageStart(off) + 1] ELSE flash[s][o]
    BY <1>1 DEF ProgramPage, Flash
  <2>. QED  BY <1>1, <2>1, <2>2, <2>3, Sizes DEF ReadUnit
<1>. QED  BY <1>2 DEF Medium

(* Programming changes what is read at the places it moves over.           *)
LEMMA ProgramMedium ==
  ASSUME TypesInv, Program, NEW s \in Section, NEW o \in 0 .. Size - 1
  PROVE  Medium'[s][o] = IF s = tail /\ o >= off /\ o < off + Portion
                         THEN FetchedFrom(Medium, out[o - off + 1])
                         ELSE Medium[s][o]
<1>1. Writing /\ off < Size /\ MovedInto /\ tail' = tail /\ off' = off + Portion
  BY ProgramMoves DEF Program
<1>2. /\ tail \in Section /\ flash \in Flash /\ cache \in Seq(Unit) /\ Len(cache) \in Nat
      /\ out \in Seq(Unit \cup Copied) /\ Len(out) \in Nat
  BY <1>1 DEF TypesInv, RamTypes, WriteTypes
<1>3. PICK p \in Nat : p = Portion
  BY <1>1 DEF MovedInto
<1>4. PICK a \in Nat : a = Len(cache)
  BY <1>2
<1>5. PICK q \in Seq(Unit) : q = Filled
  BY <1>1 DEF MovedInto
<1>6. /\ p >= 1 /\ p <= Len(out) /\ Len(q) = a + p /\ Len(q) <= Page
      /\ \A i \in 1 .. a : q[i] = cache[i]
      /\ \A i \in 1 .. p : q[a + i] = Fetched(out[i])
      /\ off \in Nat /\ PageStart(off) = off - a /\ off - a \in Nat
      /\ off' = off + p
  BY <1>1, <1>3, <1>4, <1>5 DEF MovedInto
<1>7. \A i \in 1 .. p : Fetched(out[i]) = FetchedFrom(Medium, out[i])
  <2>1. SUFFICES ASSUME NEW i \in 1 .. p PROVE Fetched(out[i]) = FetchedFrom(Medium, out[i])
    OBVIOUS
  <2>2. out[i] \in Unit \cup Copied
    BY <1>2, <1>6
  <2>. QED  BY <2>2, FetchedFromMedium
<1>8. \/ Len(q) = Page /\ flash' = ProgramPage(flash, tail, off - a, q) /\ cache' = <<>>
      \/ flash' = flash /\ cache' = q
  BY <1>5, <1>6 DEF Program
<1>9. ReadUnit(s, o) = IF s = tail /\ o >= off - a /\ o < off
                       THEN cache[o - (off - a) + 1] ELSE flash[s][o]
  BY <1>4 DEF ReadUnit
<1>10. ReadUnit(s, o)' = IF s = tail /\ o >= off - a /\ o < off + p
                         THEN q[o - (off - a) + 1] ELSE flash[s][o]
  <2>1. ReadUnit(s, o)' = IF s = tail /\ o >= off' - Len(cache') /\ o < off'
                          THEN cache'[o - (off' - Len(cache')) + 1] ELSE flash'[s][o]
    BY <1>1 DEF ReadUnit
  <2>2. CASE Len(q) = Page /\ flash' = ProgramPage(flash, tail, off - a, q) /\ cache' = <<>>
    <3>1. ReadUnit(s, o)' = flash'[s][o]
      <4>1. off' - Len(cache') = off'
        BY <1>6, <2>2
      <4>2. ~(o >= off' /\ o < off')
        BY <1>6
      <4>. QED  BY <2>1, <4>1, <4>2
    <3>2. s # tail => flash'[s][o] = flash[s][o]
      BY <1>2, <2>2 DEF ProgramPage, Flash
    <3>3. s = tail => flash'[s][o] =
            IF o >= off - a /\ o < (off - a) + Len(q)
            THEN q[o - (off - a) + 1] ELSE flash[s][o]
      BY <1>2, <2>2 DEF ProgramPage, Flash
    <3>4. (off - a) + Len(q) = off + p
      BY <1>6
    <3>. QED  BY <3>1, <3>2, <3>3, <3>4
  <2>3. CASE flash' = flash /\ cache' = q
    <3>1. off' - Len(cache') = off - a
      BY <1>6, <2>3
    <3>. QED  BY <1>6, <2>1, <2>3, <3>1
  <2>. QED  BY <1>8, <2>2, <2>3
<1>11. CASE s = tail /\ o >= off /\ o < off + p
  <2>1. o - off + 1 \in 1 .. p /\ o - (off - a) + 1 = a + (o - off + 1)
    BY <1>6, <1>11
  <2>2. ReadUnit(s, o)' = Fetched(out[o - off + 1])
    <3>1. PICK i \in 1 .. p : i = o - off + 1
      BY <2>1
    <3>2. o - (off - a) + 1 = a + i /\ q[a + i] = Fetched(out[i])
      BY <1>6, <2>1, <3>1
    <3>3. o >= off - a
      BY <1>6, <1>11
    <3>4. ReadUnit(s, o)' = q[o - (off - a) + 1]
      BY <1>10, <1>11, <3>3
    <3>. QED  BY <3>1, <3>2, <3>4
  <2>. QED  BY <1>3, <1>7, <1>11, <2>1, <2>2, MediumRead
<1>12. CASE ~(s = tail /\ o >= off /\ o < off + p)
  <2>1. ReadUnit(s, o)' = ReadUnit(s, o)
    <3>1. CASE s = tail /\ o >= off - a /\ o < off
      <4>1. o - (off - a) + 1 \in 1 .. a
        BY <1>6, <3>1
      <4>2. o < off + p
        BY <1>6, <3>1
      <4>. QED  BY <1>6, <1>9, <1>10, <3>1, <4>1, <4>2
    <3>2. CASE ~(s = tail /\ o >= off - a /\ o < off)
      <4>1. ~(s = tail /\ o >= off - a /\ o < off + p)
        BY <1>6, <1>12, <3>2
      <4>. QED  BY <1>9, <1>10, <3>2, <4>1
    <3>. QED  BY <3>1, <3>2
  <2>. QED  BY <1>3, <1>12, <2>1, MediumRead
<1>. QED  BY <1>3, <1>11, <1>12

(* It moves over what is erased. *)
LEMMA ProgramKeepsRead ==
  ASSUME TailInv, Program
  PROVE  KeptIn(Medium, Medium')
<1>1. SUFFICES ASSUME NEW s \in Section, NEW o \in 0 .. Size - 1, Medium[s][o] # Erased
               PROVE  Medium'[s][o] = Medium[s][o]
  BY DEF KeptIn
<1>2. ASSUME s = tail, o >= off PROVE FALSE
  <2>1. off \in Nat /\ Len(cache) \in Nat
    BY DEF TailInv, TypesInv, RamTypes
  <2>2. o \in off - Len(cache) .. Size - 1 /\ ~(o < off)
    BY <1>2, <2>1
  <2>3. flash[tail][o] = Erased
    BY <2>2, TailInvErased DEF TailErased
  <2>4. ReadUnit(s, o) = Erased
    BY <1>2, <2>2, <2>3 DEF ReadUnit
  <2>. QED  BY <1>1, <2>4, MediumRead
<1>3. Medium'[s][o] = IF s = tail /\ o >= off /\ o < off + Portion
                      THEN FetchedFrom(Medium, out[o - off + 1])
                      ELSE Medium[s][o]
  BY ProgramMedium DEF TailInv
<1>. QED  BY <1>2, <1>3

(* Nothing changes outside the section that is begun. *)
LEMMA NextSectionMedium ==
  ASSUME TypesInv, NextSection, tail' = head, off' = 1, head = get_next_section(tail),
         NEW s \in Section, s # head
  PROVE  Medium'[s] = Medium[s]
<1>1. /\ flash' = EraseSection(flash, head) /\ Len(cache') = 1 /\ off = Size
      /\ tail' # tail /\ Writing
  <2>1. tail # get_next_section(tail)
    BY Sizes DEF TypesInv, RamTypes, get_next_section, Section
  <2>. QED  BY <2>1 DEF NextSection
<1>2. Len(cache) = 0
  <2>1. Len(cache) = Size % Page
    BY <1>1, Sizes DEF TypesInv, RamTypes
  <2>. QED  BY <2>1, SizesAssumption
<1>3. flash'[s] = flash[s]
  BY <1>1 DEF EraseSection, TypesInv, Flash
<1>4. ASSUME NEW o \in 0 .. Size - 1 PROVE ReadUnit(s, o)' = ReadUnit(s, o)
  <2>1. ReadUnit(s, o)' = flash'[s][o]
    BY DEF ReadUnit
  <2>2. ReadUnit(s, o) = flash[s][o]
    <3>1. ~(o >= off - Len(cache) /\ o < off)
      BY <1>1, <1>2, Sizes
    <3>. QED  BY <3>1 DEF ReadUnit
  <2>. QED  BY <1>3, <2>1, <2>2
<1>. QED  BY <1>4 DEF Medium

LEMMA ReadImpliesFaithful ==
  ASSUME TypesInv, ReadOk
  PROVE  CopyFaithful
<1>1. SUFFICES ASSUME pc = "copy", NEW i \in DOMAIN out
               PROVE  Fetched(out[i]) =
                        UnitsOf("add", cur.n)[Len(UnitsOf("add", cur.n)) - Len(out) + i]
  BY DEF CopyFaithful
<1>2. PartOk /\ cur.op = "add" /\ out \in Seq(Unit \cup Copied)
  BY <1>1 DEF ReadOk, PartOk, Writing, TypesInv, WriteTypes
<1>3. i \in 1 .. Len(out) /\ out[i] \in Unit \cup Copied
  BY <1>1, <1>2
<1>4. FetchedFrom(Medium, out[i]) = Units[Len(Units) - Len(out) + i]
  BY <1>2, <1>3 DEF PartOk, ToFetch
<1>. QED  BY <1>2, <1>3, <1>4, FetchedFromMedium DEF Units

LEMMA ReadImpliesReadable ==
  ASSUME TypesInv, ReadOk
  PROVE  \A s \in Section : \A i \in DOMAIN lists[s] : Readable(s, lists[s][i])
<1>1. SUFFICES ASSUME NEW s \in Section, NEW j \in DOMAIN lists[s]
               PROVE  Readable(s, lists[s][j])
  OBVIOUS
<1>2. PICK e : e = lists[s][j]
  OBVIOUS
<1>3. e \in Entry /\ HoldsEntry(Medium, s, e)
  BY <1>2 DEF TypesInv, RamTypes, Lists, ReadOk, HoldsLists
<1>4. e.n \in Node /\ e.off \in 1 .. Size - 1 /\ "add" \in Op
  BY <1>3 DEF Entry, Op
<1>5. Len(UnitsOf("add", e.n)) = NodeLength("add", e.n)
  BY <1>4, UnitsTyped
<1>6. ASSUME NEW i \in 1 .. NodeLength("add", e.n)
      PROVE  LET b == Behind(s, e.off, i - 1) IN ReadUnit(b[1], b[2]) = UnitsOf("add", e.n)[i]
  <2>1. PICK b : b = Behind(s, e.off, i - 1)
    OBVIOUS
  <2>2. b[1] \in Section /\ b[2] \in 0 .. Size - 1
    BY <1>4, <2>1, PlacesTyped
  <2>3. Medium[b[1]][b[2]] = UnitsOf("add", e.n)[i]
    BY <1>3, <2>1 DEF HoldsEntry, Holds
  <2>. QED  BY <2>1, <2>2, <2>3, MediumRead
<1>7. Readable(s, e)
  BY <1>5, <1>6 DEF Readable
<1>. QED  BY <1>2, <1>7

LEMMA NodeBegun ==
  ASSUME NEW m, NEW op \in Op, NEW n \in Node
  PROVE  /\ ToFetch(m, UnitsOf(op, n), UnitsOf(op, n))
         /\ \A j \in 1 .. Len(UnitsOf(op, n)) : UnitsOf(op, n)[j].u # "copy"
<1>1. PICK q : q = UnitsOf(op, n)
  OBVIOUS
<1>2. q \in Seq(Unit) /\ Len(q) \in Nat /\ \A i \in 1 .. Len(q) : q[i] \in Unit
  BY <1>1, UnitsTyped
<1>3. \A i \in 1 .. Len(q) : FetchedFrom(m, q[i]) = q[i] /\ q[i].u # "copy"
  BY <1>2, FetchedFromMedium, UnitKinds
<1>4. \A i \in 1 .. Len(q) : Len(q) - Len(q) + i = i
  BY <1>2
<1>. QED  BY <1>1, <1>2, <1>3, <1>4 DEF ToFetch

LEMMA TailEntriesKept ==
  ASSUME lists' \in Lists, Within(lists', lists), tail \in Section, tail' = tail,
         off \in Nat, off' \in Nat, off' >= off, lists \in Lists, TailEntries
  PROVE  TailEntries'
<1>1. SUFFICES ASSUME NEW i \in DOMAIN lists'[tail]
               PROVE  lists'[tail][i].off + NodeLength("add", lists'[tail][i].n) <= off'
  BY DEF TailEntries, NodeLength, BodyLen, DataLen
<1>2. PICK j \in DOMAIN lists[tail] : lists'[tail][i] = lists[tail][j]
  BY DEF Within
<1>3. PICK e : e = lists[tail][j]
  OBVIOUS
<1>4. e \in Entry
  BY <1>3 DEF Lists
<1>5. e.off \in Nat /\ NodeLength("add", e.n) \in Nat
  BY <1>4, NodeLengths DEF Entry, Op
<1>6. e.off + NodeLength("add", e.n) <= off
  BY <1>3 DEF TailEntries
<1>7. e.off + NodeLength("add", e.n) <= off'
  BY <1>5, <1>6
<1>. QED  BY <1>2, <1>3, <1>7

(* Nothing is moved and no entry is new. *)
LEMMA ListsStayRead ==
  ASSUME TypesInv, TypesInv', ReadOk, Medium' = Medium, tail' = tail, off' >= off,
         Within(lists', lists)
  PROVE  HoldsLists(Medium, lists)' /\ TailEntries'
<1>1. /\ lists \in Lists /\ lists' \in Lists /\ off \in Nat /\ off' \in Nat /\ tail \in Section
      /\ HoldsLists(Medium, lists) /\ TailEntries
  BY DEF TypesInv, RamTypes, ReadOk
<1>2. KeptIn(Medium, Medium)
  BY DEF KeptIn
<1>3. HoldsLists(Medium, lists')
  BY <1>1, <1>2, ListsKept
<1>4. HoldsLists(Medium', lists')
  BY <1>3
<1>5. TailEntries'
  BY <1>1, TailEntriesKept
<1>. QED  BY <1>4, <1>5

LEMMA MediumStays ==
  ASSUME UNCHANGED <<flash, cache, off, tail>>
  PROVE  Medium' = Medium
BY DEF Medium, ReadUnit

LEMMA AllWithin ==
  ASSUME lists' = lists
  PROVE  Within(lists', lists)
BY DEF Within

LEMMA WriteBegun ==
  ASSUME NEW op \in Op, NEW n \in Node, pc' = "write", out' = UnitsOf(op, n),
         cur'.op = op, cur'.n = n, cur'.sec = NoSection
  PROVE  PartOk'
<1>1. Units' = UnitsOf(op, n)
  BY DEF Units
<1>2. ToFetch(Medium', out', Units') /\ \A j \in 1 .. Len(out') : out'[j].u # "copy"
  BY <1>1, NodeBegun
<1>3. ToFetch(Medium, out, Units)'
  BY <1>2
<1>4. FromCollected'
  BY <1>2 DEF FromCollected
<1>5. Len(UnitsOf(op, n)) \in Nat
  BY UnitsTyped, NodeLengths
<1>6. Done' = 0
  BY <1>1, <1>5 DEF Done
<1>7. Placed'
  BY <1>6 DEF Placed
<1>. QED  BY <1>3, <1>4, <1>7 DEF PartOk

LEMMA BeginRead ==
  ASSUME ContentInv, ReadOk, NEW op \in Op, NEW n \in Node, BeginUpdate(op, n), TypesInv'
  PROVE  ReadOk'
<1>1. /\ UNCHANGED <<flash, cache, off, tail>>
      /\ lists' = IF op = "add" THEN ListDel(lists, n) ELSE lists
      /\ \/ pc' = "collect"
         \/ /\ pc' = "write" /\ out' = UnitsOf(op, n)
            /\ cur'.op = op /\ cur'.n = n /\ cur'.sec = NoSection
  BY DEF BeginUpdate, StartNode
<1>2. lists \in Lists /\ Distinct(lists) /\ off \in Nat
  BY DEF ContentInv, ContentTypes, TypesInv, RamTypes
<1>3. Within(lists', lists)
  BY <1>1, <1>2, DeletedWithin, AllWithin
<1>4. HoldsLists(Medium, lists)' /\ TailEntries'
  <2>1. Medium' = Medium /\ off' >= off /\ tail' = tail
    BY <1>1, <1>2, MediumStays
  <2>. QED  BY <1>3, <2>1, ListsStayRead DEF ContentInv
<1>5. Writing' => PartOk'
  BY <1>1, WriteBegun DEF Writing
<1>. QED  BY <1>4, <1>5 DEF ReadOk

LEMMA CallRead ==
  ASSUME ContentInv, ReadOk, Call, TypesInv'
  PROVE  ReadOk'
<1>1. Op = {"add", "rm"} /\ Live \subseteq Node /\ off \in Nat
  BY LiveTyped DEF Op, ContentInv, TypesInv, RamTypes
<1>2. CASE \E d \in 0 .. DirIdLimit, name \in Name, val \in Val : WriteRecord(d, name, val)
  <2>1. PICK d \in 0 .. DirIdLimit, name \in Name, val \in Val : WriteRecord(d, name, val)
    BY <1>2
  <2>2. Record(d, name, val) \in Node
    BY DEF Node
  <2>. QED  BY <1>1, <2>1, <2>2, BeginRead DEF WriteRecord
<1>3. CASE \E d \in 0 .. DirIdLimit, name \in Name : MakeDir(d, name)
  <2>1. PICK d \in 0 .. DirIdLimit, name \in Name : MakeDir(d, name)
    BY <1>3
  <2>2. dirIdMax + 1 \in 1 .. DirIdLimit
    BY <2>1, Sizes DEF MakeDir, ContentInv, TypesInv, RamTypes
  <2>3. Dir(dirIdMax + 1, d, name) \in Node
    BY <2>2 DEF Node
  <2>. QED  BY <1>1, <2>1, <2>3, BeginRead DEF MakeDir
<1>4. CASE \E n \in Live : DelRecord(n)
  <2>1. PICK n \in Live : DelRecord(n)
    BY <1>4
  <2>. QED  BY <1>1, <2>1, BeginRead DEF DelRecord
<1>5. CASE \E n \in Live : DelDir(n)
  <2>1. UNCHANGED <<flash, cache, off, tail, lists>> /\ pc' = "next"
    BY <1>5 DEF DelDir
  <2>2. HoldsLists(Medium, lists)' /\ TailEntries'
    BY <1>1, <2>1, MediumStays, AllWithin, ListsStayRead DEF ContentInv
  <2>. QED  BY <2>1, <2>2 DEF ReadOk, Writing
<1>6. CASE WriteThrough
  <2>1. /\ pc = "idle" /\ UNCHANGED <<tail, lists>> /\ pc' \in {"idle", "collect"}
        /\ \/ UNCHANGED <<flash, cache, off>>
           \/ off % Page # 0 /\ FlushPage
    BY <1>6 DEF WriteThrough
  <2>2. Medium' = Medium /\ off' >= off
    <3>1. CASE UNCHANGED <<flash, cache, off>>
      BY <1>1, <2>1, <3>1, MediumStays
    <3>2. CASE off % Page # 0 /\ FlushPage
      BY <1>1, <2>1, <3>2, FlushMedium, FlushTyped DEF ContentInv
    <3>. QED  BY <2>1, <3>1, <3>2
  <2>3. HoldsLists(Medium, lists)' /\ TailEntries'
    BY <2>1, <2>2, AllWithin, ListsStayRead DEF ContentInv
  <2>. QED  BY <2>1, <2>3 DEF ReadOk, Writing
<1>. QED  BY <1>2, <1>3, <1>4, <1>5, <1>6 DEF Call

LEMMA CollectionDoneRead ==
  ASSUME ContentInv, ReadOk, CollectionDone, TypesInv'
  PROVE  ReadOk'
<1>1. /\ pc = "collect" /\ UNCHANGED <<tail, lists>>
      /\ \/ UNCHANGED <<flash, cache, off>>
         \/ off % Page # 0 /\ FlushPage
      /\ \/ pc' = "idle"
         \/ /\ call.op # "sync" /\ pc' = "write" /\ out' = UnitsOf(call.op, call.n)
            /\ cur'.op = call.op /\ cur'.n = call.n /\ cur'.sec = NoSection
  BY DEF CollectionDone
<1>2. off \in Nat /\ call.op \in Op \cup {"sync"} /\ (call.op # "sync" => call.n \in Node)
  BY <1>1 DEF ContentInv, TypesInv, RamTypes, CallTypes
<1>3. Medium' = Medium /\ off' >= off
  <2>1. CASE UNCHANGED <<flash, cache, off>>
    BY <1>1, <1>2, <2>1, MediumStays
  <2>2. CASE off % Page # 0 /\ FlushPage
    BY <1>1, <1>2, <2>2, FlushMedium, FlushTyped DEF ContentInv
  <2>. QED  BY <1>1, <2>1, <2>2
<1>4. HoldsLists(Medium, lists)' /\ TailEntries'
  BY <1>1, <1>3, AllWithin, ListsStayRead DEF ContentInv
<1>5. Writing' => PartOk'
  <2>1. SUFFICES ASSUME pc' = "write" PROVE PartOk'
    BY <1>1 DEF Writing
  <2>2. PICK op \in Op, n \in Node : op = call.op /\ n = call.n
    BY <1>1, <1>2, <2>1
  <2>. QED  BY <1>1, <2>1, <2>2, WriteBegun
<1>. QED  BY <1>4, <1>5 DEF ReadOk

(* A node begins with its metadata. *)
LEMMA FirstUnits ==
  ASSUME NEW op \in Op, NEW n \in Node
  PROVE  /\ UnitsOf(op, n)[1] = Meta(op, n)
         /\ \A i \in 1 .. MetaRest : UnitsOf(op, n)[i + 1] = More(op, n, i)
<1>1. PICK d \in Nat : d = BodyLen(op, n) /\ d >= MetaRest
  BY NodeLengths
<1> DEFINE T == {Meta(op, n)} \cup { Body(op, n, i) : i \in 1 .. d }
                 \cup { CrcOf(op, n, i) : i \in 1 .. Crc }
           a == << Meta(op, n) >>
           b == [i \in 1 .. d |-> Body(op, n, i)]
           c == [i \in 1 .. Crc |-> CrcOf(op, n, i)]
<1>2. a \in Seq(T) /\ Len(a) = 1 /\ a[1] = Meta(op, n)
  OBVIOUS
<1>3. b \in Seq(T) /\ c \in Seq(T) /\ Len(b) = d /\ Len(c) = Crc
  <2>1. Crc \in Nat
    BY Sizes
  <2>. QED  BY <1>1, <2>1
<1>4. UnitsOf(op, n) = (a \o b) \o c
  BY <1>1 DEF UnitsOf
<1>5. \A i \in 1 .. MetaRest : b[i] = More(op, n, i)
  BY <1>1, Sizes DEF Body
<1> HIDE DEF a, b, c, T
<1>6. /\ a \o b \in Seq(T) /\ Len(a \o b) = 1 + d
      /\ \A i \in 1 .. 1 + d : (a \o b)[i] = IF i <= 1 THEN a[i] ELSE b[i - 1]
  <2>1. /\ a \o b \in Seq(T) /\ Len(a \o b) = Len(a) + Len(b)
        /\ \A i \in 1 .. Len(a) + Len(b) :
             (a \o b)[i] = IF i <= Len(a) THEN a[i] ELSE b[i - Len(a)]
    BY <1>2, <1>3, ConcatProperties
  <2>. QED  BY <1>2, <1>3, <2>1
<1>7. \A i \in 1 .. 1 + d : ((a \o b) \o c)[i] = (a \o b)[i]
  <2>1. \A i \in 1 .. Len(a \o b) + Len(c) :
          ((a \o b) \o c)[i] = IF i <= Len(a \o b) THEN (a \o b)[i] ELSE c[i - Len(a \o b)]
    BY <1>3, <1>6, ConcatProperties
  <2>2. Crc \in Nat
    BY Sizes
  <2>. QED  BY <1>1, <1>3, <1>6, <2>1, <2>2
<1>8. UnitsOf(op, n)[1] = Meta(op, n)
  <2>1. 1 \in 1 .. 1 + d
    BY <1>1
  <2>. QED  BY <1>2, <1>4, <1>6, <1>7, <2>1
<1>9. ASSUME NEW i \in 1 .. MetaRest PROVE UnitsOf(op, n)[i + 1] = More(op, n, i)
  <2>1. i + 1 \in 1 .. 1 + d /\ ~(i + 1 <= 1) /\ (i + 1) - 1 = i
    BY <1>1, Sizes
  <2>. QED  BY <1>4, <1>5, <1>6, <1>7, <2>1
<1>. QED  BY <1>8, <1>9

(* The units of a node to be copied are read where the list has it.        *)
CopyUnits(s, e) ==
  IF e.n.kind = "dir" THEN UnitsOf("add", e.n)
  ELSE << Meta("add", e.n) >> \o
         [i \in 1 .. NodeLength("add", e.n) - 1 |->
            IF i <= MetaRest THEN More("add", e.n, i)
            ELSE CopyOf(Behind(s, e.off, i)[1], Behind(s, e.off, i)[2])]

LEMMA CopyBegun ==
  ASSUME NEW m, NEW s \in Section, NEW e \in Entry, HoldsEntry(m, s, e), NEW q,
         q = CopyUnits(s, e)
  PROVE  /\ Len(q) = NodeLength("add", e.n)
         /\ ToFetch(m, q, UnitsOf("add", e.n))
         /\ \A j \in 1 .. Len(q) :
              q[j].u = "copy" => q[j].sec \in {s, get_next_section(s)}
<1>1. e.n \in Node /\ e.off \in 1 .. Size - 1 /\ "add" \in Op
  BY DEF Entry, Op
<1>2. PICK len \in Nat : len = NodeLength("add", e.n) /\ len >= 2
  BY <1>1, NodeLengths
<1>3. PICK units : units = UnitsOf("add", e.n)
  OBVIOUS
<1>4. /\ Len(units) = len /\ units[1] = Meta("add", e.n)
      /\ \A i \in 1 .. MetaRest : units[i + 1] = More("add", e.n, i)
  BY <1>1, <1>2, <1>3, UnitsTyped, FirstUnits
<1>5. CASE e.n.kind = "dir"
  BY <1>1, <1>2, <1>5, NodeBegun, UnitsTyped DEF CopyUnits
<1>6. CASE e.n.kind # "dir"
  <2> DEFINE unit(i) == IF i <= MetaRest THEN More("add", e.n, i)
                        ELSE CopyOf(Behind(s, e.off, i)[1], Behind(s, e.off, i)[2])
             T == {Meta("add", e.n)} \cup { unit(i) : i \in 1 .. len - 1 }
             a == << Meta("add", e.n) >>
             b == [i \in 1 .. len - 1 |-> unit(i)]
  <2>1. /\ a \in Seq(T) /\ Len(a) = 1 /\ a[1] = Meta("add", e.n)
    OBVIOUS
  <2>2. b \in Seq(T) /\ Len(b) = len - 1 /\ \A i \in 1 .. len - 1 : b[i] = unit(i)
    <3>1. \A i \in 1 .. len - 1 : unit(i) \in T
      OBVIOUS
    <3> HIDE DEF unit, T
    <3>. QED  BY <1>2, <3>1
  <2>3. q = a \o b
    BY <1>2, <1>6 DEF CopyUnits
  <2>4. \A i \in 1 .. len - 1 :
          /\ FetchedFrom(m, unit(i)) = units[i + 1]
          /\ unit(i).u = "copy" => unit(i).sec \in {s, get_next_section(s)}
    <3>1. SUFFICES ASSUME NEW i \in 1 .. len - 1
                   PROVE  /\ FetchedFrom(m, unit(i)) = units[i + 1]
                          /\ unit(i).u = "copy" => unit(i).sec \in {s, get_next_section(s)}
      OBVIOUS
    <3>2. CASE i <= MetaRest
      <4>1. i \in 1 .. MetaRest
        BY <1>2, <3>2, Sizes
      <4>2. unit(i) = More("add", e.n, i) /\ unit(i).u = "more"
        BY <3>2 DEF More
      <4> HIDE DEF unit
      <4>. QED  BY <1>4, <4>1, <4>2 DEF FetchedFrom
    <3>3. CASE ~(i <= MetaRest)
      <4>1. i + 1 \in 1 .. len /\ (i + 1) - 1 = i
        BY <1>2
      <4>2. PICK c : c = Behind(s, e.off, i)
        OBVIOUS
      <4>3. m[c[1]][c[2]] = units[i + 1]
        BY <1>2, <1>3, <4>1, <4>2 DEF HoldsEntry, Holds
      <4>4. c[1] \in {s, get_next_section(s)}
        BY <4>2 DEF Behind
      <4>5. unit(i).u = "copy" /\ unit(i).sec = c[1] /\ unit(i).off = c[2]
        BY <3>3, <4>2 DEF CopyOf
      <4> HIDE DEF unit
      <4>. QED  BY <4>3, <4>4, <4>5 DEF FetchedFrom
    <3>. QED  BY <3>2, <3>3
  <2> HIDE DEF unit, T, a, b
  <2>5. Len(q) = len /\ q[1] = a[1] /\ \A i \in 1 .. len - 1 : q[i + 1] = b[i]
    <3>1. /\ a \o b \in Seq(T) /\ Len(a \o b) = Len(a) + Len(b)
          /\ \A i \in 1 .. Len(a) + Len(b) :
               (a \o b)[i] = IF i <= Len(a) THEN a[i] ELSE b[i - Len(a)]
      BY <2>1, <2>2, ConcatProperties
    <3>2. Len(a \o b) = len
      BY <1>2, <2>1, <2>2, <3>1
    <3>3. (a \o b)[1] = a[1]
      BY <1>2, <2>1, <2>2, <3>1
    <3>4. ASSUME NEW i \in 1 .. len - 1 PROVE (a \o b)[i + 1] = b[i]
      <4>1. i + 1 \in 1 .. Len(a) + Len(b) /\ ~(i + 1 <= Len(a)) /\ (i + 1) - Len(a) = i
        BY <1>2, <2>1, <2>2
      <4>. QED  BY <3>1, <4>1
    <3>. QED  BY <2>3, <3>2, <3>3, <3>4
  <2>6. ASSUME NEW j \in 1 .. len
        PROVE  /\ FetchedFrom(m, q[j]) = units[j]
               /\ q[j].u = "copy" => q[j].sec \in {s, get_next_section(s)}
    <3>1. CASE j = 1
      <4>1. q[j] = Meta("add", e.n) /\ q[j].u = "meta"
        BY <2>1, <2>5, <3>1 DEF Meta
      <4>. QED  BY <1>4, <3>1, <4>1 DEF FetchedFrom
    <3>2. CASE j # 1
      <4>1. PICK i \in 1 .. len - 1 : i = j - 1 /\ j = i + 1
        BY <1>2, <3>2
      <4>2. q[j] = unit(i)
        BY <2>2, <2>5, <4>1
      <4>. QED  BY <2>4, <4>1, <4>2
    <3>. QED  BY <3>1, <3>2
  <2>7. ToFetch(m, q, units)
    <3>1. \A j \in 1 .. len : Len(units) - Len(q) + j = j
      BY <1>2, <1>4, <2>5
    <3>2. \A j \in 1 .. len : FetchedFrom(m, q[j]) = units[j]
      BY <2>6
    <3>3. \A j \in 1 .. len : FetchedFrom(m, q[j]) = units[Len(units) - Len(q) + j]
      BY <3>1, <3>2
    <3>4. Len(q) = len /\ Len(q) <= Len(units)
      BY <1>2, <1>4, <2>5
    <3>. QED  BY <3>3, <3>4 DEF ToFetch
  <2>. QED  BY <1>2, <1>3, <2>5, <2>6, <2>7
<1>. QED  BY <1>5, <1>6

LEMMA TailWithin ==
  ASSUME NEW l \in Lists, NEW s \in Section, l[s] # <<>>
  PROVE  Within([l EXCEPT ![s] = Tail(@)], l)
<1> DEFINE k == [l EXCEPT ![s] = Tail(@)]
<1>1. SUFFICES ASSUME NEW t \in Section, NEW i \in DOMAIN k[t]
               PROVE  \E j \in DOMAIN l[t] : k[t][i] = l[t][j]
  BY DEF Within
<1>2. CASE t # s
  <2>1. k[t] = l[t]
    BY <1>2 DEF Lists
  <2>. QED  BY <2>1
<1>3. CASE t = s
  <2>1. PICK q \in Seq(Entry) : q = l[s] /\ q # <<>>
    BY DEF Lists
  <2>2. k[t] = Tail(q)
    BY <1>3, <2>1 DEF Lists
  <2>3. /\ Len(q) \in Nat /\ Len(q) >= 1 /\ Tail(q) \in Seq(Entry)
        /\ Len(Tail(q)) = Len(q) - 1 /\ \A j \in 1 .. Len(q) - 1 : Tail(q)[j] = q[j + 1]
    BY <2>1
  <2>4. DOMAIN Tail(q) = 1 .. Len(q) - 1 /\ DOMAIN q = 1 .. Len(q)
    BY <2>1, <2>3, LenProperties
  <2> HIDE DEF k
  <2>5. i \in 1 .. Len(q) - 1
    BY <2>2, <2>4
  <2>6. i + 1 \in 1 .. Len(q) /\ Tail(q)[i] = q[i + 1]
    BY <2>3, <2>5
  <2>. QED  BY <1>3, <2>1, <2>2, <2>4, <2>6
<1>. QED  BY <1>2, <1>3

LEMMA CopyNodeRead ==
  ASSUME ContentInv, ReadOk, CopyNode, TypesInv'
  PROVE  ReadOk'
<1> DEFINE e == Head(lists[gc])
<1>1. /\ pc = "collect" /\ lists[gc] # <<>> /\ lists' = [lists EXCEPT ![gc] = Tail(@)]
      /\ pc' = "copy" /\ cur'.op = "add" /\ cur'.n = e.n /\ cur'.sec = NoSection
      /\ gc' = IF gc = NoSection THEN head ELSE gc
      /\ out' = IF e.n.kind = "dir" THEN UnitsOf("add", e.n)
                ELSE << Meta("add", e.n) >> \o
                     [i \in 1 .. NodeLength("add", e.n) - 1 |->
                        IF i <= MetaRest THEN More("add", e.n, i)
                        ELSE CopyOf(Behind(gc, e.off, i)[1], Behind(gc, e.off, i)[2])]
      /\ UNCHANGED <<flash, cache, off, tail>>
  BY DEF CopyNode, StartNode
<1>2. gc \in Section /\ gc' = gc /\ lists \in Lists /\ off \in Nat
  BY <1>1 DEF ContentInv, TypesInv, RamTypes, CallTypes, Section, NoSection
<1>3. Within(lists', lists) /\ Medium' = Medium
  BY <1>1, <1>2, TailWithin, MediumStays
<1>4. HoldsLists(Medium, lists)' /\ TailEntries'
  BY <1>1, <1>2, <1>3, ListsStayRead DEF ContentInv
<1>5. e \in Entry /\ e = lists[gc][1] /\ 1 \in DOMAIN lists[gc]
  <2>1. lists[gc] \in Seq(Entry)
    BY <1>2 DEF Lists
  <2>. QED  BY <1>1, <2>1
<1> HIDE DEF e
<1>6. HoldsEntry(Medium, gc, e)
  BY <1>2, <1>5 DEF ReadOk, HoldsLists
<1>7. /\ Len(out') = NodeLength("add", e.n)
      /\ ToFetch(Medium, out', UnitsOf("add", e.n))
      /\ \A j \in 1 .. Len(out') :
           out'[j].u = "copy" => out'[j].sec \in {gc, get_next_section(gc)}
  <2>1. PICK q : q = out'
    OBVIOUS
  <2>2. PICK s \in Section, d \in Entry : s = gc /\ d = e
    BY <1>2, <1>5
  <2>3. HoldsEntry(Medium, s, d)
    BY <1>6, <2>2
  <2>4. q = CopyUnits(s, d)
    BY <1>1, <2>1, <2>2 DEF CopyUnits
  <2>5. /\ Len(q) = NodeLength("add", d.n)
        /\ ToFetch(Medium, q, UnitsOf("add", d.n))
        /\ \A j \in 1 .. Len(q) : q[j].u = "copy" => q[j].sec \in {s, get_next_section(s)}
    BY <2>3, <2>4, CopyBegun
  <2>. QED  BY <2>1, <2>2, <2>5
<1>8. Units' = UnitsOf("add", e.n)
  BY <1>1 DEF Units
<1>9. ToFetch(Medium, out, Units)'
  BY <1>3, <1>7, <1>8
<1>10. Done' = 0
  <2>1. e.n \in Node /\ "add" \in Op
    BY <1>5 DEF Entry, Op
  <2>2. Len(Units') = NodeLength("add", e.n) /\ NodeLength("add", e.n) \in Nat
    BY <1>8, <2>1, UnitsTyped, NodeLengths
  <2>. QED  BY <1>7, <2>2 DEF Done
<1>11. Placed' /\ FromCollected'
  BY <1>1, <1>2, <1>7, <1>10 DEF Placed, FromCollected
<1>12. PartOk'
  BY <1>1, <1>9, <1>11 DEF PartOk
<1>. QED  BY <1>4, <1>12 DEF ReadOk

(* What is not read in section h is held as before. *)
LEMMA HoldsApart ==
  ASSUME NEW m, NEW m2, NEW h \in Section, \A t \in Section : t # h => m2[t] = m[t],
         NEW s \in Section, s # h, NEW o \in 1 .. Size - 1,
         NEW op \in Op, NEW n \in Node, NEW k \in Int, k <= NodeLength(op, n),
         get_next_section(s) = h => o + k <= Size,
         Holds(m, s, o, UnitsOf(op, n), k)
  PROVE  Holds(m2, s, o, UnitsOf(op, n), k)
<1>1. SUFFICES ASSUME NEW i \in 1 .. k
               PROVE  LET b == Behind(s, o, i - 1) IN m2[b[1]][b[2]] = UnitsOf(op, n)[i]
  BY DEF Holds
<1>2. i \in 1 .. NodeLength(op, n) /\ NodeLength(op, n) \in Nat
  BY NodeLengths
<1>3. PICK b : b = Behind(s, o, i - 1)
  OBVIOUS
<1>4. /\ b[1] \in Section
      /\ b = IF o + (i - 1) >= Size
             THEN << get_next_section(s), o + (i - 1) - Size + 1 >>
             ELSE << s, o + (i - 1) >>
  BY <1>2, <1>3, PlacesTyped
<1>5. b[1] # h
  <2>1. CASE o + (i - 1) >= Size
    <3>1. ~(o + k <= Size)
      BY <1>2, <2>1, Sizes
    <3>. QED  BY <1>4, <2>1, <3>1
  <2>2. CASE ~(o + (i - 1) >= Size)
    BY <1>4, <2>2
  <2>. QED  BY <2>1, <2>2
<1>6. m[b[1]][b[2]] = UnitsOf(op, n)[i]
  BY <1>1, <1>3 DEF Holds
<1>. QED  BY <1>3, <1>4, <1>5, <1>6

LEMMA NextSectionRead ==
  ASSUME LiveFits, TailInv, ContentInv, RoomOk, HeldFits, ReadOk, NextSection, TypesInv'
  PROVE  ReadOk'
<1>1. RoomOk' /\ pc' = pc
  BY NextSectionRoom DEF TailInv
<1>2. /\ pc \in {"write", "copy"} /\ off = Size /\ head = get_next_section(tail)
      /\ UNCHANGED <<gc, lists, call, cur>>
      /\ out' = << Fetched(Head(out)) >> \o Tail(out)
      /\ lists[head] = <<>> /\ tail' = head /\ head' = get_next_section(head) /\ off' = 1
  BY <1>1 DEF NextSection, Writing, RoomOk
<1>3. /\ gc \in Section /\ head \in Section /\ tail \in Section /\ cur \in Write
      /\ lists \in Lists
      /\ out \in Seq(Unit \cup Copied) /\ Len(out) \in Nat /\ Len(out) >= 1
      /\ cur.sec # NoSection => cur.off >= 1
  <2>1. gc \in Section \cup {NoSection} /\ gc # NoSection
    BY <1>2 DEF ContentInv, TypesInv, RamTypes, RoomOk
  <2>. QED  BY <1>2, <2>1 DEF ContentInv, TypesInv, RamTypes, WriteTypes, Writing
<1>4. \A s \in Section : s # head => Medium'[s] = Medium[s]
  BY <1>2, NextSectionMedium DEF ContentInv
<1>5. PICK m : m = Medium
  OBVIOUS
<1>6. PICK m2 : m2 = Medium'
  OBVIOUS
<1>7. ASSUME NEW s \in Section, get_next_section(s) = head PROVE s = tail
  BY <1>2, <1>3, <1>7, Sizes DEF get_next_section, Section
<1>8. HoldsLists(Medium', lists)
  <2>1. SUFFICES ASSUME NEW s \in Section, NEW j \in DOMAIN lists[s]
                 PROVE  HoldsEntry(m2, s, lists[s][j])
    BY <1>6 DEF HoldsLists
  <2>2. PICK e : e = lists[s][j]
    OBVIOUS
  <2>3. e \in Entry /\ HoldsEntry(m, s, e)
    BY <1>3, <1>5, <2>2 DEF Lists, ReadOk, HoldsLists
  <2>4. e.n \in Node /\ e.off \in 1 .. Size - 1 /\ "add" \in Op
    BY <2>3 DEF Entry, Op
  <2>5. s # head
    BY <1>2, <2>1
  <2>6. get_next_section(s) = head => e.off + NodeLength("add", e.n) <= Size
    <3>1. s = tail => e.off + NodeLength("add", e.n) <= off
      BY <2>2 DEF ReadOk, TailEntries
    <3>. QED  BY <1>2, <1>7, <3>1
  <2>7. NodeLength("add", e.n) \in Int
    BY <2>4, NodeLengths
  <2>8. \A t \in Section : t # head => m2[t] = m[t]
    BY <1>4, <1>5, <1>6
  <2>9. HoldsEntry(m2, s, e)
    <3>1. PICK k \in Int : k = NodeLength("add", e.n)
      BY <2>7
    <3>2. k <= NodeLength("add", e.n) /\ (get_next_section(s) = head => e.off + k <= Size)
      BY <2>6, <3>1
    <3>3. Holds(m, s, e.off, UnitsOf("add", e.n), k)
      BY <2>3, <3>1 DEF HoldsEntry
    <3>4. Holds(m2, s, e.off, UnitsOf("add", e.n), k)
      BY <1>3, <2>4, <2>5, <2>8, <3>2, <3>3, HoldsApart
    <3>. QED  BY <3>1, <3>4 DEF HoldsEntry
  <2>. QED  BY <2>2, <2>9
<1>9. TailEntries'
  <2>1. DOMAIN lists'[tail'] = {}
    BY <1>2
  <2>. QED  BY <2>1 DEF TailEntries
<1>10. /\ Len(out') = Len(out) /\ out'[1] = Fetched(out[1])
       /\ \A j \in 1 .. Len(out) : j # 1 => out'[j] = out[j]
  <2>1. /\ Tail(out) \in Seq(Unit \cup Copied) /\ Len(Tail(out)) = Len(out) - 1
        /\ \A j \in 1 .. Len(out) - 1 : Tail(out)[j] = out[j + 1]
        /\ Head(out) = out[1]
    BY <1>3
  <2> DEFINE T == {Fetched(Head(out))} \cup Unit \cup Copied
             a == << Fetched(Head(out)) >>
             b == Tail(out)
  <2>2. a \in Seq(T) /\ b \in Seq(T) /\ Len(a) = 1 /\ a[1] = Fetched(Head(out))
        /\ Len(b) = Len(out) - 1 /\ \A j \in 1 .. Len(out) - 1 : b[j] = out[j + 1]
    BY <2>1
  <2>3. out' = a \o b
    BY <1>2
  <2> HIDE DEF a, b, T
  <2>4. /\ Len(a \o b) = Len(a) + Len(b)
        /\ \A i \in 1 .. Len(a) + Len(b) :
             (a \o b)[i] = IF i <= Len(a) THEN a[i] ELSE b[i - Len(a)]
    BY <2>2, ConcatProperties
  <2>5. Len(out') = Len(out)
    BY <1>3, <2>2, <2>3, <2>4
  <2>6. out'[1] = a[1]
    BY <1>3, <2>2, <2>3, <2>4
  <2>7. ASSUME NEW j \in 1 .. Len(out), j # 1 PROVE out'[j] = out[j]
    <3>1. /\ j \in 1 .. Len(a) + Len(b) /\ ~(j <= Len(a)) /\ j - Len(a) = j - 1
          /\ j - 1 \in 1 .. Len(out) - 1 /\ (j - 1) + 1 = j
      BY <1>3, <2>2, <2>7
    <3>2. (a \o b)[j] = b[j - 1]
      BY <2>4, <3>1
    <3>3. b[j - 1] = out[j]
      BY <2>2, <3>1
    <3>. QED  BY <2>3, <3>2, <3>3
  <2>. QED  BY <2>1, <2>2, <2>5, <2>6, <2>7
<1>11. PartOk /\ Begun
  BY <1>2 DEF ReadOk, RoomOk, Writing
<1>12. Units' = Units /\ Done' = Done
  BY <1>2, <1>10 DEF Units, Done
<1>13. pc = "copy" => head # gc /\ head # get_next_section(gc)
  <2>1. SUFFICES ASSUME pc = "copy" PROVE head # gc /\ head # get_next_section(gc)
    OBVIOUS
  <2>2. Ahead(head, gc) = 1 \/ gc = head
    BY <2>1 DEF RoomOk, RoomToCollect
  <2>3. Ahead(get_next_section(head), gc) = 1 \/ gc = get_next_section(head)
    BY <1>1, <1>2, <2>1 DEF RoomOk, RoomToCollect
  <2>4. gc = get_next_section(head) /\ gc # head
    BY <1>3, <2>2, <2>3, Sizes DEF Ahead, get_next_section, Section
  <2>5. head # get_next_section(gc)
    BY <1>3, <2>4, Sizes DEF get_next_section, Section
  <2>. QED  BY <2>4, <2>5
<1>14. \A j \in 1 .. Len(out) : out[j] \in Unit \cup Copied /\ Fetched(out[j]) \in Unit
  <2>1. \A j \in 1 .. Len(out) : out[j] \in Unit \cup Copied
    BY <1>3
  <2>. QED  BY <2>1, FetchedTyped DEF ContentInv
<1>15. \A j \in 1 .. Len(out) : FetchedFrom(Medium', out'[j]) = FetchedFrom(Medium, out[j])
  <2>1. SUFFICES ASSUME NEW j \in 1 .. Len(out)
                 PROVE  FetchedFrom(m2, out'[j]) = FetchedFrom(m, out[j])
    BY <1>5, <1>6
  <2>2. Fetched(out[j]) = FetchedFrom(m, out[j])
    BY <1>5, <1>14, FetchedFromMedium
  <2>3. CASE j = 1
    BY <1>10, <1>14, <2>2, <2>3, FetchedFromMedium
  <2>4. CASE j # 1 /\ out[j] \in Unit
    BY <1>10, <2>4, FetchedFromMedium
  <2>5. CASE j # 1 /\ out[j] \in Copied
    <3>1. out'[j] = out[j] /\ out[j].u = "copy" /\ out[j].sec \in Section
      BY <1>10, <2>5 DEF Copied, CopyOf
    <3>2. out[j].sec # head
      BY <1>11, <1>13, <3>1 DEF PartOk, FromCollected
    <3>3. m2[out[j].sec] = m[out[j].sec]
      BY <1>4, <1>5, <1>6, <3>1, <3>2
    <3>. QED  BY <3>1, <3>3 DEF FetchedFrom
  <2>. QED  BY <1>14, <2>3, <2>4, <2>5
<1>16. ToFetch(Medium, out, Units)'
  <2>1. ToFetch(Medium, out, Units)
    BY <1>11 DEF PartOk
  <2>2. ToFetch(Medium', out', Units)
    BY <1>10, <1>15, <2>1 DEF ToFetch
  <2>. QED  BY <1>12, <2>2
<1>17. FromCollected'
  <2>1. SUFFICES ASSUME NEW j \in 1 .. Len(out), out'[j].u = "copy"
                 PROVE  pc = "copy" /\ out'[j].sec \in {gc, get_next_section(gc)}
    BY <1>1, <1>2, <1>10 DEF FromCollected
  <2>2. j # 1
    BY <1>10, <1>14, <2>1, UnitKinds
  <2>3. out'[j] = out[j]
    BY <1>10, <2>2
  <2>. QED  BY <1>11, <2>1, <2>3 DEF PartOk, FromCollected
<1>18. Placed'
  <2>1. CASE cur.sec = NoSection
    BY <1>2, <1>11, <1>12, <2>1 DEF Placed, PartOk
  <2>2. CASE cur.sec # NoSection
    <3>1. cur.sec \in Section /\ cur.off \in 1 .. Size - 1 /\ cur.op \in Op /\ cur.n \in Node
      BY <1>3, <2>2, Sizes DEF Write
    <3>2. ~(off + Len(out) <= Size)
      BY <1>2, <1>3, Sizes
    <3>3. cur.sec = tail
      BY <1>11, <2>2, <3>2 DEF Begun
    <3>4. tail # get_next_section(tail) /\ head # tail
      BY <1>2, <1>3, Sizes DEF get_next_section, Section
    <3>5. Holds(Medium, cur.sec, cur.off, Units, Done) /\ off = cur.off + Done
      BY <1>11, <2>2, <3>3, <3>4 DEF PartOk, Placed
    <3>6. Done \in Int /\ Done <= NodeLength(cur.op, cur.n)
      <4>1. Len(Units) = NodeLength(cur.op, cur.n) /\ NodeLength(cur.op, cur.n) \in Nat
        BY <3>1, UnitsTyped, NodeLengths DEF Units
      <4>. QED  BY <1>3, <4>1 DEF Done
    <3>7. Holds(m2, cur.sec, cur.off, Units, Done)
      <4>1. PICK s \in Section, o \in 1 .. Size - 1, op \in Op, n \in Node, k \in Int :
              /\ s = cur.sec /\ o = cur.off /\ op = cur.op /\ n = cur.n /\ k = Done
        BY <3>1, <3>6
      <4>2. Holds(m, s, o, UnitsOf(op, n), k) /\ k <= NodeLength(op, n) /\ s # head /\ o + k <= Size
        BY <1>2, <1>5, <3>3, <3>4, <3>5, <3>6, <4>1 DEF Units
      <4>3. \A t \in Section : t # head => m2[t] = m[t]
        BY <1>4, <1>5, <1>6
      <4>4. Holds(m2, s, o, UnitsOf(op, n), k)
        BY <1>3, <4>2, <4>3, HoldsApart
      <4>. QED  BY <4>1, <4>4 DEF Units
    <3>8. off' = cur.off + Done - Size + 1 /\ cur.off + Done >= Size
      BY <1>2, <3>1, <3>5, <3>6, Sizes
    <3>9. cur' = cur /\ tail' = get_next_section(cur.sec)
      BY <1>2, <3>3
    <3>. QED  BY <1>6, <1>12, <2>2, <3>7, <3>8, <3>9 DEF Placed
  <2>. QED  BY <2>1, <2>2
<1>19. PartOk'
  BY <1>1, <1>2, <1>11, <1>16, <1>17, <1>18 DEF PartOk
<1>20. HoldsLists(Medium, lists)'
  BY <1>2, <1>8
<1>. QED  BY <1>9, <1>19, <1>20 DEF ReadOk

(* Where the next unit of a node goes, k units of which are written.       *)
NextUnitAt(s, o, k) ==
  \/ s = tail /\ off = o + k
  \/ tail = get_next_section(s) /\ off = o + k - Size + 1 /\ o + k >= Size

(* What is programmed of a node is held behind what is written of it.      *)
LEMMA ProgramHolds ==
  ASSUME TailInv, Program, NEW op \in Op, NEW n \in Node, NEW k \in Nat,
         NEW p \in Nat, p = Portion, k + p <= NodeLength(op, n),
         NEW s \in Section, NEW o \in 1 .. Size - 1, NextUnitAt(s, o, k),
         Holds(Medium, s, o, UnitsOf(op, n), k),
         \A j \in 1 .. p : FetchedFrom(Medium, out[j]) = UnitsOf(op, n)[k + j]
  PROVE  Holds(Medium', s, o, UnitsOf(op, n), k + p)
<1>1. PICK m2 : m2 = Medium'
  OBVIOUS
<1>2. PICK len \in Nat : len = NodeLength(op, n) /\ len + 1 <= Size
  BY NodeLengths
<1>3. k <= NodeLength(op, n) /\ k \in Int
  BY <1>2
<1>4. Holds(m2, s, o, UnitsOf(op, n), k)
  BY <1>1, <1>3, ProgramKeepsRead, HoldsKept
<1>5. MovedInto /\ off \in Nat /\ off + p <= Size /\ tail \in Section
  <2>1. Writing /\ off < Size
    BY DEF Program
  <2>. QED  BY <2>1, ProgramMoves DEF TailInv, MovedInto, TypesInv, RamTypes
<1>6. SUFFICES ASSUME NEW i \in 1 .. k + p
               PROVE  LET b == Behind(s, o, i - 1) IN m2[b[1]][b[2]] = UnitsOf(op, n)[i]
  BY <1>1 DEF Holds
<1>7. CASE i <= k
  <2>1. i \in 1 .. k
    BY <1>7
  <2>. QED  BY <1>4, <2>1 DEF Holds
<1>8. CASE i > k
  <2>1. PICK j \in 1 .. p : i = k + j
    <3>1. i - k \in 1 .. p /\ i = k + (i - k)
      BY <1>8
    <3>. QED  BY <3>1
  <2>2. PICK b : b = Behind(s, o, i - 1)
    OBVIOUS
  <2>3. b = IF o + (i - 1) >= Size
            THEN << get_next_section(s), o + (i - 1) - Size + 1 >>
            ELSE << s, o + (i - 1) >>
    <3>1. i \in 1 .. NodeLength(op, n)
      BY <1>2
    <3>. QED  BY <2>2, <3>1, PlacesTyped
  <2>4. b[1] = tail /\ b[2] = off + j - 1
    <3>1. CASE s = tail /\ off = o + k
      <4>1. ~(o + (i - 1) >= Size) /\ o + (i - 1) = off + j - 1
        BY <1>5, <2>1, <3>1, Sizes
      <4>. QED  BY <2>3, <3>1, <4>1
    <3>2. CASE tail = get_next_section(s) /\ off = o + k - Size + 1 /\ o + k >= Size
      <4>1. o + (i - 1) >= Size /\ o + (i - 1) - Size + 1 = off + j - 1
        BY <1>5, <2>1, <3>2, Sizes
      <4>. QED  BY <2>3, <3>2, <4>1
    <3>. QED  BY <3>1, <3>2 DEF NextUnitAt
  <2>5. PICK q \in 0 .. Size - 1 : q = off + j - 1
    <3>1. off + j - 1 \in 0 .. Size - 1
      BY <1>5, <2>1, Sizes
    <3>. QED  BY <3>1
  <2>6. q >= off /\ q < off + Portion /\ q - off + 1 = j
    BY <1>5, <2>1, <2>5
  <2>7. m2[tail][q] = IF tail = tail /\ q >= off /\ q < off + Portion
                      THEN FetchedFrom(Medium, out[q - off + 1])
                      ELSE Medium[tail][q]
    <3>1. TypesInv
      BY DEF TailInv
    <3>2. \A t \in Section, x \in 0 .. Size - 1 :
            Medium'[t][x] = IF t = tail /\ x >= off /\ x < off + Portion
                            THEN FetchedFrom(Medium, out[x - off + 1])
                            ELSE Medium[t][x]
      BY <3>1, ProgramMedium
    <3>. QED  BY <1>1, <1>5, <3>2
  <2>8. m2[tail][q] = FetchedFrom(Medium, out[j])
    BY <2>6, <2>7
  <2>. QED  BY <2>1, <2>2, <2>4, <2>5, <2>8
<1>. QED  BY <1>7, <1>8

LEMMA ProgramFetches ==
  ASSUME TailInv, Program, ToFetch(Medium, out, Units), cur.op \in Op, cur.n \in Node
  PROVE  ToFetch(Medium', out', Units)
<1>1. /\ Programmed
      /\ \A i \in 1 .. Len(out) - Portion : out'[i] = out[Portion + i]
  BY ProgramDoes DEF TailInv
<1>2. MovedInto /\ Writing
  BY <1>1, ProgramMoves DEF Programmed, TailInv
<1>3. out \in Seq(Unit \cup Copied) /\ Len(out) \in Nat
  BY <1>2 DEF TailInv, TypesInv, WriteTypes
<1>4. PICK p \in Nat : p = Portion /\ p <= Len(out)
  BY <1>2 DEF MovedInto
<1>5. PICK m : m = Medium
  OBVIOUS
<1>6. PICK m2 : m2 = Medium'
  OBVIOUS
<1>7. KeptIn(m, m2)
  BY <1>5, <1>6, ProgramKeepsRead
<1>8. /\ Len(Units) \in Nat /\ Len(out) <= Len(Units)
      /\ \A j \in 1 .. Len(Units) : Units[j] # Erased
  BY UnitsTyped, NodeLengths DEF Units, ToFetch
<1>9. Len(out') = Len(out) - p /\ \A i \in 1 .. Len(out) - p : out'[i] = out[p + i]
  BY <1>1, <1>4 DEF Programmed
<1>10. ASSUME NEW i \in 1 .. Len(out) - p
       PROVE  FetchedFrom(m2, out'[i]) = Units[Len(Units) - Len(out') + i]
  <2>1. PICK j \in 1 .. Len(out) : j = p + i
    <3>1. p + i \in 1 .. Len(out)
      BY <1>3, <1>4
    <3>. QED  BY <3>1
  <2>2. Len(Units) - Len(out') + i = Len(Units) - Len(out) + j
        /\ Len(Units) - Len(out) + j \in 1 .. Len(Units)
    BY <1>3, <1>4, <1>8, <1>9, <2>1
  <2>3. FetchedFrom(m, out[j]) = Units[Len(Units) - Len(out) + j]
    BY <1>5 DEF ToFetch
  <2>4. out[j] \in Unit \cup Copied /\ out'[i] = out[j]
    BY <1>3, <1>9, <2>1
  <2>5. FetchedFrom(m2, out[j]) = FetchedFrom(m, out[j])
    <3>1. CASE out[j] \in Unit
      BY <3>1, FetchedFromMedium
    <3>2. CASE out[j] \in Copied
      <4>1. out[j].u = "copy" /\ out[j].sec \in Section /\ out[j].off \in 0 .. Size - 1
        BY <3>2, Sizes DEF Copied, CopyOf
      <4>2. m[out[j].sec][out[j].off] # Erased
        BY <1>8, <2>2, <2>3, <4>1 DEF FetchedFrom
      <4>3. m2[out[j].sec][out[j].off] = m[out[j].sec][out[j].off]
        BY <1>7, <4>1, <4>2 DEF KeptIn
      <4>. QED  BY <4>1, <4>3 DEF FetchedFrom
    <3>. QED  BY <2>4, <3>1, <3>2
  <2>. QED  BY <2>2, <2>3, <2>4, <2>5
<1>11. Len(out') <= Len(Units)
  BY <1>3, <1>4, <1>8, <1>9
<1>12. ToFetch(m2, out', Units)
  BY <1>9, <1>10, <1>11 DEF ToFetch
<1>. QED  BY <1>6, <1>12

LEMMA ProgramPlaces ==
  ASSUME TailInv, ReadOk, Program
  PROVE  /\ Programmed /\ PartOk
         /\ Done \in Nat /\ Len(Units) = NodeLength(cur.op, cur.n)
         /\ NodeLength(cur.op, cur.n) \in Nat
         /\ Portion \in Nat /\ Done + Len(out) = NodeLength(cur.op, cur.n)
         /\ Done + Portion <= NodeLength(cur.op, cur.n)
         /\ NextUnitAt(Place.sec, Place.off, Done)
         /\ Holds(Medium', Place.sec, Place.off, Units, Done + Portion)
         /\ ToFetch(Medium', out', Units)
<1>1. Programmed /\ Writing /\ MovedInto
  <2>1. Programmed
    BY ProgramDoes DEF TailInv
  <2>. QED  BY <2>1, ProgramMoves DEF Programmed, TailInv
<1>2. PartOk
  BY <1>1 DEF ReadOk
<1>3. /\ cur \in Write /\ cur.op \in Op /\ cur.n \in Node /\ tail \in Section /\ off \in Nat
      /\ Len(out) \in Nat /\ NoSection \notin Section
      /\ Place.sec \in Section /\ Place.off \in 1 .. Size - 1
      /\ Portion \in Nat /\ Portion <= Len(out)
  BY <1>1 DEF Programmed, MovedInto, Write, TailInv, TypesInv, RamTypes, WriteTypes, NoSection, Section
<1>4. Len(Units) = NodeLength(cur.op, cur.n) /\ NodeLength(cur.op, cur.n) \in Nat
  BY <1>3, UnitsTyped, NodeLengths DEF Units
<1>5. Len(out) <= Len(Units)
      /\ \A j \in 1 .. Len(out) :
           FetchedFrom(Medium, out[j]) = Units[Len(Units) - Len(out) + j]
  BY <1>2 DEF PartOk, ToFetch
<1>6. Done \in Nat /\ Done = Len(Units) - Len(out)
      /\ Done + Len(out) = NodeLength(cur.op, cur.n)
      /\ Done + Portion <= NodeLength(cur.op, cur.n)
  BY <1>3, <1>4, <1>5 DEF Done
<1>7. NextUnitAt(Place.sec, Place.off, Done) /\ Holds(Medium, Place.sec, Place.off, Units, Done)
  <2>1. CASE cur.sec = NoSection
    <3>1. Done = 0 /\ Place.sec = tail /\ Place.off = off
      BY <1>2, <1>3, <2>1 DEF PartOk, Placed, Place, Write
    <3>2. Holds(Medium, Place.sec, Place.off, Units, 0)
      BY DEF Holds
    <3>. QED  BY <1>3, <3>1, <3>2 DEF NextUnitAt
  <2>2. CASE cur.sec # NoSection
    <3>1. Place = cur
      BY <2>2 DEF Place
    <3>. QED  BY <1>2, <2>2, <3>1 DEF PartOk, Placed, NextUnitAt
  <2>. QED  BY <2>1, <2>2
<1>8. \A j \in 1 .. Portion : FetchedFrom(Medium, out[j]) = Units[Done + j]
  <2>1. \A j \in 1 .. Portion : j \in 1 .. Len(out)
    BY <1>3
  <2>. QED  BY <1>5, <1>6, <2>1
<1>9. Holds(Medium', Place.sec, Place.off, Units, Done + Portion)
  <2>1. PICK op \in Op, n \in Node : op = cur.op /\ n = cur.n
    BY <1>3
  <2>2. PICK s \in Section, o \in 1 .. Size - 1 : s = Place.sec /\ o = Place.off
    BY <1>3
  <2>3. PICK k \in Nat, p \in Nat : k = Done /\ p = Portion
    BY <1>3, <1>6
  <2>4. Units = UnitsOf(op, n) /\ k + p <= NodeLength(op, n)
    BY <1>6, <2>1, <2>3 DEF Units
  <2>5. NextUnitAt(s, o, k) /\ Holds(Medium, s, o, UnitsOf(op, n), k)
    BY <1>7, <2>2, <2>3, <2>4
  <2>6. \A j \in 1 .. p : FetchedFrom(Medium, out[j]) = UnitsOf(op, n)[k + j]
    BY <1>8, <2>3, <2>4
  <2>7. Holds(Medium', s, o, UnitsOf(op, n), k + p)
    BY <2>3, <2>4, <2>5, <2>6, ProgramHolds
  <2>. QED  BY <2>2, <2>3, <2>4, <2>7
<1>10. ToFetch(Medium', out', Units)
  BY <1>2, <1>3, ProgramFetches DEF PartOk
<1>. QED  BY <1>1, <1>2, <1>3, <1>4, <1>6, <1>7, <1>9, <1>10

LEMMA PushedRead ==
  ASSUME NEW m, NEW l \in Lists, HoldsLists(m, l), NEW s \in Section, NEW e \in Entry,
         HoldsEntry(m, s, e)
  PROVE  HoldsLists(m, [l EXCEPT ![s] = Append(@, e)])
<1> DEFINE k == [l EXCEPT ![s] = Append(@, e)]
<1>1. SUFFICES ASSUME NEW t \in Section, NEW i \in DOMAIN k[t]
               PROVE  HoldsEntry(m, t, k[t][i])
  BY DEF HoldsLists
<1>2. CASE t # s
  <2>1. k[t] = l[t]
    BY <1>2 DEF Lists
  <2>. QED  BY <2>1 DEF HoldsLists
<1>3. CASE t = s
  <2>1. PICK q \in Seq(Entry) : q = l[s]
    BY DEF Lists
  <2>2. k[t] = Append(q, e)
    BY <1>3, <2>1 DEF Lists
  <2>3. /\ Len(q) \in Nat /\ DOMAIN q = 1 .. Len(q) /\ DOMAIN Append(q, e) = 1 .. Len(q) + 1
        /\ \A j \in 1 .. Len(q) : Append(q, e)[j] = q[j]
        /\ Append(q, e)[Len(q) + 1] = e
    BY <2>1
  <2> HIDE DEF k
  <2>4. CASE i = Len(q) + 1
    BY <1>3, <2>2, <2>3, <2>4
  <2>5. CASE i # Len(q) + 1
    <3>1. i \in 1 .. Len(q)
      BY <2>2, <2>3, <2>5
    <3>2. k[t][i] = l[s][i] /\ i \in DOMAIN l[s]
      BY <2>1, <2>2, <2>3, <3>1
    <3>. QED  BY <1>3, <3>2 DEF HoldsLists
  <2>. QED  BY <2>4, <2>5
<1>. QED  BY <1>2, <1>3

LEMMA PushedTail ==
  ASSUME NEW l \in Lists, NEW s \in Section, NEW t \in Section, NEW e \in Entry,
         NEW o \in Nat, NEW o2 \in Nat, o <= o2,
         \A i \in DOMAIN l[t] : l[t][i].off + NodeLength("add", l[t][i].n) <= o,
         s = t => e.off + NodeLength("add", e.n) <= o2
  PROVE  LET k == [l EXCEPT ![s] = Append(@, e)]
         IN  \A i \in DOMAIN k[t] : k[t][i].off + NodeLength("add", k[t][i].n) <= o2
<1> DEFINE k == [l EXCEPT ![s] = Append(@, e)]
<1>1. SUFFICES ASSUME NEW i \in DOMAIN k[t]
               PROVE  k[t][i].off + NodeLength("add", k[t][i].n) <= o2
  OBVIOUS
<1>2. ASSUME NEW j \in DOMAIN l[t] PROVE l[t][j].off + NodeLength("add", l[t][j].n) <= o2
  <2>1. PICK d \in Entry : d = l[t][j]
    BY DEF Lists
  <2>2. d.off \in Nat /\ d.n \in Node /\ "add" \in Op
    BY DEF Entry, Op
  <2>3. NodeLength("add", d.n) \in Nat
    BY <2>2, NodeLengths
  <2>4. d.off + NodeLength("add", d.n) <= o
    BY <2>1
  <2>5. d.off + NodeLength("add", d.n) <= o2
    BY <2>2, <2>3, <2>4
  <2>. QED  BY <2>1, <2>5
<1>3. CASE t # s
  <2>1. k[t] = l[t]
    BY <1>3 DEF Lists
  <2>. QED  BY <1>2, <2>1
<1>4. CASE t = s
  <2>1. PICK q \in Seq(Entry) : q = l[s]
    BY DEF Lists
  <2>2. k[t] = Append(q, e)
    BY <1>4, <2>1 DEF Lists
  <2>3. /\ Len(q) \in Nat /\ DOMAIN q = 1 .. Len(q) /\ DOMAIN Append(q, e) = 1 .. Len(q) + 1
        /\ \A j \in 1 .. Len(q) : Append(q, e)[j] = q[j]
        /\ Append(q, e)[Len(q) + 1] = e
    BY <2>1
  <2> HIDE DEF k
  <2>4. CASE i = Len(q) + 1
    BY <1>4, <2>2, <2>3, <2>4
  <2>5. CASE i # Len(q) + 1
    <3>1. i \in 1 .. Len(q)
      BY <2>2, <2>3, <2>5
    <3>2. k[t][i] = l[t][i] /\ i \in DOMAIN l[t]
      BY <1>4, <2>1, <2>2, <2>3, <3>1
    <3>. QED  BY <1>2, <3>2
  <2>. QED  BY <2>4, <2>5
<1>. QED  BY <1>3, <1>4

(* A node whose last unit is programmed can be read where it was put.      *)
LEMMA NodePut ==
  ASSUME TailInv, TypesInv', ReadOk, Program, Portion = Len(out), cur.op = "add",
         lists' = ListPush(lists, Place.sec, cur.n, Place.off)
  PROVE  HoldsLists(Medium, lists)' /\ TailEntries'
<1>1. /\ Programmed /\ Done \in Nat /\ Done + Portion = NodeLength(cur.op, cur.n)
      /\ NextUnitAt(Place.sec, Place.off, Done)
      /\ Holds(Medium', Place.sec, Place.off, Units, Done + Portion)
  BY ProgramPlaces
<1>2. /\ lists \in Lists /\ tail \in Section /\ tail' = tail /\ off \in Nat
      /\ off' = off + Portion /\ off' \in Nat /\ cur \in Write /\ cur.n \in Node
      /\ Place.sec \in Section /\ Place.off \in 1 .. Size - 1 /\ Portion \in Nat
      /\ HoldsLists(Medium, lists) /\ TailEntries
  <2>1. Portion \in Nat
    BY <1>1, ProgramMoves DEF Programmed, MovedInto, TailInv
  <2>. QED  BY <1>1, <2>1 DEF Programmed, Write, TailInv, TypesInv, RamTypes, ReadOk
<1>3. PICK e \in Entry : e = [n |-> cur.n, off |-> Place.off]
  BY <1>2 DEF Entry
<1>4. PICK s \in Section : s = Place.sec
  BY <1>2
<1>5. PICK m2 : m2 = Medium'
  OBVIOUS
<1>6. lists' = [lists EXCEPT ![s] = Append(@, e)]
  BY <1>3, <1>4 DEF ListPush
<1>7. e.n = cur.n /\ e.off = Place.off /\ Units = UnitsOf("add", e.n)
      /\ NodeLength("add", e.n) = Done + Portion
  BY <1>1, <1>3 DEF Units
<1>8. HoldsEntry(m2, s, e)
  BY <1>1, <1>4, <1>5, <1>7 DEF HoldsEntry
<1>9. HoldsLists(m2, lists)
  <2>1. KeptIn(Medium, Medium')
    BY ProgramKeepsRead
  <2>2. Within(lists, lists)
    BY DEF Within
  <2>3. HoldsLists(Medium', lists)
    BY <1>2, <2>1, <2>2, ListsKept
  <2>. QED  BY <1>5, <2>3
<1>10. HoldsLists(m2, lists')
  <2>1. HoldsLists(m2, [lists EXCEPT ![s] = Append(@, e)])
    BY <1>2, <1>8, <1>9, PushedRead
  <2>. QED  BY <1>6, <2>1
<1>11. TailEntries'
  <2>1. PICK t \in Section : t = tail /\ t = tail'
    BY <1>2
  <2>2. PICK o \in Nat, o2 \in Nat : o = off /\ o2 = off' /\ o <= o2
    BY <1>2
  <2>3. \A i \in DOMAIN lists[t] : lists[t][i].off + NodeLength("add", lists[t][i].n) <= o
    BY <1>2, <2>1, <2>2 DEF TailEntries
  <2>4. s = t => e.off + NodeLength("add", e.n) <= o2
    <3>1. SUFFICES ASSUME s = t PROVE e.off + NodeLength("add", e.n) <= o2
      OBVIOUS
    <3>2. off = Place.off + Done
      <4>1. tail # get_next_section(tail)
        BY <1>2, Sizes DEF get_next_section, Section
      <4>. QED  BY <1>1, <1>4, <2>1, <3>1, <4>1 DEF NextUnitAt
    <3>. QED  BY <1>1, <1>2, <1>7, <2>2, <3>2
  <2>5. \A i \in DOMAIN lists'[t] :
          lists'[t][i].off + NodeLength("add", lists'[t][i].n) <= o2
    <3>1. LET k == [lists EXCEPT ![s] = Append(@, e)]
          IN  \A i \in DOMAIN k[t] : k[t][i].off + NodeLength("add", k[t][i].n) <= o2
      BY <1>2, <2>2, <2>3, <2>4, PushedTail
    <3>. QED  BY <1>6, <3>1
  <2>. QED  BY <2>1, <2>2, <2>5 DEF TailEntries, NodeLength, BodyLen, DataLen
<1>. QED  BY <1>5, <1>10, <1>11

LEMMA ProgramRead ==
  ASSUME TailInv, ContentInv, ReadOk, Program, TypesInv'
  PROVE  ReadOk'
<1>1. /\ Programmed /\ PartOk /\ Done \in Nat
      /\ NextUnitAt(Place.sec, Place.off, Done)
      /\ Holds(Medium', Place.sec, Place.off, Units, Done + Portion)
      /\ ToFetch(Medium', out', Units)
  BY ProgramPlaces
<1>2. /\ lists \in Lists /\ lists' \in Lists /\ Distinct(lists)
      /\ tail \in Section /\ tail' = tail /\ gc' = gc /\ off \in Nat
      /\ off' = off + Portion /\ off' \in Nat /\ off' >= off /\ cur \in Write /\ cur.n \in Node
      /\ Place.sec \in Section /\ Place.sec # NoSection /\ Place.off \in 1 .. Size - 1
      /\ Portion \in Nat /\ Len(out) \in Nat /\ Portion <= Len(out)
      /\ HoldsLists(Medium, lists) /\ TailEntries
  <2>1. Portion \in Nat /\ Portion <= Len(out)
    BY <1>1, ProgramMoves DEF Programmed, MovedInto, TailInv
  <2>2. lists \in Lists /\ lists' \in Lists /\ tail \in Section /\ off \in Nat /\ off' \in Nat
        /\ Len(out) \in Nat
    BY <1>1 DEF Programmed, Writing, TailInv, TypesInv, RamTypes, WriteTypes
  <2>3. Distinct(lists) /\ HoldsLists(Medium, lists) /\ TailEntries
    BY DEF ReadOk, ContentInv, ContentTypes
  <2>4. off' = off + Portion /\ tail' = tail /\ gc' = gc /\ cur \in Write /\ cur.n \in Node
        /\ Place.sec \in Section /\ Place.sec # NoSection /\ Place.off \in 1 .. Size - 1
    BY <1>1 DEF Programmed, Write, Section, NoSection
  <2>. QED  BY <2>1, <2>2, <2>3, <2>4
<1>3. ASSUME Within(lists', lists) PROVE HoldsLists(Medium, lists)' /\ TailEntries'
  <2>1. KeptIn(Medium, Medium')
    BY ProgramKeepsRead
  <2>2. HoldsLists(Medium', lists')
    BY <1>2, <1>3, <2>1, ListsKept
  <2>3. TailEntries'
    BY <1>2, <1>3, TailEntriesKept
  <2>. QED  BY <2>2, <2>3
<1>4. CASE Portion < Len(out)
  <2>1. cur' = Place /\ UNCHANGED <<lists, pc, call>> /\ Place.n = cur.n /\ Place.op = cur.op
        /\ Len(out') = Len(out) - Portion
    BY <1>1, <1>4 DEF Programmed
  <2>2. HoldsLists(Medium, lists)' /\ TailEntries'
    BY <1>3, <2>1, AllWithin
  <2>3. Units' = Units
    BY <2>1 DEF Units
  <2>4. Done' = Done + Portion
    <3>1. Len(Units) \in Nat
      BY ProgramPlaces
    <3>. QED  BY <1>2, <2>1, <2>3, <3>1 DEF Done
  <2>5. FromCollected'
    <3>1. SUFFICES ASSUME NEW j \in 1 .. Len(out'), out'[j].u = "copy"
                   PROVE  pc' = "copy" /\ out'[j].sec \in {gc, get_next_section(gc)}
      BY <1>2 DEF FromCollected
    <3>2. Portion + j \in 1 .. Len(out) /\ j \in 1 .. Len(out) - Portion
      BY <1>2, <2>1
    <3>3. out'[j] = out[Portion + j]
      BY <3>2, ProgramDoes DEF TailInv
    <3>. QED  BY <1>1, <2>1, <3>1, <3>2, <3>3 DEF PartOk, FromCollected
  <2>6. ToFetch(Medium, out, Units)'
    BY <1>1, <2>3
  <2>7. Placed'
    <3>1. Holds(Medium', cur'.sec, cur'.off, Units', Done')
      BY <1>1, <2>1, <2>3, <2>4
    <3>2. cur'.sec # NoSection
      BY <1>2, <2>1
    <3>3. PICK o \in Nat, d \in Nat, p \in Nat : o = Place.off /\ d = Done /\ p = Portion
      BY <1>1, <1>2
    <3>4. \/ cur'.sec = tail' /\ off' = cur'.off + Done'
          \/ /\ tail' = get_next_section(cur'.sec)
             /\ off' = cur'.off + Done' - Size + 1 /\ cur'.off + Done' >= Size
      <4>1. CASE Place.sec = tail /\ off = Place.off + Done
        BY <1>2, <2>1, <2>4, <3>3, <4>1
      <4>2. CASE /\ tail = get_next_section(Place.sec)
                 /\ off = Place.off + Done - Size + 1 /\ Place.off + Done >= Size
        <5>1. o + (d + p) - Size + 1 = o + d - Size + 1 + p /\ o + (d + p) >= Size
          BY <3>3, <4>2, Sizes
        <5>2. off = o + d - Size + 1 /\ tail' = get_next_section(cur'.sec)
          BY <1>2, <2>1, <3>3, <4>2
        <5>3. off' = o + d - Size + 1 + p
          BY <1>2, <3>3, <5>2
        <5>4. cur'.off = o /\ Done' = d + p
          BY <2>1, <2>4, <3>3
        <5>. QED  BY <5>1, <5>2, <5>3, <5>4
      <4>. QED  BY <1>1, <4>1, <4>2 DEF NextUnitAt
    <3>. QED  BY <3>1, <3>2, <3>4 DEF Placed
  <2>8. pc' = "copy" => cur'.op = "add"
    BY <1>1, <2>1 DEF PartOk
  <2>. QED  BY <2>2, <2>5, <2>6, <2>7, <2>8 DEF PartOk, ReadOk
<1>5. CASE Portion = Len(out) /\ cur.op = "add"
  <2>1. lists' = ListPush(lists, Place.sec, cur.n, Place.off) /\ pc' \in {"collect", "idle", "next"}
    BY <1>1, <1>2, <1>5 DEF Programmed
  <2>2. HoldsLists(Medium, lists)' /\ TailEntries'
    BY <1>5, <2>1, NodePut
  <2>. QED  BY <2>1, <2>2 DEF ReadOk, Writing
<1>6. CASE Portion = Len(out) /\ cur.op # "add"
  <2>1. pc # "copy"
    BY <1>1, <1>6 DEF PartOk
  <2>2. lists' = ListDel(lists, cur.n) /\ pc' \in {"idle", "next"}
    BY <1>1, <1>2, <1>6, <2>1 DEF Programmed
  <2>3. HoldsLists(Medium, lists)' /\ TailEntries'
    BY <1>2, <1>3, <2>2, DeletedWithin
  <2>. QED  BY <2>2, <2>3 DEF ReadOk, Writing
<1>. QED  BY <1>2, <1>4, <1>5, <1>6

-----------------------------------------------------------------------------
(* Room and reading together: what each step needs of the other.           *)

ReadInv ==
  /\ RoomInv
  /\ losses = 0 => TailInv /\ ReadOk

LEMMA ReadStart == LiveFits /\ Init => ReadInv
<1>1. SUFFICES ASSUME LiveFits, Init PROVE ReadInv
  OBVIOUS
<1>2. RoomInv /\ TailInv
  BY <1>1, RoomInvStart, TailStart
<1>3. pc = "idle" /\ lists = EmptyLists
  <2>1. PICK f : f = [s \in Section |-> [i \in 0 .. Size - 1 |-> Erased]]
    OBVIOUS
  <2>2. ValidSections(f) = {}
    <3>1. \A s \in Section : f[s][0] = Erased
      BY <2>1, Sizes
    <3>. QED  BY <3>1 DEF ValidSections, Erased
  <2>. QED  BY <1>1, <2>1, <2>2 DEF Init, Recovered
<1>4. \A s \in Section : DOMAIN lists[s] = {}
  <2>1. \A s \in Section : lists[s] = <<>>
    BY <1>3 DEF EmptyLists
  <2>. QED  BY <2>1
<1>5. ReadOk
  <2>1. tail \in Section
    BY <1>2 DEF TailInv, TypesInv, RamTypes
  <2>. QED  BY <1>3, <1>4, <2>1 DEF ReadOk, HoldsLists, TailEntries, Writing
<1>. QED  BY <1>2, <1>5 DEF ReadInv

LEMMA ReadOkStep ==
  ASSUME LiveFits, RoomInv, losses = 0, TailInv, ReadOk, Call \/ Step, TypesInv'
  PROVE  ReadOk'
<1>1. ContentInv /\ RoomOk /\ HeldFits
  BY DEF RoomInv
<1>2. CASE Call
  BY <1>1, <1>2, CallRead
<1>3. CASE DelNext
  <2>1. PICK n \in todo : BeginUpdate("rm", n)
    BY <1>3 DEF DelNext
  <2>2. n \in Node /\ "rm" \in Op
    BY <1>1, LastVersion DEF ContentInv, ContentTypes, Op
  <2>. QED  BY <1>1, <2>1, <2>2, BeginRead
<1>4. CASE CopyNode
  BY <1>1, <1>4, CopyNodeRead
<1>5. CASE CollectionDone
  BY <1>1, <1>5, CollectionDoneRead
<1>6. CASE Program
  BY <1>1, <1>6, ProgramRead
<1>7. CASE NextSection
  BY <1>1, <1>7, NextSectionRead
<1>. QED  BY <1>2, <1>3, <1>4, <1>5, <1>6, <1>7 DEF Step

LEMMA ReadInvStep == LiveFits /\ ReadInv /\ [Next]_vars => ReadInv'
<1>1. SUFFICES ASSUME LiveFits, ReadInv, [Next]_vars PROVE ReadInv'
  OBVIOUS
<1>2. RoomInv /\ RoomInv' /\ losses \in Nat /\ TypesInv'
  BY <1>1, RoomInvStep DEF ReadInv, RoomInv, ContentInv
<1>3. ASSUME losses' = 0 PROVE TailInv' /\ ReadOk'
  <2>1. losses = 0 /\ TailInv /\ ReadOk /\ (Call \/ Step \/ UNCHANGED vars)
    BY <1>1, <1>2, <1>3, NoLossYet DEF ReadInv
  <2>2. CopyFaithful
    BY <2>1, ReadImpliesFaithful DEF TailInv
  <2>3. TailInv'
    BY <1>1, <2>1, <2>2, TailStep
  <2>4. CASE Call \/ Step
    BY <1>1, <1>2, <2>1, <2>3, <2>4, ReadOkStep
  <2>5. CASE UNCHANGED vars
    <3>1. UNCHANGED <<flash, cache, off, head, tail, gc, lists, pc, cur, out>>
      BY <2>5 DEF vars, ram
    <3>2. Medium' = Medium
      BY <3>1, MediumStays
    <3>3. Units' = Units
      BY <3>1 DEF Units
    <3>4. Done' = Done
      BY <3>1, <3>3 DEF Done
    <3>5. HoldsLists(Medium, lists)'
      BY <2>1, <3>1, <3>2 DEF ReadOk
    <3>6. TailEntries'
      BY <2>1, <3>1 DEF ReadOk, TailEntries, NodeLength, BodyLen, DataLen
    <3>7. FromCollected' = FromCollected
      BY <3>1 DEF FromCollected
    <3>8. Placed' = Placed
      BY <3>1, <3>2, <3>3, <3>4 DEF Placed
    <3>9. ToFetch(Medium', out', Units') = ToFetch(Medium, out, Units)
      BY <3>1, <3>2, <3>3
    <3>10. PartOk => PartOk'
      <4>1. SUFFICES ASSUME PartOk PROVE PartOk'
        OBVIOUS
      <4>2. ToFetch(Medium, out, Units)'
        BY <3>9, <4>1 DEF PartOk
      <4>3. FromCollected' /\ Placed'
        BY <3>7, <3>8, <4>1 DEF PartOk
      <4>4. pc' = "copy" => cur'.op = "add"
        BY <3>1, <4>1 DEF PartOk
      <4>. QED  BY <4>2, <4>3, <4>4 DEF PartOk
    <3>11. Writing' => PartOk'
      <4>1. Writing' => Writing
        BY <3>1 DEF Writing
      <4>. QED  BY <2>1, <3>10, <4>1 DEF ReadOk
    <3>. QED  BY <2>1, <2>3, <3>5, <3>6, <3>11 DEF ReadOk
  <2>. QED  BY <2>1, <2>3, <2>4, <2>5
<1>. QED  BY <1>2, <1>3 DEF ReadInv

(* Until the power fails every live node is read as it was stored, at      *)
(* every moment and through the cache, also the one a collection is        *)
(* copying: its copy is exact, and no section is erased before all that    *)
(* lived in it was copied.                                                 *)
THEOREM ReadableUntilLoss ==
  ASSUME LiveFits
  PROVE  Spec => [](losses = 0 => LiveReadable)
<1>1. Init => ReadInv
  BY ReadStart
<1>2. ReadInv /\ [Next]_vars => ReadInv'
  BY ReadInvStep
<1>3. ReadInv => (losses = 0 => LiveReadable)
  <2>1. SUFFICES ASSUME ReadInv, losses = 0 PROVE LiveReadable
    OBVIOUS
  <2>2. TypesInv /\ ReadOk /\ ContentInv
    BY <2>1 DEF ReadInv, RoomInv, ContentInv
  <2>3. \A s \in Section : \A i \in DOMAIN lists[s] : Readable(s, lists[s][i])
    BY <2>2, ReadImpliesReadable
  <2>4. CopyFaithful
    BY <2>2, ReadImpliesFaithful
  <2>5. pc = "idle" => Live = Current
    BY <2>2 DEF ContentInv, ContentOk
  <2>. QED  BY <2>3, <2>4, <2>5 DEF LiveReadable
<1>. QED  BY <1>1, <1>2, <1>3, PTL DEF Spec

(* And until then every page is erased before it is programmed, with no    *)
(* assumption on what a copy reads.                                        *)
THEOREM ErasedUntilLoss ==
  ASSUME LiveFits
  PROVE  Spec => [](losses = 0 => TailErased)
<1>1. Init => ReadInv
  BY ReadStart
<1>2. ReadInv /\ [Next]_vars => ReadInv'
  BY ReadInvStep
<1>3. ReadInv => (losses = 0 => TailErased)
  BY TailInvErased DEF ReadInv
<1>. QED  BY <1>1, <1>2, <1>3, PTL DEF Spec
=============================================================================

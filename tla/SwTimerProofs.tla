--------------------------- MODULE SwTimerProofs ---------------------------
(***************************************************************************)
(* Proofs about SwTimer and the list it keeps its timers in, for any       *)
(* number of timers, any periods and any range of the clock.               *)
(***************************************************************************)
EXTENDS SwTimer, FiniteSetTheorems, WellFoundedInduction, SequenceTheorems,
        TLAPS

(* Least elements and loops: every set of naturals has a least one, and a  *)
(* loop that follows the pointers f from a is defined for any number of    *)
(* turns.                                                                  *)
LEMMA LeastNat ==
  ASSUME NEW S, S \subseteq Nat, S # {}
  PROVE  \E m \in S : \A k \in S : m <= k
<1>1. PICK m \in S : \A k \in S : ~(<<k, m>> \in OpToRel(<, Nat))
  BY NatLessThanWellFounded, WFMin
<1>2. ASSUME NEW k \in S, k < m PROVE FALSE
  <2>1. <<k, m>> \in Nat \X Nat /\ <<k, m>>[1] = k /\ <<k, m>>[2] = m
    OBVIOUS
  <2>2. <<k, m>> \in OpToRel(<, Nat)
    BY <1>2, <2>1, Zenon DEF OpToRel
  <2>. QED  BY <1>1, <2>2
<1>. QED  BY <1>2

Follows(h, f, a, n) == h[0] = a /\ \A k \in 1 .. n : h[k] = f[h[k - 1]]

LEMMA LoopIsDefined ==
  ASSUME NEW S, NEW f \in [S -> S], NEW a \in S, NEW n \in Nat
  PROVE  \E h \in [0 .. n -> S] : Follows(h, f, a, n)
<1> DEFINE No == { m \in Nat : ~\E h \in [0 .. m -> S] : Follows(h, f, a, m) }
<1>1. SUFFICES ASSUME No # {} PROVE FALSE
  OBVIOUS
<1>2. PICK m \in No : \A k \in No : m <= k
  BY <1>1, LeastNat
<1>3. m # 0
  <2>1. SUFFICES ASSUME m = 0 PROVE FALSE
    OBVIOUS
  <2> DEFINE h == [k \in 0 .. 0 |-> a]
  <2>2. h \in [0 .. 0 -> S] /\ Follows(h, f, a, 0)
    BY DEF Follows
  <2>. QED  BY <2>1, <2>2
<1>4. m - 1 \in Nat /\ m - 1 \notin No
  <2>1. m - 1 \in Nat /\ ~(m <= m - 1)
    BY <1>2, <1>3
  <2> HIDE DEF No
  <2>. QED  BY <1>2, <2>1
<1>5. PICK g \in [0 .. m - 1 -> S] : Follows(g, f, a, m - 1)
  BY <1>4
<1> DEFINE h == [k \in 0 .. m |-> IF k = m THEN f[g[m - 1]] ELSE g[k]]
<1>6. h \in [0 .. m -> S]
  BY <1>4, <1>5
<1>7. Follows(h, f, a, m)
  BY <1>3, <1>4, <1>5 DEF Follows
<1>. QED  BY <1>2, <1>6, <1>7

(* What holds of the first turn and goes over from each to the next.       *)
LEMMA TurnByTurn ==
  ASSUME NEW n \in Nat, NEW Good, 0 \in Good,
         \A k \in 1 .. n : k - 1 \in Good => k \in Good
  PROVE  0 .. n \subseteq Good
<1> DEFINE Bad == { k \in 0 .. n : k \notin Good }
<1>1. SUFFICES ASSUME Bad # {} PROVE FALSE
  OBVIOUS
<1>2. PICK m \in Bad : \A k \in Bad : m <= k
  <2>1. Bad \subseteq Nat
    OBVIOUS
  <2>. QED  BY <1>1, <2>1, LeastNat
<1>3. m \in 1 .. n /\ m - 1 \in 0 .. n
  BY <1>2
<1>4. m - 1 \in Good
  BY <1>2, <1>3
<1>. QED  BY <1>2, <1>3, <1>4

-----------------------------------------------------------------------------
(* The list.  Ring(l, s): its headers are those of s, in that order.       *)

Pointer == Timer \cup {NULL}

Succ(s, i) == s[IF i = Len(s) THEN 1 ELSE i + 1]
Pred(s, i) == s[IF i = 1 THEN Len(s) ELSE i - 1]

Distinct(s) == \A i, j \in 1 .. Len(s) : s[i] = s[j] => i = j

In(t, s) == \E i \in 1 .. Len(s) : s[i] = t

Ring(l, s) ==
  /\ l \in [first : Pointer, next : [Timer -> Pointer], prev : [Timer -> Pointer]]
  /\ s \in Seq(Timer) /\ Distinct(s)
  /\ l.first = IF Len(s) = 0 THEN NULL ELSE s[1]
  /\ \A i \in 1 .. Len(s) : l.next[s[i]] = Succ(s, i) /\ l.prev[s[i]] = Pred(s, i)
  /\ \A t \in Timer : ~In(t, s) => l.next[t] = NULL /\ l.prev[t] = NULL

InsertedAt(s, p, e) ==
  [i \in 1 .. Len(s) + 1 |-> IF i <= p THEN s[i] ELSE IF i = p + 1 THEN e ELSE s[i - 1]]

WithoutAt(s, p) == [i \in 1 .. Len(s) - 1 |-> IF i < p THEN s[i] ELSE s[i + 1]]

LEMMA RingMembers ==
  ASSUME NEW l, NEW s \in Seq(Timer), Ring(l, s), NEW t \in Timer
  PROVE  List!cdll_is_elem_linked(l, t) <=> In(t, s)
<1>1. CASE In(t, s)
  <2>1. PICK i \in 1 .. Len(s) : s[i] = t
    BY <1>1 DEF In
  <2>2. Succ(s, i) \in Timer /\ Pred(s, i) \in Timer
    BY DEF Ring, Succ, Pred
  <2>. QED  BY <1>1, <2>1, <2>2, NullAssumption DEF Ring, List!cdll_is_elem_linked
<1>2. CASE ~In(t, s)
  BY <1>2 DEF Ring, List!cdll_is_elem_linked
<1>. QED  BY <1>1, <1>2

LEMMA InsertedAtSeq ==
  ASSUME NEW s \in Seq(Timer), Distinct(s), NEW p \in 0 .. Len(s),
         NEW e \in Timer, ~In(e, s)
  PROVE  LET r == InsertedAt(s, p, e)
         IN  /\ r \in Seq(Timer) /\ Len(r) = Len(s) + 1 /\ Distinct(r)
             /\ \A t \in Timer : In(t, r) <=> t = e \/ In(t, s)
             /\ r[p + 1] = e
             /\ \A i \in 1 .. p : r[i] = s[i]
             /\ \A i \in p + 1 .. Len(s) : r[i + 1] = s[i]
<1> DEFINE r == InsertedAt(s, p, e)
<1>1. Len(s) \in Nat /\ DOMAIN s = 1 .. Len(s)
  OBVIOUS
<1>2. r \in [1 .. Len(s) + 1 -> Timer]
  BY <1>1 DEF InsertedAt
<1>3. r \in Seq(Timer) /\ Len(r) = Len(s) + 1
  BY <1>1, <1>2
<1>4. /\ r[p + 1] = e
      /\ \A i \in 1 .. p : r[i] = s[i]
      /\ \A i \in p + 1 .. Len(s) : r[i + 1] = s[i]
  BY <1>1 DEF InsertedAt
<1>5. \A i \in 1 .. Len(r) : i \in 1 .. p \/ i = p + 1 \/ (i - 1 \in p + 1 .. Len(s) /\ r[i] = s[i - 1])
  BY <1>1, <1>3, <1>4
<1>6. Distinct(r)
  BY <1>1, <1>3, <1>4, <1>5 DEF Distinct, In
<1>7. ASSUME NEW t \in Timer PROVE In(t, r) <=> t = e \/ In(t, s)
  <2>1. In(t, r) => t = e \/ In(t, s)
    BY <1>1, <1>3, <1>4, <1>5 DEF In
  <2>2. In(e, r)
    BY <1>1, <1>3, <1>4 DEF In
  <2>3. ASSUME NEW i \in 1 .. Len(s) PROVE In(s[i], r)
    <3>1. CASE i <= p
      BY <1>1, <1>3, <1>4, <3>1 DEF In
    <3>2. CASE i > p
      <4>1. i + 1 \in 1 .. Len(r) /\ r[i + 1] = s[i]
        BY <1>1, <1>3, <1>4, <3>2
      <4>. QED  BY <4>1 DEF In
    <3>. QED  BY <1>1, <3>1, <3>2
  <2>. QED  BY <2>1, <2>2, <2>3 DEF In
<1>. QED  BY <1>3, <1>4, <1>6, <1>7

LEMMA WithoutAtSeq ==
  ASSUME NEW s \in Seq(Timer), Distinct(s), NEW p \in 1 .. Len(s)
  PROVE  LET r == WithoutAt(s, p)
         IN  /\ r \in Seq(Timer) /\ Len(r) = Len(s) - 1 /\ Distinct(r)
             /\ \A t \in Timer : In(t, r) <=> t # s[p] /\ In(t, s)
             /\ \A i \in 1 .. p - 1 : r[i] = s[i]
             /\ \A i \in p + 1 .. Len(s) : r[i - 1] = s[i]
<1> DEFINE r == WithoutAt(s, p)
<1>1. Len(s) \in Nat /\ DOMAIN s = 1 .. Len(s)
  OBVIOUS
<1>2. r \in [1 .. Len(s) - 1 -> Timer] /\ Len(s) - 1 \in Nat
  BY <1>1 DEF WithoutAt
<1>3. r \in Seq(Timer) /\ Len(r) = Len(s) - 1
  BY <1>2
<1>4. /\ \A i \in 1 .. p - 1 : r[i] = s[i]
      /\ \A i \in p + 1 .. Len(s) : r[i - 1] = s[i]
  BY <1>1 DEF WithoutAt
<1>5. \A i \in 1 .. Len(r) : i \in 1 .. p - 1 \/ (i + 1 \in p + 1 .. Len(s) /\ r[i] = s[i + 1])
  BY <1>1, <1>3, <1>4
<1>6. Distinct(r)
  BY <1>1, <1>3, <1>4, <1>5 DEF Distinct
<1>7. ASSUME NEW t \in Timer PROVE In(t, r) <=> t # s[p] /\ In(t, s)
  <2>1. ASSUME NEW i \in 1 .. Len(r) PROVE r[i] # s[p] /\ In(r[i], s)
    BY <1>1, <1>3, <1>4, <1>5 DEF In, Distinct
  <2>2. ASSUME NEW i \in 1 .. Len(s), i # p PROVE In(s[i], r)
    <3>1. CASE i < p
      BY <1>1, <1>3, <1>4, <3>1 DEF In
    <3>2. CASE i > p
      <4>1. i - 1 \in 1 .. Len(r) /\ r[i - 1] = s[i]
        BY <1>1, <1>3, <1>4, <3>2
      <4>. QED  BY <4>1 DEF In
    <3>. QED  BY <1>1, <2>2, <3>1, <3>2
  <2>. QED  BY <2>1, <2>2 DEF In
<1>. QED  BY <1>3, <1>4, <1>6, <1>7

-----------------------------------------------------------------------------
(* What each pointer operation makes of the ring.                          *)

LEMMA AloneRing ==
  ASSUME NEW l, NEW s \in Seq(Timer), Ring(l, s), Len(s) = 0, NEW e \in Timer
  PROVE  Ring(List!Alone(l, e), InsertedAt(s, 0, e))
<1> DEFINE r == InsertedAt(s, 0, e)
           m == List!Alone(l, e)
<1> SUFFICES Ring(m, r)
  OBVIOUS
<1>1. s \in Seq(Timer) /\ Distinct(s) /\ ~In(e, s) /\ 0 \in 0 .. Len(s)
  BY DEF Ring, In
<1>2. /\ r \in Seq(Timer) /\ Len(r) = 1 /\ Distinct(r)
      /\ \A t \in Timer : In(t, r) <=> t = e \/ In(t, s)
      /\ r[1] = e
  <2>1. r = [i \in 1 .. 1 |-> e]
    BY DEF InsertedAt
  <2>2. r \in Seq(Timer) /\ Len(r) = 1 /\ r[1] = e
    BY <2>1
  <2>. QED  BY <2>2 DEF Distinct, In
<1>3. /\ m \in [first : Pointer, next : [Timer -> Pointer], prev : [Timer -> Pointer]]
      /\ m.first = e
      /\ m.next[e] = e /\ m.prev[e] = e
      /\ \A t \in Timer : t # e => m.next[t] = l.next[t] /\ m.prev[t] = l.prev[t]
  BY DEF List!Alone, Ring, Pointer
<1>4. \A t \in Timer : ~In(t, r) => m.next[t] = NULL /\ m.prev[t] = NULL
  BY <1>2, <1>3 DEF Ring
<1>5. \A i \in 1 .. Len(r) : m.next[r[i]] = Succ(r, i) /\ m.prev[r[i]] = Pred(r, i)
  BY <1>2, <1>3 DEF Succ, Pred
<1> HIDE DEF m, r
<1>. QED  BY <1>2, <1>3, <1>4, <1>5 DEF Ring

(* A header put behind the p-th; behind the last, the list may begin with  *)
(* it.                                                                     *)
LEMMA AfterPointers ==
  ASSUME NEW l, NEW s \in Seq(Timer), Ring(l, s), NEW p \in 1 .. Len(s),
         NEW e \in Timer, ~In(e, s)
  PROVE  LET m == List!After(l, s[p], e)
         IN  /\ m \in [first : Pointer, next : [Timer -> Pointer], prev : [Timer -> Pointer]]
             /\ m.first = l.first
             /\ m.next[s[p]] = e /\ m.prev[e] = s[p]
             /\ m.next[e] = Succ(s, p) /\ m.prev[Succ(s, p)] = e
             /\ \A t \in Timer : t # s[p] /\ t # e => m.next[t] = l.next[t]
             /\ \A t \in Timer : t # Succ(s, p) /\ t # e => m.prev[t] = l.prev[t]
<1>1. /\ s[p] \in Timer /\ Succ(s, p) \in Timer /\ s[p] # e /\ Succ(s, p) # e
      /\ l.next[s[p]] = Succ(s, p)
  BY DEF Ring, Succ, In
<1>. QED  BY <1>1 DEF List!After, Ring, Pointer

LEMMA AfterRing ==
  ASSUME NEW l, NEW s \in Seq(Timer), Ring(l, s), NEW p \in 1 .. Len(s),
         NEW e \in Timer, ~In(e, s)
  PROVE  Ring(List!After(l, s[p], e), InsertedAt(s, p, e))
<1> DEFINE r == InsertedAt(s, p, e)
           m == List!After(l, s[p], e)
<1> SUFFICES Ring(m, r)
  OBVIOUS
<1>1. /\ s \in Seq(Timer) /\ Distinct(s) /\ Len(s) \in Nat \ {0}
      /\ \A i \in 1 .. Len(s) : s[i] \in Timer
  BY DEF Ring
<1>2. /\ r \in Seq(Timer) /\ Len(r) = Len(s) + 1 /\ Distinct(r)
      /\ \A t \in Timer : In(t, r) <=> t = e \/ In(t, s)
      /\ r[p + 1] = e
      /\ \A i \in 1 .. p : r[i] = s[i]
      /\ \A i \in p + 1 .. Len(s) : r[i + 1] = s[i]
  BY <1>1, InsertedAtSeq
<1> HIDE DEF r
<1>3. /\ m \in [first : Pointer, next : [Timer -> Pointer], prev : [Timer -> Pointer]]
      /\ m.first = l.first
      /\ m.next[s[p]] = e /\ m.prev[e] = s[p]
      /\ m.next[e] = Succ(s, p) /\ m.prev[Succ(s, p)] = e
      /\ \A t \in Timer : t # s[p] /\ t # e => m.next[t] = l.next[t]
      /\ \A t \in Timer : t # Succ(s, p) /\ t # e => m.prev[t] = l.prev[t]
  BY AfterPointers
<1> HIDE DEF m
<1>4. ASSUME NEW t \in Timer, ~In(t, r) PROVE m.next[t] = NULL /\ m.prev[t] = NULL
  <2>1. t # e /\ ~In(t, s)
    BY <1>2, <1>4
  <2>2. t # s[p] /\ t # Succ(s, p)
    BY <1>1, <2>1 DEF In, Succ
  <2>3. l.next[t] = NULL /\ l.prev[t] = NULL
    BY <2>1 DEF Ring
  <2>. QED  BY <1>3, <2>1, <2>2, <2>3
<1>5. ASSUME NEW i \in 1 .. Len(r)
      PROVE  m.next[r[i]] = Succ(r, i) /\ m.prev[r[i]] = Pred(r, i)
  <2>1. CASE i = p + 1
    BY <1>1, <1>2, <1>3, <2>1 DEF Succ, Pred
  <2>2. CASE i <= p
    <3>1. s[i] # e /\ r[i] = s[i] /\ (i # p => s[i] # s[p])
      BY <1>1, <1>2, <2>2 DEF In, Distinct
    <3>2. m.next[r[i]] = Succ(r, i)
      <4>1. CASE i = p
        BY <1>1, <1>2, <1>3, <3>1, <4>1 DEF Succ
      <4>2. CASE i # p
        <5>1. i + 1 \in 1 .. p /\ l.next[s[i]] = s[i + 1]
          BY <1>1, <2>2, <4>2 DEF Ring, Succ
        <5>. QED  BY <1>1, <1>2, <1>3, <2>2, <3>1, <4>2, <5>1 DEF Succ
      <4>. QED  BY <4>1, <4>2
    <3>3. m.prev[r[i]] = Pred(r, i)
      <4>1. CASE i = 1 /\ p = Len(s)
        BY <1>1, <1>2, <1>3, <3>1, <4>1 DEF Succ, Pred
      <4>2. CASE i = 1 /\ p # Len(s)
        <5>1. Succ(s, p) = s[p + 1] /\ s[1] # s[p + 1] /\ l.prev[s[1]] = s[Len(s)]
          BY <1>1, <4>2 DEF Ring, Succ, Pred, Distinct
        <5>2. r[Len(s) + 1] = s[Len(s)]
          BY <1>1, <1>2, <4>2
        <5>. QED  BY <1>1, <1>2, <1>3, <3>1, <4>2, <5>1, <5>2 DEF Pred
      <4>3. CASE i # 1
        <5>1. i - 1 \in 1 .. p /\ l.prev[s[i]] = s[i - 1]
          BY <1>1, <2>2, <4>3 DEF Ring, Pred
        <5>2. s[i] # Succ(s, p)
          BY <1>1, <2>2, <4>3 DEF Succ, Distinct
        <5>. QED  BY <1>1, <1>2, <1>3, <2>2, <3>1, <4>3, <5>1, <5>2 DEF Pred
      <4>. QED  BY <4>1, <4>2, <4>3
    <3>. QED  BY <3>2, <3>3
  <2>3. CASE i > p + 1
    <3>1. /\ i - 1 \in p + 1 .. Len(s) /\ i = (i - 1) + 1
          /\ s[i - 1] # e /\ r[i] = s[i - 1] /\ s[i - 1] # s[p]
      <4>1. i - 1 \in p + 1 .. Len(s) /\ i = (i - 1) + 1
        BY <1>1, <1>2, <2>3
      <4>2. r[i] = s[i - 1]
        BY <1>2, <4>1
      <4>. QED  BY <1>1, <4>1, <4>2 DEF In, Distinct
    <3>2. m.next[r[i]] = Succ(r, i)
      <4>1. CASE i = Len(s) + 1
        BY <1>1, <1>2, <1>3, <3>1, <4>1 DEF Succ, Ring
      <4>2. CASE i # Len(s) + 1
        <5>1. i \in p + 1 .. Len(s) /\ i - 1 \in 1 .. Len(s)
          <6>1. i \in 1 .. Len(s) + 1 /\ p \in Nat /\ p > 0 /\ Len(s) \in Nat
            BY <1>1, <1>2
          <6>. QED  BY <2>3, <4>2, <6>1
        <5>2. Succ(s, i - 1) = s[i]
          BY <1>1, <5>1, <4>2 DEF Succ
        <5>3. l.next[s[i - 1]] = s[i]
          BY <5>1, <5>2 DEF Ring
        <5>4. m.next[r[i]] = s[i]
          BY <1>1, <1>3, <3>1, <5>1, <5>3
        <5>5. r[i + 1] = s[i]
          BY <1>2, <5>1
        <5>. QED  BY <1>2, <4>2, <5>4, <5>5 DEF Succ
      <4>. QED  BY <4>1, <4>2
    <3>3. m.prev[r[i]] = Pred(r, i)
      <4>1. CASE i = p + 2
        <5>1. Succ(s, p) = s[i - 1]
          BY <1>1, <3>1, <4>1 DEF Succ
        <5>. QED  BY <1>1, <1>2, <1>3, <3>1, <4>1, <5>1 DEF Pred
      <4>2. CASE i # p + 2
        <5>1. i - 2 \in p + 1 .. Len(s) /\ (i - 2) + 1 = i - 1
          BY <1>1, <2>3, <3>1, <4>2
        <5>2. r[i - 1] = s[i - 2] /\ l.prev[s[i - 1]] = s[i - 2]
          <6>1. i - 1 \in 1 .. Len(s) /\ Pred(s, i - 1) = s[i - 2]
            BY <1>1, <3>1, <5>1 DEF Pred
          <6>2. r[i - 1] = s[i - 2]
            BY <1>2, <5>1
          <6>. QED  BY <6>1, <6>2 DEF Ring
        <5>3. s[i - 1] # Succ(s, p)
          BY <1>1, <2>3, <3>1, <4>2 DEF Succ, Distinct
        <5>. QED  BY <1>1, <1>2, <1>3, <2>3, <3>1, <5>2, <5>3 DEF Pred
      <4>. QED  BY <4>1, <4>2
    <3>. QED  BY <3>2, <3>3
  <2>. QED  BY <1>1, <1>2, <2>1, <2>2, <2>3
<1>6. m.first = r[1]
  BY <1>1, <1>2, <1>3 DEF Ring
<1>. QED  BY <1>1, <1>2, <1>3, <1>4, <1>5, <1>6 DEF Ring

LEMMA FrontRing ==
  ASSUME NEW l, NEW s \in Seq(Timer), Ring(l, s), Len(s) # 0, NEW e \in Timer, ~In(e, s)
  PROVE  Ring([List!After(l, s[Len(s)], e) EXCEPT !.first = e], InsertedAt(s, 0, e))
<1> DEFINE r == InsertedAt(s, 0, e)
           n == Len(s)
           a == List!After(l, s[n], e)
           m == [a EXCEPT !.first = e]
<1> SUFFICES Ring(m, r)
  OBVIOUS
<1>1. /\ s \in Seq(Timer) /\ Distinct(s) /\ n \in Nat \ {0} /\ 0 \in 0 .. n
      /\ \A i \in 1 .. n : s[i] \in Timer
  BY DEF Ring
<1>2. /\ r \in Seq(Timer) /\ Len(r) = n + 1 /\ Distinct(r)
      /\ \A t \in Timer : In(t, r) <=> t = e \/ In(t, s)
      /\ r[0 + 1] = e
      /\ \A i \in 0 + 1 .. n : r[i + 1] = s[i]
  BY <1>1, InsertedAtSeq
<1> HIDE DEF r
<1>3. /\ a \in [first : Pointer, next : [Timer -> Pointer], prev : [Timer -> Pointer]]
      /\ a.next[s[n]] = e /\ a.prev[e] = s[n]
      /\ a.next[e] = s[1] /\ a.prev[s[1]] = e
      /\ \A t \in Timer : t # s[n] /\ t # e => a.next[t] = l.next[t]
      /\ \A t \in Timer : t # s[1] /\ t # e => a.prev[t] = l.prev[t]
  <2>1. n \in 1 .. Len(s) /\ Succ(s, n) = s[1]
    BY <1>1 DEF Succ
  <2>. QED  BY <2>1, AfterPointers
<1> HIDE DEF a
<1>4. /\ m \in [first : Pointer, next : [Timer -> Pointer], prev : [Timer -> Pointer]]
      /\ m.first = e /\ m.next = a.next /\ m.prev = a.prev
  BY <1>3 DEF Pointer
<1> HIDE DEF m
<1>5. \A t \in Timer : ~In(t, r) => m.next[t] = NULL /\ m.prev[t] = NULL
  BY <1>1, <1>2, <1>3, <1>4 DEF Ring, In
<1>6. ASSUME NEW i \in 1 .. Len(r)
      PROVE  m.next[r[i]] = Succ(r, i) /\ m.prev[r[i]] = Pred(r, i)
  <2>1. CASE i = 1
    <3>1. r[2] = s[1] /\ r[n + 1] = s[n] /\ r[1] = e
      BY <1>1, <1>2
    <3>. QED  BY <1>1, <1>2, <1>3, <1>4, <2>1, <3>1 DEF Succ, Pred
  <2>2. CASE i > 1
    <3>1. /\ i - 1 \in 1 .. n /\ s[i - 1] # e /\ r[i] = s[i - 1] /\ r[1] = e
          /\ (i - 1 # 1 => s[i - 1] # s[1]) /\ (i - 1 # n => s[i - 1] # s[n])
      <4>1. i - 1 \in 0 + 1 .. n /\ (i - 1) + 1 = i
        BY <1>1, <1>2, <2>2
      <4>2. r[i] = s[i - 1]
        BY <1>2, <4>1
      <4>. QED  BY <1>1, <1>2, <4>1, <4>2 DEF In, Distinct
    <3>2. m.next[r[i]] = Succ(r, i)
      <4>1. CASE i = n + 1
        BY <1>1, <1>2, <1>3, <1>4, <3>1, <4>1 DEF Succ
      <4>2. CASE i # n + 1
        <5>1. i + 1 = i + 1 /\ r[i + 1] = s[i] /\ i \in 1 .. n
          BY <1>1, <1>2, <2>2, <4>2
        <5>2. l.next[s[i - 1]] = s[i]
          BY <1>1, <3>1, <4>2 DEF Ring, Succ
        <5>. QED  BY <1>1, <1>2, <1>3, <1>4, <3>1, <4>2, <5>1, <5>2 DEF Succ
      <4>. QED  BY <4>1, <4>2
    <3>3. m.prev[r[i]] = Pred(r, i)
      <4>1. CASE i = 2
        BY <1>1, <1>2, <1>3, <1>4, <3>1, <4>1 DEF Pred
      <4>2. CASE i # 2
        <5>1. i - 2 \in 1 .. n /\ r[i - 1] = s[i - 2]
          <6>1. i - 2 \in 0 + 1 .. n /\ (i - 2) + 1 = i - 1
            BY <1>1, <1>2, <2>2, <4>2
          <6>. QED  BY <1>2, <6>1
        <5>2. l.prev[s[i - 1]] = s[i - 2]
          BY <1>1, <2>2, <3>1, <4>2 DEF Ring, Pred
        <5>. QED  BY <1>1, <1>2, <1>3, <1>4, <2>2, <3>1, <4>2, <5>1, <5>2 DEF Pred
      <4>. QED  BY <4>1, <4>2
    <3>. QED  BY <3>2, <3>3
  <2>. QED  BY <1>1, <1>2, <2>1, <2>2
<1>7. m.first = r[1]
  BY <1>2, <1>4
<1>. QED  BY <1>1, <1>2, <1>4, <1>5, <1>6, <1>7 DEF Ring

LEMMA WithoutRing ==
  ASSUME NEW l, NEW s \in Seq(Timer), Ring(l, s), Len(s) >= 2, NEW p \in 1 .. Len(s)
  PROVE  Ring(List!Without(l, s[p]), WithoutAt(s, p))
<1> DEFINE r == WithoutAt(s, p)
           n == Len(s)
           m == List!Without(l, s[p])
<1> SUFFICES Ring(m, r)
  OBVIOUS
<1>1. /\ s \in Seq(Timer) /\ Distinct(s) /\ n \in Nat /\ n > 1
      /\ \A i \in 1 .. n : s[i] \in Timer
      /\ \A i \in 1 .. n : l.next[s[i]] = Succ(s, i) /\ l.prev[s[i]] = Pred(s, i)
  BY DEF Ring
<1>2. /\ r \in Seq(Timer) /\ Len(r) = n - 1 /\ Distinct(r)
      /\ \A t \in Timer : In(t, r) <=> t # s[p] /\ In(t, s)
      /\ \A i \in 1 .. p - 1 : r[i] = s[i]
      /\ \A i \in p + 1 .. n : r[i - 1] = s[i]
  BY <1>1, WithoutAtSeq
<1> HIDE DEF r
<1>3. /\ m \in [first : Pointer, next : [Timer -> Pointer], prev : [Timer -> Pointer]]
      /\ m.first = IF l.first = s[p] THEN Succ(s, p) ELSE l.first
      /\ m.next[s[p]] = NULL /\ m.prev[s[p]] = NULL
      /\ m.next[Pred(s, p)] = Succ(s, p) /\ m.prev[Succ(s, p)] = Pred(s, p)
      /\ \A t \in Timer : t # s[p] /\ t # Pred(s, p) => m.next[t] = l.next[t]
      /\ \A t \in Timer : t # s[p] /\ t # Succ(s, p) => m.prev[t] = l.prev[t]
  <2>1. Succ(s, p) \in Timer /\ Pred(s, p) \in Timer /\ s[p] \in Timer
    BY <1>1 DEF Succ, Pred
  <2>2. Succ(s, p) # s[p] /\ Pred(s, p) # s[p]
    <3>1. Succ(s, p) # s[p]
      <4>1. CASE p = n
        BY <1>1, <4>1 DEF Succ, Distinct
      <4>2. CASE p # n
        BY <1>1, <4>2 DEF Succ, Distinct
      <4>. QED  BY <4>1, <4>2
    <3>2. Pred(s, p) # s[p]
      <4>1. CASE p = 1
        BY <1>1, <4>1 DEF Pred, Distinct
      <4>2. CASE p # 1
        BY <1>1, <4>2 DEF Pred, Distinct
      <4>. QED  BY <4>1, <4>2
    <3>. QED  BY <3>1, <3>2
  <2>3. m = [first |-> IF l.first = s[p] THEN Succ(s, p) ELSE l.first,
             next |-> [l.next EXCEPT ![Pred(s, p)] = Succ(s, p), ![s[p]] = NULL],
             prev |-> [l.prev EXCEPT ![Succ(s, p)] = Pred(s, p), ![s[p]] = NULL]]
    BY <1>1 DEF List!Without
  <2>4. l \in [first : Pointer, next : [Timer -> Pointer], prev : [Timer -> Pointer]]
    BY DEF Ring
  <2>5. Timer \subseteq Pointer /\ NULL \in Pointer
    BY DEF Pointer
  <2> HIDE DEF m
  <2>. QED  BY <2>1, <2>2, <2>3, <2>4, <2>5
<1> HIDE DEF m
<1>4. ASSUME NEW t \in Timer, ~In(t, r) PROVE m.next[t] = NULL /\ m.prev[t] = NULL
  <2>1. t = s[p] \/ ~In(t, s)
    BY <1>2, <1>4
  <2>2. ~In(t, s) => t # Succ(s, p) /\ t # Pred(s, p)
    BY <1>1 DEF In, Succ, Pred
  <2>. QED  BY <1>3, <2>1, <2>2 DEF Ring
<1>5. ASSUME NEW i \in 1 .. Len(r)
      PROVE  m.next[r[i]] = Succ(r, i) /\ m.prev[r[i]] = Pred(r, i)
  <2> DEFINE j == IF i < p THEN i ELSE i + 1
  <2>1. /\ j \in 1 .. n /\ j # p /\ r[i] = s[j] /\ s[j] # s[p] /\ s[j] \in Timer
        /\ (i < p /\ j = i) \/ (i >= p /\ j = i + 1)
    <3>1. CASE i < p
      BY <1>1, <1>2, <3>1 DEF Distinct
    <3>2. CASE i >= p
      <4>1. i + 1 \in p + 1 .. n /\ (i + 1) - 1 = i
        BY <1>1, <1>2, <3>2
      <4>. QED  BY <1>1, <1>2, <3>2, <4>1 DEF Distinct
    <3>. QED  BY <1>1, <1>2, <3>1, <3>2
  <2> HIDE DEF j
  <2>2. /\ Succ(s, j) = IF j = n THEN s[1] ELSE s[j + 1]
        /\ Pred(s, j) = IF j = 1 THEN s[n] ELSE s[j - 1]
        /\ Succ(s, p) = IF p = n THEN s[1] ELSE s[p + 1]
        /\ Pred(s, p) = IF p = 1 THEN s[n] ELSE s[p - 1]
    BY <1>1 DEF Succ, Pred
  <2>3. m.next[r[i]] = Succ(r, i)
    <3>1. CASE s[j] = Pred(s, p)
      <4>1. (p = 1 /\ j = n) \/ (p > 1 /\ j = p - 1)
        BY <1>1, <2>1, <2>2, <3>1 DEF Distinct
      <4>2. Succ(r, i) = Succ(s, p)
        <5>1. CASE p = n
          BY <1>1, <1>2, <2>1, <2>2, <4>1, <5>1 DEF Succ
        <5>2. CASE p # n
          <6>1. p + 1 \in p + 1 .. n /\ (p + 1) - 1 = p
            BY <1>1, <5>2
          <6>2. r[p] = s[p + 1]
            BY <1>2, <6>1
          <6>. QED  BY <1>1, <1>2, <2>1, <2>2, <4>1, <5>2, <6>2 DEF Succ
        <5>. QED  BY <5>1, <5>2
      <4>. QED  BY <1>3, <2>1, <3>1, <4>2
    <3>2. CASE s[j] # Pred(s, p)
      <4>1. m.next[r[i]] = Succ(s, j) /\ ~(p = 1 /\ j = n) /\ j # p - 1
        BY <1>1, <1>3, <2>1, <2>2, <3>2
      <4>2. CASE j = n
        <5>1. r[1] = s[1]
          BY <1>1, <1>2, <2>1, <4>1, <4>2
        <5>. QED  BY <1>1, <1>2, <2>1, <2>2, <4>1, <4>2, <5>1 DEF Succ
      <4>3. CASE j # n /\ i < p
        <5>1. i + 1 \in 1 .. p - 1
          BY <1>1, <2>1, <4>1, <4>3
        <5>. QED  BY <1>1, <1>2, <2>1, <2>2, <4>1, <4>3, <5>1 DEF Succ
      <4>4. CASE j # n /\ i >= p
        <5>1. j + 1 \in p + 1 .. n /\ (j + 1) - 1 = i + 1
          BY <1>1, <2>1, <4>4
        <5>2. r[i + 1] = s[j + 1]
          BY <1>2, <5>1
        <5>. QED  BY <1>1, <1>2, <2>1, <2>2, <4>1, <4>4, <5>2 DEF Succ
      <4>. QED  BY <2>1, <4>2, <4>3, <4>4
    <3>. QED  BY <3>1, <3>2
  <2>4. m.prev[r[i]] = Pred(r, i)
    <3>1. CASE s[j] = Succ(s, p)
      <4>1. (p = n /\ j = 1) \/ (p < n /\ j = p + 1)
        BY <1>1, <2>1, <2>2, <3>1 DEF Distinct
      <4>2. Pred(r, i) = Pred(s, p)
        <5>1. CASE p = 1
          <6>1. n \in p + 1 .. n
            BY <1>1, <5>1
          <6>2. r[n - 1] = s[n]
            BY <1>2, <6>1
          <6>. QED  BY <1>1, <1>2, <2>1, <2>2, <4>1, <5>1, <6>2 DEF Pred
        <5>2. CASE p # 1
          BY <1>1, <1>2, <2>1, <2>2, <4>1, <5>2 DEF Pred
        <5>. QED  BY <5>1, <5>2
      <4>. QED  BY <1>3, <2>1, <3>1, <4>2
    <3>2. CASE s[j] # Succ(s, p)
      <4>1. m.prev[r[i]] = Pred(s, j) /\ ~(p = n /\ j = 1) /\ j # p + 1
        <5>1. m.prev[r[i]] = l.prev[s[j]] /\ l.prev[s[j]] = Pred(s, j)
          BY <1>1, <1>3, <2>1, <3>2
        <5>2. (p = n /\ j = 1) \/ j = p + 1 => s[j] = Succ(s, p)
          BY <1>1, <2>1, <2>2
        <5>. QED  BY <3>2, <5>1, <5>2
      <4>2. CASE j = 1
        <5>1. n \in p + 1 .. n
          BY <1>1, <2>1, <4>1, <4>2
        <5>2. r[n - 1] = s[n]
          BY <1>2, <5>1
        <5>. QED  BY <1>1, <1>2, <2>1, <2>2, <4>1, <4>2, <5>2 DEF Pred
      <4>3. CASE j # 1 /\ i < p
        BY <1>1, <1>2, <2>1, <2>2, <4>1, <4>3 DEF Pred
      <4>4. CASE j # 1 /\ i >= p
        <5>1. j - 1 \in p + 1 .. n /\ (j - 1) - 1 = i - 1
          BY <1>1, <2>1, <4>1, <4>4
        <5>2. r[i - 1] = s[j - 1]
          BY <1>2, <5>1
        <5>. QED  BY <1>1, <1>2, <2>1, <2>2, <4>1, <4>4, <5>2 DEF Pred
      <4>. QED  BY <2>1, <4>2, <4>3, <4>4
    <3>. QED  BY <3>1, <3>2
  <2>. QED  BY <2>3, <2>4
<1>6. m.first = r[1]
  <2>1. l.first = s[1]
    BY <1>1 DEF Ring
  <2>2. CASE p = 1
    <3>1. 2 \in p + 1 .. n /\ 2 - 1 = 1
      BY <1>1, <2>2
    <3>2. r[1] = s[2]
      BY <1>2, <3>1
    <3>. QED  BY <1>1, <1>3, <2>1, <2>2, <3>2 DEF Succ
  <2>3. CASE p # 1
    BY <1>1, <1>2, <1>3, <2>1, <2>3 DEF Distinct
  <2>. QED  BY <2>2, <2>3
<1>. QED  BY <1>1, <1>2, <1>3, <1>4, <1>5, <1>6 DEF Ring

LEMMA EmptiedRing ==
  ASSUME NEW l, NEW s \in Seq(Timer), Ring(l, s), Len(s) = 1
  PROVE  Ring(List!Emptied(l, s[1]), WithoutAt(s, 1))
<1> DEFINE r == WithoutAt(s, 1)
           m == List!Emptied(l, s[1])
<1> SUFFICES Ring(m, r)
  OBVIOUS
<1>0. s \in Seq(Timer) /\ Distinct(s)
  BY DEF Ring
<1>1. s \in Seq(Timer) /\ Distinct(s) /\ 1 \in 1 .. Len(s) /\ s[1] \in Timer
  BY <1>0
<1>2. /\ r \in Seq(Timer) /\ Len(r) = Len(s) - 1 /\ Distinct(r)
      /\ \A t \in Timer : In(t, r) <=> t # s[1] /\ In(t, s)
  BY <1>1, WithoutAtSeq, Zenon
<1>3. /\ m \in [first : Pointer, next : [Timer -> Pointer], prev : [Timer -> Pointer]]
      /\ m.first = NULL
      /\ m.next[s[1]] = NULL /\ m.prev[s[1]] = NULL
      /\ \A t \in Timer : t # s[1] => m.next[t] = l.next[t] /\ m.prev[t] = l.prev[t]
  BY <1>1 DEF List!Emptied, Ring, Pointer
<1> HIDE DEF m, r
<1>4. Len(r) = 0
  BY <1>2
<1>5. \A t \in Timer : ~In(t, r) => m.next[t] = NULL /\ m.prev[t] = NULL
  BY <1>2, <1>3 DEF Ring
<1>. QED  BY <1>2, <1>3, <1>4, <1>5 DEF Ring

(* cdll_pop_front and cdll_extract take their header out of the ring.      *)
LEMMA ExtractRing ==
  ASSUME NEW l, NEW s \in Seq(Timer), Ring(l, s), NEW p \in 1 .. Len(s)
  PROVE  Ring(List!cdll_extract(l, s[p]), WithoutAt(s, p))
<1>1. s \in Seq(Timer) /\ Distinct(s) /\ l.prev[s[p]] = Pred(s, p) /\ Len(s) \in Nat
  BY DEF Ring
<1>2. CASE Len(s) = 1
  BY <1>1, <1>2, EmptiedRing DEF List!cdll_extract, Pred
<1>3. CASE Len(s) # 1
  <2>1. Len(s) >= 2
    BY <1>3
  <2>2. Pred(s, p) # s[p]
    <3>1. CASE p = 1
      BY <1>1, <2>1, <3>1 DEF Pred, Distinct
    <3>2. CASE p # 1
      BY <1>1, <2>1, <3>2 DEF Pred, Distinct
    <3>. QED  BY <3>1, <3>2
  <2>. QED  BY <1>1, <2>1, <2>2, WithoutRing DEF List!cdll_extract
<1>. QED  BY <1>2, <1>3

LEMMA PopRing ==
  ASSUME NEW l, NEW s \in Seq(Timer), Ring(l, s), l.first # NULL
  PROVE  /\ Len(s) >= 1 /\ l.first = s[1]
         /\ Ring(List!cdll_pop_front(l), WithoutAt(s, 1))
<1>1. /\ s \in Seq(Timer) /\ Distinct(s) /\ Len(s) \in Nat
      /\ Len(s) >= 1 /\ l.first = s[1] /\ 1 \in 1 .. Len(s)
  BY DEF Ring
<1>2. l.next[s[1]] = Succ(s, 1)
  BY <1>1 DEF Ring
<1>3. CASE Len(s) = 1
  BY <1>1, <1>2, <1>3, EmptiedRing DEF List!cdll_pop_front, Succ
<1>4. CASE Len(s) # 1
  <2>1. Len(s) >= 2
    <3>1. \A n \in Nat : n >= 1 /\ n # 1 => n >= 2
      OBVIOUS
    <3>. QED  BY <1>1, <1>4, <3>1
  <2>2. Succ(s, 1) = s[2] /\ s[2] # s[1]
    BY <1>1, <2>1 DEF Succ, Distinct
  <2>. QED  BY <1>1, <1>2, <2>1, <2>2, WithoutRing DEF List!cdll_pop_front
<1>. QED  BY <1>1, <1>3, <1>4

-----------------------------------------------------------------------------
(* The loops over the list.                                                *)

LEMMA SameCardinality ==
  ASSUME NEW S
  PROVE  List!Cardinality(S) = Cardinality(S)
BY Zenon DEF List!Cardinality, Cardinality

HeadersOf(s) == { s[i] : i \in 1 .. Len(s) }

LEMMA HeadersCounted ==
  ASSUME NEW s \in Seq(Timer), Distinct(s)
  PROVE  /\ Cardinality(HeadersOf(s)) = Len(s)
         /\ Cardinality(Timer) \in Nat /\ Len(s) <= Cardinality(Timer)
<1>1. Len(s) \in Nat /\ IsFiniteSet(1 .. Len(s)) /\ Cardinality(1 .. Len(s)) = Len(s)
  <2>1. \A n \in Nat : IsFiniteSet(1 .. n) /\ Cardinality(1 .. n) = n
    BY FS_Interval
  <2>2. Len(s) \in Nat
    OBVIOUS
  <2>. QED  BY <2>1, <2>2
<1>2. s \in Bijection(1 .. Len(s), HeadersOf(s)) /\ HeadersOf(s) \subseteq Timer
  <2>1. s \in [1 .. Len(s) -> HeadersOf(s)] /\ HeadersOf(s) \subseteq Timer
    BY DEF HeadersOf
  <2>2. s \in Injection(1 .. Len(s), HeadersOf(s))
    BY <2>1 DEF Injection, IsInjective, Distinct
  <2>3. s \in Surjection(1 .. Len(s), HeadersOf(s))
    BY <2>1 DEF Surjection, HeadersOf
  <2>. QED  BY <2>1, <2>2, <2>3 DEF Bijection
<1>3. ExistsBijection(1 .. Len(s), HeadersOf(s))
  BY <1>2 DEF ExistsBijection
<1>4. Cardinality(HeadersOf(s)) = Len(s)
  BY <1>1, <1>3, FS_Bijection
<1>5. Cardinality(Timer) \in Nat /\ Cardinality(HeadersOf(s)) <= Cardinality(Timer)
  BY <1>2, NullAssumption, FS_CardinalityType, FS_Subset
<1>. QED  BY <1>4, <1>5

LEMMA BackwardsDefined ==
  ASSUME NEW l, NEW s \in Seq(Timer), Ring(l, s), Len(s) # 0
  PROVE  List!Backwards(l) =
           [k \in 0 .. Cardinality(Timer) |->
              IF k = 0 THEN l.prev[l.first] ELSE l.prev[List!Backwards(l)[k - 1]]]
<1> DEFINE N == Cardinality(Timer)
           S == HeadersOf(s)
           f == [t \in S |-> l.prev[t]]
           a == l.prev[l.first]
           Is(h) == h = [k \in 0 .. N |-> IF k = 0 THEN a ELSE l.prev[h[k - 1]]]
<1>1. /\ Distinct(s) /\ 1 \in 1 .. Len(s) /\ l.first = s[1]
      /\ \A i \in 1 .. Len(s) : l.prev[s[i]] = Pred(s, i)
  BY DEF Ring
<1>2. \A i \in 1 .. Len(s) : Pred(s, i) \in S
  BY <1>1 DEF Pred, HeadersOf
<1>3. f \in [S -> S] /\ a \in S
  BY <1>1, <1>2 DEF HeadersOf
<1>4. N \in Nat
  BY <1>1, HeadersCounted
<1> HIDE DEF S, N, a
<1>5. PICK h \in [0 .. N -> S] : Follows(h, f, a, N)
  <2> HIDE DEF f
  <2>. QED  BY <1>3, <1>4, LoopIsDefined
<1>6. Is(h)
  <2>1. \A k \in 0 .. N : h[k] = IF k = 0 THEN a ELSE l.prev[h[k - 1]]
    <3>1. \A k \in 0 .. N : k # 0 => k - 1 \in 0 .. N /\ k \in 1 .. N
      BY <1>4
    <3>. QED  BY <1>5, <3>1 DEF Follows
  <2>. QED  BY <2>1
<1>7. List!Backwards(l) = CHOOSE g : Is(g)
  <2>1. List!Cardinality(Timer) = N
    BY SameCardinality DEF N
  <2>2. List!Backwards(l) = CHOOSE g : g = [k \in 0 .. List!Cardinality(Timer) |->
                               IF k = 0 THEN l.prev[l.first] ELSE l.prev[g[k - 1]]]
    BY DEF List!Backwards
  <2>. QED  BY <2>1, <2>2, Zenon DEF a
<1>8. Is(CHOOSE g : Is(g))
  BY <1>6, Zenon
<1>. QED  BY <1>7, <1>8, Zenon DEF N, a

LEMMA BackwardsRing ==
  ASSUME NEW l, NEW s \in Seq(Timer), Ring(l, s), Len(s) # 0
  PROVE  /\ \A k \in 0 .. Len(s) - 1 : List!Backwards(l)[k] = s[Len(s) - k]
         /\ List!Backwards(l)[Len(s)] = s[Len(s)]
<1> DEFINE n == Len(s)
           N == Cardinality(Timer)
           back == List!Backwards(l)
           Good == { k \in Nat : k <= n - 1 => back[k] = s[n - k] }
<1>1. /\ Distinct(s) /\ n \in Nat \ {0} /\ l.first = s[1]
      /\ \A i \in 1 .. n : l.prev[s[i]] = Pred(s, i)
  BY DEF Ring
<1>2. N \in Nat /\ n <= N
  BY <1>1, HeadersCounted
<1>3. back = [k \in 0 .. N |-> IF k = 0 THEN l.prev[l.first] ELSE l.prev[back[k - 1]]]
  BY <1>1, BackwardsDefined
<1> HIDE DEF N, back
<1>4. back[0] = s[n] /\ \A k \in 1 .. N : back[k] = l.prev[back[k - 1]]
  <2>1. l.prev[s[1]] = s[n]
    BY <1>1 DEF Pred
  <2>. QED  BY <1>1, <1>2, <1>3, <2>1
<1>5. 0 \in Good
  BY <1>1, <1>4
<1>6. ASSUME NEW k \in 1 .. n - 1, k - 1 \in Good PROVE k \in Good
  <2>1. back[k - 1] = s[n - (k - 1)]
    BY <1>1, <1>6
  <2>2. n - (k - 1) \in 1 .. n /\ Pred(s, n - (k - 1)) = s[n - k]
    BY <1>1 DEF Pred
  <2>3. back[k] = s[n - k]
    <3>1. k \in 1 .. N
      BY <1>1, <1>2
    <3>2. back[k] = l.prev[s[n - (k - 1)]]
      BY <1>4, <2>1, <3>1
    <3>. QED  BY <1>1, <2>2, <3>2
  <2>. QED  BY <1>1, <2>3
<1>7. \A k \in 0 .. n - 1 : back[k] = s[n - k]
  <2>1. n - 1 \in Nat
    BY <1>1
  <2>2. 0 .. n - 1 \subseteq Good
    <3> HIDE DEF Good
    <3>. QED  BY <1>5, <1>6, <2>1, TurnByTurn
  <2>3. \A k \in 0 .. n - 1 : k \in Good
    BY <2>2
  <2>. QED  BY <1>1, <2>3
<1>8. back[n] = s[n]
  <2>1. back[n - 1] = s[1] /\ Pred(s, 1) = s[n]
    BY <1>1, <1>7 DEF Pred
  <2>. QED  BY <1>1, <1>2, <1>4, <2>1
<1>. QED  BY <1>7, <1>8 DEF back

(* cdll_insert: e comes behind the last header of M, or before them all.   *)
LEMMA InsertRing ==
  ASSUME NEW l, NEW s \in Seq(Timer), Ring(l, s),
         NEW e \in Timer, ~In(e, s), NEW M
  PROVE  \E p \in 0 .. Len(s) :
           /\ Ring(List!cdll_insert(l, e, M), InsertedAt(s, p, e))
           /\ p # 0 => s[p] \in M
           /\ \A q \in p + 1 .. Len(s) : s[q] \notin M
<1> DEFINE n == Len(s)
           N == Cardinality(Timer)
           back == List!Backwards(l)
           stops == { k \in 0 .. N - 1 : /\ back[k] \in M
                                         /\ \A j \in 1 .. k : back[j] # back[0] }
<1>1. Distinct(s) /\ n \in Nat /\ l.first = IF n = 0 THEN NULL ELSE s[1]
  BY DEF Ring
<1>2. CASE n = 0
  <2>1. Ring(List!cdll_insert(l, e, M), InsertedAt(s, 0, e))
    BY <1>1, <1>2, AloneRing DEF List!cdll_insert
  <2>. QED  BY <1>2, <2>1
<1>3. CASE n # 0
  <2>1. l.first # NULL
    <3>1. s[1] \in Timer
      BY <1>1, <1>3
    <3>. QED  BY <1>1, <1>3, <3>1, NullAssumption
  <2>2. List!cdll_insert(l, e, M) =
          IF stops = {} THEN [List!After(l, back[0], e) EXCEPT !.first = e]
          ELSE List!After(l, back[List!Min(stops)], e)
    BY <2>1, SameCardinality DEF List!cdll_insert
  <2>3. /\ \A k \in 0 .. n - 1 : back[k] = s[n - k]
        /\ back[n] = s[n] /\ back[0] = s[n]
    BY <1>1, <1>3, BackwardsRing
  <2>4. N \in Nat /\ n <= N
    BY <1>1, HeadersCounted
  <2> HIDE DEF back, N
  <2>5. stops = { k \in 0 .. n - 1 : s[n - k] \in M }
    <3>1. ASSUME NEW k \in stops PROVE k \in 0 .. n - 1 /\ s[n - k] \in M
      <4>1. k < n
        BY <1>1, <1>3, <2>3, <2>4
      <4>. QED  BY <1>1, <2>3, <2>4, <4>1
    <3>2. ASSUME NEW k \in 0 .. n - 1, s[n - k] \in M PROVE k \in stops
      <4>1. ASSUME NEW j \in 1 .. k PROVE back[j] # back[0]
        <5>1. back[j] = s[n - j] /\ n - j \in 1 .. n /\ n \in 1 .. n /\ n - j # n
          BY <1>1, <1>3, <2>3
        <5>. QED  BY <1>1, <2>3, <5>1 DEF Distinct
      <4>. QED  BY <1>1, <2>3, <2>4, <3>2, <4>1
    <3>. QED  BY <3>1, <3>2
  <2> HIDE DEF stops
  <2>6. CASE stops = {}
    <3>1. Ring(List!cdll_insert(l, e, M), InsertedAt(s, 0, e))
      BY <1>3, <2>2, <2>3, <2>6, FrontRing
    <3>2. ASSUME NEW q \in 1 .. n PROVE s[q] \notin M
      <4>1. n - q \in 0 .. n - 1 /\ n - (n - q) = q
        BY <1>1
      <4>. QED  BY <2>5, <2>6, <4>1
    <3>. QED  BY <1>1, <3>1, <3>2
  <2>7. CASE stops # {}
    <3>1. PICK m \in stops : \A k \in stops : m <= k
      <4>1. stops \subseteq Nat
        BY <1>1, <2>5
      <4>. QED  BY <2>7, <4>1, LeastNat
    <3>2. List!Min(stops) = m
      <4>1. \A x \in stops : (\A y \in stops : x <= y) => x = m
        BY <1>1, <2>5, <3>1
      <4>. QED  BY <3>1, <4>1 DEF List!Min
    <3>3. m \in 0 .. n - 1 /\ s[n - m] \in M /\ n - m \in 1 .. n /\ back[m] = s[n - m]
      BY <1>1, <2>3, <2>5, <3>1
    <3>4. Ring(List!cdll_insert(l, e, M), InsertedAt(s, n - m, e))
      BY <2>2, <2>7, <3>2, <3>3, AfterRing
    <3>5. ASSUME NEW q \in n - m + 1 .. n PROVE s[q] \notin M
      <4>1. n - q \in 0 .. n - 1 /\ n - (n - q) = q /\ ~(m <= n - q)
        BY <1>1, <3>3
      <4>. QED  BY <2>5, <3>1, <4>1
    <3>. QED  BY <1>1, <3>3, <3>4, <3>5
  <2>. QED  BY <2>6, <2>7
<1>. QED  BY <1>2, <1>3

LEMMA RingHeaders ==
  ASSUME NEW l, NEW s \in Seq(Timer), Ring(l, s)
  PROVE  /\ List!Members(l) = HeadersOf(s)
         /\ List!Cardinality(List!Members(l)) = Len(s)
<1>1. List!Members(l) = HeadersOf(s)
  <2>1. \A t \in Timer : List!cdll_is_elem_linked(l, t) <=> In(t, s)
    BY RingMembers
  <2>2. \A i \in 1 .. Len(s) : s[i] \in Timer
    OBVIOUS
  <2>. QED  BY <2>1, <2>2 DEF List!Members, HeadersOf, In
<1>. QED  BY <1>1, SameCardinality, HeadersCounted DEF Ring

(* The list read from its first header, as the next pointers lead.         *)
LEMMA OrderRing ==
  ASSUME NEW l, NEW s \in Seq(Timer), Ring(l, s)
  PROVE  List!Order(l) = s
<1> DEFINE n == Len(s)
           N == Cardinality(Timer)
           S == HeadersOf(s)
           f == [t \in S |-> l.next[t]]
           Is(h) == h = [k \in 0 .. N |-> IF k = 0 THEN l.first ELSE l.next[h[k - 1]]]
           at == CHOOSE h : Is(h)
           Good == { k \in Nat : k <= n - 1 => at[k] = s[k + 1] }
<1>1. /\ Distinct(s) /\ n \in Nat /\ l.first = IF n = 0 THEN NULL ELSE s[1]
      /\ \A i \in 1 .. n : l.next[s[i]] = Succ(s, i)
  BY DEF Ring
<1>2. CASE n = 0
  BY <1>1, <1>2 DEF List!Order
<1>3. CASE n # 0
  <2>1. 1 \in 1 .. n /\ s[1] \in Timer /\ l.first = s[1] /\ l.first # NULL
    BY <1>1, <1>3, NullAssumption
  <2>2. N \in Nat /\ n <= N
    BY <1>1, HeadersCounted
  <2>3. \A i \in 1 .. n : Succ(s, i) \in S
    BY <1>1, <2>1 DEF Succ, HeadersOf
  <2>4. f \in [S -> S] /\ l.first \in S
    BY <1>1, <2>1, <2>3 DEF HeadersOf
  <2>5. List!Order(l) = [j \in 1 .. n |-> at[j - 1]]
    <3>1. List!Cardinality(Timer) = N /\ List!Cardinality(List!Members(l)) = n
      BY SameCardinality, RingHeaders
    <3>2. List!Order(l) =
            [j \in 1 .. List!Cardinality(List!Members(l)) |->
               (CHOOSE h : h = [k \in 0 .. List!Cardinality(Timer) |->
                   IF k = 0 THEN l.first ELSE l.next[h[k - 1]]])[j - 1]]
      BY <2>1 DEF List!Order
    <3>. QED  BY <3>1, <3>2, Zenon
  <2> HIDE DEF S, N
  <2>6. PICK h \in [0 .. N -> S] : Follows(h, f, l.first, N)
    <3> HIDE DEF f
    <3>. QED  BY <2>2, <2>4, LoopIsDefined
  <2>7. Is(h)
    <3>1. \A k \in 0 .. N : h[k] = IF k = 0 THEN l.first ELSE l.next[h[k - 1]]
      <4>1. \A k \in 0 .. N : k # 0 => k - 1 \in 0 .. N /\ k \in 1 .. N
        BY <2>2
      <4>. QED  BY <2>6, <4>1 DEF Follows
    <3>. QED  BY <3>1
  <2>8. Is(at)
    BY <2>7, Zenon
  <2> HIDE DEF at
  <2>9. at[0] = s[1] /\ \A k \in 1 .. N : at[k] = l.next[at[k - 1]]
    BY <2>1, <2>2, <2>8
  <2>10. 0 \in Good
    BY <1>1, <1>3, <2>9
  <2>11. ASSUME NEW k \in 1 .. n - 1, k - 1 \in Good PROVE k \in Good
    <3>1. at[k - 1] = s[k] /\ k \in 1 .. n /\ k \in 1 .. N /\ k \in Nat
      BY <1>1, <2>2, <2>11
    <3>2. Succ(s, k) = s[k + 1]
      BY <1>1 DEF Succ
    <3>3. at[k] = s[k + 1]
      BY <1>1, <2>9, <3>1, <3>2
    <3>. QED  BY <3>1, <3>3
  <2>12. \A k \in 0 .. n - 1 : k \in Good
    <3>1. n - 1 \in Nat
      BY <1>1, <1>3
    <3> HIDE DEF Good
    <3>. QED  BY <2>10, <2>11, <3>1, TurnByTurn
  <2>13. \A j \in 1 .. n : at[j - 1] = s[j]
    <3>1. \A j \in 1 .. n : j - 1 \in 0 .. n - 1 /\ (j - 1) + 1 = j
      BY <1>1
    <3>. QED  BY <2>12, <3>1
  <2>14. s = [j \in 1 .. n |-> s[j]]
    OBVIOUS
  <2>. QED  BY <2>5, <2>13, <2>14
<1>. QED  BY <1>2, <1>3

LEMMA RingIsRingOf ==
  ASSUME NEW l, NEW s \in Seq(Timer), Ring(l, s)
  PROVE  List!RingOf(l)
<1>1. /\ Distinct(s) /\ Len(s) \in Nat
      /\ l.first = IF Len(s) = 0 THEN NULL ELSE s[1]
      /\ \A i \in 1 .. Len(s) : l.next[s[i]] = Succ(s, i) /\ l.prev[s[i]] = Pred(s, i)
      /\ \A t \in Timer : ~In(t, s) => l.next[t] = NULL /\ l.prev[t] = NULL
  BY DEF Ring
<1>2. /\ List!Members(l) = HeadersOf(s)
      /\ List!Cardinality(List!Members(l)) = Len(s)
      /\ List!Order(l) = s
  BY RingHeaders, OrderRing
<1>3. ASSUME NEW i \in 1 .. Len(s)
      PROVE  /\ s[i] \in Timer /\ Succ(s, i) \in HeadersOf(s) /\ Pred(s, i) \in HeadersOf(s)
             /\ l.prev[Succ(s, i)] = s[i] /\ l.next[Pred(s, i)] = s[i]
  <2>1. PICK j \in 1 .. Len(s) : j = (IF i = Len(s) THEN 1 ELSE i + 1)
    BY <1>1
  <2>2. PICK k \in 1 .. Len(s) : k = (IF i = 1 THEN Len(s) ELSE i - 1)
    BY <1>1
  <2>3. Pred(s, j) = s[i] /\ Succ(s, i) = s[j]
    BY <1>1, <2>1 DEF Succ, Pred
  <2>4. Succ(s, k) = s[i] /\ Pred(s, i) = s[k]
    BY <1>1, <2>2 DEF Succ, Pred
  <2>. QED  BY <1>1, <2>3, <2>4 DEF HeadersOf
<1>4. \A t \in Timer : (l.next[t] = NULL) = (l.prev[t] = NULL)
  <2>1. ASSUME NEW t \in Timer, In(t, s) PROVE l.next[t] # NULL /\ l.prev[t] # NULL
    <3>1. PICK i \in 1 .. Len(s) : s[i] = t
      BY <2>1 DEF In
    <3>2. Succ(s, i) \in Timer /\ Pred(s, i) \in Timer
      BY <1>3 DEF HeadersOf
    <3>. QED  BY <1>1, <3>1, <3>2, NullAssumption
  <2>. QED  BY <1>1, <2>1
<1>5. \A t \in List!Members(l) :
        /\ l.next[t] \in List!Members(l) /\ l.prev[t] \in List!Members(l)
        /\ l.prev[l.next[t]] = t /\ l.next[l.prev[t]] = t
  <2>1. SUFFICES ASSUME NEW t \in HeadersOf(s)
                 PROVE  /\ l.next[t] \in HeadersOf(s) /\ l.prev[t] \in HeadersOf(s)
                        /\ l.prev[l.next[t]] = t /\ l.next[l.prev[t]] = t
    BY <1>2
  <2>2. PICK i \in 1 .. Len(s) : s[i] = t
    BY DEF HeadersOf
  <2>3. l.next[t] = Succ(s, i) /\ l.prev[t] = Pred(s, i)
    BY <1>1, <2>2
  <2>. QED  BY <1>3, <2>2, <2>3
<1>6. IF l.first = NULL THEN List!Members(l) = {}
      ELSE /\ l.first \in List!Members(l)
           /\ List!Cardinality({ List!Order(l)[k] : k \in DOMAIN List!Order(l) })
                = List!Cardinality(List!Members(l))
  <2>1. CASE Len(s) = 0
    BY <1>1, <1>2, <2>1 DEF HeadersOf
  <2>2. CASE Len(s) # 0
    <3>1. l.first # NULL /\ l.first \in HeadersOf(s)
      <4>1. 1 \in 1 .. Len(s) /\ l.first = s[1]
        BY <1>1, <2>2
      <4>2. s[1] \in Timer /\ s[1] \in HeadersOf(s)
        BY <4>1, <1>3 DEF HeadersOf
      <4>. QED  BY <4>1, <4>2, NullAssumption
    <3>2. { List!Order(l)[k] : k \in DOMAIN List!Order(l) } = HeadersOf(s)
      <4>1. DOMAIN s = 1 .. Len(s)
        OBVIOUS
      <4>. QED  BY <1>2, <4>1, Zenon DEF HeadersOf
    <3>. QED  BY <1>2, <3>1, <3>2
  <2>. QED  BY <2>1, <2>2
<1>. QED  BY <1>4, <1>5, <1>6 DEF List!RingOf

-----------------------------------------------------------------------------
(* The clock.  Times that are less than half its range apart are compared  *)
(* as if it did not wrap.                                                  *)

Half == Wrap \div 2

LEMMA Halves == Half \in Nat \ {0} /\ Wrap = 2 * Half /\ Wrap \in Nat \ {0}
<1>1. Wrap \in Nat /\ Wrap # 0 /\ Wrap % 2 = 0
  BY ClockAssumption
<1>. QED  BY <1>1 DEF Half

LEMMA Folded ==
  ASSUME NEW x \in Int, -Wrap <= x, x < 2 * Wrap
  PROVE  x % Wrap = IF x < 0 THEN x + Wrap ELSE IF x >= Wrap THEN x - Wrap ELSE x
BY Halves

LEMMA AddRange ==
  ASSUME NEW a \in 0 .. Wrap - 1, NEW p \in Nat, p < Wrap
  PROVE  /\ timer_time_add(a, p) \in 0 .. Wrap - 1
         /\ timer_time_add(a, p) = IF a + p >= Wrap THEN a + p - Wrap ELSE a + p
<1>1. PICK x \in Int : x = a + p
  OBVIOUS
<1>2. -Wrap <= x /\ x < 2 * Wrap /\ ~(x < 0)
  BY <1>1, Halves
<1>3. x % Wrap = IF x >= Wrap THEN x - Wrap ELSE x
  BY <1>2, Folded
<1>4. timer_time_add(a, p) = x % Wrap
  BY <1>1 DEF timer_time_add
<1>. QED  BY <1>1, <1>2, <1>3, <1>4, Halves

LEMMA CompareValue ==
  ASSUME NEW a \in 0 .. Wrap - 1, NEW b \in 0 .. Wrap - 1
  PROVE  /\ timer_time_compare(a, b) \in -Half .. Half - 1
         /\ timer_time_compare(a, b) \in {a - b, a - b + Wrap, a - b - Wrap}
<1> DEFINE d == (a - b) % Wrap
<1>0. a - b \in Int /\ -Wrap <= a - b /\ a - b < 2 * Wrap /\ ~(a - b >= Wrap)
  BY Halves
<1>1. d = IF a - b < 0 THEN a - b + Wrap ELSE a - b
  BY <1>0, Folded
<1>2. timer_time_compare(a, b) = IF d >= Half THEN d - Wrap ELSE d
  BY DEF timer_time_compare, Half
<1>. QED  BY <1>1, <1>2, Halves

(* It is the only such number.                                             *)
LEMMA CompareUnique ==
  ASSUME NEW a \in 0 .. Wrap - 1, NEW b \in 0 .. Wrap - 1, NEW v \in -Half .. Half - 1,
         v \in {a - b, a - b + Wrap, a - b - Wrap, a - b + 2 * Wrap, a - b - 2 * Wrap}
  PROVE  timer_time_compare(a, b) = v
<1> DEFINE w == timer_time_compare(a, b)
<1>1. w \in -Half .. Half - 1 /\ w \in {a - b, a - b + Wrap, a - b - Wrap}
  BY CompareValue
<1> HIDE DEF w
<1>2. \A k \in {-3, -2, -1, 0, 1, 2, 3} : v - w = k * Wrap => k = 0
  BY <1>1, Halves
<1>3. \E k \in {-3, -2, -1, 0, 1, 2, 3} : v - w = k * Wrap
  BY <1>1, Halves
<1>. QED  BY <1>1, <1>2, <1>3, Halves DEF w

LEMMA CompareLater ==
  ASSUME NEW a \in 0 .. Wrap - 1, NEW b \in 0 .. Wrap - 1, NEW p \in Nat,
         p < Half, timer_time_compare(a, b) + p < Half
  PROVE  timer_time_compare(timer_time_add(a, p), b) = timer_time_compare(a, b) + p
<1> DEFINE c == timer_time_add(a, p)
           v == timer_time_compare(a, b)
<1>1. c \in 0 .. Wrap - 1 /\ (c = a + p \/ c = a + p - Wrap)
  BY AddRange, Halves
<1>2. v \in -Half .. Half - 1 /\ v \in {a - b, a - b + Wrap, a - b - Wrap}
  BY CompareValue
<1> HIDE DEF c, v
<1>3. v + p \in -Half .. Half - 1
  BY <1>2, Halves DEF v
<1>4. v + p \in {c - b, c - b + Wrap, c - b - Wrap, c - b + 2 * Wrap, c - b - 2 * Wrap}
  BY <1>1, <1>2, Halves
<1>. QED  BY <1>1, <1>3, <1>4, CompareUnique DEF c, v

LEMMA CompareTick ==
  ASSUME NEW a \in 0 .. Wrap - 1, NEW b \in 0 .. Wrap - 1,
         timer_time_compare(a, b) > -Half
  PROVE  timer_time_compare(a, timer_time_add(b, 1)) = timer_time_compare(a, b) - 1
<1> DEFINE c == timer_time_add(b, 1)
           v == timer_time_compare(a, b)
<1>0. 1 \in Nat /\ 1 < Wrap
  BY Halves
<1>1. c \in 0 .. Wrap - 1 /\ (c = b + 1 \/ c = b + 1 - Wrap)
  BY <1>0, AddRange
<1>2. v \in -Half .. Half - 1 /\ v \in {a - b, a - b + Wrap, a - b - Wrap}
  BY CompareValue
<1> HIDE DEF c, v
<1>3. v - 1 \in -Half .. Half - 1
  BY <1>2, Halves DEF v
<1>4. v - 1 \in {a - c, a - c + Wrap, a - c - Wrap, a - c + 2 * Wrap, a - c - 2 * Wrap}
  BY <1>1, <1>2, Halves
<1>. QED  BY <1>1, <1>3, <1>4, CompareUnique DEF c, v

(* Two times that are both near the third.                                 *)
LEMMA CompareTwo ==
  ASSUME NEW a \in 0 .. Wrap - 1, NEW b \in 0 .. Wrap - 1, NEW c \in 0 .. Wrap - 1,
         timer_time_compare(a, c) - timer_time_compare(b, c) \in -Half .. Half - 1
  PROVE  timer_time_compare(a, b) = timer_time_compare(a, c) - timer_time_compare(b, c)
<1> DEFINE v == timer_time_compare(a, c)
           w == timer_time_compare(b, c)
<1>1. v \in -Half .. Half - 1 /\ v \in {a - c, a - c + Wrap, a - c - Wrap}
  BY CompareValue
<1>2. w \in -Half .. Half - 1 /\ w \in {b - c, b - c + Wrap, b - c - Wrap}
  BY CompareValue
<1> HIDE DEF v, w
<1>3. v - w \in {a - b, a - b + Wrap, a - b - Wrap, a - b + 2 * Wrap, a - b - 2 * Wrap}
  BY <1>1, <1>2, Halves
<1>. QED  BY <1>3, CompareUnique DEF v, w

LEMMA CompareSame ==
  ASSUME NEW a \in 0 .. Wrap - 1
  PROVE  timer_time_compare(a, a) = 0
BY CompareUnique, Halves

LEMMA CompareBelow ==
  ASSUME NEW a \in 0 .. Wrap - 1, NEW b \in 0 .. Wrap - 1,
         timer_time_compare(a, b) > -Half
  PROVE  timer_time_compare(b, a) = -timer_time_compare(a, b)
<1> DEFINE v == timer_time_compare(a, b)
<1>1. v \in -Half .. Half - 1 /\ v \in {a - b, a - b + Wrap, a - b - Wrap}
  BY CompareValue
<1> HIDE DEF v
<1>2. -v \in -Half .. Half - 1
  BY <1>1, Halves DEF v
<1>3. -v \in {b - a, b - a + Wrap, b - a - Wrap, b - a + 2 * Wrap, b - a - 2 * Wrap}
  BY <1>1, Halves
<1>. QED  BY <1>2, <1>3, CompareUnique DEF v

LEMMA CompareZero ==
  ASSUME NEW a \in 0 .. Wrap - 1, NEW b \in 0 .. Wrap - 1, timer_time_compare(a, b) = 0
  PROVE  a = b
BY CompareValue, Halves

-----------------------------------------------------------------------------
(* The list of timers in the order of their targets, seen from the clock.  *)
(* Near: not later than LateLimit, and not so far ahead that two such      *)
(* times could be half the clock's range apart.                            *)

Near == -LateLimit .. Half - LateLimit - 1

Sorted(s, tg, n) == \A j, k \in 1 .. Len(s) : j < k =>
                      timer_time_compare(tg[s[j]], n) <= timer_time_compare(tg[s[k]], n)

Timed(l, s, tg, n) == s \in Seq(Timer) /\ Ring(l, s) /\ Sorted(s, tg, n)

MayFollow(t, tg) == { ref \in Timer : timer_time_compare(tg[t], tg[ref]) >= 0 }

(* The ordered insertion puts a timer where it belongs.                    *)
LEMMA InsertTimed ==
  ASSUME NEW l, NEW s, NEW tg \in [Timer -> 0 .. Wrap - 1], NEW n \in 0 .. Wrap - 1,
         Timed(l, s, tg, n), NEW e \in Timer, ~In(e, s),
         \A t \in Timer : t = e \/ In(t, s) => timer_time_compare(tg[t], n) \in Near
  PROVE  \E r : /\ Timed(List!cdll_insert(l, e, MayFollow(e, tg)), r, tg, n)
                /\ \A t \in Timer : In(t, r) <=> t = e \/ In(t, s)
<1> DEFINE due(t) == timer_time_compare(tg[t], n)
           m == List!cdll_insert(l, e, MayFollow(e, tg))
<1>1. s \in Seq(Timer) /\ Ring(l, s) /\ Sorted(s, tg, n) /\ Distinct(s) /\ Len(s) \in Nat
  BY DEF Timed, Ring
<1>2. PICK p \in 0 .. Len(s) :
        /\ Ring(m, InsertedAt(s, p, e))
        /\ p # 0 => s[p] \in MayFollow(e, tg)
        /\ \A q \in p + 1 .. Len(s) : s[q] \notin MayFollow(e, tg)
  BY <1>1, InsertRing
<1> HIDE DEF m
<1> DEFINE r == InsertedAt(s, p, e)
<1>3. /\ r \in Seq(Timer) /\ Len(r) = Len(s) + 1 /\ Distinct(r)
      /\ \A t \in Timer : In(t, r) <=> t = e \/ In(t, s)
      /\ r[p + 1] = e
      /\ \A i \in 1 .. p : r[i] = s[i]
      /\ \A i \in p + 1 .. Len(s) : r[i + 1] = s[i]
  BY <1>1, InsertedAtSeq
<1>4. ASSUME NEW t \in Timer, In(t, s)
      PROVE  /\ due(t) \in Int /\ due(e) \in Int
             /\ t \in MayFollow(e, tg) <=> due(e) >= due(t)
  <2>1. due(t) \in Near /\ due(e) \in Near
    BY <1>4
  <2>2. due(e) - due(t) \in -Half .. Half - 1 /\ due(t) \in Int /\ due(e) \in Int
    <3> HIDE DEF due
    <3>. QED  BY <2>1, Halves, ClockAssumption DEF Near
  <2>3. tg[e] \in 0 .. Wrap - 1 /\ tg[t] \in 0 .. Wrap - 1
    OBVIOUS
  <2>4. timer_time_compare(tg[e], tg[t]) = due(e) - due(t)
    BY <2>2, <2>3, CompareTwo
  <2> HIDE DEF due
  <2>. QED  BY <2>2, <2>4 DEF MayFollow
<1>5. \A i \in 1 .. Len(s) : s[i] \in Timer /\ In(s[i], s)
  BY <1>1 DEF In
<1>6. \A j, k \in 1 .. Len(s) : j < k => due(s[j]) <= due(s[k])
  BY <1>1 DEF Sorted
<1> HIDE DEF due, r
<1>7. \A i \in 1 .. p : due(s[i]) <= due(e)
  <2>1. SUFFICES ASSUME NEW i \in 1 .. p PROVE due(s[i]) <= due(e)
    OBVIOUS
  <2>2. p \in 1 .. Len(s) /\ i \in 1 .. Len(s) /\ p # 0
    BY <1>1
  <2>3. due(s[p]) <= due(e) /\ due(s[p]) \in Int /\ due(e) \in Int
    BY <1>2, <1>4, <1>5, <2>2
  <2>4. due(s[i]) \in Int
    BY <1>4, <1>5, <2>2
  <2>5. i = p \/ due(s[i]) <= due(s[p])
    BY <1>6, <2>2
  <2>. QED  BY <2>3, <2>4, <2>5
<1>8. \A i \in p + 1 .. Len(s) : due(e) <= due(s[i])
  <2>1. SUFFICES ASSUME NEW i \in p + 1 .. Len(s) PROVE due(e) <= due(s[i])
    OBVIOUS
  <2>2. i \in 1 .. Len(s)
    BY <1>1
  <2>. QED  BY <1>2, <1>4, <1>5, <2>2
<1>9. \A i \in 1 .. Len(r) : i \in 1 .. p \/ i = p + 1 \/ (i - 1 \in p + 1 .. Len(s) /\ r[i] = s[i - 1])
  <2>1. SUFFICES ASSUME NEW i \in 1 .. Len(r), i \notin 1 .. p, i # p + 1
                 PROVE  i - 1 \in p + 1 .. Len(s) /\ r[i] = s[i - 1]
    OBVIOUS
  <2>2. i - 1 \in p + 1 .. Len(s) /\ (i - 1) + 1 = i
    BY <1>1, <1>3, <2>1
  <2>. QED  BY <1>3, <2>2
<1>10. \A j, k \in 1 .. Len(r) : j < k => due(r[j]) <= due(r[k])
  <2>1. SUFFICES ASSUME NEW j \in 1 .. Len(r), NEW k \in 1 .. Len(r), j < k
                 PROVE  due(r[j]) <= due(r[k])
    OBVIOUS
  <2>2. j \in Nat /\ k \in Nat
    BY <1>1, <1>3
  <2>3. CASE j \in 1 .. p
    <3>1. r[j] = s[j] /\ j \in 1 .. Len(s)
      BY <1>1, <1>3, <2>3
    <3>2. CASE k \in 1 .. p
      <4>1. r[k] = s[k] /\ k \in 1 .. Len(s)
        BY <1>1, <1>3, <3>2
      <4>. QED  BY <1>6, <2>1, <3>1, <4>1
    <3>3. CASE k = p + 1
      BY <1>3, <1>7, <2>3, <3>1, <3>3
    <3>4. CASE k - 1 \in p + 1 .. Len(s) /\ r[k] = s[k - 1]
      <4>1. k - 1 \in 1 .. Len(s) /\ j < k - 1
        BY <1>1, <2>3, <3>4
      <4>. QED  BY <1>6, <3>1, <3>4, <4>1
    <3>. QED  BY <1>9, <3>2, <3>3, <3>4
  <2>4. CASE j = p + 1
    <3>1. k - 1 \in p + 1 .. Len(s) /\ r[k] = s[k - 1]
      BY <1>9, <2>1, <2>2, <2>4
    <3>. QED  BY <1>3, <1>8, <2>4, <3>1
  <2>5. CASE j - 1 \in p + 1 .. Len(s) /\ r[j] = s[j - 1]
    <3>1. k - 1 \in p + 1 .. Len(s) /\ r[k] = s[k - 1]
      <4>1. k \notin 1 .. p /\ k # p + 1
        BY <1>1, <2>1, <2>2, <2>5
      <4>. QED  BY <1>9, <4>1
    <3>2. j - 1 \in 1 .. Len(s) /\ k - 1 \in 1 .. Len(s) /\ j - 1 < k - 1
      BY <1>1, <2>1, <2>2, <2>5, <3>1
    <3>. QED  BY <1>6, <2>5, <3>1, <3>2
  <2>. QED  BY <1>9, <2>3, <2>4, <2>5
<1>11. Timed(m, r, tg, n)
  BY <1>2, <1>3, <1>10 DEF Timed, Sorted, due, r
<1>. QED  BY <1>3, <1>11 DEF m

(* What is left when a timer is taken out.                                 *)
LEMMA WithoutTimed ==
  ASSUME NEW l, NEW s, NEW m, NEW tg, NEW n, Timed(l, s, tg, n),
         NEW p \in 1 .. Len(s), Ring(m, WithoutAt(s, p))
  PROVE  \E r : /\ Timed(m, r, tg, n)
                /\ \A t \in Timer : In(t, r) <=> In(t, s) /\ t # s[p]
<1> DEFINE r == WithoutAt(s, p)
<1>1. s \in Seq(Timer) /\ Ring(l, s) /\ Sorted(s, tg, n) /\ Distinct(s) /\ Len(s) \in Nat
  BY DEF Timed, Ring
<1>2. /\ r \in Seq(Timer) /\ Len(r) = Len(s) - 1 /\ Distinct(r)
      /\ \A t \in Timer : In(t, r) <=> In(t, s) /\ t # s[p]
      /\ \A i \in 1 .. Len(r) : r[i] = IF i < p THEN s[i] ELSE s[i + 1]
  BY <1>1, WithoutAtSeq DEF WithoutAt
<1> HIDE DEF r
<1>3. \A j, k \in 1 .. Len(r) : j < k =>
         timer_time_compare(tg[r[j]], n) <= timer_time_compare(tg[r[k]], n)
  <2>1. SUFFICES ASSUME NEW j \in 1 .. Len(r), NEW k \in 1 .. Len(r), j < k
                 PROVE  timer_time_compare(tg[r[j]], n) <= timer_time_compare(tg[r[k]], n)
    OBVIOUS
  <2>2. PICK i \in 1 .. Len(s) : i = IF j < p THEN j ELSE j + 1
    BY <1>1, <1>2
  <2>3. PICK h \in 1 .. Len(s) : h = IF k < p THEN k ELSE k + 1
    BY <1>1, <1>2
  <2>4. i < h /\ r[j] = s[i] /\ r[k] = s[h]
    BY <1>1, <1>2, <2>1, <2>2, <2>3
  <2>. QED  BY <1>1, <2>4 DEF Sorted
<1>. QED  BY <1>2, <1>3 DEF Timed, Sorted, r

LEMMA SameTimed ==
  ASSUME NEW l, NEW s, NEW tg, NEW tg2, NEW n, Timed(l, s, tg, n),
         \A t \in Timer : In(t, s) => tg2[t] = tg[t]
  PROVE  Timed(l, s, tg2, n)
<1>1. s \in Seq(Timer) /\ Sorted(s, tg, n)
  BY DEF Timed
<1>2. \A i \in 1 .. Len(s) : tg2[s[i]] = tg[s[i]]
  BY <1>1 DEF In
<1>. QED  BY <1>1, <1>2 DEF Timed, Sorted

(* The timers in such a list, and the first of them.                       *)
LEMMA TimedMembers ==
  ASSUME NEW l, NEW s, NEW tg, NEW n, Timed(l, s, tg, n)
  PROVE  /\ \A t \in Timer : List!cdll_is_elem_linked(l, t) <=> In(t, s)
         /\ l.first = NULL <=> Len(s) = 0
         /\ Len(s) # 0 => /\ l.first = s[1] /\ l.first \in Timer /\ In(l.first, s)
                          /\ \A t \in Timer : In(t, s) /\ t # l.first =>
                               timer_time_compare(tg[l.first], n) <= timer_time_compare(tg[t], n)
<1>1. s \in Seq(Timer) /\ Ring(l, s) /\ Sorted(s, tg, n) /\ Len(s) \in Nat
  BY DEF Timed
<1>2. \A t \in Timer : List!cdll_is_elem_linked(l, t) <=> In(t, s)
  BY <1>1, RingMembers
<1>3. l.first = IF Len(s) = 0 THEN NULL ELSE s[1]
  BY <1>1 DEF Ring
<1>4. ASSUME Len(s) # 0
      PROVE  /\ l.first = s[1] /\ l.first \in Timer /\ In(l.first, s) /\ l.first # NULL
             /\ \A t \in Timer : In(t, s) /\ t # l.first =>
                  timer_time_compare(tg[l.first], n) <= timer_time_compare(tg[t], n)
  <2>1. 1 \in 1 .. Len(s) /\ l.first = s[1] /\ l.first \in Timer
    BY <1>1, <1>3, <1>4
  <2>2. ASSUME NEW t \in Timer, In(t, s), t # l.first
        PROVE  timer_time_compare(tg[l.first], n) <= timer_time_compare(tg[t], n)
    <3>1. PICK i \in 1 .. Len(s) : s[i] = t
      BY <2>2 DEF In
    <3>2. 1 < i
      BY <1>1, <2>1, <2>2, <3>1
    <3>. QED  BY <1>1, <2>1, <3>1, <3>2 DEF Sorted
  <2>3. In(l.first, s)
    BY <2>1 DEF In
  <2>. QED  BY <2>1, <2>2, <2>3, NullAssumption
<1>. QED  BY <1>2, <1>3, <1>4

-----------------------------------------------------------------------------
(* The callbacks that run.                                                 *)
LEMMA Appended ==
  ASSUME NEW s \in Seq(Timer), NEW e \in Timer
  PROVE  /\ Append(s, e) \in Seq(Timer) /\ Len(Append(s, e)) = Len(s) + 1
         /\ Append(s, e) # <<>>
         /\ \A t \in Timer : t \in Range(Append(s, e)) <=> t \in Range(s) \/ t = e
<1>1. Append(s, e) \in Seq(Timer) /\ Len(Append(s, e)) = Len(s) + 1 /\ Len(s) \in Nat
  BY AppendProperties
<1>2. /\ \A i \in 1 .. Len(s) : Append(s, e)[i] = s[i]
      /\ Append(s, e)[Len(s) + 1] = e
  BY AppendProperties
<1>3. DOMAIN s = 1 .. Len(s) /\ DOMAIN Append(s, e) = 1 .. Len(s) + 1
  BY <1>1
<1>4. ASSUME NEW t \in Timer PROVE t \in Range(Append(s, e)) <=> t \in Range(s) \/ t = e
  <2>1. t \in Range(Append(s, e)) <=> \E i \in 1 .. Len(s) + 1 : Append(s, e)[i] = t
    BY <1>3, Zenon DEF Range
  <2>2. t \in Range(s) <=> \E i \in 1 .. Len(s) : s[i] = t
    BY <1>3, Zenon DEF Range
  <2>3. \A i \in 1 .. Len(s) + 1 : i \in 1 .. Len(s) \/ i = Len(s) + 1
    BY <1>1
  <2>4. (1 .. Len(s)) \subseteq 1 .. Len(s) + 1 /\ Len(s) + 1 \in 1 .. Len(s) + 1
    BY <1>1
  <2>. QED  BY <1>2, <2>1, <2>2, <2>3, <2>4
<1>. QED  BY <1>1, <1>4

LEMMA Returned ==
  ASSUME NEW s \in Seq(Timer), s # <<>>
  PROVE  /\ Front(s) \in Seq(Timer) /\ Len(Front(s)) = Len(s) - 1
         /\ Last(s) \in Timer /\ Last(s) \in Range(s)
         /\ \A t \in Timer : t \in Range(s) <=> t \in Range(Front(s)) \/ t = Last(s)
<1>1. Len(s) \in Nat /\ Len(s) # 0 /\ DOMAIN s = 1 .. Len(s) /\ Len(s) \in 1 .. Len(s)
  OBVIOUS
<1>2. /\ Front(s) \in Seq(Timer) /\ Len(Front(s)) = Len(s) - 1
      /\ \A i \in 1 .. Len(s) - 1 : Front(s)[i] = s[i]
  <2>1. 1 \in 1 .. Len(s) + 1 /\ Len(s) - 1 \in 0 .. Len(s)
    BY <1>1
  <2>. QED  BY <1>1, <2>1, SubSeqProperties DEF Front
<1>3. DOMAIN Front(s) = 1 .. Len(s) - 1
  BY <1>2
<1>4. Last(s) = s[Len(s)]
  BY DEF Last
<1>5. ASSUME NEW t \in Timer PROVE t \in Range(s) <=> t \in Range(Front(s)) \/ t = Last(s)
  <2>1. t \in Range(Front(s)) <=> \E i \in 1 .. Len(s) - 1 : Front(s)[i] = t
    BY <1>3, Zenon DEF Range
  <2>2. t \in Range(s) <=> \E i \in 1 .. Len(s) : s[i] = t
    BY <1>1, Zenon DEF Range
  <2>3. \A i \in 1 .. Len(s) : i \in 1 .. Len(s) - 1 \/ i = Len(s)
    <3>1. \A n \in Nat : \A i \in 1 .. n : i \in 1 .. n - 1 \/ i = n
      OBVIOUS
    <3>. QED  BY <1>1, <3>1
  <2>4. (1 .. Len(s) - 1) \subseteq 1 .. Len(s)
    BY <1>1
  <2>. QED  BY <1>1, <1>2, <1>4, <2>1, <2>2, <2>3, <2>4
<1>6. Last(s) \in Range(s) /\ Last(s) \in Timer
  <2>1. s[Len(s)] \in Timer
    BY <1>1
  <2>2. s[Len(s)] \in Range(s)
    BY <1>1, Zenon DEF Range
  <2>. QED  BY <1>4, <2>1, <2>2
<1>. QED  BY <1>2, <1>5, <1>6

-----------------------------------------------------------------------------
(* The invariant.                                                          *)

Due(t) == timer_time_compare(target[t], now)

Waits(t) == Active(t) \/ t \in starting \/ Expired(t)

Comes == stat \/ (match = target[list.first] /\ timer_time_compare(match, now) > 0)

TypesInv ==
  /\ target \in [Timer -> 0 .. Wrap - 1] /\ period \in [Timer -> Period]
  /\ now \in 0 .. Wrap - 1 /\ match \in 0 .. Wrap - 1
  /\ pc \in {"idle", "pick", "match", "read", "unmask", "callback"}
  /\ callbacks \in Seq(Timer) /\ starting \subseteq Timer

(* Only a callback calls back into the update, and a timer whose start is  *)
(* under way is neither in the list nor running.                           *)
CallsInv ==
  /\ pc = "idle" => callbacks = <<>>
  /\ pc = "callback" => callbacks # <<>>
  /\ Len(callbacks) <= DepthLimit + 1
  /\ pc # "callback" => Len(callbacks) <= DepthLimit
  /\ \A t \in starting : ~Active(t) /\ t \notin Range(callbacks)

(* No target is so far from the clock that the comparison could turn over, *)
(* and a callback runs only for a timer that was due.                      *)
TimesInv == \A t \in Timer : Waits(t) => Due(t) \in Near /\ (Expired(t) => Due(t) <= 0)

ListInv == \E s : Timed(list, s, target, now)

WakeInv ==
  /\ pc \in {"match", "read", "unmask"} => list.first # NULL
  /\ pc = "read" => match = target[list.first]
  /\ pc = "unmask" => Comes
  /\ pc = "idle" /\ list.first # NULL => unmasked /\ Comes

TimerInv == TypesInv /\ CallsInv /\ TimesInv /\ ListInv /\ WakeInv

LEMMA PeriodFits ==
  ASSUME NEW p \in Period
  PROVE  p \in Nat /\ p > 0 /\ p < Half /\ p < Wrap /\ p \in Near /\ p + LateLimit < Half
<1>1. p \in Nat /\ p # 0 /\ LateLimit \in Nat /\ p + LateLimit < Half
  BY ClockAssumption DEF Half
<1>. QED  BY <1>1, Halves DEF Near

(* Once there is a timer there is a period, and so some room ahead.        *)
LEMMA NearFits ==
  ASSUME TypesInv, NEW t \in Timer
  PROVE  /\ LateLimit \in Nat /\ LateLimit < Half - 1 /\ Half \in Nat
         /\ 0 \in Near /\ Near \subseteq Int
<1>1. PICK p \in Period : p \in Nat /\ p > 0 /\ p + LateLimit < Half
  <2>1. period[t] \in Period
    BY DEF TypesInv
  <2>. QED  BY <2>1, PeriodFits
<1>2. LateLimit \in Nat /\ Half \in Nat
  BY Halves, ClockAssumption
<1>3. LateLimit < Half - 1
  BY <1>1, <1>2
<1>. QED  BY <1>2, <1>3 DEF Near

LEMMA ListMembers ==
  ASSUME ListInv
  PROVE  /\ list.first = NULL <=> \A t \in Timer : ~Active(t)
         /\ list.first # NULL => /\ list.first \in Timer /\ Active(list.first)
                                 /\ \A t \in Timer : Active(t) /\ t # list.first =>
                                       Due(list.first) <= Due(t)
<1>1. PICK s : Timed(list, s, target, now)
  BY DEF ListInv
<1>2. \A t \in Timer : Active(t) <=> In(t, s)
  BY <1>1, TimedMembers DEF Active
<1>3. CASE Len(s) = 0
  <2>1. \A t \in Timer : ~In(t, s)
    BY <1>3 DEF In
  <2>. QED  BY <1>1, <1>2, <1>3, <2>1, TimedMembers
<1>4. CASE Len(s) # 0
  BY <1>1, <1>2, <1>4, TimedMembers DEF Due
<1>. QED  BY <1>3, <1>4

(* What an action does to the list.                                        *)
Kept == \A u \in Timer : Active(u)' <=> Active(u)
Linked(t) == \A u \in Timer : Active(u)' <=> Active(u) \/ u = t
Unlinked(t) == \A u \in Timer : Active(u)' <=> Active(u) /\ u # t

LEMMA TimerLinked ==
  ASSUME TimerInv, NEW t \in Timer, ~Active(t), now' = now,
         target' \in [Timer -> 0 .. Wrap - 1], Due(t)' \in Near,
         \A u \in Timer : u # t => target'[u] = target[u],
         timer_insert(t, target')
  PROVE  ListInv' /\ Linked(t)
<1>1. PICK s : Timed(list, s, target, now)
  BY DEF TimerInv, ListInv
<1>2. \A u \in Timer : Active(u) <=> In(u, s)
  BY <1>1, TimedMembers DEF Active
<1>3. Timed(list, s, target', now)
  <2>1. \A u \in Timer : In(u, s) => target'[u] = target[u]
    BY <1>2
  <2>. QED  BY <1>1, <2>1, SameTimed
<1>4. \A u \in Timer : u = t \/ In(u, s) => timer_time_compare(target'[u], now) \in Near
  BY <1>2 DEF TimerInv, TimesInv, Waits, Due
<1>5. list' = List!cdll_insert(list, t, MayFollow(t, target'))
  BY DEF timer_insert, MayFollow
<1>6. PICK r : /\ Timed(list', r, target', now)
               /\ \A u \in Timer : In(u, r) <=> u = t \/ In(u, s)
  <2>1. now \in 0 .. Wrap - 1 /\ ~In(t, s)
    BY <1>2 DEF TimerInv, TypesInv
  <2>. QED  BY <1>3, <1>4, <1>5, <2>1, InsertTimed
<1>7. \A u \in Timer : List!cdll_is_elem_linked(list', u) <=> In(u, r)
  BY <1>6, TimedMembers
<1>8. Linked(t)
  BY <1>2, <1>6, <1>7 DEF Linked, Active
<1>. QED  BY <1>6, <1>8 DEF ListInv

LEMMA TimerUnlinked ==
  ASSUME TimerInv, NEW t \in Timer, Active(t), now' = now, target' = target,
         \/ list' = List!cdll_extract(list, t)
         \/ t = list.first /\ list' = List!cdll_pop_front(list)
  PROVE  ListInv' /\ Unlinked(t)
<1>1. PICK s : Timed(list, s, target, now)
  BY DEF TimerInv, ListInv
<1>2. \A u \in Timer : Active(u) <=> In(u, s)
  BY <1>1, TimedMembers DEF Active
<1>3. s \in Seq(Timer) /\ Ring(list, s)
  BY <1>1 DEF Timed
<1>4. PICK p \in 1 .. Len(s) : s[p] = t /\ Ring(list', WithoutAt(s, p))
  <2>1. PICK i \in 1 .. Len(s) : s[i] = t
    BY <1>2 DEF In
  <2>2. CASE list' = List!cdll_extract(list, t)
    BY <1>3, <2>1, <2>2, ExtractRing
  <2>3. CASE t = list.first /\ list' = List!cdll_pop_front(list)
    <3>1. list.first # NULL
      BY <2>3, NullAssumption
    <3>2. Len(s) >= 1 /\ list.first = s[1] /\ Ring(list', WithoutAt(s, 1))
      BY <1>3, <2>3, <3>1, PopRing
    <3>3. 1 \in 1 .. Len(s)
      BY <1>3, <3>2
    <3>. QED  BY <2>3, <3>2, <3>3
  <2>. QED  BY <2>2, <2>3
<1>5. PICK r : /\ Timed(list', r, target, now)
               /\ \A u \in Timer : In(u, r) <=> In(u, s) /\ u # s[p]
  <2>1. Timed(list, s, target, now) /\ p \in 1 .. Len(s) /\ Ring(list', WithoutAt(s, p))
    BY <1>1, <1>4
  <2>. QED  BY <2>1, WithoutTimed
<1>6. \A u \in Timer : List!cdll_is_elem_linked(list', u) <=> In(u, r)
  BY <1>5, TimedMembers
<1>7. Unlinked(t)
  BY <1>2, <1>4, <1>5, <1>6 DEF Unlinked, Active
<1>. QED  BY <1>5, <1>7 DEF ListInv

-----------------------------------------------------------------------------
LEMMA FromNow ==
  ASSUME NEW n \in 0 .. Wrap - 1, NEW p \in Period
  PROVE  timer_time_add(n, p) \in 0 .. Wrap - 1
         /\ timer_time_compare(timer_time_add(n, p), n) = p
<1>1. p \in Nat /\ p < Half /\ p < Wrap
  BY PeriodFits
<1>2. timer_time_compare(n, n) = 0
  BY CompareSame
<1>. QED  BY <1>1, <1>2, AddRange, CompareLater

LEMMA NoCallback == \A t \in Timer : t \notin Range(<<>>)
<1>1. DOMAIN <<>> = {}
  OBVIOUS
<1>. QED  BY <1>1, Zenon DEF Range

LEMMA InitTimerInv == Init => TimerInv
<1>1. SUFFICES ASSUME Init PROVE TimerInv
  OBVIOUS
<1>2. TypesInv
  BY <1>1, Halves DEF Init, TypesInv
<1>3. \A t \in Timer : ~Active(t) /\ ~Waits(t)
  BY <1>1, NoCallback DEF Init, Active, Waits, Expired, List!cdll_is_elem_linked, List!cdll_init
<1>4. CallsInv
  BY <1>1, <1>3, NoCallback, DepthAssumption DEF Init, CallsInv
<1>5. TimesInv
  BY <1>3 DEF TimesInv
<1>6. Timed(list, <<>>, target, now)
  <2>1. Len(<<>>) = 0 /\ <<>> \in Seq(Timer)
    OBVIOUS
  <2>. QED  BY <1>1, <2>1 DEF Init, Timed, Ring, Distinct, Sorted, In, Pointer, List!cdll_init
<1>7. ListInv
  BY <1>6 DEF ListInv
<1>8. WakeInv
  BY <1>1 DEF Init, WakeInv, List!cdll_init
<1>. QED  BY <1>2, <1>4, <1>5, <1>7, <1>8 DEF TimerInv

(* A step that leaves the timers alone.                                    *)
LEMMA TimersKept ==
  ASSUME TimerInv, UNCHANGED <<list, target, now, callbacks, starting>>
  PROVE  ListInv' /\ TimesInv' /\ Kept /\ \A u \in Timer : Due(u)' = Due(u)
<1>1. Kept /\ \A u \in Timer : Due(u)' = Due(u) /\ (Waits(u)' <=> Waits(u)) /\ (Expired(u)' <=> Expired(u))
  BY DEF Kept, Due, Active, Waits, Expired
<1>2. TimesInv'
  BY <1>1 DEF TimerInv, TimesInv
<1>3. ListInv'
  BY DEF TimerInv, ListInv
<1>. QED  BY <1>1, <1>2, <1>3

LEMMA StartTargetInv ==
  ASSUME TimerInv, NEW t \in Timer, NEW p \in Period, StartTarget(t, p)
  PROVE  /\ TimerInv' /\ Kept /\ Due(t)' = p
         /\ \A u \in Timer : u # t => Due(u)' = Due(u)
<1>1. now \in 0 .. Wrap - 1 /\ target \in [Timer -> 0 .. Wrap - 1]
  BY DEF TimerInv, TypesInv
<1>2. /\ target' \in [Timer -> 0 .. Wrap - 1] /\ target'[t] = timer_time_add(now, p)
      /\ \A u \in Timer : u # t => target'[u] = target[u]
  BY <1>1, FromNow DEF StartTarget
<1>3. Due(t)' = p /\ \A u \in Timer : u # t => Due(u)' = Due(u)
  BY <1>1, <1>2, FromNow DEF Due, StartTarget, hw
<1>4. Kept
  BY DEF Kept, Active, StartTarget
<1>5. TypesInv'
  BY <1>2 DEF TimerInv, TypesInv, StartTarget, hw
<1>6. \A u \in Timer : u \notin Range(callbacks)
  BY NoCallback DEF TimerInv, CallsInv, StartTarget
<1>7. CallsInv'
  <2>1. \A u \in starting' : u \in Timer /\ ~Active(u) /\ u \notin Range(callbacks)
    BY <1>6 DEF TimerInv, TypesInv, CallsInv, StartTarget
  <2>2. callbacks' = callbacks /\ pc' = pc
    BY DEF StartTarget
  <2>. QED  BY <1>4, <2>1, <2>2 DEF TimerInv, CallsInv, Kept
<1>8. TimesInv'
  <2>1. \A u \in Timer : ~Expired(u)'
    BY <1>6 DEF Expired, StartTarget
  <2>2. \A u \in Timer : u # t /\ Waits(u)' => Waits(u)
    BY <1>4, <2>1 DEF Waits, Kept, StartTarget
  <2>3. Due(t)' \in Near
    BY <1>3, PeriodFits
  <2>. QED  BY <1>3, <2>1, <2>2, <2>3 DEF TimerInv, TimesInv
<1>9. ListInv'
  <2>1. PICK s : Timed(list, s, target, now)
    BY DEF TimerInv, ListInv
  <2>2. \A u \in Timer : In(u, s) => target'[u] = target[u]
    BY <1>2, <2>1, TimedMembers DEF Active, StartTarget
  <2>3. Timed(list, s, target', now)
    BY <2>1, <2>2, SameTimed
  <2>. QED  BY <2>3 DEF ListInv, StartTarget, hw
<1>10. WakeInv'
  <2>1. list.first # NULL => target'[list.first] = target[list.first]
    BY <1>2, ListMembers DEF TimerInv, StartTarget
  <2>. QED  BY <2>1 DEF TimerInv, WakeInv, Comes, StartTarget, hw
<1>. QED  BY <1>3, <1>4, <1>5, <1>7, <1>8, <1>9, <1>10 DEF TimerInv

LEMMA StartInsertInv ==
  ASSUME TimerInv, NEW t \in Timer, StartInsert(t)
  PROVE  TimerInv' /\ Linked(t) /\ \A u \in Timer : Due(u)' = Due(u)
<1>1. ~Active(t) /\ Waits(t) /\ t \in starting
  BY DEF TimerInv, CallsInv, Waits, StartInsert
<1>2. \A u \in Timer : Due(u)' = Due(u)
  BY DEF Due, StartInsert
<1>3. ListInv' /\ Linked(t)
  <2>1. Due(t)' \in Near
    BY <1>1, <1>2 DEF TimerInv, TimesInv
  <2>2. target' \in [Timer -> 0 .. Wrap - 1]
    BY DEF TimerInv, TypesInv, StartInsert
  <2>3. timer_insert(t, target') /\ target' = target /\ now' = now
    BY DEF StartInsert
  <2>. QED  BY <1>1, <2>1, <2>2, <2>3, TimerLinked
<1>4. TypesInv'
  BY DEF TimerInv, TypesInv, StartInsert, UpdateStarts
<1>5. CallsInv'
  <2>1. \A u \in starting' : u \in Timer /\ u # t /\ u \in starting
    BY DEF TimerInv, TypesInv, StartInsert
  <2>2. callbacks' = callbacks /\ pc' = "pick" /\ callbacks = <<>>
    BY DEF TimerInv, CallsInv, StartInsert, UpdateStarts
  <2>3. Len(callbacks) <= DepthLimit
    BY <2>2, DepthAssumption
  <2>. QED  BY <1>3, <2>1, <2>2, <2>3 DEF TimerInv, CallsInv, Linked
<1>6. TimesInv'
  <2>1. \A u \in Timer : (Waits(u)' => Waits(u)) /\ (Expired(u)' => Expired(u))
    BY <1>1, <1>3 DEF Waits, Expired, Linked, StartInsert
  <2>. QED  BY <1>2, <2>1 DEF TimerInv, TimesInv
<1>7. WakeInv'
  BY DEF WakeInv, StartInsert, UpdateStarts
<1>. QED  BY <1>2, <1>3, <1>4, <1>5, <1>6, <1>7 DEF TimerInv

LEMMA CallbackStartsInv ==
  ASSUME TimerInv, NEW t \in Timer, NEW p \in Period, CallbackStarts(t, p)
  PROVE  /\ TimerInv' /\ Linked(t) /\ Due(t)' = p
         /\ \A u \in Timer : u # t => Due(u)' = Due(u)
<1>1. now \in 0 .. Wrap - 1 /\ target \in [Timer -> 0 .. Wrap - 1]
  BY DEF TimerInv, TypesInv
<1>2. /\ target' \in [Timer -> 0 .. Wrap - 1] /\ target'[t] = timer_time_add(now, p)
      /\ \A u \in Timer : u # t => target'[u] = target[u]
  BY <1>1, FromNow DEF CallbackStarts
<1>3. Due(t)' = p /\ \A u \in Timer : u # t => Due(u)' = Due(u)
  BY <1>1, <1>2, FromNow DEF Due, CallbackStarts
<1>4. ListInv' /\ Linked(t)
  <2>1. Due(t)' \in Near
    BY <1>3, PeriodFits
  <2>2. timer_insert(t, target') /\ now' = now /\ ~Active(t)
    BY DEF CallbackStarts
  <2>. QED  BY <1>2, <2>1, <2>2, TimerLinked
<1>5. TypesInv'
  BY <1>2 DEF TimerInv, TypesInv, CallbackStarts, UpdateStarts
<1>6. CallsInv'
  <2>1. t \notin starting /\ starting' = starting /\ callbacks' = callbacks /\ pc' = "pick"
    BY DEF CallbackStarts, UpdateStarts
  <2>2. Len(callbacks) \in Nat /\ Len(callbacks) < DepthLimit
    BY DEF TimerInv, TypesInv, CallbackStarts
  <2>3. \A u \in starting : u \in Timer
    BY DEF TimerInv, TypesInv
  <2>. QED  BY <1>4, <2>1, <2>2, <2>3, DepthAssumption DEF TimerInv, CallsInv, Linked
<1>7. TimesInv'
  <2>1. \A u \in Timer : u # t => (Waits(u)' => Waits(u)) /\ (Expired(u)' => Expired(u))
    BY <1>4 DEF Waits, Expired, Linked, CallbackStarts
  <2>2. ~Expired(t)' /\ Due(t)' \in Near
    BY <1>3, <1>4, PeriodFits DEF Expired, Linked
  <2>. QED  BY <1>3, <2>1, <2>2 DEF TimerInv, TimesInv
<1>8. WakeInv'
  BY DEF WakeInv, CallbackStarts, UpdateStarts
<1>. QED  BY <1>3, <1>4, <1>5, <1>6, <1>7, <1>8 DEF TimerInv

LEMMA StopInv ==
  ASSUME TimerInv, NEW t \in Timer, Stop(t)
  PROVE  TimerInv' /\ Unlinked(t) /\ \A u \in Timer : Due(u)' = Due(u)
<1>1. Active(t) /\ t \notin Range(callbacks) /\ now' = now /\ target' = target
      /\ list' = List!cdll_extract(list, t) /\ callbacks' = callbacks /\ starting' = starting
      /\ pc' = "pick"
  BY DEF Stop, UpdateStarts
<1>2. \A u \in Timer : Due(u)' = Due(u)
  BY <1>1 DEF Due
<1>3. ListInv' /\ Unlinked(t)
  BY <1>1, TimerUnlinked
<1>4. TypesInv'
  BY DEF TimerInv, TypesInv, Stop, UpdateStarts
<1>5. CallsInv'
  <2>1. Len(callbacks) \in Nat /\ Len(callbacks) <= DepthLimit
    BY DepthAssumption DEF TimerInv, TypesInv, CallsInv, Stop
  <2>2. \A u \in starting : u \in Timer
    BY DEF TimerInv, TypesInv
  <2>. QED  BY <1>1, <1>3, <2>1, <2>2, DepthAssumption DEF TimerInv, CallsInv, Unlinked
<1>6. TimesInv'
  <2>1. \A u \in Timer : (Waits(u)' => Waits(u)) /\ (Expired(u)' => Expired(u))
    BY <1>1, <1>3 DEF Waits, Expired, Unlinked
  <2>. QED  BY <1>2, <2>1 DEF TimerInv, TimesInv
<1>7. WakeInv'
  BY <1>1 DEF WakeInv
<1>. QED  BY <1>2, <1>3, <1>4, <1>5, <1>6, <1>7 DEF TimerInv

(* The interrupt, and the steps of the update that call nothing back.      *)
LEMMA UpdateStepInv ==
  ASSUME TimerInv, Isr \/ UpdatePick \/ UpdateMatch \/ UpdateUnmask
  PROVE  /\ TimerInv' /\ Kept
         /\ UNCHANGED <<list, target, period, now, callbacks, starting>>
<1>1. UNCHANGED <<list, target, period, now, callbacks, starting>>
  BY DEF Isr, UpdatePick, UpdateMatch, UpdateUnmask
<1>2. ListInv' /\ TimesInv' /\ Kept
  BY <1>1, TimersKept
<1>3. TypesInv'
  <2>1. match' \in 0 .. Wrap - 1
    <3>1. list.first # NULL => target[list.first] \in 0 .. Wrap - 1
      BY ListMembers DEF TimerInv, TypesInv
    <3>2. UpdateMatch => list.first # NULL
      BY DEF TimerInv, WakeInv, UpdateMatch
    <3>. QED  BY <3>1, <3>2 DEF TimerInv, TypesInv, Isr, UpdatePick, UpdateMatch, UpdateUnmask
  <2>2. pc' \in {"idle", "pick", "match", "read", "unmask", "callback"}
    BY DEF Isr, UpdatePick, UpdateMatch, UpdateUnmask, UpdateStarts, UpdateReturns
  <2>. QED  BY <1>1, <2>1, <2>2 DEF TimerInv, TypesInv
<1>4. CallsInv'
  <2>1. Len(callbacks) \in Nat
    BY DEF TimerInv, TypesInv
  <2>2. /\ pc' = "idle" => callbacks = <<>>
        /\ pc' = "callback" => callbacks # <<>>
        /\ pc' # "callback" => Len(callbacks) <= DepthLimit
    BY DEF TimerInv, CallsInv, Isr, UpdatePick, UpdateMatch, UpdateUnmask, UpdateStarts, UpdateReturns
  <2>3. \A u \in starting : u \in Timer
    BY DEF TimerInv, TypesInv
  <2>. QED  BY <1>1, <1>2, <2>2, <2>3 DEF TimerInv, CallsInv, Kept
<1>5. WakeInv'
  <2>1. CASE Isr
    BY <2>1 DEF WakeInv, Isr, UpdateStarts
  <2>2. CASE UpdatePick
    BY <2>2 DEF WakeInv, UpdatePick, UpdateReturns
  <2>3. CASE UpdateMatch
    BY <2>3 DEF TimerInv, WakeInv, UpdateMatch
  <2>4. CASE UpdateUnmask
    BY <2>4 DEF TimerInv, WakeInv, Comes, UpdateUnmask, UpdateReturns
  <2>. QED  BY <2>1, <2>2, <2>3, <2>4
<1>. QED  BY <1>1, <1>2, <1>3, <1>4, <1>5 DEF TimerInv

Fires == UpdateRead /\ pc' = "callback"

(* timer_time_get finds the first timer due, and no other is due earlier.  *)
LEMMA FiresInv ==
  ASSUME TimerInv, Fires
  PROVE  /\ TimerInv' /\ Unlinked(list.first) /\ \A u \in Timer : Due(u)' = Due(u)
         /\ list.first \in Timer /\ Active(list.first) /\ Due(list.first) <= 0
         /\ UNCHANGED <<target, period, now, starting>>
         /\ callbacks' = Append(callbacks, list.first)
<1>1. PICK t \in Timer : /\ t = list.first /\ Active(t)
                         /\ timer_time_compare(now, target[t]) >= 0
                         /\ list' = List!cdll_pop_front(list)
                         /\ callbacks' = Append(callbacks, t) /\ pc' = "callback"
                         /\ UNCHANGED <<target, period, now, match, stat, unmasked, starting>>
                         /\ pc = "read"
  <2>1. list.first # NULL
    BY DEF TimerInv, WakeInv, Fires, UpdateRead
  <2>2. list.first \in Timer /\ Active(list.first)
    BY <2>1, ListMembers DEF TimerInv
  <2>. QED  BY <2>2 DEF Fires, UpdateRead, hw
<1>2. \A u \in Timer : Due(u)' = Due(u)
  BY <1>1 DEF Due
<1>3. ListInv' /\ Unlinked(t)
  BY <1>1, TimerUnlinked
<1>4. Due(t) <= 0 /\ Due(t) \in Near
  <2>1. Due(t) \in Near
    BY <1>1 DEF TimerInv, TimesInv, Waits
  <2>2. now \in 0 .. Wrap - 1 /\ target[t] \in 0 .. Wrap - 1
    BY DEF TimerInv, TypesInv
  <2>3. Due(t) \in Int /\ Due(t) > -Half
    <3>1. LateLimit \in Nat /\ LateLimit < Half - 1 /\ Half \in Nat
      BY NearFits DEF TimerInv
    <3>. QED  BY <2>1, <3>1 DEF Near
  <2>4. timer_time_compare(now, target[t]) = -Due(t)
    BY <2>2, <2>3, CompareBelow DEF Due
  <2>. QED  BY <1>1, <2>1, <2>3, <2>4
<1>5. callbacks \in Seq(Timer) /\ callbacks' \in Seq(Timer) /\ callbacks' # <<>>
      /\ Len(callbacks') = Len(callbacks) + 1
      /\ \A u \in Timer : u \in Range(callbacks') <=> u \in Range(callbacks) \/ u = t
  BY <1>1, Appended DEF TimerInv, TypesInv
<1>6. TypesInv'
  BY <1>1, <1>5 DEF TimerInv, TypesInv
<1>7. CallsInv'
  <2>1. Len(callbacks) \in Nat /\ Len(callbacks) <= DepthLimit
    BY <1>1, <1>5 DEF TimerInv, CallsInv
  <2>2. \A u \in starting : u \in Timer /\ u # t
    BY <1>1 DEF TimerInv, TypesInv, CallsInv
  <2>. QED  BY <1>1, <1>3, <1>5, <2>1, <2>2, DepthAssumption DEF TimerInv, CallsInv, Unlinked
<1>8. TimesInv'
  <2>1. \A u \in Timer : u # t => (Waits(u)' => Waits(u)) /\ (Expired(u)' => Expired(u))
    BY <1>1, <1>3, <1>5 DEF Waits, Expired, Unlinked
  <2>. QED  BY <1>2, <1>4, <2>1 DEF TimerInv, TimesInv
<1>9. WakeInv'
  BY <1>1 DEF WakeInv
<1>. QED  BY <1>1, <1>2, <1>3, <1>4, <1>6, <1>7, <1>8, <1>9 DEF TimerInv

(* It finds none due: the first will be, when the clock comes to match.    *)
LEMMA NotDueInv ==
  ASSUME TimerInv, UpdateRead, ~Fires
  PROVE  /\ TimerInv' /\ Kept
         /\ UNCHANGED <<list, target, period, now, callbacks, starting>>
<1>1. PICK t \in Timer : /\ t = list.first /\ Active(t) /\ match = target[t]
                         /\ timer_time_compare(now, target[t]) < 0
                         /\ pc' = "unmask" /\ pc = "read"
                         /\ UNCHANGED <<list, target, period, now, match, stat, unmasked, callbacks, starting>>
  <2>1. list.first # NULL /\ match = target[list.first]
    BY DEF TimerInv, WakeInv, UpdateRead
  <2>2. list.first \in Timer /\ Active(list.first)
    BY <2>1, ListMembers DEF TimerInv
  <2>3. timer_time_compare(now, target[list.first]) \in Int
    <3>1. now \in 0 .. Wrap - 1 /\ target[list.first] \in 0 .. Wrap - 1
      BY <2>2 DEF TimerInv, TypesInv
    <3>2. timer_time_compare(now, target[list.first]) \in -Half .. Half - 1
      BY <3>1, CompareValue
    <3>. QED  BY <3>2, Halves
  <2>4. ~(timer_time_compare(now, target[list.first]) >= 0)
    BY DEF Fires, UpdateRead
  <2>5. timer_time_compare(now, target[list.first]) < 0
    BY <2>3, <2>4
  <2>. QED  BY <2>1, <2>2, <2>4, <2>5 DEF UpdateRead, hw
<1>2. ListInv' /\ TimesInv' /\ Kept
  BY <1>1, TimersKept
<1>3. Due(t) > 0
  <2>1. Due(t) \in Near
    BY <1>1 DEF TimerInv, TimesInv, Waits
  <2>2. now \in 0 .. Wrap - 1 /\ target[t] \in 0 .. Wrap - 1
    BY DEF TimerInv, TypesInv
  <2>3. Due(t) \in Int /\ Due(t) > -Half
    <3>1. LateLimit \in Nat /\ LateLimit < Half - 1 /\ Half \in Nat
      BY NearFits DEF TimerInv
    <3>. QED  BY <2>1, <3>1 DEF Near
  <2>4. timer_time_compare(now, target[t]) = -Due(t)
    BY <2>2, <2>3, CompareBelow DEF Due
  <2>. QED  BY <1>1, <2>3, <2>4
<1>4. TypesInv'
  BY <1>1 DEF TimerInv, TypesInv
<1>5. CallsInv'
  <2>1. \A u \in starting : u \in Timer
    BY DEF TimerInv, TypesInv
  <2>. QED  BY <1>1, <1>2, <2>1 DEF TimerInv, CallsInv, Kept
<1>6. WakeInv'
  BY <1>1, <1>3, NullAssumption DEF TimerInv, WakeInv, Comes, Due
<1>. QED  BY <1>1, <1>2, <1>4, <1>5, <1>6 DEF TimerInv

LEMMA CallbackAgainInv ==
  ASSUME TimerInv, CallbackAgain, NEW c \in Timer, c = Callback
  PROVE  /\ TimerInv' /\ Linked(c) /\ Expired(c)
         /\ Due(c)' = Due(c) + period[c]
         /\ \A u \in Timer : u # c => Due(u)' = Due(u)
<1>1. /\ pc = "callback" /\ ~Active(c) /\ callbacks' = Front(callbacks) /\ pc' = "pick"
      /\ target' = [target EXCEPT ![c] = timer_time_add(target[c], period[c])]
      /\ timer_insert(c, target')
      /\ UNCHANGED <<period, now, match, stat, unmasked, starting>>
  BY DEF CallbackAgain, hw
<1>2. callbacks \in Seq(Timer) /\ callbacks # <<>>
  BY <1>1 DEF TimerInv, TypesInv, CallsInv
<1>3. /\ callbacks' \in Seq(Timer) /\ Len(callbacks') = Len(callbacks) - 1
      /\ c \in Range(callbacks)
      /\ \A u \in Timer : u \in Range(callbacks) <=> u \in Range(callbacks') \/ u = c
  BY <1>1, <1>2, Returned DEF Callback
<1>4. Expired(c) /\ Due(c) \in Near /\ Due(c) <= 0
  BY <1>1, <1>3 DEF Expired, TimerInv, TimesInv, Waits
<1>5. PICK p \in Period : p = period[c]
  BY DEF TimerInv, TypesInv
<1>6. /\ now \in 0 .. Wrap - 1 /\ target \in [Timer -> 0 .. Wrap - 1]
      /\ target[c] \in 0 .. Wrap - 1
  BY DEF TimerInv, TypesInv
<1>7. p \in Nat /\ p < Half /\ p < Wrap /\ Due(c) + p < Half /\ Due(c) + p \in Near
  <2>1. p \in Nat /\ p > 0 /\ p < Half /\ p < Wrap /\ p + LateLimit < Half
    BY PeriodFits
  <2>2. LateLimit \in Nat /\ Half \in Nat
    BY Halves, ClockAssumption
  <2>. QED  BY <1>4, <2>1, <2>2 DEF Near
<1>8. /\ target' \in [Timer -> 0 .. Wrap - 1] /\ target'[c] = timer_time_add(target[c], p)
      /\ \A u \in Timer : u # c => target'[u] = target[u]
  <2>1. timer_time_add(target[c], p) \in 0 .. Wrap - 1
    BY <1>6, <1>7, AddRange
  <2>. QED  BY <1>1, <1>5, <1>6, <2>1
<1>9. Due(c)' = Due(c) + p /\ \A u \in Timer : u # c => Due(u)' = Due(u)
  <2>1. timer_time_compare(timer_time_add(target[c], p), now) = timer_time_compare(target[c], now) + p
    BY <1>6, <1>7, CompareLater DEF Due
  <2>. QED  BY <1>1, <1>8, <2>1 DEF Due
<1>10. ListInv' /\ Linked(c)
  <2>1. Due(c)' \in Near
    BY <1>7, <1>9
  <2>. QED  BY <1>1, <1>8, <2>1, TimerLinked
<1>11. TypesInv'
  BY <1>1, <1>3, <1>8 DEF TimerInv, TypesInv
<1>12. CallsInv'
  <2>1. Len(callbacks) \in Nat /\ Len(callbacks) - 1 <= DepthLimit /\ Len(callbacks) - 1 <= DepthLimit + 1
    BY <1>2, DepthAssumption DEF TimerInv, CallsInv
  <2>2. \A u \in starting : u \in Timer /\ u # c /\ ~Active(u) /\ u \notin Range(callbacks')
    BY <1>3 DEF TimerInv, TypesInv, CallsInv
  <2>3. \A u \in starting' : ~Active(u)' /\ u \notin Range(callbacks')
    BY <1>1, <1>10, <2>2 DEF Linked
  <2>. QED  BY <1>1, <1>3, <2>1, <2>3 DEF CallsInv
<1>13. TimesInv'
  <2>1. \A u \in Timer : u # c => (Waits(u)' => Waits(u)) /\ (Expired(u)' => Expired(u))
    BY <1>1, <1>3, <1>10 DEF Waits, Expired, Linked
  <2>2. ~Expired(c)' /\ Due(c)' \in Near
    BY <1>7, <1>9, <1>10 DEF Expired, Linked
  <2>. QED  BY <1>9, <2>1, <2>2 DEF TimerInv, TimesInv
<1>14. WakeInv'
  BY <1>1 DEF WakeInv
<1>. QED  BY <1>4, <1>5, <1>9, <1>10, <1>11, <1>12, <1>13, <1>14 DEF TimerInv

LEMMA CallbackDoneInv ==
  ASSUME TimerInv, CallbackDone
  PROVE  /\ TimerInv' /\ Kept /\ \A u \in Timer : Due(u)' = Due(u)
         /\ Callback \in Timer
         /\ \A u \in Timer : u \in Range(callbacks) <=> u \in Range(callbacks') \/ u = Callback
         /\ UNCHANGED <<list, target, period, now, starting>>
<1>1. /\ pc = "callback" /\ callbacks' = Front(callbacks) /\ pc' = "pick"
      /\ UNCHANGED <<list, target, period, now, match, stat, unmasked, starting>>
  BY DEF CallbackDone, hw
<1>2. callbacks \in Seq(Timer) /\ callbacks # <<>>
  BY <1>1 DEF TimerInv, TypesInv, CallsInv
<1>3. /\ callbacks' \in Seq(Timer) /\ Len(callbacks') = Len(callbacks) - 1
      /\ Callback \in Timer
      /\ \A u \in Timer : u \in Range(callbacks) <=> u \in Range(callbacks') \/ u = Callback
  BY <1>1, <1>2, Returned DEF Callback
<1>4. Kept /\ \A u \in Timer : Due(u)' = Due(u)
  BY <1>1 DEF Kept, Active, Due
<1>5. TypesInv'
  BY <1>1, <1>3 DEF TimerInv, TypesInv
<1>6. CallsInv'
  <2>1. Len(callbacks) \in Nat /\ Len(callbacks) - 1 <= DepthLimit /\ Len(callbacks) - 1 <= DepthLimit + 1
    BY <1>2, DepthAssumption DEF TimerInv, CallsInv
  <2>2. \A u \in starting : u \in Timer /\ ~Active(u)' /\ u \notin Range(callbacks')
    BY <1>3, <1>4 DEF TimerInv, TypesInv, CallsInv, Kept
  <2>. QED  BY <1>1, <1>3, <2>1, <2>2 DEF CallsInv
<1>7. TimesInv'
  <2>1. \A u \in Timer : (Waits(u)' => Waits(u)) /\ (Expired(u)' => Expired(u))
    BY <1>1, <1>3, <1>4 DEF Waits, Expired, Kept
  <2>. QED  BY <1>4, <2>1 DEF TimerInv, TimesInv
<1>8. ListInv'
  BY <1>1 DEF TimerInv, ListInv
<1>9. WakeInv'
  BY <1>1 DEF WakeInv
<1>. QED  BY <1>1, <1>3, <1>4, <1>5, <1>6, <1>7, <1>8, <1>9 DEF TimerInv

LEMMA TickInv ==
  ASSUME TimerInv, Tick
  PROVE  /\ TimerInv' /\ Kept
         /\ \A u \in Timer : Waits(u) => Due(u) \in Int /\ Due(u)' = Due(u) - 1
         /\ UNCHANGED <<list, target, period, callbacks, starting>>
<1>1. /\ \A u \in Timer : Waits(u) => timer_time_compare(now, target[u]) < LateLimit
      /\ now' = timer_time_add(now, 1)
      /\ stat' = (stat \/ now' = match)
      /\ UNCHANGED <<list, target, period, match, unmasked, pc, callbacks, starting>>
  BY DEF Tick, Waits
<1>2. now \in 0 .. Wrap - 1 /\ match \in 0 .. Wrap - 1 /\ target \in [Timer -> 0 .. Wrap - 1]
  BY DEF TimerInv, TypesInv
<1>3. now' \in 0 .. Wrap - 1
  <2>1. 1 \in Nat /\ 1 < Wrap
    BY Halves
  <2>. QED  BY <1>1, <1>2, <2>1, AddRange
<1>4. ASSUME NEW u \in Timer, Waits(u)
      PROVE  Due(u) \in Int /\ Due(u) > -Half /\ Due(u)' = Due(u) - 1 /\ Due(u)' \in Near
  <2>1. Due(u) \in Near
    BY <1>4 DEF TimerInv, TimesInv
  <2>2. LateLimit \in Nat /\ LateLimit < Half - 1 /\ Half \in Nat
    BY NearFits DEF TimerInv
  <2>3. Due(u) \in Int /\ Due(u) > -Half
    BY <2>1, <2>2 DEF Near
  <2>4. target[u] \in 0 .. Wrap - 1
    BY <1>2
  <2>5. timer_time_compare(now, target[u]) = -Due(u)
    BY <1>2, <2>3, <2>4, CompareBelow DEF Due
  <2>6. timer_time_compare(target[u], now') = timer_time_compare(target[u], now) - 1
    BY <1>1, <1>2, <2>3, <2>4, CompareTick DEF Due
  <2>7. Due(u)' = Due(u) - 1
    BY <1>1, <2>6 DEF Due
  <2>8. -Due(u) < LateLimit
    BY <1>1, <1>4, <2>5
  <2>. QED  BY <2>1, <2>2, <2>3, <2>7, <2>8 DEF Near
<1>5. \A u \in Timer : (Active(u)' <=> Active(u)) /\ (Waits(u)' <=> Waits(u)) /\ (Expired(u)' <=> Expired(u))
  BY <1>1 DEF Active, Waits, Expired
<1>6. TypesInv'
  BY <1>1, <1>3 DEF TimerInv, TypesInv
<1>7. CallsInv'
  BY <1>1 DEF TimerInv, CallsInv, Active
<1>8. TimesInv'
  <2>1. SUFFICES ASSUME NEW u \in Timer, Waits(u)'
                 PROVE  Due(u)' \in Near /\ (Expired(u)' => Due(u)' <= 0)
    BY DEF TimesInv
  <2>2. Waits(u) /\ (Expired(u)' => Expired(u))
    BY <1>5, <2>1
  <2>3. Expired(u) => Due(u) <= 0
    BY <2>2 DEF TimerInv, TimesInv
  <2>4. Due(u) \in Int /\ Due(u)' = Due(u) - 1 /\ Due(u)' \in Near
    BY <1>4, <2>2
  <2>. QED  BY <2>2, <2>3, <2>4
<1>9. ListInv'
  <2>1. PICK s : Timed(list, s, target, now)
    BY DEF TimerInv, ListInv
  <2>2. s \in Seq(Timer) /\ Ring(list, s) /\ Sorted(s, target, now)
    BY <2>1 DEF Timed
  <2>3. ASSUME NEW i \in 1 .. Len(s)
        PROVE  /\ timer_time_compare(target[s[i]], now) \in Int
               /\ timer_time_compare(target[s[i]], now') = timer_time_compare(target[s[i]], now) - 1
    <3>1. s[i] \in Timer /\ In(s[i], s)
      BY <2>2 DEF In
    <3>2. Waits(s[i])
      BY <2>1, <3>1, TimedMembers DEF Waits, Active
    <3>3. Due(s[i]) \in Int /\ Due(s[i])' = Due(s[i]) - 1
      <4>1. PICK u \in Timer : u = s[i]
        BY <3>1
      <4>2. Due(u) \in Int /\ Due(u)' = Due(u) - 1
        BY <1>4, <3>2, <4>1
      <4>. QED  BY <4>1, <4>2 DEF Due
    <3>. QED  BY <1>1, <3>3 DEF Due
  <2>4. Sorted(s, target, now')
    <3>1. SUFFICES ASSUME NEW j \in 1 .. Len(s), NEW k \in 1 .. Len(s), j < k
                   PROVE  timer_time_compare(target[s[j]], now') <= timer_time_compare(target[s[k]], now')
      BY DEF Sorted
    <3>2. timer_time_compare(target[s[j]], now) <= timer_time_compare(target[s[k]], now)
      BY <2>2, <3>1 DEF Sorted
    <3>. QED  BY <2>3, <3>2
  <2>5. Timed(list', s, target', now')
    BY <1>1, <2>2, <2>4 DEF Timed
  <2>. QED  BY <2>5 DEF ListInv
<1>10. Comes /\ list.first # NULL => Comes'
  <2>1. SUFFICES ASSUME ~stat, match = target[list.first], list.first # NULL,
                        timer_time_compare(match, now) > 0, now' # match
                 PROVE  timer_time_compare(match, now') > 0
    BY <1>1 DEF Comes
  <2>2. timer_time_compare(match, now) \in Int /\ timer_time_compare(match, now) > -Half
    BY <1>2, <2>1, CompareValue, Halves
  <2>3. timer_time_compare(match, now') = timer_time_compare(match, now) - 1
    BY <1>1, <1>2, <2>2, CompareTick
  <2>4. timer_time_compare(match, now') # 0
    BY <1>2, <1>3, <2>1, CompareZero
  <2>. QED  BY <2>1, <2>2, <2>3, <2>4
<1>11. WakeInv'
  BY <1>1, <1>10 DEF TimerInv, WakeInv
<1>. QED  BY <1>1, <1>4, <1>5, <1>6, <1>7, <1>8, <1>9, <1>11 DEF TimerInv, Kept

LEMMA NextTimerInv == TimerInv /\ [Next]_vars => TimerInv'
<1>1. SUFFICES ASSUME TimerInv, [Next]_vars PROVE TimerInv'
  OBVIOUS
<1>2. ASSUME NEW t \in Timer, NEW p \in Period, StartTarget(t, p) \/ CallbackStarts(t, p)
      PROVE  TimerInv'
  BY <1>1, <1>2, StartTargetInv, CallbackStartsInv
<1>3. ASSUME NEW t \in Timer, Stop(t) \/ StartInsert(t) PROVE TimerInv'
  BY <1>1, <1>3, StopInv, StartInsertInv
<1>4. ASSUME Isr \/ Update PROVE TimerInv'
  BY <1>1, <1>4, UpdateStepInv, FiresInv, NotDueInv DEF Update
<1>5. ASSUME CallbackReturns PROVE TimerInv'
  <2>1. CASE CallbackDone
    BY <1>1, <2>1, CallbackDoneInv
  <2>2. CASE CallbackAgain
    <3>1. callbacks \in Seq(Timer) /\ callbacks # <<>>
      BY <1>1, <2>2 DEF TimerInv, TypesInv, CallsInv, CallbackAgain
    <3>2. Callback \in Timer
      BY <3>1, Returned DEF Callback
    <3>. QED  BY <1>1, <2>2, <3>2, CallbackAgainInv
  <2>. QED  BY <1>5, <2>1, <2>2 DEF CallbackReturns
<1>6. CASE Tick
  BY <1>1, <1>6, TickInv
<1>7. CASE UNCHANGED vars
  <2>1. UNCHANGED <<list, target, period, now, match, stat, unmasked, pc, callbacks, starting>>
    BY <1>7 DEF vars
  <2>2. ListInv' /\ TimesInv' /\ Kept
    BY <1>1, <2>1, TimersKept
  <2>3. TypesInv' /\ WakeInv'
    BY <1>1, <2>1 DEF TimerInv, TypesInv, WakeInv, Comes
  <2>4. CallsInv'
    BY <1>1, <2>1 DEF TimerInv, CallsInv, Active
  <2>. QED  BY <2>2, <2>3, <2>4 DEF TimerInv
<1>. QED  BY <1>1, <1>2, <1>3, <1>4, <1>5, <1>6, <1>7 DEF Next, Caller, Inserts

LEMMA SpecTimerInv == Spec => []TimerInv
<1>. QED  BY InitTimerInv, NextTimerInv, PTL DEF Spec

-----------------------------------------------------------------------------
(* The variables keep their types, callbacks nest no deeper than the bound *)
(* on them, and a timer whose start is under way is in no list.            *)
THEOREM TypesHold == Spec => []TypeOK
<1>1. TimerInv => TypeOK
  BY DEF TimerInv, TypesInv, CallsInv, TypeOK
<1>. QED  BY <1>1, SpecTimerInv, PTL

(* The pointers of the list make one ring, however timers are started,     *)
(* stopped and restarted, and it is sorted by the time left, across the    *)
(* wrap of the clock: the compare register is set for the right timer.     *)
THEOREM ListStaysSorted == Spec => []InOrder
<1>1. ASSUME TimerInv PROVE InOrder
  <2>1. PICK s : Timed(list, s, target, now)
    BY <1>1 DEF TimerInv, ListInv
  <2>2. s \in Seq(Timer) /\ Ring(list, s) /\ Sorted(s, target, now)
    BY <2>1 DEF Timed
  <2>3. List!RingOf(list) /\ List!Order(list) = s
    BY <2>2, RingIsRingOf, OrderRing
  <2>4. DOMAIN s = 1 .. Len(s)
    BY <2>2
  <2>5. \A j, k \in DOMAIN s : j < k =>
          timer_time_compare(target[s[j]], now) <= timer_time_compare(target[s[k]], now)
    BY <2>2, <2>4 DEF Sorted
  <2>. QED  BY <2>3, <2>5 DEF InOrder
<1>. QED  BY <1>1, SpecTimerInv, PTL

(* Whenever no update runs and a timer is active, the interrupt that will  *)
(* find it due is pending or the clock has still to come to the compare    *)
(* register, and it is let through: no start, stop or late step of the     *)
(* update loses the wake-up.                                               *)
THEOREM NoWakeUpIsLost == Spec => []WakeUpDue
<1>1. TimerInv => WakeUpDue
  BY DEF TimerInv, WakeInv, Comes, WakeUpDue
<1>. QED  BY <1>1, SpecTimerInv, PTL

-----------------------------------------------------------------------------
(* The update over the list and the compare register implements the timer  *)
(* service.  State and Left are what the service sees.                     *)

State(t) == IF Active(t) /\ t \in Range(callbacks) THEN "restarted"
            ELSE IF Active(t) THEN "armed"
            ELSE IF t \in starting THEN "asked"
            ELSE IF Expired(t) THEN "expired" ELSE "off"

Left(t) == IF Active(t) \/ t \in starting \/ Expired(t)
           THEN timer_time_compare(target[t], now) ELSE 0

States == [t \in Timer |-> State(t)]
Lefts == [t \in Timer |-> Left(t)]

Seen(t) == State(t)' = State(t) /\ Left(t)' = Left(t)

LEMMA InitService == Init => Service!ServiceInit
<1>1. SUFFICES ASSUME Init PROVE Service!ServiceInit
  OBVIOUS
<1>2. \A t \in Timer : ~Active(t) /\ ~Expired(t) /\ t \notin starting
  BY <1>1, NoCallback DEF Init, Active, Expired, List!cdll_is_elem_linked, List!cdll_init
<1>. QED  BY <1>1, <1>2 DEF Init, Service!ServiceInit

(* A step that one timer is seen to take.                                  *)
LEMMA SeesOne ==
  ASSUME NEW t \in Timer, \A u \in Timer : u # t => Seen(u)
  PROVE  /\ States' = [States EXCEPT ![t] = State(t)']
         /\ Lefts' = [Lefts EXCEPT ![t] = Left(t)']
<1>1. States' = [u \in Timer |-> State(u)'] /\ Lefts' = [u \in Timer |-> Left(u)']
  BY DEF States, Lefts
<1>2. \A u \in Timer : u # t => State(u)' = State(u) /\ Left(u)' = Left(u)
  BY DEF Seen
<1>. QED  BY <1>1, <1>2 DEF States, Lefts

LEMMA SeesNothing ==
  ASSUME \A u \in Timer : Seen(u)
  PROVE  States' = States /\ Lefts' = Lefts
BY DEF States, Lefts, Seen

(* What the timer t is seen as, and that the others are seen as before.    *)
LEMMA OthersSeen ==
  ASSUME TimerInv, NEW t \in Timer, Kept \/ Linked(t) \/ Unlinked(t),
         \A u \in Timer : u # t => /\ Due(u)' = Due(u)
                                   /\ u \in Range(callbacks') <=> u \in Range(callbacks)
                                   /\ u \in starting' <=> u \in starting
  PROVE  \A u \in Timer : u # t => Seen(u)
<1>1. SUFFICES ASSUME NEW u \in Timer, u # t PROVE Seen(u)
  OBVIOUS
<1>2. (Active(u)' <=> Active(u)) /\ (Expired(u)' <=> Expired(u))
  BY <1>1 DEF Kept, Linked, Unlinked, Expired
<1>3. State(u)' = State(u)
  BY <1>1, <1>2 DEF State
<1>4. Left(u)' = Left(u)
  BY <1>1, <1>2 DEF Left, Due
<1>. QED  BY <1>3, <1>4 DEF Seen

(* The actions of the service in these terms.                              *)
LEMMA StateAt == \A t \in Timer : States[t] = State(t) /\ Lefts[t] = Left(t)
BY DEF States, Lefts

LEMMA SeenAsk ==
  ASSUME NEW t \in Timer, NEW p \in Period, NEW from \in {{"off"}, {"expired"}},
         NEW to \in {"asked", "armed", "restarted"}, State(t) \in from,
         States' = [States EXCEPT ![t] = to], Lefts' = [Lefts EXCEPT ![t] = p],
         period' = [period EXCEPT ![t] = p]
  PROVE  Service!Ask(t, p, from, to)
<1>1. States[t] \in from
  BY StateAt
<1>. QED  BY <1>1 DEF Service!Ask, Service!Goes, States, State, Lefts, Left

LEMMA SeenArm ==
  ASSUME NEW t \in Timer, State(t) \in {"asked", "restarted"},
         States' = [States EXCEPT ![t] = "armed"], Lefts' = Lefts, period' = period
  PROVE  Service!Arm(t)
<1>1. States[t] \in {"asked", "restarted"}
  BY StateAt
<1>. QED  BY <1>1 DEF Service!Arm, Service!Goes, States, State, Lefts, Left

LEMMA SeenFire ==
  ASSUME NEW t \in Timer, State(t) \in {"armed", "restarted"},
         States' = [States EXCEPT ![t] = "expired"], Lefts' = Lefts, period' = period,
         Left(t) <= 0,
         \A u \in Timer : State(u) \in {"armed", "restarted"} => Left(t) <= Left(u)
  PROVE  Service!Fire(t)
<1>1. /\ States[t] \in {"armed", "restarted"} /\ Lefts[t] <= 0
      /\ \A u \in Timer : States[u] \in {"armed", "restarted"} => Lefts[t] <= Lefts[u]
  BY StateAt
<1>. QED  BY <1>1 DEF Service!Fire, Service!Goes, States, State, Lefts, Left

LEMMA SeenAgain ==
  ASSUME NEW t \in Timer, State(t) = "expired", NEW to \in {"armed", "restarted"},
         States' = [States EXCEPT ![t] = to],
         Lefts' = [Lefts EXCEPT ![t] = Left(t) + period[t]], period' = period
  PROVE  Service!Again(t)
<1>1. States[t] \in {"expired"}
  BY StateAt
<1>2. Lefts' = [Lefts EXCEPT ![t] = Lefts[t] + period[t]]
  BY StateAt
<1>. QED  BY <1>1, <1>2 DEF Service!Again, Service!Goes, States, State, Lefts, Left

LEMMA SeenOff ==
  ASSUME NEW t \in Timer, State(t) \in {"armed", "expired"},
         States' = [States EXCEPT ![t] = "off"], Lefts' = [Lefts EXCEPT ![t] = 0],
         period' = period
  PROVE  Service!Off(t)
<1>1. States[t] \in {"armed", "expired"}
  BY StateAt
<1>. QED  BY <1>1 DEF Service!Off, Service!Goes, States, State, Lefts, Left

LEMMA SeenPasses ==
  ASSUME States' = States, period' = period,
         \A t \in Timer : Left(t)' = IF State(t) = "off" THEN 0 ELSE Left(t) - 1
  PROVE  Service!Passes
<1>1. Lefts' = [t \in Timer |-> IF States[t] = "off" THEN 0 ELSE Lefts[t] - 1]
  <2>1. Lefts' = [t \in Timer |-> Left(t)']
    BY DEF Lefts
  <2>. QED  BY <2>1, StateAt
<1>. QED  BY <1>1 DEF Service!Passes, States, State, Lefts, Left

LEMMA SeenStutter ==
  ASSUME States' = States, Lefts' = Lefts, period' = period
  PROVE  UNCHANGED Service!timerVars
BY DEF Service!timerVars, States, State, Lefts, Left

LEMMA LeftsSame ==
  ASSUME \A u \in Timer : Left(u)' = Left(u)
  PROVE  Lefts' = Lefts
BY DEF Lefts

LEMMA IdleCalls ==
  ASSUME TimerInv, pc = "idle"
  PROVE  \A t \in Timer : t \notin Range(callbacks)
BY NoCallback DEF TimerInv, CallsInv

LEMMA StartTargetSeen ==
  ASSUME TimerInv, NEW t \in Timer, NEW p \in Period, StartTarget(t, p)
  PROVE  Service!Ask(t, p, {"off"}, "asked")
<1>1. /\ Kept /\ Due(t)' = p /\ \A u \in Timer : u # t => Due(u)' = Due(u)
  BY StartTargetInv
<1>2. /\ ~Active(t) /\ t \notin starting /\ starting' = starting \cup {t}
      /\ callbacks' = callbacks /\ period' = [period EXCEPT ![t] = p]
      /\ t \notin Range(callbacks)
  BY IdleCalls DEF StartTarget
<1>3. \A u \in Timer : u # t => Seen(u)
  BY <1>1, <1>2, OthersSeen
<1>4. State(t) \in {"off"} /\ State(t)' = "asked" /\ Left(t)' = p
  BY <1>1, <1>2 DEF State, Left, Expired, Kept, Due
<1>5. States' = [States EXCEPT ![t] = "asked"] /\ Lefts' = [Lefts EXCEPT ![t] = p]
  BY <1>3, <1>4, SeesOne
<1>. QED  BY <1>2, <1>4, <1>5, SeenAsk

LEMMA StartInsertSeen ==
  ASSUME TimerInv, NEW t \in Timer, StartInsert(t)
  PROVE  Service!Arm(t)
<1>1. Linked(t) /\ \A u \in Timer : Due(u)' = Due(u)
  BY StartInsertInv
<1>2. /\ ~Active(t) /\ t \in starting /\ starting' = starting \ {t}
      /\ callbacks' = callbacks /\ period' = period /\ t \notin Range(callbacks)
  BY IdleCalls DEF TimerInv, CallsInv, StartInsert
<1>3. \A u \in Timer : u # t => Seen(u)
  BY <1>1, <1>2, OthersSeen
<1>4. State(t) = "asked" /\ State(t)' = "armed" /\ Left(t)' = Left(t)
  BY <1>1, <1>2 DEF State, Left, Linked, Due
<1>5. States' = [States EXCEPT ![t] = "armed"]
  BY <1>3, <1>4, SeesOne
<1>6. Lefts' = Lefts
  BY <1>3, <1>4, LeftsSame DEF Seen
<1>. QED  BY <1>2, <1>4, <1>5, <1>6, SeenArm

LEMMA CallbackStartsSeen ==
  ASSUME TimerInv, NEW t \in Timer, NEW p \in Period, CallbackStarts(t, p)
  PROVE  Service!Ask(t, p, {"off"}, "armed") \/ Service!Ask(t, p, {"expired"}, "restarted")
<1>1. /\ Linked(t) /\ Due(t)' = p /\ \A u \in Timer : u # t => Due(u)' = Due(u)
  BY CallbackStartsInv
<1>2. /\ ~Active(t) /\ t \notin starting /\ starting' = starting
      /\ callbacks' = callbacks /\ period' = [period EXCEPT ![t] = p]
  BY DEF CallbackStarts
<1>3. \A u \in Timer : u # t => Seen(u)
  BY <1>1, <1>2, OthersSeen
<1>4. Left(t)' = p
  BY <1>1, <1>2 DEF Left, Linked, Due
<1>5. CASE t \in Range(callbacks)
  <2>1. State(t) \in {"expired"} /\ State(t)' = "restarted"
    BY <1>1, <1>2, <1>5 DEF State, Expired, Linked
  <2>2. States' = [States EXCEPT ![t] = "restarted"] /\ Lefts' = [Lefts EXCEPT ![t] = p]
    BY <1>3, <1>4, <2>1, SeesOne
  <2>. QED  BY <1>2, <2>1, <2>2, SeenAsk
<1>6. CASE t \notin Range(callbacks)
  <2>1. State(t) \in {"off"} /\ State(t)' = "armed"
    BY <1>1, <1>2, <1>6 DEF State, Expired, Linked
  <2>2. States' = [States EXCEPT ![t] = "armed"] /\ Lefts' = [Lefts EXCEPT ![t] = p]
    BY <1>3, <1>4, <2>1, SeesOne
  <2>. QED  BY <1>2, <2>1, <2>2, SeenAsk
<1>. QED  BY <1>5, <1>6

LEMMA StopSeen ==
  ASSUME TimerInv, NEW t \in Timer, Stop(t)
  PROVE  Service!Off(t)
<1>1. Unlinked(t) /\ \A u \in Timer : Due(u)' = Due(u)
  BY StopInv
<1>2. /\ Active(t) /\ t \notin starting /\ starting' = starting
      /\ callbacks' = callbacks /\ period' = period /\ t \notin Range(callbacks)
  BY DEF TimerInv, CallsInv, Stop
<1>3. \A u \in Timer : u # t => Seen(u)
  BY <1>1, <1>2, OthersSeen
<1>4. State(t) = "armed" /\ State(t)' = "off" /\ Left(t)' = 0
  BY <1>1, <1>2 DEF State, Left, Expired, Unlinked
<1>5. States' = [States EXCEPT ![t] = "off"] /\ Lefts' = [Lefts EXCEPT ![t] = 0]
  BY <1>3, <1>4, SeesOne
<1>. QED  BY <1>2, <1>4, <1>5, SeenOff

LEMMA FiresSeen ==
  ASSUME TimerInv, Fires
  PROVE  \E t \in Timer : Service!Fire(t)
<1>1. PICK t \in Timer :
        /\ t = list.first /\ Unlinked(t) /\ Active(t) /\ Due(t) <= 0
        /\ \A u \in Timer : Due(u)' = Due(u)
        /\ UNCHANGED <<target, period, now, starting>>
        /\ callbacks' = Append(callbacks, t)
  BY FiresInv
<1>2. \A u \in Timer : u \in Range(callbacks') <=> u \in Range(callbacks) \/ u = t
  BY <1>1, Appended DEF TimerInv, TypesInv
<1>3. \A u \in Timer : u # t => Seen(u)
  BY <1>1, <1>2, OthersSeen
<1>4. State(t) \in {"armed", "restarted"} /\ State(t)' = "expired" /\ Left(t)' = Left(t)
  <2>1. t \notin starting
    BY <1>1 DEF TimerInv, CallsInv
  <2>2. ~Active(t)' /\ t \in Range(callbacks')
    BY <1>1, <1>2 DEF Unlinked
  <2>. QED  BY <1>1, <2>1, <2>2 DEF State, Left, Expired, Due
<1>5. States' = [States EXCEPT ![t] = "expired"]
  BY <1>3, <1>4, SeesOne
<1>6. Lefts' = Lefts
  BY <1>3, <1>4, LeftsSame DEF Seen
<1>7. Left(t) <= 0 /\ \A u \in Timer : State(u) \in {"armed", "restarted"} => Left(t) <= Left(u)
  <2>1. ASSUME NEW u \in Timer, State(u) \in {"armed", "restarted"} PROVE Left(t) <= Left(u)
    <3>1. Active(u)
      BY <2>1 DEF State
    <3>2. Left(t) = Due(t) /\ Left(u) = Due(u)
      BY <1>1, <3>1 DEF Left, Due
    <3>3. u = t \/ Due(t) <= Due(u)
      BY <1>1, <3>1, NullAssumption, ListMembers DEF TimerInv
    <3>4. Due(t) \in Int
      BY <1>1, NearFits DEF TimerInv, TimesInv, Waits
    <3>. QED  BY <3>2, <3>3, <3>4
  <2>. QED  BY <1>1, <2>1 DEF Left, Due
<1>8. Service!Fire(t)
  BY <1>1, <1>4, <1>5, <1>6, <1>7, SeenFire
<1>. QED  BY <1>8

LEMMA CallbackAgainSeen ==
  ASSUME TimerInv, CallbackAgain, NEW c \in Timer, c = Callback
  PROVE  Service!Again(c)
<1>1. /\ Linked(c) /\ Expired(c) /\ Due(c)' = Due(c) + period[c]
      /\ \A u \in Timer : u # c => Due(u)' = Due(u)
  BY CallbackAgainInv
<1>2. callbacks' = Front(callbacks) /\ period' = period /\ starting' = starting /\ pc = "callback"
  BY DEF CallbackAgain
<1>3. \A u \in Timer : u \in Range(callbacks) <=> u \in Range(callbacks') \/ u = c
  <2>1. callbacks \in Seq(Timer) /\ callbacks # <<>>
    BY <1>2 DEF TimerInv, TypesInv, CallsInv
  <2>. QED  BY <1>2, <2>1, Returned DEF Callback
<1>4. \A u \in Timer : u # c => Seen(u)
  BY <1>1, <1>2, <1>3, OthersSeen
<1>5. State(c) = "expired" /\ State(c)' \in {"armed", "restarted"} /\ Left(c)' = Left(c) + period[c]
  <2>1. c \notin starting /\ ~Active(c)
    BY <1>1 DEF TimerInv, CallsInv, Expired
  <2>. QED  BY <1>1, <2>1 DEF State, Left, Expired, Linked, Due
<1>6. PICK to \in {"armed", "restarted"} : State(c)' = to
  BY <1>5
<1>7. States' = [States EXCEPT ![c] = to] /\ Lefts' = [Lefts EXCEPT ![c] = Left(c) + period[c]]
  BY <1>4, <1>5, <1>6, SeesOne
<1>. QED  BY <1>2, <1>5, <1>7, SeenAgain

LEMMA CallbackDoneSeen ==
  ASSUME TimerInv, CallbackDone
  PROVE  \/ \E c \in Timer : Service!Arm(c) \/ Service!Off(c)
         \/ UNCHANGED Service!timerVars
<1>1. PICK c \in Timer :
        /\ \A u \in Timer : u \in Range(callbacks) <=> u \in Range(callbacks') \/ u = c
        /\ Kept /\ \A u \in Timer : Due(u)' = Due(u)
        /\ UNCHANGED <<list, target, period, now, starting>>
  BY CallbackDoneInv
<1>2. \A u \in Timer : u # c => Seen(u)
  BY <1>1, OthersSeen
<1>3. c \notin starting
  BY <1>1 DEF TimerInv, CallsInv
<1>4. CASE c \in Range(callbacks')
  <2>1. Seen(c)
    BY <1>1, <1>4 DEF Seen, State, Left, Expired, Kept, Due
  <2>. QED  BY <1>1, <1>2, <2>1, SeesNothing, SeenStutter
<1>5. CASE c \notin Range(callbacks') /\ Active(c)
  <2>1. State(c) = "restarted" /\ State(c)' = "armed" /\ Left(c)' = Left(c)
    BY <1>1, <1>5 DEF State, Left, Kept, Due
  <2>2. States' = [States EXCEPT ![c] = "armed"]
    BY <1>2, <2>1, SeesOne
  <2>3. Lefts' = Lefts
    BY <1>2, <2>1, LeftsSame DEF Seen
  <2>. QED  BY <1>1, <2>1, <2>2, <2>3, SeenArm
<1>6. CASE c \notin Range(callbacks') /\ ~Active(c)
  <2>1. State(c) = "expired" /\ State(c)' = "off" /\ Left(c)' = 0
    BY <1>1, <1>3, <1>6 DEF State, Left, Expired, Kept
  <2>2. States' = [States EXCEPT ![c] = "off"] /\ Lefts' = [Lefts EXCEPT ![c] = 0]
    BY <1>2, <2>1, SeesOne
  <2>. QED  BY <1>1, <2>1, <2>2, SeenOff
<1>. QED  BY <1>4, <1>5, <1>6

LEMMA TickSeen ==
  ASSUME TimerInv, Tick
  PROVE  Service!Passes
<1>1. /\ Kept /\ \A u \in Timer : Waits(u) => Due(u)' = Due(u) - 1
      /\ UNCHANGED <<list, target, period, callbacks, starting>>
  BY TickInv
<1>2. \A u \in Timer : (Expired(u)' <=> Expired(u)) /\ State(u)' = State(u)
  BY <1>1 DEF State, Expired, Kept
<1>3. States' = States
  BY <1>2 DEF States
<1>4. ASSUME NEW u \in Timer
      PROVE  Left(u)' = IF State(u) = "off" THEN 0 ELSE Left(u) - 1
  <2>1. CASE Waits(u)
    <3>1. State(u) # "off"
      BY <2>1 DEF State, Waits
    <3>. QED  BY <1>1, <1>2, <2>1, <3>1 DEF Left, Waits, Kept, Due
  <2>2. CASE ~Waits(u)
    <3>1. State(u) = "off"
      BY <2>2 DEF State, Waits
    <3>. QED  BY <1>1, <1>2, <2>2, <3>1 DEF Left, Waits, Kept
  <2>. QED  BY <2>1, <2>2
<1>. QED  BY <1>1, <1>3, <1>4, SeenPasses

LEMMA UnseenStep ==
  ASSUME Kept, UNCHANGED <<list, target, period, now, callbacks, starting>>
  PROVE  UNCHANGED Service!timerVars
<1>1. \A u \in Timer : Seen(u)
  BY DEF Seen, State, Left, Expired, Kept
<1>. QED  BY <1>1, SeesNothing, SeenStutter

LEMMA NextSeen == TimerInv /\ [Next]_vars => [Service!ServiceNext]_(Service!timerVars)
<1>1. SUFFICES ASSUME TimerInv, [Next]_vars PROVE Service!ServiceNext \/ UNCHANGED Service!timerVars
  OBVIOUS
<1>2. ASSUME NEW t \in Timer, NEW p \in Period, StartTarget(t, p) \/ CallbackStarts(t, p)
      PROVE  Service!ServiceNext
  BY <1>1, <1>2, StartTargetSeen, CallbackStartsSeen DEF Service!ServiceNext
<1>3. ASSUME NEW t \in Timer, Stop(t) \/ StartInsert(t) PROVE Service!ServiceNext
  BY <1>1, <1>3, StopSeen, StartInsertSeen DEF Service!ServiceNext
<1>4. ASSUME Isr \/ UpdatePick \/ UpdateMatch \/ UpdateUnmask \/ (UpdateRead /\ ~Fires)
      PROVE  UNCHANGED Service!timerVars
  BY <1>1, <1>4, UpdateStepInv, NotDueInv, UnseenStep
<1>5. CASE Fires
  BY <1>1, <1>5, FiresSeen DEF Service!ServiceNext
<1>6. CASE CallbackDone
  BY <1>1, <1>6, CallbackDoneSeen DEF Service!ServiceNext
<1>7. CASE CallbackAgain
  <2>1. callbacks \in Seq(Timer) /\ callbacks # <<>>
    BY <1>1, <1>7 DEF TimerInv, TypesInv, CallsInv, CallbackAgain
  <2>2. Callback \in Timer
    BY <2>1, Returned DEF Callback
  <2>. QED  BY <1>1, <1>7, <2>2, CallbackAgainSeen DEF Service!ServiceNext
<1>8. CASE Tick
  BY <1>1, <1>8, TickSeen DEF Service!ServiceNext
<1>9. CASE UNCHANGED vars
  <2>1. UNCHANGED <<list, target, period, now, callbacks, starting>>
    BY <1>9 DEF vars
  <2>2. Kept
    BY <2>1 DEF Kept, Active
  <2>. QED  BY <2>1, <2>2, UnseenStep
<1>. QED  BY <1>1, <1>2, <1>3, <1>4, <1>5, <1>6, <1>7, <1>8, <1>9
          DEF Next, Caller, Inserts, Update, CallbackReturns

(* The update implements the timer service: no timer fires early or before *)
(* one that is due earlier, and a periodic one does not drift, although    *)
(* the list's pointers and a clock that wraps are all there is.            *)
THEOREM UpdateImplementsService == Spec => ImplementsService
<1>1. Init => Service!ServiceInit
  BY InitService
<1>2. TimerInv /\ [Next]_vars => [Service!ServiceNext]_(Service!timerVars)
  BY NextSeen
<1>. QED  BY <1>1, <1>2, SpecTimerInv, PTL DEF Spec, ImplementsService, Service!ServiceSpec
=============================================================================

----------------------------- MODULE FifoProofs -----------------------------
(***************************************************************************)
(* The inductive invariant of Fifo and its refinement of BoundedQueue,     *)
(* for every length, index width and set of items.                         *)
(***************************************************************************)
EXTENDS Fifo, SequenceTheorems, TLAPS

(* Storing an index: it stays in range, and reaches the next slot. *)
LEMMA AdvanceIdxStep ==
  ASSUME NEW i \in Index
  PROVE  /\ AdvanceIdx(i) \in Index
         /\ AdvanceIdx(i) = IF i + 1 = 2 * Length THEN 0 ELSE i + 1
<1>1. /\ Length \in Nat \ {0}
      /\ IdxSize \in Nat
      /\ 2 * Length <= IdxSize
  BY LengthAssumption
<1>2. CASE i + 1 = 2 * Length
  BY <1>1, <1>2 DEF AdvanceIdx, Index
<1>3. CASE i + 1 # 2 * Length
  <2>1. i + 1 < IdxSize /\ i + 1 \in Nat
    BY <1>1, <1>3 DEF Index
  <2>2. (i + 1) % IdxSize = i + 1
    BY <2>1, <1>1
  <2>. QED  BY <1>1, <1>3, <2>2 DEF AdvanceIdx, Index
<1>. QED  BY <1>2, <1>3

(* Both indices address an element of the array. *)
LEMMA SlotInArray ==
  ASSUME NEW i \in Index
  PROVE  Slot(i) \in 0 .. Length - 1
BY LengthAssumption DEF Index, Slot

(* Full and empty are what the count of held items says they are. *)
LEMMA CountMeaning ==
  ASSUME wr_idx \in Index, rd_idx \in Index, Count <= Length
  PROVE  /\ Count \in 0 .. Length
         /\ Empty <=> Count = 0
         /\ Full <=> Count = Length
BY LengthAssumption DEF Index, Count, Empty, Full, Distance

(* The slot the put writes is none of those that hold an item. *)
LEMMA FreeSlot ==
  ASSUME wr_idx \in Index, rd_idx \in Index, Count < Length,
         NEW k \in 1 .. Count
  PROVE  /\ Ahead(k - 1) \in Index
         /\ Slot(Ahead(k - 1)) # Slot(wr_idx)
BY LengthAssumption DEF Index, Count, Ahead, Slot

(* The item the index store adds is the one behind all that are held. *)
LEMMA LastHeld ==
  ASSUME wr_idx \in Index, rd_idx \in Index, Count < Length
  PROVE  Slot(Ahead(Count)) = Slot(wr_idx)
BY LengthAssumption DEF Index, Count, Ahead, Slot

-----------------------------------------------------------------------------
LEMMA InitFifoInv == Init => FifoInv
BY LengthAssumption DEF Init, FifoInv, TypeOK, Index, Count, PutInv, GetInv

LEMMA NextFifoInv == FifoInv /\ [Next]_fifoVars => FifoInv'
<1> SUFFICES ASSUME FifoInv, [Next]_fifoVars PROVE FifoInv'
  OBVIOUS
<1> USE DEF FifoInv, TypeOK, PutInv, GetInv
<1>0. Length \in Nat \ {0}
  BY LengthAssumption
<1>1. ASSUME NEW d \in Item, PutTest(d) PROVE FifoInv'
  <2>1. Count < Length
    BY <1>0, <1>1, CountMeaning DEF PutTest
  <2>. QED  BY <1>1, <2>1 DEF PutTest, Count
<1>2. CASE PutCopy
  <2>1. Slot(wr_idx) \in 0 .. Length - 1 /\ Slot(rd_idx) \in 0 .. Length - 1
    BY SlotInArray
  <2>2. put_arg \in Item /\ Count < Length
    BY <1>2 DEF PutCopy
  <2>3. Count > 0 => Slot(rd_idx) # Slot(wr_idx)
    BY <2>2, <1>0 DEF Count, Slot, Index
  <2>4. UNCHANGED <<wr_idx, rd_idx, put_arg, get_pc, get_arg, out>>
    BY <1>2 DEF PutCopy
  <2>5. /\ buf' \in [0 .. Length - 1 -> Item \cup {NoItem}]
        /\ buf'[Slot(wr_idx)] = put_arg
        /\ Count > 0 => buf'[Slot(rd_idx)] = buf[Slot(rd_idx)]
        /\ put_pc' = "advance"
    BY <1>2, <2>1, <2>2, <2>3 DEF PutCopy
  <2>. QED  BY <2>2, <2>4, <2>5 DEF Count, Slot
<1>3. CASE PutAdvance
  <2>1. Count < Length
    BY <1>3 DEF PutAdvance
  <2>2. wr_idx' \in Index /\ wr_idx' = IF wr_idx + 1 = 2 * Length THEN 0 ELSE wr_idx + 1
    BY <1>3, AdvanceIdxStep DEF PutAdvance
  <2>3. UNCHANGED rd_idx
    BY <1>3 DEF PutAdvance
  <2>4. Count' = Count + 1
    BY <2>1, <2>2, <2>3, <1>0 DEF Count, Index
  <2>5. Count \in Nat
    BY <1>0 DEF Count, Index
  <2>. QED  BY <1>0, <1>3, <2>1, <2>2, <2>4, <2>5 DEF PutAdvance, Slot
<1>4. CASE GetTest
  <2>1. Count > 0
    BY <1>4, CountMeaning, <1>0 DEF GetTest
  <2>. QED  BY <1>4, <2>1 DEF GetTest, Count
<1>5. CASE GetCopy
  <2>1. Slot(rd_idx) \in 0 .. Length - 1
    BY SlotInArray
  <2>. QED  BY <1>5, <2>1 DEF GetCopy, Count, Slot
<1>6. CASE GetAdvance
  <2>1. Count > 0
    BY <1>6 DEF GetAdvance
  <2>2. rd_idx' \in Index /\ rd_idx' = IF rd_idx + 1 = 2 * Length THEN 0 ELSE rd_idx + 1
    BY <1>6, AdvanceIdxStep DEF GetAdvance
  <2>3. UNCHANGED wr_idx
    BY <1>6 DEF GetAdvance
  <2>4. Count' = Count - 1
    BY <2>1, <2>2, <2>3, <1>0 DEF Count, Index
  <2>5. Count \in Nat
    BY <1>0 DEF Count, Index
  <2>. QED  BY <1>0, <1>6, <2>1, <2>2, <2>3, <2>4, <2>5 DEF GetAdvance, Slot
<1>7. CASE Flush
  BY <1>0, <1>7 DEF Flush, Count, Index
<1>8. CASE UNCHANGED fifoVars
  BY <1>8 DEF fifoVars, Count, Slot
<1>. QED  BY <1>1, <1>2, <1>3, <1>4, <1>5, <1>6, <1>7, <1>8 DEF Next, Put, Get

(* A put never overwrites an item still held, a get never reads an array   *)
(* element that is not: the index invariant of fifo.c.                     *)
THEOREM FifoSafe == Spec => []FifoInv
BY InitFifoInv, NextFifoInv, PTL DEF Spec

-----------------------------------------------------------------------------
LEMMA HeldIsSeq ==
  ASSUME FifoInv
  PROVE  /\ Held \in Seq(Item \cup {NoItem})
         /\ Len(Held) = Count
         /\ DOMAIN Held = 1 .. Count
<1>1. Count \in Nat
  BY CountMeaning DEF FifoInv, TypeOK
<1>2. ASSUME NEW k \in 1 .. Count PROVE Held[k] \in Item \cup {NoItem}
  <2>1. Ahead(k - 1) \in Index
    BY <1>1, LengthAssumption DEF Ahead, FifoInv, TypeOK, Index
  <2>. QED  BY <2>1, SlotInArray DEF Held, FifoInv, TypeOK
<1>. QED  BY <1>1, <1>2 DEF Held

(* What the put copies into the array is in no held item's slot. *)
LEMMA PutCopyHeld == FifoInv /\ PutCopy => Held' = Held
<1> SUFFICES ASSUME FifoInv, PutCopy PROVE Held' = Held
  OBVIOUS
<1>1. Count < Length /\ Count' = Count
  BY DEF FifoInv, PutInv, PutCopy, Count
<1>2. ASSUME NEW k \in 1 .. Count
      PROVE  buf'[Slot(Ahead(k - 1))] = buf[Slot(Ahead(k - 1))]
  <2>1. Ahead(k - 1) \in Index /\ Slot(Ahead(k - 1)) # Slot(wr_idx)
    BY <1>1, FreeSlot DEF FifoInv, TypeOK
  <2>2. Slot(Ahead(k - 1)) \in 0 .. Length - 1
    BY <2>1, SlotInArray
  <2>. QED  BY <2>1, <2>2 DEF PutCopy, FifoInv, TypeOK
<1>3. \A k \in 1 .. Count : (buf[Slot(Ahead(k - 1))])' = buf'[Slot(Ahead(k - 1))]
  BY DEF PutCopy, Ahead, Slot
<1>. QED  BY <1>1, <1>2, <1>3 DEF Held

(* Storing wr_idx appends the copied item. *)
LEMMA PutAdvanceHeld == FifoInv /\ PutAdvance => Queue!Enqueue
<1> SUFFICES ASSUME FifoInv, PutAdvance PROVE Queue!Enqueue
  OBVIOUS
<1>0. Length \in Nat \ {0}
  BY LengthAssumption
<1>1. Count < Length /\ put_arg \in Item /\ buf[Slot(wr_idx)] = put_arg
  BY DEF FifoInv, PutInv, PutAdvance
<1>2. Count \in Nat
  BY CountMeaning DEF FifoInv, TypeOK
<1>3. /\ wr_idx' \in Index
      /\ wr_idx' = IF wr_idx + 1 = 2 * Length THEN 0 ELSE wr_idx + 1
      /\ UNCHANGED <<rd_idx, buf, out>>
  BY AdvanceIdxStep DEF PutAdvance, FifoInv, TypeOK
<1>4. Count' = Count + 1
  BY <1>0, <1>1, <1>3 DEF Count, Index, FifoInv, TypeOK
<1>5. buf[Slot(Ahead(Count))] = put_arg
  BY <1>1, LastHeld DEF FifoInv, TypeOK
<1>6. Held' = [k \in 1 .. Count + 1 |-> buf[Slot(Ahead(k - 1))]]
  BY <1>3, <1>4 DEF Held, Ahead, Slot
<1>7. /\ Held \in Seq(Item \cup {NoItem})
      /\ Len(Held) = Count
      /\ DOMAIN Held = 1 .. Count
  BY HeldIsSeq
<1>8. Held' = Append(Held, put_arg)
  <2> DEFINE S == Item \cup {NoItem}
  <2>1. \A k \in 1 .. Count : Held[k] = buf[Slot(Ahead(k - 1))]
    BY DEF Held
  <2>2. \A k \in 1 .. Count : Held'[k] = Held[k]
    BY <1>2, <1>6, <2>1
  <2>3. Held'[Count + 1] = put_arg
    BY <1>2, <1>5, <1>6
  <2>4. /\ Append(Held, put_arg) \in Seq(S)
        /\ Len(Append(Held, put_arg)) = Count + 1
        /\ \A k \in 1 .. Count : Append(Held, put_arg)[k] = Held[k]
        /\ Append(Held, put_arg)[Count + 1] = put_arg
    BY <1>1, <1>7, AppendProperties
  <2>5. \A k \in 1 .. Count + 1 : Held'[k] \in S
    BY <1>1, <1>2, <1>7, <2>2, <2>3
  <2>6. Held' \in Seq(S) /\ Len(Held') = Count + 1
    BY <1>2, <1>6, <2>5
  <2>7. \A k \in 1 .. Count + 1 : Held'[k] = Append(Held, put_arg)[k]
    BY <1>2, <2>2, <2>3, <2>4
  <2>. QED  BY <2>4, <2>6, <2>7, SeqEqual
<1>. QED  BY <1>1, <1>3, <1>7, <1>8 DEF Queue!Enqueue

(* Storing rd_idx removes the oldest item, and the get returns that one. *)
LEMMA GetAdvanceHeld == FifoInv /\ GetAdvance => Queue!Dequeue
<1> SUFFICES ASSUME FifoInv, GetAdvance PROVE Queue!Dequeue
  OBVIOUS
<1>0. Length \in Nat \ {0}
  BY LengthAssumption
<1>1. Count > 0 /\ get_arg = buf[Slot(rd_idx)]
  BY DEF FifoInv, GetInv, GetAdvance
<1>2. Count \in Nat
  BY CountMeaning DEF FifoInv, TypeOK
<1>3. /\ rd_idx' \in Index
      /\ rd_idx' = IF rd_idx + 1 = 2 * Length THEN 0 ELSE rd_idx + 1
      /\ UNCHANGED <<wr_idx, buf>>
      /\ out' = get_arg
  BY AdvanceIdxStep DEF GetAdvance, FifoInv, TypeOK
<1>4. Count' = Count - 1
  BY <1>0, <1>1, <1>3 DEF Count, Index, FifoInv, TypeOK
<1>5. /\ Held \in Seq(Item \cup {NoItem})
      /\ Len(Held) = Count
      /\ DOMAIN Held = 1 .. Count
  BY HeldIsSeq
<1>6. Held[1] = get_arg
  <2>1. Ahead(0) = rd_idx
    BY <1>0 DEF Ahead, FifoInv, TypeOK, Index
  <2>. QED  BY <1>1, <1>2, <2>1 DEF Held
<1>7. Held' = Tail(Held)
  <2>1. ASSUME NEW k \in 1 .. Count - 1
        PROVE  (Ahead(k - 1))' = Ahead(k)
    BY <1>0, <1>2, <1>3 DEF Ahead, FifoInv, TypeOK, Index, Count
  <2>2. Held' = [k \in 1 .. Count - 1 |-> buf[Slot(Ahead(k))]]
    BY <1>3, <1>4, <2>1 DEF Held, Slot
  <2> DEFINE S == Item \cup {NoItem}
  <2>3. Held # <<>>
    BY <1>1, <1>5
  <2>4. /\ Tail(Held) \in Seq(S)
        /\ Len(Tail(Held)) = Count - 1
        /\ \A k \in 1 .. Count - 1 : Tail(Held)[k] = Held[k + 1]
    BY <1>5, <2>3, HeadTailProperties
  <2>5. ASSUME NEW k \in 1 .. Count - 1
        PROVE  Held[k + 1] = buf[Slot(Ahead(k))] /\ Held[k + 1] \in S
    BY <1>2, <1>5 DEF Held
  <2>6. \A k \in 1 .. Count - 1 : Held'[k] = Tail(Held)[k] /\ Held'[k] \in S
    BY <2>2, <2>4, <2>5
  <2>7. Held' \in Seq(S) /\ Len(Held') = Count - 1
    BY <1>1, <1>2, <2>2, <2>6
  <2>. QED  BY <2>4, <2>6, <2>7, SeqEqual
<1>8. Held # <<>> /\ Head(Held) = get_arg
  BY <1>1, <1>2, <1>5, <1>6
<1>. QED  BY <1>3, <1>7, <1>8 DEF Queue!Dequeue

LEMMA InitHeld == Init => Queue!QueueInit
BY LengthAssumption DEF Init, Queue!QueueInit, Held, Count

LEMMA NextHeld ==
  FifoInv /\ [Next]_fifoVars => [Queue!QueueNext]_Queue!queueVars
<1> SUFFICES ASSUME FifoInv, [Next]_fifoVars
             PROVE  [Queue!QueueNext]_Queue!queueVars
  OBVIOUS
<1> USE DEF Queue!queueVars, Queue!QueueNext
<1>1. ASSUME NEW d \in Item, PutTest(d) PROVE UNCHANGED Queue!queueVars
  BY <1>1 DEF PutTest, Held, Count, Ahead, Slot
<1>2. CASE PutCopy
  BY <1>2, PutCopyHeld DEF PutCopy
<1>3. CASE PutAdvance
  BY <1>3, PutAdvanceHeld
<1>4. CASE GetTest
  BY <1>4 DEF GetTest, Held, Count, Ahead, Slot
<1>5. CASE GetCopy
  BY <1>5 DEF GetCopy, Held, Count, Ahead, Slot
<1>6. CASE GetAdvance
  BY <1>6, GetAdvanceHeld
<1>7. CASE Flush
  <2>1. Count' = 0
    BY <1>7, LengthAssumption DEF Flush, Count, FifoInv, TypeOK, Index
  <2>2. Held' = <<>>
    BY <2>1 DEF Held
  <2>. QED  BY <1>7, <2>2 DEF Flush, Queue!Clear
<1>8. CASE UNCHANGED fifoVars
  BY <1>8 DEF fifoVars, Held, Count, Ahead, Slot
<1>. QED  BY <1>1, <1>2, <1>3, <1>4, <1>5, <1>6, <1>7, <1>8 DEF Next, Put, Get

(* fifo.c implements a bounded queue for one putting and one getting       *)
(* context, whatever the interleaving of their accesses.                   *)
THEOREM FifoImplementsQueue == Spec => ImplementsQueue
<1>1. Init => Queue!QueueInit
  BY InitHeld
<1>2. FifoInv /\ [Next]_fifoVars => [Queue!QueueNext]_Queue!queueVars
  BY NextHeld
<1>. QED  BY <1>1, <1>2, FifoSafe, PTL DEF Spec, ImplementsQueue, Queue!QueueSpec
=============================================================================

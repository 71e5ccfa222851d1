-------------------------------- MODULE Fifo --------------------------------
(***************************************************************************)
(* src/module/static_buffer/fifo.c: an array of length items and two       *)
(* indices that run over 0 .. 2*length-1, so that "full" and "empty" are   *)
(* told apart without a counter.  No lock is taken: one context puts, one  *)
(* gets, and either may be interrupted between any two of its accesses to  *)
(* the shared structure.  The put and get of this module are therefore     *)
(* each three steps: the test, the copy of the item, the store of the      *)
(* index.  general_fifo_* and dword_fifo_* differ only in how the item is  *)
(* copied, and are the same operation here.                                *)
(***************************************************************************)
EXTENDS Integers, Sequences

CONSTANTS Length,   \* fifo_env.length
          IdxSize,  \* values of the uint16_t indices: 2^16 in the code
          Item,     \* what callers put
          NoItem    \* content of an array element never written

(* An index reaches 2*length-1 and must fit its type.  The code does not   *)
(* check this: sw_fifo_init takes any length.                              *)
ASSUME LengthAssumption == /\ Length \in Nat \ {0}
                           /\ IdxSize \in Nat
                           /\ 2 * Length <= IdxSize

VARIABLES wr_idx, rd_idx,  \* fifo_env.wr_idx, fifo_env.rd_idx
          buf,             \* fifo_env.buf
          put_pc, put_arg, \* the put under way: its next step, its item
          get_pc, get_arg, \* the get under way: its next step, its copy
          out              \* what the last completed get returned

fifoVars == <<wr_idx, rd_idx, buf, put_pc, put_arg, get_pc, get_arg, out>>

Index == 0 .. 2 * Length - 1

Distance(a, b) == IF a >= b THEN a - b ELSE b - a

Slot(i) == IF i >= Length THEN i - Length ELSE i

(* mutant: the indices run over one length only *)
AdvanceByLength(i) == IF i + 1 = Length THEN 0 ELSE i + 1

AdvanceIdx(i) == IF i + 1 = 2 * Length THEN 0 ELSE (i + 1) % IdxSize

(* mutant: the full test dropped *)
NeverFull == FALSE

Full == Distance(wr_idx, rd_idx) = Length

Empty == wr_idx = rd_idx

Init == /\ wr_idx = 0 /\ rd_idx = 0
        /\ buf = [i \in 0 .. Length - 1 |-> NoItem]
        /\ put_pc = "idle" /\ put_arg = NoItem
        /\ get_pc = "idle" /\ get_arg = NoItem
        /\ out = NoItem

-----------------------------------------------------------------------------
(* A full put returns false and leaves no trace. *)
PutTest(d) == /\ put_pc = "idle"
              /\ ~Full
              /\ put_pc' = "copy" /\ put_arg' = d
              /\ UNCHANGED <<wr_idx, rd_idx, buf, get_pc, get_arg, out>>

PutCopy == /\ put_pc = "copy"
           /\ buf' = [buf EXCEPT ![Slot(wr_idx)] = put_arg]
           /\ put_pc' = "advance"
           /\ UNCHANGED <<wr_idx, rd_idx, put_arg, get_pc, get_arg, out>>

PutAdvance == /\ put_pc = "advance"
              /\ wr_idx' = AdvanceIdx(wr_idx)
              /\ put_pc' = "idle" /\ put_arg' = NoItem
              /\ UNCHANGED <<rd_idx, buf, get_pc, get_arg, out>>

(* An empty get returns false and leaves no trace. *)
GetTest == /\ get_pc = "idle"
           /\ ~Empty
           /\ get_pc' = "copy"
           /\ UNCHANGED <<wr_idx, rd_idx, buf, put_pc, put_arg, get_arg, out>>

GetCopy == /\ get_pc = "copy"
           /\ get_arg' = buf[Slot(rd_idx)]
           /\ get_pc' = "advance"
           /\ UNCHANGED <<wr_idx, rd_idx, buf, put_pc, put_arg, out>>

GetAdvance == /\ get_pc = "advance"
              /\ rd_idx' = AdvanceIdx(rd_idx)
              /\ out' = get_arg
              /\ get_pc' = "idle" /\ get_arg' = NoItem
              /\ UNCHANGED <<wr_idx, buf, put_pc, put_arg>>

(* sw_fifo_flush writes the producer's index from the consumer's: it is    *)
(* only safe, and only modelled, while no put and no get is under way.     *)
Flush == /\ put_pc = "idle" /\ get_pc = "idle"
         /\ wr_idx' = rd_idx
         /\ UNCHANGED <<rd_idx, buf, put_pc, put_arg, get_pc, get_arg, out>>

Put == (\E d \in Item : PutTest(d)) \/ PutCopy \/ PutAdvance

Get == GetTest \/ GetCopy \/ GetAdvance

Next == Put \/ Get \/ Flush

Spec == Init /\ [][Next]_fifoVars
-----------------------------------------------------------------------------
(* The items held: the put's index has been stored, the get's has not.     *)
Count == IF wr_idx >= rd_idx THEN wr_idx - rd_idx
                             ELSE wr_idx - rd_idx + 2 * Length

(* rd_idx + i, folded back into the index range. *)
Ahead(i) == IF rd_idx + i >= 2 * Length THEN rd_idx + i - 2 * Length
                                        ELSE rd_idx + i

Held == [k \in 1 .. Count |-> buf[Slot(Ahead(k - 1))]]

TypeOK == /\ wr_idx \in Index /\ rd_idx \in Index
          /\ buf \in [0 .. Length - 1 -> Item \cup {NoItem}]
          /\ put_pc \in {"idle", "copy", "advance"}
          /\ get_pc \in {"idle", "copy", "advance"}
          /\ put_arg \in Item \cup {NoItem}
          /\ get_arg \in Item \cup {NoItem}
          /\ out \in Item \cup {NoItem}

(* The test a put or a get made stays true until it stores its index,      *)
(* whatever the other context does in between, and what it copied is what  *)
(* the slot still holds.                                                   *)
PutInv == /\ put_pc # "idle" => put_arg \in Item /\ Count < Length
          /\ put_pc = "advance" => buf[Slot(wr_idx)] = put_arg

GetInv == /\ get_pc # "idle" => Count > 0
          /\ get_pc = "advance" => get_arg = buf[Slot(rd_idx)]

FifoInv == TypeOK /\ Count <= Length /\ PutInv /\ GetInv

(* The array and its two indices implement a bounded queue: an item enters *)
(* when its put stores wr_idx, leaves when its get stores rd_idx, and the  *)
(* two contexts need no lock between them.                                 *)
Queue == INSTANCE BoundedQueue WITH queue <- Held

ImplementsQueue == Queue!QueueSpec
=============================================================================

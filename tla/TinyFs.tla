------------------------------- MODULE TinyFs -------------------------------
(***************************************************************************)
(* src/module/tinyfs: a file system for a few sectors of NOR flash.  The   *)
(* flash is a ring of sections, each with a head that numbers it; every    *)
(* change appends a node (add or remove, of a record or a directory) at    *)
(* the tail; the oldest section is made free by copying the nodes still    *)
(* alive in it to the tail.  A one-page write cache in RAM is what a power *)
(* loss takes away; tinyfs_init rebuilds the rest from the flash.          *)
(*                                                                         *)
(* Sizes are in units: the head of a section and one piece of data are one *)
(* unit each, the metadata of a node is one unit and MetaRest more, a CRC  *)
(* is Crc units.  A step writes one unit, so a power loss can fall between *)
(* any two of them; a flash page or sector operation is one step, except   *)
(* that the page being programmed when the power fails may be left with    *)
(* only a prefix of it.                                                    *)
(***************************************************************************)
EXTENDS Integers, SequencesExt

CONSTANTS NSection,   \* TINYFS_SECTION_NUM
          Size,       \* TINYFS_SECTION_SIZE, in units
          Page,       \* TINYFS_WRITE_CACHE_SIZE, in units
          MetaRest,   \* units of a node's metadata behind the first
          Crc,        \* units of a CRC
          CountSize,  \* values of the 16-bit loop_count
          NodeMax,    \* TINYFS_NODE_MAX
          Name, Val,  \* names of records and directories; a record's value
                      \* is told apart by its length in units
          DirIdLimit, \* the largest directory id, 0xffff in the code
          LiveLimit,  \* units of live nodes the caller stays within
          FillLimit,  \* bound: sections begun in a behaviour
          LagLimit,   \* bound: updates between two write-throughs
          LossLimit   \* bound: power losses in a behaviour

ASSUME SizesAssumption ==
  /\ NSection \in Nat /\ NSection >= 3  \* the #error of tinyfs_config.h:9
  /\ Page \in Nat /\ Page >= 2
  /\ Size \in Nat /\ Size > Page /\ Size % Page = 0
  /\ MetaRest \in Nat /\ Crc \in Nat \ {0}
  /\ CountSize \in Nat \ {0} /\ CountSize % 2 = 0 /\ 2 * NSection <= CountSize
  /\ Val \subseteq Nat \ {0}
  \* RECORD_DATA_MAX_LENGTH: tinyfs_init passes over a longer record
  /\ \A v \in Val \cup {0} : 2 + MetaRest + v + Crc <= Size
  /\ NodeMax \in Nat /\ DirIdLimit \in Nat

Section == 0 .. NSection - 1
NoSection == -1
RootId == 0

(* A node: a record, known by its directory and name, or a directory,      *)
(* known by its id.                                                        *)
Record(parent, name, val) ==
  [kind |-> "record", id |-> 0, parent |-> parent, name |-> name, val |-> val]
Dir(id, parent, name) ==
  [kind |-> "dir", id |-> id, parent |-> parent, name |-> name, val |-> 0]

Node == { Record(p, n, v) : p \in 0 .. DirIdLimit, n \in Name, v \in Val }
        \cup { Dir(i, p, n) : i \in 1 .. DirIdLimit, p \in 0 .. DirIdLimit,
                              n \in Name }

SameNode(a, b) == /\ a.kind = b.kind
                  /\ IF a.kind = "dir" THEN a.id = b.id
                     ELSE a.parent = b.parent /\ a.name = b.name

(* What is on the flash, and in the cache. *)
Erased == [u |-> "erased"]
SectionHead(c, o) == [u |-> "head", count |-> c, node_offset |-> o]
Meta(op, n) == [u |-> "meta", op |-> op, n |-> n]
More(op, n, i) == [u |-> "more", op |-> op, n |-> n, i |-> i]
Data(n, i) == [u |-> "data", val |-> n.val, i |-> i]
CrcOf(op, n, i) == [u |-> "crc", op |-> op, n |-> n, i |-> i]
CopyOf(sec, o) == [u |-> "copy", sec |-> sec, off |-> o]

DataLen(op, n) == IF op = "add" /\ n.kind = "record" THEN n.val ELSE 0

(* Between the first unit of a node and its CRC: the rest of the metadata, *)
(* then the data.                                                          *)
BodyLen(op, n) == MetaRest + DataLen(op, n)

Body(op, n, i) == IF i <= MetaRest THEN More(op, n, i) ELSE Data(n, i - MetaRest)

NodeLength(op, n) == 1 + BodyLen(op, n) + Crc

UnitsOf(op, n) == << Meta(op, n) >>
                  \o [i \in 1 .. BodyLen(op, n) |-> Body(op, n, i)]
                  \o [i \in 1 .. Crc |-> CrcOf(op, n, i)]

VARIABLES flash,        \* what a power loss leaves
          cache,        \* tinyfs_wr_cache_env: the units of the page at off
          off,          \* tinyfs_env.tail_available_offset
          head, tail,   \* tinyfs_env.head_section, tail_section
          gc,           \* tinyfs_env.gc_section
          count,        \* tinyfs_env.tail_count
          dirIdMax,     \* tinyfs_env.dir_id_max
          lists,        \* tinyfs_list: the live nodes of each section, with
                        \* their offset in it
          pc, call,     \* where the call under way is; the update it makes
          todo,         \* nodes tinyfs_del_dir has still to remove after it
          cur, out,     \* the node being written; its units still to write
          fills, losses,  \* history: sections begun, power losses, so far
          versions      \* history: the contents a power loss may restore

ram == <<cache, off, head, tail, gc, count, dirIdMax, lists, pc, call,
         todo, cur, out>>
vars == <<flash, ram, fills, losses, versions>>

Current == versions[Len(versions)]

-----------------------------------------------------------------------------
get_next_section(s) == IF s + 1 = NSection THEN 0 ELSE s + 1

get_prev_section(s) == IF s = 0 THEN NSection - 1 ELSE s - 1

PageStart(o) == o - (o % Page)

NextPage(o) == PageStart(o) + Page

(* tinyfs_nvm_read_with_cache: what is cached hides the flash under it. *)
ReadUnit(s, o) ==
  IF s = tail /\ o >= off - Len(cache) /\ o < off
  THEN cache[o - (off - Len(cache)) + 1]
  ELSE flash[s][o]

(* mutant: the head of the next section is not skipped *)
BehindNoHead(s, o, n) == IF o + n >= Size THEN << get_next_section(s), o + n - Size >>
                                          ELSE << s, o + n >>

(* section_offset_calc: the place n units behind <<s, o>>, past the head   *)
(* of the next section when the section ends before it.                    *)
Behind(s, o, n) == IF o + n >= Size THEN << get_next_section(s), o + n - Size + 1 >>
                                    ELSE << s, o + n >>

ProgramPage(f, s, o, units) ==
  [f EXCEPT ![s] = [i \in 0 .. Size - 1 |->
     IF i >= o /\ i < o + Len(units) THEN units[i - o + 1] ELSE f[s][i]]]

EraseSection(f, s) == [f EXCEPT ![s] = [i \in 0 .. Size - 1 |-> Erased]]

NodesIn(l) == UNION { { l[s][i].n : i \in DOMAIN l[s] } : s \in Section }

Live == NodesIn(lists)

ListDel(l, n) ==
  LET at(s) == { i \in DOMAIN l[s] : SameNode(l[s][i].n, n) }
  IN  [s \in Section |-> IF at(s) = {} THEN l[s]
                         ELSE RemoveAt(l[s], CHOOSE i \in at(s) : TRUE)]

ListPush(l, s, n, o) == [l EXCEPT ![s] = Append(@, [n |-> n, off |-> o])]

SizeOfList(l) == FoldSeq(LAMBDA e, t : NodeLength("add", e.n) + t, 0, l)

SizeOfNodes(S) == FoldSet(LAMBDA n, t : NodeLength("add", n) + t, 0, S)

-----------------------------------------------------------------------------
(* tinyfs_init: everything in RAM is computed from the flash alone.        *)

ValidSections(f) == { s \in Section : f[s][0].u = "head" }

NextValid(f, s) ==
  LET far == { d \in 1 .. NSection : (s + d) % NSection \in ValidSections(f) }
  IN  (s + Min(far)) % NSection

(* mutant: the sections are not followed from the first valid one on *)
HeadAndTailOfFirst(f) ==
  LET number(s) == f[s][0].count
      prev == Min(ValidSections(f))
      curr == NextValid(f, prev)
      diff == (number(prev) - number(curr)) % CountSize
  IN  IF diff > 0 /\ diff < CountSize \div 2
      THEN [head |-> curr, tail |-> prev]
      ELSE [head |-> prev, tail |-> curr]

(* find_head_tail_section: follow the sections while each one's number is  *)
(* one more than the one before it, the last one found is the tail.  The   *)
(* numbers are uint16_t, but "loop_count + 1" is an int: 0xffff + 1 never  *)
(* equals 0.                                                               *)
HeadAndTail(f) ==
  LET number(s) == f[s][0].count
      walk[p \in ValidSections(f)] ==
                             IF number(p) + 1 = number(NextValid(f, p))
                             THEN walk[NextValid(f, p)]
                             ELSE p
      prev == walk[Min(ValidSections(f))]
      curr == NextValid(f, prev)
      diff == (number(prev) - number(curr)) % CountSize
  IN  IF diff > 0 /\ diff < CountSize \div 2
      THEN [head |-> curr, tail |-> prev]
      ELSE [head |-> prev, tail |-> curr]

(* node_metadata_read, node_crc_check: the CRC of the metadata, at the end  *)
(* of the node, matches; either may lie across the end of the section.     *)
ValidNode(f, tl, s, o) ==
  /\ f[s][o].u = "meta"
  /\ LET m  == f[s][o]
         at == Behind(s, o, 1 + BodyLen(m.op, m.n))
     IN  /\ \A i \in 1 .. MetaRest :
              LET c == Behind(s, o, i) IN f[c[1]][c[2]] = More(m.op, m.n, i)
         /\ IF s = tl THEN at[1] = tl ELSE at[2] <= Size - Crc
         /\ \A i \in 1 .. Crc :
              LET c == Behind(at[1], at[2], i - 1)
              IN  f[c[1]][c[2]] = CrcOf(m.op, m.n, i)

PageEmpty(f, s, o) == \A i \in o .. o + Page - 1 : f[s][i] = Erased

(* mutant: a page that does not begin with a node is taken for empty *)
ScanToBadPage(f, tl, s) ==
  LET scan[o \in Nat] ==
        IF o < 1 \/ o >= Size THEN [log |-> <<>>, end |-> o]
        ELSE IF ValidNode(f, tl, s, o)
        THEN LET m    == f[s][o]
                 rest == scan[o + NodeLength(m.op, m.n)]
             IN  [rest EXCEPT !.log = << [op |-> m.op, n |-> m.n,
                                          sec |-> s, off |-> o] >> \o @]
        ELSE IF o % Page = 0
        THEN [log |-> <<>>, end |-> o]
        ELSE scan[NextPage(o)]
  IN  scan[f[s][0].node_offset]

(* The inner loop of nodes_info_load: the nodes of a section in the order  *)
(* they were written, and the offset the scan stops at.                    *)
ScanSection(f, tl, s) ==
  LET scan[o \in Nat] ==
        IF o < 1 \/ o >= Size THEN [log |-> <<>>, end |-> o]
        ELSE IF ValidNode(f, tl, s, o)
        THEN LET m    == f[s][o]
                 rest == scan[o + NodeLength(m.op, m.n)]
             IN  [rest EXCEPT !.log = << [op |-> m.op, n |-> m.n,
                                          sec |-> s, off |-> o] >> \o @]
        ELSE IF o % Page = 0 /\ PageEmpty(f, s, o)
        THEN [log |-> <<>>, end |-> o]
        ELSE scan[NextPage(o)]
  IN  scan[f[s][0].node_offset]

(* record_add_parse, dir_add_parse, record_remove_parse, dir_remove_parse *)
ParseNode(l, e) == IF e.op = "add" THEN ListPush(ListDel(l, e.n), e.sec, e.n, e.off)
                                   ELSE ListDel(l, e.n)

EmptyLists == [s \in Section |-> <<>>]

(* mutant: the sections are replayed in the order of their index *)
LogByIndex(f, tl) ==
  LET order == [d \in 1 .. NSection |-> d - 1]
      valid == SelectSeq(order, LAMBDA s : s \in ValidSections(f))
  IN  FoldLeft(LAMBDA log, s : log \o ScanSection(f, tl, s).log, <<>>, valid)

(* nodes_info_load: the valid sections from the one behind the tail up to  *)
(* the tail.                                                               *)
LogOf(f, tl) ==
  LET log[d \in 0 .. NSection] ==
        IF d = 0 THEN <<>>
        ELSE IF (tl + d) % NSection \in ValidSections(f)
        THEN log[d - 1] \o ScanSection(f, tl, (tl + d) % NSection).log
        ELSE log[d - 1]
  IN  log[NSection]

LoadedLists(log) ==
  LET after[i \in 0 .. Len(log)] == IF i = 0 THEN EmptyLists
                                    ELSE ParseNode(after[i - 1], log[i])
  IN  after[Len(log)]

LoadedDirIdMax(log) == Max({0} \cup { log[i].n.id : i \in { j \in DOMAIN log : log[j].op = "add" } })

(* gc_section_find; NoSection when no section holds a live node, where the *)
(* code's loop does not end.                                               *)
FirstLiveSection(l, s) ==
  LET far == { d \in 0 .. NSection - 1 : l[(s + d) % NSection] # <<>> }
  IN  IF far = {} THEN NoSection ELSE (s + Min(far)) % NSection

(* The RAM tinyfs_init leaves for a flash f. *)
Recovered(f) ==
  IF ValidSections(f) = {}
  THEN [pc |-> "idle", off |-> Size, head |-> 0, tail |-> get_prev_section(0),
        gc |-> NoSection, count |-> 0, dirIdMax |-> 0,
        lists |-> EmptyLists]
  ELSE LET ht == HeadAndTail(f)
           log == LogOf(f, ht.tail)
           l  == LoadedLists(log)
           g  == FirstLiveSection(l, ht.head)
           end == ScanSection(f, ht.tail, ht.tail).end
       IN  [pc |-> IF end > Size THEN "failed"  \* TINYFS_ASSERT
                   ELSE IF g = NoSection THEN "hung" ELSE "idle",
            off |-> end,
            head |-> ht.head, tail |-> ht.tail, gc |-> g,
            count |-> f[ht.tail][0].count,
            dirIdMax |-> LoadedDirIdMax(log),
            lists |-> l]

-----------------------------------------------------------------------------
NoNode == Dir(RootId, RootId, RootId)
NoCall == [op |-> "none", n |-> NoNode]
NoWrite == [op |-> "none", n |-> NoNode, sec |-> NoSection, off |-> 0]

Init == /\ flash = [s \in Section |-> [i \in 0 .. Size - 1 |-> Erased]]
        /\ cache = <<>>
        /\ LET r == Recovered(flash)
           IN  /\ pc = r.pc /\ off = r.off /\ head = r.head /\ tail = r.tail
               /\ gc = r.gc /\ count = r.count /\ dirIdMax = r.dirIdMax
               /\ lists = r.lists
        /\ call = NoCall /\ todo = {} /\ cur = NoWrite /\ out = <<>>
        /\ fills = 0 /\ losses = 0
        /\ versions = << {} >>

(* mutant: no collection any more once the tail is next to gc_section *)
CollectionDueOnlyBefore(l, size) ==
  /\ gc # NoSection
  /\ get_next_section(tail) = get_prev_section(gc)
  /\ off + size + SizeOfList(l[gc]) > Size

(* garbage_collect_try's condition. *)
CollectionDue(l, size) ==
  /\ gc # NoSection
  /\ LET next == get_next_section(tail)
     IN  \/ next = gc
         \/ /\ next = get_prev_section(gc)
            /\ off + size + SizeOfList(l[gc]) > Size

(* The first node_write of a node. *)
StartNode(where, op, n, units) ==
  /\ pc' = where
  /\ cur' = [op |-> op, n |-> n, sec |-> NoSection, off |-> 0]
  /\ out' = units
  /\ gc' = IF gc = NoSection THEN head ELSE gc

(* A call that adds or removes a node: it takes the node it replaces out   *)
(* of its list, and makes room or starts to write.                         *)
BeginUpdate(op, n) ==
  LET l == IF op = "add" THEN ListDel(lists, n) ELSE lists
  IN  /\ call' = [op |-> op, n |-> n]
      /\ lists' = l
      /\ IF CollectionDue(l, NodeLength(op, n))
         THEN pc' = "collect" /\ UNCHANGED <<cur, out, gc>>
         ELSE StartNode("write", op, n, UnitsOf(op, n))
      /\ LET old == { m \in Current : SameNode(m, n) }
             new == IF op = "add" THEN {n} ELSE {}
         IN  versions' = Append(versions, (Current \ old) \cup new)
      /\ UNCHANGED <<flash, cache, off, head, tail, count>>

CallAllowed == pc = "idle" /\ fills < FillLimit /\ Len(versions) <= LagLimit

DirExists(d) == d = RootId \/ \E n \in Live : n.kind = "dir" /\ n.id = d

(* A new node takes a buffer; the caller keeps within LiveLimit. *)
RoomFor(n) ==
  LET others == { m \in Live : ~SameNode(m, n) }
  IN  /\ others = Live => Cardinality(Live) < NodeMax
      /\ SizeOfNodes(others \cup {n}) <= LiveLimit

(* tinyfs_write *)
WriteRecord(d, name, val) ==
  /\ CallAllowed
  /\ DirExists(d)
  /\ RoomFor(Record(d, name, val))
  /\ BeginUpdate("add", Record(d, name, val))
  /\ UNCHANGED <<dirIdMax, todo>>

(* tinyfs_mkdir *)
MakeDir(d, name) ==
  /\ CallAllowed
  /\ DirExists(d)
  /\ ~\E n \in Live : n.kind = "dir" /\ n.parent = d /\ n.name = name
  /\ dirIdMax < DirIdLimit
  /\ RoomFor(Dir(dirIdMax + 1, d, name))
  /\ dirIdMax' = dirIdMax + 1
  /\ BeginUpdate("add", Dir(dirIdMax + 1, d, name))
  /\ UNCHANGED todo

(* tinyfs_del_record *)
DelRecord(n) ==
  /\ CallAllowed
  /\ n.kind = "record"
  /\ BeginUpdate("rm", n)
  /\ UNCHANGED <<dirIdMax, todo>>

Children(n) == { m \in Live : n.kind = "dir" /\ m.parent = n.id }

Below(n) == LET below[k \in 0 .. NodeMax] ==
                  IF k = 0 THEN {n}
                  ELSE below[k - 1] \cup UNION { Children(m) : m \in below[k - 1] }
            IN  below[NodeMax]

(* tinyfs_del_dir with force: everything below it first, a directory after *)
(* its content (siblings in any order here), then itself.  An empty        *)
(* directory needs no force.                                               *)
DelDir(n) ==
  /\ CallAllowed
  /\ n.kind = "dir"
  /\ pc' = "next"
  /\ todo' = Below(n)
  /\ UNCHANGED <<flash, cache, off, head, tail, gc, count, dirIdMax, lists,
                 call, cur, out, versions>>

(* mutant: a directory may go before what it holds *)
DelNextUnordered ==
  /\ pc = "next"
  /\ \E n \in todo : todo' = todo \ {n} /\ BeginUpdate("rm", n)
  /\ UNCHANGED dirIdMax

DelNext ==
  /\ pc = "next"
  /\ \E n \in todo : /\ Children(n) = {}
                    /\ todo' = todo \ {n}
                    /\ BeginUpdate("rm", n)
  /\ UNCHANGED dirIdMax

-----------------------------------------------------------------------------
(* mutant: a copied node stays in the list it was copied from *)
CopyNodeKept ==
  /\ pc = "collect"
  /\ lists[gc] # <<>>
  /\ LET n == Head(lists[gc]).n
     IN  /\ StartNode("copy", "add", n, UnitsOf("add", n))
         /\ lists' = lists
  /\ UNCHANGED <<flash, cache, off, head, tail, count, dirIdMax, call, todo,
                 versions>>

(* node_list_copy: the first node of the section's list leaves it and is   *)
(* written again at the tail; a record's data and CRCs are read from the   *)
(* flash as it is copied.                                                  *)
CopyNode ==
  /\ pc = "collect"
  /\ lists[gc] # <<>>
  /\ LET e == Head(lists[gc])
         copied == NodeLength("add", e.n) - 1
         unit(i) == LET b == Behind(gc, e.off, i)
                    IN  IF i <= MetaRest THEN More("add", e.n, i)
                        ELSE CopyOf(b[1], b[2])
     IN  /\ lists' = [lists EXCEPT ![gc] = Tail(@)]
         /\ StartNode("copy", "add", e.n,
                      IF e.n.kind = "dir" THEN UnitsOf("add", e.n)
                      ELSE << Meta("add", e.n) >> \o [i \in 1 .. copied |-> unit(i)])
  /\ UNCHANGED <<flash, cache, off, head, tail, count, dirIdMax, call, todo,
                 versions>>

(* mutant: tail_available_offset is not moved past the padding *)
FlushInPlace == /\ flash' = ProgramPage(flash, tail, PageStart(off), cache)
                /\ cache' = <<>>
                /\ off' = off

(* data_write_through: the cached units, the rest of the page left erased. *)
FlushPage == /\ flash' = ProgramPage(flash, tail, PageStart(off), cache)
             /\ cache' = <<>>
             /\ off' = NextPage(off)

(* The end of garbage_collect_try, and what its caller does next: the node *)
(* of an update, nothing more in tinyfs_write_through.                     *)
CollectionDone ==
  /\ pc = "collect"
  /\ lists[gc] = <<>>
  /\ IF off % Page # 0 THEN FlushPage ELSE UNCHANGED <<flash, cache, off>>
  /\ gc' = get_next_section(gc)
  /\ IF call.op = "sync"
     THEN /\ pc' = "idle"
          /\ call' = NoCall
          /\ versions' = << Current >>
          /\ UNCHANGED <<cur, out>>
     ELSE /\ pc' = "write"
          /\ cur' = [op |-> call.op, n |-> call.n, sec |-> NoSection, off |-> 0]
          /\ out' = UnitsOf(call.op, call.n)
          /\ UNCHANGED <<call, versions>>
  /\ UNCHANGED <<head, tail, count, dirIdMax, lists, todo>>

Writing == pc \in {"write", "copy"}

(* A record's data is copied by pieces, here of one unit, each read from   *)
(* the flash before node_write is called on it.                            *)
Fetched(unit) == IF unit.u = "copy" THEN ReadUnit(unit.sec, unit.off) ELSE unit

(* node_write at the end of a section: the next one of the ring is erased  *)
(* and gets its head, which says where in it the first node starts.        *)
NextSection ==
  /\ Writing
  /\ off = Size
  /\ LET next == get_next_section(tail)
         after == IF cur.sec = NoSection THEN 1
                  ELSE IF Len(out) + 1 >= Size THEN 0 ELSE Len(out) + 1
     IN  /\ IF head = next /\ lists[head] # <<>>
            THEN /\ pc' = "failed"   \* TINYFS_ASSERT
                 /\ UNCHANGED <<flash, cache, off, head, tail, count>>
            ELSE /\ tail' = next
                 /\ head' = IF head = next THEN get_next_section(head) ELSE head
                 /\ flash' = EraseSection(flash, next)
                 /\ count' = (count + 1) % CountSize
                 /\ cache' = << SectionHead((count + 1) % CountSize, after) >>
                 /\ off' = 1
                 /\ UNCHANGED pc
         /\ out' = << Fetched(Head(out)) >> \o Tail(out)
  /\ fills' = fills + 1
  /\ UNCHANGED <<gc, dirIdMax, lists, call, todo, cur, versions>>

(* tinyfs_nvm_program moves what is left of a node into the cache up to    *)
(* the end of the page, and programs a page that is full.                  *)
Portion == Min({ Len(out), Page - Len(cache) })

Filled == cache \o [i \in 1 .. Portion |-> Fetched(out[i])]

(* Where the call goes on when the last unit of a node is written. *)
NodeWritten(place) ==
  /\ cur' = NoWrite
  /\ IF pc = "copy"
     THEN /\ lists' = ListPush(lists, place.sec, cur.n, place.off)
          /\ pc' = "collect"
          /\ UNCHANGED call
     ELSE /\ lists' = IF cur.op = "add" THEN ListPush(lists, place.sec, cur.n, place.off)
                      ELSE ListDel(lists, cur.n)
          /\ pc' = IF todo = {} THEN "idle" ELSE "next"
          /\ call' = NoCall

Program ==
  /\ Writing
  /\ off < Size
  /\ LET rest  == SubSeq(out, Portion + 1, Len(out))
         full  == Len(Filled) = Page
         place == IF cur.sec = NoSection THEN [cur EXCEPT !.sec = tail, !.off = off]
                                         ELSE cur
     IN  /\ flash' = IF full THEN ProgramPage(flash, tail, PageStart(off), Filled)
                              ELSE flash
         /\ cache' = IF full THEN <<>> ELSE Filled
         /\ off' = off + Portion
         /\ out' = rest
         /\ IF rest = <<>> THEN NodeWritten(place)
            ELSE cur' = place /\ UNCHANGED <<lists, pc, call>>
  /\ UNCHANGED <<head, tail, gc, count, dirIdMax, todo, versions>>

(* tinyfs_write_through *)
WriteThrough ==
  /\ pc = "idle"
  /\ IF off % Page = 0
     THEN versions' = << Current >> /\ UNCHANGED <<flash, cache, off, pc, call>>
     ELSE IF CollectionDue(lists, Page - (off % Page))
     THEN /\ pc' = "collect"
          /\ call' = [NoCall EXCEPT !.op = "sync"]
          /\ UNCHANGED <<flash, cache, off, versions>>
     ELSE FlushPage /\ versions' = << Current >> /\ UNCHANGED <<pc, call>>
  /\ UNCHANGED <<head, tail, gc, count, dirIdMax, lists, todo, cur, out>>

(* Power loss, then tinyfs_init on what the flash holds. *)
RestartOn(f) ==
  LET r == Recovered(f)
  IN  /\ losses < LossLimit /\ losses' = losses + 1 /\ UNCHANGED fills
      /\ flash' = f
      /\ pc' = r.pc /\ off' = r.off /\ head' = r.head /\ tail' = r.tail
      /\ gc' = r.gc /\ count' = r.count /\ dirIdMax' = r.dirIdMax
      /\ lists' = r.lists
      /\ cache' = <<>> /\ call' = NoCall /\ todo' = {} /\ cur' = NoWrite
      /\ out' = <<>>
      /\ versions' = << NodesIn(r.lists) >>

PowerLoss == losses < LossLimit /\ RestartOn(flash)

(* The power fails while a page is being programmed: only its first units  *)
(* are on the flash.                                                       *)
PowerLossInPage ==
  \E units \in (IF Writing /\ off < Size /\ Len(Filled) = Page THEN {Filled} ELSE {})
             \cup (IF pc = "idle" \/ (pc = "collect" /\ lists[gc] = <<>>)
                   THEN {cache} ELSE {}) :
    \E k \in 1 .. Len(units) - 1 :
      RestartOn(ProgramPage(flash, tail, PageStart(off), SubSeq(units, 1, k)))

Call == \/ \E d \in 0 .. DirIdLimit, name \in Name, val \in Val : WriteRecord(d, name, val)
        \/ \E d \in 0 .. DirIdLimit, name \in Name : MakeDir(d, name)
        \/ \E n \in Live : DelRecord(n) \/ DelDir(n)
        \/ WriteThrough

Step == \/ (DelNext \/ CopyNode \/ CollectionDone \/ Program) /\ UNCHANGED fills
        \/ NextSection

Next == \/ Call /\ UNCHANGED <<fills, losses>>
        \/ Step /\ UNCHANGED losses
        \/ PowerLoss
        \/ PowerLossInPage

Spec == Init /\ [][Next]_vars

(* Once called the code runs on: nothing in it waits. *)
FairSpec == Spec /\ WF_vars(Step /\ UNCHANGED losses)

-----------------------------------------------------------------------------
Store == INSTANCE VersionedStore

(* A node of a list reads back from where the list says it is. *)
Readable(s, e) ==
  LET units == UnitsOf("add", e.n)
  IN  \A i \in 1 .. Len(units) :
        LET b == Behind(s, e.off, i - 1) IN ReadUnit(b[1], b[2]) = units[i]

TypeOK ==
  /\ pc # "failed" => off \in 0 .. Size /\ Len(cache) = off % Page
  /\ head \in Section /\ tail \in Section /\ gc \in Section \cup {NoSection}
  /\ count \in 0 .. CountSize - 1 /\ dirIdMax \in 0 .. DirIdLimit
  /\ Live \subseteq Node /\ todo \subseteq Node
  /\ pc \in {"idle", "next", "collect", "copy", "write", "failed", "hung"}

(* What is still to be copied of a node is where the copy reads it.        *)
CopyFaithful ==
  pc = "copy" =>
    LET units == UnitsOf("add", cur.n)
    IN  \A i \in DOMAIN out : Fetched(out[i]) = units[Len(units) - Len(out) + i]

(* Every live node can be read where the RAM says it is, at every moment,  *)
(* the one being copied included: collection never erases or overwrites a  *)
(* section under a live node, and between calls the live nodes are the     *)
(* ones the caller stored.                                                 *)
LiveReadable ==
  /\ \A s \in Section : \A i \in DOMAIN lists[s] : Readable(s, lists[s][i])
  /\ CopyFaithful
  /\ pc = "idle" => Live = Current

(* NOR flash: what is programmed next was erased since it was last written. *)
TailErased ==
  \A i \in off - Len(cache) .. Size - 1 : flash[tail][i] = Erased

(* No TINYFS_ASSERT fails: in node_write the ring never closes on live     *)
(* data, and the scan of nodes_info_load stays within its section.         *)
RoomIsMade == pc # "failed"

(* tinyfs_init returns when the chip starts again after a write-through:   *)
(* gc_section_find finds a section with live data to begin with.           *)
InitReturns == [][PowerLoss /\ versions = << Current >> => pc' # "hung"]_vars

(* Whatever the power loss fell on, a node found on the flash has the      *)
(* directory it was stored in: node_copy and dir_tree_link follow it.      *)
NoOrphan == pc = "idle" => \A n \in Live : DirExists(n.parent)

(* A power loss at any moment leaves a flash on which tinyfs_init finds    *)
(* where to go on: its tail is the section begun last, among those whose   *)
(* head was programmed.  (Until the number has gone round: see             *)
(* HeadAndTail.)                                                           *)
TailFound ==
  fills < CountSize /\ ValidSections(flash) # {} =>
    HeadAndTail(flash).tail =
      IF flash[tail][0].u = "head" THEN tail ELSE get_prev_section(tail)

(* Every call returns: making room by copying ends, also on what a power   *)
(* loss left, if tinyfs_init returned.                                     *)
EveryCallReturns == pc \notin {"idle", "hung"} ~> pc \in {"idle", "hung"}

(* A power loss, at any moment, brings back one of the contents since the  *)
(* last write-through.                                                     *)
ImplementsStore == Store!StoreSpec
=============================================================================

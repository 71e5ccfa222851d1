-------------------------------- MODULE Cdll --------------------------------
(***************************************************************************)
(* src/module/common/circular_doubly_linked_list.c: the list is a pointer  *)
(* to its first header, the headers point at each other in a ring, and a   *)
(* header that is in no list has two null pointers.  An operator is a      *)
(* function of the whole memory a list can touch: first, next and prev.    *)
(***************************************************************************)
EXTENDS Integers, FiniteSetsExt

CONSTANTS Elem,  \* the headers there are
          NULL

(* cdll_init; the headers of static variables start out as null pointers. *)
cdll_init == [first |-> NULL, next |-> [e \in Elem |-> NULL],
              prev |-> [e \in Elem |-> NULL]]

cdll_is_elem_linked(l, e) == l.next[e] # NULL /\ l.prev[e] # NULL

Members(l) == { e \in Elem : cdll_is_elem_linked(l, e) }

(* A header alone in its list, and one put behind another. *)
Alone(l, e) == [first |-> e, next |-> [l.next EXCEPT ![e] = e],
                prev |-> [l.prev EXCEPT ![e] = e]]

(* mutant: the header behind keeps its prev *)
AfterKeepsPrev(l, ref, e) ==
  LET behind == l.next[ref]
  IN  [l EXCEPT !.next = [@ EXCEPT ![ref] = e, ![e] = behind],
                !.prev = [@ EXCEPT ![e] = ref]]

After(l, ref, e) ==
  LET behind == l.next[ref]
  IN  [l EXCEPT !.next = [@ EXCEPT ![ref] = e, ![e] = behind],
                !.prev = [@ EXCEPT ![behind] = e, ![e] = ref]]

(* The headers the loop of cdll_insert passes, from the last backwards.    *)
Backwards(l) ==
  LET back[k \in 0 .. Cardinality(Elem)] ==
        IF k = 0 THEN l.prev[l.first] ELSE l.prev[back[k - 1]]
  IN  back

(* Behind the last header of mayFollow, those h for which cmp(e, h) holds;  *)
(* before them all when there is none.                                     *)
cdll_insert(l, e, mayFollow) ==
  IF l.first = NULL THEN Alone(l, e)
  ELSE LET back  == Backwards(l)
           last  == back[0]
           stops == { k \in 0 .. Cardinality(Elem) - 1 :
                        /\ back[k] \in mayFollow
                        /\ \A j \in 1 .. k : back[j] # last }
       IN  IF stops = {} THEN [After(l, last, e) EXCEPT !.first = e]
           ELSE After(l, back[Min(stops)], e)

(* A ring's header taken out; the first one, or any. *)
Without(l, e) ==
  LET before == l.prev[e]
      behind == l.next[e]
  IN  [first |-> IF l.first = e THEN behind ELSE l.first,
       next |-> [l.next EXCEPT ![before] = behind, ![e] = NULL],
       prev |-> [l.prev EXCEPT ![behind] = before, ![e] = NULL]]

Emptied(l, e) == [first |-> NULL, next |-> [l.next EXCEPT ![e] = NULL],
                  prev |-> [l.prev EXCEPT ![e] = NULL]]

cdll_pop_front(l) == IF l.next[l.first] = l.first THEN Emptied(l, l.first)
                                                  ELSE Without(l, l.first)

(* Only for a linked header: a null prev or next is followed.              *)
cdll_extract(l, e) == IF l.prev[e] = e THEN Emptied(l, e) ELSE Without(l, e)

(* The list in order, from the first. *)
Order(l) ==
  LET at[k \in 0 .. Cardinality(Elem)] ==
        IF k = 0 THEN l.first ELSE l.next[at[k - 1]]
  IN  IF l.first = NULL THEN <<>>
      ELSE [k \in 1 .. Cardinality(Members(l)) |-> at[k - 1]]

-----------------------------------------------------------------------------
(* next and prev are inverse on the members, and one ring holds them all.  *)
RingOf(l) ==
  /\ \A e \in Elem : (l.next[e] = NULL) = (l.prev[e] = NULL)
  /\ \A e \in Members(l) : /\ l.next[e] \in Members(l) /\ l.prev[e] \in Members(l)
                           /\ l.prev[l.next[e]] = e /\ l.next[l.prev[e]] = e
  /\ IF l.first = NULL THEN Members(l) = {}
     ELSE /\ l.first \in Members(l)
          /\ Cardinality({ Order(l)[k] : k \in DOMAIN Order(l) }) = Cardinality(Members(l))
=============================================================================

-------------------------------- MODULE List --------------------------------
(***************************************************************************)
(* The doubly linked list of hle/list as its benchmark threads use it      *)
(* (TimeCmp): a thread inserts random values, which it remembers in a      *)
(* queue, removes the oldest value it remembers, or looks a value up.      *)
(*                                                                         *)
(* What ThreadsafeList and ListRtm put between lock and unlock, or between *)
(* _xbegin and _xend, is one step here: Bank shows that such a section is  *)
(* atomic.  Allocation before it and deletion after it are steps of their  *)
(* own.  The heap is external: new returns any cell that is not allocated, *)
(* delete leaves the content of the cell as it is.                         *)
(***************************************************************************)
EXTENDS Naturals, Sequences, SequencesExt, FiniteSetsExt

CONSTANTS
    Workers,        \* the threads of the benchmark
    Cells,          \* heap cells
    NULL,
    Values,         \* VALUE_RANGE
    MaxOps          \* bound: operations per thread

ASSUME ListAssumption ==
    /\ IsFiniteSet(Workers) /\ IsFiniteSet(Cells) /\ NULL \notin Cells
    /\ MaxOps \in Nat /\ Values # {}

VARIABLES
    first, last,    \* of the list
    heap,           \* the ListItem in each cell
    allocated,      \* cells handed out by new and not deleted
    pc,
    item,           \* local: the item created or removed
    val,            \* local: the value
    queue,          \* local: values inserted and not yet removed
    ops

vars == <<first, last, heap, allocated, pc, item, val, queue, ops>>

Pointer == Cells \cup {NULL}
ListItem == [data : Values, prev : Pointer, next : Pointer]
NoValue == CHOOSE v \in Values : TRUE

Typed ==
    /\ first \in Pointer /\ last \in Pointer
    /\ heap \in [Cells -> ListItem]
    /\ allocated \in SUBSET Cells
    /\ pc \in [Workers -> {"idle", "insertTail", "find", "delete"}]
    /\ item \in [Workers -> Pointer]
    /\ val \in [Workers -> Values]
    /\ queue \in [Workers -> Seq(Values)]
    /\ ops \in [Workers -> 0 .. MaxOps]

\* first and last are pointers to list items, not to deleted ones.
TypeOK == Typed /\ {first, last} \subseteq allocated \cup {NULL}

Init ==
    /\ first = NULL /\ last = NULL
    /\ heap = [c \in Cells |-> [data |-> NoValue, prev |-> NULL,
                                next |-> NULL]]
    /\ allocated = {}
    /\ pc = [t \in Workers |-> "idle"]
    /\ item = [t \in Workers |-> NULL]
    /\ val = [t \in Workers |-> NoValue]
    /\ queue = [t \in Workers |-> <<>>]
    /\ ops = [t \in Workers |-> 0]

\* The pointers met from c on by following next, or prev, until NULL; cut off
\* where a cyclic list would repeat.
NCells == Cardinality(Cells)
Follow(c, field) ==
    LET step[k \in 0 .. NCells] ==
            IF k = 0 THEN c
            ELSE IF step[k - 1] = NULL THEN NULL
            ELSE heap[step[k - 1]][field]
    IN  [k \in 1 .. Cardinality({j \in 0 .. NCells : step[j] # NULL}) |-> step[k - 1]]

Items == Follow(first, "next")

\* The first item that holds v, or NULL.
get(v) ==
    LET hits == {i \in DOMAIN Items : heap[Items[i]].data = v}
    IN  IF hits = {} THEN NULL ELSE Items[Min(hits)]

-----------------------------------------------------------------------------
\* The head of the loop of TimeCmp::run.
Choose(t) ==
    /\ pc[t] = "idle" /\ ops[t] < MaxOps
    /\ ops' = [ops EXCEPT ![t] = @ + 1]

\* List::insert up to insertTail.
createListItem(t) ==
    /\ Choose(t)
    /\ \E v \in Values, c \in Cells \ allocated :
         /\ heap' = [heap EXCEPT ![c] = [data |-> v, prev |-> NULL,
                                         next |-> NULL]]
         /\ allocated' = allocated \cup {c}
         /\ item' = [item EXCEPT ![t] = c]
         /\ val' = [val EXCEPT ![t] = v]
    /\ pc' = [pc EXCEPT ![t] = "insertTail"]
    /\ UNCHANGED <<first, last, queue>>

\* Faulty variant of insertTail: first and the link to the item are forgotten.
KeepFirst(t) ==
    LET c == item[t] IN
    /\ pc[t] = "insertTail"
    /\ heap' = [heap EXCEPT ![c].prev = last]
    /\ last' = c
    /\ UNCHANGED first
    /\ queue' = [queue EXCEPT ![t] = Append(@, val[t])]
    /\ pc' = [pc EXCEPT ![t] = "idle"]
    /\ item' = [item EXCEPT ![t] = NULL]
    /\ val' = [val EXCEPT ![t] = NoValue]
    /\ UNCHANGED <<allocated, ops>>

\* The section of insertTail, then queue.push.
insertTail(t) ==
    LET c == item[t] IN
    /\ pc[t] = "insertTail"
    /\ heap' = [d \in Cells |->
                  IF d = c THEN [heap[c] EXCEPT !.prev = last]
                  ELSE IF d = last THEN [heap[d] EXCEPT !.next = c]
                  ELSE heap[d]]
    /\ last' = c
    /\ first' = IF first = NULL THEN c ELSE first
    /\ queue' = [queue EXCEPT ![t] = Append(@, val[t])]
    /\ pc' = [pc EXCEPT ![t] = "idle"]
    /\ item' = [item EXCEPT ![t] = NULL]
    /\ val' = [val EXCEPT ![t] = NoValue]
    /\ UNCHANGED <<allocated, ops>>

-----------------------------------------------------------------------------
\* The oldest value this thread remembers is popped and will be removed.
pop(t) ==
    /\ Choose(t)
    /\ queue[t] # <<>>
    /\ val' = [val EXCEPT ![t] = Head(queue[t])]
    /\ queue' = [queue EXCEPT ![t] = Tail(@)]
    /\ pc' = [pc EXCEPT ![t] = "find"]
    /\ UNCHANGED <<first, last, heap, allocated, item>>

\* Faulty variant of removeFromList: last is forgotten.
UnlinkKeepingLast(c) ==
    LET p == heap[c].prev
        n == heap[c].next
    IN  /\ first' = IF c = first THEN n ELSE first
        /\ heap' = [d \in Cells |->
                      IF d = n THEN [heap[d] EXCEPT !.prev = p]
                      ELSE IF d = p THEN [heap[d] EXCEPT !.next = n]
                      ELSE heap[d]]
        /\ UNCHANGED last

\* Faulty variant of removeFromList: first is forgotten.
UnlinkKeepingFirst(c) ==
    LET p == heap[c].prev
        n == heap[c].next
    IN  /\ last' = IF c = last THEN p ELSE last
        /\ heap' = [d \in Cells |->
                      IF d = n THEN [heap[d] EXCEPT !.prev = p]
                      ELSE IF d = p THEN [heap[d] EXCEPT !.next = n]
                      ELSE heap[d]]
        /\ UNCHANGED first

removeFromList(c) ==
    LET p == heap[c].prev
        n == heap[c].next
    IN  /\ first' = IF c = first THEN n ELSE first
        /\ last' = IF c = last THEN p ELSE last
        /\ heap' = [d \in Cells |->
                      IF d = n THEN [heap[d] EXCEPT !.prev = p]
                      ELSE IF d = p THEN [heap[d] EXCEPT !.next = n]
                      ELSE heap[d]]

findAndRemoveFromList(t) ==
    LET c == get(val[t]) IN
    /\ pc[t] = "find"
    /\ item' = [item EXCEPT ![t] = c]
    /\ IF c = NULL THEN UNCHANGED <<first, last, heap>>
       ELSE removeFromList(c)
    /\ pc' = [pc EXCEPT ![t] = "delete"]
    /\ val' = [val EXCEPT ![t] = NoValue]
    /\ UNCHANGED <<allocated, queue, ops>>

\* delete of NULL does nothing.
deleteListItem(t) ==
    /\ pc[t] = "delete"
    /\ allocated' = allocated \ {item[t]}
    /\ item' = [item EXCEPT ![t] = NULL]
    /\ pc' = [pc EXCEPT ![t] = "idle"]
    /\ UNCHANGED <<first, last, heap, val, queue, ops>>

\* List::contains changes nothing; it is one of the operations.
contains(t) ==
    /\ Choose(t)
    /\ UNCHANGED <<first, last, heap, allocated, pc, item, val, queue>>

\* Faulty variant of deleteAll: the items are not deleted.
DropItems ==
    /\ \A t \in Workers : pc[t] = "idle"
    /\ first' = NULL /\ last' = NULL
    /\ queue' = [t \in Workers |-> <<>>]
    /\ UNCHANGED <<heap, allocated, pc, item, val, ops>>

\* ~List after the threads were joined; the next list starts with new queues.
deleteAll ==
    /\ \A t \in Workers : pc[t] = "idle"
    /\ first # NULL
    /\ allocated' = allocated \ ToSet(Items)
    /\ first' = NULL /\ last' = NULL
    /\ queue' = [t \in Workers |-> <<>>]
    /\ UNCHANGED <<heap, pc, item, val, ops>>

Next ==
    \/ deleteAll
    \/ \E t \in Workers :
         \/ createListItem(t) \/ insertTail(t)
         \/ pop(t) \/ findAndRemoveFromList(t) \/ deleteListItem(t)
         \/ contains(t)

Spec == Init /\ [][Next]_vars

-----------------------------------------------------------------------------
(***************************************************************************)
(* The list is one chain: following next from first and following prev     *)
(* from last visit the same items in opposite orders, each one once.       *)
(***************************************************************************)
OneChain ==
    /\ IsInjective(Items)
    /\ Items = Reverse(Follow(last, "prev"))

(***************************************************************************)
(* A linked item is never a deleted one, and a cell that is allocated is   *)
(* linked or in the hands of exactly one thread: no use after delete, no   *)
(* double delete, no leak.                                                 *)
(***************************************************************************)
InHands == {t \in Workers : pc[t] \in {"insertTail", "delete"}}

CellsAccounted ==
    /\ allocated = ToSet(Items) \cup {item[t] : t \in InHands}
    /\ \A t \in InHands : item[t] \notin ToSet(Items)
    /\ \A t, u \in InHands : item[t] = item[u] => t = u

(***************************************************************************)
(* The values in the list are those that some thread still remembers or is *)
(* about to remove, as often as they were inserted; so a removal finds its *)
(* value, although threads remove equal values of each other.  The         *)
(* benchmark depends on insert appending a value that is contained         *)
(* already.                                                                *)
(***************************************************************************)
Count(s, v) == Cardinality({i \in DOMAIN s : s[i] = v})

Remembered(v) ==
    [t \in Workers |-> Count(queue[t], v)
                       + IF pc[t] = "find" /\ val[t] = v THEN 1 ELSE 0]

ValuesAccounted ==
    \A v \in Values :
        Cardinality({c \in ToSet(Items) : heap[c].data = v})
            = MapThenSumSet(LAMBDA t : Remembered(v)[t], Workers)

(***************************************************************************)
(* What List.h says of insert: "If the data is already contained, NULL is  *)
(* returned", so that no two items of the list hold the same value.        *)
(***************************************************************************)
NoDuplicates ==
    \A c, d \in ToSet(Items) : heap[c].data = heap[d].data => c = d

=============================================================================

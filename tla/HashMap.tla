------------------------------ MODULE HashMap ------------------------------
(***************************************************************************)
(* The chained hash map of hle/hashmap in its three forms: a lock in every *)
(* bucket, one global lock, and hardware transactions without a lock.  The *)
(* lock functions may elide the lock (LockFunctions): then the section is  *)
(* a transaction too.                                                      *)
(*                                                                         *)
(* An item is one cache line (the padding of LinkedListItem), so that its  *)
(* value and its successor are one word here.  Every access to shared      *)
(* memory is a step.  The heap is external: new returns the lowest free    *)
(* cell, so that deleted cells are reused at once; delete leaves the       *)
(* content of the cell as it is.  The locals of an operation are dead when *)
(* it returns and reset then.                                              *)
(***************************************************************************)
EXTENDS Tsx, FiniteSets

CONSTANTS
    Kinds,          \* subset of {"bucket", "global", "rtm"}
    Size,           \* buckets
    Values,         \* 0 .. n
    NCells,         \* heap cells
    MAX_RETRIES,    \* 1000000
    MaxOps          \* bound: operations of all threads

Cells == 1 .. NCells
NULL == 0
NValues == Cardinality(Values)

\* Words of memory that are not items: map[h]->item, and the lock words.
first(h) == -1 - h
lock_word(h) == -1 - Size - h
HashMapLoc == (-(2 * Size) .. NCells) \ {0}

ASSUME HashMapAssumption ==
    /\ Kinds \subseteq {"bucket", "global", "rtm"}
    /\ Size \in Nat \ {0} /\ NCells \in Nat
    /\ NValues \in Nat \ {0} /\ Values = 0 .. NValues - 1
    /\ MAX_RETRIES \in Nat \ {0} /\ MaxOps \in Nat
    /\ Loc = HashMapLoc

VARIABLES
    kind, allocated,
    exited,         \* exit(1) was called
    pc, op, value,
    prev_item, item, insert_item, failures, result, ops

locals == <<op, value, prev_item, item, insert_item, failures, result, ops>>
vars == <<txVars, kind, allocated, exited, pc, locals>>

TypeOK ==
    /\ TsxTypeOK
    /\ kind \in Kinds
    /\ allocated \in SUBSET Cells
    /\ exited \in BOOLEAN
    /\ pc \in [Threads -> {"idle", "new", "enter", "first", "look", "link",
                           "unlink", "leave", "delete", "return"}]
    /\ op \in [Threads -> {"insert", "remove", "contains"}]
    /\ value \in [Threads -> Values]
    /\ prev_item \in [Threads -> Cells \cup {NULL}]
    /\ item \in [Threads -> Cells \cup {NULL}]
    /\ insert_item \in [Threads -> Cells \cup {NULL}]
    /\ failures \in [Threads -> 0 .. MAX_RETRIES]
    /\ result \in [Threads -> BOOLEAN]
    /\ ops \in 0 .. MaxOps

Init ==
    /\ TsxInit([l \in Loc |-> 0])
    /\ kind \in Kinds
    /\ allocated = {}
    /\ exited = FALSE
    /\ pc = [t \in Threads |-> "idle"]
    /\ op = [t \in Threads |-> "contains"]
    /\ value = [t \in Threads |-> 0]
    /\ prev_item = [t \in Threads |-> NULL]
    /\ item = [t \in Threads |-> NULL]
    /\ insert_item = [t \in Threads |-> NULL]
    /\ failures = [t \in Threads |-> 0]
    /\ result = [t \in Threads |-> FALSE]
    /\ ops = 0

hash(v) == v % Size

\* The content of an item.
LinkedListItem(data, successor) == successor * NValues + data
Data(line) == line % NValues
Successor(line) == line \div NValues

Goto(t, label) == pc' = [pc EXCEPT ![t] = label]

\* t executes its next instruction at the label.
At(t, label) == ~exited /\ pc[t] = label /\ tx[t] # "aborted"

-----------------------------------------------------------------------------
\* A call; insert allocates before its section unless the lock is global.
Call(t) ==
    /\ At(t, "idle") /\ ops < MaxOps
    /\ \E o \in {"insert", "remove", "contains"}, v \in Values :
         /\ op' = [op EXCEPT ![t] = o]
         /\ value' = [value EXCEPT ![t] = v]
         /\ Goto(t, IF o = "insert" /\ kind # "global" THEN "new" ELSE "enter")
    /\ ops' = ops + 1
    /\ UNCHANGED <<txVars, kind, allocated, exited, prev_item, item, insert_item,
                   failures, result>>

\* new LinkedListItem(value)
New(t) ==
    /\ At(t, "new")
    /\ \E c \in Cells \ allocated :
         /\ 1 .. c - 1 \subseteq allocated
         /\ Store(t, c, LinkedListItem(value[t], NULL))
         /\ allocated' = allocated \cup {c}
         /\ insert_item' = [insert_item EXCEPT ![t] = c]
    /\ Goto(t, IF kind = "global" THEN "link" ELSE "enter")
    /\ UNCHANGED <<kind, exited, op, value, prev_item, item, failures, result,
                   ops>>

-----------------------------------------------------------------------------
(* Enter and leave the section *)

\* The lock word that protects the bucket of the value.
locker_of(t) == lock_word(IF kind = "global" THEN 0 ELSE hash(value[t]))

\* Faulty variant of lock: LockType locker = map[h]->locker, as in the lines
\* that are commented out, locks a copy, which is free.
LockCopy(t) ==
    /\ At(t, "enter") /\ kind # "rtm"
    /\ Goto(t, "first")
    /\ UNCHANGED <<txVars, kind, allocated, exited, locals>>

lock(t) ==
    /\ At(t, "enter") /\ kind # "rtm"
    /\ mem[locker_of(t)] = 0
    /\ Store(t, locker_of(t), 1)
    /\ Goto(t, "first")
    /\ UNCHANGED <<kind, allocated, exited, locals>>

\* The exchange that follows an aborted elision is not elided.  If it finds
\* the lock taken (1 is stored over 1, which no live transaction has read), the
\* loop of the lock function waits and comes back to xacquire.
busy(t) ==
    /\ At(t, "enter") /\ kind # "rtm" /\ failures[t] = 1
    /\ mem[locker_of(t)] = 1
    /\ failures' = [failures EXCEPT ![t] = 0]
    /\ UNCHANGED <<txVars, kind, allocated, exited, pc, op, value, prev_item,
                   item, insert_item, result, ops>>

\* xacquire of a free lock; that of a taken one is aborted by _mm_pause and is
\* as if it had not begun.
elide(t) ==
    /\ At(t, "enter") /\ kind # "rtm" /\ failures[t] = 0
    /\ mem[locker_of(t)] = 0
    /\ Begin(t, {locker_of(t)})
    /\ Goto(t, "first")
    /\ UNCHANGED <<kind, allocated, exited, locals>>

xbegin(t) ==
    /\ At(t, "enter") /\ kind = "rtm"
    /\ Begin(t, {})
    /\ Goto(t, "first")
    /\ UNCHANGED <<kind, allocated, exited, locals>>

\* Faulty variant of retry: the comparison is off by one.
RetryOnceMore(n) == n <= MAX_RETRIES

\* ++failures < MAX_RETRIES
retry(n) == n < MAX_RETRIES

\* Faulty variant of restored: prev_item is not a part of what the abort
\* restores, so that a retry starts where the last attempt ended.
KeptItem(t, i) == i[t]

\* prev_item is set to NULL before _xbegin, not after the label retry: it is
\* the rollback that resets it.
restored(t, i) == NULL

\* The abort restores the registers and whatever the transaction allocated.
\* The map without locks counts failures and gives up with exit(1).
Aborted(t) ==
    /\ ~exited
    /\ Rollback(t)
    /\ Goto(t, "enter")
    /\ failures' = [failures EXCEPT ![t] =
                      IF kind = "rtm" \/ @ = 0 THEN @ + 1 ELSE @]
    /\ exited' = (kind = "rtm" /\ ~retry(failures[t] + 1))
    /\ prev_item' = [prev_item EXCEPT ![t] = restored(t, prev_item)]
    /\ item' = [item EXCEPT ![t] = NULL]
    /\ result' = [result EXCEPT ![t] = FALSE]
    /\ IF kind = "global"
       THEN /\ allocated' = allocated \ {insert_item[t]}
            /\ insert_item' = [insert_item EXCEPT ![t] = NULL]
       ELSE UNCHANGED <<allocated, insert_item>>
    /\ UNCHANGED <<kind, op, value, ops>>

\* The item that the operation has left over: the one it removed, or the new
\* one if the value was there.
Victim(t) ==
    CASE op[t] = "remove" /\ result[t] -> item[t]
      [] op[t] = "insert" /\ ~result[t] -> insert_item[t]
      [] OTHER -> NULL

\* unlock or _xend.  Under the global lock the delete that comes just before
\* is in this step: in a transaction it takes effect with the commit, and a
\* holder is the only thread at the heap that could tell the two apart.
leave(t) ==
    /\ At(t, "leave")
    /\ IF xtest(t) THEN Commit(t) ELSE Store(t, locker_of(t), 0)
    /\ IF kind = "global" \/ Victim(t) = NULL
       THEN Goto(t, "return") /\ allocated' = allocated \ {Victim(t)}
       ELSE Goto(t, "delete") /\ UNCHANGED allocated
    /\ UNCHANGED <<kind, exited, locals>>

Delete(t) ==
    /\ At(t, "delete")
    /\ allocated' = allocated \ {Victim(t)}
    /\ Goto(t, "return")
    /\ UNCHANGED <<txVars, kind, exited, locals>>

Return(t) ==
    /\ At(t, "return")
    /\ Goto(t, "idle")
    /\ op' = [op EXCEPT ![t] = "contains"]
    /\ value' = [value EXCEPT ![t] = 0]
    /\ failures' = [failures EXCEPT ![t] = 0]
    /\ prev_item' = [prev_item EXCEPT ![t] = NULL]
    /\ item' = [item EXCEPT ![t] = NULL]
    /\ insert_item' = [insert_item EXCEPT ![t] = NULL]
    /\ result' = [result EXCEPT ![t] = FALSE]
    /\ UNCHANGED <<txVars, kind, allocated, exited, ops>>

-----------------------------------------------------------------------------
(* The section *)

\* Where the search goes on at an item, or at the end of the list.
Continue(t, i) ==
    IF i # NULL THEN "look"
    ELSE IF op[t] # "insert" THEN "leave"
    ELSE IF kind = "global" THEN "new" ELSE "link"

\* item = map[h]->item
First(t) ==
    LET h == first(hash(value[t])) IN
    /\ At(t, "first")
    /\ Load(t, h)
    /\ item' = [item EXCEPT ![t] = Sees(t, h)]
    /\ Goto(t, Continue(t, Sees(t, h)))
    /\ UNCHANGED <<kind, allocated, exited, op, value, prev_item, insert_item,
                   failures, result, ops>>

\* One round of the loop.
Look(t) ==
    LET line == Sees(t, item[t])
        found == Data(line) = value[t]
    IN /\ At(t, "look")
       /\ Load(t, item[t])
       /\ prev_item' = [prev_item EXCEPT ![t] = IF found THEN @ ELSE item[t]]
       /\ item' = [item EXCEPT ![t] = IF found THEN @ ELSE Successor(line)]
       /\ result' = [result EXCEPT ![t] = found /\ op[t] = "contains"]
       /\ Goto(t, IF ~found THEN Continue(t, Successor(line))
                  ELSE IF op[t] = "remove" THEN "unlink" ELSE "leave")
       /\ UNCHANGED <<kind, allocated, exited, op, value, insert_item, failures,
                      ops>>

\* The pointer to the item after prev_item becomes p.
SetPointer(t, p) ==
    IF prev_item[t] = NULL THEN Store(t, first(hash(value[t])), p)
    ELSE Store(t, prev_item[t],
               LinkedListItem(Data(Sees(t, prev_item[t])), p))

Link(t) ==
    /\ At(t, "link")
    /\ SetPointer(t, insert_item[t])
    /\ result' = [result EXCEPT ![t] = TRUE]
    /\ Goto(t, "leave")
    /\ UNCHANGED <<kind, allocated, exited, op, value, prev_item, item,
                   insert_item, failures, ops>>

\* Faulty variant of Unlink: the list ends where the item was.
UnlinkRest(t) ==
    /\ At(t, "unlink")
    /\ SetPointer(t, NULL)
    /\ result' = [result EXCEPT ![t] = TRUE]
    /\ Goto(t, "leave")
    /\ UNCHANGED <<kind, allocated, exited, op, value, prev_item, item,
                   insert_item, failures, ops>>

Unlink(t) ==
    /\ At(t, "unlink")
    /\ SetPointer(t, Successor(Sees(t, item[t])))
    /\ result' = [result EXCEPT ![t] = TRUE]
    /\ Goto(t, "leave")
    /\ UNCHANGED <<kind, allocated, exited, op, value, prev_item, item,
                   insert_item, failures, ops>>

-----------------------------------------------------------------------------
\* The items that ~LockedBucket finds: those of a bucket in committed memory.
Items(h) ==
    LET step[k \in 0 .. NCells] ==
          IF k = 0 THEN mem[first(h)]
          ELSE IF step[k - 1] = NULL THEN NULL
          ELSE Successor(mem[step[k - 1]])
    IN {step[k] : k \in 0 .. NCells} \ {NULL}

\* Those of all buckets, which ~HashMap deletes.
Linked == UNION {Items(h) : h \in 0 .. Size - 1}

\* ~HashMap after the threads were joined.
Destroy ==
    /\ ~exited
    /\ \A t \in Threads : pc[t] = "idle"
    /\ Linked # {}
    /\ allocated' = allocated \ Linked
    /\ mem' = [l \in Loc |-> IF l < 0 THEN 0 ELSE mem[l]]
    /\ UNCHANGED <<tx, code, rset, wset, wbuf, kind, exited, pc, locals>>

Next ==
    \/ Destroy
    \/ \E t \in Threads :
         \/ Call(t) \/ New(t) \/ lock(t) \/ busy(t) \/ elide(t) \/ xbegin(t)
         \/ First(t) \/ Look(t) \/ Link(t) \/ Unlink(t)
         \/ leave(t) \/ Delete(t) \/ Return(t) \/ Aborted(t)
         \/ HardwareAbort(t) /\ ~exited
              /\ UNCHANGED <<kind, allocated, exited, pc, locals>>

Spec == Init /\ [][Next]_vars

-----------------------------------------------------------------------------
(* Properties *)

\* The cells in the hands of a thread.
InHands(t) ==
    CASE \/ pc[t] \in {"enter", "first", "look", "link", "unlink"}
         \/ pc[t] = "leave" /\ tx[t] # "none" -> {insert_item[t]}
      [] \/ pc[t] = "leave" /\ tx[t] = "none"
         \/ pc[t] = "delete" -> {Victim(t)}
      [] OTHER -> {}

\* A cell is allocated if and only if it is linked in one bucket or in the
\* hands of one thread: no leak, no double delete, no deleted item in a list.
CellsAccounted ==
    LET hands == UNION {InHands(t) \ {NULL} : t \in Threads} IN
    /\ allocated = Linked \cup hands
    /\ Linked \cap hands = {}
    /\ \A t, u \in Threads : t # u => (InHands(t) \cap InHands(u)) \ {NULL} = {}

\* A thread that is not about to roll back follows pointers to allocated items
\* only: an item is deleted when no other thread can still be looking at it.
NoUseAfterDelete ==
    \A t \in Threads :
      tx[t] # "aborted" =>
        /\ pc[t] \in {"look", "unlink"} => item[t] \in allocated
        /\ pc[t] \in {"link", "unlink"} => prev_item[t] \in allocated \cup {NULL}

\* The map is a set on which every operation takes effect at one moment: at
\* the store that links or unlinks under a lock, at the commit otherwise.
Abstract == INSTANCE AtomicSet WITH
    set <- {Data(mem[c]) : c \in Linked},
    call <- [t \in Threads |-> IF pc[t] = "idle" THEN <<>>
                               ELSE <<op[t], value[t]>>],
    answer <- [t \in Threads |->
                 IF \/ pc[t] \in {"delete", "return"}
                    \/ pc[t] = "leave" /\ tx[t] = "none" /\ op[t] # "contains"
                         /\ result[t]
                 THEN <<result[t]>> ELSE <<>>]

AtomicOperations == Abstract!Spec

=============================================================================

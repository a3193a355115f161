---------------------------- MODULE HashMapProofs ----------------------------
(***************************************************************************)
(* In all three maps of HashMap, with cells reused at once: no thread      *)
(* follows a pointer to a deleted item, no cell is lost or deleted twice,  *)
(* and the map implements AtomicSet.                                       *)
(***************************************************************************)
EXTENDS HashMap, SharedLemmas

-----------------------------------------------------------------------------
(* Words and pointers *)

Buckets == 0 .. Size - 1
ListWords == -Size .. NCells \ {0}

\* The pointer in a word of a list that holds x.
Ptr(w, x) == IF w > 0 THEN Successor(x) ELSE x

WordOK(w, x) == x \in Nat /\ Ptr(w, x) \in 0 .. NCells

bucket_of(t) == hash(value[t])

\* The word with the pointer to the item that t looks at.
prev_word(t) ==
    IF prev_item[t] = NULL THEN first(bucket_of(t)) ELSE prev_item[t]

-----------------------------------------------------------------------------
(* The inductive invariants *)

InSection(t) ==
    \/ pc[t] \in {"first", "look", "link", "unlink", "leave"}
    \/ pc[t] = "new" /\ kind = "global"
InLocked(t) == InSection(t) /\ tx[t] = "none"
InTx(t) == InSection(t) /\ xtest(t)

\* A transaction that will change a list when it commits, or a holder that
\* has done so.
Inserting(t) == pc[t] = "leave" /\ result[t] /\ op[t] = "insert"
Removing(t) == pc[t] = "leave" /\ result[t] /\ op[t] = "remove"

\* Where a thread is in its operation.
ControlInv(t) ==
    /\ ~InSection(t) => tx[t] = "none"
    /\ kind = "rtm" /\ InSection(t) => tx[t] # "none"
    /\ kind = "rtm" /\ ~exited => failures[t] < MAX_RETRIES
    /\ pc[t] \notin {"leave", "delete", "return"} => ~result[t]
    /\ pc[t] \in {"idle", "enter", "first"} => prev_item[t] = NULL
    /\ pc[t] = "new" /\ kind # "global" => prev_item[t] = NULL
    /\ pc[t] \in {"idle", "new"} => insert_item[t] = NULL
    /\ pc[t] \in {"enter", "first", "look"} /\ kind = "global"
         => insert_item[t] = NULL
    /\ pc[t] \in {"new", "link"} => op[t] = "insert"
    /\ insert_item[t] # NULL => op[t] = "insert"
    /\ pc[t] = "link" \/ Inserting(t) => insert_item[t] # NULL
    /\ kind # "global" /\ op[t] = "insert" /\ pc[t] \notin {"idle", "new"}
         => insert_item[t] # NULL
    /\ pc[t] \in {"look", "unlink"} => item[t] # NULL
    /\ pc[t] = "unlink" => op[t] = "remove"
    /\ pc[t] \in {"leave", "delete"} /\ result[t] /\ op[t] = "remove" => item[t] # NULL
    /\ pc[t] \in {"idle", "new", "enter", "first", "link"} => item[t] = NULL
    /\ pc[t] = "leave" => (result[t] <=> (item[t] = NULL <=> op[t] = "insert"))

\* Every word of a list, in memory and in a write buffer, holds a pointer.
WordsInv ==
    /\ \A w \in ListWords : WordOK(w, mem[w])
    /\ \A t \in Threads : /\ wset[t] \subseteq ListWords
                          /\ \A w \in wset[t] : WordOK(w, wbuf[t][w])

MemInv ==
    /\ TypeOK
    /\ WordsInv
    /\ \A t \in Threads : ControlInv(t)

\* The lock words: a holder is alone, and a transaction subscribes.
LockInv ==
    kind # "rtm" =>
      \A t \in Threads :
        /\ InLocked(t) => mem[locker_of(t)] = 1
        /\ InTx(t) => locker_of(t) \in rset[t] /\ mem[locker_of(t)] = 0
        /\ \A u \in Threads :
             InLocked(t) /\ InLocked(u) /\ locker_of(t) = locker_of(u) => t = u

\* Transactions do not overlap, and only a transaction has buffered writes.
ExclInv ==
    /\ NoConflict
    /\ LockInv
    /\ \A t \in Threads : tx[t] = "none" => wset[t] = {}

\* The operation has taken effect for everybody.
Done(t) ==
    /\ result[t]
    /\ \/ pc[t] = "delete"
       \/ pc[t] = "leave" /\ tx[t] = "none"

\* The cells that only t knows: the new item until it is linked, the removed
\* one until it is deleted.
Owned(t) ==
    {c \in Cells :
       \/ c = insert_item[t] /\ pc[t] # "return" /\ ~Done(t)
       \/ c = item[t] /\ op[t] = "remove" /\ Done(t)}

\* The new item has the value and ends the list that it will be linked to;
\* under an elided global lock it is still in the write buffer.
FreshInv(t) ==
    insert_item[t] \in Owned(t) /\ ~(kind = "global" /\ tx[t] # "none")
      => /\ Successor(mem[insert_item[t]]) = NULL
         /\ Data(mem[insert_item[t]]) = value[t]

OwnInv ==
    /\ \A t \in Threads : Owned(t) \subseteq allocated /\ FreshInv(t)
    /\ \A t, u \in Threads : t # u => Owned(t) \cap Owned(u) = {}

Words(B, h) == {first(h)} \cup B[h]

\* Each cell is reached, and has a value of its own that belongs there.
Full(B) ==
    \A h \in Buckets :
      /\ \A c \in B[h] : \E w \in Words(B, h) : Ptr(w, mem[w]) = c
      /\ \A c \in B[h] : hash(Data(mem[c])) = h
      /\ \A c, d \in B[h] : Data(mem[c]) = Data(mem[d]) => c = d

\* No cell is lost.
Accounted(B) ==
    \A c \in allocated : \/ \E h \in Buckets : c \in B[h]
                         \/ \E t \in Threads : c \in Owned(t)

\* B holds the cells of each list: they are closed under the pointers, no two
\* of which lead to the same cell, and ranked.
Lists(B, R) ==
    /\ \A h \in Buckets :
         /\ B[h] \subseteq allocated
         /\ \A w \in Words(B, h) : Ptr(w, mem[w]) \in B[h] \cup {NULL}
         /\ \A v, w \in Words(B, h) :
              Ptr(v, mem[v]) = Ptr(w, mem[w]) /\ Ptr(v, mem[v]) # NULL => v = w
         /\ \A c \in B[h] : Ptr(c, mem[c]) # NULL => R[c] < R[Ptr(c, mem[c])]
         /\ \A k \in Buckets : h # k => B[h] \cap B[k] = {}
    /\ \A t \in Threads, h \in Buckets : Owned(t) \cap B[h] = {}
    /\ Full(B)
    /\ Accounted(B)

Fresh(t) == IF kind = "global" THEN {insert_item[t]} ELSE {}

\* What a live transaction knows of memory, and what it will write.
TxWalk(t, B) ==
    LET h == bucket_of(t)  p == prev_word(t) IN
    /\ \A c \in rset[t] \cap Cells :
         c \in B[h] /\ \E w \in rset[t] \cap Words(B, h) : Ptr(w, mem[w]) = c
    /\ pc[t] \in {"look", "unlink", "link", "new"} \/ Inserting(t) \/ Removing(t)
         => p \in rset[t]
    /\ pc[t] \in {"look", "unlink"} \/ Removing(t) => Ptr(p, mem[p]) = item[t]
    /\ pc[t] = "unlink" \/ Removing(t) => item[t] \in rset[t]
    /\ pc[t] # "link" /\ ~Inserting(t) /\ ~Removing(t) => wset[t] = {}
    /\ pc[t] = "link" => wset[t] = Fresh(t)
    /\ Inserting(t) =>
         wset[t] = {p} \cup Fresh(t) /\ Ptr(p, wbuf[t][p]) = insert_item[t]
    /\ Removing(t) =>
         wset[t] = {p} /\ Ptr(p, wbuf[t][p]) = Ptr(item[t], mem[item[t]])
    /\ kind = "global" /\ (pc[t] = "link" \/ Inserting(t)) =>
         /\ Ptr(insert_item[t], wbuf[t][insert_item[t]]) = NULL
         /\ Data(wbuf[t][insert_item[t]]) = value[t]
    /\ (Inserting(t) \/ Removing(t)) /\ p \in Cells =>
         Data(wbuf[t][p]) = Data(mem[p])

LockedWalk(t, B) ==
    LET h == bucket_of(t)  p == prev_word(t) IN
    /\ pc[t] \in {"look", "unlink", "link", "new"} => p \in Words(B, h)
    /\ pc[t] \in {"look", "unlink"} => Ptr(p, mem[p]) = item[t]

\* The search has begun, and the operation has not yet changed a list.
Searched(t) == pc[t] # "first" /\ ~(Done(t) /\ op[t] # "contains")

Found(t) == pc[t] = "unlink" \/ (pc[t] = "leave" /\ item[t] # NULL)

\* The search has passed the cells V, the first ones of the list, and the
\* value was in none of them.
Passed(t, B, V) ==
    LET h == bucket_of(t) IN
    /\ V \subseteq B[h]
    /\ prev_word(t) \in V \cup {first(h)}
    /\ \A c \in V : Data(mem[c]) # value[t]
    /\ \A w \in V \cup {first(h)} : Ptr(w, mem[w]) \in V \cup {item[t]}
    /\ xtest(t) => V \cup {first(h)} \subseteq rset[t]

Search(t, B) ==
    Searched(t) =>
      /\ Ptr(prev_word(t), mem[prev_word(t)]) = item[t]
      /\ \E V \in SUBSET Cells : Passed(t, B, V)
      /\ Found(t) => /\ item[t] \in B[bucket_of(t)]
                     /\ Data(mem[item[t]]) = value[t]
                     /\ xtest(t) => item[t] \in rset[t]

Walks(B) ==
    \A t \in Threads :
      /\ InTx(t) => TxWalk(t, B)
      /\ InLocked(t) => LockedWalk(t, B)
      /\ InTx(t) \/ InLocked(t) => Search(t, B)

HeapInv == \E B \in [Buckets -> SUBSET Cells], R \in [Cells -> Nat] :
             Lists(B, R) /\ Walks(B)

\* The values in the map.
Contents == {Data(mem[c]) : c \in Linked}

-----------------------------------------------------------------------------
(* Words *)

\* A product with the number of values leaves no remainder.
LEMMA Divides ==
    ASSUME NEW n \in Nat \ {0}, NEW s \in Nat, NEW d \in 0 .. n - 1
    PROVE  (s * n + d) \div n = s /\ (s * n + d) % n = d /\ s * n + d \in Nat
<1>1. (s * n + d) \div n = s
  OBVIOUS
<1>2. (s * n + d) % n = d
  OBVIOUS
<1>3. s * n \in Nat
  OBVIOUS
<1> QED
  BY <1>1, <1>2, <1>3

LEMMA Remainder ==
    ASSUME NEW n \in Nat \ {0}, NEW x \in Nat
    PROVE  x % n \in 0 .. n - 1 /\ x \div n \in Nat
OBVIOUS

\* The content of an item.
LEMMA LineFacts ==
    /\ \A x \in Nat : Data(x) \in Values /\ Successor(x) \in Nat
    /\ \A d \in Values, p \in 0 .. NCells :
         /\ LinkedListItem(d, p) \in Nat
         /\ Successor(LinkedListItem(d, p)) = p
         /\ Data(LinkedListItem(d, p)) = d
    /\ 0 \in Values
<1>n. NValues \in Nat \ {0} /\ Values = 0 .. NValues - 1
  BY HashMapAssumption
<1>1. ASSUME NEW x \in Nat PROVE Data(x) \in Values /\ Successor(x) \in Nat
  BY <1>n, Remainder DEF Data, Successor
<1>2. ASSUME NEW d \in Values, NEW p \in 0 .. NCells
      PROVE  /\ LinkedListItem(d, p) \in Nat
             /\ Successor(LinkedListItem(d, p)) = p
             /\ Data(LinkedListItem(d, p)) = d
  <2>1. p \in Nat /\ d \in 0 .. NValues - 1
    BY <1>n, HashMapAssumption
  <2> QED
    BY <1>n, <2>1, Divides DEF LinkedListItem, Successor, Data
<1>3. 0 \in Values
  BY <1>n
<1> QED
  BY <1>1, <1>2, <1>3

\* Words of lists, of which some are items, and lock words.
LEMMA WordFacts ==
    /\ ListWords \subseteq Loc
    /\ \A c \in Cells : c \in ListWords /\ c > 0
    /\ \A h \in Buckets :
         /\ first(h) \in ListWords /\ ~(first(h) > 0) /\ first(h) \notin Cells
         /\ lock_word(h) \in Loc /\ lock_word(h) \notin ListWords
    /\ \A h, k \in Buckets : /\ first(h) = first(k) => h = k
                             /\ lock_word(h) = lock_word(k) => h = k
    /\ 0 \in Buckets
    /\ 0 .. NCells = Cells \cup {NULL} /\ NULL \notin Cells
BY HashMapAssumption
   DEF ListWords, HashMapLoc, Buckets, Cells, first, lock_word, NULL

\* Where a thread works.
LEMMA PlaceFacts ==
    ASSUME TypeOK, NEW t \in Threads
    PROVE  /\ bucket_of(t) \in Buckets
           /\ prev_word(t) \in ListWords
           /\ locker_of(t) \in Loc /\ locker_of(t) \notin ListWords
<1>1. value[t] \in Nat
  BY HashMapAssumption DEF TypeOK
<1>2. bucket_of(t) \in Buckets
  BY <1>1, HashMapAssumption, Remainder DEF bucket_of, hash, Buckets
<1> QED
  BY <1>2, WordFacts DEF prev_word, locker_of, bucket_of, TypeOK, NULL

\* A thread sees pointers.
LEMMA SeesPointer ==
    ASSUME WordsInv, NEW t \in Threads, NEW w \in ListWords
    PROVE  WordOK(w, Sees(t, w))
BY DEF WordsInv, Sees

\* SetPointer is a store of a pointer to the word that t looked at, and keeps
\* the value if that is an item.
LEMMA PointerStore ==
    ASSUME TypeOK, WordsInv, NEW t \in Threads, NEW p \in 0 .. NCells,
           SetPointer(t, p)
    PROVE  \E v \in Nat : /\ Store(t, prev_word(t), v)
                          /\ Ptr(prev_word(t), v) = p
                          /\ WordOK(prev_word(t), v)
                          /\ prev_word(t) \in Cells =>
                               Data(v) = Data(Sees(t, prev_word(t)))
<1>h. bucket_of(t) \in Buckets /\ p \in Nat
  BY PlaceFacts, HashMapAssumption
<1>1. CASE prev_item[t] = NULL
  <2>1. Store(t, prev_word(t), p)
    BY <1>1 DEF SetPointer, prev_word, bucket_of
  <2>2. Ptr(prev_word(t), p) = p
    BY <1>1, <1>h, WordFacts DEF Ptr, prev_word
  <2>3. prev_word(t) \notin Cells
    BY <1>1, <1>h, WordFacts DEF prev_word
  <2> QED
    BY <1>h, <2>1, <2>2, <2>3 DEF WordOK
<1>2. CASE prev_item[t] # NULL
  <2> DEFINE v == LinkedListItem(Data(Sees(t, prev_item[t])), p)
  <2>1. prev_item[t] \in Cells /\ prev_word(t) = prev_item[t]
    BY <1>2 DEF TypeOK, prev_word
  <2>2. Sees(t, prev_item[t]) \in Nat
    BY <2>1, SeesPointer, WordFacts DEF WordOK
  <2>3. v \in Nat /\ Successor(v) = p /\ Data(v) = Data(Sees(t, prev_item[t]))
    BY <2>2, LineFacts
  <2>4. Store(t, prev_word(t), v)
    BY <1>2, <2>1 DEF SetPointer
  <2> HIDE DEF v
  <2>5. Ptr(prev_word(t), v) = p
    BY <2>1, <2>3, WordFacts DEF Ptr
  <2> QED
    BY <2>1, <2>3, <2>4, <2>5 DEF WordOK
<1> QED
  BY <1>1, <1>2

-----------------------------------------------------------------------------
(* Instructions, on the words of lists *)

LEMMA LoadWords ==
    ASSUME WordsInv, NEW t, NEW l, Load(t, l) PROVE WordsInv'
BY DEF WordsInv, Load

LEMMA StoreWords ==
    ASSUME TsxTypeOK, WordsInv, NEW t \in Threads, NEW l \in Loc, NEW v \in Int,
           Store(t, l, v), l \in ListWords => WordOK(l, v),
           l \notin ListWords => ~xtest(t)
    PROVE  WordsInv'
<1>l. ListWords \subseteq Loc
  BY WordFacts
<1>1. CASE xtest(t)
  <2>1. /\ mem' = mem /\ l \in ListWords
        /\ \A u \in Threads :
             wset'[u] = IF u = t THEN wset[t] \cup {l} ELSE wset[u]
        /\ \A u \in Threads, w \in Loc :
             wbuf'[u][w] = IF u = t /\ w = l THEN v ELSE wbuf[u][w]
    BY <1>1 DEF Store, TsxTypeOK
  <2> QED
    BY <1>l, <2>1 DEF WordsInv
<1>2. CASE ~xtest(t)
  <2>1. /\ wset' = wset /\ wbuf' = wbuf
        /\ \A w \in Loc : mem'[w] = IF w = l THEN v ELSE mem[w]
    BY <1>2 DEF Store, TsxTypeOK
  <2> QED
    BY <1>l, <2>1 DEF WordsInv
<1> QED
  BY <1>1, <1>2

\* What a store in a transaction does.
LEMMA BufferedStore ==
    ASSUME TsxTypeOK, NEW t \in Threads, NEW l \in Loc, NEW v \in Int,
           Store(t, l, v), xtest(t)
    PROVE  /\ mem' = mem /\ rset' = rset /\ tx'[t] = tx[t]
           /\ wset'[t] = wset[t] \cup {l}
           /\ \A w \in Loc : wbuf'[t][w] = IF w = l THEN v ELSE wbuf[t][w]
<1>1. mem' = mem /\ rset' = rset /\ wset'[t] = wset[t] \cup {l}
  BY DEF Store, TsxTypeOK
<1>2. wbuf'[t] = [wbuf[t] EXCEPT ![l] = v]
  BY DEF Store, TsxTypeOK
<1>3. \A w \in Loc : wbuf'[t][w] = IF w = l THEN v ELSE wbuf[t][w]
  BY <1>2 DEF TsxTypeOK
<1>4. tx'[t] = tx[t]
  BY AccessKeepsOthers
<1> QED
  BY <1>1, <1>3, <1>4

LEMMA BeginWords ==
    ASSUME WordsInv, NEW t, NEW reads, Begin(t, reads) PROVE WordsInv'
BY DEF WordsInv, Begin

LEMMA EndWords ==
    ASSUME TsxTypeOK, WordsInv, NEW t \in Threads, Commit(t) \/ Rollback(t)
    PROVE  WordsInv'
<1>1. \A u \in Threads \ {t} : wset'[u] = wset[u] /\ wbuf'[u] = wbuf[u]
  BY DEF Commit, Rollback, Discard, TsxTypeOK
<1>2. wset'[t] = {}
  BY DEF Commit, Rollback, Discard, TsxTypeOK
<1>3. \A w \in ListWords :
        mem'[w] = mem[w] \/ (w \in wset[t] /\ mem'[w] = wbuf[t][w])
  BY WordFacts DEF Commit, Rollback
<1> QED
  BY <1>1, <1>2, <1>3 DEF WordsInv

LEMMA AbortWords ==
    ASSUME WordsInv, UNCHANGED <<mem, wset, wbuf>> PROVE WordsInv'
BY DEF WordsInv

-----------------------------------------------------------------------------
(* Steps *)

\* A step of t leaves the locals of the other threads alone.
OwnStep(t) ==
    /\ OthersKept(t)
    /\ kind' = kind /\ (exited => exited')
    /\ \A u \in Threads \ {t} :
         /\ pc'[u] = pc[u] /\ op'[u] = op[u] /\ value'[u] = value[u]
         /\ prev_item'[u] = prev_item[u] /\ item'[u] = item[u]
         /\ insert_item'[u] = insert_item[u] /\ failures'[u] = failures[u]
         /\ result'[u] = result[u]

LEMMA ControlOfOther ==
    ASSUME NEW t \in Threads, OwnStep(t), NEW u \in Threads, u # t,
           ControlInv(u)
    PROVE  ControlInv(u)'
<1>1. /\ pc'[u] = pc[u] /\ op'[u] = op[u] /\ kind' = kind
      /\ prev_item'[u] = prev_item[u] /\ item'[u] = item[u]
      /\ insert_item'[u] = insert_item[u] /\ failures'[u] = failures[u]
      /\ result'[u] = result[u]
      /\ exited => exited'
      /\ tx'[u] = tx[u] \/ (tx[u] = "active" /\ tx'[u] = "aborted")
  BY DEF OwnStep, OthersKept
<1> QED
  BY <1>1 DEF ControlInv, InSection, Inserting

LEMMA MemStep ==
    ASSUME MemInv, NEW t \in Threads, OwnStep(t), TypeOK', WordsInv',
           ControlInv(t)'
    PROVE  MemInv'
BY ControlOfOther DEF MemInv

-----------------------------------------------------------------------------
(* Types, words and control *)

\* What each step knows.
LEMMA Known ==
    ASSUME MemInv, NEW t \in Threads
    PROVE  /\ TypeOK /\ TsxTypeOK /\ WordsInv /\ ControlInv(t)
           /\ op[t] \in {"insert", "remove", "contains"}
           /\ prev_item[t] \in Cells \cup {NULL} /\ item[t] \in Cells \cup {NULL}
           /\ insert_item[t] \in Cells \cup {NULL}
           /\ result[t] \in BOOLEAN /\ failures[t] \in 0 .. MAX_RETRIES
           /\ tx[t] \in {"none", "active", "aborted"}
           /\ value[t] \in Values
           /\ NULL \notin Cells /\ \A c \in Cells : c \in Loc
BY WordFacts DEF MemInv, TypeOK, TsxTypeOK

LEMMA CallMem ==
    ASSUME MemInv, NEW t \in Threads, Call(t) PROVE MemInv' /\ OwnStep(t)
<1>k. TypeOK /\ TsxTypeOK /\ WordsInv /\ ControlInv(t) /\ pc[t] = "idle"
  BY Known DEF Call, At
<1>1. PICK o \in {"insert", "remove", "contains"}, v \in Values :
        /\ op' = [op EXCEPT ![t] = o] /\ value' = [value EXCEPT ![t] = v]
        /\ Goto(t, IF o = "insert" /\ kind # "global" THEN "new" ELSE "enter")
  BY DEF Call
<1>2. /\ UNCHANGED <<txVars, kind, allocated, exited, prev_item, item,
                     insert_item, failures, result>>
      /\ ops' \in 0 .. MaxOps
  <2>1. ops < MaxOps /\ ops' = ops + 1
    BY DEF Call
  <2>2. ops \in 0 .. MaxOps
    BY <1>k DEF TypeOK
  <2> QED
    BY <2>1, <2>2, HashMapAssumption DEF Call
<1>3. OwnStep(t)
  BY <1>k, <1>1, <1>2 DEF OwnStep, OthersKept, txVars, Goto, TypeOK
<1>4. TypeOK'
  BY <1>k, <1>1, <1>2 DEF TypeOK, TsxTypeOK, txVars, Goto
<1>5. WordsInv'
  BY <1>k, <1>2, AbortWords DEF txVars
<1>6. ControlInv(t)'
  <2>1. /\ op'[t] = o
        /\ pc'[t] = IF o = "insert" /\ kind # "global" THEN "new" ELSE "enter"
    BY <1>k, <1>1 DEF TypeOK, Goto
  <2> QED
    BY <1>k, <1>2, <2>1 DEF ControlInv, InSection, Inserting, txVars
<1> QED
  BY <1>3, <1>4, <1>5, <1>6, MemStep

LEMMA NewMem ==
    ASSUME MemInv, NEW t \in Threads, New(t) PROVE MemInv' /\ OwnStep(t)
<1>k. /\ TypeOK /\ TsxTypeOK /\ WordsInv /\ ControlInv(t) /\ pc[t] = "new"
      /\ tx[t] # "aborted"
  BY Known DEF New, At
<1>1. PICK c \in Cells \ allocated :
        /\ Store(t, c, LinkedListItem(value[t], NULL))
        /\ allocated' = allocated \cup {c}
        /\ insert_item' = [insert_item EXCEPT ![t] = c]
  BY DEF New
<1> DEFINE v == LinkedListItem(value[t], NULL)
<1>v. /\ c \in Loc /\ c \in ListWords /\ c # NULL /\ v \in Int /\ WordOK(c, v)
  <2>1. NULL \in 0 .. NCells /\ value[t] \in Values
    BY <1>k, HashMapAssumption DEF NULL, TypeOK
  <2> QED
    BY <2>1, LineFacts, WordFacts DEF WordOK, Ptr
<1> HIDE DEF v
<1>s. Store(t, c, v)
  BY <1>1 DEF v
<1>2. /\ UNCHANGED <<kind, exited, op, value, prev_item, item, failures,
                     result, ops>>
      /\ Goto(t, IF kind = "global" THEN "link" ELSE "enter")
  BY DEF New
<1>e. OthersKept(t) /\ tx'[t] = tx[t] /\ TsxTypeOK'
  BY <1>k, <1>v, <1>s, AccessKeepsOthers, StoreType
<1>3. OwnStep(t)
  BY <1>k, <1>1, <1>2, <1>e DEF OwnStep, Goto, TypeOK
<1>4. TypeOK'
  BY <1>k, <1>1, <1>2, <1>e DEF TypeOK, Goto
<1>5. WordsInv'
  BY <1>k, <1>v, <1>s, StoreWords
<1>6. ControlInv(t)'
  <2>1. /\ insert_item'[t] = c
        /\ pc'[t] = IF kind = "global" THEN "link" ELSE "enter"
    BY <1>k, <1>1, <1>2 DEF TypeOK, Goto
  <2> QED
    BY <1>k, <1>v, <1>2, <1>e, <2>1 DEF ControlInv, InSection, Inserting
<1> QED
  BY <1>3, <1>4, <1>5, <1>6, MemStep

\* A thread that found its lock taken keeps everything but its failures.
LEMMA BusyMem ==
    ASSUME MemInv, NEW t \in Threads, busy(t) PROVE MemInv' /\ OwnStep(t)
<1>k. /\ TypeOK /\ TsxTypeOK /\ WordsInv /\ ControlInv(t)
      /\ 0 \in 0 .. MAX_RETRIES
  BY Known, HashMapAssumption
<1>1. /\ failures' = [failures EXCEPT ![t] = 0] /\ kind # "rtm"
      /\ UNCHANGED <<mem, tx, code, rset, wset, wbuf, kind, allocated, exited, pc,
                     op, value, prev_item, item, insert_item, result, ops>>
  BY DEF busy, txVars
<1>2. OwnStep(t)
  BY <1>k, <1>1 DEF OwnStep, OthersKept, TypeOK
<1>3. TypeOK'
  BY <1>k, <1>1 DEF TypeOK, TsxTypeOK
<1>4. WordsInv'
  BY <1>k, <1>1, AbortWords DEF txVars
<1>5. ControlInv(t)'
  BY <1>k, <1>1 DEF ControlInv, InSection, Inserting
<1> QED
  BY <1>2, <1>3, <1>4, <1>5, MemStep

\* The three ways into the section.
LEMMA EnterMem ==
    ASSUME MemInv, NEW t \in Threads, lock(t) \/ elide(t) \/ xbegin(t)
    PROVE  MemInv' /\ OwnStep(t)
<1>k. /\ TypeOK /\ TsxTypeOK /\ WordsInv /\ ControlInv(t)
      /\ pc[t] = "enter" /\ tx[t] = "none"
      /\ locker_of(t) \in Loc /\ locker_of(t) \notin ListWords
  <2>1. pc[t] = "enter"
    BY DEF lock, elide, xbegin, At
  <2> QED
    BY <2>1, Known, PlaceFacts DEF ControlInv, InSection
<1>1. Goto(t, "first") /\ UNCHANGED <<kind, allocated, exited, locals>>
  BY DEF lock, elide, xbegin
<1>2. /\ OthersKept(t) /\ TsxTypeOK' /\ WordsInv'
      /\ kind = "rtm" => tx'[t] # "none"
  <2>1. CASE lock(t)
    BY <1>k, <2>1, AccessKeepsOthers, StoreType, StoreWords DEF lock, xtest
  <2>2. CASE elide(t)
    <3>1. {locker_of(t)} \in SUBSET Loc
      BY <1>k
    <3> QED
      BY <1>k, <2>2, <3>1, BeginEffect, BeginType, BeginWords DEF elide
  <2>3. CASE xbegin(t)
    <3>1. {} \in SUBSET Loc
      OBVIOUS
    <3> QED
      BY <1>k, <2>3, <3>1, BeginEffect, BeginType, BeginWords DEF xbegin
  <2> QED
    BY <2>1, <2>2, <2>3
<1>3. OwnStep(t)
  BY <1>k, <1>1, <1>2 DEF OwnStep, Goto, TypeOK, locals
<1>4. TypeOK'
  BY <1>k, <1>1, <1>2 DEF TypeOK, Goto, locals
<1>6. ControlInv(t)'
  <2>1. pc'[t] = "first"
    BY <1>k, <1>1 DEF TypeOK, Goto
  <2> QED
    BY <1>k, <1>1, <1>2, <2>1 DEF ControlInv, InSection, Inserting, locals
<1> QED
  BY <1>2, <1>3, <1>4, <1>6, MemStep

LEMMA AbortedMem ==
    ASSUME MemInv, NEW t \in Threads, Aborted(t) PROVE MemInv' /\ OwnStep(t)
<1>k. /\ TypeOK /\ TsxTypeOK /\ WordsInv /\ ControlInv(t)
      /\ tx[t] = "aborted" /\ InSection(t) /\ ~exited
      /\ failures[t] \in 0 .. MAX_RETRIES /\ MAX_RETRIES \in Nat \ {0}
  BY Known, HashMapAssumption DEF Aborted, Rollback, ControlInv
<1>1. /\ Rollback(t) /\ Goto(t, "enter") /\ kind' = kind
      /\ prev_item' = [prev_item EXCEPT ![t] = NULL]
      /\ item' = [item EXCEPT ![t] = NULL]
      /\ result' = [result EXCEPT ![t] = FALSE]
      /\ failures' = [failures EXCEPT ![t] =
                        IF kind = "rtm" \/ failures[t] = 0 THEN failures[t] + 1
                        ELSE failures[t]]
      /\ exited' = (kind = "rtm" /\ ~(failures[t] + 1 < MAX_RETRIES))
      /\ allocated' = IF kind = "global" THEN allocated \ {insert_item[t]}
                      ELSE allocated
      /\ insert_item' = IF kind = "global"
                        THEN [insert_item EXCEPT ![t] = NULL] ELSE insert_item
      /\ UNCHANGED <<op, value, ops>>
  BY DEF Aborted, restored, retry
<1>2. OthersKept(t) /\ TsxTypeOK' /\ WordsInv' /\ tx'[t] = "none"
  BY <1>k, <1>1, DiscardEffect, RollbackType, EndWords DEF Rollback
<1>3. OwnStep(t)
  BY <1>k, <1>1, <1>2 DEF OwnStep, Goto, TypeOK
<1>f. failures'[t] \in 0 .. MAX_RETRIES
  BY <1>k, <1>1 DEF ControlInv, TypeOK
<1>4. TypeOK'
  <2>1. failures' \in [Threads -> 0 .. MAX_RETRIES]
    BY <1>k, <1>1, <1>f DEF TypeOK
  <2>2. /\ pc' \in [Threads -> {"idle", "new", "enter", "first", "look", "link",
                                "unlink", "leave", "delete", "return"}]
        /\ insert_item' \in [Threads -> Cells \cup {NULL}]
        /\ prev_item' \in [Threads -> Cells \cup {NULL}]
        /\ item' \in [Threads -> Cells \cup {NULL}]
        /\ allocated' \in SUBSET Cells
        /\ exited' \in BOOLEAN /\ result' \in [Threads -> BOOLEAN]
    BY <1>k, <1>1 DEF TypeOK, Goto
  <2> QED
    BY <1>k, <1>1, <1>2, <2>1, <2>2 DEF TypeOK
<1>6. ControlInv(t)'
  <2>1. /\ pc'[t] = "enter" /\ prev_item'[t] = NULL /\ ~result'[t]
        /\ op'[t] = op[t] /\ item'[t] = NULL
        /\ insert_item'[t] = IF kind = "global" THEN NULL ELSE insert_item[t]
        /\ kind = "rtm" => failures'[t] = failures[t] + 1
    BY <1>k, <1>1 DEF TypeOK, Goto
  <2> QED
    BY <1>k, <1>1, <1>2, <2>1 DEF ControlInv, InSection, Inserting
<1> QED
  BY <1>2, <1>3, <1>4, <1>6, MemStep

LEMMA LeaveMem ==
    ASSUME MemInv, NEW t \in Threads, leave(t) PROVE MemInv' /\ OwnStep(t)
<1>k. /\ TypeOK /\ TsxTypeOK /\ WordsInv /\ ControlInv(t)
      /\ pc[t] = "leave" /\ tx[t] \in {"none", "active"}
      /\ locker_of(t) \in Loc /\ locker_of(t) \notin ListWords
  BY Known, PlaceFacts DEF leave, At
<1>1. /\ pc'[t] \in {"return", "delete"}
      /\ pc' = [pc EXCEPT ![t] = pc'[t]]
      /\ allocated' \in SUBSET allocated
      /\ UNCHANGED <<kind, exited, locals>>
  BY <1>k DEF leave, Goto, TypeOK
<1>2. OthersKept(t) /\ TsxTypeOK' /\ WordsInv' /\ tx'[t] = "none"
  <2>1. CASE xtest(t)
    BY <1>k, <2>1, DiscardEffect, CommitType, EndWords DEF leave, Commit
  <2>2. CASE ~xtest(t)
    BY <1>k, <2>2, AccessKeepsOthers, StoreType, StoreWords DEF leave, xtest
  <2> QED
    BY <2>1, <2>2
<1>3. OwnStep(t)
  BY <1>k, <1>1, <1>2 DEF OwnStep, TypeOK, locals
<1>4. TypeOK'
  BY <1>k, <1>1, <1>2 DEF TypeOK, locals
<1>6. ControlInv(t)'
  BY <1>k, <1>1, <1>2 DEF ControlInv, InSection, Inserting, locals
<1> QED
  BY <1>2, <1>3, <1>4, <1>6, MemStep

LEMMA DeleteMem ==
    ASSUME MemInv, NEW t \in Threads, Delete(t) PROVE MemInv' /\ OwnStep(t)
<1>k. /\ TypeOK /\ TsxTypeOK /\ WordsInv /\ ControlInv(t) /\ pc[t] = "delete"
  BY Known DEF Delete, At
<1>1. /\ pc' = [pc EXCEPT ![t] = "return"] /\ pc'[t] = "return"
      /\ allocated' \in SUBSET allocated
      /\ UNCHANGED <<txVars, kind, exited, locals>>
  BY <1>k DEF Delete, Goto, TypeOK
<1>3. OwnStep(t)
  BY <1>k, <1>1 DEF OwnStep, OthersKept, TypeOK, locals, txVars
<1>4. TypeOK'
  BY <1>k, <1>1 DEF TypeOK, TsxTypeOK, locals, txVars
<1>5. WordsInv'
  BY <1>k, <1>1, AbortWords DEF txVars
<1>6. ControlInv(t)'
  BY <1>k, <1>1 DEF ControlInv, InSection, Inserting, locals, txVars
<1> QED
  BY <1>3, <1>4, <1>5, <1>6, MemStep

LEMMA ReturnMem ==
    ASSUME MemInv, NEW t \in Threads, Return(t) PROVE MemInv' /\ OwnStep(t)
<1>k. /\ TypeOK /\ TsxTypeOK /\ WordsInv /\ ControlInv(t) /\ pc[t] = "return"
      /\ MAX_RETRIES \in Nat \ {0} /\ 0 \in Values
  BY Known, HashMapAssumption, LineFacts DEF Return, At
<1>1. /\ pc' = [pc EXCEPT ![t] = "idle"]
      /\ op' = [op EXCEPT ![t] = "contains"]
      /\ value' = [value EXCEPT ![t] = 0]
      /\ failures' = [failures EXCEPT ![t] = 0]
      /\ prev_item' = [prev_item EXCEPT ![t] = NULL]
      /\ item' = [item EXCEPT ![t] = NULL]
      /\ insert_item' = [insert_item EXCEPT ![t] = NULL]
      /\ result' = [result EXCEPT ![t] = FALSE]
      /\ UNCHANGED <<txVars, kind, allocated, exited, ops>>
  BY DEF Return, Goto
<1>3. OwnStep(t)
  BY <1>k, <1>1 DEF OwnStep, OthersKept, TypeOK, txVars
<1>4. TypeOK'
  <2>1. /\ failures' \in [Threads -> 0 .. MAX_RETRIES]
        /\ value' \in [Threads -> Values]
    BY <1>k, <1>1 DEF TypeOK
  <2>2. TsxTypeOK'
    BY <1>k, <1>1 DEF TsxTypeOK, txVars
  <2> QED
    BY <1>k, <1>1, <2>1, <2>2 DEF TypeOK
<1>5. WordsInv'
  BY <1>k, <1>1, AbortWords DEF txVars
<1>6. ControlInv(t)'
  <2>1. /\ pc'[t] = "idle" /\ op'[t] = "contains" /\ failures'[t] = 0
        /\ prev_item'[t] = NULL /\ insert_item'[t] = NULL /\ ~result'[t]
        /\ tx' = tx /\ item'[t] = NULL
    BY <1>k, <1>1 DEF TypeOK, txVars
  <2> QED
    BY <1>k, <1>1, <2>1 DEF ControlInv, InSection, Inserting
<1> QED
  BY <1>3, <1>4, <1>5, <1>6, MemStep

\* The loads of the section.
LEMMA FirstMem ==
    ASSUME MemInv, NEW t \in Threads, First(t) PROVE MemInv' /\ OwnStep(t)
<1> DEFINE h == first(bucket_of(t))
           i == Sees(t, h)
<1>k. /\ TypeOK /\ TsxTypeOK /\ WordsInv /\ ControlInv(t)
      /\ pc[t] = "first" /\ h \in ListWords /\ h \in Loc /\ ~(h > 0)
  BY Known, PlaceFacts, WordFacts DEF First, At
<1>i. i \in Cells \cup {NULL}
  BY <1>k, SeesPointer, WordFacts DEF WordOK, Ptr
<1>1. /\ Load(t, h) /\ item' = [item EXCEPT ![t] = i]
      /\ pc' = [pc EXCEPT ![t] = Continue(t, i)]
      /\ UNCHANGED <<kind, allocated, exited, op, value, prev_item, insert_item,
                     failures, result, ops>>
  BY DEF First, Goto, bucket_of
<1> HIDE DEF h, i
<1>c. Continue(t, i) \in {"look", "leave", "new", "link"}
  BY DEF Continue
<1>2. OthersKept(t) /\ tx'[t] = tx[t] /\ TsxTypeOK' /\ WordsInv'
  BY <1>k, <1>1, AccessKeepsOthers, LoadType, LoadWords
<1>3. OwnStep(t)
  BY <1>k, <1>1, <1>2 DEF OwnStep, TypeOK
<1>4. TypeOK'
  BY <1>k, <1>i, <1>1, <1>2, <1>c DEF TypeOK
<1>6. ControlInv(t)'
  <2>1. pc'[t] = Continue(t, i) /\ item'[t] = i
    BY <1>k, <1>1 DEF TypeOK
  <2> QED
    BY <1>k, <1>1, <1>2, <2>1 DEF ControlInv, InSection, Inserting, Continue
<1> QED
  BY <1>2, <1>3, <1>4, <1>6, MemStep

LEMMA LookMem ==
    ASSUME MemInv, NEW t \in Threads, Look(t) PROVE MemInv' /\ OwnStep(t)
<1> DEFINE line == Sees(t, item[t])
           found == Data(line) = value[t]
           next == Successor(line)
           label == IF ~found THEN Continue(t, next)
                    ELSE IF op[t] = "remove" THEN "unlink" ELSE "leave"
<1>k. /\ TypeOK /\ TsxTypeOK /\ WordsInv /\ ControlInv(t) /\ pc[t] = "look"
      /\ item[t] \in Cells /\ item[t] \in Loc /\ item[t] \in ListWords
      /\ op[t] \in {"insert", "remove", "contains"}
  BY Known, WordFacts DEF Look, At, ControlInv
<1>i. next \in Cells \cup {NULL} /\ found \in BOOLEAN
  BY <1>k, SeesPointer, WordFacts DEF WordOK, Ptr
<1>1. /\ Load(t, item[t])
      /\ prev_item' = [prev_item EXCEPT ![t] = IF found THEN prev_item[t]
                                               ELSE item[t]]
      /\ item' = [item EXCEPT ![t] = IF found THEN item[t] ELSE next]
      /\ result' = [result EXCEPT ![t] = found /\ op[t] = "contains"]
      /\ pc' = [pc EXCEPT ![t] = label]
      /\ UNCHANGED <<kind, allocated, exited, op, value, insert_item, failures,
                     ops>>
  BY DEF Look, Goto
<1>l. label = IF ~found THEN Continue(t, next)
              ELSE IF op[t] = "remove" THEN "unlink" ELSE "leave"
  OBVIOUS
<1> HIDE DEF line, found, next, label
<1>c. label \in {"look", "leave", "new", "link", "unlink"}
  BY <1>l DEF Continue
<1>2. OthersKept(t) /\ tx'[t] = tx[t] /\ TsxTypeOK' /\ WordsInv'
  BY <1>k, <1>1, AccessKeepsOthers, LoadType, LoadWords
<1>3. OwnStep(t)
  BY <1>k, <1>1, <1>2 DEF OwnStep, TypeOK
<1>4. TypeOK'
  <2>1. /\ prev_item' \in [Threads -> Cells \cup {NULL}]
        /\ item' \in [Threads -> Cells \cup {NULL}]
        /\ result' \in [Threads -> BOOLEAN]
    BY <1>k, <1>i, <1>1 DEF TypeOK
  <2> QED
    BY <1>k, <1>1, <1>2, <1>c, <2>1 DEF TypeOK
<1>6. ControlInv(t)'
  <2>1. /\ pc'[t] = label /\ item'[t] = IF found THEN item[t] ELSE next
        /\ result'[t] = (found /\ op[t] = "contains")
    BY <1>k, <1>1 DEF TypeOK
  <2>2. CASE found
    <3>1. /\ pc'[t] = IF op[t] = "remove" THEN "unlink" ELSE "leave"
          /\ item'[t] = item[t] /\ (result'[t] <=> op[t] = "contains")
      BY <1>l, <2>1, <2>2
    <3>2. item[t] # NULL /\ op'[t] = op[t]
      BY <1>k, <1>1, WordFacts
    <3> QED
      BY <1>k, <1>1, <1>2, <3>1, <3>2 DEF ControlInv, InSection, Inserting
  <2>3. CASE ~found
    <3>1. pc'[t] = Continue(t, next) /\ item'[t] = next /\ ~result'[t]
      BY <1>l, <2>1, <2>3
    <3> QED
      BY <1>k, <1>1, <1>2, <3>1 DEF ControlInv, InSection, Inserting, Continue
  <2> QED
    BY <2>2, <2>3
<1> QED
  BY <1>2, <1>3, <1>4, <1>6, MemStep

\* The stores of the section.
LEMMA ChangeMem ==
    ASSUME MemInv, NEW t \in Threads, Link(t) \/ Unlink(t)
    PROVE  MemInv' /\ OwnStep(t)
<1> DEFINE p == IF Link(t) THEN insert_item[t] ELSE Successor(Sees(t, item[t]))
<1>k. /\ TypeOK /\ TsxTypeOK /\ WordsInv /\ ControlInv(t)
      /\ pc[t] \in {"link", "unlink"}
      /\ prev_word(t) \in ListWords /\ prev_word(t) \in Loc
  BY Known, PlaceFacts, WordFacts DEF Link, Unlink, At
<1>1. /\ SetPointer(t, p)
      /\ result' = [result EXCEPT ![t] = TRUE]
      /\ pc' = [pc EXCEPT ![t] = "leave"]
      /\ UNCHANGED <<kind, allocated, exited, op, value, prev_item, item,
                     insert_item, failures, ops>>
  BY DEF Link, Unlink, Goto
<1>p. p \in 0 .. NCells
  <2>1. CASE Link(t)
    BY <2>1, Known, WordFacts
  <2>2. CASE ~Link(t)
    <3>1. item[t] \in Cells
      BY <2>2, <1>k, Known DEF Unlink, At, ControlInv
    <3> QED
      BY <1>k, <2>2, <3>1, SeesPointer, WordFacts DEF WordOK, Ptr
  <2> QED
    BY <2>1, <2>2
<1> HIDE DEF p
<1>v. PICK v \in Nat : Store(t, prev_word(t), v) /\ WordOK(prev_word(t), v)
  BY <1>k, <1>p, <1>1, PointerStore
<1>2. OthersKept(t) /\ tx'[t] = tx[t] /\ TsxTypeOK' /\ WordsInv'
  BY <1>k, <1>v, AccessKeepsOthers, StoreType, StoreWords
<1>3. OwnStep(t)
  BY <1>k, <1>1, <1>2 DEF OwnStep, TypeOK
<1>4. TypeOK'
  BY <1>k, <1>1, <1>2 DEF TypeOK
<1>6. ControlInv(t)'
  <2>1. pc'[t] = "leave" /\ result'[t] /\ item'[t] = item[t] /\ op'[t] = op[t]
    BY <1>k, <1>1 DEF TypeOK
  <2>2. item[t] = NULL <=> op[t] = "insert"
    BY <1>k DEF ControlInv
  <2> QED
    BY <1>k, <1>1, <1>2, <2>1, <2>2 DEF ControlInv, InSection, Inserting
<1> QED
  BY <1>2, <1>3, <1>4, <1>6, MemStep

LEMMA HardwareMem ==
    ASSUME MemInv, NEW t \in Threads, HardwareAbort(t), ~exited,
           UNCHANGED <<kind, allocated, exited, pc, locals>>
    PROVE  MemInv' /\ OwnStep(t)
<1>k. TypeOK /\ TsxTypeOK /\ WordsInv /\ ControlInv(t) /\ tx[t] = "active"
  BY Known DEF HardwareAbort, xtest
<1>1. PICK status \in {CONFLICT, NOBITS} : Abort({t}, status)
  BY DEF HardwareAbort
<1>m. UNCHANGED <<mem, rset, wset, wbuf>> /\ status \in AbortCodes
  BY DEF HardwareAbort, AbortCodes
<1>2. OthersKept(t) /\ tx'[t] = "aborted" /\ TsxTypeOK' /\ WordsInv'
  BY <1>k, <1>1, <1>m, SelfAbortEffect, SelfAbortType, AbortWords
<1>3. OwnStep(t)
  BY <1>k, <1>2 DEF OwnStep, locals
<1>4. TypeOK'
  BY <1>k, <1>2 DEF TypeOK, locals
<1>6. ControlInv(t)'
  BY <1>k, <1>2 DEF ControlInv, InSection, Inserting, locals
<1> QED
  BY <1>2, <1>3, <1>4, <1>6, MemStep

LEMMA DestroyMem ==
    ASSUME MemInv, Destroy PROVE MemInv'
<1>k. TypeOK /\ TsxTypeOK /\ WordsInv
  BY DEF MemInv, TypeOK
<1>1. /\ allocated' \in SUBSET allocated
      /\ mem' = [l \in Loc |-> IF l < 0 THEN 0 ELSE mem[l]]
      /\ UNCHANGED <<tx, code, rset, wset, wbuf, kind, exited, pc, locals>>
  BY DEF Destroy
<1>2. mem' \in [Loc -> Int]
  BY <1>k, <1>1 DEF TsxTypeOK
<1>3. TypeOK'
  BY <1>k, <1>1, <1>2 DEF TypeOK, TsxTypeOK, locals
<1>4. ASSUME NEW w \in ListWords PROVE WordOK(w, mem'[w])
  <2>1. w \in Loc /\ w \in Int
    BY WordFacts, HashMapAssumption DEF ListWords
  <2>2. CASE w < 0
    BY <1>1, <2>1, <2>2, HashMapAssumption DEF WordOK, Ptr
  <2>3. CASE ~(w < 0)
    BY <1>k, <1>1, <2>1, <2>3 DEF WordsInv
  <2> QED
    BY <2>2, <2>3
<1>5. WordsInv'
  BY <1>k, <1>1, <1>4 DEF WordsInv
<1>6. \A t \in Threads : ControlInv(t)'
  BY <1>1 DEF MemInv, ControlInv, InSection, Inserting, locals
<1> QED
  BY <1>3, <1>5, <1>6 DEF MemInv

LEMMA InitMem == Init => MemInv
<1> SUFFICES ASSUME Init PROVE MemInv
  OBVIOUS
<1>i. TsxInit([l \in Loc |-> 0])
  BY DEF Init
<1>1. TsxTypeOK
  BY <1>i DEF TsxInit, TsxTypeOK, AbortCodes
<1>2. MAX_RETRIES \in Nat \ {0} /\ MaxOps \in Nat /\ 0 \in Values
  BY HashMapAssumption, LineFacts
<1>3. TypeOK
  <2>1. 0 \in 0 .. MAX_RETRIES /\ 0 \in 0 .. MaxOps
    BY <1>2
  <2>2. /\ allocated \in SUBSET Cells /\ exited \in BOOLEAN
        /\ result \in [Threads -> BOOLEAN] /\ ops = 0
    BY DEF Init
  <2> QED
    BY <1>1, <1>2, <2>1, <2>2 DEF Init, TypeOK
<1>4. WordsInv
  <2>1. ASSUME NEW w \in ListWords PROVE WordOK(w, 0)
    BY LineFacts, <1>2, HashMapAssumption, Divides DEF WordOK, Ptr, Successor
  <2> QED
    BY <1>i, <2>1, WordFacts DEF WordsInv, TsxInit
<1>5. ASSUME NEW t \in Threads PROVE ControlInv(t)
  <2>1. /\ tx[t] = "none" /\ pc[t] = "idle" /\ prev_item[t] = NULL
        /\ insert_item[t] = NULL /\ failures[t] = 0 /\ ~result[t]
        /\ item[t] = NULL
    BY <1>i DEF Init, TsxInit
  <2> QED
    BY <1>2, <2>1 DEF ControlInv, InSection, Inserting
<1> QED
  BY <1>3, <1>4, <1>5 DEF MemInv

\* Each step of a thread keeps types, words and control, and the locals of
\* the others.
LEMMA MemOfStep ==
    ASSUME MemInv, NEW t \in Threads,
           \/ Call(t) \/ New(t) \/ lock(t) \/ busy(t) \/ elide(t) \/ xbegin(t)
           \/ First(t) \/ Look(t) \/ Link(t) \/ Unlink(t)
           \/ leave(t) \/ Delete(t) \/ Return(t) \/ Aborted(t)
           \/ HardwareAbort(t) /\ ~exited
                /\ UNCHANGED <<kind, allocated, exited, pc, locals>>
    PROVE  MemInv' /\ OwnStep(t)
BY CallMem, NewMem, BusyMem, EnterMem, FirstMem, LookMem, ChangeMem, LeaveMem,
   DeleteMem, ReturnMem, AbortedMem, HardwareMem

LEMMA MemInvariant == Spec => []MemInv
<1>1. MemInv /\ [Next]_vars => MemInv'
  <2> SUFFICES ASSUME MemInv, [Next]_vars PROVE MemInv'
    OBVIOUS
  <2>1. CASE Destroy
    BY <2>1, DestroyMem
  <2>2. CASE \E t \in Threads :
               \/ Call(t) \/ New(t) \/ lock(t) \/ busy(t) \/ elide(t) \/ xbegin(t)
               \/ First(t) \/ Look(t) \/ Link(t) \/ Unlink(t)
               \/ leave(t) \/ Delete(t) \/ Return(t) \/ Aborted(t)
               \/ HardwareAbort(t) /\ ~exited
                    /\ UNCHANGED <<kind, allocated, exited, pc, locals>>
    BY <2>2, MemOfStep
  <2>3. CASE UNCHANGED vars
    BY <2>3 DEF MemInv, TypeOK, TsxTypeOK, WordsInv, ControlInv, InSection,
                Inserting, vars, txVars, locals
  <2> QED
    BY <2>1, <2>2, <2>3 DEF Next
<1> QED
  BY <1>1, InitMem, PTL DEF Spec

\* Types: in particular, every pointer of a thread and of the heap is the
\* number of a cell or NULL.
THEOREM TypeCorrect == Spec => []TypeOK
<1>1. MemInv => TypeOK
  BY DEF MemInv
<1> QED
  BY <1>1, MemInvariant, PTL

-----------------------------------------------------------------------------
(* Exclusion *)

\* A step that enters no section and touches no lock word.
LEMMA LockFrame ==
    ASSUME MemInv, LockInv, NEW t \in Threads, OwnStep(t),
           \A l \in Loc \ ListWords : mem'[l] = mem[l],
           InSection(t)' =>
             /\ InSection(t) /\ value'[t] = value[t]
             /\ tx'[t] = "none" => tx[t] = "none"
             /\ tx'[t] = "active" => tx[t] = "active" /\ rset[t] \subseteq rset'[t]
    PROVE  LockInv'
<1>1. ASSUME NEW u \in Threads
      PROVE  /\ InLocked(u)' => InLocked(u) /\ locker_of(u)' = locker_of(u)
             /\ InTx(u)' => /\ InTx(u) /\ locker_of(u)' = locker_of(u)
                            /\ rset[u] \subseteq rset'[u]
             /\ mem'[locker_of(u)] = mem[locker_of(u)]
  <2>1. mem'[locker_of(u)] = mem[locker_of(u)]
    BY PlaceFacts DEF MemInv
  <2>2. CASE u = t
    BY <2>1, <2>2 DEF OwnStep, InLocked, InTx, xtest, locker_of
  <2>3. CASE u # t
    BY <2>1, <2>3 DEF OwnStep, OthersKept, InLocked, InTx, InSection, xtest,
                      locker_of
  <2> QED
    BY <2>2, <2>3
<1>2. kind' = kind
  BY DEF OwnStep
<1> QED
  BY <1>1, <1>2 DEF LockInv

\* The same for a step without a memory access.
LEMMA StillExcl ==
    ASSUME MemInv, ExclInv, NEW t \in Threads, OwnStep(t), UNCHANGED txVars,
           InSection(t)' => InSection(t) /\ value'[t] = value[t]
    PROVE  ExclInv'
<1>1. UNCHANGED <<mem, tx, rset, wset>>
  BY DEF txVars
<1>2. NoConflict'
  BY <1>1 DEF ExclInv, NoConflict, xtest
<1>3. LockInv'
  BY <1>1, LockFrame DEF ExclInv
<1> QED
  BY <1>1, <1>2, <1>3 DEF ExclInv

LEMMA LoadExcl ==
    ASSUME MemInv, ExclInv, NEW t \in Threads, OwnStep(t), NEW l \in Loc,
           Load(t, l), InSection(t), value'[t] = value[t]
    PROVE  ExclInv'
<1>1. /\ TsxTypeOK /\ OnlyAborts(t) /\ mem' = mem /\ wset' = wset
      /\ rset[t] \subseteq rset'[t]
  BY LoadEffect DEF MemInv, TypeOK
<1>2. NoConflict'
  BY <1>1, LoadConflict DEF ExclInv
<1>3. LockInv'
  BY <1>1, LockFrame DEF ExclInv, OnlyAborts
<1> QED
  BY <1>1, <1>2, <1>3 DEF ExclInv, OnlyAborts

\* A store to a word of a list.
LEMMA StoreExcl ==
    ASSUME MemInv, ExclInv, NEW t \in Threads, OwnStep(t), NEW l \in ListWords,
           NEW v \in Int, Store(t, l, v), InSection(t)' => InSection(t),
           value'[t] = value[t]
    PROVE  ExclInv'
<1>l. l \in Loc /\ TsxTypeOK
  BY WordFacts DEF MemInv, TypeOK
<1>1. /\ OnlyAborts(t) /\ rset' = rset
      /\ \A k \in Loc \ {l} : mem'[k] = mem[k]
      /\ \A u \in Threads \ {t} : wset'[u] = wset[u]
      /\ ~xtest(t) => wset' = wset
  BY <1>l, StoreEffect
<1>2. NoConflict'
  BY <1>l, StoreConflict DEF ExclInv
<1>3. LockInv'
  BY <1>1, LockFrame DEF ExclInv, OnlyAborts
<1>4. ASSUME NEW u \in Threads, tx'[u] = "none" PROVE wset'[u] = {}
  BY <1>1, <1>4 DEF ExclInv, OnlyAborts, xtest
<1> QED
  BY <1>2, <1>3, <1>4 DEF ExclInv

LEMMA EnterExcl ==
    ASSUME MemInv, ExclInv, NEW t \in Threads, OwnStep(t),
           lock(t) \/ elide(t) \/ xbegin(t)
    PROVE  ExclInv'
<1> DEFINE lk == locker_of(t)
<1>k. /\ TypeOK /\ TsxTypeOK /\ lk \in Loc /\ kind' = kind
      /\ \A u \in Threads : locker_of(u) \in Loc
      /\ pc[t] = "enter" /\ tx[t] = "none" /\ wset[t] = {}
      /\ pc'[t] = "first"
  <2>1. pc[t] = "enter" /\ pc' = [pc EXCEPT ![t] = "first"]
    BY DEF lock, elide, xbegin, At, Goto
  <2> QED
    BY <2>1, Known, PlaceFacts DEF MemInv, ControlInv, InSection, ExclInv,
                                   OwnStep, TypeOK
<1>v. value' = value
  BY DEF lock, elide, xbegin, locals
<1>w. \A u \in Threads : locker_of(u)' = locker_of(u)
  BY <1>k, <1>v DEF locker_of
<1>o. \A u \in Threads \ {t} :
        /\ InLocked(u)' => InLocked(u)
        /\ InTx(u)' => InTx(u) /\ rset'[u] = rset[u] /\ tx'[u] = "active"
  BY DEF OwnStep, OthersKept, InLocked, InTx, InSection, xtest
<1>1. CASE lock(t)
  <2>1. Store(t, lk, 1) /\ mem[lk] = 0 /\ kind # "rtm"
    BY <1>1 DEF lock
  <2> HIDE DEF lk
  <2>2. /\ OnlyAborts(t) /\ rset' = rset
        /\ \A k \in Loc \ {lk} : mem'[k] = mem[k]
        /\ wset' = wset /\ mem'[lk] = 1
        /\ \A u \in Threads \ {t} : lk \in rset[u] => tx'[u] # "active"
    BY <1>k, <2>1, StoreEffect DEF xtest
  <2>3. tx'[t] = "none"
    BY <1>k, <2>2 DEF OnlyAborts
  <2>4. NoConflict'
    BY <1>k, <2>1, StoreConflict DEF ExclInv
  <2>5. \A u \in Threads \ {t} : InLocked(u)' => locker_of(u) # lk /\ mem[locker_of(u)] = 1
    BY <1>o, <2>1 DEF ExclInv, LockInv
  <2>6. \A u \in Threads \ {t} : InTx(u)' => locker_of(u) # lk /\ mem[locker_of(u)] = 0
    BY <1>o, <2>1, <2>2 DEF ExclInv, LockInv
  <2>7. ~InTx(t)'
    BY <2>3 DEF InTx, xtest
  <2>8. ASSUME NEW u \in Threads
        PROVE  /\ InLocked(u)' => mem'[locker_of(u)] = 1
               /\ InTx(u)' => locker_of(u) \in rset'[u] /\ mem'[locker_of(u)] = 0
    <3>1. CASE u = t
      BY <2>2, <2>7, <3>1 DEF lk
    <3>2. CASE u # t
      BY <1>k, <1>o, <2>1, <2>2, <2>5, <2>6, <3>2 DEF ExclInv, LockInv
    <3> QED
      BY <3>1, <3>2
  <2>9. ASSUME NEW u \in Threads, NEW v \in Threads, InLocked(u)', InLocked(v)',
               locker_of(u) = locker_of(v)
        PROVE  u = v
    BY <1>o, <2>1, <2>5, <2>9 DEF ExclInv, LockInv, lk
  <2>10. LockInv'
    BY <1>w, <2>8, <2>9 DEF LockInv
  <2>11. ASSUME NEW u \in Threads, tx'[u] = "none" PROVE wset'[u] = {}
    BY <2>2, <2>11 DEF ExclInv, OnlyAborts
  <2> QED
    BY <2>4, <2>10, <2>11 DEF ExclInv
<1>2. CASE elide(t) \/ xbegin(t)
  <2>1. PICK reads : /\ Begin(t, reads) /\ reads \in SUBSET Loc
                     /\ kind # "rtm" => reads = {lk} /\ mem[lk] = 0
    <3>1. {lk} \in SUBSET Loc /\ {} \in SUBSET Loc
      BY <1>k
    <3> QED
      BY <1>2, <3>1 DEF elide, xbegin
  <2> HIDE DEF lk
  <2>2. /\ OthersKept(t) /\ mem' = mem
        /\ tx'[t] = "active" /\ rset'[t] = reads /\ wset' = wset
    BY <1>k, <2>1, BeginEffect
  <2>3. NoConflict'
    BY <1>k, <2>1, BeginConflict DEF ExclInv
  <2>4. ~InLocked(t)'
    BY <2>2 DEF InLocked
  <2>5. ASSUME NEW u \in Threads, kind # "rtm"
        PROVE  /\ InLocked(u)' => mem'[locker_of(u)] = 1
               /\ InTx(u)' => locker_of(u) \in rset'[u] /\ mem'[locker_of(u)] = 0
    <3>1. CASE u = t
      BY <2>1, <2>2, <2>4, <2>5, <3>1 DEF lk
    <3>2. CASE u # t
      BY <1>k, <1>o, <2>2, <2>5, <3>2 DEF ExclInv, LockInv
    <3> QED
      BY <3>1, <3>2
  <2>6. ASSUME NEW u \in Threads, NEW v \in Threads, InLocked(u)', InLocked(v)',
               locker_of(u) = locker_of(v), kind # "rtm"
        PROVE  u = v
    BY <1>o, <2>4, <2>6 DEF ExclInv, LockInv
  <2>7. LockInv'
    BY <1>k, <1>w, <2>5, <2>6 DEF LockInv
  <2>8. ASSUME NEW u \in Threads, tx'[u] = "none" PROVE wset'[u] = {}
    BY <2>2, <2>8 DEF ExclInv, OthersKept
  <2> QED
    BY <2>3, <2>7, <2>8 DEF ExclInv
<1> QED
  BY <1>1, <1>2

\* A commit, and a rollback.
LEMMA EndExcl ==
    ASSUME MemInv, ExclInv, NEW t \in Threads, OwnStep(t),
           Commit(t) \/ Rollback(t), ~InSection(t)'
    PROVE  ExclInv'
<1>k. TsxTypeOK /\ Discard(t)
  BY DEF MemInv, TypeOK, Commit, Rollback
<1>1. OthersKept(t) /\ tx'[t] = "none" /\ wset'[t] = {}
  BY <1>k, DiscardEffect
<1>2. \A l \in Loc \ ListWords : mem'[l] = mem[l]
  BY DEF Commit, Rollback, MemInv, WordsInv
<1>3. NoConflict'
  BY <1>1, EndConflict DEF ExclInv
<1>4. LockInv'
  BY <1>2, LockFrame DEF ExclInv
<1>5. ASSUME NEW u \in Threads, tx'[u] = "none" PROVE wset'[u] = {}
  BY <1>1, <1>5 DEF ExclInv, OthersKept
<1> QED
  BY <1>3, <1>4, <1>5 DEF ExclInv

\* An unlock.
LEMMA UnlockExcl ==
    ASSUME MemInv, ExclInv, NEW t \in Threads, OwnStep(t),
           Store(t, locker_of(t), 0), InLocked(t), ~InSection(t)'
    PROVE  ExclInv'
<1> DEFINE lk == locker_of(t)
<1>k. /\ TypeOK /\ TsxTypeOK /\ lk \in Loc /\ kind' = kind /\ tx[t] = "none"
      /\ \A u \in Threads : locker_of(u) \in Loc
  BY PlaceFacts DEF MemInv, TypeOK, OwnStep, InLocked
<1>o. \A u \in Threads \ {t} :
        /\ locker_of(u)' = locker_of(u)
        /\ InLocked(u)' => InLocked(u)
        /\ InTx(u)' => InTx(u) /\ rset'[u] = rset[u] /\ tx'[u] = "active"
  BY DEF OwnStep, OthersKept, InLocked, InTx, InSection, xtest, locker_of
<1>n. ~InLocked(t)' /\ ~InTx(t)'
  BY DEF InLocked, InTx
<1>1. Store(t, lk, 0)
  OBVIOUS
<1>l. \A u \in Threads \ {t} : kind # "rtm" /\ InLocked(u) => locker_of(u) # lk
  BY DEF ExclInv, LockInv
<1> HIDE DEF lk
<1>2. /\ OnlyAborts(t) /\ rset' = rset
      /\ \A k \in Loc \ {lk} : mem'[k] = mem[k]
      /\ wset' = wset
      /\ \A u \in Threads \ {t} : lk \in rset[u] => tx'[u] # "active"
  BY <1>k, <1>1, StoreEffect DEF xtest
<1>3. NoConflict'
  BY <1>k, <1>1, StoreConflict DEF ExclInv
<1>4. ASSUME NEW u \in Threads, kind # "rtm"
      PROVE  /\ InLocked(u)' => mem'[locker_of(u)] = 1
             /\ InTx(u)' => locker_of(u) \in rset'[u] /\ mem'[locker_of(u)] = 0
  BY <1>k, <1>o, <1>n, <1>l, <1>2, <1>4 DEF ExclInv, LockInv
<1>5. LockInv'
  BY <1>k, <1>o, <1>n, <1>4 DEF ExclInv, LockInv
<1>6. ASSUME NEW u \in Threads, tx'[u] = "none" PROVE wset'[u] = {}
  BY <1>2, <1>6 DEF ExclInv, OnlyAborts
<1> QED
  BY <1>3, <1>5, <1>6 DEF ExclInv

\* A holder shares its bucket with no live transaction and no other holder.
LEMMA Alone ==
    ASSUME MemInv, ExclInv, NEW t \in Threads, NEW u \in Threads, t # u,
           InLocked(t), InLocked(u) \/ InTx(u)
    PROVE  bucket_of(t) # bucket_of(u)
<1>1. kind # "rtm"
  BY DEF MemInv, ControlInv, InLocked
<1>2. bucket_of(t) = bucket_of(u) => locker_of(t) = locker_of(u)
  BY DEF locker_of, bucket_of
<1>3. locker_of(t) # locker_of(u)
  BY <1>1 DEF ExclInv, LockInv
<1> QED
  BY <1>2, <1>3

-----------------------------------------------------------------------------
(* The walk of Items *)

\* S holds exactly the cells that are reached from the word f in memory m.
ListOf(m, f, S, R) ==
    /\ \A w \in {f} \cup S : Ptr(w, m[w]) \in S \cup {NULL}
    /\ \A c \in S : Ptr(c, m[c]) # NULL => R[c] < R[Ptr(c, m[c])]
    /\ \A c \in S : \E w \in {f} \cup S : Ptr(w, m[w]) = c

\* The walk of Items, n steps long.
WalkOf(m, f, g, n) ==
    g = [k \in 0 .. n |-> IF k = 0 THEN m[f]
                          ELSE IF g[k - 1] = NULL THEN NULL
                          ELSE Successor(m[g[k - 1]])]

LEMMA WalkExists ==
    ASSUME NEW m, NEW f, NEW N \in Nat PROVE \E g : WalkOf(m, f, g, N)
<1> DEFINE Bad == {n \in Nat : ~\E g : WalkOf(m, f, g, n)}
<1> SUFFICES ASSUME Bad # {} PROVE FALSE
  OBVIOUS
<1>1. PICK n \in Bad : \A k \in Bad : n <= k
  <2>1. Bad \in SUBSET Nat
    OBVIOUS
  <2> HIDE DEF Bad
  <2> QED
    BY <2>1, LeastNumber
<1>2. n # 0
  <2> DEFINE g == [k \in 0 .. 0 |-> m[f]]
  <2>1. WalkOf(m, f, g, 0)
    BY DEF WalkOf
  <2> QED
    BY <2>1
<1>3. PICK g : WalkOf(m, f, g, n - 1)
  <2>1. n - 1 \in Nat /\ n - 1 \notin Bad
    BY <1>1, <1>2
  <2> QED
    BY <2>1
<1> DEFINE x == IF g[n - 1] = NULL THEN NULL ELSE Successor(m[g[n - 1]])
           e == [k \in 0 .. n |-> IF k = n THEN x ELSE g[k]]
<1>4. \A k \in 0 .. n - 1 : e[k] = g[k]
  OBVIOUS
<1>5. \A k \in 0 .. n : e[k] = IF k = 0 THEN m[f]
                               ELSE IF e[k - 1] = NULL THEN NULL
                               ELSE Successor(m[e[k - 1]])
  <2> SUFFICES ASSUME NEW k \in 0 .. n
               PROVE  e[k] = IF k = 0 THEN m[f]
                             ELSE IF e[k - 1] = NULL THEN NULL
                             ELSE Successor(m[e[k - 1]])
    OBVIOUS
  <2>1. CASE k = n
    <3>1. e[k] = x /\ e[k - 1] = g[n - 1] /\ k # 0
      BY <1>2, <1>4, <2>1
    <3> QED
      BY <2>1, <3>1
  <2>2. CASE k # n
    <3>1. k \in 0 .. n - 1 /\ e[k] = g[k] /\ (k # 0 => e[k - 1] = g[k - 1])
      BY <1>2, <1>4, <2>2
    <3>2. g[k] = IF k = 0 THEN m[f]
                 ELSE IF g[k - 1] = NULL THEN NULL
                 ELSE Successor(m[g[k - 1]])
      BY <1>3, <3>1 DEF WalkOf
    <3> QED
      BY <3>1, <3>2
  <2> QED
    BY <2>1, <2>2
<1>6. WalkOf(m, f, e, n)
  <2>1. e = [k \in 0 .. n |-> e[k]]
    OBVIOUS
  <2> HIDE DEF e
  <2> QED
    BY <1>5, <2>1 DEF WalkOf
<1> QED
  BY <1>6

Visited(g) == {g[k] : k \in 0 .. NCells} \ {NULL}

\* As many steps as there are cells reach the whole list.
LEMMA WalkReaches ==
    ASSUME NEW m, NEW f, ~(f > 0), NEW S \in SUBSET Cells,
           NEW R \in [Cells -> Nat], ListOf(m, f, S, R),
           NEW g, WalkOf(m, f, g, NCells)
    PROVE  Visited(g) = S
<1>n. NCells \in Nat /\ NULL \notin Cells /\ \A c \in Cells : c > 0
  BY HashMapAssumption, WordFacts
<1>1. /\ g[0] = m[f]
      /\ \A k \in 0 .. NCells : k # 0 =>
           g[k] = IF g[k - 1] = NULL THEN NULL ELSE Successor(m[g[k - 1]])
  BY <1>n DEF WalkOf
<1>2. \A k \in 0 .. NCells : g[k] \in S \cup {NULL}
  <2> DEFINE Bad == {k \in 0 .. NCells : g[k] \notin S \cup {NULL}}
  <2> SUFFICES ASSUME Bad # {} PROVE FALSE
    OBVIOUS
  <2>1. PICK k \in Bad : \A j \in Bad : k <= j
    <3>1. Bad \in SUBSET Nat
      OBVIOUS
    <3> HIDE DEF Bad
    <3> QED
      BY <3>1, LeastNumber
  <2>2. k # 0
    BY <1>1, <2>1 DEF ListOf, Ptr
  <2>3. k - 1 \in 0 .. NCells /\ g[k - 1] \in S \cup {NULL}
    BY <1>n, <2>1, <2>2
  <2> QED
    BY <1>n, <1>1, <2>1, <2>2, <2>3 DEF ListOf, Ptr
<1>3. \A k \in 0 .. NCells : k # 0 /\ g[k] # NULL =>
        g[k - 1] \in S /\ g[k] \in S /\ R[g[k - 1]] < R[g[k]]
  BY <1>n, <1>1, <1>2 DEF ListOf, Ptr
<1>4. ASSUME g[NCells] # NULL PROVE FALSE
  <2>1. \A k \in 0 .. NCells : g[k] # NULL
    <3> DEFINE Bad == {k \in 0 .. NCells : g[NCells - k] = NULL}
    <3> SUFFICES ASSUME Bad # {} PROVE FALSE
      <4>1. \A k \in 0 .. NCells : NCells - k \in 0 .. NCells
                                   /\ NCells - (NCells - k) = k
        BY <1>n
      <4> QED
        BY <4>1
    <3>1. PICK k \in Bad : \A j \in Bad : k <= j
      <4>1. Bad \in SUBSET Nat
        OBVIOUS
      <4> HIDE DEF Bad
      <4> QED
        BY <4>1, LeastNumber
    <3>2. k # 0
      BY <1>4, <1>n
    <3>3. k - 1 \in 0 .. NCells /\ k - 1 \notin Bad
      BY <1>n, <3>1, <3>2
    <3>4. NCells - (k - 1) \in 0 .. NCells /\ NCells - (k - 1) # 0
          /\ NCells - (k - 1) - 1 = NCells - k
      BY <1>n, <3>2
    <3> QED
      BY <1>1, <3>3, <3>4
  <2>2. \A j, k \in 0 .. NCells : j < k => R[g[j]] < R[g[k]]
    <3> SUFFICES ASSUME NEW j \in 0 .. NCells
                 PROVE  \A k \in 0 .. NCells : j < k => R[g[j]] < R[g[k]]
      OBVIOUS
    <3> DEFINE Bad == {k \in 0 .. NCells : j < k /\ ~(R[g[j]] < R[g[k]])}
    <3> SUFFICES ASSUME Bad # {} PROVE FALSE
      OBVIOUS
    <3>1. PICK k \in Bad : \A i \in Bad : k <= i
      <4>1. Bad \in SUBSET Nat
        OBVIOUS
      <4> HIDE DEF Bad
      <4> QED
        BY <4>1, LeastNumber
    <3>2. k # 0 /\ k - 1 \in 0 .. NCells /\ k - 1 \notin Bad
      BY <1>n, <3>1
    <3>3. R[g[k - 1]] < R[g[k]]
      BY <1>3, <2>1, <3>2
    <3>4. j = k - 1 \/ R[g[j]] < R[g[k - 1]]
      BY <3>1, <3>2
    <3>5. R[g[j]] \in Nat /\ R[g[k]] \in Nat /\ R[g[k - 1]] \in Nat
      BY <1>2, <2>1, <3>2
    <3> QED
      BY <3>1, <3>3, <3>4, <3>5
  <2> DEFINE i == [k \in 0 .. NCells |-> g[k]]
  <2>3. \A k \in 0 .. NCells : g[k] \in Cells /\ R[g[k]] \in Nat
    BY <1>2, <2>1
  <2>4. i \in Injection(0 .. NCells, Cells)
    <3>1. \A j, k \in 0 .. NCells : g[j] = g[k] => j = k
      BY <2>2, <2>3
    <3> QED
      BY <2>3, <3>1 DEF Injection, IsInjective
  <2>5. IsFiniteSet(Cells) /\ Cardinality(Cells) = NCells
    BY <1>n, FS_Interval DEF Cells
  <2>6. Cardinality(0 .. NCells) = NCells + 1
    BY <1>n, FS_Interval
  <2>7. Cardinality(0 .. NCells) <= Cardinality(Cells)
    <3> HIDE DEF i
    <3> QED
      BY <2>4, <2>5, FS_Injection
  <2> QED
    BY <1>n, <2>5, <2>6, <2>7
<1>5. ASSUME NEW c \in S PROVE \E k \in 0 .. NCells : g[k] = c
  <2> DEFINE Bad == {R[d] : d \in {s \in S : ~\E k \in 0 .. NCells : g[k] = s}}
  <2> SUFFICES ASSUME Bad # {} PROVE FALSE
    OBVIOUS
  <2>1. PICK r \in Bad : \A q \in Bad : r <= q
    <3>1. Bad \in SUBSET Nat
      OBVIOUS
    <3> HIDE DEF Bad
    <3> QED
      BY <3>1, LeastNumber
  <2>2. PICK d \in S : r = R[d] /\ ~\E k \in 0 .. NCells : g[k] = d
    OBVIOUS
  <2>3. PICK w \in {f} \cup S : Ptr(w, m[w]) = d
    BY DEF ListOf
  <2>4. w # f
    BY <1>n, <1>1, <2>2, <2>3 DEF Ptr
  <2>5. w \in S /\ R[w] < R[d] /\ R[w] \in Nat /\ R[d] \in Nat /\ w # NULL
    BY <1>n, <2>3, <2>4 DEF ListOf
  <2>6. PICK k \in 0 .. NCells : g[k] = w
    <3>1. R[w] \notin Bad
      BY <2>1, <2>2, <2>5
    <3> QED
      BY <2>5, <3>1
  <2>7. k # NCells
    BY <1>4, <2>5, <2>6
  <2>8. k + 1 \in 0 .. NCells /\ k + 1 # 0 /\ k + 1 - 1 = k
    BY <1>n, <2>7
  <2>9. g[k + 1] = d
    BY <1>n, <1>1, <2>3, <2>5, <2>6, <2>8 DEF Ptr
  <2> QED
    BY <2>2, <2>8, <2>9
<1> QED
  BY <1>n, <1>2, <1>5 DEF Visited

LEMMA ItemsAre ==
    ASSUME NEW h \in Buckets, NEW S \in SUBSET Cells, NEW R \in [Cells -> Nat]
    PROVE  /\ ListOf(mem, first(h), S, R) => Items(h) = S
           /\ ListOf(mem', first(h), S, R) => Items(h)' = S
<1>f. ~(first(h) > 0) /\ NCells \in Nat
  BY WordFacts, HashMapAssumption
<1>2. ASSUME ListOf(mem, first(h), S, R) PROVE Items(h) = S
  <2>1. PICK g : g = CHOOSE e : WalkOf(mem, first(h), e, NCells)
    OBVIOUS
  <2>2. Items(h) = {g[k] : k \in 0 .. NCells} \ {NULL}
    BY <2>1 DEF Items, WalkOf
  <2>3. WalkOf(mem, first(h), g, NCells)
    BY <1>f, <2>1, WalkExists
  <2>4. Visited(g) = S
    BY <1>f, <1>2, <2>3, WalkReaches
  <2> QED
    BY <2>2, <2>4 DEF Visited
<1>3. ASSUME ListOf(mem', first(h), S, R) PROVE Items(h)' = S
  <2>1. PICK g : g = CHOOSE e : WalkOf(mem', first(h), e, NCells)
    OBVIOUS
  <2>2. Items(h)' = {g[k] : k \in 0 .. NCells} \ {NULL}
    BY <2>1 DEF Items, WalkOf
  <2>3. WalkOf(mem', first(h), g, NCells)
    BY <1>f, <2>1, WalkExists
  <2>4. Visited(g) = S
    BY <1>f, <1>3, <2>3, WalkReaches
  <2> QED
    BY <2>2, <2>4 DEF Visited
<1> QED
  BY <1>2, <1>3

\* The lists, and the values in them.
LEMMA LinkedAre ==
    ASSUME NEW B \in [Buckets -> SUBSET Cells], NEW R \in [Cells -> Nat]
    PROVE  /\ Lists(B, R) => Linked = UNION {B[h] : h \in Buckets}
           /\ Lists(B, R)' => Linked' = UNION {B[h] : h \in Buckets}
<1>1. ASSUME Lists(B, R), NEW h \in Buckets PROVE Items(h) = B[h]
  <2>1. ListOf(mem, first(h), B[h], R)
    BY <1>1 DEF Lists, Full, ListOf, Words
  <2> QED
    BY <2>1, ItemsAre
<1>2. ASSUME Lists(B, R)', NEW h \in Buckets PROVE Items(h)' = B[h]
  <2>1. ListOf(mem', first(h), B[h], R)
    BY <1>2 DEF Lists, Full, ListOf, Words
  <2> QED
    BY <2>1, ItemsAre
<1> QED
  BY <1>1, <1>2 DEF Linked, Buckets

LEMMA ContentsAre ==
    ASSUME NEW B \in [Buckets -> SUBSET Cells], NEW R \in [Cells -> Nat]
    PROVE  /\ Lists(B, R) =>
                \A v : v \in Contents <=>
                         \E h \in Buckets : \E c \in B[h] : Data(mem[c]) = v
           /\ Lists(B, R)' =>
                \A v : v \in Contents' <=>
                         \E h \in Buckets : \E c \in B[h] : Data(mem'[c]) = v
BY LinkedAre DEF Contents

-----------------------------------------------------------------------------
(* The heap: what a step of t leaves of the others *)

LEMMA OwnedOfOther ==
    ASSUME NEW t \in Threads, OwnStep(t), NEW u \in Threads, u # t
    PROVE  Owned(u)' = Owned(u)
BY DEF OwnStep, OthersKept, Owned, Done

LEMMA OwnFrame ==
    ASSUME OwnInv, NEW t \in Threads, OwnStep(t),
           Owned(t)' \subseteq allocated', FreshInv(t)',
           \A u \in Threads \ {t} :
             /\ Owned(u) \subseteq allocated' /\ Owned(u) \cap Owned(t)' = {}
             /\ \A c \in Owned(u) : mem'[c] = mem[c]
    PROVE  OwnInv'
<1>1. ASSUME NEW u \in Threads, u # t
      PROVE  Owned(u)' = Owned(u) /\ FreshInv(u)'
  <2>1. Owned(u)' = Owned(u)
    BY <1>1, OwnedOfOther
  <2>2. /\ insert_item'[u] = insert_item[u] /\ kind' = kind
        /\ tx'[u] = "none" <=> tx[u] = "none"
        /\ value'[u] = value[u]
    BY <1>1 DEF OwnStep, OthersKept
  <2> QED
    BY <1>1, <2>1, <2>2 DEF OwnInv, FreshInv
<1> QED
  BY <1>1 DEF OwnInv

LEMMA ListsFrame ==
    ASSUME NEW B \in [Buckets -> SUBSET Cells], NEW R \in [Cells -> Nat],
           Lists(B, R), NEW t \in Threads, OwnStep(t),
           \A h \in Buckets : /\ B[h] \subseteq allocated'
                              /\ \A w \in Words(B, h) : mem'[w] = mem[w]
                              /\ Owned(t)' \cap B[h] = {},
           \A c \in allocated' :
             c \in Owned(t)' \/ (c \in allocated /\ c \notin Owned(t))
    PROVE  Lists(B, R)'
<1>1. \A u \in Threads, h \in Buckets : Owned(u)' \cap B[h] = {}
  BY OwnedOfOther DEF Lists
<1>2. \A h \in Buckets : B[h] \subseteq Words(B, h)
  BY DEF Words
<1>3. ASSUME NEW h \in Buckets
      PROVE  /\ B[h] \subseteq allocated'
             /\ \A w \in Words(B, h) : Ptr(w, mem'[w]) \in B[h] \cup {NULL}
             /\ \A v, w \in Words(B, h) :
                  Ptr(v, mem'[v]) = Ptr(w, mem'[w]) /\ Ptr(v, mem'[v]) # NULL
                    => v = w
             /\ \A c \in B[h] : Ptr(c, mem'[c]) # NULL
                                  => R[c] < R[Ptr(c, mem'[c])]
             /\ \A k \in Buckets : h # k => B[h] \cap B[k] = {}
  BY <1>2 DEF Lists
<1>4. Full(B)'
  <2>1. Full(B)
    BY DEF Lists
  <2> QED
    BY <1>2, <2>1 DEF Full, Words
<1>5. Accounted(B)'
  BY OwnedOfOther DEF Lists, Accounted
<1> QED
  BY <1>1, <1>3, <1>4, <1>5 DEF Lists, Words

\* Another thread in the section, when the cells of the lists become B2.
LEMMA WalkOfOther ==
    ASSUME MemInv, NEW t \in Threads, OwnStep(t), NEW u \in Threads, u # t,
           NEW B \in [Buckets -> SUBSET Cells],
           NEW B2 \in [Buckets -> SUBSET Cells], Walks(B), ReadsKept(t),
           InTx(u) /\ xtest(u)' => rset[u] \cap Cells \subseteq B2[bucket_of(u)],
           InLocked(u) =>
             /\ B2[bucket_of(u)] = B[bucket_of(u)]
             /\ \A w \in Words(B, bucket_of(u)) : mem'[w] = mem[w]
    PROVE  /\ (InTx(u) => TxWalk(u, B2))'
           /\ (InLocked(u) => LockedWalk(u, B2))'
           /\ (InTx(u) \/ InLocked(u) => Search(u, B2))'
<1> DEFINE h == bucket_of(u)
           p == prev_word(u)
<1>1. /\ pc'[u] = pc[u] /\ op'[u] = op[u] /\ value'[u] = value[u]
      /\ prev_item'[u] = prev_item[u] /\ item'[u] = item[u]
      /\ insert_item'[u] = insert_item[u] /\ result'[u] = result[u]
      /\ kind' = kind /\ rset'[u] = rset[u] /\ wset'[u] = wset[u]
      /\ wbuf'[u] = wbuf[u]
      /\ \/ tx'[u] = tx[u]
         \/ tx[u] = "active" /\ tx'[u] = "aborted"
  BY DEF OwnStep, OthersKept
<1>2. /\ h' = h /\ p' = p /\ Fresh(u)' = Fresh(u)
      /\ Inserting(u)' = Inserting(u) /\ Removing(u)' = Removing(u)
      /\ InTx(u)' => InTx(u) /\ xtest(u)'
      /\ InLocked(u)' => InLocked(u)
      /\ h \in Buckets
  <2>1. h \in Buckets
    BY PlaceFacts DEF MemInv
  <2> QED
    BY <1>1, <2>1 DEF bucket_of, prev_word, Fresh, Inserting, Removing, InTx,
                      InLocked, InSection, xtest
<1> HIDE DEF h, p
<1>3. ASSUME InTx(u)' PROVE TxWalk(u, B2)'
  <2>1. TxWalk(u, B) /\ \A w \in rset[u] : mem'[w] = mem[w]
    BY <1>2, <1>3 DEF Walks, ReadsKept
  <2>2. rset[u] \cap Cells \subseteq B2[h]
    BY <1>2, <1>3 DEF h
  <2>3. ASSUME NEW c \in rset[u] \cap Cells
        PROVE  /\ c \in B2[h]
               /\ \E w \in rset[u] \cap Words(B2, h) : Ptr(w, mem'[w]) = c
    <3>1. PICK w \in rset[u] \cap Words(B, h) : Ptr(w, mem[w]) = c
      BY <2>1 DEF TxWalk, h
    <3>2. w \in Words(B2, h)
      BY <1>2, <2>2 DEF Words
    <3> QED
      BY <2>1, <2>2, <3>1, <3>2
  <2>4. /\ pc[u] \in {"look", "unlink", "link", "new"} \/ Inserting(u) \/ Removing(u)
             => p \in rset[u]
        /\ pc[u] \in {"look", "unlink"} \/ Removing(u)
             => Ptr(p, mem[p]) = item[u]
        /\ pc[u] = "unlink" \/ Removing(u) => item[u] \in rset[u]
        /\ pc[u] # "link" /\ ~Inserting(u) /\ ~Removing(u) => wset[u] = {}
        /\ pc[u] = "link" => wset[u] = Fresh(u)
        /\ Inserting(u) => wset[u] = {p} \cup Fresh(u)
                           /\ Ptr(p, wbuf[u][p]) = insert_item[u]
        /\ Removing(u) => wset[u] = {p}
                          /\ Ptr(p, wbuf[u][p]) = Ptr(item[u], mem[item[u]])
        /\ kind = "global" /\ (pc[u] = "link" \/ Inserting(u)) =>
             /\ Ptr(insert_item[u], wbuf[u][insert_item[u]]) = NULL
             /\ Data(wbuf[u][insert_item[u]]) = value[u]
        /\ (Inserting(u) \/ Removing(u)) /\ p \in Cells =>
             Data(wbuf[u][p]) = Data(mem[p])
    BY <2>1 DEF TxWalk, h, p
  <2>5. /\ pc[u] \in {"look", "unlink"} \/ Removing(u)
             => Ptr(p, mem'[p]) = item[u]
        /\ Removing(u) => Ptr(item[u], mem'[item[u]]) = Ptr(item[u], mem[item[u]])
        /\ (Inserting(u) \/ Removing(u)) /\ p \in Cells =>
             Data(wbuf[u][p]) = Data(mem'[p])
    <3>1. pc[u] \in {"look", "unlink"} \/ Inserting(u) \/ Removing(u)
            => mem'[p] = mem[p]
      BY <2>1, <2>4
    <3>2. Removing(u) => mem'[item[u]] = mem[item[u]]
      BY <2>1, <2>4
    <3> QED
      BY <2>4, <3>1, <3>2
  <2>6. (\A c \in rset[u] \cap Cells :
           c \in B2[h] /\ \E w \in rset[u] \cap Words(B2, h) : Ptr(w, mem[w]) = c)'
    BY <1>1, <1>2, <2>3 DEF Words
  <2> QED
    BY <1>1, <1>2, <2>4, <2>5, <2>6 DEF TxWalk, h, p
<1>4. ASSUME InLocked(u)' PROVE LockedWalk(u, B2)'
  <2>1. /\ LockedWalk(u, B) /\ B2[h] = B[h]
        /\ \A w \in Words(B, h) : mem'[w] = mem[w]
    BY <1>2, <1>4 DEF Walks, h
  <2> QED
    BY <1>1, <1>2, <2>1 DEF LockedWalk, Words, h, p
<1>5. ASSUME InTx(u)' \/ InLocked(u)', Searched(u)'
      PROVE  /\ Ptr(p, mem'[p]) = item[u]
             /\ \E V \in SUBSET Cells : Passed(u, B2, V)'
             /\ Found(u) => /\ item[u] \in B2[h]
                            /\ Data(mem'[item[u]]) = value[u]
                            /\ xtest(u)' => item[u] \in rset[u]
  <2>1. /\ (InTx(u) /\ xtest(u)') \/ InLocked(u)
        /\ Searched(u)
    BY <1>1, <1>2, <1>5 DEF Searched, Done, InTx, InLocked, xtest
  <2>2. Search(u, B) /\ (xtest(u)' => xtest(u))
    BY <1>1, <2>1 DEF Walks, xtest
  <2>3. PICK V \in SUBSET Cells : Passed(u, B, V)
    BY <2>1, <2>2 DEF Search
  <2> DEFINE W == V \cup {first(h)}
  <2>4. /\ V \subseteq B[h] /\ p \in W
        /\ \A c \in V : Data(mem[c]) # value[u]
        /\ \A w \in W : Ptr(w, mem[w]) \in V \cup {item[u]}
        /\ xtest(u) => W \subseteq rset[u]
    BY <2>3 DEF Passed, h, p
  <2>5. /\ Ptr(p, mem[p]) = item[u]
        /\ Found(u) => /\ item[u] \in B[h] /\ Data(mem[item[u]]) = value[u]
                       /\ xtest(u) => item[u] \in rset[u]
    BY <2>1, <2>2 DEF Search, h, p
  <2>6. /\ V \subseteq B2[h] /\ \A w \in W : mem'[w] = mem[w]
        /\ Found(u) => item[u] \in B2[h] /\ mem'[item[u]] = mem[item[u]]
    <3>1. CASE InLocked(u)
      <4>1. B2[h] = B[h] /\ \A w \in Words(B, h) : mem'[w] = mem[w]
        BY <3>1 DEF h
      <4> QED
        BY <2>4, <2>5, <4>1 DEF Words
    <3>2. CASE InTx(u) /\ xtest(u)'
      <4>1. rset[u] \cap Cells \subseteq B2[h] /\ \A w \in rset[u] : mem'[w] = mem[w]
        BY <3>2 DEF ReadsKept, h
      <4>2. B[h] \subseteq Cells
        BY <1>2
      <4> QED
        BY <2>2, <2>4, <2>5, <3>2, <4>1, <4>2
    <3> QED
      BY <2>1, <3>1, <3>2
  <2>7. Passed(u, B2, V)'
    BY <1>1, <1>2, <2>2, <2>4, <2>6 DEF Passed, h, p
  <2> QED
    BY <2>2, <2>4, <2>5, <2>6, <2>7
<1>6. (InTx(u) \/ InLocked(u) => Search(u, B2))'
  BY <1>1, <1>2, <1>5 DEF Search, Found, h, p
<1> QED
  BY <1>3, <1>4, <1>6

\* A step after which the lists have the same cells and pointers.
LEMMA Quiet ==
    ASSUME MemInv, OwnInv, NEW B \in [Buckets -> SUBSET Cells],
           NEW R \in [Cells -> Nat], Lists(B, R), Walks(B),
           NEW t \in Threads, OwnStep(t), ReadsKept(t),
           \A h \in Buckets : /\ B[h] \subseteq allocated'
                              /\ \A w \in Words(B, h) : mem'[w] = mem[w],
           \A u \in Threads \ {t} : /\ Owned(u) \subseteq allocated'
                                    /\ \A c \in Owned(u) : mem'[c] = mem[c],
           Owned(t)' \subseteq allocated',
           \A c \in Owned(t)' : c \in Owned(t) \/ c \notin allocated,
           \A c \in allocated' :
             c \in Owned(t)' \/ (c \in allocated /\ c \notin Owned(t)),
           FreshInv(t)',
           (InTx(t) => TxWalk(t, B))', (InLocked(t) => LockedWalk(t, B))',
           (InTx(t) \/ InLocked(t) => Search(t, B))'
    PROVE  OwnInv' /\ HeapInv' /\ Contents' = Contents
<1>1. OwnInv'
  <2>1. \A u \in Threads \ {t} : Owned(u) \cap Owned(t)' = {}
    BY DEF OwnInv
  <2> QED
    BY <2>1, OwnFrame
<1>2. Lists(B, R)'
  <2>1. \A h \in Buckets : Owned(t)' \cap B[h] = {}
    BY DEF Lists
  <2> QED
    BY <2>1, ListsFrame
<1>3. ASSUME NEW u \in Threads
      PROVE  /\ (InTx(u) => TxWalk(u, B))'
             /\ (InLocked(u) => LockedWalk(u, B))'
             /\ (InTx(u) \/ InLocked(u) => Search(u, B))'
  <2>1. CASE u = t
    BY <2>1
  <2>2. CASE u # t
    <3>1. bucket_of(u) \in Buckets
      BY PlaceFacts DEF MemInv
    <3>2. InTx(u) => rset[u] \cap Cells \subseteq B[bucket_of(u)]
      BY DEF Walks, TxWalk
    <3> QED
      BY <2>2, <3>1, <3>2, WalkOfOther
  <2> QED
    BY <2>1, <2>2
<1>4. Walks(B)'
  BY <1>3 DEF Walks
<1>5. Contents' = Contents
  <2>1. \A h \in Buckets : \A c \in B[h] : mem'[c] = mem[c]
    BY DEF Words
  <2> QED
    BY <1>2, <2>1, ContentsAre
<1> QED
  BY <1>1, <1>2, <1>4, <1>5 DEF HeapInv

-----------------------------------------------------------------------------
(* The heap: steps that change no list *)

LEMMA VictimFacts ==
    ASSUME NEW t \in Threads
    PROVE  /\ op[t] = "remove" /\ result[t] => Victim(t) = item[t]
           /\ op[t] = "insert" /\ ~result[t] => Victim(t) = insert_item[t]
           /\ op[t] = "remove" /\ ~result[t] => Victim(t) = NULL
           /\ op[t] = "insert" /\ result[t] => Victim(t) = NULL
           /\ op[t] = "contains" => Victim(t) = NULL
BY DEF Victim

\* Outside a section, with nothing in its hands.
LEMMA CallHeap ==
    ASSUME MemInv, OwnInv, HeapInv, NEW t \in Threads, OwnStep(t),
           Call(t) \/ Return(t)
    PROVE  OwnInv' /\ HeapInv' /\ Contents' = Contents
<1>k. TypeOK /\ ControlInv(t) /\ NULL \notin Cells
  BY Known
<1>1. PICK B \in [Buckets -> SUBSET Cells], R \in [Cells -> Nat] :
        Lists(B, R) /\ Walks(B)
  BY DEF HeapInv
<1>2. /\ UNCHANGED <<mem, tx, rset, wset, wbuf, kind, allocated>>
      /\ pc'[t] \in {"idle", "enter"} \/ (pc'[t] = "new" /\ kind # "global")
      /\ insert_item'[t] = NULL
  BY <1>k DEF Call, Return, At, Goto, txVars, TypeOK, ControlInv
<1>3. Owned(t)' = {}
  BY <1>k, <1>2 DEF Owned, Done
<1>o. Owned(t) = {}
  BY <1>k DEF Call, Return, At, Owned, Done, ControlInv
<1>4. ~InSection(t)' /\ FreshInv(t)'
  BY <1>2, <1>3 DEF InSection, FreshInv
<1>5. ReadsKept(t)
  BY <1>2 DEF ReadsKept
<1>6. ~InTx(t)' /\ ~InLocked(t)'
  BY <1>4 DEF InTx, InLocked
<1>7. \A h \in Buckets : B[h] \subseteq allocated
  BY <1>1 DEF Lists
<1> QED
  BY <1>1, <1>2, <1>3, <1>o, <1>4, <1>5, <1>6, <1>7, Quiet DEF OwnInv

LEMMA DeleteHeap ==
    ASSUME MemInv, OwnInv, HeapInv, NEW t \in Threads, OwnStep(t), Delete(t)
    PROVE  OwnInv' /\ HeapInv' /\ Contents' = Contents
<1>k. /\ TypeOK /\ ControlInv(t) /\ NULL \notin Cells /\ pc[t] = "delete"
      /\ op[t] \in {"insert", "remove", "contains"} /\ result[t] \in BOOLEAN
      /\ item[t] \in Cells \cup {NULL} /\ insert_item[t] \in Cells \cup {NULL}
  BY Known DEF Delete, At
<1>1. PICK B \in [Buckets -> SUBSET Cells], R \in [Cells -> Nat] :
        Lists(B, R) /\ Walks(B)
  BY DEF HeapInv
<1>2. /\ UNCHANGED <<mem, tx, rset, wset, wbuf, kind>>
      /\ pc'[t] = "return" /\ allocated' = allocated \ {Victim(t)}
  BY <1>k DEF Delete, Goto, txVars, TypeOK
<1>v. Victim(t) \in Owned(t) \cup {NULL} /\ Owned(t) \subseteq {Victim(t)}
  BY <1>k, VictimFacts DEF Owned, Done, ControlInv
<1>3. Owned(t)' = {}
  BY <1>2 DEF Owned, Done
<1>4. ~InSection(t)' /\ FreshInv(t)'
  BY <1>2, <1>3 DEF InSection, FreshInv
<1>5. ReadsKept(t)
  BY <1>2 DEF ReadsKept
<1>6. ~InTx(t)' /\ ~InLocked(t)'
  BY <1>4 DEF InTx, InLocked
<1>7. \A h \in Buckets : B[h] \subseteq allocated'
  BY <1>k, <1>1, <1>2, <1>v DEF Lists
<1>8. \A u \in Threads \ {t} : Owned(u) \subseteq allocated'
  BY <1>k, <1>2, <1>v DEF OwnInv, Owned
<1> QED
  BY <1>1, <1>2, <1>v, <1>3, <1>4, <1>5, <1>6, <1>7, <1>8, Quiet

LEMMA HardwareHeap ==
    ASSUME MemInv, OwnInv, HeapInv, NEW t \in Threads, OwnStep(t),
           HardwareAbort(t), UNCHANGED <<kind, allocated, exited, pc, locals>>
    PROVE  OwnInv' /\ HeapInv' /\ Contents' = Contents
<1>k. TypeOK /\ TsxTypeOK /\ tx[t] = "active"
  BY Known DEF HardwareAbort, xtest
<1>1. PICK B \in [Buckets -> SUBSET Cells], R \in [Cells -> Nat] :
        Lists(B, R) /\ Walks(B)
  BY DEF HeapInv
<1>2. /\ UNCHANGED <<mem, rset, wset, wbuf, kind, allocated, pc, op, value, item,
                     insert_item, result>>
      /\ tx'[t] = "aborted"
  BY <1>k, SelfAbortEffect DEF HardwareAbort, locals
<1>3. Owned(t)' = Owned(t)
  BY <1>k, <1>2 DEF Owned, Done
<1>4. FreshInv(t)'
  BY <1>k, <1>2, <1>3 DEF FreshInv, OwnInv
<1>5. ReadsKept(t)
  BY <1>2 DEF ReadsKept
<1>6. ~InTx(t)' /\ ~InLocked(t)'
  BY <1>2 DEF InTx, InLocked, xtest
<1>7. \A h \in Buckets : B[h] \subseteq allocated
  BY <1>1 DEF Lists
<1> QED
  BY <1>1, <1>2, <1>3, <1>4, <1>5, <1>6, <1>7, Quiet DEF OwnInv

LEMMA AbortedHeap ==
    ASSUME MemInv, OwnInv, HeapInv, NEW t \in Threads, OwnStep(t), Aborted(t)
    PROVE  OwnInv' /\ HeapInv' /\ Contents' = Contents
<1>k. /\ TypeOK /\ TsxTypeOK /\ ControlInv(t) /\ tx[t] = "aborted"
      /\ NULL \notin Cells /\ insert_item[t] \in Cells \cup {NULL}
      /\ InSection(t)
  BY Known DEF Aborted, Rollback, ControlInv
<1>1. PICK B \in [Buckets -> SUBSET Cells], R \in [Cells -> Nat] :
        Lists(B, R) /\ Walks(B)
  BY DEF HeapInv
<1>2. /\ mem' = mem /\ kind' = kind /\ pc'[t] = "enter" /\ op' = op
      /\ value' = value
      /\ allocated' = IF kind = "global" THEN allocated \ {insert_item[t]}
                      ELSE allocated
      /\ insert_item'[t] = IF kind = "global" THEN NULL ELSE insert_item[t]
  BY <1>k DEF Aborted, Rollback, Goto, TypeOK
<1>o. insert_item[t] \in Owned(t) \cup {NULL} /\ Owned(t) \subseteq {insert_item[t]}
  BY <1>k DEF Owned, Done, InSection
<1>3. Owned(t)' = Cells \cap {insert_item'[t]}
  BY <1>2 DEF Owned, Done
<1>4. FreshInv(t)'
  <2>1. CASE kind = "global"
    BY <1>k, <1>2, <1>3, <2>1 DEF FreshInv
  <2>2. CASE kind # "global"
    BY <1>k, <1>2, <1>3, <1>o, <2>2 DEF FreshInv, OwnInv
  <2> QED
    BY <2>1, <2>2
<1>5. ReadsKept(t)
  BY <1>2 DEF ReadsKept
<1>6. ~InTx(t)' /\ ~InLocked(t)'
  BY <1>2 DEF InTx, InLocked, InSection
<1>7. \A h \in Buckets : B[h] \subseteq allocated'
  BY <1>k, <1>1, <1>2, <1>o DEF Lists
<1>8. \A u \in Threads \ {t} : Owned(u) \subseteq allocated'
  BY <1>k, <1>2, <1>o DEF OwnInv, Owned
<1>9. /\ Owned(t)' \subseteq allocated'
      /\ \A c \in Owned(t)' : c \in Owned(t) \/ c \notin allocated
      /\ \A c \in allocated' :
           c \in Owned(t)' \/ (c \in allocated /\ c \notin Owned(t))
  <2>1. Owned(t) \subseteq Cells
    BY DEF Owned
  <2> QED
    BY <1>k, <1>2, <1>3, <1>o, <2>1 DEF OwnInv
<1> QED
  BY <1>1, <1>2, <1>4, <1>5, <1>6, <1>7, <1>8, <1>9, Quiet

LEMMA EnterHeap ==
    ASSUME MemInv, ExclInv, OwnInv, HeapInv, NEW t \in Threads, OwnStep(t),
           lock(t) \/ elide(t) \/ xbegin(t)
    PROVE  OwnInv' /\ HeapInv' /\ Contents' = Contents
<1>k. /\ TypeOK /\ TsxTypeOK /\ ControlInv(t)
      /\ NULL \notin Cells /\ insert_item[t] \in Cells \cup {NULL}
      /\ locker_of(t) \in Loc /\ locker_of(t) \notin ListWords
  BY Known, PlaceFacts
<1>1. PICK B \in [Buckets -> SUBSET Cells], R \in [Cells -> Nat] :
        Lists(B, R) /\ Walks(B)
  BY DEF HeapInv
<1>2. /\ pc[t] = "enter" /\ pc'[t] = "first" /\ tx[t] = "none" /\ wset[t] = {}
      /\ UNCHANGED <<kind, allocated, op, value, item, insert_item, result>>
  BY <1>k DEF lock, elide, xbegin, At, Goto, locals, TypeOK, ControlInv,
              InSection, ExclInv
<1>3. /\ ReadsKept(t) /\ \A w \in ListWords : mem'[w] = mem[w]
      /\ tx'[t] = "active" => rset'[t] \cap Cells = {} /\ wset'[t] = {}
      /\ tx'[t] # "none" => kind # "global" \/ insert_item[t] = NULL
  <2>1. CASE lock(t)
    <3>1. Store(t, locker_of(t), 1)
      BY <2>1 DEF lock
    <3>2. tx'[t] = "none" /\ ReadsKept(t)
      BY <1>k, <1>2, <3>1, AccessKeepsOthers, StoreKeepsReads
    <3> QED
      BY <1>k, <3>1, <3>2, WordFacts, StoreEffect
  <2>2. CASE elide(t) \/ xbegin(t)
    <3>1. PICK reads : Begin(t, reads) /\ reads \in SUBSET Loc
                       /\ reads \subseteq {locker_of(t)}
      <4>1. {locker_of(t)} \in SUBSET Loc /\ {} \in SUBSET Loc
        BY <1>k
      <4> QED
        BY <2>2, <4>1 DEF elide, xbegin
    <3>2. mem' = mem /\ wset' = wset /\ rset'[t] = reads
      BY <1>k, <3>1, BeginEffect
    <3>3. reads \cap Cells = {}
      BY <1>k, <3>1, WordFacts
    <3>4. kind # "global" \/ insert_item[t] = NULL
      BY <1>k, <1>2 DEF ControlInv
    <3> QED
      BY <1>2, <3>2, <3>3, <3>4 DEF ReadsKept
  <2> QED
    BY <2>1, <2>2
<1>w. /\ \A h \in Buckets : Words(B, h) \subseteq ListWords
      /\ \A h \in Buckets : B[h] \subseteq allocated
  BY <1>1, WordFacts DEF Words, Lists
<1>4. Owned(t)' = Owned(t)
  BY <1>2 DEF Owned, Done
<1>5. FreshInv(t)'
  <2>1. ASSUME insert_item[t] \in Owned(t)
        PROVE  /\ Successor(mem'[insert_item[t]]) = NULL
               /\ Data(mem'[insert_item[t]]) = value[t]
    <3>1. insert_item[t] \in ListWords
      BY <2>1, WordFacts DEF Owned
    <3> QED
      BY <1>2, <1>3, <2>1, <3>1 DEF OwnInv, FreshInv
  <2> QED
    BY <1>2, <1>4, <2>1 DEF FreshInv
<1>6. (InTx(t) => TxWalk(t, B))'
  BY <1>2, <1>3 DEF TxWalk, InTx, xtest, Inserting, Removing
<1>7. (InLocked(t) => LockedWalk(t, B))' /\ Search(t, B)'
  BY <1>2 DEF LockedWalk, Search, Searched
<1>8. \A u \in Threads : \A c \in Owned(u) : mem'[c] = mem[c]
  BY <1>3, WordFacts DEF Owned
<1> QED
  BY <1>1, <1>2, <1>3, <1>w, <1>4, <1>5, <1>6, <1>7, <1>8, Quiet DEF OwnInv

\* The word before the item of a live transaction is in its list, and so is
\* the item.
LEMMA TxPlace ==
    ASSUME MemInv, NEW B \in [Buckets -> SUBSET Cells], NEW R, Lists(B, R),
           Walks(B), NEW t \in Threads,
           (InTx(t) /\ prev_word(t) \in rset[t]) \/ InLocked(t),
           \/ pc[t] \in {"look", "unlink", "link", "new"}
           \/ InTx(t) /\ (Inserting(t) \/ Removing(t))
    PROVE  /\ prev_word(t) \in Words(B, bucket_of(t))
           /\ Ptr(prev_word(t), mem[prev_word(t)]) = item[t] /\ item[t] # NULL
                => item[t] \in B[bucket_of(t)]
<1>h. bucket_of(t) \in Buckets
  BY PlaceFacts DEF MemInv
<1>1. prev_word(t) \in Words(B, bucket_of(t))
  <2>1. CASE InLocked(t)
    BY <2>1 DEF Walks, LockedWalk, InLocked, InTx, xtest
  <2>2. CASE InTx(t) /\ prev_item[t] = NULL
    BY <2>2 DEF prev_word, Words
  <2>3. CASE InTx(t) /\ prev_item[t] # NULL
    <3>1. prev_word(t) = prev_item[t] /\ prev_item[t] \in Cells
      BY <2>3, Known DEF prev_word
    <3>2. prev_word(t) \in rset[t]
      BY <2>3 DEF InTx, InLocked, xtest
    <3> QED
      BY <2>3, <3>1, <3>2 DEF Walks, TxWalk, Words
  <2> QED
    BY <2>1, <2>2, <2>3
<1> QED
  BY <1>h, <1>1 DEF Lists

\* A search stays where it is while t does something else.
LEMMA SearchKept ==
    ASSUME NEW B, NEW t \in Threads, Search(t, B), Searched(t),
           value'[t] = value[t], prev_item'[t] = prev_item[t],
           item'[t] = item[t], rset[t] \subseteq rset'[t],
           xtest(t)' => xtest(t), Found(t)' => Found(t),
           \A w \in Words(B, bucket_of(t)) : mem'[w] = mem[w]
    PROVE  Search(t, B)'
<1> DEFINE h == bucket_of(t)
           p == prev_word(t)
<1>1. h' = h /\ p' = p
  BY DEF bucket_of, prev_word
<1>2. PICK V \in SUBSET Cells : Passed(t, B, V)
  BY DEF Search
<1>3. V \cup {first(h)} \subseteq Words(B, h) /\ p \in V \cup {first(h)}
  BY <1>2 DEF Passed, Words
<1>4. Passed(t, B, V)'
  BY <1>1, <1>2, <1>3 DEF Passed
<1>5. Found(t) => item[t] \in Words(B, h)
  BY DEF Search, Words
<1> QED
  BY <1>1, <1>3, <1>4, <1>5 DEF Search

LEMMA FirstHeap ==
    ASSUME MemInv, OwnInv, HeapInv, NEW t \in Threads, OwnStep(t), First(t)
    PROVE  OwnInv' /\ HeapInv' /\ Contents' = Contents
<1> DEFINE f == first(bucket_of(t))
           i == Sees(t, f)
<1>k. /\ TypeOK /\ TsxTypeOK /\ ControlInv(t) /\ pc[t] = "first"
      /\ bucket_of(t) \in Buckets
      /\ f \in Loc /\ ~(f > 0) /\ f \notin Cells
      /\ prev_item[t] = NULL
  BY Known, PlaceFacts, WordFacts DEF First, At, ControlInv
<1>1. PICK B \in [Buckets -> SUBSET Cells], R \in [Cells -> Nat] :
        Lists(B, R) /\ Walks(B)
  BY DEF HeapInv
<1>2. /\ Load(t, f) /\ item'[t] = i /\ pc'[t] = Continue(t, i)
      /\ UNCHANGED <<kind, allocated, op, value, prev_item, insert_item, result>>
  BY <1>k DEF First, Goto, bucket_of, TypeOK
<1>3. /\ mem' = mem /\ wset' = wset /\ wbuf' = wbuf /\ tx'[t] = tx[t]
      /\ xtest(t) => rset'[t] = rset[t] \cup {f}
  BY <1>k, <1>2, LoadEffect DEF OnlyAborts, Load, TsxTypeOK
<1>s. xtest(t) => wset[t] = {} /\ i = mem[f]
  BY <1>1, <1>k DEF Walks, TxWalk, InTx, InSection, Inserting, Removing, Sees
<1>m. i = mem[f]
  BY <1>s DEF Sees
<1>p. /\ prev_word(t) = f /\ prev_word(t)' = f /\ bucket_of(t)' = bucket_of(t)
      /\ f \in Words(B, bucket_of(t))
  BY <1>k, <1>2 DEF prev_word, bucket_of, Words
<1> HIDE DEF f, i
<1>c. /\ pc'[t] \in {"look", "leave", "new", "link"}
      /\ pc'[t] = "link" => kind # "global"
      /\ ~result'[t]
  BY <1>k, <1>2 DEF Continue, ControlInv
<1>4. Owned(t)' = Owned(t)
  BY <1>k, <1>2, <1>3, <1>c DEF Owned, Done, ControlInv
<1>5. FreshInv(t)'
  BY <1>2, <1>3, <1>4 DEF FreshInv, OwnInv
<1>6. (InTx(t) => TxWalk(t, B))'
  <2> SUFFICES ASSUME InTx(t)' PROVE TxWalk(t, B)'
    OBVIOUS
  <2>1. xtest(t) /\ TxWalk(t, B) /\ rset'[t] = rset[t] \cup {f}
    BY <1>1, <1>3, <1>k DEF Walks, InTx, InSection, xtest
  <2>2. Ptr(f, mem[f]) = i
    BY <1>m, <1>k DEF Ptr
  <2>3. \A c \in rset'[t] \cap Cells :
           /\ c \in B[bucket_of(t)]
           /\ \E w \in rset'[t] \cap Words(B, bucket_of(t)) : Ptr(w, mem[w]) = c
    BY <1>k, <2>1 DEF TxWalk
  <2>4. (\A c \in rset[t] \cap Cells :
           /\ c \in B[bucket_of(t)]
           /\ \E w \in rset[t] \cap Words(B, bucket_of(t)) : Ptr(w, mem[w]) = c)'
    BY <1>3, <1>p, <2>3 DEF Words
  <2>5. ~Inserting(t)' /\ ~Removing(t)' /\ (pc'[t] = "link" => Fresh(t)' = {})
    BY <1>2, <1>c DEF Inserting, Removing, Fresh
  <2> QED
    BY <1>2, <1>3, <1>s, <1>p, <1>c, <2>1, <2>2, <2>4, <2>5 DEF TxWalk
<1>7. (InLocked(t) => LockedWalk(t, B))'
  <2>1. Ptr(f, mem[f]) = i
    BY <1>m, <1>k DEF Ptr
  <2> QED
    BY <1>2, <1>3, <1>p, <2>1 DEF LockedWalk, Words
<1>e. (InTx(t) \/ InLocked(t) => Search(t, B))'
  <2> SUFFICES ASSUME InTx(t)' \/ InLocked(t)' PROVE Search(t, B)'
    OBVIOUS
  <2>1. Ptr(f, mem[f]) = i /\ f = first(bucket_of(t))
    BY <1>m, <1>k DEF Ptr, f
  <2>2. ~Found(t)'
    BY <1>k, <1>2 DEF Found, Continue
  <2>3. xtest(t)' => f \in rset'[t]
    BY <1>3 DEF xtest
  <2>4. Passed(t, B, {})'
    BY <1>2, <1>3, <1>p, <2>1, <2>3 DEF Passed
  <2>5. {} \in SUBSET Cells
    OBVIOUS
  <2> QED
    BY <1>2, <1>3, <1>p, <2>1, <2>2, <2>4, <2>5 DEF Search
<1>8. \A h \in Buckets : B[h] \subseteq allocated
  BY <1>1 DEF Lists
<1>9. ReadsKept(t)
  BY <1>3 DEF ReadsKept
<1> QED
  BY <1>1, <1>2, <1>3, <1>4, <1>5, <1>6, <1>7, <1>e, <1>8, <1>9, Quiet DEF OwnInv

LEMMA LookHeap ==
    ASSUME MemInv, OwnInv, HeapInv, NEW t \in Threads, OwnStep(t), Look(t)
    PROVE  OwnInv' /\ HeapInv' /\ Contents' = Contents
<1> DEFINE i == item[t]
           p == prev_word(t)
           h == bucket_of(t)
           found == Data(Sees(t, i)) = value[t]
           next == Successor(Sees(t, i))
<1>k. /\ TypeOK /\ TsxTypeOK /\ ControlInv(t) /\ pc[t] = "look"
      /\ i \in Cells /\ i \in Loc /\ i > 0 /\ i # NULL /\ h \in Buckets
      /\ tx[t] # "aborted" /\ tx[t] \in {"none", "active", "aborted"}
  BY Known, PlaceFacts, WordFacts DEF Look, At, ControlInv
<1>1. PICK B \in [Buckets -> SUBSET Cells], R \in [Cells -> Nat] :
        Lists(B, R) /\ Walks(B)
  BY DEF HeapInv
<1>2. /\ Load(t, i) 
      /\ prev_item'[t] = IF found THEN prev_item[t] ELSE i
      /\ item'[t] = IF found THEN i ELSE next
      /\ result'[t] = (found /\ op[t] = "contains")
      /\ pc'[t] = IF ~found THEN Continue(t, next)
                  ELSE IF op[t] = "remove" THEN "unlink" ELSE "leave"
      /\ UNCHANGED <<kind, allocated, op, value, insert_item>>
  BY <1>k DEF Look, Goto, TypeOK
<1>3. /\ mem' = mem /\ wset' = wset /\ wbuf' = wbuf /\ tx'[t] = tx[t]
      /\ xtest(t) => rset'[t] = rset[t] \cup {i}
  BY <1>k, <1>2, LoadEffect DEF OnlyAborts, Load, TsxTypeOK
<1>t. InTx(t) \/ InLocked(t)
  BY <1>k DEF InTx, InLocked, InSection, xtest
<1>s. /\ InTx(t) => p \in rset[t] /\ wset[t] = {}
      /\ Ptr(p, mem[p]) = i
  BY <1>1, <1>k, <1>t DEF Walks, TxWalk, LockedWalk, Inserting, Removing
<1>g. Sees(t, i) = mem[i]
  BY <1>k, <1>s DEF Sees, InTx, InSection
<1>m. next = Ptr(i, mem[i])
  BY <1>k, <1>g DEF Ptr
<1>b. p \in Words(B, h) /\ i \in B[h]
  BY <1>1, <1>k, <1>t, <1>s, TxPlace
<1>p. /\ h' = h
      /\ prev_word(t)' = IF found THEN p ELSE i
  BY <1>k, <1>2 DEF prev_word, bucket_of
<1>d. found <=> Data(mem[i]) = value[t]
  BY <1>g
<1> HIDE DEF i, p, h, found, next
<1>c. /\ pc'[t] \in {"look", "leave", "new", "link", "unlink"}
      /\ pc'[t] = "link" => kind # "global"
      /\ pc'[t] = "unlink" => found
      /\ pc'[t] = "look" => ~found
      /\ result'[t] => op[t] = "contains"
  BY <1>k, <1>2 DEF Continue
<1>4. Owned(t)' = Owned(t)
  <2>1. ~Done(t) /\ pc'[t] # "return" /\ pc[t] # "return"
    BY <1>k, <1>c DEF Done
  <2>2. Done(t)' => op[t] = "contains" /\ insert_item[t] \notin Cells
    BY <1>k, <1>c, Known DEF Done, ControlInv
  <2> QED
    BY <1>2, <2>1, <2>2 DEF Owned
<1>5. FreshInv(t)'
  BY <1>2, <1>3, <1>4 DEF FreshInv, OwnInv
<1>i. B[h] \subseteq Words(B, h)
  BY DEF Words
<1>6. (InTx(t) => TxWalk(t, B))'
  <2> SUFFICES ASSUME InTx(t)' PROVE TxWalk(t, B)'
    OBVIOUS
  <2>1. InTx(t) /\ TxWalk(t, B) /\ rset'[t] = rset[t] \cup {i}
    BY <1>1, <1>3, <1>k DEF Walks, InTx, InSection, xtest
  <2>3. \A c \in rset'[t] \cap Cells :
           /\ c \in B[h]
           /\ \E w \in rset'[t] \cap Words(B, h) : Ptr(w, mem[w]) = c
    BY <1>s, <1>b, <2>1 DEF TxWalk, h
  <2>4. (\A c \in rset[t] \cap Cells :
           /\ c \in B[h]
           /\ \E w \in rset[t] \cap Words(B, h) : Ptr(w, mem[w]) = c)'
    BY <1>3, <1>p, <2>3 DEF Words
  <2>5. ~Inserting(t)' /\ ~Removing(t)' /\ (pc'[t] = "link" => Fresh(t)' = {})
    BY <1>2, <1>c DEF Inserting, Removing, Fresh
  <2>6. prev_word(t)' \in rset'[t]
    BY <1>s, <1>p, <2>1
  <2>7. /\ pc'[t] \in {"look", "unlink"}
             => Ptr(prev_word(t)', mem'[prev_word(t)']) = item'[t]
        /\ pc'[t] = "unlink" => item'[t] \in rset'[t]
        /\ wset'[t] = {}
    BY <1>2, <1>3, <1>s, <1>m, <1>p, <1>c, <2>1
  <2> QED
    BY <1>2, <1>c, <2>4, <2>5, <2>6, <2>7 DEF TxWalk, h
<1>7. (InLocked(t) => LockedWalk(t, B))'
  <2>1. prev_word(t)' \in Words(B, h)
    BY <1>p, <1>b, <1>i
  <2>2. pc'[t] \in {"look", "unlink"}
          => Ptr(prev_word(t)', mem'[prev_word(t)']) = item'[t]
    BY <1>2, <1>3, <1>s, <1>m, <1>p, <1>c
  <2> QED
    BY <1>p, <2>1, <2>2 DEF LockedWalk, Words, h
<1>e. Search(t, B)'
  <2>1. Searched(t) /\ Search(t, B) /\ value'[t] = value[t]
    BY <1>1, <1>2, <1>k, <1>t DEF Walks, Searched, Done
  <2>2. PICK V \in SUBSET Cells : Passed(t, B, V)
    BY <2>1 DEF Search
  <2> DEFINE W == V \cup {first(h)}
  <2>3. /\ V \subseteq B[h] /\ p \in W
        /\ \A c \in V : Data(mem[c]) # value[t]
        /\ \A w \in W : Ptr(w, mem[w]) \in V \cup {i}
        /\ xtest(t) => W \subseteq rset[t]
    BY <2>2 DEF Passed, h, p, i
  <2>4. /\ first(h)' = first(h)
        /\ xtest(t)' => xtest(t) /\ rset[t] \cup {i} \subseteq rset'[t]
    BY <1>3, <1>p DEF xtest, first
  <2>5. found <=> Data(mem[i]) = value[t]
    BY <1>d
  <2>6. CASE found
    <3>1. prev_word(t)' = p /\ item'[t] = i /\ Passed(t, B, V)'
      BY <1>2, <1>3, <1>p, <2>1, <2>3, <2>4, <2>6 DEF Passed, h
    <3> QED
      BY <1>3, <1>s, <1>b, <1>p, <2>1, <2>4, <2>5, <2>6, <3>1 DEF Search, h
  <2>7. CASE ~found
    <3>1. /\ prev_word(t)' = i /\ item'[t] = next /\ next = Ptr(i, mem[i])
          /\ pc'[t] = Continue(t, next)
      BY <1>2, <1>m, <1>p, <2>7
    <3>2. PICK V2 \in SUBSET Cells : V2 = V \cup {i}
      BY <1>k
    <3>3. Passed(t, B, V2)'
      <4>1. /\ \A c \in V2 : Data(mem[c]) # value[t]
            /\ \A w \in V2 \cup {first(h)} : Ptr(w, mem[w]) \in V2 \cup {next}
            /\ i \in V2
        BY <2>3, <2>5, <2>7, <3>1, <3>2
      <4>2. xtest(t)' => V2 \cup {first(h)} \subseteq rset'[t]
        BY <2>3, <2>4, <3>2
      <4>3. V2 \subseteq B[h]
        BY <1>b, <2>3, <3>2
      <4> QED
        BY <1>3, <1>p, <2>1, <3>1, <4>1, <4>2, <4>3 DEF Passed, h
    <3>4. ~Found(t)'
      BY <3>1 DEF Found, Continue
    <3> QED
      BY <1>3, <3>1, <3>2, <3>3, <3>4 DEF Search
  <2> QED
    BY <2>6, <2>7
<1>8. \A k \in Buckets : B[k] \subseteq allocated
  BY <1>1 DEF Lists
<1>9. ReadsKept(t)
  BY <1>3 DEF ReadsKept
<1> QED
  BY <1>1, <1>2, <1>3, <1>4, <1>5, <1>6, <1>7, <1>e, <1>8, <1>9, Quiet DEF OwnInv

LEMMA NewHeap ==
    ASSUME MemInv, OwnInv, HeapInv, NEW t \in Threads, OwnStep(t), New(t)
    PROVE  OwnInv' /\ HeapInv' /\ Contents' = Contents
<1>k. /\ TypeOK /\ TsxTypeOK /\ ControlInv(t) /\ pc[t] = "new"
      /\ tx[t] # "aborted" /\ tx[t] \in {"none", "active", "aborted"}
      /\ insert_item[t] = NULL /\ ~result[t] /\ NULL \notin Cells
      /\ kind # "global" => tx[t] = "none"
  BY Known DEF New, At, ControlInv, InSection
<1>1. PICK B \in [Buckets -> SUBSET Cells], R \in [Cells -> Nat] :
        Lists(B, R) /\ Walks(B)
  BY DEF HeapInv
<1> DEFINE v == LinkedListItem(value[t], NULL)
<1>2. PICK c \in Cells \ allocated :
        /\ Store(t, c, v) /\ allocated' = allocated \cup {c}
        /\ insert_item' = [insert_item EXCEPT ![t] = c]
  BY DEF New
<1>n. insert_item'[t] = c
  BY <1>k, <1>2 DEF TypeOK
<1>v. /\ c \in Loc /\ c # NULL /\ c > 0 /\ v \in Int /\ Successor(v) = NULL
      /\ Data(v) = value[t]
  <2>1. NULL \in 0 .. NCells /\ value[t] \in Values
    BY <1>k, HashMapAssumption DEF NULL, TypeOK
  <2> QED
    BY <2>1, LineFacts, WordFacts
<1> HIDE DEF v
<1>3. /\ pc'[t] = IF kind = "global" THEN "link" ELSE "enter"
      /\ UNCHANGED <<kind, op, value, prev_item, item, result>>
  BY <1>k DEF New, Goto, TypeOK
<1>4. /\ tx'[t] = tx[t] /\ rset' = rset /\ ReadsKept(t)
      /\ \A w \in Loc \ {c} : mem'[w] = mem[w]
      /\ ~xtest(t) => mem'[c] = v
      /\ xtest(t) => /\ wset'[t] = wset[t] \cup {c} /\ wbuf'[t][c] = v
                     /\ mem' = mem
  BY <1>k, <1>2, <1>v, StoreEffect, StoreKeepsReads, AccessKeepsOthers,
     BufferedStore
<1>5. Owned(t)' = {c} /\ Owned(t) = {}
  BY <1>k, <1>2, <1>n, <1>3, <1>4 DEF Owned, Done
<1>6. FreshInv(t)'
  BY <1>k, <1>n, <1>3, <1>v, <1>4 DEF FreshInv, xtest
<1>w. \A h \in Buckets : /\ B[h] \subseteq allocated
                         /\ Words(B, h) \subseteq Loc \ {c}
  BY <1>1, <1>2, WordFacts DEF Words, Lists
<1>7. (InTx(t) => TxWalk(t, B))'
  <2> SUFFICES ASSUME InTx(t)' PROVE TxWalk(t, B)'
    OBVIOUS
  <2>1. kind = "global" /\ xtest(t) /\ InTx(t) /\ pc'[t] = "link"
    BY <1>k, <1>3, <1>4 DEF InTx, InSection, xtest
  <2>2. TxWalk(t, B) /\ wset[t] = {} /\ prev_word(t) \in rset[t]
    BY <1>1, <1>k, <2>1 DEF Walks, TxWalk, Inserting, Removing
  <2>3. /\ bucket_of(t)' = bucket_of(t) /\ prev_word(t)' = prev_word(t)
        /\ Fresh(t)' = {c} /\ wset'[t] = {c}
    BY <1>n, <1>3, <1>4, <2>1, <2>2 DEF bucket_of, prev_word, Fresh
  <2>4. (\A d \in rset[t] \cap Cells :
           /\ d \in B[bucket_of(t)]
           /\ \E w \in rset[t] \cap Words(B, bucket_of(t)) : Ptr(w, mem[w]) = d)'
    BY <1>4, <2>1, <2>2, <2>3 DEF TxWalk, Words
  <2>5. Ptr(c, wbuf'[t][c]) = NULL /\ Data(wbuf'[t][c]) = value'[t]
    BY <1>v, <1>3, <1>4, <2>1 DEF Ptr
  <2>6. ~Inserting(t)' /\ ~Removing(t)'
    BY <2>1 DEF Inserting, Removing
  <2> QED
    BY <1>n, <1>4, <2>1, <2>2, <2>3, <2>4, <2>5, <2>6 DEF TxWalk
<1>8. (InLocked(t) => LockedWalk(t, B))'
  <2> SUFFICES ASSUME InLocked(t)' PROVE LockedWalk(t, B)'
    OBVIOUS
  <2>1. InLocked(t) /\ pc'[t] = "link"
    BY <1>k, <1>3, <1>4 DEF InLocked, InSection
  <2>2. /\ bucket_of(t)' = bucket_of(t) /\ prev_word(t)' = prev_word(t)
    BY <1>3 DEF bucket_of, prev_word
  <2> QED
    BY <1>1, <1>k, <2>1, <2>2 DEF Walks, LockedWalk, Words
<1>9. \A u \in Threads : /\ Owned(u) \subseteq allocated
                         /\ \A d \in Owned(u) : mem'[d] = mem[d]
  BY <1>2, <1>4, WordFacts DEF OwnInv, Owned
<1>e. (InTx(t) \/ InLocked(t) => Search(t, B))'
  <2> SUFFICES ASSUME InTx(t)' \/ InLocked(t)' PROVE Search(t, B)'
    OBVIOUS
  <2>1. (InTx(t) \/ InLocked(t)) /\ pc'[t] = "link"
    BY <1>k, <1>3, <1>4 DEF InTx, InLocked, InSection, xtest
  <2>2. /\ Search(t, B) /\ Searched(t) /\ bucket_of(t) \in Buckets
        /\ Words(B, bucket_of(t)) \subseteq Loc \ {c}
    BY <1>1, <1>k, <1>w, <2>1, PlaceFacts DEF Walks, Searched, Done
  <2> QED
    BY <1>k, <1>3, <1>4, <2>1, <2>2, SearchKept DEF Found, xtest
<1> QED
  BY <1>1, <1>2, <1>4, <1>5, <1>6, <1>w, <1>7, <1>8, <1>9, <1>e, Quiet

\* Link and Unlink in a transaction go to the write buffer.
LEMMA BufferedHeap ==
    ASSUME MemInv, OwnInv, HeapInv, NEW t \in Threads, OwnStep(t),
           Link(t) \/ Unlink(t), xtest(t)
    PROVE  OwnInv' /\ HeapInv' /\ Contents' = Contents
<1> DEFINE p == prev_word(t)
           h == bucket_of(t)
           q == IF Link(t) THEN insert_item[t] ELSE Successor(Sees(t, item[t]))
<1>k. /\ TypeOK /\ TsxTypeOK /\ WordsInv /\ ControlInv(t) /\ NULL \notin Cells
      /\ pc[t] \in {"link", "unlink"} /\ h \in Buckets
      /\ Link(t) => pc[t] = "link" /\ op[t] = "insert"
                    /\ insert_item[t] \in Cells
      /\ ~Link(t) => pc[t] = "unlink" /\ op[t] = "remove"
                     /\ item[t] \in Cells /\ item[t] > 0
      /\ p \in ListWords /\ p \in Loc /\ InTx(t) /\ ~result[t]
  BY Known, PlaceFacts, WordFacts DEF Link, Unlink, At, ControlInv, InTx,
                                      InSection
<1>1. PICK B \in [Buckets -> SUBSET Cells], R \in [Cells -> Nat] :
        Lists(B, R) /\ Walks(B)
  BY DEF HeapInv
<1>w. TxWalk(t, B)
  BY <1>1, <1>k DEF Walks
<1>2. /\ SetPointer(t, q) /\ result'[t] = TRUE /\ pc'[t] = "leave"
      /\ UNCHANGED <<kind, allocated, op, value, prev_item, item, insert_item>>
  BY <1>k DEF Link, Unlink, Goto, TypeOK
<1>q. q \in 0 .. NCells /\ (~Link(t) => q = Ptr(item[t], mem[item[t]]))
  <2>1. CASE Link(t)
    BY <1>k, <2>1, WordFacts
  <2>2. CASE ~Link(t)
    <3>1. wset[t] = {}
      BY <1>k, <1>w, <2>2 DEF TxWalk, Inserting, Removing
    <3>2. WordOK(item[t], mem[item[t]])
      BY <1>k, <2>2, WordFacts DEF WordsInv
    <3> QED
      BY <1>k, <2>2, <3>1, <3>2 DEF Sees, Ptr, WordOK
  <2> QED
    BY <2>1, <2>2
<1>l. Link(t) => q = insert_item[t]
  OBVIOUS
<1> HIDE DEF p, q, h
<1>3. PICK v \in Nat : /\ Store(t, p, v) /\ Ptr(p, v) = q
                       /\ p \in Cells => Data(v) = Data(Sees(t, p))
  BY <1>k, <1>q, <1>2, PointerStore DEF p
<1>4. /\ tx'[t] = tx[t] /\ rset' = rset /\ mem' = mem
      /\ wset'[t] = wset[t] \cup {p}
      /\ \A w \in Loc : wbuf'[t][w] = IF w = p THEN v ELSE wbuf[t][w]
  <2>1. Store(t, p, v) /\ v \in Int
    BY <1>3
  <2> QED
    BY <1>k, <2>1, BufferedStore
<1>b. wbuf'[t][p] = v
  BY <1>k, <1>4
<1>5. Owned(t)' = Owned(t)
  BY <1>k, <1>2, <1>4 DEF Owned, Done, xtest
<1>6. FreshInv(t)'
  BY <1>2, <1>4, <1>5 DEF FreshInv, OwnInv
<1>p. /\ p \in rset[t]
      /\ p \in Words(B, h)
  <2>1. p \in rset[t]
    BY <1>k, <1>w DEF TxWalk, p
  <2> QED
    BY <1>1, <1>k, <2>1, TxPlace DEF p, h
<1>d. p \in Cells => Data(wbuf'[t][p]) = Data(mem'[p])
  <2>1. p \notin wset[t]
    <3>1. CASE Link(t)
      <4>1. insert_item[t] \in Owned(t)
        BY <1>k, <3>1 DEF Owned, Done
      <4>2. insert_item[t] # p
        BY <1>k, <1>1, <1>p, <3>1, <4>1, WordFacts DEF Lists, Words
      <4> QED
        BY <1>k, <1>w, <3>1, <4>2 DEF TxWalk, Fresh
    <3>2. CASE ~Link(t)
      BY <1>k, <1>w, <3>2 DEF TxWalk, Inserting, Removing
    <3> QED
      BY <3>1, <3>2
  <2>2. Sees(t, p) = mem[p]
    BY <2>1 DEF Sees
  <2> QED
    BY <1>3, <1>4, <1>b, <2>2
<1>7. TxWalk(t, B)'
  <2>1. h' = h /\ p' = p /\ Fresh(t)' = Fresh(t)
    BY <1>2 DEF h, bucket_of, p, prev_word, Fresh
  <2>2. (\A d \in rset[t] \cap Cells :
           /\ d \in B[h]
           /\ \E w \in rset[t] \cap Words(B, h) : Ptr(w, mem[w]) = d)'
    BY <1>4, <1>w, <2>1 DEF TxWalk, Words, h
  <2>3. CASE Link(t)
    <3>1. /\ Inserting(t)' /\ ~Removing(t)' /\ insert_item'[t] = insert_item[t]
          /\ wset[t] = Fresh(t) /\ wset'[t] = {p} \cup Fresh(t)
      BY <1>k, <1>2, <1>4, <1>w, <2>3 DEF Inserting, Removing, TxWalk
    <3>2. Ptr(p, wbuf'[t][p]) = insert_item[t]
      BY <1>l, <1>3, <1>b, <2>3
    <3>3. insert_item[t] # p /\ insert_item[t] \in Loc
      <4>1. insert_item[t] \in Owned(t)
        BY <1>k, <2>3 DEF Owned, Done
      <4> QED
        BY <1>k, <1>1, <1>p, <2>3, <4>1, WordFacts DEF Lists, Words
    <3>4. kind = "global"
            => /\ Ptr(insert_item[t], wbuf'[t][insert_item[t]]) = NULL
               /\ Data(wbuf'[t][insert_item[t]]) = value[t]
      BY <1>k, <1>4, <1>w, <2>3, <3>3 DEF TxWalk
    <3> QED
      BY <1>2, <1>4, <1>p, <1>d, <2>1, <2>2, <3>1, <3>2, <3>4 DEF TxWalk, p, h
  <2>4. CASE ~Link(t)
    <3>1. /\ Removing(t)' /\ ~Inserting(t)' /\ item'[t] = item[t]
          /\ wset'[t] = {p} /\ item[t] \in rset[t]
          /\ Ptr(p, mem[p]) = item[t]
      BY <1>k, <1>2, <1>4, <1>w, <2>4 DEF Inserting, Removing, TxWalk, p
    <3>2. Ptr(p, wbuf'[t][p]) = Ptr(item[t], mem[item[t]])
      BY <1>q, <1>3, <1>b, <2>4
    <3> QED
      BY <1>2, <1>4, <1>p, <1>d, <2>1, <2>2, <3>1, <3>2 DEF TxWalk, p, h
  <2> QED
    BY <2>3, <2>4
<1>8. ~InLocked(t)'
  BY <1>4 DEF InLocked, xtest
<1>9. (\A k \in Buckets : B[k] \subseteq allocated) /\ ReadsKept(t)
  BY <1>1, <1>4 DEF Lists, ReadsKept
<1>e. Search(t, B)'
  <2>1. Search(t, B) /\ Searched(t)
    BY <1>1, <1>k DEF Walks, Searched, Done
  <2>2. Found(t)' => Found(t)
    BY <1>k, <1>2 DEF Found, ControlInv
  <2> QED
    BY <1>2, <1>4, <2>1, <2>2, SearchKept DEF xtest
<1> QED
  BY <1>1, <1>2, <1>4, <1>5, <1>6, <1>7, <1>8, <1>9, <1>e, Quiet DEF OwnInv

\* The end of a section, unless a commit changes a list.
LEMMA LeaveHeap ==
    ASSUME MemInv, ExclInv, OwnInv, HeapInv, NEW t \in Threads, OwnStep(t),
           leave(t), ~(xtest(t) /\ (Inserting(t) \/ Removing(t)))
    PROVE  OwnInv' /\ HeapInv' /\ Contents' = Contents
<1>k. /\ TypeOK /\ TsxTypeOK /\ ControlInv(t) /\ pc[t] = "leave"
      /\ tx[t] \in {"none", "active"} /\ NULL \notin Cells
      /\ op[t] \in {"insert", "remove", "contains"} /\ result[t] \in BOOLEAN
      /\ item[t] \in Cells \cup {NULL} /\ insert_item[t] \in Cells \cup {NULL}
      /\ locker_of(t) \in Loc /\ locker_of(t) \notin ListWords
  BY Known, PlaceFacts DEF leave, At
<1>1. PICK B \in [Buckets -> SUBSET Cells], R \in [Cells -> Nat] :
        Lists(B, R) /\ Walks(B)
  BY DEF HeapInv
<1>2. /\ UNCHANGED <<kind, op, value, item, insert_item, result>>
      /\ \/ pc'[t] = "return" /\ allocated' = allocated \ {Victim(t)}
         \/ pc'[t] = "delete" /\ allocated' = allocated /\ kind # "global"
  BY <1>k DEF leave, Goto, locals, TypeOK
<1>3. ReadsKept(t) /\ \A w \in ListWords : mem'[w] = mem[w]
  <2>1. CASE xtest(t)
    <3>1. Commit(t) /\ wset[t] = {}
      BY <1>1, <1>k, <2>1 DEF leave, Walks, TxWalk, InTx, InSection
    <3>2. \A w \in Loc : mem'[w] = mem[w]
      BY <3>1 DEF Commit
    <3> QED
      BY <1>k, <3>1, <3>2, WordFacts, CommitKeepsReads DEF ExclInv
  <2>2. CASE ~xtest(t)
    <3>1. Store(t, locker_of(t), 0)
      BY <2>2 DEF leave
    <3> QED
      BY <1>k, <3>1, WordFacts, StoreEffect, StoreKeepsReads
  <2> QED
    BY <2>1, <2>2
<1>v. Victim(t) \in Owned(t) \cup {NULL} /\ Owned(t) \subseteq {Victim(t)}
  BY <1>k, VictimFacts DEF Owned, Done, Inserting, Removing, xtest, ControlInv
<1>t. tx'[t] = "none"
  <2>1. CASE xtest(t)
    BY <1>k, <2>1, DiscardEffect DEF leave, Commit
  <2>2. CASE ~xtest(t)
    BY <1>k, <2>2, AccessKeepsOthers DEF leave, xtest
  <2> QED
    BY <2>1, <2>2
<1>4. /\ pc'[t] = "return" => Owned(t)' = {}
      /\ pc'[t] = "delete" => Owned(t)' = Owned(t)
  BY <1>k, <1>2, <1>t DEF Owned, Done, Inserting, Removing, xtest, ControlInv
<1>o. /\ Owned(t)' \subseteq Owned(t) /\ Owned(t)' \subseteq allocated'
      /\ \A c \in allocated' :
           c \in Owned(t)' \/ (c \in allocated /\ c \notin Owned(t))
  BY <1>2, <1>v, <1>4 DEF OwnInv
<1>5. FreshInv(t)'
  <2>1. ASSUME insert_item'[t] \in Owned(t)'
        PROVE  /\ Successor(mem'[insert_item'[t]]) = NULL
               /\ Data(mem'[insert_item'[t]]) = value'[t]
    <3>1. /\ kind # "global" /\ insert_item'[t] = insert_item[t]
          /\ value'[t] = value[t]
      BY <1>2, <1>4, <2>1
    <3>2. insert_item[t] \in Owned(t) /\ insert_item[t] \in ListWords
      BY <1>o, <2>1, <3>1, WordFacts DEF Owned
    <3> QED
      BY <1>3, <3>1, <3>2 DEF OwnInv, FreshInv
  <2> QED
    BY <2>1 DEF FreshInv
<1>6. ~InTx(t)' /\ ~InLocked(t)'
  BY <1>2 DEF InTx, InLocked, InSection
<1>7. \A h \in Buckets : /\ B[h] \subseteq allocated'
                         /\ Words(B, h) \subseteq ListWords
  BY <1>k, <1>1, <1>2, <1>v, WordFacts DEF Lists, Words
<1>8. \A u \in Threads \ {t} : /\ Owned(u) \subseteq allocated'
                               /\ \A c \in Owned(u) : mem'[c] = mem[c]
  BY <1>k, <1>2, <1>3, <1>v, WordFacts DEF OwnInv, Owned
<1> QED
  BY <1>1, <1>3, <1>o, <1>5, <1>6, <1>7, <1>8, Quiet

-----------------------------------------------------------------------------
(* The heap: steps that change a list *)

LEMMA WordsApart ==
    ASSUME NEW B \in [Buckets -> SUBSET Cells], NEW R, Lists(B, R),
           NEW h \in Buckets, NEW k \in Buckets, h # k
    PROVE  Words(B, h) \cap Words(B, k) = {}
BY WordFacts DEF Words, Lists

\* The word p of list h points to a cell i that was in no list.
LEMMA LinkLists ==
    ASSUME NEW B \in [Buckets -> SUBSET Cells], NEW R \in [Cells -> Nat],
           Lists(B, R), NEW h \in Buckets, NEW p \in Words(B, h),
           NEW i \in Cells, i \in allocated',
           \A k \in Buckets : i \notin B[k] /\ B[k] \subseteq allocated',
           Ptr(p, mem'[p]) = i, Ptr(i, mem'[i]) = NULL, Ptr(p, mem[p]) = NULL,
           \A k \in Buckets : \A w \in Words(B, k) : w # p => mem'[w] = mem[w],
           p \in Cells => Data(mem'[p]) = Data(mem[p]),
           hash(Data(mem'[i])) = h,
           \A c \in B[h] : Data(mem[c]) # Data(mem'[i]),
           NEW B2 \in [Buckets -> SUBSET Cells],
           \A k \in Buckets : B2[k] = IF k = h THEN B[h] \cup {i} ELSE B[k],
           \A u \in Threads, k \in Buckets : Owned(u)' \cap B2[k] = {},
           Accounted(B2)'
    PROVE  \E R2 \in [Cells -> Nat] : Lists(B2, R2)'
<1>n. NULL \notin Cells /\ i # NULL /\ first(h) \notin Cells
  BY WordFacts
<1>1. PICK R2 : R2 = [R EXCEPT ![i] = IF p \in Cells THEN R[p] + 1 ELSE 0]
  OBVIOUS
<1>2. R2 \in [Cells -> Nat]
  BY <1>1
<1>3. p # i /\ \A k \in Buckets : k # h => p \notin Words(B, k)
  BY <1>n, WordsApart DEF Words
<1>4. \A k \in Buckets : Words(B2, k) = IF k = h THEN Words(B, h) \cup {i}
                                        ELSE Words(B, k)
  BY DEF Words
<1>5. ASSUME NEW k \in Buckets, NEW w \in Words(B2, k)
      PROVE  Ptr(w, mem'[w]) = IF w = p THEN i ELSE IF w = i THEN NULL
                               ELSE Ptr(w, mem[w])
  BY <1>3, <1>4
<1>6. ASSUME NEW k \in Buckets, NEW w \in Words(B2, k), w # i
      PROVE  Ptr(w, mem[w]) \in B[k] \cup {NULL} /\ w \in Words(B, k)
  BY <1>4, <1>6 DEF Lists
<1>7. ASSUME NEW k \in Buckets
      PROVE  /\ B2[k] \subseteq allocated'
             /\ \A w \in Words(B2, k) : Ptr(w, mem'[w]) \in B2[k] \cup {NULL}
             /\ \A v, w \in Words(B2, k) :
                  Ptr(v, mem'[v]) = Ptr(w, mem'[w]) /\ Ptr(v, mem'[v]) # NULL
                    => v = w
             /\ \A c \in B2[k] : Ptr(c, mem'[c]) # NULL
                                   => R2[c] < R2[Ptr(c, mem'[c])]
             /\ \A j \in Buckets : k # j => B2[k] \cap B2[j] = {}
  <2>1. B2[k] \subseteq allocated'
    OBVIOUS
  <2>2. ASSUME NEW w \in Words(B2, k) PROVE Ptr(w, mem'[w]) \in B2[k] \cup {NULL}
    <3>1. w = p => k = h
      BY <1>3, <1>6
    <3>2. w # i => Ptr(w, mem[w]) \in B[k] \cup {NULL}
      BY <1>6
    <3> QED
      BY <1>5, <3>1, <3>2
  <2>3. ASSUME NEW v \in Words(B2, k), NEW w \in Words(B2, k),
               Ptr(v, mem'[v]) = Ptr(w, mem'[w]), Ptr(v, mem'[v]) # NULL
        PROVE  v = w
    <3>1. v # i /\ w # i
      BY <1>3, <1>5, <2>3
    <3>2. /\ v \in Words(B, k) /\ w \in Words(B, k)
          /\ Ptr(v, mem[v]) # i /\ Ptr(w, mem[w]) # i
      BY <1>n, <1>6, <3>1
    <3>3. \/ v = p /\ w = p
          \/ Ptr(v, mem[v]) = Ptr(w, mem[w]) /\ Ptr(v, mem[v]) # NULL
      BY <1>5, <2>3, <3>1, <3>2
    <3> QED
      BY <3>2, <3>3 DEF Lists
  <2>4. ASSUME NEW c \in B2[k], Ptr(c, mem'[c]) # NULL
        PROVE  R2[c] < R2[Ptr(c, mem'[c])]
    <3>1. c \in Words(B2, k) /\ c \in Cells
      BY DEF Words
    <3>2. CASE c = p
      BY <1>1, <1>3, <1>5, <3>1, <3>2
    <3>3. CASE c # p
      <4>1. c # i /\ Ptr(c, mem'[c]) = Ptr(c, mem[c]) /\ c \in B[k]
        BY <1>5, <2>4, <3>1, <3>3
      <4>2. Ptr(c, mem[c]) \in B[k] /\ R[c] < R[Ptr(c, mem[c])]
        BY <1>6, <2>4, <3>1, <4>1 DEF Lists
      <4>3. Ptr(c, mem[c]) # i /\ Ptr(c, mem[c]) \in Cells
        BY <4>2
      <4> QED
        BY <1>1, <3>1, <4>1, <4>2, <4>3
    <3> QED
      BY <3>2, <3>3
  <2>5. \A j \in Buckets : k # j => B2[k] \cap B2[j] = {}
    BY DEF Lists
  <2> QED
    BY <2>1, <2>2, <2>3, <2>4, <2>5
<1>d. \A k \in Buckets : \A c \in B[k] : Data(mem'[c]) = Data(mem[c])
  BY <1>3 DEF Words
<1>f. Full(B2)'
  <2>1. Full(B)
    BY DEF Lists
  <2>2. ASSUME NEW k \in Buckets, NEW c \in B2[k]
        PROVE  \E w \in Words(B2, k) : Ptr(w, mem'[w]) = c
    <3>1. CASE c = i
      <4>1. k = h /\ p \in Words(B2, k)
        BY <1>4, <3>1
      <4> QED
        BY <3>1, <4>1
    <3>2. CASE c # i
      <4>1. c \in B[k] /\ c # NULL
        BY <1>n, <3>2
      <4>2. PICK w \in Words(B, k) : Ptr(w, mem[w]) = c
        BY <2>1, <4>1 DEF Full
      <4>3. w # p /\ w # i /\ w \in Words(B2, k)
        BY <1>n, <1>4, <4>1, <4>2, WordFacts DEF Words
      <4> QED
        BY <1>5, <4>2, <4>3
    <3> QED
      BY <3>1, <3>2
  <2>3. ASSUME NEW k \in Buckets, NEW c \in B2[k] PROVE hash(Data(mem'[c])) = k
    BY <1>d, <2>1 DEF Full
  <2>4. ASSUME NEW k \in Buckets, NEW c \in B2[k], NEW d \in B2[k],
               Data(mem'[c]) = Data(mem'[d])
        PROVE  c = d
    BY <1>d, <2>1, <2>4 DEF Full
  <2> QED
    BY <2>2, <2>3, <2>4 DEF Full, Words
<1>8. Lists(B2, R2)'
  BY <1>7, <1>f DEF Lists, Words
<1> QED
  BY <1>2, <1>8

\* The word p of list h that pointed to i points to the successor of i.
LEMMA UnlinkLists ==
    ASSUME NEW B \in [Buckets -> SUBSET Cells], NEW R \in [Cells -> Nat],
           Lists(B, R), NEW h \in Buckets, NEW p \in Words(B, h),
           NEW i \in B[h], Ptr(p, mem[p]) = i,
           \A k \in Buckets : B[k] \ {i} \subseteq allocated',
           Ptr(p, mem'[p]) = Ptr(i, mem[i]),
           \A k \in Buckets : \A w \in Words(B, k) : w # p => mem'[w] = mem[w],
           p \in Cells => Data(mem'[p]) = Data(mem[p]),
           NEW B2 \in [Buckets -> SUBSET Cells],
           \A k \in Buckets : B2[k] = IF k = h THEN B[h] \ {i} ELSE B[k],
           \A u \in Threads, k \in Buckets : Owned(u)' \cap B2[k] = {},
           Accounted(B2)'
    PROVE  Lists(B2, R)'
<1>n. NULL \notin Cells /\ i # NULL /\ i \in Cells /\ first(h) \notin Cells
  BY WordFacts
<1>r. \A k \in Buckets : \A c \in B[k] :
        Ptr(c, mem[c]) # NULL
          => Ptr(c, mem[c]) \in B[k] /\ R[c] < R[Ptr(c, mem[c])]
  BY DEF Lists, Words
<1>c. \A c \in Cells : ~(R[c] < R[c]) /\ R[c] \in Int
  OBVIOUS
<1>3. /\ p # i /\ Ptr(i, mem[i]) # i
      /\ \A k \in Buckets : k # h => p \notin Words(B, k)
  <2>1. p # i
    BY <1>n, <1>r, <1>c
  <2>2. Ptr(i, mem[i]) # i
    BY <1>n, <1>r, <1>c
  <2> QED
    BY <2>1, <2>2, WordsApart
<1>i. i \in Words(B, h)
  BY DEF Words
<1>4. ASSUME NEW k \in Buckets, NEW w \in Words(B2, k)
      PROVE  /\ w \in Words(B, k) /\ w # i
             /\ Ptr(w, mem'[w]) = IF w = p THEN Ptr(i, mem[i]) ELSE Ptr(w, mem[w])
             /\ w # p => Ptr(w, mem[w]) # i
  <2>1. w \in Words(B, k)
    BY DEF Words
  <2>2. w # i
    BY <1>n, <1>i, WordsApart, <2>1, WordFacts DEF Words
  <2>3. Ptr(w, mem'[w]) = IF w = p THEN Ptr(i, mem[i]) ELSE Ptr(w, mem[w])
    BY <2>1
  <2>4. w # p => Ptr(w, mem[w]) # i
    <3>1. CASE k = h
      BY <1>n, <2>1, <3>1 DEF Lists
    <3>2. CASE k # h
      BY <1>n, <2>1, <3>2 DEF Lists
    <3> QED
      BY <3>1, <3>2
  <2> QED
    BY <2>1, <2>2, <2>3, <2>4
<1>7. ASSUME NEW k \in Buckets
      PROVE  /\ B2[k] \subseteq allocated'
             /\ \A w \in Words(B2, k) : Ptr(w, mem'[w]) \in B2[k] \cup {NULL}
             /\ \A v, w \in Words(B2, k) :
                  Ptr(v, mem'[v]) = Ptr(w, mem'[w]) /\ Ptr(v, mem'[v]) # NULL
                    => v = w
             /\ \A c \in B2[k] : Ptr(c, mem'[c]) # NULL
                                   => R[c] < R[Ptr(c, mem'[c])]
             /\ \A j \in Buckets : k # j => B2[k] \cap B2[j] = {}
  <2>1. B2[k] \subseteq allocated'
    <3>1. i \notin B2[k]
      BY DEF Lists
    <3> QED
      BY <3>1
  <2>2. ASSUME NEW w \in Words(B2, k) PROVE Ptr(w, mem'[w]) \in B2[k] \cup {NULL}
    <3>1. w = p => k = h
      BY <1>3, <1>4
    <3>2. Ptr(w, mem[w]) \in B[k] \cup {NULL}
      BY <1>4 DEF Lists
    <3>3. Ptr(i, mem[i]) \in B[h] \cup {NULL}
      BY <1>i DEF Lists
    <3> QED
      BY <1>3, <1>4, <3>1, <3>2, <3>3
  <2>3. ASSUME NEW v \in Words(B2, k), NEW w \in Words(B2, k),
               Ptr(v, mem'[v]) = Ptr(w, mem'[w]), Ptr(v, mem'[v]) # NULL
        PROVE  v = w
    <3>1. v \in Words(B, k) /\ w \in Words(B, k) /\ v # i /\ w # i
      BY <1>4
    <3>2. CASE v # p /\ w # p
      BY <1>4, <2>3, <3>1, <3>2 DEF Lists
    <3>3. ASSUME NEW x \in Words(B, k), x # i, p \in Words(B, k),
                 Ptr(x, mem[x]) = Ptr(i, mem[i]), Ptr(x, mem[x]) # NULL
          PROVE  FALSE
      <4>1. k = h
        BY <1>3, <3>3
      <4> QED
        BY <1>i, <3>3, <4>1 DEF Lists
    <3>4. CASE v = p /\ w # p
      BY <1>4, <2>3, <3>1, <3>3, <3>4
    <3>5. CASE v # p /\ w = p
      BY <1>4, <2>3, <3>1, <3>3, <3>5
    <3> QED
      BY <3>2, <3>4, <3>5
  <2>4. ASSUME NEW c \in B2[k], Ptr(c, mem'[c]) # NULL
        PROVE  R[c] < R[Ptr(c, mem'[c])]
    <3>1. c \in Words(B2, k) /\ c \in Cells /\ c \in B[k]
      BY DEF Words
    <3>2. CASE c # p
      BY <1>r, <1>4, <2>4, <3>1, <3>2
    <3>3. CASE c = p
      <4>1. k = h /\ Ptr(c, mem'[c]) = Ptr(i, mem[i]) /\ Ptr(c, mem[c]) = i
        BY <1>3, <1>4, <3>1, <3>3
      <4>2. R[c] < R[i] /\ R[i] < R[Ptr(i, mem[i])] /\ Ptr(i, mem[i]) \in Cells
        BY <1>n, <1>r, <2>4, <3>1, <4>1
      <4> QED
        BY <1>n, <1>c, <3>1, <4>1, <4>2
    <3> QED
      BY <3>2, <3>3
  <2>5. \A j \in Buckets : k # j => B2[k] \cap B2[j] = {}
    BY DEF Lists
  <2> QED
    BY <2>1, <2>2, <2>3, <2>4, <2>5
<1>d. \A k \in Buckets : \A c \in B2[k] : c \in B[k] /\ Data(mem'[c]) = Data(mem[c])
  BY DEF Words
<1>f. Full(B2)'
  <2>1. Full(B)
    BY DEF Lists
  <2>2. ASSUME NEW k \in Buckets, NEW c \in B2[k]
        PROVE  \E w \in Words(B2, k) : Ptr(w, mem'[w]) = c
    <3>1. c \in B[k] /\ c # NULL /\ c # i
      BY <1>n, <1>4 DEF Words
    <3>2. PICK w \in Words(B, k) : Ptr(w, mem[w]) = c
      BY <2>1, <3>1 DEF Full
    <3>3. CASE w = i
      <4>1. k = h
        BY <1>i, <3>2, <3>3, WordsApart
      <4>2. p \in Words(B2, h)
        BY <1>3 DEF Words
      <4> QED
        BY <1>4, <3>2, <3>3, <4>1, <4>2
    <3>4. CASE w # i
      <4>1. w \in Words(B2, k) /\ w # p
        BY <3>1, <3>2, <3>4 DEF Words
      <4> QED
        BY <1>4, <3>2, <4>1
    <3> QED
      BY <3>3, <3>4
  <2> QED
    BY <1>d, <2>1, <2>2 DEF Full, Words
<1> QED
  BY <1>7, <1>f DEF Lists, Words

\* The others, when t changes the word before its place in its list.
LEMMA OthersOfChange ==
    ASSUME MemInv, ExclInv, NEW B \in [Buckets -> SUBSET Cells],
           NEW R \in [Cells -> Nat], Lists(B, R), Walks(B),
           NEW t \in Threads, OwnStep(t), ReadsKept(t),
           InLocked(t) \/ InTx(t),
           NEW p \in Words(B, bucket_of(t)), NEW i,
           \A k \in Buckets : k # bucket_of(t) => i \notin B[k],
           \A w \in ListWords : w # p /\ w # i => mem'[w] = mem[w],
           NEW B2 \in [Buckets -> SUBSET Cells],
           \A k \in Buckets : k # bucket_of(t) => B2[k] = B[k],
           \A u \in Threads \ {t} :
             InTx(u) /\ xtest(u)' => rset[u] \cap Cells \subseteq B2[bucket_of(u)],
           i \in Cells,
           ~InTx(t)', InLocked(t)' => pc'[t] = "leave" /\ ~Searched(t)'
    PROVE  Walks(B2)'
<1>h. \A u \in Threads : bucket_of(u) \in Buckets
  BY PlaceFacts DEF MemInv
<1>1. ASSUME NEW u \in Threads, u # t, InLocked(u)
      PROVE  /\ B2[bucket_of(u)] = B[bucket_of(u)]
             /\ \A w \in Words(B, bucket_of(u)) : mem'[w] = mem[w]
  <2>1. bucket_of(u) # bucket_of(t)
    BY <1>1, Alone
  <2>2. p \notin Words(B, bucket_of(u))
    BY <1>h, <2>1, WordsApart
  <2>3. i \notin Words(B, bucket_of(u))
    BY <1>h, <2>1, WordFacts DEF Words
  <2>4. Words(B, bucket_of(u)) \subseteq ListWords
    BY <1>h, WordFacts DEF Words
  <2> QED
    BY <1>h, <2>1, <2>2, <2>3, <2>4
<1>2. ASSUME NEW u \in Threads
      PROVE  /\ (InTx(u) => TxWalk(u, B2))'
             /\ (InLocked(u) => LockedWalk(u, B2))'
             /\ (InTx(u) \/ InLocked(u) => Search(u, B2))'
  <2>1. CASE u = t
    BY <2>1 DEF LockedWalk, Search
  <2>2. CASE u # t
    BY <1>1, <2>2, WalkOfOther
  <2> QED
    BY <2>1, <2>2
<1> QED
  BY <1>2 DEF Walks

\* A search that has come to the end has passed the whole list.
LEMMA NotThere ==
    ASSUME MemInv, NEW B \in [Buckets -> SUBSET Cells],
           NEW R \in [Cells -> Nat], Lists(B, R), NEW t \in Threads,
           Search(t, B), Searched(t), item[t] = NULL
    PROVE  \A c \in B[bucket_of(t)] : Data(mem[c]) # value[t]
<1> DEFINE h == bucket_of(t)
<1>h. h \in Buckets /\ NULL \notin Cells
  BY PlaceFacts, WordFacts DEF MemInv
<1>1. PICK V \in SUBSET Cells : Passed(t, B, V)
  BY DEF Search
<1> DEFINE Bad == {R[c] : c \in B[h] \ V}
<1>2. /\ \A c \in V : Data(mem[c]) # value[t]
      /\ \A w \in V \cup {first(h)} : Ptr(w, mem[w]) \in V \cup {NULL}
  BY <1>1 DEF Passed
<1> SUFFICES ASSUME Bad # {} PROVE FALSE
  BY <1>2
<1>3. PICK r \in Bad : \A q \in Bad : r <= q
  <2>1. Bad \in SUBSET Nat
    BY <1>h
  <2> HIDE DEF Bad
  <2> QED
    BY <2>1, LeastNumber
<1>4. PICK c \in B[h] \ V : r = R[c]
  OBVIOUS
<1>5. c \in Cells /\ c # NULL
  BY <1>h
<1>6. PICK w \in Words(B, h) : Ptr(w, mem[w]) = c
  BY <1>h DEF Lists, Full
<1>7. w # first(h) /\ w \notin V
  BY <1>2, <1>5, <1>6
<1>8. w \in B[h] \ V /\ R[w] < R[c] /\ R[w] \in Nat /\ R[c] \in Nat
  BY <1>h, <1>5, <1>6, <1>7 DEF Lists, Words
<1> QED
  BY <1>3, <1>4, <1>8

\* An insertion takes effect.
LEMMA InsertHeap ==
    ASSUME MemInv, ExclInv, OwnInv, NEW B \in [Buckets -> SUBSET Cells],
           NEW R \in [Cells -> Nat], Lists(B, R), Walks(B),
           NEW t \in Threads, OwnStep(t), ReadsKept(t),
           InLocked(t) \/ InTx(t),
           NEW p \in Words(B, bucket_of(t)), NEW i \in Owned(t),
           Ptr(p, mem'[p]) = i, Ptr(i, mem'[i]) = NULL, Ptr(p, mem[p]) = NULL,
           \A w \in ListWords : w # p /\ w # i => mem'[w] = mem[w],
           p \in Cells => Data(mem'[p]) = Data(mem[p]),
           Data(mem'[i]) = value[t],
           \A c \in B[bucket_of(t)] : Data(mem[c]) # value[t],
           allocated' = allocated, Owned(t)' = {}, Owned(t) = {i},
           ~InTx(t)', InLocked(t)' => pc'[t] = "leave" /\ ~Searched(t)'
    PROVE  /\ OwnInv' /\ HeapInv'
           /\ value[t] \notin Contents /\ Contents' = Contents \cup {value[t]}
<1> DEFINE h == bucket_of(t)
<1>h. h \in Buckets /\ \A u \in Threads : bucket_of(u) \in Buckets
  BY PlaceFacts DEF MemInv
<1>i. i \in Cells /\ i \in allocated /\ \A k \in Buckets : i \notin B[k]
  BY DEF Owned, OwnInv, Lists
<1>w. /\ \A k \in Buckets : Words(B, k) \subseteq ListWords /\ i \notin Words(B, k)
      /\ \A k \in Buckets : B[k] \subseteq allocated
      /\ \A u \in Threads : Owned(u) \subseteq ListWords
  BY <1>i, WordFacts DEF Words, Lists, Owned
<1>b. PICK B2 : B2 = [B EXCEPT ![h] = B[h] \cup {i}]
  OBVIOUS
<1>2. /\ B2 \in [Buckets -> SUBSET Cells]
      /\ \A k \in Buckets : B2[k] = IF k = h THEN B[h] \cup {i} ELSE B[k]
  BY <1>h, <1>i, <1>b
<1> HIDE DEF h
<1>3. ASSUME NEW u \in Threads, NEW k \in Buckets PROVE Owned(u)' \cap B2[k] = {}
  <2>1. CASE u = t
    BY <2>1
  <2>2. CASE u # t
    BY <1>2, <2>2, OwnedOfOther DEF Lists, OwnInv
  <2> QED
    BY <2>1, <2>2
<1>4. \E R2 \in [Cells -> Nat] : Lists(B2, R2)'
  <2>1. \A k \in Buckets : \A w \in Words(B, k) : w # p => mem'[w] = mem[w]
    BY <1>w
  <2>2. p \in Words(B, h)
    BY DEF h
  <2>3. \A k \in Buckets : i \notin B[k] /\ B[k] \subseteq allocated'
    BY <1>i, <1>w
  <2>4. i \in Cells /\ i \in allocated' /\ h \in Buckets
    BY <1>h, <1>i
  <2>5. Accounted(B2)'
    <3>1. Accounted(B)
      BY DEF Lists
    <3> QED
      BY <1>h, <1>2, <3>1, OwnedOfOther DEF Accounted
  <2>6. hash(Data(mem'[i])) = h /\ \A c \in B[h] : Data(mem[c]) # Data(mem'[i])
    BY DEF h, bucket_of
  <2> QED
    BY <1>2, <1>3, <2>1, <2>2, <2>3, <2>4, <2>5, <2>6, LinkLists
<1>5. Walks(B2)'
  <2>1. ASSUME NEW u \in Threads \ {t}, InTx(u)
        PROVE  rset[u] \cap Cells \subseteq B2[bucket_of(u)]
    BY <1>h, <1>2, <2>1 DEF Walks, TxWalk
  <2> QED
    BY <1>i, <1>2, <2>1, OthersOfChange DEF h
<1>6. OwnInv'
  <2>1. FreshInv(t)'
    BY DEF FreshInv
  <2>2. \A u \in Threads \ {t} :
          /\ Owned(u) \subseteq allocated' /\ Owned(u) \cap Owned(t)' = {}
          /\ \A c \in Owned(u) : mem'[c] = mem[c]
    <3>1. ASSUME NEW u \in Threads \ {t}, NEW c \in Owned(u) PROVE c # p /\ c # i
      BY <1>h, WordFacts DEF OwnInv, Lists, Words, Owned, h
    <3> QED
      BY <1>w, <3>1 DEF OwnInv
  <2> QED
    BY <2>1, <2>2, OwnFrame
<1>7. value[t] \notin Contents /\ Contents' = Contents \cup {value[t]}
  <2>1. PICK R2 \in [Cells -> Nat] : Lists(B2, R2)'
    BY <1>4
  <2>2. /\ \A v : v \in Contents <=>
                   \E k \in Buckets : \E c \in B[k] : Data(mem[c]) = v
        /\ \A v : v \in Contents' <=>
                   \E k \in Buckets : \E c \in B2[k] : Data(mem'[c]) = v
    BY <1>2, <2>1, ContentsAre
  <2>3. \A k \in Buckets : \A c \in B[k] : Data(mem'[c]) = Data(mem[c])
    BY <1>i, <1>w DEF Words
  <2>4. value[t] \notin Contents
    <3>1. Full(B)
      BY DEF Lists
    <3>2. ASSUME NEW k \in Buckets, NEW c \in B[k], Data(mem[c]) = value[t]
          PROVE  FALSE
      BY <3>1, <3>2 DEF Full, bucket_of
    <3> QED
      BY <2>2, <3>2
  <2>5. Contents' = Contents \cup {value[t]}
    BY <1>h, <1>2, <2>2, <2>3
  <2> QED
    BY <2>4, <2>5
<1> QED
  BY <1>2, <1>4, <1>5, <1>6, <1>7 DEF HeapInv

\* A removal takes effect.
LEMMA RemoveHeap ==
    ASSUME MemInv, ExclInv, OwnInv, NEW B \in [Buckets -> SUBSET Cells],
           NEW R \in [Cells -> Nat], Lists(B, R), Walks(B),
           NEW t \in Threads, OwnStep(t), ReadsKept(t),
           InLocked(t) \/ InTx(t),
           NEW p \in Words(B, bucket_of(t)), NEW i \in B[bucket_of(t)],
           Ptr(p, mem[p]) = i, Ptr(p, mem'[p]) = Ptr(i, mem[i]),
           \A u \in Threads \ {t} : xtest(u)' => p \notin rset[u],
           \A w \in ListWords : w # p => mem'[w] = mem[w],
           p \in Cells => Data(mem'[p]) = Data(mem[p]),
           Data(mem[i]) = value[t],
           allocated \ {i} \subseteq allocated', Owned(t)' \subseteq allocated',
           \A c \in allocated' : c \in Owned(t)' \/ (c \in allocated /\ c # i),
           Owned(t)' \subseteq {i}, insert_item'[t] = NULL, Owned(t) = {},
           ~InTx(t)', InLocked(t)' => pc'[t] = "leave" /\ ~Searched(t)'
    PROVE  /\ OwnInv' /\ HeapInv'
           /\ value[t] \in Contents /\ Contents' = Contents \ {value[t]}
<1> DEFINE h == bucket_of(t)
<1>h. h \in Buckets /\ \A u \in Threads : bucket_of(u) \in Buckets
  BY PlaceFacts DEF MemInv
<1>i. /\ i \in Cells /\ i \in allocated /\ NULL \notin Cells
      /\ \A k \in Buckets : k # h => i \notin B[k]
      /\ \A u \in Threads : i \notin Owned(u)
  BY <1>h, WordFacts DEF Lists
<1>w. /\ \A k \in Buckets : Words(B, k) \subseteq ListWords
      /\ \A k \in Buckets : B[k] \subseteq allocated
      /\ \A u \in Threads : Owned(u) \subseteq ListWords
  BY WordFacts DEF Words, Lists, Owned
<1>b. PICK B2 : B2 = [B EXCEPT ![h] = B[h] \ {i}]
  OBVIOUS
<1>2. /\ B2 \in [Buckets -> SUBSET Cells]
      /\ \A k \in Buckets : B2[k] = IF k = h THEN B[h] \ {i} ELSE B[k]
  BY <1>h, <1>b
<1> HIDE DEF h
<1>3. ASSUME NEW u \in Threads, NEW k \in Buckets PROVE Owned(u)' \cap B2[k] = {}
  <2>1. CASE u = t
    BY <1>i, <1>2, <2>1
  <2>2. CASE u # t
    BY <1>2, <2>2, OwnedOfOther DEF Lists
  <2> QED
    BY <2>1, <2>2
<1>4. Lists(B2, R)'
  <2>1. \A k \in Buckets : \A w \in Words(B, k) : w # p => mem'[w] = mem[w]
    BY <1>w
  <2>2. \A k \in Buckets : B[k] \ {i} \subseteq allocated'
    BY <1>w
  <2>3. p \in Words(B, h) /\ i \in B[h] /\ h \in Buckets
    BY <1>h DEF h
  <2>4. Accounted(B2)'
    <3>1. Accounted(B)
      BY DEF Lists
    <3> QED
      BY <1>h, <1>2, <3>1, OwnedOfOther DEF Accounted
  <2> QED
    BY <1>2, <1>3, <2>1, <2>2, <2>3, <2>4, UnlinkLists, SMTT(30)
<1>5. Walks(B2)'
  <2>1. ASSUME NEW u \in Threads \ {t}, InTx(u), xtest(u)'
        PROVE  rset[u] \cap Cells \subseteq B2[bucket_of(u)]
    <3>1. TxWalk(u, B)
      BY <2>1 DEF Walks
    <3>2. rset[u] \cap Cells \subseteq B[bucket_of(u)]
      BY <3>1 DEF TxWalk
    <3>3. ASSUME i \in rset[u], bucket_of(u) = h PROVE FALSE
      <4>1. PICK w \in rset[u] \cap Words(B, h) : Ptr(w, mem[w]) = i
        BY <1>i, <3>1, <3>3 DEF TxWalk
      <4>2. w = p
        BY <1>h, <1>i, <4>1 DEF Lists, h
      <4> QED
        BY <2>1, <4>1, <4>2
    <3> QED
      BY <1>h, <1>2, <3>2, <3>3
  <2> QED
    BY <1>i, <1>2, <2>1, OthersOfChange DEF h
<1>6. OwnInv'
  <2>1. FreshInv(t)'
    BY <1>i DEF FreshInv, Owned
  <2>2. \A u \in Threads \ {t} :
          /\ Owned(u) \subseteq allocated' /\ Owned(u) \cap Owned(t)' = {}
          /\ \A c \in Owned(u) : mem'[c] = mem[c]
    <3>1. ASSUME NEW u \in Threads \ {t}, NEW c \in Owned(u) PROVE c # p /\ c # i
      BY <1>h, <1>i, WordFacts DEF OwnInv, Lists, Words, Owned, h
    <3> QED
      BY <1>w, <3>1 DEF OwnInv
  <2> QED
    BY <2>1, <2>2, OwnFrame
<1>7. value[t] \in Contents /\ Contents' = Contents \ {value[t]}
  <2>2. /\ \A v : v \in Contents <=>
                   \E k \in Buckets : \E c \in B[k] : Data(mem[c]) = v
        /\ \A v : v \in Contents' <=>
                   \E k \in Buckets : \E c \in B2[k] : Data(mem'[c]) = v
    BY <1>2, <1>4, ContentsAre
  <2>3. \A k \in Buckets : \A c \in B[k] : Data(mem'[c]) = Data(mem[c])
    BY <1>w DEF Words
  <2>4. \A k \in Buckets : \A c \in B[k] : Data(mem[c]) = value[t] <=> c = i
    <3>1. Full(B)
      BY DEF Lists
    <3>2. ASSUME NEW k \in Buckets, NEW c \in B[k], Data(mem[c]) = value[t]
          PROVE  c = i
      <4>1. k = h
        BY <3>1, <3>2 DEF Full, bucket_of, h
      <4> QED
        BY <1>h, <3>1, <3>2, <4>1 DEF Full, h
    <3> QED
      BY <3>2
  <2>5. i \in B[h] /\ \A k \in Buckets : B2[k] = B[k] \ {i}
    BY <1>i, <1>2 DEF h
  <2> QED
    BY <1>h, <2>2, <2>3, <2>4, <2>5
<1> QED
  BY <1>2, <1>4, <1>5, <1>6, <1>7 DEF HeapInv

\* The operation of t takes effect, with the result that it is to have.
Effect(t) ==
    /\ op[t] = "insert" => /\ (item[t] = NULL) <=> value[t] \notin Contents
                           /\ Contents' = Contents \cup {value[t]}
    /\ op[t] = "remove" => /\ (item[t] # NULL) <=> value[t] \in Contents
                           /\ Contents' = Contents \ {value[t]}
    /\ op[t] = "contains" => /\ (item[t] # NULL) <=> value[t] \in Contents
                             /\ Contents' = Contents

\* Link and Unlink under the lock.
LEMMA LockedChangeHeap ==
    ASSUME MemInv, ExclInv, OwnInv, HeapInv, NEW t \in Threads, OwnStep(t),
           Link(t) \/ Unlink(t), ~xtest(t)
    PROVE  OwnInv' /\ HeapInv' /\ Effect(t)
<1> DEFINE p == prev_word(t)
           q == IF Link(t) THEN insert_item[t] ELSE Successor(Sees(t, item[t]))
<1>k. /\ TypeOK /\ TsxTypeOK /\ WordsInv /\ ControlInv(t) /\ NULL \notin Cells
      /\ pc[t] \in {"link", "unlink"} /\ bucket_of(t) \in Buckets
      /\ Link(t) => pc[t] = "link" /\ op[t] = "insert"
                    /\ insert_item[t] \in Cells /\ insert_item[t] > 0
      /\ ~Link(t) => pc[t] = "unlink" /\ op[t] = "remove"
                     /\ item[t] \in Cells /\ item[t] > 0
                     /\ insert_item[t] = NULL
      /\ p \in ListWords /\ p \in Loc /\ InLocked(t) /\ ~result[t]
      /\ tx[t] = "none"
  BY Known, PlaceFacts, WordFacts DEF Link, Unlink, At, ControlInv, InLocked,
                                      InSection, xtest
<1>1. PICK B \in [Buckets -> SUBSET Cells], R \in [Cells -> Nat] :
        Lists(B, R) /\ Walks(B)
  BY DEF HeapInv
<1>w. LockedWalk(t, B)
  BY <1>1, <1>k DEF Walks
<1>2. /\ SetPointer(t, q) /\ result'[t] = TRUE /\ pc'[t] = "leave"
      /\ UNCHANGED <<kind, allocated, op, value, prev_item, item, insert_item>>
  BY <1>k DEF Link, Unlink, Goto, TypeOK
<1>q. q \in 0 .. NCells /\ (~Link(t) => q = Ptr(item[t], mem[item[t]]))
  <2>1. CASE Link(t)
    BY <1>k, <2>1, WordFacts
  <2>2. CASE ~Link(t)
    <3>2. WordOK(item[t], mem[item[t]])
      BY <1>k, <2>2, WordFacts DEF WordsInv
    <3> QED
      BY <1>k, <2>2, <3>2 DEF Sees, Ptr, WordOK
  <2> QED
    BY <2>1, <2>2
<1>l. Link(t) => q = insert_item[t]
  OBVIOUS
<1>p. p \in Words(B, bucket_of(t))
  BY <1>1, <1>k, TxPlace
<1> HIDE DEF p, q
<1>3. PICK v \in Nat : /\ Store(t, p, v) /\ Ptr(p, v) = q
                       /\ p \in Cells => Data(v) = Data(mem[p])
  BY <1>k, <1>q, <1>2, PointerStore DEF p, Sees
<1>4. /\ tx'[t] = "none" /\ mem'[p] = v /\ ReadsKept(t)
      /\ \A w \in Loc \ {p} : mem'[w] = mem[w]
      /\ \A u \in Threads \ {t} : xtest(u)' => p \notin rset[u]
  <2>1. Store(t, p, v) /\ v \in Int
    BY <1>3
  <2> QED
    BY <1>k, <2>1, AccessKeepsOthers, StoreEffect, StoreKeepsReads DEF xtest
<1>5. /\ ~InTx(t)' /\ ListWords \subseteq Loc
      /\ Done(t)' /\ ~Done(t) /\ ~Searched(t)'
  BY <1>k, <1>2, <1>4, WordFacts DEF InTx, xtest, Done, Searched
<1>s. /\ Search(t, B) /\ Searched(t) /\ Ptr(p, mem[p]) = item[t]
      /\ p \in Cells => Data(mem'[p]) = Data(mem[p])
  BY <1>1, <1>k, <1>3, <1>4, <1>5 DEF Walks, Searched, Search, p
<1>6. CASE Link(t)
  <2>1. insert_item[t] \in Owned(t) /\ Owned(t) = {insert_item[t]}
    BY <1>k, <1>5, <1>6 DEF Owned
  <2>2. insert_item[t] # p /\ insert_item[t] \in Loc
    BY <1>k, <1>1, <1>p, <1>6, <2>1, WordFacts DEF Lists, Words
  <2>3. /\ Ptr(insert_item[t], mem'[insert_item[t]]) = NULL
        /\ Data(mem'[insert_item[t]]) = value[t]
    BY <1>k, <1>4, <1>6, <2>1, <2>2 DEF OwnInv, FreshInv, Ptr
  <2>4. Ptr(p, mem'[p]) = insert_item[t]
    BY <1>l, <1>3, <1>4, <1>6
  <2>5. Owned(t)' = {}
    BY <1>k, <1>2, <1>5, <1>6 DEF Owned
  <2>6. \A w \in ListWords : w # p => mem'[w] = mem[w]
    BY <1>4, <1>5
  <2>7. /\ allocated' = allocated /\ InLocked(t) /\ pc'[t] = "leave"
        /\ item[t] = NULL
    BY <1>k, <1>2, <1>6 DEF ControlInv
  <2>8. \A c \in B[bucket_of(t)] : Data(mem[c]) # value[t]
    BY <1>1, <1>s, <2>7, NotThere
  <2>9. /\ OwnInv' /\ HeapInv'
        /\ value[t] \notin Contents /\ Contents' = Contents \cup {value[t]}
    BY <1>1, <1>p, <1>4, <1>5, <1>s, <2>1, <2>3, <2>4, <2>5, <2>6, <2>7, <2>8,
       InsertHeap
  <2> QED
    BY <1>k, <1>6, <2>7, <2>9 DEF Effect
<1>7. CASE ~Link(t)
  <2>1. Ptr(p, mem[p]) = item[t] /\ item[t] # NULL
    BY <1>k, <1>w, <1>7 DEF LockedWalk, p
  <2>2. item[t] \in B[bucket_of(t)]
    BY <1>1, <1>k, <1>7, <2>1, TxPlace DEF p
  <2>3. Ptr(p, mem'[p]) = Ptr(item[t], mem[item[t]])
    BY <1>q, <1>3, <1>4, <1>7
  <2>4. Owned(t)' \subseteq {item[t]} /\ insert_item'[t] = NULL
    BY <1>k, <1>2, <1>5, <1>7 DEF Owned
  <2>5. allocated' = allocated /\ item[t] \in allocated /\ item[t] \in Owned(t)'
    BY <1>1, <1>k, <1>2, <1>5, <1>7, <2>2 DEF Lists, Owned
  <2>6. \A w \in ListWords : w # p => mem'[w] = mem[w]
    BY <1>4, <1>5
  <2>7. /\ allocated \ {item[t]} \subseteq allocated'
        /\ Owned(t)' \subseteq allocated'
        /\ InLocked(t) /\ pc'[t] = "leave"
        /\ \A c \in allocated' : c \in Owned(t)' \/ (c \in allocated /\ c # item[t])
    BY <1>k, <1>2, <2>4, <2>5
  <2>8. Owned(t) = {} /\ Data(mem[item[t]]) = value[t]
    BY <1>k, <1>5, <1>s, <1>7 DEF Owned, Search, Found
  <2>9. /\ OwnInv' /\ HeapInv'
        /\ value[t] \in Contents /\ Contents' = Contents \ {value[t]}
    BY <1>1, <1>p, <1>4, <1>5, <1>s, <2>1, <2>2, <2>3, <2>4, <2>6, <2>7, <2>8,
       RemoveHeap
  <2> QED
    BY <1>k, <1>7, <2>1, <2>9 DEF Effect
<1> QED
  BY <1>6, <1>7

\* The commit of a transaction that links or unlinks.
LEMMA CommitHeap ==
    ASSUME MemInv, ExclInv, OwnInv, HeapInv, NEW t \in Threads, OwnStep(t),
           leave(t), xtest(t), Inserting(t) \/ Removing(t)
    PROVE  OwnInv' /\ HeapInv' /\ Effect(t)
<1> DEFINE p == prev_word(t)
<1>k. /\ TypeOK /\ TsxTypeOK /\ ControlInv(t) /\ NULL \notin Cells
      /\ pc[t] = "leave" /\ result[t] /\ bucket_of(t) \in Buckets
      /\ p \in ListWords /\ p \in Loc /\ InTx(t) /\ ~Done(t)
      /\ Inserting(t) => op[t] = "insert" /\ insert_item[t] \in Cells
                         /\ insert_item[t] > 0
      /\ ~Inserting(t) => op[t] = "remove" /\ item[t] \in Cells
                          /\ insert_item[t] = NULL
  BY Known, PlaceFacts, WordFacts DEF Inserting, Removing, ControlInv, InTx,
                                      InSection, Done, xtest
<1>1. PICK B \in [Buckets -> SUBSET Cells], R \in [Cells -> Nat] :
        Lists(B, R) /\ Walks(B)
  BY DEF HeapInv
<1>w. TxWalk(t, B) /\ p \in rset[t]
  BY <1>1, <1>k DEF Walks, TxWalk
<1>p. /\ p \in Words(B, bucket_of(t))
      /\ Ptr(p, mem[p]) = item[t] /\ item[t] # NULL
           => item[t] \in B[bucket_of(t)]
  BY <1>1, <1>k, <1>w, TxPlace
<1>2. /\ Commit(t) /\ UNCHANGED <<kind, op, item, insert_item, result>>
      /\ IF kind = "global" \/ Victim(t) = NULL
         THEN pc'[t] = "return" /\ allocated' = allocated \ {Victim(t)}
         ELSE pc'[t] = "delete" /\ allocated' = allocated
  BY <1>k DEF leave, Goto, locals, TypeOK
<1>3. ReadsKept(t) /\ OthersKept(t) /\ ~InTx(t)' /\ ~InLocked(t)'
  BY <1>k, <1>2, CommitKeepsReads, DiscardEffect
     DEF ExclInv, Commit, InTx, InLocked, InSection
<1>4. \A w \in ListWords : mem'[w] = IF w \in wset[t] THEN wbuf[t][w] ELSE mem[w]
  BY <1>2, WordFacts DEF Commit
<1>v. \A c \in Cells : c \in ListWords
  BY WordFacts
<1>s. /\ Search(t, B) /\ Searched(t) /\ Ptr(p, mem[p]) = item[t]
      /\ p \in Cells => Data(mem'[p]) = Data(mem[p])
  <2>1. Search(t, B) /\ Searched(t)
    BY <1>1, <1>k DEF Walks, Searched
  <2>2. p \in wset[t]
    BY <1>w DEF TxWalk
  <2> QED
    BY <1>k, <1>w, <1>4, <2>1, <2>2 DEF Search, TxWalk
<1>6. CASE Inserting(t)
  <2>1. /\ insert_item[t] \in Owned(t) /\ insert_item[t] \in ListWords
        /\ Owned(t) = {insert_item[t]}
    BY <1>k, <1>v, <1>6 DEF Owned
  <2>2. insert_item[t] # p
    BY <1>k, <1>1, <1>p, <1>6, <2>1, WordFacts DEF Lists, Words
  <2>3. /\ wset[t] = {p} \cup Fresh(t) /\ Ptr(p, wbuf[t][p]) = insert_item[t]
        /\ kind = "global"
             => /\ Ptr(insert_item[t], wbuf[t][insert_item[t]]) = NULL
                /\ Data(wbuf[t][insert_item[t]]) = value[t]
    BY <1>w, <1>6 DEF TxWalk
  <2>4. Ptr(p, mem'[p]) = insert_item[t]
    BY <1>k, <1>4, <2>3
  <2>5. /\ Ptr(insert_item[t], mem'[insert_item[t]]) = NULL
        /\ Data(mem'[insert_item[t]]) = value[t]
    <3>1. CASE kind = "global"
      BY <1>4, <2>1, <2>3, <3>1 DEF Fresh
    <3>2. CASE kind # "global"
      BY <1>k, <1>4, <1>6, <2>1, <2>2, <2>3, <3>2
         DEF Fresh, OwnInv, FreshInv, Ptr
    <3> QED
      BY <3>1, <3>2
  <2>6. \A w \in ListWords : w # p /\ w # insert_item[t] => mem'[w] = mem[w]
    BY <1>4, <2>3 DEF Fresh
  <2>7. Victim(t) = NULL /\ pc'[t] = "return" /\ allocated' = allocated
    <3>1. Victim(t) = NULL
      BY <1>k, <1>6, VictimFacts
    <3>2. allocated' = allocated \ {NULL} /\ pc'[t] = "return"
      BY <1>2, <3>1
    <3>3. NULL \notin allocated
      BY <1>k DEF TypeOK
    <3> QED
      BY <3>1, <3>2, <3>3
  <2>8. Owned(t)' = {}
    BY <2>7 DEF Owned, Done
  <2>9. item[t] = NULL
    BY <1>k, <1>6 DEF ControlInv
  <2>10. \A c \in B[bucket_of(t)] : Data(mem[c]) # value[t]
    BY <1>1, <1>s, <2>9, NotThere
  <2> HIDE DEF p
  <2>11. /\ OwnInv' /\ HeapInv'
         /\ value[t] \notin Contents /\ Contents' = Contents \cup {value[t]}
    BY <1>1, <1>k, <1>p, <1>3, <1>s, <2>1, <2>4, <2>5, <2>6, <2>7, <2>8, <2>9,
       <2>10, InsertHeap
  <2> QED
    BY <1>k, <1>6, <2>9, <2>11 DEF Effect
<1>7. CASE ~Inserting(t)
  <2>1. /\ Ptr(p, mem[p]) = item[t] /\ item[t] # NULL
        /\ wset[t] = {p} /\ Ptr(p, wbuf[t][p]) = Ptr(item[t], mem[item[t]])
    BY <1>k, <1>w, <1>7 DEF TxWalk
  <2>2. item[t] \in B[bucket_of(t)] /\ item[t] \in allocated
    BY <1>1, <1>k, <1>p, <2>1 DEF Lists
  <2>3. Ptr(p, mem'[p]) = Ptr(item[t], mem[item[t]])
    BY <1>k, <1>4, <2>1
  <2>4. \A w \in ListWords : w # p => mem'[w] = mem[w]
    BY <1>4, <2>1
  <2>5. Victim(t) = item[t]
    BY <1>k, <1>7, VictimFacts
  <2>6. /\ allocated \ {item[t]} \subseteq allocated'
        /\ Owned(t)' \subseteq {item[t]} /\ Owned(t)' \subseteq allocated'
        /\ insert_item'[t] = NULL
        /\ \A c \in allocated' : c \in Owned(t)' \/ (c \in allocated /\ c # item[t])
    <3>1. pc'[t] = "return" => Owned(t)' = {}
      BY DEF Owned, Done
    <3>2. Owned(t)' \subseteq {item[t]}
      BY <1>k, <1>2, <1>7 DEF Owned
    <3>3. pc'[t] = "delete" => item[t] \in Owned(t)'
      BY <1>k, <1>2, <1>7 DEF Owned, Done
    <3> QED
      BY <1>k, <1>2, <1>7, <2>2, <2>5, <3>1, <3>2, <3>3
  <2>7. \A u \in Threads \ {t} : xtest(u)' => p \notin rset[u]
    BY <1>3, <2>1 DEF ExclInv, NoConflict, OthersKept, xtest
  <2>8. Owned(t) = {} /\ Data(mem[item[t]]) = value[t]
    BY <1>k, <1>s, <1>7, <2>1 DEF Owned, Search, Found
  <2> HIDE DEF p
  <2>9. /\ OwnInv' /\ HeapInv'
        /\ value[t] \in Contents /\ Contents' = Contents \ {value[t]}
    BY <1>1, <1>k, <1>p, <1>3, <1>s, <2>1, <2>2, <2>3, <2>4, <2>6, <2>7, <2>8,
       RemoveHeap
  <2> QED
    BY <1>k, <1>7, <2>1, <2>9 DEF Effect
<1> QED
  BY <1>6, <1>7

-----------------------------------------------------------------------------
(* The invariant *)

SafetyInv == MemInv /\ ExclInv /\ OwnInv /\ HeapInv

LEMMA InitSafety == Init => SafetyInv
<1> SUFFICES ASSUME Init PROVE SafetyInv
  OBVIOUS
<1>1. MemInv /\ NULL \notin Cells
  BY InitMem, WordFacts
<1>2. /\ \A l \in Loc : mem[l] = 0
      /\ allocated = {}
      /\ \A t \in Threads :
           /\ tx[t] = "none" /\ wset[t] = {} /\ pc[t] = "idle"
           /\ insert_item[t] = NULL
  BY DEF Init, TsxInit
<1>3. \A t \in Threads : ~InSection(t) /\ Owned(t) = {}
  BY <1>1, <1>2 DEF InSection, Owned, Done
<1>4. ExclInv
  BY <1>2, <1>3 DEF ExclInv, NoConflict, LockInv, InLocked, InTx, xtest
<1>5. OwnInv
  BY <1>3 DEF OwnInv, FreshInv
<1>6. HeapInv
  <2>1. PICK B, R : B = [h \in Buckets |-> {}] /\ R = [c \in Cells |-> 0]
    OBVIOUS
  <2>2. B \in [Buckets -> SUBSET Cells] /\ R \in [Cells -> Nat]
    BY <2>1
  <2>3. \A h \in Buckets : Ptr(first(h), mem[first(h)]) = NULL
    BY <1>2, WordFacts DEF Ptr, NULL
  <2>4. \A h \in Buckets : B[h] = {} /\ Words(B, h) = {first(h)}
    BY <2>1 DEF Words
  <2>5. Lists(B, R)
    BY <1>2, <2>3, <2>4 DEF Lists, Full, Accounted
  <2>6. Walks(B)
    BY <1>3 DEF Walks, InTx, InLocked
  <2> QED
    BY <2>2, <2>5, <2>6 DEF HeapInv
<1> QED
  BY <1>1, <1>4, <1>5, <1>6 DEF SafetyInv

\* The destructor runs when no thread has anything in its hands.
LEMMA DestroySafety ==
    ASSUME SafetyInv, Destroy PROVE SafetyInv' /\ Contents' = {}
<1>1. MemInv' /\ MemInv /\ NULL \notin Cells
  BY DestroyMem, WordFacts DEF SafetyInv
<1>2. /\ UNCHANGED <<tx, rset, wset, wbuf, kind, pc, locals>>
      /\ \A t \in Threads : pc[t] = "idle"
      /\ mem' = [l \in Loc |-> IF l < 0 THEN 0 ELSE mem[l]]
      /\ allocated' = allocated \ Linked
  BY DEF Destroy
<1>3. \A t \in Threads : /\ ~InSection(t)' /\ Owned(t)' = {}
                         /\ tx'[t] = "none"
  BY <1>1, <1>2 DEF InSection, Owned, Done, MemInv, ControlInv, locals
<1>4. ExclInv'
  BY <1>2, <1>3 DEF SafetyInv, ExclInv, NoConflict, LockInv, InLocked, InTx,
                    xtest
<1>5. OwnInv'
  BY <1>3 DEF OwnInv, FreshInv
<1>a. allocated' = {}
  <2>1. PICK B \in [Buckets -> SUBSET Cells], R \in [Cells -> Nat] : Lists(B, R)
    BY DEF SafetyInv, HeapInv
  <2>2. Linked = UNION {B[h] : h \in Buckets}
    BY <2>1, LinkedAre
  <2>3. \A t \in Threads : Owned(t) = {}
    BY <1>1, <1>2 DEF Owned, Done, MemInv, ControlInv
  <2> QED
    BY <1>2, <2>1, <2>2, <2>3 DEF Lists, Accounted
<1>6. HeapInv' /\ Contents' = {}
  <2>1. PICK B, R : B = [h \in Buckets |-> {}] /\ R = [c \in Cells |-> 0]
    OBVIOUS
  <2>2. B \in [Buckets -> SUBSET Cells] /\ R \in [Cells -> Nat]
    BY <2>1
  <2>3. \A h \in Buckets : Ptr(first(h), mem'[first(h)]) = NULL
    <3>1. \A h \in Buckets : first(h) < 0
      BY HashMapAssumption DEF first, Buckets
    <3>2. \A h \in Buckets : first(h) \in Loc /\ ~(first(h) > 0)
      BY WordFacts
    <3> QED
      BY <1>2, <3>1, <3>2 DEF Ptr, NULL
  <2>4. \A h \in Buckets : B[h] = {} /\ Words(B, h) = {first(h)}
    BY <2>1 DEF Words
  <2>5. Lists(B, R)'
    BY <1>3, <1>a, <2>3, <2>4 DEF Lists, Words, Full, Accounted
  <2>6. Walks(B)'
    BY <1>3 DEF Walks, InTx, InLocked
  <2>7. Contents' = {}
    BY <2>2, <2>4, <2>5, ContentsAre
  <2> QED
    BY <2>2, <2>5, <2>6, <2>7 DEF HeapInv
<1> QED
  BY <1>1, <1>4, <1>5, <1>6 DEF SafetyInv

\* The number of failures matters to MemInv only.
LEMMA SameSafety ==
    ASSUME SafetyInv, MemInv',
           UNCHANGED <<mem, tx, code, rset, wset, wbuf, kind, allocated, exited,
                       pc, op, value, prev_item, item, insert_item, result>>
    PROVE  SafetyInv' /\ Contents' = Contents
<1>v. UNCHANGED <<mem, tx, code, rset, wset, wbuf, kind, allocated, exited,
                  pc, op, value, prev_item, item, insert_item, result>>
  OBVIOUS
<1>1. MemInv' /\ Contents' = Contents
  BY <1>v DEF Contents, Linked, Items
<1>2. ExclInv'
  BY <1>v DEF SafetyInv, ExclInv, NoConflict, LockInv, InLocked, InTx,
              InSection, locker_of, xtest
<1>3. OwnInv'
  BY <1>v DEF SafetyInv, OwnInv, FreshInv, Owned, Done
<1>4. HeapInv'
  <2>1. PICK B \in [Buckets -> SUBSET Cells], R \in [Cells -> Nat] :
          Lists(B, R) /\ Walks(B)
    BY DEF SafetyInv, HeapInv
  <2>2. Lists(B, R)'
    BY <1>v, <2>1 DEF Lists, Words, Owned, Done, Full, Accounted
  <2>3. ASSUME NEW t \in Threads
        PROVE  /\ (InTx(t) => TxWalk(t, B))'
               /\ (InLocked(t) => LockedWalk(t, B))'
    BY <1>v, <2>1 DEF Walks, InTx, InLocked, InSection, TxWalk, LockedWalk,
                      Words, bucket_of, prev_word, Inserting, Removing, Fresh,
                      xtest
  <2>4. ASSUME NEW t \in Threads, InTx(t)' \/ InLocked(t)', Searched(t)'
        PROVE  Search(t, B)'
    <3>1. Search(t, B) /\ Searched(t)
      BY <1>v, <2>1, <2>4 DEF Walks, InTx, InLocked, InSection, xtest, Searched,
                              Done
    <3>2. PICK V \in SUBSET Cells : Passed(t, B, V)
      BY <3>1 DEF Search
    <3>3. Passed(t, B, V)'
      BY <1>v, <3>2 DEF Passed, bucket_of, prev_word, xtest
    <3>4. /\ Ptr(prev_word(t), mem[prev_word(t)]) = item[t]
          /\ Found(t) => /\ item[t] \in B[bucket_of(t)]
                         /\ Data(mem[item[t]]) = value[t]
                         /\ xtest(t) => item[t] \in rset[t]
      BY <3>1 DEF Search
    <3> QED
      BY <1>v, <3>3, <3>4 DEF Search, Found, bucket_of, prev_word, xtest
  <2>5. Walks(B)'
    BY <2>3, <2>4 DEF Walks, Search
  <2> QED
    BY <2>2, <2>5 DEF HeapInv
<1> QED
  BY <1>1, <1>2, <1>3, <1>4 DEF SafetyInv

\* One step of a thread.
LEMMA StepSafety ==
    ASSUME SafetyInv, NEW t \in Threads,
           \/ Call(t) \/ New(t) \/ lock(t) \/ busy(t) \/ elide(t) \/ xbegin(t)
           \/ First(t) \/ Look(t) \/ Link(t) \/ Unlink(t)
           \/ leave(t) \/ Delete(t) \/ Return(t) \/ Aborted(t)
           \/ HardwareAbort(t) /\ ~exited
                /\ UNCHANGED <<kind, allocated, exited, pc, locals>>
    PROVE  SafetyInv'
<1>m. /\ MemInv' /\ OwnStep(t) /\ MemInv /\ ExclInv /\ OwnInv /\ HeapInv
      /\ TypeOK /\ TsxTypeOK
  BY MemOfStep DEF SafetyInv, MemInv, TypeOK
<1>1. CASE Call(t) \/ Return(t)
  <2>1. UNCHANGED txVars /\ ~InSection(t)'
    BY <1>m, <1>1 DEF Call, Return, Goto, InSection, TypeOK
  <2>2. ExclInv'
    BY <1>m, <2>1, StillExcl
  <2> QED
    BY <1>m, <1>1, <2>2, CallHeap DEF SafetyInv
<1>2. CASE Delete(t)
  <2>1. UNCHANGED txVars /\ ~InSection(t)'
    BY <1>m, <1>2 DEF Delete, Goto, InSection, TypeOK
  <2>2. ExclInv'
    BY <1>m, <2>1, StillExcl
  <2> QED
    BY <1>m, <1>2, <2>2, DeleteHeap DEF SafetyInv
<1>3. CASE New(t)
  <2>1. PICK c \in Cells \ allocated :
          Store(t, c, LinkedListItem(value[t], NULL))
    BY <1>3 DEF New
  <2>2. c \in ListWords /\ LinkedListItem(value[t], NULL) \in Int
    BY <1>m, LineFacts, WordFacts DEF TypeOK, NULL
  <2>3. (InSection(t)' => InSection(t)) /\ value'[t] = value[t]
    BY <1>m, <1>3 DEF New, At, Goto, InSection, TypeOK
  <2>4. ExclInv'
    BY <1>m, <2>1, <2>2, <2>3, StoreExcl
  <2> QED
    BY <1>m, <1>3, <2>4, NewHeap DEF SafetyInv
<1>4. CASE lock(t) \/ elide(t) \/ xbegin(t)
  BY <1>m, <1>4, EnterExcl, EnterHeap DEF SafetyInv
<1>b. CASE busy(t)
  BY <1>m, <1>b, SameSafety DEF busy, txVars
<1>5. CASE First(t)
  <2>1. first(hash(value[t])) \in Loc
    BY <1>m, PlaceFacts, WordFacts DEF bucket_of
  <2>2. Load(t, first(hash(value[t]))) /\ InSection(t) /\ value'[t] = value[t]
    BY <1>5 DEF First, At, InSection
  <2>3. ExclInv'
    BY <1>m, <2>1, <2>2, LoadExcl
  <2> QED
    BY <1>m, <1>5, <2>3, FirstHeap DEF SafetyInv
<1>6. CASE Look(t)
  <2>1. Load(t, item[t]) /\ InSection(t) /\ value'[t] = value[t] /\ pc[t] = "look"
    BY <1>6 DEF Look, At, InSection
  <2>2. item[t] \in Loc
    BY <1>m, <2>1, Known DEF ControlInv
  <2>3. ExclInv'
    BY <1>m, <2>1, <2>2, LoadExcl
  <2> QED
    BY <1>m, <1>6, <2>3, LookHeap DEF SafetyInv
<1>7. CASE Link(t) \/ Unlink(t)
  <2>1. ExclInv'
    <3> DEFINE q == IF Link(t) THEN insert_item[t]
                    ELSE Successor(Sees(t, item[t]))
    <3>1. SetPointer(t, q) /\ InSection(t) /\ value'[t] = value[t]
      BY <1>7 DEF Link, Unlink, At, InSection
    <3>2. q \in 0 .. NCells
      <4>1. CASE Link(t)
        BY <1>m, <4>1, Known, WordFacts
      <4>2. CASE ~Link(t)
        <5>1. item[t] \in Cells
          BY <1>m, <1>7, <4>2, Known DEF Unlink, At, ControlInv
        <5> QED
          BY <1>m, <4>2, <5>1, SeesPointer, WordFacts DEF MemInv, WordOK, Ptr
      <4> QED
        BY <4>1, <4>2
    <3> HIDE DEF q
    <3>3. PICK v \in Nat : Store(t, prev_word(t), v)
      BY <1>m, <3>1, <3>2, PointerStore DEF MemInv
    <3>4. prev_word(t) \in ListWords
      BY <1>m, PlaceFacts
    <3> QED
      BY <1>m, <3>1, <3>3, <3>4, StoreExcl
  <2>2. OwnInv' /\ HeapInv'
    BY <1>m, <1>7, BufferedHeap, LockedChangeHeap
  <2> QED
    BY <1>m, <2>1, <2>2 DEF SafetyInv
<1>8. CASE leave(t)
  <2>1. ~InSection(t)' /\ pc[t] = "leave" /\ tx[t] # "aborted"
    BY <1>m, <1>8 DEF leave, At, Goto, InSection, TypeOK
  <2>2. ExclInv'
    <3>1. CASE xtest(t)
      BY <1>m, <1>8, <2>1, <3>1, EndExcl DEF leave
    <3>2. CASE ~xtest(t)
      <4>1. InLocked(t)
        BY <1>m, <2>1, <3>2, Known DEF InLocked, InSection, xtest
      <4> QED
        BY <1>m, <1>8, <2>1, <3>2, <4>1, UnlockExcl DEF leave
    <3> QED
      BY <3>1, <3>2
  <2>3. OwnInv' /\ HeapInv'
    BY <1>m, <1>8, LeaveHeap, CommitHeap
  <2> QED
    BY <1>m, <2>2, <2>3 DEF SafetyInv
<1>9. CASE Aborted(t)
  <2>1. Rollback(t) /\ ~InSection(t)'
    BY <1>m, <1>9 DEF Aborted, Goto, InSection, TypeOK
  <2>2. ExclInv'
    BY <1>m, <2>1, EndExcl
  <2> QED
    BY <1>m, <1>9, <2>2, AbortedHeap DEF SafetyInv
<1>10. CASE /\ HardwareAbort(t) /\ ~exited
            /\ UNCHANGED <<kind, allocated, exited, pc, locals>>
  <2>1. OthersKept(t) /\ tx'[t] = "aborted"
    BY <1>m, <1>10, SelfAbortEffect DEF HardwareAbort
  <2>2. UNCHANGED <<mem, rset, wset>> /\ value' = value
    BY <1>10 DEF HardwareAbort, locals
  <2>3. NoConflict'
    BY <1>m, <2>1, EndConflict DEF ExclInv
  <2>4. LockInv'
    <3>1. InSection(t)' => InSection(t)
      BY <1>10 DEF InSection
    <3> QED
      BY <1>m, <2>1, <2>2, <3>1, LockFrame DEF ExclInv
  <2>5. ASSUME NEW u \in Threads, tx'[u] = "none" PROVE wset'[u] = {}
    BY <1>m, <2>1, <2>2, <2>5 DEF ExclInv, OthersKept
  <2>6. ExclInv'
    BY <2>3, <2>4, <2>5 DEF ExclInv
  <2> QED
    BY <1>m, <1>10, <2>6, HardwareHeap DEF SafetyInv
<1> QED
  BY <1>1, <1>2, <1>3, <1>4, <1>b, <1>5, <1>6, <1>7, <1>8, <1>9, <1>10

LEMMA StutterSafety ==
    ASSUME SafetyInv, UNCHANGED vars PROVE SafetyInv'
<1>v. /\ UNCHANGED <<mem, tx, code, rset, wset, wbuf, kind, allocated, exited,
                     pc, op, value, prev_item, item, insert_item, failures,
                     result, ops>>
  BY DEF vars, txVars, locals
<1>1. MemInv'
  BY <1>v DEF SafetyInv, MemInv, TypeOK, TsxTypeOK, WordsInv, ControlInv,
              InSection, Inserting
<1> QED
  BY <1>v, <1>1, SameSafety

LEMMA SafetyInvariant == Spec => []SafetyInv
<1>1. SafetyInv /\ [Next]_vars => SafetyInv'
  BY DestroySafety, StepSafety, StutterSafety DEF Next
<1> QED
  BY <1>1, InitSafety, PTL DEF Spec

\* Outside a rollback, the items and the predecessors that a thread uses are
\* in its list, and so not deleted.
LEMMA SafetyImplies == SafetyInv => NoUseAfterDelete
<1> SUFFICES ASSUME SafetyInv, NEW t \in Threads, tx[t] # "aborted"
             PROVE  /\ pc[t] \in {"look", "unlink"} => item[t] \in allocated
                    /\ pc[t] \in {"link", "unlink"}
                         => prev_item[t] \in allocated \cup {NULL}
  BY DEF NoUseAfterDelete
<1>k. /\ MemInv /\ bucket_of(t) \in Buckets /\ ControlInv(t)
      /\ tx[t] \in {"none", "active", "aborted"}
  BY Known, PlaceFacts DEF SafetyInv
<1>1. PICK B \in [Buckets -> SUBSET Cells], R \in [Cells -> Nat] :
        Lists(B, R) /\ Walks(B)
  BY DEF SafetyInv, HeapInv
<1>2. ASSUME pc[t] \in {"look", "unlink", "link"}
      PROVE  /\ prev_word(t) \in Words(B, bucket_of(t))
             /\ pc[t] # "link" => item[t] \in B[bucket_of(t)]
  <2>1. InTx(t) \/ InLocked(t)
    BY <1>k, <1>2 DEF InTx, InLocked, InSection, xtest
  <2>2. /\ InTx(t) => prev_word(t) \in rset[t]
        /\ pc[t] # "link" => Ptr(prev_word(t), mem[prev_word(t)]) = item[t]
    BY <1>1, <1>2, <2>1 DEF Walks, TxWalk, LockedWalk
  <2>3. pc[t] # "link" => item[t] # NULL
    BY <1>k, <1>2 DEF ControlInv
  <2> QED
    BY <1>k, <1>1, <1>2, <2>1, <2>2, <2>3, TxPlace
<1>3. B[bucket_of(t)] \subseteq allocated
  BY <1>k, <1>1 DEF Lists
<1>4. pc[t] \in {"look", "unlink"} => item[t] \in allocated
  BY <1>2, <1>3
<1>5. pc[t] \in {"link", "unlink"} => prev_item[t] \in allocated \cup {NULL}
  <2>1. CASE prev_item[t] = NULL
    BY <2>1
  <2>2. CASE prev_item[t] # NULL
    <3>1. prev_word(t) = prev_item[t] /\ prev_item[t] \in Cells
      BY <1>k, <2>2, Known DEF prev_word
    <3> QED
      BY <1>k, <1>2, <1>3, <3>1, WordFacts DEF Words
  <2> QED
    BY <2>1, <2>2
<1> QED
  BY <1>4, <1>5

\* In the map with a lock per bucket, the one with a global lock and the one
\* with transactions, whether locks are elided or not, and for any number of
\* threads, buckets, values and cells: a thread that is not about to roll back
\* never follows a pointer to a deleted item, although delete gives the cell
\* back at once (HashMap::remove) and the search reads without validation.
THEOREM NoThreadUsesDeletedItem == Spec => []NoUseAfterDelete
BY SafetyInvariant, SafetyImplies, PTL

-----------------------------------------------------------------------------
(* Every cell is somewhere *)

LEMMA HandsAre ==
    ASSUME MemInv, NEW t \in Threads
    PROVE  InHands(t) \ {NULL} = Owned(t)
<1>k. /\ TypeOK /\ ControlInv(t) /\ NULL \notin Cells
      /\ op[t] \in {"insert", "remove", "contains"} /\ result[t] \in BOOLEAN
      /\ item[t] \in Cells \cup {NULL} /\ insert_item[t] \in Cells \cup {NULL}
      /\ tx[t] \in {"none", "active", "aborted"}
      /\ pc[t] \in {"idle", "new", "enter", "first", "look", "link",
                    "unlink", "leave", "delete", "return"}
  BY Known DEF TypeOK
<1>1. CASE \/ pc[t] \in {"enter", "first", "look", "link", "unlink"}
           \/ pc[t] = "leave" /\ tx[t] # "none"
  <2>1. InHands(t) = {insert_item[t]}
    BY <1>1 DEF InHands
  <2>2. Owned(t) = {insert_item[t]} \ {NULL}
    BY <1>k, <1>1 DEF Owned, Done
  <2> QED
    BY <2>1, <2>2
<1>2. CASE pc[t] = "delete" \/ (pc[t] = "leave" /\ tx[t] = "none")
  <2>1. InHands(t) = {Victim(t)}
    BY <1>2 DEF InHands
  <2>2. Owned(t) = {Victim(t)} \ {NULL}
    BY <1>k, <1>2, VictimFacts DEF Owned, Done, ControlInv
  <2> QED
    BY <2>1, <2>2
<1>3. CASE pc[t] \in {"idle", "new", "return"}
  <2>1. InHands(t) = {}
    BY <1>3 DEF InHands
  <2>2. Owned(t) = {}
    BY <1>k, <1>3 DEF Owned, Done, ControlInv
  <2> QED
    BY <2>1, <2>2
<1> QED
  BY <1>k, <1>1, <1>2, <1>3

LEMMA SafetyAccounts == SafetyInv => CellsAccounted
<1> SUFFICES ASSUME SafetyInv PROVE CellsAccounted
  OBVIOUS
<1>1. PICK B \in [Buckets -> SUBSET Cells], R \in [Cells -> Nat] :
        Lists(B, R) /\ Walks(B)
  BY DEF SafetyInv, HeapInv
<1>2. Linked = UNION {B[h] : h \in Buckets}
  BY <1>1, LinkedAre
<1>3. \A t \in Threads : InHands(t) \ {NULL} = Owned(t)
  BY HandsAre DEF SafetyInv
<1> DEFINE hands == UNION {InHands(t) \ {NULL} : t \in Threads}
<1>4. \A c : c \in hands <=> \E t \in Threads : c \in Owned(t)
  BY <1>3
<1>5. \A c : c \in Linked <=> \E h \in Buckets : c \in B[h]
  BY <1>2
<1> HIDE DEF hands
<1>6. allocated = Linked \cup hands
  BY <1>1, <1>4, <1>5 DEF Lists, Accounted, SafetyInv, OwnInv
<1>7. Linked \cap hands = {}
  BY <1>1, <1>4, <1>5 DEF Lists
<1>8. \A t, u \in Threads :
        t # u => (InHands(t) \cap InHands(u)) \ {NULL} = {}
  BY <1>3 DEF SafetyInv, OwnInv
<1> QED
  BY <1>6, <1>7, <1>8 DEF CellsAccounted, hands

\* In all three maps, with locks elided or not, with any number of threads: a
\* cell is allocated if and only if exactly one list or one thread has it, so
\* that insert, remove, an aborted section (which undoes its new) and the
\* destructor neither leak an item nor delete one twice.
THEOREM NoCellLost == Spec => []CellsAccounted
BY SafetyInvariant, SafetyAccounts, PTL

-----------------------------------------------------------------------------
(* The map is a set *)

\* What AtomicSet sees of a thread.
CallOf(t) == IF pc[t] = "idle" THEN <<>> ELSE <<op[t], value[t]>>
Answered(t) ==
    \/ pc[t] \in {"delete", "return"}
    \/ pc[t] = "leave" /\ tx[t] = "none" /\ op[t] # "contains" /\ result[t]
AnswerOf(t) == IF Answered(t) THEN <<result[t]>> ELSE <<>>

Calls == [t \in Threads |-> CallOf(t)]
Answers == [t \in Threads |-> AnswerOf(t)]

LEMMA OthersAsBefore ==
    ASSUME NEW t \in Threads, OwnStep(t)
    PROVE  /\ Calls' = [Calls EXCEPT ![t] = CallOf(t)']
           /\ Answers' = [Answers EXCEPT ![t] = AnswerOf(t)']
<1>1. ASSUME NEW u \in Threads, u # t
      PROVE  CallOf(u)' = CallOf(u) /\ AnswerOf(u)' = AnswerOf(u)
  <2>1. /\ pc'[u] = pc[u] /\ op'[u] = op[u] /\ value'[u] = value[u]
        /\ result'[u] = result[u] /\ (tx'[u] = "none" <=> tx[u] = "none")
    BY <1>1 DEF OwnStep, OthersKept
  <2> QED
    BY <2>1 DEF CallOf, AnswerOf, Answered
<1> QED
  BY <1>1 DEF Calls, Answers

\* At the end of its search a thread knows whether the value is in the map.
LEMMA SearchKnows ==
    ASSUME SafetyInv, NEW t \in Threads, pc[t] = "leave", tx[t] # "aborted",
           Searched(t)
    PROVE  item[t] # NULL <=> value[t] \in Contents
<1>k. /\ MemInv /\ bucket_of(t) \in Buckets
      /\ InTx(t) \/ InLocked(t)
  BY Known, PlaceFacts DEF SafetyInv, InTx, InLocked, InSection, xtest
<1>1. PICK B \in [Buckets -> SUBSET Cells], R \in [Cells -> Nat] :
        Lists(B, R) /\ Walks(B)
  BY DEF SafetyInv, HeapInv
<1>2. Search(t, B)
  BY <1>k, <1>1 DEF Walks
<1>3. \A v : v \in Contents <=>
              \E h \in Buckets : \E c \in B[h] : Data(mem[c]) = v
  BY <1>1, ContentsAre
<1>4. CASE item[t] # NULL
  <2>1. item[t] \in B[bucket_of(t)] /\ Data(mem[item[t]]) = value[t]
    BY <1>2, <1>4 DEF Search, Found
  <2> QED
    BY <1>k, <1>3, <1>4, <2>1
<1>5. CASE item[t] = NULL
  <2>1. \A c \in B[bucket_of(t)] : Data(mem[c]) # value[t]
    BY <1>k, <1>1, <1>2, <1>5, NotThere
  <2>2. \A h \in Buckets : \A c \in B[h] : hash(Data(mem[c])) = h
    BY <1>1 DEF Lists, Full
  <2> QED
    BY <1>3, <1>5, <2>1, <2>2 DEF bucket_of
<1> QED
  BY <1>4, <1>5

\* What a step of t is to AtomicSet.
Unseen(t) ==
    Contents' = Contents /\ CallOf(t)' = CallOf(t) /\ AnswerOf(t)' = AnswerOf(t)

Called(t) ==
    /\ CallOf(t) = <<>> /\ Contents' = Contents /\ AnswerOf(t)' = AnswerOf(t)
    /\ \E o \in {"insert", "remove", "contains"}, v \in Values :
         CallOf(t)' = <<o, v>>

Decided(t) ==
    /\ pc[t] # "idle" /\ ~Answered(t) /\ CallOf(t)' = CallOf(t)
    /\ Contents' = CASE op[t] = "insert" -> Contents \cup {value[t]}
                     [] op[t] = "remove" -> Contents \ {value[t]}
                     [] op[t] = "contains" -> Contents
    /\ AnswerOf(t)' = <<IF op[t] = "insert" THEN value[t] \notin Contents
                        ELSE value[t] \in Contents>>

Returned(t) ==
    /\ Answered(t) /\ Contents' = Contents
    /\ CallOf(t)' = <<>> /\ AnswerOf(t)' = <<>>

\* The result is the right answer to the operation.
RightResult(t) ==
    result[t] <=> IF op[t] = "insert" THEN value[t] \notin Contents
                  ELSE value[t] \in Contents

LEMMA DecidedBy ==
    ASSUME MemInv, NEW t \in Threads, pc[t] # "idle", ~Answered(t),
           CallOf(t)' = CallOf(t), Answered(t)', result'[t] \in BOOLEAN,
           result'[t] <=> IF op[t] = "insert" THEN value[t] \notin Contents
                          ELSE value[t] \in Contents,
           op[t] = "insert" => Contents' = Contents \cup {value[t]},
           op[t] = "remove" => Contents' = Contents \ {value[t]},
           op[t] = "contains" => Contents' = Contents
    PROVE  Decided(t)
<1>1. op[t] \in {"insert", "remove", "contains"}
  BY Known
<1>2. Contents' = CASE op[t] = "insert" -> Contents \cup {value[t]}
                    [] op[t] = "remove" -> Contents \ {value[t]}
                    [] op[t] = "contains" -> Contents
  BY <1>1
<1>3. result'[t] = IF op[t] = "insert" THEN value[t] \notin Contents
                   ELSE value[t] \in Contents
  <2>1. CASE op[t] = "insert"
    <3>1. result'[t] = (value[t] \notin Contents)
      BY <2>1
    <3> QED
      BY <2>1, <3>1
  <2>2. CASE op[t] # "insert"
    <3>1. result'[t] = (value[t] \in Contents)
      BY <2>2
    <3> QED
      BY <2>2, <3>1
  <2> QED
    BY <2>1, <2>2
<1>4. AnswerOf(t)' = <<result'[t]>>
  BY DEF AnswerOf
<1> QED
  BY <1>2, <1>3, <1>4 DEF Decided

\* The store that links or unlinks under the lock decides.
LEMMA ChangeDecides ==
    ASSUME SafetyInv, NEW t \in Threads, OwnStep(t), MemInv',
           Link(t) \/ Unlink(t), ~xtest(t)
    PROVE  Decided(t)
<1>k. MemInv /\ TypeOK /\ ControlInv(t) /\ tx[t] \in {"none", "active", "aborted"}
      /\ op[t] \in {"insert", "remove", "contains"}
  BY Known DEF SafetyInv
<1>1. Effect(t)
  BY LockedChangeHeap DEF SafetyInv
<1>2. /\ pc[t] \in {"link", "unlink"} /\ pc'[t] = "leave" /\ tx[t] = "none"
      /\ op' = op /\ value' = value /\ result'[t] = TRUE
      /\ pc[t] = "link" => op[t] = "insert" /\ item[t] = NULL
      /\ pc[t] = "unlink" => op[t] = "remove" /\ item[t] # NULL
  BY <1>k DEF Link, Unlink, At, Goto, TypeOK, ControlInv, xtest
<1>3. tx'[t] = "none"
  <2>1. PICK l, v : Store(t, l, v)
    BY DEF Link, Unlink, SetPointer
  <2> QED
    BY <1>k, <1>2, <2>1 DEF Store, Abort, UsersOf, TypeOK, TsxTypeOK
<1>4. ~Answered(t) /\ Answered(t)' /\ CallOf(t)' = CallOf(t)
  BY <1>2, <1>3 DEF Answered, CallOf
<1> QED
  BY <1>k, <1>1, <1>2, <1>4, DecidedBy DEF Effect

\* The end of a section decides, unless the operation has already been.
LEMMA LeaveDecides ==
    ASSUME SafetyInv, NEW t \in Threads, OwnStep(t), leave(t)
    PROVE  Decided(t) \/ Unseen(t)
<1>k. /\ MemInv /\ TypeOK /\ ControlInv(t) /\ pc[t] = "leave"
      /\ tx[t] \in {"none", "active"} /\ result[t] \in BOOLEAN
      /\ op[t] \in {"insert", "remove", "contains"}
  BY Known DEF SafetyInv, leave, At
<1>1. /\ pc'[t] \in {"delete", "return"} /\ op' = op /\ value' = value
      /\ result' = result
  BY <1>k DEF leave, Goto, locals, TypeOK
<1>2. Answered(t)' /\ CallOf(t)' = CallOf(t)
  BY <1>k, <1>1 DEF Answered, CallOf
<1>3. CASE Answered(t)
  <2>1. ~xtest(t)
    BY <1>k, <1>3 DEF Answered, xtest
  <2>2. Contents' = Contents
    BY <2>1, LeaveHeap DEF SafetyInv
  <2> QED
    BY <1>1, <1>2, <1>3, <2>2 DEF Unseen, AnswerOf
<1>4. CASE ~Answered(t)
  <2>1. Searched(t)
    BY <1>k, <1>4 DEF Answered, Searched, Done
  <2>2. item[t] # NULL <=> value[t] \in Contents
    BY <1>k, <2>1, SearchKnows
  <2>3. RightResult(t)
    BY <1>k, <2>2 DEF ControlInv, RightResult
  <2>4. /\ op[t] = "insert" => Contents' = Contents \cup {value[t]}
        /\ op[t] = "remove" => Contents' = Contents \ {value[t]}
        /\ op[t] = "contains" => Contents' = Contents
    <3>1. CASE xtest(t) /\ (Inserting(t) \/ Removing(t))
      BY <3>1, CommitHeap DEF SafetyInv, Effect
    <3>2. CASE ~(xtest(t) /\ (Inserting(t) \/ Removing(t)))
      <4>1. Contents' = Contents
        BY <3>2, LeaveHeap DEF SafetyInv
      <4>2. op[t] # "contains" => ~result[t]
        BY <1>k, <1>4, <3>2 DEF Answered, Inserting, Removing, xtest
      <4> QED
        BY <2>3, <4>1, <4>2 DEF RightResult
    <3> QED
      BY <3>1, <3>2
  <2> QED
    BY <1>k, <1>1, <1>2, <1>4, <2>3, <2>4, DecidedBy DEF RightResult
<1> QED
  BY <1>3, <1>4

LEMMA StepSeen ==
    ASSUME SafetyInv, NEW t \in Threads, OwnStep(t), MemInv',
           \/ Call(t) \/ New(t) \/ lock(t) \/ busy(t) \/ elide(t) \/ xbegin(t)
           \/ First(t) \/ Look(t) \/ Link(t) \/ Unlink(t)
           \/ leave(t) \/ Delete(t) \/ Return(t) \/ Aborted(t)
           \/ HardwareAbort(t) /\ ~exited
                /\ UNCHANGED <<kind, allocated, exited, pc, locals>>
    PROVE  Unseen(t) \/ Called(t) \/ Decided(t) \/ Returned(t)
<1>m. /\ MemInv /\ ExclInv /\ OwnInv /\ HeapInv /\ TypeOK /\ ControlInv(t)
      /\ op[t] \in {"insert", "remove", "contains"} /\ value[t] \in Values
  BY Known DEF SafetyInv
<1>1. CASE Call(t)
  <2>1. /\ pc[t] = "idle" /\ pc'[t] \in {"new", "enter"}
        /\ \E o \in {"insert", "remove", "contains"}, v \in Values :
             op'[t] = o /\ value'[t] = v
    BY <1>m, <1>1 DEF Call, At, Goto, TypeOK
  <2>2. Contents' = Contents
    BY <1>m, <1>1, CallHeap
  <2> QED
    BY <2>1, <2>2 DEF Called, CallOf, AnswerOf, Answered
<1>2. CASE Return(t)
  <2>1. pc[t] = "return" /\ pc'[t] = "idle"
    BY <1>m, <1>2 DEF Return, At, Goto, TypeOK
  <2>2. Contents' = Contents
    BY <1>m, <1>2, CallHeap
  <2> QED
    BY <2>1, <2>2 DEF Returned, CallOf, AnswerOf, Answered
<1>3. CASE Delete(t)
  <2>1. /\ pc[t] = "delete" /\ pc'[t] = "return"
        /\ op' = op /\ value' = value /\ result' = result
    BY <1>m, <1>3 DEF Delete, At, Goto, TypeOK, locals
  <2>2. Contents' = Contents
    BY <1>m, <1>3, DeleteHeap
  <2> QED
    BY <2>1, <2>2 DEF Unseen, CallOf, AnswerOf, Answered
<1>4. CASE \/ New(t) \/ lock(t) \/ elide(t) \/ xbegin(t)
           \/ First(t) \/ Look(t)
  <2>1. /\ pc[t] \in {"new", "enter", "first", "look"}
        /\ op' = op /\ value' = value
    BY <1>4 DEF New, lock, elide, xbegin, First, Look, At, locals
  <2>2. CASE Look(t)
    <3>1. /\ pc'[t] \in {"look", "leave", "new", "link", "unlink"}
          /\ op[t] # "contains" => ~result'[t]
      BY <1>m, <2>2 DEF Look, Continue, Goto, TypeOK
    <3>2. Contents' = Contents
      BY <1>m, <2>2, LookHeap
    <3> QED
      BY <2>1, <3>1, <3>2 DEF Unseen, CallOf, AnswerOf, Answered
  <2>3. CASE New(t) \/ lock(t) \/ elide(t) \/ xbegin(t) \/ First(t)
    <3>1. /\ pc'[t] \in {"enter", "first", "look", "leave", "new", "link"}
          /\ pc'[t] = "leave" => ~result'[t]
      BY <1>m, <2>3 DEF New, lock, elide, xbegin, First, Continue, At, Goto,
                        TypeOK, ControlInv
    <3>2. Contents' = Contents
      BY <1>m, <2>3, NewHeap, EnterHeap, FirstHeap
    <3> QED
      BY <2>1, <3>1, <3>2 DEF Unseen, CallOf, AnswerOf, Answered
  <2> QED
    BY <1>4, <2>2, <2>3
<1>b. CASE busy(t)
  <2>1. UNCHANGED <<mem, tx, code, rset, wset, wbuf, kind, allocated, exited, pc,
                    op, value, prev_item, item, insert_item, result>>
    BY <1>b DEF busy, txVars
  <2>2. Contents' = Contents
    BY <1>b, <2>1, SameSafety
  <2> QED
    BY <2>1, <2>2 DEF Unseen, CallOf, AnswerOf, Answered
<1>5. CASE Link(t) \/ Unlink(t)
  <2>1. CASE xtest(t)
    <3>1. /\ pc[t] \in {"link", "unlink"} /\ pc'[t] = "leave"
          /\ op' = op /\ value' = value
      BY <1>m, <1>5 DEF Link, Unlink, At, Goto, TypeOK
    <3>2. tx'[t] = "active"
      <4>1. PICK l, v : Store(t, l, v)
        BY <1>5 DEF Link, Unlink, SetPointer
      <4> QED
        BY <1>m, <2>1, <4>1 DEF Store, Abort, UsersOf, TypeOK, TsxTypeOK, xtest
    <3>3. Contents' = Contents
      BY <1>m, <1>5, <2>1, BufferedHeap
    <3> QED
      BY <3>1, <3>2, <3>3 DEF Unseen, CallOf, AnswerOf, Answered
  <2> QED
    BY <1>5, <2>1, ChangeDecides
<1>6. CASE leave(t)
  BY <1>6, LeaveDecides
<1>7. CASE Aborted(t)
  <2>1. /\ tx[t] = "aborted" /\ pc'[t] = "enter" /\ op' = op /\ value' = value
    BY <1>m, <1>7 DEF Aborted, Rollback, Goto, TypeOK
  <2>2. pc[t] \notin {"idle", "delete", "return"}
    BY <1>m, <2>1 DEF ControlInv, InSection
  <2>3. Contents' = Contents
    BY <1>m, <1>7, AbortedHeap
  <2> QED
    BY <2>1, <2>2, <2>3 DEF Unseen, CallOf, AnswerOf, Answered
<1>8. CASE /\ HardwareAbort(t) /\ ~exited
           /\ UNCHANGED <<kind, allocated, exited, pc, locals>>
  <2>1. tx[t] = "active" /\ tx'[t] = "aborted"
    BY <1>m, <1>8 DEF HardwareAbort, Abort, xtest, TypeOK, TsxTypeOK
  <2>2. Contents' = Contents
    BY <1>m, <1>8, HardwareHeap
  <2> QED
    BY <1>8, <2>1, <2>2 DEF Unseen, CallOf, AnswerOf, Answered, locals
<1> QED
  BY <1>1, <1>2, <1>3, <1>4, <1>b, <1>5, <1>6, <1>7, <1>8

LEMMA Pairs ==
    \A x, y : <<x, y>> # <<>> /\ <<x>> # <<>>
OBVIOUS

\* A step of t is a step of AtomicSet, or changes nothing there.
LEMMA StepRefines ==
    ASSUME MemInv, NEW t \in Threads, OwnStep(t),
           Unseen(t) \/ Called(t) \/ Decided(t) \/ Returned(t)
    PROVE  [Abstract!Next]_<<Contents, Calls, Answers>>
<1>1. /\ Calls' = [Calls EXCEPT ![t] = CallOf(t)']
      /\ Answers' = [Answers EXCEPT ![t] = AnswerOf(t)']
      /\ Calls[t] = CallOf(t) /\ Answers[t] = AnswerOf(t)
      /\ Calls = [u \in Threads |-> Calls[u]]
      /\ Answers = [u \in Threads |-> Answers[u]]
  BY OthersAsBefore DEF Calls, Answers
<1>2. ASSUME Unseen(t) PROVE UNCHANGED <<Contents, Calls, Answers>>
  BY <1>1, <1>2 DEF Unseen
<1>3. ASSUME Called(t) PROVE Abstract!Call(t)
  <2>1. PICK o \in {"insert", "remove", "contains"}, v \in Values :
          CallOf(t)' = <<o, v>>
    BY <1>3 DEF Called
  <2>2. /\ Calls[t] = <<>> /\ Calls' = [Calls EXCEPT ![t] = <<o, v>>]
        /\ Contents' = Contents /\ Answers' = Answers
    BY <1>1, <1>3, <2>1 DEF Called
  <2> QED
    BY <2>2 DEF Abstract!Call, Abstract!Operations, Calls, Answers, Contents,
                CallOf, AnswerOf, Answered
<1>4. ASSUME Decided(t) PROVE Abstract!Do(t)
  <2>1. op[t] \in {"insert", "remove", "contains"} /\ value[t] \in Values
    BY Known
  <2>2. /\ Calls[t] = <<op[t], value[t]>> /\ Calls[t] # <<>> /\ Answers[t] = <<>>
        /\ Calls' = Calls
    BY <1>1, <1>4, Pairs DEF Decided, CallOf, AnswerOf
  <2>3. /\ Contents' = CASE op[t] = "insert" -> Contents \cup {value[t]}
                         [] op[t] = "remove" -> Contents \ {value[t]}
                         [] op[t] = "contains" -> Contents
        /\ Answers' = [Answers EXCEPT ![t] =
                         <<IF op[t] = "insert" THEN value[t] \notin Contents
                           ELSE value[t] \in Contents>>]
    BY <1>1, <1>4 DEF Decided
  <2> QED
    BY <2>1, <2>2, <2>3 DEF Abstract!Do, Abstract!Operations, Calls, Answers,
                            Contents, CallOf, AnswerOf, Answered
<1>5. ASSUME Returned(t) PROVE Abstract!Return(t)
  <2>1. /\ Answers[t] # <<>> /\ Contents' = Contents
        /\ Calls' = [Calls EXCEPT ![t] = <<>>]
        /\ Answers' = [Answers EXCEPT ![t] = <<>>]
    BY <1>1, <1>5, Pairs DEF Returned, AnswerOf
  <2> QED
    BY <2>1 DEF Abstract!Return, Calls, Answers, Contents, CallOf, AnswerOf,
                Answered
<1> QED
  BY <1>2, <1>3, <1>4, <1>5 DEF Abstract!Next

\* The destructor empties the set.
LEMMA DestroyRefines ==
    ASSUME SafetyInv, Destroy PROVE Abstract!Clear
<1>1. Contents' = {}
  BY DestroySafety
<1>2. /\ UNCHANGED <<tx, pc, op, value, result>>
      /\ \A t \in Threads : pc[t] = "idle"
  BY DEF Destroy, locals
<1>3. /\ Calls' = Calls /\ Answers' = Answers
      /\ \A t \in Threads : Calls[t] = <<>>
  BY <1>2 DEF Calls, Answers, CallOf, AnswerOf, Answered
<1> QED
  BY <1>1, <1>3 DEF Abstract!Clear, Contents, Calls, Answers, CallOf, AnswerOf,
                    Answered

LEMMA NextRefines ==
    ASSUME SafetyInv, [Next]_vars
    PROVE  [Abstract!Next]_<<Contents, Calls, Answers>>
<1>1. CASE Destroy
  BY <1>1, DestroyRefines DEF Abstract!Next
<1>2. ASSUME NEW t \in Threads,
             \/ Call(t) \/ New(t) \/ lock(t) \/ busy(t) \/ elide(t) \/ xbegin(t)
             \/ First(t) \/ Look(t) \/ Link(t) \/ Unlink(t)
             \/ leave(t) \/ Delete(t) \/ Return(t) \/ Aborted(t)
             \/ HardwareAbort(t) /\ ~exited
                  /\ UNCHANGED <<kind, allocated, exited, pc, locals>>
      PROVE  [Abstract!Next]_<<Contents, Calls, Answers>>
  <2>1. MemInv /\ MemInv' /\ OwnStep(t)
    BY <1>2, MemOfStep DEF SafetyInv
  <2>2. Unseen(t) \/ Called(t) \/ Decided(t) \/ Returned(t)
    BY <1>2, <2>1, StepSeen
  <2> QED
    BY <2>1, <2>2, StepRefines
<1>3. CASE UNCHANGED vars
  <2>1. UNCHANGED <<mem, tx, pc, op, value, result>>
    BY <1>3 DEF vars, txVars, locals
  <2>2. UNCHANGED Contents
    BY <2>1 DEF Contents, Linked, Items
  <2>3. UNCHANGED <<Calls, Answers>>
    BY <2>1 DEF Calls, Answers, CallOf, AnswerOf, Answered
  <2> QED
    BY <2>2, <2>3
<1> QED
  BY <1>1, <1>2, <1>3 DEF Next

LEMMA InitRefines == Init => Abstract!Init
<1> SUFFICES ASSUME Init PROVE Abstract!Init
  OBVIOUS
<1>1. SafetyInv /\ allocated = {} /\ \A t \in Threads : pc[t] = "idle"
  BY InitSafety DEF Init
<1>2. PICK B \in [Buckets -> SUBSET Cells], R \in [Cells -> Nat] : Lists(B, R)
  BY <1>1 DEF SafetyInv, HeapInv
<1>3. \A h \in Buckets : B[h] = {}
  BY <1>1, <1>2 DEF Lists
<1>4. Contents = {}
  BY <1>2, <1>3, ContentsAre
<1>5. /\ Calls = [t \in Threads |-> <<>>]
      /\ Answers = [t \in Threads |-> <<>>]
  BY <1>1 DEF Calls, Answers, CallOf, AnswerOf, Answered
<1> QED
  BY <1>4, <1>5 DEF Abstract!Init, Contents, Calls, Answers, CallOf, AnswerOf,
                    Answered

\* The three maps implement a set on which insert, remove and contains act at
\* one moment between call and return and answer correctly, for any number of
\* threads, buckets, values and cells, with locks elided or not: the store
\* that links or unlinks under a lock is that moment, otherwise the commit or
\* the unlock (HashMap.cpp, HashMap-global.cpp, HashMap-rtm.cpp).
THEOREM ImplementsAtomicSet == Spec => AtomicOperations
<1>1. SafetyInv /\ [Next]_vars => [Abstract!Next]_<<Contents, Calls, Answers>>
  BY NextRefines
<1> QED
  BY <1>1, InitRefines, SafetyInvariant, PTL
     DEF Spec, AtomicOperations, Abstract!Spec, Contents, Calls, Answers,
         CallOf, AnswerOf, Answered

=============================================================================

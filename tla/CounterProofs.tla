--------------------------- MODULE CounterProofs ---------------------------
(***************************************************************************)
(* The shared counters lose no increment without a message (Counter), for  *)
(* every kind of counter and any number of threads, cores and operations.  *)
(***************************************************************************)
EXTENDS Counter, SharedLemmas

USE DEF Transactional, lock_of

-----------------------------------------------------------------------------
(* The inductive invariants *)

InSection(w) == pc[w] \in {"load", "store", "leave"}
InLocked(w) == InSection(w) /\ tx[w] = "none"
InTx(w) == InSection(w) /\ xtest(w)

\* Where main and the threads are.
ControlInv ==
    /\ pc[Main] \in {"create", "reset", "stop", "join", "get", "done"}
    /\ tx[Main] = "none"
    /\ pc[Main] \in {"create", "reset", "stop"} => ~stop_run
    /\ \A w \in Workers :
         /\ pc[w] \in {"off", "test", "enter", "load", "store", "leave", "report",
                       "ended"}
         /\ ~InSection(w) => tx[w] = "none"
         /\ Transactional /\ InSection(w) => tx[w] # "none"
         /\ pc[w] = "enter" \/ InSection(w) => ops[w] < MaxOps
         /\ pc[w] \in {"report", "ended"} => stop_run
         /\ pc[w] = "ended" => operations_count[w] = ops[w]
         /\ pc[Main] = "create" => pc[w] = "off"
         /\ pc[Main] \in {"get", "done"} => pc[w] = "ended"

\* The lock words: a holder is alone, and a transaction subscribes.
LockInv ==
    ~Transactional =>
      \A w \in Workers :
        /\ InLocked(w) => mem[locker_of(w)] = 1
        /\ InTx(w) => locker_of(w) \in rset[w] /\ mem[locker_of(w)] = 0
        /\ \A u \in Workers :
             InLocked(w) /\ InLocked(u) /\ locker_of(w) = locker_of(u) => w = u

\* Transactions do not overlap, and only a transaction has buffered writes.
ExclInv ==
    /\ NoConflict
    /\ LockInv
    /\ \A t \in Threads : tx[t] = "none" => wset[t] = {}

\* What a thread knows of its counter is still so.
WorkerData(w) ==
    /\ wset[w] \subseteq {counter_of(w)}
    /\ pc[w] = "load" => wset[w] = {}
    /\ pc[w] = "store" /\ tx[w] # "aborted" => reg[w] = mem[counter_of(w)]
    /\ pc[w] = "store" /\ xtest(w) => wset[w] = {}
    /\ pc[w] \in {"store", "leave"} /\ xtest(w) => counter_of(w) \in rset[w]
    /\ pc[w] = "leave" /\ xtest(w)
         => /\ wset[w] = {counter_of(w)}
            /\ wbuf[w][counter_of(w)] = mem[counter_of(w)] + 1

DataInv ==
    /\ \A c \in Counters : mem[c] \in Nat
    /\ \A c \in Counters \ Used : mem[c] = 0
    /\ \A w \in Workers : WorkerData(w)

\* The increments of a thread that are in a counter or were given up: the one
\* of a holder shows before it is counted.
Done == [w \in Workers |->
           ops[w] + IF pc[w] = "leave" /\ tx[w] = "none" THEN 1 ELSE 0]

SumInv == SumOver(Done, Workers) = SumOver(mem, Counters) + messages

\* What main has added up.
Added == [c \in Counters |-> IF c \in got THEN mem[c] ELSE 0]

GotInv ==
    /\ pc[Main] \notin {"get", "done"} => got = {}
    /\ pc[Main] = "done" => got = Used
    /\ ~unread => actual = SumOver(Added, Counters)

CountInv ==
    TypeOK /\ ControlInv /\ ExclInv /\ DataInv /\ SumInv /\ GotInv

-----------------------------------------------------------------------------
(* Words and threads *)

LEMMA Remainder ==
    ASSUME NEW n \in Nat \ {0}, NEW x \in Nat
    PROVE  x % n \in 0 .. n - 1
OBVIOUS

LEMMA CountersFinite == IsFiniteSet(Counters)
<1>1. 1 \in Int /\ CORES \in Int
  BY CounterAssumption
<1> QED
  BY <1>1, FS_Interval DEF Counters

LEMMA Words ==
    /\ Counters \subseteq Loc /\ Used \subseteq Counters
    /\ Main \in Threads
    /\ \A w \in Workers :
         /\ w \in Threads /\ w # Main
         /\ counter_of(w) \in Used /\ counter_of(w) \in Counters
         /\ locker_of(w) \in Loc /\ locker_of(w) \notin Counters
<1>c. CORES \in Nat \ {0} /\ Loc = -CORES .. CORES /\ 1 \in 1 .. CORES
  BY CounterAssumption DEF CounterLoc
<1>1. Counters \subseteq Loc /\ Used \subseteq Counters
  BY <1>c DEF Counters, Used
<1>2. ASSUME NEW w \in Workers
      PROVE  counter_of(w) \in Used /\ counter_of(w) \in Counters
  <2>1. w \in Nat
    BY CounterAssumption
  <2>2. w % CORES \in 0 .. CORES - 1
    BY <1>c, <2>1, Remainder
  <2> QED
    BY <1>c, <2>2 DEF counter_of, Used, Counters
<1>3. ASSUME NEW w \in Workers
      PROVE  locker_of(w) \in Loc /\ locker_of(w) \notin Counters
  BY <1>c, <1>2 DEF locker_of, own_lock, globalLock, Counters
<1> QED
  BY <1>1, <1>2, <1>3, CounterAssumption

\* A step of t is none of the others'.
OwnStep(t) ==
    /\ OthersKept(t)
    /\ kind' = kind /\ mode' = mode
    /\ \A u \in Threads \ {t} : pc'[u] = pc[u] /\ reg'[u] = reg[u]
    /\ \A u \in Workers \ {t} : ops'[u] = ops[u]

LEMMA SameWords ==
    ASSUME kind' = kind, mode' = mode
    PROVE  /\ \A t \in Workers : counter_of(t)' = counter_of(t)
           /\ \A t \in Workers : locker_of(t)' = locker_of(t)
           /\ Used' = Used
BY DEF counter_of, locker_of, Used

-----------------------------------------------------------------------------
(* What a step of a thread leaves of the rest *)

\* Main has added up nothing yet.
LEMMA GotFrame ==
    ASSUME CountInv, NEW t \in Workers, pc[t] # "ended", pc'[Main] = pc[Main],
           UNCHANGED <<got, actual, unread>>
    PROVE  GotInv'
<1>1. pc[Main] \notin {"get", "done"} /\ got = {}
  BY DEF CountInv, ControlInv, GotInv
<1>2. ~unread' => actual' = SumOver(Added, Counters)
  BY DEF CountInv, GotInv
<1>3. Added' = Added
  BY <1>1 DEF Added
<1> QED
  BY <1>1, <1>2, <1>3 DEF GotInv

\* A step that counts nothing.
LEMMA SumKept ==
    ASSUME SumInv, messages' = messages, \A w \in Workers : Done'[w] = Done[w],
           \A c \in Counters : mem'[c] = mem[c]
    PROVE  SumInv'
<1>1. SumOver(Done', Workers) = SumOver(Done, Workers)
  BY SumSame, CounterAssumption
<1>2. SumOver(mem', Counters) = SumOver(mem, Counters)
  BY SumSame, CountersFinite
<1> QED
  BY <1>1, <1>2 DEF SumInv

\* One more increment of t, in its counter or given up with a message.
LEMMA SumStep ==
    ASSUME TypeOK, SumInv, NEW t \in Workers, NEW c \in Counters, NEW d \in 0 .. 1,
           \A w \in Workers : Done'[w] = IF w = t THEN Done[w] + 1 ELSE Done[w],
           \A k \in Counters : mem'[k] = IF k = c THEN mem[k] + d ELSE mem[k],
           messages' = messages + 1 - d
    PROVE  SumInv'
<1>1. \A w \in Workers : Done[w] \in Int
  BY DEF Done, TypeOK
<1>2. \A k \in Counters : mem[k] \in Int
  BY Words DEF TypeOK, TsxTypeOK
<1>3. messages \in Int /\ d \in Int
  BY DEF TypeOK
<1>4. SumOver(Done', Workers) = SumOver(Done, Workers) + 1
  BY <1>1, SumGrows, CounterAssumption
<1>5. SumOver(mem', Counters) = SumOver(mem, Counters) + d
  BY <1>2, <1>3, SumGrows, CountersFinite
<1>6. SumOver(mem, Counters) \in Int
  BY <1>2, SumIsInt, CountersFinite
<1> QED
  BY <1>3, <1>4, <1>5, <1>6 DEF SumInv

\* What the others know survives: the counters are as they were, or a store
\* to c aborts its readers and nobody else works on it.
LEMMA OthersData ==
    ASSUME CountInv, NEW t \in Workers, OwnStep(t), NEW c \in Counters,
           \A k \in Counters \ {c} : mem'[k] = mem[k],
           \/ mem'[c] = mem[c]
           \/ \A u \in Workers \ {t} :
                /\ c \in rset[u] => ~xtest(u)'
                /\ InLocked(u) => counter_of(u) # c
    PROVE  \A u \in Workers \ {t} : WorkerData(u)'
<1> SUFFICES ASSUME NEW u \in Workers \ {t}
             PROVE  WorkerData(u)'
  OBVIOUS
<1>1. /\ WorkerData(u) /\ u \in Threads \ {t} /\ counter_of(u) \in Counters
      /\ counter_of(u)' = counter_of(u)
  BY Words, SameWords DEF CountInv, DataInv, OwnStep
<1>2. /\ pc'[u] = pc[u] /\ reg'[u] = reg[u] /\ wset'[u] = wset[u]
      /\ wbuf'[u] = wbuf[u] /\ rset'[u] = rset[u]
      /\ tx'[u] = tx[u] \/ tx'[u] = "aborted"
  BY <1>1 DEF OwnStep, OthersKept
<1>3. ASSUME mem'[counter_of(u)] # mem[counter_of(u)]
      PROVE  counter_of(u) = c /\ ~InLocked(u) /\ (c \in rset[u] => ~xtest(u)')
  BY <1>1, <1>3
<1>4. CASE mem'[counter_of(u)] = mem[counter_of(u)]
  BY <1>1, <1>2, <1>4 DEF WorkerData, xtest
<1>5. CASE mem'[counter_of(u)] # mem[counter_of(u)]
  <2>1. tx[u] \in {"none", "active", "aborted"}
    BY <1>1 DEF CountInv, TypeOK, TsxTypeOK
  <2>2. pc[u] \in {"store", "leave"} => ~xtest(u)' /\ tx[u] # "none"
    BY <1>1, <1>2, <1>3, <1>5 DEF WorkerData, InLocked, InSection, xtest
  <2> QED
    BY <1>1, <1>2, <2>1, <2>2 DEF WorkerData, xtest
<1> QED
  BY <1>4, <1>5

\* A step that enters no section and touches no lock word.
LEMMA LockFrame ==
    ASSUME TypeOK, LockInv, NEW t \in Workers, OwnStep(t),
           \A l \in Loc \ Counters : mem'[l] = mem[l],
           InSection(t)' =>
             /\ InSection(t)
             /\ tx'[t] = "none" => tx[t] = "none"
             /\ tx'[t] = "active" => tx[t] = "active" /\ rset[t] \subseteq rset'[t]
    PROVE  LockInv'
<1>1. ASSUME NEW u \in Workers
      PROVE  /\ InLocked(u)' => InLocked(u)
             /\ InTx(u)' => InTx(u) /\ rset[u] \subseteq rset'[u]
             /\ mem'[locker_of(u)] = mem[locker_of(u)]
             /\ locker_of(u)' = locker_of(u)
  <2>1. mem'[locker_of(u)] = mem[locker_of(u)] /\ u \in Threads
    BY Words
  <2>2. locker_of(u)' = locker_of(u)
    BY SameWords DEF OwnStep
  <2>3. CASE u = t
    BY <2>1, <2>2, <2>3 DEF InLocked, InTx, xtest
  <2>4. CASE u # t
    BY <2>1, <2>2, <2>4 DEF OwnStep, OthersKept, InLocked, InTx, InSection, xtest
  <2> QED
    BY <2>3, <2>4
<1>2. kind' = kind
  BY DEF OwnStep
<1> QED
  BY <1>1, <1>2 DEF LockInv

\* A step without a memory access keeps the exclusion.
LEMMA StillExcl ==
    ASSUME TypeOK, ExclInv, NEW t \in Workers, OwnStep(t), UNCHANGED txVars,
           InSection(t)' => InSection(t)
    PROVE  ExclInv'
<1>1. UNCHANGED <<mem, tx, rset, wset>>
  BY DEF txVars
<1>2. NoConflict'
  BY <1>1 DEF ExclInv, NoConflict, xtest
<1>3. LockInv'
  BY <1>1, LockFrame DEF ExclInv
<1> QED
  BY <1>1, <1>2, <1>3 DEF ExclInv

\* No two threads that work on one counter are in the section, unless both
\* run transactions.
LEMMA Alone ==
    ASSUME CountInv, NEW t \in Workers, NEW u \in Workers, t # u,
           InLocked(t), InLocked(u) \/ InTx(u)
    PROVE  counter_of(t) # counter_of(u)
<1>1. ~Transactional
  BY DEF CountInv, ControlInv, InLocked
<1>2. counter_of(t) = counter_of(u) => locker_of(t) = locker_of(u)
  BY DEF locker_of
<1>3. locker_of(t) # locker_of(u)
  BY <1>1 DEF CountInv, ExclInv, LockInv
<1> QED
  BY <1>2, <1>3

\* An access of t, and what it does not touch.
LEMMA ControlFrame ==
    ASSUME TypeOK, ControlInv, NEW t \in Workers, OwnStep(t), pc[t] # "ended",
           stop_run' = stop_run,
           \A u \in Workers \ {t} : operations_count'[u] = operations_count[u],
           pc'[t] \in {"test", "enter", "load", "store", "leave", "report", "ended"},
           ~InSection(t)' => tx'[t] = "none",
           Transactional /\ InSection(t)' => tx'[t] # "none",
           pc'[t] = "enter" \/ InSection(t)' => ops'[t] < MaxOps,
           pc'[t] \in {"report", "ended"} => stop_run,
           pc'[t] = "ended" => operations_count'[t] = ops'[t],
           pc[t] # "off"
    PROVE  ControlInv'
<1>1. /\ pc'[Main] = pc[Main] /\ t \in Threads /\ kind' = kind
      /\ tx'[Main] = tx[Main]
  BY Words DEF OwnStep, OthersKept, ControlInv
<1>2. pc[Main] \notin {"create", "get", "done"}
  BY DEF ControlInv
<1>3. ASSUME NEW u \in Workers \ {t}
      PROVE  /\ pc'[u] = pc[u] /\ ops'[u] = ops[u]
             /\ InSection(u)' = InSection(u)
             /\ tx[u] = "none" <=> tx'[u] = "none"
  BY Words DEF OwnStep, OthersKept, InSection
<1> QED
  BY <1>1, <1>2, <1>3 DEF ControlInv

-----------------------------------------------------------------------------
(* The steps of a thread *)

\* What is known of a thread that can take a step.
LEMMA Known ==
    ASSUME CountInv, NEW t \in Workers
    PROVE  /\ TypeOK /\ TsxTypeOK /\ ControlInv /\ ExclInv /\ DataInv /\ SumInv
           /\ t \in Threads /\ t # Main /\ WorkerData(t)
           /\ counter_of(t) \in Counters /\ counter_of(t) \in Loc
           /\ locker_of(t) \in Loc /\ locker_of(t) \notin Counters
           /\ tx[t] \in {"none", "active", "aborted"}
           /\ pc \in [Threads -> {"off", "test", "enter", "load", "store", "leave",
                                  "report", "ended", "create", "reset", "stop",
                                  "join", "get", "done"}]
           /\ ops \in [Workers -> 0 .. MaxOps] /\ MaxOps \in Nat
           /\ reg \in [Threads -> Nat]
           /\ operations_count \in [Workers -> 0 .. MaxOps \cup {Garbage}]
           /\ \A c \in Counters : mem[c] \in Nat
BY Words, CounterAssumption DEF CountInv, TypeOK, TsxTypeOK, DataInv

\* The test of stop_run, and the report.
LEMMA QuietInv ==
    ASSUME CountInv, NEW t \in Workers, test(t) \/ report(t)
    PROVE  CountInv'
<1>k. /\ TypeOK /\ TsxTypeOK /\ ControlInv /\ ExclInv /\ DataInv /\ SumInv
      /\ t \in Threads /\ t # Main /\ WorkerData(t)
      /\ counter_of(t) \in Counters
  BY Known
<1>1. /\ UNCHANGED <<txVars, kind, mode, stop_run, locals, results>>
      /\ pc[t] \in {"test", "report"} /\ ~InSection(t)
      /\ UNCHANGED <<mem, tx, code, rset, wset, wbuf, reg, failures, ops, messages,
                     got, actual, unread>>
  BY DEF test, report, At, locals, results, txVars, InSection
<1>2. PICK l \in {"enter", "report", "ended"} : pc' = [pc EXCEPT ![t] = l]
  BY DEF test, report, Goto
<1>3. TypeOK'
  <2>1. operations_count' \in [Workers -> 0 .. MaxOps \cup {Garbage}]
    BY <1>k DEF test, report, TypeOK
  <2>2. TsxTypeOK'
    BY <1>k, <1>1 DEF TsxTypeOK
  <2> QED
    BY <1>k, <1>1, <1>2, <2>1, <2>2 DEF TypeOK
<1>4. OwnStep(t)
  BY <1>k, <1>1, <1>2, Words DEF OwnStep, OthersKept, TypeOK
<1>5. pc'[t] = l /\ ~InSection(t)'
  BY <1>k, <1>2, Known DEF InSection
<1>6. ControlInv'
  <2>1. \A u \in Workers \ {t} : operations_count'[u] = operations_count[u]
    BY <1>k DEF test, report, TypeOK
  <2>2. tx'[t] = "none"
    BY <1>k, <1>1 DEF ControlInv
  <2>3. l = "enter" => ops'[t] < MaxOps
    BY <1>1, <1>2, <1>5 DEF test, report, Goto, At
  <2>4. l \in {"report", "ended"} => stop_run
    BY <1>k, <1>2, <1>5, Known DEF test, report, Goto, At, ControlInv
  <2>5. l = "ended" => operations_count'[t] = ops'[t]
    BY <1>k, <1>1, <1>5, Known DEF test, report, Goto
  <2> QED
    BY <1>k, <1>1, <1>4, <1>5, <2>1, <2>2, <2>3, <2>4, <2>5, ControlFrame
<1>7. ExclInv'
  BY <1>k, <1>1, <1>4, <1>5, StillExcl
<1>8. DataInv'
  <2>1. \A u \in Workers \ {t} : WorkerData(u)'
    BY <1>k, <1>1, <1>4, OthersData
  <2>2. WorkerData(t)'
    BY <1>k, <1>1, <1>5, SameWords DEF WorkerData, InSection
  <2> QED
    BY <1>k, <1>1, <2>1, <2>2, SameWords DEF DataInv
<1>9. SumInv'
  <2>1. \A w \in Workers : Done'[w] = Done[w]
    BY <1>1, <1>4, <1>5, Words DEF Done, OwnStep, InSection
  <2> QED
    BY <1>k, <1>1, <2>1, SumKept
<1>10. GotInv'
  BY <1>k, <1>1, <1>4, Words, GotFrame DEF OwnStep
<1> QED
  BY <1>3, <1>6, <1>7, <1>8, <1>9, <1>10 DEF CountInv

\* What the steps that lock or start a transaction do to the lock words.
LEMMA EnterExcl ==
    ASSUME CountInv, NEW t \in Workers, OwnStep(t), pc[t] = "enter",
           pc'[t] = "load", tx[t] = "none",
           lock(t) \/ elide(t) \/ xbegin(t)
    PROVE  ExclInv'
<1> DEFINE lk == locker_of(t)
<1>k. /\ TypeOK /\ TsxTypeOK /\ t \in Threads /\ lk \in Loc /\ kind' = kind
      /\ ExclInv /\ wset[t] = {} /\ Workers \subseteq Threads
      /\ \A u \in Workers : locker_of(u) \in Loc
  BY Known, Words DEF OwnStep, ExclInv
<1>w. \A u \in Workers : locker_of(u)' = locker_of(u)
  BY SameWords DEF OwnStep
<1>o. \A u \in Workers \ {t} :
        /\ InLocked(u)' => InLocked(u)
        /\ InTx(u)' => InTx(u) /\ rset'[u] = rset[u] /\ tx'[u] = "active"
  BY <1>k DEF OwnStep, OthersKept, InLocked, InTx, InSection, xtest
<1>1. CASE lock(t)
  <2>1. Store(t, lk, 1) /\ mem[lk] = 0 /\ ~Transactional
    BY <1>1 DEF lock
  <2> HIDE DEF lk
  <2>2. /\ OnlyAborts(t) /\ rset' = rset
        /\ \A k \in Loc \ {lk} : mem'[k] = mem[k]
        /\ wset' = wset /\ mem'[lk] = 1
        /\ \A u \in Threads \ {t} : lk \in rset[u] => tx'[u] # "active"
    BY <1>k, <2>1, StoreEffect DEF xtest
  <2>3. tx'[t] = "none"
    BY <1>k, <2>2 DEF OnlyAborts
  <2>4. NoConflict'
    BY <1>k, <2>1, StoreConflict DEF ExclInv
  <2>5. \A u \in Workers \ {t} : InLocked(u)' => locker_of(u) # lk /\ mem[locker_of(u)] = 1
    BY <1>k, <1>o, <2>1 DEF ExclInv, LockInv
  <2>6. \A u \in Workers \ {t} : InTx(u)' => locker_of(u) # lk /\ mem[locker_of(u)] = 0
    BY <1>k, <1>o, <2>1, <2>2 DEF ExclInv, LockInv
  <2>7. ~InTx(t)'
    BY <2>3 DEF InTx, xtest
  <2>8. ASSUME NEW u \in Workers
        PROVE  /\ InLocked(u)' => mem'[locker_of(u)] = 1
               /\ InTx(u)' => locker_of(u) \in rset'[u] /\ mem'[locker_of(u)] = 0
    <3>1. CASE u = t
      BY <2>2, <2>7, <3>1 DEF lk
    <3>2. CASE u # t
      BY <1>k, <1>o, <2>1, <2>2, <2>5, <2>6, <3>2 DEF ExclInv, LockInv
    <3> QED
      BY <3>1, <3>2
  <2>9. ASSUME NEW u \in Workers, NEW v \in Workers, InLocked(u)', InLocked(v)',
               locker_of(u) = locker_of(v)
        PROVE  u = v
    BY <1>k, <1>o, <2>1, <2>5, <2>9 DEF ExclInv, LockInv, lk
  <2>10. LockInv'
    BY <1>w, <2>8, <2>9 DEF LockInv
  <2>11. ASSUME NEW u \in Threads, tx'[u] = "none" PROVE wset'[u] = {}
    BY <1>k, <2>2, <2>11 DEF ExclInv, OnlyAborts
  <2> QED
    BY <2>4, <2>10, <2>11 DEF ExclInv
<1>2. CASE elide(t) \/ xbegin(t)
  <2>1. PICK reads : /\ Begin(t, reads) /\ reads \in SUBSET Loc
                     /\ ~Transactional => reads = {lk} /\ mem[lk] = 0
    <3>1. {lk} \in SUBSET Loc /\ {} \in SUBSET Loc
      BY <1>k
    <3> QED
      BY <1>2, <3>1 DEF elide, xbegin
  <2> HIDE DEF lk
  <2>2. /\ OthersKept(t) /\ mem' = mem
        /\ tx'[t] = "active" /\ rset'[t] = reads /\ wset' = wset
    BY <1>k, <2>1, BeginEffect
  <2>3. NoConflict'
    BY <1>k, <2>1, BeginConflict DEF ExclInv
  <2>4. ~InLocked(t)'
    BY <2>2 DEF InLocked
  <2>5. ASSUME NEW u \in Workers, ~Transactional
        PROVE  /\ InLocked(u)' => mem'[locker_of(u)] = 1
               /\ InTx(u)' => locker_of(u) \in rset'[u] /\ mem'[locker_of(u)] = 0
    <3>1. CASE u = t
      BY <2>1, <2>2, <2>4, <2>5, <3>1 DEF lk
    <3>2. CASE u # t
      BY <1>k, <1>o, <2>2, <2>5, <3>2 DEF ExclInv, LockInv
    <3> QED
      BY <3>1, <3>2
  <2>6. ASSUME NEW u \in Workers, NEW v \in Workers, InLocked(u)', InLocked(v)',
               locker_of(u) = locker_of(v), ~Transactional
        PROVE  u = v
    BY <1>k, <1>o, <2>4, <2>6 DEF ExclInv, LockInv
  <2>7. LockInv'
    BY <1>k, <1>w, <2>5, <2>6 DEF LockInv
  <2>8. ASSUME NEW u \in Threads, tx'[u] = "none" PROVE wset'[u] = {}
    BY <1>k, <2>2, <2>8 DEF ExclInv, OthersKept
  <2> QED
    BY <2>3, <2>7, <2>8 DEF ExclInv
<1> QED
  BY <1>1, <1>2

\* lock, elide and xbegin.
LEMMA EnterInv ==
    ASSUME CountInv, NEW t \in Workers, lock(t) \/ elide(t) \/ xbegin(t)
    PROVE  CountInv'
<1>k. /\ TypeOK /\ TsxTypeOK /\ ControlInv /\ ExclInv /\ DataInv /\ SumInv
      /\ t \in Threads /\ t # Main /\ WorkerData(t)
      /\ counter_of(t) \in Counters /\ locker_of(t) \in Loc
      /\ locker_of(t) \notin Counters
  BY Known
<1>1. /\ UNCHANGED <<kind, mode, stop_run, operations_count, locals, results>>
      /\ UNCHANGED <<reg, failures, ops, messages, got, actual, unread>>
      /\ pc[t] = "enter" /\ ~InSection(t) /\ pc' = [pc EXCEPT ![t] = "load"]
  BY DEF lock, elide, xbegin, At, locals, results, InSection, Goto
<1>2. pc'[t] = "load" /\ InSection(t)' /\ tx[t] = "none" /\ wset[t] = {}
  BY <1>k, <1>1, Known DEF InSection, ControlInv, ExclInv
<1>3. /\ TsxTypeOK' /\ OthersKept(t)
      /\ \A c \in Counters : mem'[c] = mem[c]
      /\ wset'[t] = {}
      /\ Transactional => tx'[t] # "none"
  <2>1. CASE lock(t)
    <3>1. Store(t, locker_of(t), 1) /\ ~Transactional
      BY <2>1 DEF lock
    <3> QED
      BY <1>k, <1>2, <3>1, StoreType, StoreEffect, AccessKeepsOthers, Words DEF xtest
  <2>2. CASE elide(t) \/ xbegin(t)
    <3>1. PICK reads : Begin(t, reads) /\ reads \in SUBSET Loc
      <4>1. {locker_of(t)} \in SUBSET Loc /\ {} \in SUBSET Loc
        BY <1>k
      <4> QED
        BY <2>2, <4>1 DEF elide, xbegin
    <3> QED
      BY <1>k, <1>2, <3>1, BeginType, BeginEffect
  <2> QED
    BY <2>1, <2>2
<1>4. TypeOK'
  BY <1>k, <1>1, <1>3 DEF TypeOK
<1>5. OwnStep(t)
  BY <1>k, <1>1, <1>3, Words DEF OwnStep, TypeOK
<1>6. ControlInv'
  BY <1>k, <1>1, <1>2, <1>3, <1>5, ControlFrame DEF ControlInv, InSection
<1>7. ExclInv'
  BY <1>1, <1>2, <1>5, EnterExcl
<1>8. DataInv'
  <2>1. \A u \in Workers \ {t} : WorkerData(u)'
    BY <1>k, <1>3, <1>5, OthersData
  <2>2. WorkerData(t)'
    BY <1>k, <1>2, <1>3 DEF WorkerData
  <2> QED
    BY <1>k, <1>1, <1>3, <2>1, <2>2, SameWords DEF DataInv
<1>9. SumInv'
  <2>1. \A w \in Workers : Done'[w] = Done[w]
    BY <1>1, <1>2, <1>5, Words DEF Done, OwnStep, OthersKept, InSection
  <2> QED
    BY <1>k, <1>1, <1>3, <2>1, SumKept
<1>10. GotInv'
  BY <1>k, <1>1, <1>5, Words, GotFrame DEF OwnStep
<1> QED
  BY <1>4, <1>6, <1>7, <1>8, <1>9, <1>10 DEF CountInv

\* The load of the counter.
LEMMA LoadInv ==
    ASSUME CountInv, NEW t \in Workers, load(t)
    PROVE  CountInv'
<1> DEFINE c == counter_of(t)
<1>k. /\ TypeOK /\ TsxTypeOK /\ ControlInv /\ ExclInv /\ DataInv /\ SumInv
      /\ t \in Threads /\ t # Main /\ WorkerData(t)
      /\ c \in Counters /\ c \in Loc
  BY Known
<1>1. /\ UNCHANGED <<kind, mode, stop_run, operations_count, failures, ops>>
      /\ UNCHANGED <<messages, got, actual, unread>>
      /\ pc[t] = "load" /\ tx[t] # "aborted" /\ InSection(t)
      /\ pc' = [pc EXCEPT ![t] = "store"]
      /\ Load(t, c) /\ reg' = [reg EXCEPT ![t] = Sees(t, c)]
  BY DEF load, At, results, InSection, Goto
<1>2. pc'[t] = "store" /\ InSection(t)' /\ wset[t] = {} /\ Sees(t, c) = mem[c]
      /\ mem[c] \in Nat
  BY <1>k, <1>1, Known DEF InSection, WorkerData, Sees
<1>3. c' = c
  BY <1>1, SameWords
<1> HIDE DEF c
<1>4. /\ TsxTypeOK' /\ OthersKept(t) /\ tx'[t] = tx[t] /\ OnlyAborts(t)
      /\ mem' = mem /\ wset' = wset /\ rset[t] \subseteq rset'[t]
      /\ xtest(t) => c \in rset'[t]
  BY <1>k, <1>1, LoadType, LoadEffect, AccessKeepsOthers
<1>5. TypeOK'
  BY <1>k, <1>1, <1>2, <1>4 DEF TypeOK
<1>6. OwnStep(t)
  BY <1>k, <1>1, <1>4, Words DEF OwnStep, TypeOK
<1>7. ControlInv'
  BY <1>k, <1>1, <1>2, <1>4, <1>6, ControlFrame DEF ControlInv, InSection
<1>8. ExclInv'
  <2>1. NoConflict'
    BY <1>k, <1>1, LoadConflict DEF ExclInv
  <2>2. LockInv'
    BY <1>k, <1>1, <1>4, <1>6, LockFrame DEF ExclInv
  <2> QED
    BY <1>k, <1>4, <2>1, <2>2 DEF ExclInv, OnlyAborts
<1>9. DataInv'
  <2>1. \A u \in Workers \ {t} : WorkerData(u)'
    BY <1>k, <1>4, <1>6, OthersData
  <2>2. reg'[t] = mem'[c]
    BY <1>k, <1>1, <1>2, <1>4, Known
  <2>3. WorkerData(t)'
    BY <1>k, <1>2, <1>3, <1>4, <2>2 DEF WorkerData, xtest, c
  <2> QED
    BY <1>k, <1>1, <1>4, <2>1, <2>3, SameWords DEF DataInv
<1>10. SumInv'
  <2>1. \A w \in Workers : Done'[w] = Done[w]
    BY <1>1, <1>2, <1>6, Words DEF Done, OwnStep, OthersKept, InSection
  <2> QED
    BY <1>k, <1>1, <1>4, <2>1, SumKept
<1>11. GotInv'
  BY <1>k, <1>1, <1>6, Words, GotFrame DEF OwnStep
<1> QED
  BY <1>5, <1>7, <1>8, <1>9, <1>10, <1>11 DEF CountInv

\* The store of the counter: of a holder into memory, else into the buffer.
LEMMA StoreInv ==
    ASSUME CountInv, NEW t \in Workers, store(t)
    PROVE  CountInv'
<1> DEFINE c == counter_of(t)
<1>k. /\ TypeOK /\ TsxTypeOK /\ ControlInv /\ ExclInv /\ DataInv /\ SumInv
      /\ t \in Threads /\ t # Main /\ WorkerData(t)
      /\ c \in Counters /\ c \in Loc /\ c \in Used
  BY Known, Words
<1>1. /\ UNCHANGED <<kind, mode, stop_run, operations_count, failures, ops>>
      /\ UNCHANGED <<messages, got, actual, unread>>
      /\ pc[t] = "store" /\ tx[t] # "aborted" /\ InSection(t)
      /\ pc' = [pc EXCEPT ![t] = "leave"]
      /\ Store(t, c, reg[t] + 1) /\ reg' = [reg EXCEPT ![t] = 0]
  BY DEF store, At, results, InSection, Goto
<1>2. /\ pc'[t] = "leave" /\ InSection(t)' /\ mem[c] \in Nat
      /\ reg[t] + 1 = mem[c] + 1 /\ reg[t] + 1 \in Int
      /\ tx[t] \in {"none", "active"}
      /\ xtest(t) => wset[t] = {} /\ c \in rset[t]
  BY <1>k, <1>1, Known DEF InSection, WorkerData
<1>3. c' = c /\ Used' = Used
  BY <1>1, SameWords
<1>a. \A u \in Workers \ {t} : InLocked(t) /\ InLocked(u) => counter_of(u) # c
  BY Alone
<1>b. \A u \in Workers : counter_of(u)' = counter_of(u)
  BY <1>1, SameWords
<1>c. WorkerData(t)' <=>
        /\ wset'[t] \subseteq {c}
        /\ xtest(t)' => /\ c \in rset'[t] /\ wset'[t] = {c}
                        /\ wbuf'[t][c] = mem'[c] + 1
  BY <1>2, <1>3 DEF WorkerData
<1> HIDE DEF c
<1>4. /\ TsxTypeOK' /\ OthersKept(t) /\ tx'[t] = tx[t] /\ OnlyAborts(t)
      /\ rset' = rset
      /\ \A k \in Loc \ {c} : mem'[k] = mem[k]
      /\ \A u \in Threads \ {t} : wset'[u] = wset[u]
      /\ ~xtest(t) => wset' = wset /\ mem'[c] = mem[c] + 1
      /\ xtest(t) => /\ mem' = mem /\ wset'[t] = {c}
                     /\ wbuf'[t][c] = mem[c] + 1
      /\ \A u \in Threads \ {t} : c \in rset[u] => tx'[u] # "active"
  <2>1. Store(t, c, reg[t] + 1) /\ reg[t] + 1 \in Int
    BY <1>1, <1>2
  <2>2. OthersKept(t) /\ tx'[t] = tx[t]
    BY <1>k, <2>1, AccessKeepsOthers
  <2>3. xtest(t) => /\ mem' = mem /\ wset'[t] = {c}
                    /\ wbuf'[t][c] = mem[c] + 1
    BY <1>k, <1>2, <2>1 DEF Store, TsxTypeOK
  <2> QED
    BY <1>k, <1>2, <2>1, <2>2, <2>3, StoreType, StoreEffect
<1>5. TypeOK'
  BY <1>k, <1>1, <1>4 DEF TypeOK
<1>6. OwnStep(t)
  BY <1>k, <1>1, <1>4, Words DEF OwnStep, TypeOK
<1>7. ControlInv'
  BY <1>k, <1>1, <1>2, <1>4, <1>6, ControlFrame DEF ControlInv, InSection
<1>8. ExclInv'
  <2>1. NoConflict'
    BY <1>k, <1>1, <1>2, StoreConflict DEF ExclInv
  <2>2. \A l \in Loc \ Counters : mem'[l] = mem[l]
    BY <1>k, <1>4
  <2>3. LockInv'
    BY <1>k, <1>1, <1>4, <1>6, <2>2, LockFrame DEF ExclInv
  <2>4. ASSUME NEW u \in Threads, tx'[u] = "none" PROVE wset'[u] = {}
    BY <1>k, <1>4, <2>4 DEF ExclInv, OnlyAborts, xtest
  <2> QED
    BY <2>1, <2>3, <2>4 DEF ExclInv
<1>m. \A k \in Counters \ {c} : mem'[k] = mem[k]
  BY <1>4, Words
<1>9. DataInv'
  <2>1. ASSUME mem'[c] # mem[c], NEW u \in Workers \ {t}
        PROVE  (c \in rset[u] => ~xtest(u)') /\ (InLocked(u) => counter_of(u) # c)
    <3>1. ~xtest(t) /\ InLocked(t)
      BY <1>1, <1>2, <1>4, <2>1 DEF InLocked, xtest
    <3> QED
      BY <1>4, <1>a, <3>1, Words DEF xtest
  <2>2. \A u \in Workers \ {t} : WorkerData(u)'
    BY <1>k, <1>m, <1>6, <2>1, OthersData
  <2>3. WorkerData(t)'
    BY <1>c, <1>k, <1>2, <1>4 DEF xtest, ExclInv
  <2>4. \A k \in Counters : mem'[k] \in Nat
    BY <1>m, <1>k, <1>2, <1>4 DEF DataInv
  <2>5. \A k \in Counters \ Used' : mem'[k] = 0
    BY <1>m, <1>k, <1>3 DEF DataInv
  <2> QED
    BY <2>2, <2>3, <2>4, <2>5 DEF DataInv
<1>10. SumInv'
  <2>0. \A w \in Workers \ {t} : Done'[w] = Done[w]
    BY <1>1, <1>6, Words DEF Done, OwnStep, OthersKept
  <2>1. Done[t] = ops[t] /\ ops[t] \in Nat
    BY <1>1, Known DEF Done
  <2>2. CASE xtest(t)
    <3>1. Done'[t] = Done[t]
      BY <1>1, <1>2, <1>4, <2>1, <2>2 DEF Done, xtest
    <3> QED
      BY <1>k, <1>1, <1>4, <2>0, <2>2, <3>1, SumKept
  <2>3. CASE ~xtest(t)
    <3>1. Done'[t] = Done[t] + 1
      BY <1>1, <1>2, <1>4, <2>1, <2>3 DEF Done, xtest
    <3>2. \A w \in Workers : Done'[w] = IF w = t THEN Done[w] + 1 ELSE Done[w]
      BY <2>0, <3>1
    <3>3. \A k \in Counters : mem'[k] = IF k = c THEN mem[k] + 1 ELSE mem[k]
      BY <1>m, <1>4, <2>3
    <3>4. messages' = messages + 1 - 1
      BY <1>1, <1>k DEF TypeOK
    <3> QED
      BY <1>k, <3>2, <3>3, <3>4, SumStep
  <2> QED
    BY <2>2, <2>3
<1>11. GotInv'
  BY <1>k, <1>1, <1>6, Words, GotFrame DEF OwnStep
<1> QED
  BY <1>5, <1>7, <1>8, <1>9, <1>10, <1>11 DEF CountInv

\* An unlock.
LEMMA UnlockExcl ==
    ASSUME CountInv, NEW t \in Workers, OwnStep(t),
           Store(t, locker_of(t), 0), InLocked(t), ~InSection(t)'
    PROVE  ExclInv'
<1> DEFINE lk == locker_of(t)
<1>k. /\ TypeOK /\ TsxTypeOK /\ ExclInv /\ lk \in Loc /\ kind' = kind
      /\ tx[t] = "none" /\ t \in Threads
      /\ \A u \in Workers : locker_of(u) \in Loc /\ u \in Threads
  BY Known, Words DEF OwnStep, InLocked
<1>o. \A u \in Workers \ {t} :
        /\ locker_of(u)' = locker_of(u)
        /\ InLocked(u)' => InLocked(u)
        /\ InTx(u)' => InTx(u) /\ rset'[u] = rset[u] /\ tx'[u] = "active"
  BY <1>k, SameWords DEF OwnStep, OthersKept, InLocked, InTx, InSection, xtest
<1>n. ~InLocked(t)' /\ ~InTx(t)'
  BY DEF InLocked, InTx
<1>1. Store(t, lk, 0)
  OBVIOUS
<1>l. \A u \in Workers \ {t} : ~Transactional /\ InLocked(u) => locker_of(u) # lk
  BY <1>k DEF ExclInv, LockInv
<1> HIDE DEF lk
<1>2. /\ OnlyAborts(t) /\ rset' = rset
      /\ \A k \in Loc \ {lk} : mem'[k] = mem[k]
      /\ wset' = wset
      /\ \A u \in Threads \ {t} : lk \in rset[u] => tx'[u] # "active"
  BY <1>k, <1>1, StoreEffect DEF xtest
<1>3. NoConflict'
  BY <1>k, <1>1, StoreConflict DEF ExclInv
<1>4. ASSUME NEW u \in Workers, ~Transactional
      PROVE  /\ InLocked(u)' => mem'[locker_of(u)] = 1
             /\ InTx(u)' => locker_of(u) \in rset'[u] /\ mem'[locker_of(u)] = 0
  BY <1>k, <1>o, <1>n, <1>l, <1>2, <1>4 DEF ExclInv, LockInv
<1>5. LockInv'
  BY <1>k, <1>o, <1>n, <1>4 DEF ExclInv, LockInv
<1>6. ASSUME NEW u \in Threads, tx'[u] = "none" PROVE wset'[u] = {}
  BY <1>k, <1>2, <1>6 DEF ExclInv, OnlyAborts
<1> QED
  BY <1>3, <1>5, <1>6 DEF ExclInv

\* The end of a transaction, committed or rolled back.
LEMMA EndExcl ==
    ASSUME CountInv, NEW t \in Workers, OwnStep(t), Commit(t) \/ Rollback(t),
           ~InSection(t)'
    PROVE  ExclInv'
<1>k. /\ TypeOK /\ TsxTypeOK /\ ExclInv /\ WorkerData(t) /\ t \in Threads
      /\ counter_of(t) \in Counters /\ Discard(t)
  BY Known DEF Commit, Rollback
<1>1. OthersKept(t) /\ tx'[t] = "none" /\ wset'[t] = {}
  BY <1>k, DiscardEffect
<1>2. \A l \in Loc \ Counters : mem'[l] = mem[l]
  BY <1>k DEF Commit, Rollback, WorkerData
<1>3. NoConflict'
  BY <1>k, <1>1, EndConflict DEF ExclInv
<1>4. LockInv'
  BY <1>k, <1>2, LockFrame DEF ExclInv
<1>5. ASSUME NEW u \in Threads, tx'[u] = "none" PROVE wset'[u] = {}
  BY <1>k, <1>1, <1>5 DEF ExclInv, OthersKept
<1> QED
  BY <1>3, <1>4, <1>5 DEF ExclInv

\* The end of the section: a commit or an unlock.
LEMMA LeaveInv ==
    ASSUME CountInv, NEW t \in Workers, leave(t)
    PROVE  CountInv'
<1> DEFINE c == counter_of(t)
<1>k. /\ TypeOK /\ TsxTypeOK /\ ControlInv /\ ExclInv /\ DataInv /\ SumInv
      /\ t \in Threads /\ t # Main /\ WorkerData(t)
      /\ c \in Counters /\ c \in Loc /\ c \in Used
      /\ locker_of(t) \in Loc /\ locker_of(t) \notin Counters
  BY Known, Words
<1>1. /\ UNCHANGED <<kind, mode, stop_run, operations_count, reg>>
      /\ UNCHANGED <<messages, got, actual, unread>>
      /\ pc[t] = "leave" /\ tx[t] # "aborted" /\ InSection(t)
      /\ pc' = [pc EXCEPT ![t] = "test"]
      /\ ops' = [ops EXCEPT ![t] = @ + 1]
      /\ failures' = [failures EXCEPT ![t] = 0]
  BY DEF leave, Counted, At, results, InSection, Goto
<1>2. /\ pc'[t] = "test" /\ ~InSection(t)' /\ mem[c] \in Nat
      /\ ops[t] \in Nat /\ ops[t] < MaxOps /\ ops'[t] = ops[t] + 1
      /\ tx[t] \in {"none", "active"}
  BY <1>k, <1>1, Known DEF InSection, ControlInv
<1>3. c' = c /\ Used' = Used
  BY <1>1, SameWords
<1>a. \A u \in Workers \ {t} : InTx(t) /\ InLocked(u) => counter_of(u) # c
  BY Alone
<1>c. wset'[t] = {} => WorkerData(t)'
  BY <1>2 DEF WorkerData
<1>w. xtest(t) => wset[t] = {c} /\ wbuf[t][c] = mem[c] + 1
  BY <1>k, <1>1 DEF WorkerData
<1> HIDE DEF c
<1>4. /\ TsxTypeOK' /\ OthersKept(t) /\ tx'[t] = "none" /\ wset'[t] = {}
      /\ \A k \in Counters \ {c} : mem'[k] = mem[k]
      /\ mem'[c] = IF xtest(t) THEN mem[c] + 1 ELSE mem[c]
      /\ IF xtest(t) THEN Commit(t) ELSE Store(t, locker_of(t), 0)
  <2>1. CASE xtest(t)
    <3>1. Commit(t) /\ Discard(t)
      BY <2>1 DEF leave, Commit
    <3>2. /\ mem'[c] = mem[c] + 1
          /\ \A k \in Counters \ {c} : mem'[k] = mem[k]
      BY <1>k, <1>w, <2>1, <3>1, Words DEF Commit
    <3> QED
      BY <1>k, <2>1, <3>1, <3>2, CommitType, DiscardEffect
  <2>2. CASE ~xtest(t)
    <3>1. Store(t, locker_of(t), 0) /\ tx[t] = "none"
      BY <1>2, <2>2 DEF leave, xtest
    <3>2. OthersKept(t) /\ tx'[t] = "none"
      BY <1>k, <3>1, AccessKeepsOthers
    <3>3. wset'[t] = {} /\ \A k \in Loc \ {locker_of(t)} : mem'[k] = mem[k]
      BY <1>k, <2>2, <3>1, StoreEffect DEF ExclInv
    <3> QED
      BY <1>k, <2>2, <3>1, <3>2, <3>3, StoreType, Words
  <2> QED
    BY <2>1, <2>2
<1>5. TypeOK'
  <2>1. ops' \in [Workers -> 0 .. MaxOps]
    BY <1>1, <1>2, Known
  <2> QED
    BY <1>k, <1>1, <1>4, <2>1, CounterAssumption DEF TypeOK
<1>6. OwnStep(t)
  BY <1>k, <1>1, <1>4, Words, Known DEF OwnStep
<1>7. ControlInv'
  BY <1>k, <1>1, <1>2, <1>4, <1>6, ControlFrame DEF ControlInv, InSection
<1>8. ExclInv'
  <2>1. ~xtest(t) => InLocked(t)
    BY <1>1, <1>2 DEF InLocked, xtest
  <2> QED
    BY <1>2, <1>4, <1>6, <2>1, UnlockExcl, EndExcl
<1>9. DataInv'
  <2>1. ASSUME mem'[c] # mem[c], NEW u \in Workers \ {t}
        PROVE  (c \in rset[u] => ~xtest(u)') /\ (InLocked(u) => counter_of(u) # c)
    <3>1. xtest(t) /\ InTx(t)
      BY <1>1, <1>4, <2>1 DEF InTx
    <3>2. u \in Threads \ {t} /\ (xtest(u)' => xtest(u))
      BY <1>4, Words DEF OthersKept, xtest
    <3>3. c \in rset[u] => ~xtest(u)
      BY <1>k, <1>w, <3>1, <3>2 DEF ExclInv, NoConflict
    <3> QED
      BY <1>a, <3>1, <3>2, <3>3
  <2>2. \A u \in Workers \ {t} : WorkerData(u)'
    BY <1>k, <1>4, <1>6, <2>1, OthersData
  <2>3. \A k \in Counters : mem'[k] \in Nat
    BY <1>k, <1>2, <1>4 DEF DataInv
  <2>4. \A k \in Counters \ Used' : mem'[k] = 0
    BY <1>k, <1>3, <1>4 DEF DataInv
  <2> QED
    BY <1>c, <1>4, <2>2, <2>3, <2>4 DEF DataInv
<1>10. SumInv'
  <2>0. \A w \in Workers \ {t} : Done'[w] = Done[w]
    BY <1>6, Words DEF Done, OwnStep, OthersKept
  <2>1. Done'[t] = ops[t] + 1
    BY <1>2 DEF Done
  <2>2. CASE ~xtest(t)
    <3>1. Done'[t] = Done[t]
      BY <1>1, <1>2, <2>1, <2>2 DEF Done, xtest
    <3> QED
      BY <1>k, <1>1, <1>4, <2>0, <2>2, <3>1, SumKept
  <2>3. CASE xtest(t)
    <3>1. Done'[t] = Done[t] + 1
      BY <1>2, <2>1, <2>3 DEF Done, xtest
    <3>2. \A w \in Workers : Done'[w] = IF w = t THEN Done[w] + 1 ELSE Done[w]
      BY <2>0, <3>1
    <3>3. \A k \in Counters : mem'[k] = IF k = c THEN mem[k] + 1 ELSE mem[k]
      BY <1>4, <2>3
    <3>4. messages' = messages + 1 - 1
      BY <1>1, <1>k DEF TypeOK
    <3> QED
      BY <1>k, <3>2, <3>3, <3>4, SumStep
  <2> QED
    BY <2>2, <2>3
<1>11. GotInv'
  BY <1>k, <1>1, <1>6, Words, GotFrame DEF OwnStep
<1> QED
  BY <1>5, <1>7, <1>8, <1>9, <1>10, <1>11 DEF CountInv

\* An aborted section starts again, or is given up with a message.
LEMMA AbortedInv ==
    ASSUME CountInv, NEW t \in Workers, Aborted(t)
    PROVE  CountInv'
<1>k. /\ TypeOK /\ TsxTypeOK /\ ControlInv /\ ExclInv /\ DataInv /\ SumInv
      /\ t \in Threads /\ t # Main /\ WorkerData(t)
      /\ counter_of(t) \in Counters
  BY Known
<1>1. /\ UNCHANGED <<kind, mode, stop_run, operations_count>>
      /\ UNCHANGED <<got, actual, unread>>
      /\ Rollback(t) /\ Discard(t) /\ mem' = mem /\ tx[t] = "aborted"
      /\ reg' = [reg EXCEPT ![t] = 0]
  BY DEF Aborted, Rollback
<1>2. /\ InSection(t) /\ ops[t] \in Nat /\ ops[t] < MaxOps
      /\ pc[t] \notin {"off", "ended"} /\ failures[t] \in 0 .. RTM_MAX_RETRIES
      /\ messages \in Nat /\ RTM_MAX_RETRIES \in Nat \ {0}
  BY <1>k, <1>1, Known, CounterAssumption DEF ControlInv, InSection, TypeOK
<1>3. /\ TsxTypeOK' /\ OthersKept(t) /\ tx'[t] = "none" /\ wset'[t] = {}
  BY <1>k, <1>1, RollbackType, DiscardEffect
<1>4. \/ /\ pc' = [pc EXCEPT ![t] = "enter"]
         /\ failures' \in [Threads -> 0 .. RTM_MAX_RETRIES]
         /\ ops' = ops /\ messages' = messages
      \/ /\ pc' = [pc EXCEPT ![t] = "test"]
         /\ failures' \in [Threads -> 0 .. RTM_MAX_RETRIES]
         /\ ops' = [ops EXCEPT ![t] = @ + 1] /\ messages' = messages + 1
  <2>1. CASE kind # "rtm" \/ retry(failures[t])
    <3> DEFINE f == CASE kind = "rtm" -> failures[t] + 1
                      [] kind = "unaligned_rtm" -> failures[t]
                      [] OTHER -> 1
    <3>1. /\ failures' = [failures EXCEPT ![t] = f]
          /\ pc' = [pc EXCEPT ![t] = "enter"]
          /\ ops' = ops /\ messages' = messages
      BY <2>1 DEF Aborted, Goto
    <3>2. f \in 0 .. RTM_MAX_RETRIES
      BY <1>2, <2>1 DEF retry
    <3> HIDE DEF f
    <3> QED
      BY <1>k, <3>1, <3>2 DEF TypeOK
  <2>2. CASE ~(kind # "rtm" \/ retry(failures[t]))
    <3>1. Counted(t) /\ messages' = messages + 1
      BY <2>2 DEF Aborted
    <3> QED
      BY <1>k, <1>2, <3>1 DEF Counted, Goto, TypeOK
  <2> QED
    BY <2>1, <2>2
<1>5. /\ pc'[t] \in {"enter", "test"} /\ ~InSection(t)'
      /\ \A u \in Threads \ {t} : pc'[u] = pc[u]
      /\ \A u \in Workers \ {t} : ops'[u] = ops[u]
      /\ pc'[t] = "enter" => ops'[t] = ops[t]
      /\ ops' \in [Workers -> 0 .. MaxOps] /\ messages' \in Nat
      /\ pc' \in [Threads -> {"off", "test", "enter", "load", "store", "leave",
                              "report", "ended", "create", "reset", "stop",
                              "join", "get", "done"}]
  BY <1>2, <1>4, Known DEF InSection
<1>6. TypeOK'
  BY <1>k, <1>1, <1>3, <1>4, <1>5 DEF TypeOK
<1>7. OwnStep(t)
  BY <1>k, <1>1, <1>3, <1>5 DEF OwnStep, TypeOK
<1>8. ControlInv'
  BY <1>k, <1>1, <1>2, <1>3, <1>5, <1>7, ControlFrame
<1>9. ExclInv'
  BY <1>1, <1>5, <1>7, EndExcl
<1>10. DataInv'
  <2>1. \A u \in Workers \ {t} : WorkerData(u)'
    BY <1>k, <1>1, <1>7, OthersData
  <2>2. WorkerData(t)'
    BY <1>3, <1>5 DEF WorkerData
  <2> QED
    BY <1>k, <1>1, <2>1, <2>2, SameWords DEF DataInv
<1>11. SumInv'
  <2>0. \A w \in Workers \ {t} : Done'[w] = Done[w]
    BY <1>7, Words DEF Done, OwnStep, OthersKept
  <2>1. Done'[t] = ops'[t] /\ Done[t] = ops[t]
    BY <1>1, <1>2, <1>5, Known DEF Done
  <2>2. CASE ops' = ops /\ messages' = messages
    <3>1. \A w \in Workers : Done'[w] = Done[w]
      BY <2>0, <2>1, <2>2
    <3> QED
      BY <1>k, <1>1, <2>2, <3>1, SumKept
  <2>3. CASE ops' = [ops EXCEPT ![t] = @ + 1] /\ messages' = messages + 1
    <3>1. Done'[t] = Done[t] + 1
      BY <2>1, <2>3, Known
    <3>2. \A w \in Workers : Done'[w] = IF w = t THEN Done[w] + 1 ELSE Done[w]
      BY <2>0, <3>1
    <3>3. \A k \in Counters :
            mem'[k] = IF k = counter_of(t) THEN mem[k] + 0 ELSE mem[k]
      BY <1>1, Known
    <3>4. messages' = messages + 1 - 0
      BY <1>2, <2>3
    <3> QED
      BY <1>k, <3>2, <3>3, <3>4, SumStep
  <2> QED
    BY <1>4, <2>2, <2>3
<1>12. GotInv'
  BY <1>k, <1>1, <1>2, <1>7, Words, GotFrame DEF OwnStep
<1> QED
  BY <1>6, <1>8, <1>9, <1>10, <1>11, <1>12 DEF CountInv

\* The processor aborts a transaction.
LEMMA HardwareInv ==
    ASSUME CountInv, NEW t \in Workers, HardwareAbort(t),
           UNCHANGED <<kind, mode, stop_run, operations_count, pc, locals, results>>
    PROVE  CountInv'
<1>k. /\ TypeOK /\ TsxTypeOK /\ ControlInv /\ ExclInv /\ DataInv /\ SumInv
      /\ t \in Threads /\ t # Main /\ WorkerData(t)
      /\ counter_of(t) \in Counters
  BY Known
<1>1. /\ UNCHANGED <<kind, mode, stop_run, operations_count, pc, reg, failures, ops>>
      /\ UNCHANGED <<messages, got, actual, unread>>
      /\ UNCHANGED <<mem, rset, wset, wbuf>> /\ tx[t] = "active"
  BY DEF HardwareAbort, locals, results, xtest
<1>2. PICK status \in AbortCodes : Abort({t}, status)
  BY DEF HardwareAbort, AbortCodes
<1>3. TsxTypeOK' /\ OthersKept(t) /\ tx'[t] = "aborted"
  BY <1>k, <1>1, <1>2, SelfAbortType, SelfAbortEffect
<1>4. InSection(t) /\ InSection(t)' /\ pc[t] \notin {"off", "ended"}
  BY <1>k, <1>1 DEF ControlInv, InSection
<1>5. TypeOK'
  BY <1>k, <1>1, <1>3 DEF TypeOK
<1>6. OwnStep(t)
  BY <1>1, <1>3 DEF OwnStep
<1>7. ControlInv'
  BY <1>k, <1>1, <1>3, <1>4, <1>6, ControlFrame DEF ControlInv, InSection
<1>8. ExclInv'
  <2>1. NoConflict'
    BY <1>k, <1>3, EndConflict DEF ExclInv
  <2>2. LockInv'
    BY <1>k, <1>1, <1>3, <1>4, <1>6, LockFrame DEF ExclInv
  <2> QED
    BY <1>k, <1>1, <1>3, <2>1, <2>2 DEF ExclInv, OthersKept
<1>9. DataInv'
  <2>1. \A u \in Workers \ {t} : WorkerData(u)'
    BY <1>k, <1>1, <1>6, OthersData
  <2>2. WorkerData(t)'
    BY <1>k, <1>1, <1>3, SameWords DEF WorkerData, xtest
  <2> QED
    BY <1>k, <1>1, <2>1, <2>2, SameWords DEF DataInv
<1>10. SumInv'
  <2>1. \A w \in Workers : Done'[w] = Done[w]
    BY <1>1, <1>3, <1>6, Words DEF Done, OwnStep, OthersKept
  <2> QED
    BY <1>k, <1>1, <2>1, SumKept
<1>11. GotInv'
  BY <1>k, <1>1, <1>4, GotFrame
<1> QED
  BY <1>5, <1>7, <1>8, <1>9, <1>10, <1>11 DEF CountInv

-----------------------------------------------------------------------------
(* The steps of main *)

\* Steps that leave memory, the counts and the places of the threads alone.
LEMMA MainFrame ==
    ASSUME CountInv, UNCHANGED <<mem, tx, rset, wset, wbuf, kind, mode, reg, ops, messages>>,
           \A w \in Workers : \/ pc'[w] = pc[w]
                              \/ pc[w] = "off" /\ pc'[w] = "test"
    PROVE  ExclInv' /\ DataInv' /\ SumInv'
<1>1. \A w \in Workers : /\ InLocked(w)' = InLocked(w) /\ InTx(w)' = InTx(w)
                         /\ locker_of(w)' = locker_of(w)
                         /\ counter_of(w)' = counter_of(w)
  BY SameWords DEF InLocked, InTx, InSection, xtest
<1>2. ExclInv'
  BY <1>1 DEF CountInv, ExclInv, LockInv, NoConflict, xtest
<1>3. ASSUME NEW w \in Workers PROVE WorkerData(w)'
  BY <1>1 DEF CountInv, DataInv, WorkerData, xtest
<1>4. DataInv'
  BY <1>3, SameWords DEF CountInv, DataInv
<1>5. SumInv'
  <2>1. \A w \in Workers : Done'[w] = Done[w]
    BY DEF Done
  <2> QED
    BY <2>1, SumKept DEF CountInv
<1> QED
  BY <1>2, <1>4, <1>5

LEMMA MainKnown ==
    ASSUME CountInv
    PROVE  /\ TypeOK /\ TsxTypeOK /\ ControlInv /\ GotInv /\ Main \in Threads
           /\ tx[Main] = "none" /\ \A w \in Workers : w \in Threads /\ w # Main
BY Words DEF CountInv, TypeOK, ControlInv

\* create, reset, stop, join and check.
LEMMA MainInv ==
    ASSUME CountInv, create \/ reset \/ stop \/ join \/ check
    PROVE  CountInv'
<1>k. /\ TypeOK /\ TsxTypeOK /\ ControlInv /\ GotInv /\ Main \in Threads
      /\ \A w \in Workers : w \in Threads /\ w # Main
  BY MainKnown
<1>1. /\ UNCHANGED <<txVars, kind, mode, locals, results>>
      /\ UNCHANGED <<mem, tx, code, rset, wset, wbuf, reg, failures, ops, messages,
                     got, actual, unread>>
  BY DEF create, reset, stop, join, check, txVars, locals, results
<1>2. /\ \A w \in Workers : \/ pc'[w] = pc[w]
                            \/ pc[w] = "off" /\ pc'[w] = "test"
      /\ create \/ \A w \in Workers : pc'[w] = pc[w]
      /\ pc' \in [Threads -> {"off", "test", "enter", "load", "store", "leave",
                              "report", "ended", "create", "reset", "stop",
                              "join", "get", "done"}]
      /\ create => pc'[Main] = "reset" /\ pc[Main] = "create"
      /\ reset => pc'[Main] = "stop" /\ pc[Main] = "reset"
      /\ stop => pc'[Main] = "join" /\ pc[Main] = "stop"
      /\ join => pc'[Main] = "get" /\ pc[Main] = "join"
      /\ check => pc'[Main] = "done" /\ pc[Main] = "get"
  BY <1>k DEF create, reset, stop, join, check, Goto, At, TypeOK, ControlInv
<1>3. ExclInv' /\ DataInv' /\ SumInv'
  BY <1>1, <1>2, MainFrame
<1>4. TypeOK'
  <2>1. TsxTypeOK'
    BY <1>k, <1>1 DEF TsxTypeOK
  <2>2. operations_count' \in [Workers -> 0 .. MaxOps \cup {Garbage}]
    BY <1>k, CounterAssumption DEF create, reset, stop, join, check, TypeOK
  <2>3. stop_run' \in BOOLEAN
    BY <1>k DEF create, reset, stop, join, check, TypeOK
  <2> QED
    BY <1>k, <1>1, <1>2, <2>1, <2>2, <2>3 DEF TypeOK
<1>5. ControlInv'
  <2>1. CASE create
    BY <1>k, <1>1, <1>2, <2>1 DEF ControlInv, InSection, create
  <2>2. CASE reset
    BY <1>k, <1>1, <1>2, <2>2 DEF ControlInv, InSection, reset
  <2>3. CASE stop
    BY <1>k, <1>1, <1>2, <2>3 DEF ControlInv, InSection, stop
  <2>4. CASE join
    BY <1>k, <1>1, <1>2, <2>4 DEF ControlInv, InSection, join
  <2>5. CASE check
    BY <1>k, <1>1, <1>2, <2>5 DEF ControlInv, InSection, check
  <2> QED
    BY <2>1, <2>2, <2>3, <2>4, <2>5
<1>6. GotInv'
  <2>1. Added' = Added
    BY <1>1 DEF Added
  <2>2. Used' = Used
    BY <1>1, SameWords
  <2>3. pc'[Main] = "done" => got' = Used'
    BY <1>1, <1>2, <2>2 DEF check
  <2>4. pc'[Main] \notin {"get", "done"} => got' = {}
    BY <1>k, <1>1, <1>2 DEF GotInv
  <2> QED
    BY <1>k, <1>1, <2>1, <2>3, <2>4 DEF GotInv
<1> QED
  BY <1>3, <1>4, <1>5, <1>6 DEF CountInv

\* get, with the value or without.
LEMMA GetInv ==
    ASSUME CountInv, NEW c \in Counters, get(c) \/ get_aborted(c)
    PROVE  CountInv'
<1>k. /\ TypeOK /\ TsxTypeOK /\ ControlInv /\ GotInv /\ Main \in Threads
      /\ tx[Main] = "none" /\ \A w \in Workers : w \in Threads /\ w # Main
  BY MainKnown
<1>1. /\ UNCHANGED <<kind, mode, stop_run, operations_count, pc, reg, ops, messages>>
      /\ pc[Main] = "get" /\ c \in Used \ got
  BY DEF get, get_aborted, At
<1>2. \A t \in Threads : tx[t] = "none"
  BY <1>k, <1>1, CounterAssumption DEF ControlInv, InSection
<1>3. UNCHANGED <<mem, tx, code, rset, wset, wbuf>>
  <2>1. CASE get(c)
    <3>1. Load(Main, c) /\ WritersOf(Main, c) = {} /\ ~xtest(Main)
      BY <1>k, <1>2, <2>1 DEF get, WritersOf, xtest
    <3> QED
      BY <1>k, <3>1 DEF Load, Abort, TsxTypeOK
  <2>2. CASE get_aborted(c)
    BY <2>2 DEF get_aborted, txVars
  <2> QED
    BY <2>1, <2>2
<1>4. ExclInv' /\ DataInv' /\ SumInv'
  BY <1>1, <1>3, MainFrame
<1>5. mem[c] \in Nat /\ \A k \in Counters : mem[k] \in Int
  BY <1>k DEF CountInv, DataInv
<1>6. \/ UNCHANGED <<got, actual, unread>>
      \/ \E n \in Nat : /\ actual' = actual + n /\ got' = got \cup {c}
                        /\ unread' \in BOOLEAN
                        /\ ~unread' => ~unread /\ n = mem[c]
  <2>1. CASE get(c)
    BY <1>k, <1>5, <2>1 DEF get, Add, TypeOK
  <2>2. CASE get_aborted(c)
    <3>1. CASE retry(failures[Main])
      BY <2>2, <3>1 DEF get_aborted
    <3>2. CASE ~retry(failures[Main])
      <4>1. PICK n \in 0 .. 1 : Add(c, n)
        BY <2>2, <3>2 DEF get_aborted
      <4>2. n \in Nat /\ unread' = TRUE
        BY <2>2, <3>2 DEF get_aborted
      <4> QED
        BY <4>1, <4>2 DEF Add
    <3> QED
      BY <3>1, <3>2
  <2> QED
    BY <2>1, <2>2
<1>7. failures' \in [Threads -> 0 .. RTM_MAX_RETRIES]
  <2>1. RTM_MAX_RETRIES \in Nat /\ failures[Main] \in 0 .. RTM_MAX_RETRIES
    BY <1>k, CounterAssumption DEF TypeOK
  <2> QED
    BY <1>k, <2>1 DEF get, get_aborted, retry, TypeOK
<1>8. TypeOK'
  <2>1. TsxTypeOK'
    BY <1>k, <1>3 DEF TsxTypeOK
  <2>2. actual' \in Nat /\ got' \in SUBSET Counters /\ unread' \in BOOLEAN
    BY <1>k, <1>6 DEF TypeOK
  <2> QED
    BY <1>k, <1>1, <1>7, <2>1, <2>2 DEF TypeOK
<1>9. ControlInv'
  BY <1>k, <1>1, <1>3 DEF ControlInv, InSection
<1>10. GotInv'
  <2>1. CASE UNCHANGED <<got, actual, unread>>
    <3>1. Added' = Added
      BY <1>3, <2>1 DEF Added
    <3> QED
      BY <1>k, <1>1, <2>1, <3>1 DEF GotInv
  <2>2. ASSUME NEW n \in Nat, actual' = actual + n, got' = got \cup {c},
               ~unread' => ~unread /\ n = mem[c], ~unread'
        PROVE  actual' = SumOver(Added', Counters)
    <3>1. \A k \in Counters : Added[k] \in Int
      BY <1>5 DEF Added
    <3>2. \A k \in Counters :
            Added'[k] = IF k = c THEN Added[k] + mem[c] ELSE Added[k]
      BY <1>1, <1>3, <1>5, <2>2 DEF Added
    <3>3. SumOver(Added', Counters) = SumOver(Added, Counters) + mem[c]
      BY <1>5, <3>1, <3>2, SumGrows, CountersFinite
    <3> QED
      BY <1>k, <2>2, <3>3 DEF GotInv
  <2> QED
    BY <1>1, <1>6, <2>1, <2>2 DEF GotInv
<1> QED
  BY <1>4, <1>8, <1>9, <1>10 DEF CountInv

-----------------------------------------------------------------------------
(* The theorems *)

LEMMA InitInv == Init => CountInv
<1> SUFFICES ASSUME Init PROVE CountInv
  OBVIOUS
<1>w. /\ Counters \subseteq Loc /\ Main \in Threads
      /\ \A w \in Workers : w \in Threads /\ w # Main
  BY Words
<1>1. /\ mem = [l \in Loc |-> 0] /\ \A t \in Threads : tx[t] = "none" /\ wset[t] = {}
      /\ TsxTypeOK
  BY DEF Init, TsxInit, TsxTypeOK, AbortCodes
<1>2. TypeOK
  <2>1. ops \in [Workers -> 0 .. MaxOps] /\ failures \in [Threads -> 0 .. RTM_MAX_RETRIES]
    BY CounterAssumption DEF Init
  <2> QED
    BY <1>1, <2>1 DEF Init, TypeOK
<1>3. pc[Main] = "create" /\ \A w \in Workers : pc[w] = "off"
  BY <1>w DEF Init
<1>4. ControlInv
  BY <1>w, <1>1, <1>3 DEF Init, ControlInv, InSection
<1>5. ExclInv
  BY <1>1, <1>3, <1>w DEF ExclInv, LockInv, NoConflict, InLocked, InTx, InSection
<1>6. DataInv
  BY <1>1, <1>3, <1>w DEF DataInv, WorkerData, xtest
<1>7. SumOver(Done, Workers) = 0
  <2>1. ASSUME NEW w \in Workers PROVE Done[w] = 0
    <3>1. ops[w] = 0 /\ pc[w] = "off"
      BY <1>3 DEF Init
    <3> QED
      BY <3>1 DEF Done
  <2> QED
    BY <2>1, SumZero, CounterAssumption
<1>8. SumOver(mem, Counters) = 0 /\ SumOver(Added, Counters) = 0
  <2>1. \A c \in Counters : mem[c] = 0 /\ Added[c] = 0
    BY <1>1, <1>w DEF Added
  <2> QED
    BY <2>1, SumZero, CountersFinite
<1>9. SumInv /\ GotInv
  <2>1. messages = 0 /\ got = {} /\ actual = 0
    BY DEF Init
  <2> QED
    BY <1>3, <1>7, <1>8, <2>1 DEF SumInv, GotInv
<1> QED
  BY <1>2, <1>4, <1>5, <1>6, <1>9 DEF CountInv

\* A thread that found its lock taken keeps everything but its failures.
LEMMA BusyInv ==
    ASSUME CountInv, NEW t \in Workers, busy(t) PROVE CountInv'
<1>1. /\ UNCHANGED <<mem, tx, code, rset, wset, wbuf, kind, mode, stop_run,
                     operations_count, pc, reg, ops, messages, got, actual, unread>>
      /\ failures' = [failures EXCEPT ![t] = 0]
  BY DEF busy, txVars, results
<1>2. ExclInv' /\ DataInv' /\ SumInv'
  BY <1>1, MainFrame
<1>3. TypeOK' /\ ControlInv'
  <2>1. 0 \in 0 .. RTM_MAX_RETRIES
    BY CounterAssumption
  <2> QED
    BY <1>1, <2>1 DEF CountInv, TypeOK, TsxTypeOK, ControlInv, InSection
<1>4. GotInv'
  <2>1. Added' = Added /\ Used' = Used
    BY <1>1, SameWords DEF Added
  <2> QED
    BY <1>1, <2>1 DEF CountInv, GotInv
<1> QED
  BY <1>2, <1>3, <1>4 DEF CountInv

LEMMA StepInv == CountInv /\ [Next]_vars => CountInv'
<1> SUFFICES ASSUME CountInv, [Next]_vars PROVE CountInv'
  OBVIOUS
<1>1. CASE Next
  <2>1. CASE main
    <3>1. CASE create \/ reset \/ stop \/ join \/ check
      BY <3>1, MainInv
    <3>2. ASSUME NEW c \in Counters, get(c) \/ get_aborted(c) PROVE CountInv'
      BY <3>2, GetInv
    <3> QED
      BY <2>1, <3>1, <3>2 DEF main
  <2>2. ASSUME NEW t \in Workers, run(t) PROVE CountInv'
    BY <2>2, QuietInv, BusyInv, EnterInv, LoadInv, StoreInv, LeaveInv, AbortedInv
       DEF run
  <2>3. ASSUME NEW t \in Workers, HardwareAbort(t),
               UNCHANGED <<kind, mode, stop_run, operations_count, pc, locals, results>>
        PROVE  CountInv'
    BY <2>3, HardwareInv
  <2> QED
    BY <1>1, <2>1, <2>2, <2>3 DEF Next
<1>2. CASE UNCHANGED vars
  <2>1. UNCHANGED <<mem, tx, code, rset, wset, wbuf, kind, mode, stop_run,
                    operations_count, pc, reg, failures, ops, messages, got, actual,
                    unread>>
    BY <1>2 DEF vars, txVars, locals, results
  <2>2. ExclInv' /\ DataInv' /\ SumInv'
    BY <2>1, MainFrame
  <2>3. TypeOK' /\ ControlInv'
    BY <2>1 DEF CountInv, TypeOK, TsxTypeOK, ControlInv, InSection
  <2>4. GotInv'
    <3>1. Added' = Added /\ Used' = Used
      BY <2>1, SameWords DEF Added
    <3> QED
      BY <2>1, <3>1 DEF CountInv, GotInv
  <2> QED
    BY <2>2, <2>3, <2>4 DEF CountInv
<1> QED
  BY <1>1, <1>2

LEMMA CountInvariant == Spec => []CountInv
BY InitInv, StepInv, PTL DEF Spec

(***************************************************************************)
(* The types of the counters, of the processor and of the threads: no      *)
(* thread does more than MaxOps operations or RTM_MAX_RETRIES retries, and *)
(* no counter becomes negative.                                            *)
(***************************************************************************)
THEOREM TypeCorrect == Spec => []TypeOK
<1>1. CountInv => TypeOK
  BY DEF CountInv
<1> QED
  BY <1>1, CountInvariant, PTL

\* When main has joined the threads, Done is what they have reported.
LEMMA CountImplies == CountInv => NothingLostSilently
<1> SUFFICES ASSUME CountInv, pc[Main] = "done", ~unread
             PROVE  total_operations = actual + messages
  BY DEF NothingLostSilently
<1>1. \A w \in Workers : operations_count[w] = ops[w] /\ pc[w] = "ended" /\ ops[w] \in Nat
  BY DEF CountInv, ControlInv, TypeOK
<1>2. SumOver(operations_count, Workers) = SumOver(Done, Workers)
  <2>1. \A w \in Workers : operations_count[w] = Done[w]
    BY <1>1 DEF Done
  <2> QED
    BY <2>1, SumSame, CounterAssumption
<1>3. total_operations = SumOver(operations_count, Workers)
  BY DEF total_operations, SumOver
<1>4. SumOver(Added, Counters) = SumOver(mem, Counters)
  <2>1. \A c \in Counters : Added[c] = mem[c]
    BY Words DEF CountInv, GotInv, DataInv, Added
  <2> QED
    BY <2>1, SumSame, CountersFinite
<1> QED
  BY <1>2, <1>3, <1>4 DEF CountInv, SumInv, GotInv

(***************************************************************************)
(* What time_cmp.cpp prints after the join is right, for every kind of     *)
(* counter: the operations that the threads report are the increments in   *)
(* the counters and those that RtmCounter::increment gave up with a        *)
(* message.  It covers the overwritten reset of the warm-up, elided locks, *)
(* and counters that several threads share.                                *)
(***************************************************************************)
THEOREM IncrementsAccounted == Spec => []NothingLostSilently
BY CountInvariant, CountImplies, PTL

=============================================================================

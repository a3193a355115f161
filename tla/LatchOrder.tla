----------------------------- MODULE LatchOrder -----------------------------
(***************************************************************************)
(* The latching order of InnoDB and its checks (UNIV_SYNC_DEBUG part of    *)
(* sync0sync.cc): every thread has an array of the latches it holds with   *)
(* their levels; sync_thread_add_level compares a new latch with the array *)
(* and stops the server if the order is broken.                            *)
(*                                                                         *)
(* Threads take only latches the check lets pass.  The code checks after   *)
(* the wait; the array of a waiting thread does not change, so that the    *)
(* answer is the one at the request.  A call that would stop the server is *)
(* not made: nothing comes after it.  Functions that use the arrays hold   *)
(* sync_thread_mutex and are one step.  The mutexes of this file itself    *)
(* are not tracked and not among Latches.  Latches are exclusive.          *)
(***************************************************************************)
EXTENDS Integers, Sequences, FiniteSets

CONSTANTS
    ThreadIds, Latches,
    RwLatches,              \* those a thread can x-lock again
    LevelMaps,              \* levels the latches may have been created with
    OS_THREAD_MAX_N,        \* level arrays
    SYNC_THREAD_N_LEVELS,   \* elements of a level array: 10000
    MaxRecursion,           \* bound: x-locks of one rw-lock by its thread
    NoThread, NoLatch

\* sync0sync.h
Num ==
    [SYNC_NO_ORDER_CHECK |-> 3000, SYNC_LEVEL_VARYING |-> 2000,
     SYNC_TRX_I_S_RWLOCK |-> 1910, SYNC_TRX_I_S_LAST_READ |-> 1900,
     SYNC_FILE_FORMAT_TAG |-> 1200, SYNC_DICT_OPERATION |-> 1010,
     SYNC_FTS_CACHE |-> 1005, SYNC_DICT |-> 1000,
     SYNC_DICT_AUTOINC_MUTEX |-> 999, SYNC_STATS_AUTO_RECALC |-> 997,
     SYNC_DICT_HEADER |-> 995, SYNC_IBUF_HEADER |-> 914,
     SYNC_IBUF_PESS_INSERT_MUTEX |-> 912, SYNC_INDEX_TREE |-> 900,
     SYNC_TREE_NODE_NEW |-> 892, SYNC_TREE_NODE_FROM_HASH |-> 891,
     SYNC_TREE_NODE |-> 890, SYNC_PURGE_LATCH |-> 800, SYNC_TRX_UNDO |-> 700,
     SYNC_RSEG |-> 600, SYNC_RSEG_HEADER_NEW |-> 591, SYNC_RSEG_HEADER |-> 590,
     SYNC_TRX_UNDO_PAGE |-> 570, SYNC_EXTERN_STORAGE |-> 500, SYNC_FSP |-> 400,
     SYNC_FSP_PAGE |-> 395, SYNC_IBUF_MUTEX |-> 370,
     SYNC_IBUF_INDEX_TREE |-> 360, SYNC_IBUF_TREE_NODE_NEW |-> 359,
     SYNC_IBUF_TREE_NODE |-> 358, SYNC_IBUF_BITMAP_MUTEX |-> 351,
     SYNC_IBUF_BITMAP |-> 350, SYNC_INDEX_ONLINE_LOG |-> 340,
     SYNC_LOCK_WAIT_SYS |-> 300, SYNC_LOCK_SYS |-> 299, SYNC_TRX_SYS |-> 298,
     SYNC_TRX |-> 297, SYNC_THREADS |-> 295, SYNC_REC_LOCK |-> 294,
     SYNC_TRX_SYS_HEADER |-> 290, SYNC_PURGE_QUEUE |-> 200, SYNC_LOG |-> 170,
     SYNC_RECV |-> 168, SYNC_FTS_CACHE_INIT |-> 166,
     SYNC_FTS_BG_THREADS |-> 165, SYNC_FTS_OPTIMIZE |-> 164,
     SYNC_WORK_QUEUE |-> 162, SYNC_SEARCH_SYS |-> 160, SYNC_BUF_POOL |-> 150,
     SYNC_BUF_PAGE_HASH |-> 149, SYNC_LOG_FLUSH_ORDER |-> 147,
     SYNC_BUF_BLOCK |-> 146, SYNC_BUF_FLUSH_LIST |-> 145,
     SYNC_DOUBLEWRITE |-> 140, SYNC_ANY_LATCH |-> 135, SYNC_MEM_HASH |-> 131,
     SYNC_MEM_POOL |-> 130]

Names == DOMAIN Num

\* Levels with no check, and those that must lie below everything held.
Unchecked ==
    {"SYNC_NO_ORDER_CHECK", "SYNC_EXTERN_STORAGE", "SYNC_TREE_NODE_FROM_HASH"}

Plain ==
    {"SYNC_MEM_POOL", "SYNC_MEM_HASH", "SYNC_RECV", "SYNC_FTS_BG_THREADS",
     "SYNC_WORK_QUEUE", "SYNC_FTS_OPTIMIZE", "SYNC_FTS_CACHE",
     "SYNC_FTS_CACHE_INIT", "SYNC_LOG", "SYNC_LOG_FLUSH_ORDER",
     "SYNC_ANY_LATCH", "SYNC_FILE_FORMAT_TAG", "SYNC_DOUBLEWRITE",
     "SYNC_SEARCH_SYS", "SYNC_THREADS", "SYNC_LOCK_SYS", "SYNC_LOCK_WAIT_SYS",
     "SYNC_TRX_SYS", "SYNC_IBUF_BITMAP_MUTEX", "SYNC_RSEG", "SYNC_TRX_UNDO",
     "SYNC_PURGE_LATCH", "SYNC_PURGE_QUEUE", "SYNC_DICT_AUTOINC_MUTEX",
     "SYNC_DICT_OPERATION", "SYNC_DICT_HEADER", "SYNC_TRX_I_S_RWLOCK",
     "SYNC_TRX_I_S_LAST_READ", "SYNC_IBUF_MUTEX", "SYNC_INDEX_ONLINE_LOG",
     "SYNC_STATS_AUTO_RECALC", "SYNC_DICT"}

ASSUME LatchAssumption ==
    /\ IsFiniteSet(Latches) /\ RwLatches \subseteq Latches
    /\ LevelMaps \subseteq [Latches -> Names]
    /\ NoThread \notin ThreadIds /\ NoLatch \notin Latches
    /\ MaxRecursion \in Nat \ {0}
    \* More threads than arrays, or more latches than elements, stop the
    \* server; an array is never given back by a thread that ends.
    /\ IsFiniteSet(ThreadIds) /\ Cardinality(ThreadIds) <= OS_THREAD_MAX_N
    /\ SYNC_THREAD_N_LEVELS \in Nat

VARIABLES
    level,      \* the level of each latch (mutex_create)
    phase,      \* of the server, see below
    owner, recursion,
    waiting,    \* the latch a thread waits for
    levels      \* sync_thread_level_arrays, by thread

latchVars == <<level, phase, owner, recursion, waiting, levels>>

\* Before sync_init; before sync_order_checks_on is set; srv_is_being_started;
\* running.
Phases == {"closed", "unchecked", "starting", "running"}

\* Elements are numbered from 1, so that 0 is the end of the free list.
ULINT_UNDEFINED == 0
NoArray == [elems |-> <<>>, next_free |-> ULINT_UNDEFINED, in_use |-> -1]
NewArray == [elems |-> <<>>, next_free |-> ULINT_UNDEFINED, in_use |-> 0]

\* level is the next free element if latch is NoLatch.
Elem == [latch : Latches \cup {NoLatch}, level : Nat]
Array == [elems : Seq(Elem), next_free : Nat, in_use : Int]

LatchTypeOK ==
    /\ level \in [Latches -> Names]
    /\ phase \in Phases
    /\ owner \in [Latches -> ThreadIds \cup {NoThread}]
    /\ recursion \in [Latches -> 0 .. MaxRecursion]
    /\ waiting \in [ThreadIds -> Latches \cup {NoLatch}]
    /\ levels \in [ThreadIds -> Array]

LatchInit ==
    /\ level \in LevelMaps
    /\ phase = "closed"
    /\ owner = [l \in Latches |-> NoThread]
    /\ recursion = [l \in Latches |-> 0]
    /\ waiting = [t \in ThreadIds |-> NoLatch]
    /\ levels = [t \in ThreadIds |-> NoArray]

sync_order_checks_on == phase \in {"starting", "running"}
srv_is_being_started == phase # "running"

Held(t) == {l \in Latches : owner[l] = t}
Idle(t) == Held(t) = {} /\ waiting[t] = NoLatch

-----------------------------------------------------------------------------
(* The check *)

\* The elements in use.
Used(arr) == {i \in DOMAIN arr.elems : arr.elems[i].latch # NoLatch}

sync_thread_levels_g(arr, limit) ==
    \A i \in Used(arr) : arr.elems[i].level > limit

sync_thread_levels_contain(arr, name) ==
    \E i \in Used(arr) : arr.elems[i].level = Num[name]

\* Faulty variant of order_ok_guarded: one more latch of the level passes
\* without the mutex that covers it.
GuardForgotten(arr, name, guard) ==
    sync_thread_levels_g(arr, Num[name] - 1)

\* Only one latch of the level, or several under a mutex that covers them all.
order_ok_guarded(arr, name, guard) ==
    \/ sync_thread_levels_g(arr, Num[name])
    \/ /\ sync_thread_levels_g(arr, Num[name] - 1)
       /\ sync_thread_levels_contain(arr, guard)

\* The pages of a file space, undo log or tree may be latched out of order
\* under a latch that covers them.
order_ok_pages(arr, name) ==
    LET g(limit_name) == sync_thread_levels_g(arr, Num[limit_name])
        below(limit_name) == sync_thread_levels_g(arr, Num[limit_name] - 1)
        has(n) == sync_thread_levels_contain(arr, n)
    IN /\ name = "SYNC_FSP_PAGE" => has("SYNC_FSP")
       /\ name = "SYNC_FSP" => has("SYNC_FSP") \/ g("SYNC_FSP")
       /\ name = "SYNC_TRX_UNDO_PAGE" =>
            has("SYNC_TRX_UNDO") \/ has("SYNC_RSEG") \/ below(name)
       /\ name = "SYNC_RSEG_HEADER" => has("SYNC_RSEG")
       /\ name = "SYNC_RSEG_HEADER_NEW" => has("SYNC_FSP_PAGE")
       /\ name = "SYNC_TREE_NODE" =>
            has("SYNC_INDEX_TREE") \/ has("SYNC_DICT_OPERATION") \/ below(name)
       /\ name = "SYNC_TREE_NODE_NEW" => has("SYNC_FSP_PAGE")
       /\ name = "SYNC_INDEX_TREE" => below("SYNC_TREE_NODE")
       /\ name = "SYNC_IBUF_TREE_NODE" =>
            has("SYNC_IBUF_INDEX_TREE") \/ below(name)
       /\ name = "SYNC_IBUF_TREE_NODE_NEW" =>
            has("SYNC_IBUF_MUTEX") \/ has("SYNC_FSP")
       /\ name = "SYNC_IBUF_INDEX_TREE" =>
            IF has("SYNC_FSP") THEN below(name)
            ELSE below("SYNC_IBUF_TREE_NODE")
       /\ name = "SYNC_IBUF_PESS_INSERT_MUTEX" =>
            below("SYNC_FSP") /\ ~has("SYNC_IBUF_MUTEX")
       /\ name = "SYNC_IBUF_HEADER" =>
            /\ below("SYNC_FSP") /\ ~has("SYNC_IBUF_MUTEX")
            /\ ~has("SYNC_IBUF_PESS_INSERT_MUTEX")

\* The switch of sync_thread_add_level; buf_debug_prints, a switch of the debug
\* build that also lets SYNC_DICT pass, is off.
order_ok(arr, name) ==
    /\ name \in Plain => sync_thread_levels_g(arr, Num[name])
    /\ name = "SYNC_TRX_SYS_HEADER" =>
         srv_is_being_started \/ sync_thread_levels_g(arr, Num[name])
    /\ name \in {"SYNC_BUF_FLUSH_LIST", "SYNC_BUF_POOL"} =>
         sync_thread_levels_g(arr, Num[name] - 1)
    /\ name \in {"SYNC_TRX", "SYNC_REC_LOCK"} =>
         order_ok_guarded(arr, name, "SYNC_LOCK_SYS")
    /\ name \in {"SYNC_BUF_PAGE_HASH", "SYNC_BUF_BLOCK"} =>
         order_ok_guarded(arr, name, "SYNC_BUF_POOL")
    /\ name = "SYNC_IBUF_BITMAP" =>
         \/ order_ok_guarded(arr, name, "SYNC_IBUF_BITMAP_MUTEX")
         \/ srv_is_being_started
            /\ ~sync_thread_levels_contain(arr, "SYNC_IBUF_BITMAP_MUTEX")
    /\ order_ok_pages(arr, name)

-----------------------------------------------------------------------------
(* The level arrays *)

Tracked(l) == sync_order_checks_on /\ level[l] # "SYNC_LEVEL_VARYING"

\* The array sync_thread_level_arrays_find_slot finds, or a new one.
array_of(t) == IF levels[t] = NoArray THEN NewArray ELSE levels[t]

\* Faulty variant of sync_thread_add_level: the free list keeps its first
\* element.
AddKeepsFree(arr, l) ==
    LET elem == [latch |-> l, level |-> Num[level[l]]]
        i == arr.next_free
    IN IF i = ULINT_UNDEFINED
       THEN [arr EXCEPT !.elems = Append(@, elem), !.in_use = @ + 1]
       ELSE [arr EXCEPT !.elems[i] = elem, !.in_use = @ + 1]

\* The part after levels_ok.
sync_thread_add_level(arr, l) ==
    LET elem == [latch |-> l, level |-> Num[level[l]]]
        i == arr.next_free
    IN IF i = ULINT_UNDEFINED
       THEN [arr EXCEPT !.elems = Append(@, elem), !.in_use = @ + 1]
       ELSE [arr EXCEPT !.elems[i] = elem, !.in_use = @ + 1,
                        !.next_free = arr.elems[i].level]

\* The element sync_thread_reset_level finds.
first_elem(arr, l) ==
    CHOOSE i \in Used(arr) :
      /\ arr.elems[i].latch = l
      /\ \A j \in Used(arr) : arr.elems[j].latch = l => i <= j

\* Faulty variant of sync_thread_reset_level: the array is given up as soon as
\* one element is left.
ResetTooEarly(arr, l) ==
    LET i == first_elem(arr, l)
    IN IF arr.in_use <= 2 THEN NewArray
       ELSE [elems |-> [arr.elems EXCEPT ![i] = [latch |-> NoLatch,
                                                 level |-> arr.next_free]],
             next_free |-> i, in_use |-> arr.in_use - 1]

\* Faulty variant of sync_thread_reset_level: the element is not put on the
\* free list.
ResetLosesElement(arr, l) ==
    LET i == first_elem(arr, l)
    IN IF arr.in_use = 1 THEN NewArray
       ELSE [arr EXCEPT !.elems[i] = [latch |-> NoLatch, level |-> 0],
                        !.in_use = @ - 1]

\* Faulty variant of sync_thread_reset_level: a link to the element before.
LinkOffByOne(arr, l) ==
    LET i == first_elem(arr, l)
    IN IF arr.in_use = 1 THEN NewArray
       ELSE [elems |-> [arr.elems EXCEPT ![i] = [latch |-> NoLatch,
                                                 level |-> arr.next_free - 1]],
             next_free |-> i, in_use |-> arr.in_use - 1]

\* The first element of the latch becomes the first of the free list; an
\* array without latches starts again at its beginning.
sync_thread_reset_level(arr, l) ==
    LET i == first_elem(arr, l)
    IN IF arr.in_use = 1 THEN NewArray
       ELSE [elems |-> [arr.elems EXCEPT ![i] = [latch |-> NoLatch,
                                                 level |-> arr.next_free]],
             next_free |-> i, in_use |-> arr.in_use - 1]

\* The calls of sync_thread_reset_level that do not end in ut_error: the latch
\* is found, or it is an rw-lock without a level and the thread has an array.
reset_ok(arr, l) ==
    \/ ~sync_order_checks_on
    \/ \E i \in Used(arr) : arr.elems[i].latch = l
    \/ arr # NoArray /\ l \in RwLatches /\ level[l] = "SYNC_LEVEL_VARYING"

sync_thread_levels_contains(t, name) ==
    /\ sync_order_checks_on
    /\ sync_thread_levels_contain(levels[t], name)

\* These two are TRUE where the code stops the server.
sync_thread_levels_nonempty_gen(t, dict_mutex_allowed) ==
    /\ sync_order_checks_on
    /\ \E i \in Used(levels[t]) :
         ~dict_mutex_allowed
         \/ levels[t].elems[i].level \notin
              {Num["SYNC_DICT"], Num["SYNC_DICT_OPERATION"],
               Num["SYNC_FTS_CACHE"]}

sync_thread_levels_nonempty_trx(t, has_search_latch) ==
    /\ sync_order_checks_on
    /\ \/ has_search_latch /\ ~sync_thread_levels_contains(t, "SYNC_SEARCH_SYS")
       \/ \E i \in Used(levels[t]) :
            ~has_search_latch
            \/ levels[t].elems[i].level # Num["SYNC_SEARCH_SYS"]

-----------------------------------------------------------------------------
(* Threads *)

\* A thread is about to enter a latch; it does not own a mutex that it enters.
\* Until the server runs there is one thread.
Request(t, l) ==
    /\ phase # "closed" /\ waiting[t] = NoLatch
    /\ phase = "running" \/ \A u \in ThreadIds \ {t} : Idle(u)
    /\ IF owner[l] = t
       THEN l \in RwLatches /\ recursion[l] < MaxRecursion
       ELSE Tracked(l) => order_ok(array_of(t), level[l])
    /\ waiting' = [waiting EXCEPT ![t] = l]
    /\ UNCHANGED <<level, phase, owner, recursion, levels>>

\* The latch is free, or locked again by its owner.
EnterLatch(t) ==
    LET l == waiting[t] IN
    /\ l # NoLatch /\ owner[l] \in {NoThread, t}
    /\ owner' = [owner EXCEPT ![l] = t]
    /\ recursion' = [recursion EXCEPT ![l] = @ + 1]
    /\ waiting' = [waiting EXCEPT ![t] = NoLatch]
    /\ levels' = IF Tracked(l)
                 THEN [levels EXCEPT ![t] = sync_thread_add_level(array_of(t), l)]
                 ELSE levels
    /\ UNCHANGED <<level, phase>>

ExitLatch(t, l) ==
    /\ owner[l] = t /\ waiting[t] = NoLatch
    /\ reset_ok(levels[t], l)
    /\ recursion' = [recursion EXCEPT ![l] = @ - 1]
    /\ owner' = [owner EXCEPT ![l] = IF recursion[l] = 1 THEN NoThread ELSE t]
    /\ levels' = IF Tracked(l)
                 THEN [levels EXCEPT ![t] = sync_thread_reset_level(@, l)]
                 ELSE levels
    /\ UNCHANGED <<level, phase, waiting>>

-----------------------------------------------------------------------------
(* The server *)

mutex_n_reserved == Cardinality({l \in Latches \ RwLatches : recursion[l] # 0})
rw_lock_n_locked == Cardinality({l \in RwLatches : recursion[l] # 0})
sync_all_freed == mutex_n_reserved + rw_lock_n_locked = 0

\* The server changes phase only when no latch is held or waited for.
Quiet == sync_all_freed /\ \A t \in ThreadIds : waiting[t] = NoLatch

sync_init ==
    /\ phase = "closed"
    /\ phase' = "unchecked"
    /\ UNCHANGED <<level, owner, recursion, waiting, levels>>

\* sync_order_checks_on is set, then srv_is_being_started reset.
Started ==
    /\ Quiet
    /\ \/ phase = "unchecked" /\ phase' = "starting"
       \/ phase = "starting" /\ phase' = "running"
    /\ UNCHANGED <<level, owner, recursion, waiting, levels>>

\* Frees the mutexes and, by sync_thread_level_arrays_free, the arrays.
sync_close ==
    /\ phase = "running" /\ Quiet
    /\ phase' = "closed"
    /\ levels' = [t \in ThreadIds |-> NoArray]
    /\ UNCHANGED <<level, owner, recursion, waiting>>

LatchNext ==
    \/ sync_init \/ Started \/ sync_close
    \/ \E t \in ThreadIds :
         \/ EnterLatch(t)
         \/ \E l \in Latches : Request(t, l) \/ ExitLatch(t, l)

LatchSpec == LatchInit /\ [][LatchNext]_latchVars

-----------------------------------------------------------------------------
(* Properties *)

\* What the functions that ask for a level answer.  A thread that goes to wait
\* for a user lock, or ends a transaction, is stopped if and only if it holds
\* a latch that it may not hold then.
AnswersRight ==
    sync_order_checks_on =>
      \A t \in ThreadIds :
        /\ sync_thread_levels_nonempty_gen(t, TRUE) <=>
             \E l \in Held(t) : Tracked(l) /\
               level[l] \notin {"SYNC_DICT", "SYNC_DICT_OPERATION", "SYNC_FTS_CACHE"}
        /\ sync_thread_levels_nonempty_trx(t, FALSE) <=>
             \E l \in Held(t) : Tracked(l)
        /\ \A m \in Latches : sync_thread_levels_contains(t, level[m]) <=>
             \E l \in Held(t) : Tracked(l) /\ level[l] = level[m]

\* A thread's array lists each latch it holds, as often as it holds it, with
\* its level, and nothing else, in_use counts them, and what is asked of the
\* array is answered as if it was asked of the latches themselves.
ArraysExact ==
    /\ AnswersRight
    /\ sync_order_checks_on =>
         \A t \in ThreadIds :
           LET arr == levels[t] IN
           /\ \A i \in Used(arr) :
                arr.elems[i].level = Num[level[arr.elems[i].latch]]
           /\ \A l \in Latches :
                Cardinality({i \in Used(arr) : arr.elems[i].latch = l}) =
                  IF owner[l] = t /\ Tracked(l) THEN recursion[l] ELSE 0
           /\ arr # NoArray => arr.in_use = Cardinality(Used(arr))

\* Every free element of an array is on its free list, once: an element taken
\* is free (ut_a(slot->latch == NULL)) and none is lost.  The links lead from
\* next_free to every free element and to the end, each to a different one,
\* and out of every set of free elements, so that they have no circle.
FreeListExact ==
    \A t \in ThreadIds :
      LET arr == levels[t]
          free == DOMAIN arr.elems \ Used(arr)
          ends == {arr.next_free} \cup {arr.elems[i].level : i \in free}
      IN /\ ends = free \cup {ULINT_UNDEFINED}
         /\ \A i, j \in free : arr.elems[i].level = arr.elems[j].level => i = j
         /\ \A i \in free : arr.elems[i].level # arr.next_free
         /\ \A C \in (SUBSET free) \ {{}} : \E i \in C : arr.elems[i].level \notin C

\* An array with room for what a thread can hold at once never overflows
\* (ut_a(array->n_elems < array->max_elems)), however long the thread runs.
ArrayFits ==
    \A t \in ThreadIds : Len(levels[t].elems) <= SYNC_THREAD_N_LEVELS

\* The mutex that covers the latches of a level, or none.
Cover(name) ==
    CASE name \in {"SYNC_TRX", "SYNC_REC_LOCK"} -> "SYNC_LOCK_SYS"
      [] name \in {"SYNC_BUF_PAGE_HASH", "SYNC_BUF_BLOCK"} -> "SYNC_BUF_POOL"
      [] name = "SYNC_IBUF_BITMAP" -> "SYNC_IBUF_BITMAP_MUTEX"
      [] OTHER -> "none"

\* The levels that the check puts in order: no page latch under a covering
\* latch, and one buffer pool.
Ordered ==
    /\ \A l \in Latches :
         \/ level[l] \in Plain \cup {"SYNC_TRX_SYS_HEADER", "SYNC_BUF_POOL",
                                     "SYNC_BUF_FLUSH_LIST"}
         \/ Cover(level[l]) # "none"
    /\ \A l, m \in Latches :
         /\ level[l] = level[m]
         /\ \/ level[l] \in {"SYNC_BUF_POOL", "SYNC_BUF_FLUSH_LIST"}
            \/ \E name \in Names : Cover(name) = level[l]
         => l = m

\* The check is enough: threads whose every latch passed it never wait for
\* each other in a circle.
NoDeadlock ==
    Ordered =>
      \A D \in SUBSET ThreadIds :
        D # {} =>
          \E t \in D : waiting[t] = NoLatch \/ owner[waiting[t]] \notin D \ {t}

=============================================================================

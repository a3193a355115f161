----------------------------- MODULE SyncProofs -----------------------------
(***************************************************************************)
(* Proofs about the two parts of sync0sync.cc.                             *)
(*                                                                         *)
(* The mutex (IbMutex), for every set of threads, spin bound and number of *)
(* calls: type correctness and mutual exclusion hold in both builds; the   *)
(* absence of lost wakeups (LEMMA 1 and LEMMA 2 of sync0sync.cc) needs the *)
(* serializing release of the original build.                              *)
(*                                                                         *)
(* The latching order (LatchOrder): the level arrays list exactly the      *)
(* latches a thread holds, never overflow, and the check of                *)
(* sync_thread_add_level keeps the threads from waiting for each other in  *)
(* a circle.                                                               *)
(***************************************************************************)
EXTENDS IbMutex, LatchOrder, FiniteSetTheorems, SequenceTheorems, TLAPS

-----------------------------------------------------------------------------
(* The mutex *)

\* The lock word is taken by a thread in its section, or by a thread whose
\* release has not left the store buffer.
Holds(t) == Owner(t) \/ t \in lw_pending

LockInv ==
    /\ \A t \in Threads : Holds(t) => lock_word = 1
    /\ \A t, u \in Threads : Holds(t) /\ Holds(u) => t = u
    /\ \A t \in Threads : ~(Owner(t) /\ t \in lw_pending)
    /\ lock_word = 1 => \E t \in Threads : Holds(t)
    /\ ~alive => \A t \in Threads : pc[t] = "idle" /\ t \notin lw_pending

-----------------------------------------------------------------------------
\* Every variable keeps its type in both builds.
THEOREM TypeCorrect == Spec => []TypeOK
<1> USE DEF TypeOK, EventTypeOK, Labels, NoStore
<1>1. Init => TypeOK
  <2>1. Init => /\ is_set \in BOOLEAN /\ alive \in BOOLEAN
                /\ build \in Builds
    BY Zenon DEF Init, EventInit
  <2>2. Init => /\ signal_count \in Nat /\ lock_word \in {0, 1}
                /\ waiters \in {0, 1} /\ lw_pending \in SUBSET Threads
                /\ w_store \in [Threads -> {0, 1, NoStore}]
                /\ pc \in [Threads -> Labels] /\ round \in [Threads -> Nat]
                /\ cell \in [Threads -> Nat] /\ enters \in [Threads -> Nat]
    BY DEF Init, EventInit
  <2> QED
    BY <2>1, <2>2 DEF Init
<1>2. TypeOK /\ [Next]_vars => TypeOK'
  <2> SUFFICES ASSUME TypeOK, [Next]_vars PROVE TypeOK'
    OBVIOUS
  <2> USE DEF Goto, Call, TasSucceeds, TasFails, eventVars, memVars,
              mutex_set_waiters
  <2>1. CASE mutex_create_func
    BY <2>1 DEF mutex_create_func, os_event_create
  <2>2. CASE mutex_free_func
    BY <2>2 DEF mutex_free_func
  <2>3. CASE sync_arr_wake_threads_if_sema_free
    BY <2>3 DEF sync_arr_wake_threads_if_sema_free, os_event_set
  <2>4. ASSUME NEW t \in Threads, Enter(t) PROVE TypeOK'
    BY <2>4 DEF Enter, mutex_enter_func, mutex_enter_nowait_func
  <2>5. ASSUME NEW t \in Threads, Drain(t) PROVE TypeOK'
    BY <2>5 DEF Drain, DrainLockWord, DrainWaiters
  <2>6. ASSUME NEW t \in Threads, Progress(t) PROVE TypeOK'
    <3>1. CASE spin_loop(t)
      BY <3>1 DEF spin_loop
    <3>2. CASE spin_tas(t)
      BY <3>2 DEF spin_tas
    <3>3. CASE sync_array_reserve_cell(t)
      BY <3>3 DEF sync_array_reserve_cell, os_event_reset
    <3>4. CASE announce_waiter(t)
      BY <3>4 DEF announce_waiter
    <3>5. CASE retry_tas(t)
      BY <3>5 DEF retry_tas
    <3>6. CASE sync_array_wait_event(t)
      BY <3>6 DEF sync_array_wait_event
    <3>7. CASE mutex_reset_lock_word(t)
      BY <3>7 DEF mutex_reset_lock_word, hle_release_clear, XchgRelease
    <3>8. CASE mutex_get_waiters(t)
      BY <3>8 DEF mutex_get_waiters
    <3>9. CASE clear_waiters(t)
      BY <3>9 DEF clear_waiters
    <3>10. CASE set_event(t)
      BY <3>10 DEF set_event, os_event_set
    <3> QED
      BY <2>6, <3>1, <3>2, <3>3, <3>4, <3>5, <3>6, <3>7, <3>8, <3>9, <3>10
         DEF Progress
  <2>7. CASE UNCHANGED vars
    BY <2>7 DEF vars
  <2> QED
    BY <2>1, <2>2, <2>3, <2>4, <2>5, <2>6, <2>7 DEF Next
<1> QED
  BY <1>1, <1>2, PTL DEF Spec

-----------------------------------------------------------------------------
\* LockInv is inductive: the test-and-set is the only way in, it needs a free
\* lock word and an empty store buffer, and only the holder's release, xchg
\* or drained mov, frees the word.
LEMMA LockInvariant == Spec => []LockInv
<1> USE DEF LockInv, Holds, Owner
<1>1. Init => LockInv
  BY DEF Init
<1>2. TypeOK /\ LockInv /\ [Next]_vars => LockInv'
  <2> SUFFICES ASSUME TypeOK, LockInv, [Next]_vars PROVE LockInv'
    OBVIOUS
  <2> USE DEF TypeOK, Labels, Goto, Call, TasSucceeds, TasFails, Drained,
              eventVars, memVars
  <2>1. CASE mutex_create_func
    BY <2>1 DEF mutex_create_func
  <2>2. CASE mutex_free_func
    BY <2>2 DEF mutex_free_func
  <2>3. CASE sync_arr_wake_threads_if_sema_free
    BY <2>3 DEF sync_arr_wake_threads_if_sema_free
  <2>4. ASSUME NEW t \in Threads, Enter(t) PROVE LockInv'
    BY <2>4 DEF Enter, mutex_enter_func, mutex_enter_nowait_func
  <2>5. ASSUME NEW t \in Threads, Drain(t) PROVE LockInv'
    BY <2>5 DEF Drain, DrainLockWord, DrainWaiters
  <2>6. ASSUME NEW t \in Threads, Progress(t) PROVE LockInv'
    <3>1. CASE spin_loop(t)
      BY <3>1 DEF spin_loop
    <3>2. CASE spin_tas(t)
      BY <3>2 DEF spin_tas
    <3>3. CASE sync_array_reserve_cell(t)
      BY <3>3 DEF sync_array_reserve_cell
    <3>4. CASE announce_waiter(t)
      BY <3>4 DEF announce_waiter
    <3>5. CASE retry_tas(t)
      BY <3>5 DEF retry_tas
    <3>6. CASE sync_array_wait_event(t)
      BY <3>6 DEF sync_array_wait_event
    <3>7. CASE mutex_reset_lock_word(t)
      BY <3>7 DEF mutex_reset_lock_word, hle_release_clear, XchgRelease
    <3>8. CASE mutex_get_waiters(t)
      BY <3>8 DEF mutex_get_waiters
    <3>9. CASE clear_waiters(t)
      BY <3>9 DEF clear_waiters
    <3>10. CASE set_event(t)
      BY <3>10 DEF set_event
    <3> QED
      BY <2>6, <3>1, <3>2, <3>3, <3>4, <3>5, <3>6, <3>7, <3>8, <3>9, <3>10
         DEF Progress
  <2>7. CASE UNCHANGED vars
    BY <2>7 DEF vars
  <2> QED
    BY <2>1, <2>2, <2>3, <2>4, <2>5, <2>6, <2>7 DEF Next
<1> QED
  BY <1>1, <1>2, TypeCorrect, PTL DEF Spec

\* mutex_enter_func lets one thread in at a time, in the original build and
\* in the build with HLE, where the release may linger in the store buffer.
THEOREM MutexExcludes == Spec => []MutualExclusion
<1>1. LockInv => MutualExclusion
  BY DEF LockInv, MutualExclusion, Holds
<1> QED
  BY <1>1, LockInvariant, PTL

-----------------------------------------------------------------------------
(***************************************************************************)
(* Where a buffered store to waiters comes from, which threads own a wait  *)
(* array cell, and how cells relate to the event: a cell that carries the  *)
(* current signal_count was reserved after the last os_event_set, and that *)
(* reservation reset the event.                                            *)
(***************************************************************************)
CellInv ==
    /\ signal_count > 0
    /\ \A t \in Threads : w_store[t] = 0 => pc[t] = "set_event"
    /\ \A t \in Threads : w_store[t] = 1 => pc[t] = "retry_tas" /\ round[t] = 0
    /\ \A t \in Threads :
          cell[t] # 0 => pc[t] \in {"set_waiters", "retry_tas", "wait_event"}
    /\ \A t \in Threads : cell[t] <= signal_count
    /\ \A t \in Threads : cell[t] = signal_count => ~is_set

\* CellInv is inductive: a cell is reserved with the current count.
LEMMA CellInvariant == Spec => []CellInv
<1> USE DEF CellInv, NoStore
<1>1. Init => CellInv
  BY DEF Init, EventInit
<1>2. TypeOK /\ LockInv /\ CellInv /\ [Next]_vars => CellInv'
  <2> SUFFICES ASSUME TypeOK, LockInv, CellInv, [Next]_vars PROVE CellInv'
    OBVIOUS
  <2> USE DEF TypeOK, EventTypeOK, Labels, Goto, Call, TasSucceeds, TasFails,
              Drained, mutex_set_waiters, LockInv, eventVars, memVars
  <2>1. CASE mutex_create_func
    BY <2>1 DEF mutex_create_func, os_event_create
  <2>2. CASE mutex_free_func
    BY <2>2 DEF mutex_free_func
  <2>3. CASE sync_arr_wake_threads_if_sema_free
    BY <2>3 DEF sync_arr_wake_threads_if_sema_free, os_event_set
  <2>4. ASSUME NEW t \in Threads, Enter(t) PROVE CellInv'
    BY <2>4 DEF Enter, mutex_enter_func, mutex_enter_nowait_func
  <2>5. ASSUME NEW t \in Threads, Drain(t) PROVE CellInv'
    BY <2>5 DEF Drain, DrainLockWord, DrainWaiters
  <2>6. ASSUME NEW t \in Threads, Progress(t) PROVE CellInv'
    <3>1. CASE spin_loop(t)
      BY <3>1 DEF spin_loop
    <3>2. CASE spin_tas(t)
      BY <3>2 DEF spin_tas
    <3>3. CASE sync_array_reserve_cell(t)
      BY <3>3 DEF sync_array_reserve_cell, os_event_reset
    <3>4. CASE announce_waiter(t)
      BY <3>4 DEF announce_waiter
    <3>5. CASE retry_tas(t)
      BY <3>5 DEF retry_tas
    <3>6. CASE sync_array_wait_event(t)
      BY <3>6 DEF sync_array_wait_event
    <3>7. CASE mutex_reset_lock_word(t)
      BY <3>7 DEF mutex_reset_lock_word, hle_release_clear, XchgRelease
    <3>8. CASE mutex_get_waiters(t)
      BY <3>8 DEF mutex_get_waiters
    <3>9. CASE clear_waiters(t)
      BY <3>9 DEF clear_waiters
    <3>10. CASE set_event(t)
      BY <3>10 DEF set_event, os_event_set
    <3> QED
      BY <2>6, <3>1, <3>2, <3>3, <3>4, <3>5, <3>6, <3>7, <3>8, <3>9, <3>10
         DEF Progress
  <2>7. CASE UNCHANGED vars
    BY <2>7 DEF vars
  <2> QED
    BY <2>1, <2>2, <2>3, <2>4, <2>5, <2>6, <2>7 DEF Next
<1> QED
  BY <1>1, <1>2, TypeCorrect, LockInvariant, PTL DEF Spec

(***************************************************************************)
(* The waiters field is 1 only while a thread that will go through         *)
(* mutex_exit_func, or has its store of 0 buffered, is still inside.       *)
(***************************************************************************)
WaitersInv ==
    waiters = 1 => \E v \in Threads :
                      \/ pc[v] \notin {"idle", "set_event"}
                      \/ pc[v] = "set_event" /\ w_store[v] = 0

\* WaitersInv is inductive: whoever leaves waiters set still has to exit.
LEMMA WaitersInvariant == Spec => []WaitersInv
<1> USE DEF WaitersInv, NoStore
<1>1. Init => WaitersInv
  BY DEF Init
<1>2. TypeOK /\ CellInv /\ WaitersInv /\ [Next]_vars => WaitersInv'
  <2> SUFFICES ASSUME TypeOK, CellInv, WaitersInv, [Next]_vars
               PROVE WaitersInv'
    OBVIOUS
  <2> USE DEF TypeOK, Labels, Goto, Call, TasSucceeds, TasFails,
              Drained, mutex_set_waiters, CellInv, eventVars, memVars
  <2>1. CASE mutex_create_func
    BY <2>1 DEF mutex_create_func, os_event_create
  <2>2. CASE mutex_free_func
    BY <2>2 DEF mutex_free_func
  <2>3. CASE sync_arr_wake_threads_if_sema_free
    BY <2>3 DEF sync_arr_wake_threads_if_sema_free, os_event_set
  <2>4. ASSUME NEW t \in Threads, Enter(t) PROVE WaitersInv'
    BY <2>4 DEF Enter, mutex_enter_func, mutex_enter_nowait_func
  <2>5. ASSUME NEW t \in Threads, Drain(t) PROVE WaitersInv'
    BY <2>5 DEF Drain, DrainLockWord, DrainWaiters
  <2>6. ASSUME NEW t \in Threads, Progress(t) PROVE WaitersInv'
    <3>1. CASE spin_loop(t)
      BY <3>1 DEF spin_loop
    <3>2. CASE spin_tas(t)
      BY <3>2 DEF spin_tas
    <3>3. CASE sync_array_reserve_cell(t)
      BY <3>3 DEF sync_array_reserve_cell, os_event_reset
    <3>4. CASE announce_waiter(t)
      BY <3>4 DEF announce_waiter
    <3>5. CASE retry_tas(t)
      BY <3>5 DEF retry_tas
    <3>6. CASE sync_array_wait_event(t)
      BY <3>6 DEF sync_array_wait_event
    <3>7. CASE mutex_reset_lock_word(t)
      BY <3>7 DEF mutex_reset_lock_word, hle_release_clear, XchgRelease
    <3>8. CASE mutex_get_waiters(t)
      BY <3>8 DEF mutex_get_waiters
    <3>9. CASE clear_waiters(t)
      BY <3>9 DEF clear_waiters
    <3>10. CASE set_event(t)
      BY <3>10 DEF set_event, os_event_set
    <3> QED
      BY <2>6, <3>1, <3>2, <3>3, <3>4, <3>5, <3>6, <3>7, <3>8, <3>9, <3>10
         DEF Progress
  <2>7. CASE UNCHANGED vars
    BY <2>7 DEF vars
  <2> QED
    BY <2>1, <2>2, <2>3, <2>4, <2>5, <2>6, <2>7 DEF Next
<1> QED
  BY <1>1, <1>2, TypeCorrect, CellInvariant, PTL DEF Spec

\* The assertions of mutex_free_func hold whenever no thread uses the mutex.
THEOREM FreeAssertsHold == Spec => []FreeAsserts
<1>1. LockInv /\ WaitersInv /\ TypeOK => FreeAsserts
  BY DEF LockInv, WaitersInv, TypeOK, FreeAsserts, Holds, Owner, Drained
<1> QED
  BY <1>1, TypeCorrect, LockInvariant, WaitersInvariant, PTL

-----------------------------------------------------------------------------
(***************************************************************************)
(* The heart of LEMMA 1.  A registered thread is still visible through     *)
(* waiters unless a thread that cleared the field has yet to set the       *)
(* event; and once a registered thread has failed a test-and-set, some     *)
(* thread is between taking the mutex and the end of mutex_exit_func.      *)
(***************************************************************************)
Committed(t) == Registered(t) /\ (pc[t] = "wait_event" \/ round[t] > 0)

WakeInv ==
    /\ lw_pending = {}
    /\ \A t \in Threads : Registered(t) =>
          waiters = 1 \/ \E u \in Threads : pc[u] = "set_event"
    /\ \A t \in Threads : Committed(t) =>
          \E u \in Threads : pc[u] \in {"cs", "get_waiters", "clear_waiters",
                                        "set_event"}

\* The program is not compiled again while it runs.
LEMMA BuildFixed == [Next]_vars => build' = build
<1> SUFFICES ASSUME [Next]_vars PROVE build' = build
  OBVIOUS
<1>1. ASSUME NEW t \in Threads, Enter(t) PROVE build' = build
  BY <1>1 DEF Enter, mutex_enter_func, mutex_enter_nowait_func
<1>2. ASSUME NEW t \in Threads, Drain(t) PROVE build' = build
  BY <1>2 DEF Drain, DrainLockWord, DrainWaiters
<1>3. ASSUME NEW t \in Threads, Progress(t) PROVE build' = build
  BY <1>3 DEF Progress, spin_loop, spin_tas, sync_array_reserve_cell,
              announce_waiter, retry_tas, sync_array_wait_event,
              mutex_reset_lock_word, mutex_get_waiters, clear_waiters,
              set_event
<1> QED
  BY <1>1, <1>2, <1>3
     DEF Next, vars, mutex_create_func, mutex_free_func,
         sync_arr_wake_threads_if_sema_free

\* WakeInv is inductive where the release serializes, in the original build.
LEMMA WakeInvariant == Spec => [](~HaveHle => WakeInv)
<1> USE ConstAssumption DEF WakeInv, Registered, Committed, NoStore,
        os_event_wait_returns
<1>1. Init => WakeInv
  BY DEF Init
<1>2. /\ TypeOK /\ LockInv /\ CellInv /\ (~HaveHle => WakeInv)
      /\ [Next]_vars
      => (~HaveHle => WakeInv)'
  <2> SUFFICES ASSUME TypeOK, LockInv, CellInv, ~HaveHle, WakeInv, [Next]_vars
               PROVE WakeInv'
    BY BuildFixed DEF HaveHle
  <2> USE DEF TypeOK, EventTypeOK, Labels, Goto, Call, TasSucceeds, TasFails,
              Drained, mutex_set_waiters, LockInv, Holds, Owner, CellInv,
              eventVars, memVars
  <2>1. CASE mutex_create_func
    BY <2>1 DEF mutex_create_func, os_event_create
  <2>2. CASE mutex_free_func
    BY <2>2 DEF mutex_free_func
  <2>3. CASE sync_arr_wake_threads_if_sema_free
    BY <2>3 DEF sync_arr_wake_threads_if_sema_free, os_event_set
  <2>4. ASSUME NEW t \in Threads, Enter(t) PROVE WakeInv'
    BY <2>4 DEF Enter, mutex_enter_func, mutex_enter_nowait_func
  <2>5. ASSUME NEW t \in Threads, Drain(t) PROVE WakeInv'
    BY <2>5 DEF Drain, DrainLockWord, DrainWaiters
  <2>6. ASSUME NEW t \in Threads, Progress(t) PROVE WakeInv'
    <3>1. CASE spin_loop(t)
      BY <3>1 DEF spin_loop
    <3>2. CASE spin_tas(t)
      BY <3>2 DEF spin_tas
    <3>3. CASE sync_array_reserve_cell(t)
      BY <3>3 DEF sync_array_reserve_cell, os_event_reset
    <3>4. CASE announce_waiter(t)
      BY <3>4 DEF announce_waiter
    <3>5. CASE retry_tas(t)
      BY <3>5 DEF retry_tas
    <3>6. CASE sync_array_wait_event(t)
      BY <3>6 DEF sync_array_wait_event
    <3>7. CASE mutex_reset_lock_word(t)
      BY <3>7 DEF mutex_reset_lock_word, hle_release_clear, XchgRelease
    <3>8. CASE mutex_get_waiters(t)
      BY <3>8 DEF mutex_get_waiters
    <3>9. CASE clear_waiters(t)
      BY <3>9 DEF clear_waiters
    <3>10. CASE set_event(t)
      BY <3>10 DEF set_event, os_event_set
    <3> QED
      BY <2>6, <3>1, <3>2, <3>3, <3>4, <3>5, <3>6, <3>7, <3>8, <3>9, <3>10
         DEF Progress
  <2>7. CASE UNCHANGED vars
    BY <2>7 DEF vars
  <2> QED
    BY <2>1, <2>2, <2>3, <2>4, <2>5, <2>6, <2>7 DEF Next
<1> QED
  BY <1>1, <1>2, TypeCorrect, LockInvariant, CellInvariant, PTL DEF Spec

\* With the serializing release of the original build no thread sleeps without
\* a waker: LEMMA 1 and LEMMA 2 of sync0sync.cc, without the help of the error
\* monitor thread.
THEOREM WakeupsNotLost == Spec => []NoLostWakeup
<1>1. TypeOK /\ CellInv /\ (~HaveHle => WakeInv) => NoLostWakeup
  BY DEF TypeOK, CellInv, WakeInv, NoLostWakeup, Registered, Committed,
         Asleep, NoStore
<1> QED
  BY <1>1, TypeCorrect, CellInvariant, WakeInvariant, PTL

-----------------------------------------------------------------------------
(* The latching order: numbers *)

\* No two levels of sync0sync.h have the same number.
LEMMA LevelNumbers ==
    /\ Num \in [Names -> Nat]
    /\ \A n, m \in Names : Num[n] = Num[m] => n = m
<1>1. Num \in [Names -> Nat]
  BY DEF Num, Names
<1>2. \A n, m \in Names : Num[n] = Num[m] => n = m
  BY DEF Num, Names
<1> QED
  BY <1>1, <1>2

LEMMA PrefixSize == ASSUME NEW n \in Nat PROVE Cardinality(1 .. n) = n
<1>1. Cardinality(1 .. n) = IF 1 > n THEN 0 ELSE n - 1 + 1
  BY FS_Interval
<1> QED
  BY <1>1

\* Every nonempty set of natural numbers has a least element.
LEMMA NatMin ==
    ASSUME NEW T \in SUBSET Nat, T # {}
    PROVE  \E m \in T : \A k \in T : m <= k
<1> DEFINE R == OpToRel(<, Nat)
<1>1. IsWellFoundedOn(R, Nat)
  BY NatLessThanWellFounded
<1>2. \A x, y \in Nat : y < x => <<y, x>> \in R
  BY DEF OpToRel
<1> HIDE DEF R
<1>3. PICK x \in T : \A y \in T : ~ (<<y, x>> \in R)
  BY <1>1, WFMin
<1>4. ASSUME NEW k \in T PROVE ~(k < x)
  BY <1>2, <1>3
<1>5. ASSUME NEW k \in T PROVE x <= k
  BY <1>4
<1> QED
  BY <1>5

-----------------------------------------------------------------------------
(* One level array *)

\* The elements of a latch.
OfLatch(arr, l) == {i \in Used(arr) : arr.elems[i].latch = l}

\* The array lists latch l held[l] times, with its level under lv.
Lists(lv, arr, held) ==
    /\ \A i \in Used(arr) : arr.elems[i].level = Num[lv[arr.elems[i].latch]]
    /\ \A l \in Latches : Cardinality(OfLatch(arr, l)) = held[l]
    /\ arr.in_use = Cardinality(Used(arr))

\* Latch l once more, or once less.
More(held, l) == [held EXCEPT ![l] = @ + 1]
Less(held, l) == [held EXCEPT ![l] = @ - 1]

FreeElems(arr) == DOMAIN arr.elems \ Used(arr)

\* FreeListExact for one array.
FreeExact(arr) ==
    LET free == FreeElems(arr)
        ends == {arr.next_free} \cup {arr.elems[i].level : i \in free}
    IN /\ ends = free \cup {ULINT_UNDEFINED}
       /\ \A i, j \in free : arr.elems[i].level = arr.elems[j].level => i = j
       /\ \A i \in free : arr.elems[i].level # arr.next_free
       /\ \A C \in (SUBSET free) \ {{}} : \E i \in C : arr.elems[i].level \notin C

\* The parts of an array.
LEMMA ArrayParts ==
    ASSUME NEW arr \in Array
    PROVE  /\ arr.elems \in Seq(Elem) /\ arr.next_free \in Nat
           /\ arr.in_use \in Int
           /\ Len(arr.elems) \in Nat
           /\ DOMAIN arr.elems = 1 .. Len(arr.elems)
           /\ \A i \in 1 .. Len(arr.elems) :
                /\ arr.elems[i] \in Elem
                /\ arr.elems[i].latch \in Latches \cup {NoLatch}
                /\ arr.elems[i].level \in Nat
           /\ Used(arr) \subseteq 1 .. Len(arr.elems)
           /\ FreeElems(arr) \subseteq 1 .. Len(arr.elems)
           /\ arr = [elems |-> arr.elems, next_free |-> arr.next_free,
                     in_use |-> arr.in_use]
<1>1. /\ arr.elems \in Seq(Elem) /\ arr.next_free \in Nat /\ arr.in_use \in Int
      /\ arr = [elems |-> arr.elems, next_free |-> arr.next_free,
                in_use |-> arr.in_use]
  BY DEF Array
<1>2. Len(arr.elems) \in Nat /\ DOMAIN arr.elems = 1 .. Len(arr.elems)
  BY <1>1, LenProperties
<1>3. \A i \in 1 .. Len(arr.elems) : arr.elems[i] \in Elem
  BY <1>1, ElementOfSeq
<1> QED
  BY <1>1, <1>2, <1>3 DEF Elem, Used, FreeElems

\* Its sets are finite.
LEMMA ArrayFinite ==
    ASSUME NEW arr \in Array
    PROVE  /\ IsFiniteSet(Used(arr)) /\ Cardinality(Used(arr)) \in Nat
           /\ \A l : IsFiniteSet(OfLatch(arr, l))
                     /\ Cardinality(OfLatch(arr, l)) \in Nat
<1>1. IsFiniteSet(1 .. Len(arr.elems)) /\ Used(arr) \subseteq 1 .. Len(arr.elems)
  <2>1. Len(arr.elems) \in Int /\ 1 \in Int
    BY ArrayParts
  <2>2. IsFiniteSet(1 .. Len(arr.elems))
    BY <2>1, FS_Interval
  <2> QED
    BY <2>2, ArrayParts
<1>2. IsFiniteSet(Used(arr))
  <2>1. Used(arr) \in SUBSET (1 .. Len(arr.elems))
    BY <1>1
  <2> QED
    BY <1>1, <2>1, FS_Subset
<1>3. ASSUME NEW l PROVE IsFiniteSet(OfLatch(arr, l))
  <2>1. OfLatch(arr, l) \subseteq Used(arr)
    BY DEF OfLatch
  <2> QED
    BY <1>2, <2>1, FS_Subset
<1> QED
  BY <1>2, <1>3, FS_CardinalityType

\* What is asked of two arrays that hold the same elements apart from i.
LEMMA UsedElems ==
    ASSUME NEW arr \in Array, NEW i \in Used(arr)
    PROVE  /\ i \in 1 .. Len(arr.elems) /\ i \in Nat /\ i # 0
           /\ arr.elems[i].latch \in Latches
BY ArrayParts DEF Used

LEMMA NewArrayExact ==
    /\ NewArray \in Array /\ NoArray \in Array
    /\ Used(NewArray) = {} /\ Used(NoArray) = {}
    /\ FreeExact(NewArray) /\ FreeExact(NoArray)
    /\ Len(NewArray.elems) = 0 /\ Len(NoArray.elems) = 0
    /\ Lists(level, NewArray, [l \in Latches |-> 0])
<1>1. <<>> \in Seq(Elem) /\ Len(<<>>) = 0
  BY EmptySeq
<1>2. NewArray \in Array /\ NoArray \in Array
  BY <1>1 DEF NewArray, NoArray, Array, ULINT_UNDEFINED
<1>3. NewArray.elems = <<>> /\ NoArray.elems = <<>>
      /\ NewArray.next_free = 0 /\ NoArray.next_free = 0
      /\ NewArray.in_use = 0
  BY DEF NewArray, NoArray, ULINT_UNDEFINED
<1>4. /\ Used(NewArray) = {} /\ Used(NoArray) = {}
      /\ FreeElems(NewArray) = {} /\ FreeElems(NoArray) = {}
  BY <1>1, <1>2, <1>3, ArrayParts
<1>5. FreeExact(NewArray) /\ FreeExact(NoArray)
  BY <1>3, <1>4 DEF FreeExact, ULINT_UNDEFINED
<1>6. Lists(level, NewArray, [l \in Latches |-> 0])
  <2>1. \A l : OfLatch(NewArray, l) = {}
    BY <1>4 DEF OfLatch
  <2> QED
    BY <1>3, <1>4, <2>1, FS_EmptySet DEF Lists
<1> QED
  BY <1>1, <1>2, <1>3, <1>4, <1>5, <1>6

\* An empty free list means that no element is free.
LEMMA NoneFree ==
    ASSUME NEW arr \in Array, FreeExact(arr), arr.next_free = ULINT_UNDEFINED
    PROVE  FreeElems(arr) = {} /\ Used(arr) = 1 .. Len(arr.elems)
<1>1. FreeElems(arr) = {}
  <2> SUFFICES ASSUME FreeElems(arr) # {} PROVE FALSE
    OBVIOUS
  <2>1. PICK i \in FreeElems(arr) : arr.elems[i].level \notin FreeElems(arr)
    BY DEF FreeExact
  <2>2. arr.elems[i].level \in FreeElems(arr) \cup {ULINT_UNDEFINED}
    BY DEF FreeExact
  <2>3. arr.elems[i].level # arr.next_free
    BY DEF FreeExact
  <2> QED
    BY <2>1, <2>2, <2>3
<1> QED
  BY <1>1, ArrayParts DEF FreeElems

\* sync_thread_add_level puts the latch into a free element, the first of the
\* free list or a new one.
LEMMA AddEffect ==
    ASSUME NEW arr \in Array, NEW l \in Latches, FreeExact(arr),
           level \in [Latches -> Names]
    PROVE  LET new == sync_thread_add_level(arr, l)
               k == IF arr.next_free = ULINT_UNDEFINED THEN Len(arr.elems) + 1
                    ELSE arr.next_free
           IN /\ new \in Array
              /\ DOMAIN new.elems = DOMAIN arr.elems \cup {k}
              /\ new.elems[k] = [latch |-> l, level |-> Num[level[l]]]
              /\ \A j \in DOMAIN arr.elems \ {k} : new.elems[j] = arr.elems[j]
              /\ k \notin Used(arr)
              /\ new.in_use = arr.in_use + 1
              /\ IF arr.next_free = ULINT_UNDEFINED
                 THEN new.next_free = ULINT_UNDEFINED /\ k \notin DOMAIN arr.elems
                      /\ Len(new.elems) = Len(arr.elems) + 1
                 ELSE new.next_free = arr.elems[k].level /\ k \in FreeElems(arr)
                      /\ Len(new.elems) = Len(arr.elems)
<1> DEFINE new == sync_thread_add_level(arr, l)
           elem == [latch |-> l, level |-> Num[level[l]]]
           e == arr.elems
<1>t. /\ e \in Seq(Elem) /\ arr.next_free \in Nat /\ arr.in_use \in Int
      /\ Len(e) \in Nat /\ DOMAIN e = 1 .. Len(e)
      /\ arr = [elems |-> e, next_free |-> arr.next_free,
                in_use |-> arr.in_use]
      /\ Used(arr) \subseteq 1 .. Len(e)
      /\ FreeElems(arr) \subseteq 1 .. Len(e)
  BY ArrayParts
<1>e. elem \in Elem
  BY LevelNumbers DEF Elem
<1>1. CASE arr.next_free = ULINT_UNDEFINED
  <2>1. new = [elems |-> Append(e, elem), next_free |-> ULINT_UNDEFINED,
               in_use |-> arr.in_use + 1]
    BY <1>1, <1>t DEF sync_thread_add_level
  <2> HIDE DEF new, elem, e
  <2>2. /\ Append(e, elem) \in Seq(Elem)
        /\ Len(Append(e, elem)) = Len(e) + 1
        /\ Append(e, elem)[Len(e) + 1] = elem
        /\ \A j \in 1 .. Len(e) : Append(e, elem)[j] = e[j]
        /\ DOMAIN Append(e, elem) = 1 .. Len(e) + 1
    BY <1>t, <1>e, AppendProperties, LenProperties
  <2>3. /\ new \in Array /\ new.elems = Append(e, elem)
        /\ new.in_use = arr.in_use + 1 /\ new.next_free = ULINT_UNDEFINED
    BY <2>1, <2>2, <1>t DEF Array, ULINT_UNDEFINED
  <2> QED
    BY <1>1, <1>t, <2>2, <2>3 DEF e, new, elem
<1>2. CASE arr.next_free # ULINT_UNDEFINED
  <2> DEFINE i == arr.next_free
  <2>1. i \in FreeElems(arr)
    BY <1>2 DEF FreeExact
  <2>2. i \in 1 .. Len(e) /\ i \notin Used(arr) /\ e[i].level \in Nat
    BY <1>t, <2>1, ArrayParts DEF FreeElems
  <2>3. new = [elems |-> [e EXCEPT ![i] = elem], next_free |-> e[i].level,
               in_use |-> arr.in_use + 1]
    BY <1>2, <1>t DEF sync_thread_add_level
  <2> HIDE DEF new, elem, e
  <2>4. /\ [e EXCEPT ![i] = elem] \in Seq(Elem)
        /\ Len([e EXCEPT ![i] = elem]) = Len(e)
        /\ [e EXCEPT ![i] = elem][i] = elem
        /\ \A j \in 1 .. Len(e) : j # i => [e EXCEPT ![i] = elem][j] = e[j]
        /\ DOMAIN [e EXCEPT ![i] = elem] = 1 .. Len(e)
    BY <1>t, <1>e, <2>2, ExceptSeq
  <2>5. /\ new \in Array /\ new.elems = [e EXCEPT ![i] = elem]
        /\ new.in_use = arr.in_use + 1 /\ new.next_free = e[i].level
    BY <2>2, <2>3, <2>4, <1>t DEF Array
  <2> QED
    BY <1>2, <1>t, <2>1, <2>2, <2>4, <2>5 DEF e, new, elem
<1> QED
  BY <1>1, <1>2

\* An array with one more element in use, at k.
LEMMA ListsAdd ==
    ASSUME NEW arr \in Array, NEW new \in Array, NEW l \in Latches,
           NEW held \in [Latches -> Nat], Lists(level, arr, held), NEW k,
           DOMAIN new.elems = DOMAIN arr.elems \cup {k},
           new.elems[k] = [latch |-> l, level |-> Num[level[l]]],
           \A j \in DOMAIN arr.elems \ {k} : new.elems[j] = arr.elems[j],
           k \notin Used(arr), new.in_use = arr.in_use + 1
    PROVE  /\ Used(new) = Used(arr) \cup {k}
           /\ Cardinality(Used(new)) = Cardinality(Used(arr)) + 1
           /\ Lists(level, new, More(held, l))
<1>n. l # NoLatch
  BY LatchAssumption
<1>1. Used(new) = Used(arr) \cup {k}
  BY <1>n DEF Used
<1>2. ASSUME NEW m \in Latches
      PROVE  OfLatch(new, m) = IF m = l THEN OfLatch(arr, m) \cup {k}
                               ELSE OfLatch(arr, m)
  <2>1. \A j \in Used(arr) : j # k /\ new.elems[j].latch = arr.elems[j].latch
    BY DEF Used
  <2>2. new.elems[k].latch = l
    OBVIOUS
  <2> QED
    BY <1>1, <2>1, <2>2 DEF OfLatch
<1>3. Cardinality(Used(new)) = Cardinality(Used(arr)) + 1
  BY <1>1, ArrayFinite, FS_AddElement, ZenonT(40)
<1>4. ASSUME NEW m \in Latches
      PROVE  Cardinality(OfLatch(new, m)) = More(held, l)[m]
  <2>1. k \notin OfLatch(arr, m)
    BY DEF OfLatch
  <2>2. Cardinality(OfLatch(arr, m) \cup {k}) = Cardinality(OfLatch(arr, m)) + 1
    BY <2>1, ArrayFinite, FS_AddElement
  <2>3. Cardinality(OfLatch(arr, m)) = held[m]
    BY DEF Lists
  <2> QED
    BY <1>2, <2>2, <2>3 DEF More
<1>5. \A j \in Used(new) : new.elems[j].level = Num[level[new.elems[j].latch]]
  <2>1. \A j \in Used(arr) : new.elems[j] = arr.elems[j]
    BY DEF Used
  <2>2. new.elems[k].level = Num[level[new.elems[k].latch]]
    OBVIOUS
  <2> QED
    BY <1>1, <2>1, <2>2 DEF Lists
<1>6. new.in_use = Cardinality(Used(new))
  BY <1>3 DEF Lists
<1> QED
  BY <1>1, <1>3, <1>4, <1>5, <1>6 DEF Lists

\* sync_thread_add_level keeps an array exact; it makes the array longer only
\* if every element is in use.
LEMMA AddExact ==
    ASSUME NEW arr \in Array, NEW l \in Latches, FreeExact(arr),
           level \in [Latches -> Names],
           NEW held \in [Latches -> Nat], Lists(level, arr, held)
    PROVE  LET new == sync_thread_add_level(arr, l)
           IN /\ new \in Array /\ new # NoArray
              /\ Lists(level, new, More(held, l))
              /\ FreeExact(new)
              /\ \/ Len(new.elems) = Len(arr.elems)
                 \/ Len(new.elems) = Cardinality(Used(new))
<1> DEFINE new == sync_thread_add_level(arr, l)
           k == IF arr.next_free = ULINT_UNDEFINED THEN Len(arr.elems) + 1
                ELSE arr.next_free
           free == FreeElems(arr)
<1>1. /\ new \in Array
      /\ DOMAIN new.elems = DOMAIN arr.elems \cup {k}
      /\ new.elems[k] = [latch |-> l, level |-> Num[level[l]]]
      /\ \A j \in DOMAIN arr.elems \ {k} : new.elems[j] = arr.elems[j]
      /\ k \notin Used(arr)
      /\ new.in_use = arr.in_use + 1
      /\ IF arr.next_free = ULINT_UNDEFINED
         THEN new.next_free = ULINT_UNDEFINED /\ k \notin DOMAIN arr.elems
              /\ Len(new.elems) = Len(arr.elems) + 1
         ELSE new.next_free = arr.elems[k].level /\ k \in free
              /\ Len(new.elems) = Len(arr.elems)
  BY AddEffect
<1> HIDE DEF new, k
<1>2. /\ Used(new) = Used(arr) \cup {k}
      /\ Cardinality(Used(new)) = Cardinality(Used(arr)) + 1
      /\ Lists(level, new, More(held, l))
  BY <1>1, ListsAdd
<1>3. new # NoArray
  BY <1>2, NewArrayExact
<1>f. /\ FreeElems(new) = free \ {k}
      /\ \A j \in free \ {k} : new.elems[j].level = arr.elems[j].level
  BY <1>1, <1>2 DEF FreeElems
<1>g. /\ {arr.next_free} \cup {arr.elems[i].level : i \in free}
           = free \cup {ULINT_UNDEFINED}
      /\ \A i, j \in free : arr.elems[i].level = arr.elems[j].level => i = j
      /\ \A i \in free : arr.elems[i].level # arr.next_free
      /\ \A C \in (SUBSET free) \ {{}} : \E i \in C : arr.elems[i].level \notin C
  BY DEF FreeExact
<1>4. CASE arr.next_free = ULINT_UNDEFINED
  <2>1. free = {} /\ Used(arr) = 1 .. Len(arr.elems)
    BY <1>4, NoneFree
  <2>2. FreeExact(new)
    BY <1>1, <1>4, <1>f, <2>1 DEF FreeExact
  <2>3. Cardinality(Used(arr)) = Len(arr.elems)
    <3>1. Len(arr.elems) \in Nat
      BY ArrayParts
    <3> QED
      BY <2>1, <3>1, PrefixSize
  <2> QED
    BY <1>1, <1>2, <1>3, <1>4, <2>2, <2>3 DEF new
<1>5. CASE arr.next_free # ULINT_UNDEFINED
  <2>1. /\ new.next_free = arr.elems[k].level /\ k \in free
        /\ k = arr.next_free /\ k # ULINT_UNDEFINED
    BY <1>1, <1>5 DEF k
  <2>2. {new.next_free} \cup {new.elems[i].level : i \in FreeElems(new)}
          = FreeElems(new) \cup {ULINT_UNDEFINED}
    <3>1. {new.next_free} \cup {new.elems[i].level : i \in FreeElems(new)}
            = {arr.elems[i].level : i \in free}
      BY <1>f, <2>1
    <3>2. {arr.elems[i].level : i \in free} = (free \cup {ULINT_UNDEFINED}) \ {k}
      BY <1>g, <2>1
    <3> QED
      BY <3>1, <3>2, <1>f, <2>1
  <2>3. /\ \A i, j \in FreeElems(new) :
             new.elems[i].level = new.elems[j].level => i = j
        /\ \A i \in FreeElems(new) : new.elems[i].level # new.next_free
    BY <1>f, <1>g, <2>1
  <2>4. ASSUME NEW C \in (SUBSET FreeElems(new)) \ {{}}
        PROVE  \E i \in C : new.elems[i].level \notin C
    <3>1. C \in (SUBSET free) \ {{}}
      BY <1>f
    <3> QED
      BY <3>1, <1>f, <1>g
  <2>5. FreeExact(new)
    BY <2>2, <2>3, <2>4 DEF FreeExact
  <2> QED
    BY <1>1, <1>2, <1>3, <1>5, <2>5 DEF new
<1> QED
  BY <1>4, <1>5

\* A latch that is held has an element.
LEMMA HeldHasElem ==
    ASSUME NEW arr \in Array, NEW held \in [Latches -> Nat], Lists(level, arr, held),
           NEW l \in Latches
    PROVE  held[l] > 0 <=> OfLatch(arr, l) # {}
<1>1. Cardinality(OfLatch(arr, l)) = held[l] /\ held[l] \in Nat
  BY DEF Lists
<1>2. Cardinality(OfLatch(arr, l)) = 0 <=> OfLatch(arr, l) = {}
  BY ArrayFinite, FS_EmptySet
<1> QED
  BY <1>1, <1>2

\* sync_thread_reset_level finds an element of a latch that is listed.
LEMMA FirstElem ==
    ASSUME NEW arr \in Array, NEW l, OfLatch(arr, l) # {}
    PROVE  first_elem(arr, l) \in OfLatch(arr, l)
<1>1. OfLatch(arr, l) \in SUBSET Nat
  BY UsedElems DEF OfLatch
<1>2. PICK i \in OfLatch(arr, l) : \A j \in OfLatch(arr, l) : i <= j
  BY <1>1, NatMin
<1>3. \E k \in Used(arr) :
        /\ arr.elems[k].latch = l
        /\ \A j \in Used(arr) : arr.elems[j].latch = l => k <= j
  BY <1>2 DEF OfLatch
<1> QED
  BY <1>3 DEF first_elem, OfLatch

\* An array with one element in use less, at k.
LEMMA ListsRemove ==
    ASSUME NEW arr \in Array, NEW new \in Array, NEW l \in Latches,
           NEW held \in [Latches -> Nat], Lists(level, arr, held),
           NEW k \in OfLatch(arr, l),
           DOMAIN new.elems = DOMAIN arr.elems,
           new.elems[k].latch = NoLatch,
           \A j \in DOMAIN arr.elems \ {k} : new.elems[j] = arr.elems[j],
           new.in_use = arr.in_use - 1
    PROVE  /\ Used(new) = Used(arr) \ {k}
           /\ Lists(level, new, Less(held, l))
<1>k. k \in Used(arr) /\ k \in DOMAIN arr.elems /\ arr.elems[k].latch = l
  BY DEF OfLatch, Used
<1>1. Used(new) = Used(arr) \ {k}
  BY <1>k DEF Used
<1>s. \A j \in Used(new) : j # k /\ new.elems[j] = arr.elems[j]
  BY <1>1 DEF Used
<1>2. ASSUME NEW m \in Latches
      PROVE  OfLatch(new, m) = IF m = l THEN OfLatch(arr, m) \ {k}
                               ELSE OfLatch(arr, m)
  <2>1. OfLatch(new, m) = OfLatch(arr, m) \ {k}
    BY <1>1, <1>s DEF OfLatch
  <2>2. m # l => k \notin OfLatch(arr, m)
    BY <1>k DEF OfLatch
  <2> QED
    BY <2>1, <2>2
<1>3. Cardinality(Used(new)) = Cardinality(Used(arr)) - 1
  BY <1>1, <1>k, ArrayFinite, FS_RemoveElement
<1>4. ASSUME NEW m \in Latches
      PROVE  Cardinality(OfLatch(new, m)) = Less(held, l)[m]
  <2>1. Cardinality(OfLatch(arr, l) \ {k}) = Cardinality(OfLatch(arr, l)) - 1
    BY ArrayFinite, FS_RemoveElement
  <2>2. Cardinality(OfLatch(arr, m)) = held[m]
    BY DEF Lists
  <2> QED
    BY <1>2, <2>1, <2>2 DEF Less
<1>5. \A j \in Used(new) : new.elems[j].level = Num[level[new.elems[j].latch]]
  BY <1>1, <1>s DEF Lists
<1>6. new.in_use = Cardinality(Used(new))
  BY <1>3 DEF Lists
<1> QED
  BY <1>1, <1>4, <1>5, <1>6 DEF Lists

\* The last element in use: the array starts again.
LEMMA ListsLast ==
    ASSUME NEW arr \in Array, NEW l \in Latches,
           NEW held \in [Latches -> Nat], Lists(level, arr, held), held[l] > 0,
           arr.in_use = 1
    PROVE  Lists(level, NewArray, Less(held, l))
<1>1. PICK k : Used(arr) = {k}
  <2>1. Cardinality(Used(arr)) = 1
    BY DEF Lists
  <2> QED
    BY <2>1, ArrayFinite, FS_Singleton
<1>2. arr.elems[k].latch = l
  <2>1. OfLatch(arr, l) # {}
    BY HeldHasElem
  <2> QED
    BY <1>1, <2>1 DEF OfLatch
<1>3. ASSUME NEW m \in Latches PROVE Less(held, l)[m] = 0
  <2>1. OfLatch(arr, m) = IF m = l THEN {k} ELSE {}
    BY <1>1, <1>2 DEF OfLatch
  <2>2. Cardinality({k}) = 1 /\ Cardinality({}) = 0
    BY FS_EmptySet, FS_Singleton
  <2>3. held[m] = Cardinality(OfLatch(arr, m))
    BY DEF Lists
  <2>4. held[m] = IF m = l THEN 1 ELSE 0
    BY <2>1, <2>2, <2>3
  <2> QED
    BY <2>4 DEF Less
<1>4. Less(held, l) = [m \in Latches |-> 0]
  BY <1>3 DEF Less
<1> QED
  BY <1>4, NewArrayExact

\* sync_thread_reset_level keeps an array exact.
LEMMA ResetExact ==
    ASSUME NEW arr \in Array, NEW l \in Latches, FreeExact(arr),
           NEW held \in [Latches -> Nat], Lists(level, arr, held), held[l] > 0
    PROVE  LET new == sync_thread_reset_level(arr, l)
           IN /\ new \in Array /\ new # NoArray
              /\ Lists(level, new, Less(held, l))
              /\ FreeExact(new)
              /\ Len(new.elems) <= Len(arr.elems)
<1> DEFINE new == sync_thread_reset_level(arr, l)
           k == first_elem(arr, l)
           e == arr.elems
           elem == [latch |-> NoLatch, level |-> arr.next_free]
           free == FreeElems(arr)
<1>t. /\ e \in Seq(Elem) /\ arr.next_free \in Nat /\ arr.in_use \in Int
      /\ Len(e) \in Nat /\ DOMAIN e = 1 .. Len(e)
      /\ free \subseteq 1 .. Len(e)
  BY ArrayParts
<1>e. elem \in Elem
  BY <1>t DEF Elem
<1>1. CASE arr.in_use = 1
  <2>1. new = NewArray
    BY <1>1 DEF sync_thread_reset_level
  <2>2. NewArray # NoArray
    BY DEF NewArray, NoArray
  <2>3. Lists(level, NewArray, Less(held, l))
    BY <1>1, ListsLast
  <2> QED
    BY <1>t, <2>1, <2>2, <2>3, NewArrayExact
<1>2. CASE arr.in_use # 1
  <2>k. k \in OfLatch(arr, l)
    <3>1. OfLatch(arr, l) # {}
      BY HeldHasElem
    <3> QED
      BY <3>1, FirstElem
  <2>1. new = [elems |-> [e EXCEPT ![k] = elem], next_free |-> k,
               in_use |-> arr.in_use - 1]
    BY <1>2 DEF sync_thread_reset_level
  <2> HIDE DEF new, k, e, elem
  <2>2. k \in Used(arr) /\ k \in 1 .. Len(e) /\ k \in Nat /\ k # 0
        /\ k \notin free
    BY <2>k, UsedElems DEF OfLatch, e, FreeElems
  <2>3. /\ [e EXCEPT ![k] = elem] \in Seq(Elem)
        /\ Len([e EXCEPT ![k] = elem]) = Len(e)
        /\ [e EXCEPT ![k] = elem][k] = elem
        /\ \A j \in 1 .. Len(e) : j # k => [e EXCEPT ![k] = elem][j] = e[j]
        /\ DOMAIN [e EXCEPT ![k] = elem] = 1 .. Len(e)
    BY <1>t, <1>e, <2>2, ExceptSeq
  <2>4. /\ new \in Array /\ new.next_free = k /\ new.in_use = arr.in_use - 1
        /\ DOMAIN new.elems = DOMAIN arr.elems
        /\ Len(new.elems) = Len(arr.elems)
        /\ new.elems[k].latch = NoLatch /\ new.elems[k].level = arr.next_free
        /\ \A j \in DOMAIN arr.elems \ {k} : new.elems[j] = arr.elems[j]
    BY <1>t, <2>1, <2>2, <2>3 DEF Array, e, elem
  <2>5. /\ Used(new) = Used(arr) \ {k}
        /\ Lists(level, new, Less(held, l))
    BY <2>k, <2>4, ListsRemove
  <2>6. /\ FreeElems(new) = free \cup {k}
        /\ \A j \in free : new.elems[j].level = arr.elems[j].level
    BY <1>t, <2>2, <2>4, <2>5 DEF FreeElems, e
  <2>g. /\ {arr.next_free} \cup {arr.elems[i].level : i \in free}
             = free \cup {ULINT_UNDEFINED}
        /\ \A i, j \in free : arr.elems[i].level = arr.elems[j].level => i = j
        /\ \A i \in free : arr.elems[i].level # arr.next_free
        /\ \A C \in (SUBSET free) \ {{}} : \E i \in C : arr.elems[i].level \notin C
    BY DEF FreeExact
  <2>n. k # arr.next_free /\ \A j \in free : arr.elems[j].level # k
    BY <2>2, <2>g DEF ULINT_UNDEFINED
  <2>7. {new.next_free} \cup {new.elems[i].level : i \in FreeElems(new)}
          = FreeElems(new) \cup {ULINT_UNDEFINED}
    <3>1. {new.elems[i].level : i \in FreeElems(new)}
            = {arr.next_free} \cup {arr.elems[i].level : i \in free}
      BY <2>4, <2>6
    <3> QED
      BY <3>1, <2>4, <2>6, <2>g
  <2>8. /\ \A i, j \in FreeElems(new) :
             new.elems[i].level = new.elems[j].level => i = j
        /\ \A i \in FreeElems(new) : new.elems[i].level # new.next_free
    BY <2>4, <2>6, <2>g, <2>n
  <2>9. ASSUME NEW C \in (SUBSET FreeElems(new)) \ {{}}
        PROVE  \E i \in C : new.elems[i].level \notin C
    <3>1. CASE C = {k}
      BY <3>1, <2>4, <2>n
    <3>2. CASE C # {k}
      <4>1. C \ {k} \in (SUBSET free) \ {{}}
        BY <3>2, <2>6
      <4>2. PICK i \in C \ {k} : arr.elems[i].level \notin C \ {k}
        BY <4>1, <2>g
      <4>3. i \in free /\ new.elems[i].level \notin C
        BY <4>1, <4>2, <2>6, <2>n
      <4> QED
        BY <4>2, <4>3
    <3> QED
      BY <3>1, <3>2
  <2>10. FreeExact(new)
    BY <2>7, <2>8, <2>9 DEF FreeExact
  <2>11. new # NoArray
    <3>1. DOMAIN new.elems # {}
      BY <1>t, <2>2, <2>4 DEF e
    <3>2. DOMAIN NoArray.elems = {}
      BY DEF NoArray
    <3> QED
      BY <3>1, <3>2
  <2> QED
    BY <1>t, <2>4, <2>5, <2>10, <2>11 DEF new, e
<1> QED
  BY <1>1, <1>2

-----------------------------------------------------------------------------
(* The inductive invariant *)

\* How often t holds each latch that the arrays track.
Count(t) ==
    [l \in Latches |-> IF owner[l] = t /\ Tracked(l) THEN recursion[l] ELSE 0]

\* A latch has an owner exactly while it is held; only an rw-lock is held
\* more than once.
OwnerInv ==
    \A l \in Latches :
      /\ recursion[l] = 0 <=> owner[l] = NoThread
      /\ l \notin RwLatches => recursion[l] <= 1

\* A closed server has no user of latches, a starting one has one thread.
AloneInv ==
    /\ phase = "closed" => \A t \in ThreadIds : Idle(t)
    /\ phase # "running" => \A t, u \in ThreadIds : t = u \/ Idle(t) \/ Idle(u)

\* A thread waits for a latch that it may lock again, or that passed the
\* check; its array has not changed since.
MayWait(t, l) ==
    IF owner[l] = t THEN l \in RwLatches /\ recursion[l] < MaxRecursion
    ELSE Tracked(l) => order_ok(array_of(t), level[l])

WaitInv ==
    \A t \in ThreadIds : waiting[t] # NoLatch => MayWait(t, waiting[t])

LatchInv ==
    /\ LatchTypeOK
    /\ OwnerInv
    /\ AloneInv
    /\ WaitInv
    /\ ~sync_order_checks_on => \A t \in ThreadIds : levels[t] = NoArray
    /\ \A t \in ThreadIds : Lists(level, array_of(t), Count(t))
    /\ FreeListExact

-----------------------------------------------------------------------------
(* Steps *)

LEMMA FreeListParts ==
    /\ FreeListExact <=> \A t \in ThreadIds : FreeExact(levels[t])
    /\ FreeListExact' <=> \A t \in ThreadIds : FreeExact(levels'[t])
<1>1. FreeListExact <=> \A t \in ThreadIds : FreeExact(levels[t])
  BY DEF FreeListExact, FreeExact, FreeElems
<1>2. FreeListExact' <=> \A t \in ThreadIds : FreeExact(levels'[t])
  BY DEF FreeListExact, FreeExact, FreeElems
<1> QED
  BY <1>1, <1>2

\* The invariant's parts that the steps of threads use.
LEMMA LatchFacts ==
    ASSUME LatchInv, NEW t \in ThreadIds
    PROVE  /\ levels[t] \in Array /\ FreeExact(levels[t])
           /\ array_of(t) \in Array /\ FreeExact(array_of(t))
           /\ Count(t) \in [Latches -> Nat]
           /\ Lists(level, array_of(t), Count(t))
           /\ level \in [Latches -> Names]
           /\ NoThread \notin ThreadIds /\ NoLatch \notin Latches
<1>1. levels[t] \in Array /\ FreeExact(levels[t])
  BY FreeListParts DEF LatchInv, LatchTypeOK
<1>2. Count(t) \in [Latches -> Nat]
  BY LatchAssumption DEF LatchInv, LatchTypeOK, Count
<1> QED
  BY <1>1, <1>2, NewArrayExact, LatchAssumption DEF LatchInv, LatchTypeOK, array_of

LEMMA LatchInitInv == LatchInit => LatchInv
<1> SUFFICES ASSUME LatchInit PROVE LatchInv
  OBVIOUS
<1>1. LatchTypeOK
  BY LatchAssumption, NewArrayExact DEF LatchInit, LatchTypeOK, Phases
<1>2. OwnerInv /\ WaitInv
  BY LatchAssumption DEF LatchInit, OwnerInv, WaitInv
<1>3. \A t \in ThreadIds : Idle(t)
  BY LatchAssumption DEF LatchInit, Idle, Held
<1>4. AloneInv
  BY <1>3 DEF AloneInv
<1>5. ASSUME NEW t \in ThreadIds
      PROVE  /\ levels[t] = NoArray /\ array_of(t) = NewArray
             /\ Count(t) = [l \in Latches |-> 0]
  BY DEF LatchInit, array_of, Count
<1>6. FreeListExact
  BY <1>5, NewArrayExact, FreeListParts
<1> QED
  BY <1>1, <1>2, <1>4, <1>5, <1>6, NewArrayExact DEF LatchInv

\* What an array passed stays passed while server and array stay.
LEMMA WaitKept ==
    ASSUME NEW t \in ThreadIds, NEW l \in Latches, phase' = phase, level' = level,
           levels'[t] = levels[t], owner'[l] = t <=> owner[l] = t,
           owner[l] = t => recursion'[l] = recursion[l],
           MayWait(t, l)
    PROVE  MayWait(t, l)'
<1>1. array_of(t)' = array_of(t)
  BY DEF array_of
<1>2. /\ Tracked(l)' <=> Tracked(l)
      /\ order_ok(array_of(t), level[l])' <=> order_ok(array_of(t), level[l])
  BY <1>1 DEF Tracked, sync_order_checks_on, order_ok, srv_is_being_started
<1> QED
  BY <1>2 DEF MayWait

\* A thread asks for a latch.
LEMMA RequestStep ==
    ASSUME LatchInv, NEW t \in ThreadIds, NEW l \in Latches, Request(t, l)
    PROVE  LatchInv'
<1>t. /\ LatchTypeOK /\ OwnerInv /\ AloneInv /\ WaitInv
      /\ ~sync_order_checks_on => \A u \in ThreadIds : levels[u] = NoArray
  BY DEF LatchInv
<1>r. /\ phase # "closed" /\ waiting[t] = NoLatch
      /\ phase = "running" \/ \A u \in ThreadIds \ {t} : Idle(u)
      /\ IF owner[l] = t THEN l \in RwLatches /\ recursion[l] < MaxRecursion
         ELSE Tracked(l) => order_ok(array_of(t), level[l])
      /\ waiting' = [waiting EXCEPT ![t] = l]
      /\ level' = level /\ phase' = phase /\ owner' = owner
      /\ recursion' = recursion /\ levels' = levels
  BY DEF Request
<1>1. LatchTypeOK'
  BY <1>t, <1>r DEF LatchTypeOK
<1>2. OwnerInv'
  BY <1>t, <1>r DEF OwnerInv
<1>3. AloneInv'
  <2>1. \A u \in ThreadIds \ {t} : Idle(u)' <=> Idle(u)
    BY <1>t, <1>r DEF Idle, Held, LatchTypeOK
  <2> QED
    BY <1>t, <1>r, <2>1 DEF AloneInv
<1>4. WaitInv'
  <2> SUFFICES ASSUME NEW u \in ThreadIds, NEW m \in Latches, waiting'[u] = m
               PROVE  MayWait(u, m)'
    BY <1>1 DEF WaitInv, LatchTypeOK
  <2>1. MayWait(u, m)
    <3>1. CASE u = t
      BY <1>t, <1>r, <3>1 DEF LatchTypeOK, MayWait
    <3>2. CASE u # t
      BY <1>t, <1>r, <3>2, LatchAssumption DEF LatchTypeOK, WaitInv
    <3> QED
      BY <3>1, <3>2
  <2> QED
    BY <1>r, <2>1, WaitKept
<1>5. \A u \in ThreadIds : array_of(u)' = array_of(u) /\ Count(u)' = Count(u)
  BY <1>r DEF array_of, Count, Tracked, sync_order_checks_on
<1>6. \A u \in ThreadIds : Lists(level, array_of(u), Count(u))'
  BY <1>r, <1>5 DEF LatchInv
<1>7. FreeListExact' /\ (sync_order_checks_on' <=> sync_order_checks_on)
  BY <1>r, FreeListParts DEF LatchInv, sync_order_checks_on
<1> QED
  BY <1>t, <1>r, <1>1, <1>2, <1>3, <1>4, <1>6, <1>7 DEF LatchInv

\* Other threads keep what they have when owner and array of one thread
\* change, and its latch is not theirs.
LEMMA OthersKept ==
    ASSUME LatchInv, LatchTypeOK', NEW t \in ThreadIds, NEW l \in Latches,
           NEW u \in ThreadIds, u # t, phase' = phase, level' = level,
           owner[l] # u, owner'[l] # u,
           \A m \in Latches \ {l} : owner'[m] = owner[m]
                                    /\ recursion'[m] = recursion[m],
           waiting'[u] = waiting[u], levels'[u] = levels[u]
    PROVE  /\ Idle(u)' <=> Idle(u)
           /\ Lists(level, array_of(u), Count(u))'
           /\ waiting'[u] # NoLatch => MayWait(u, waiting[u])'
<1>1. Held(u)' = Held(u)
  BY DEF Held
<1>2. Idle(u)' <=> Idle(u)
  BY <1>1 DEF Idle
<1>3. array_of(u)' = array_of(u)
  BY DEF array_of
<1>4. Count(u)' = Count(u)
  BY DEF Count, Tracked, sync_order_checks_on
<1>5. Lists(level, array_of(u), Count(u))'
  BY <1>3, <1>4 DEF LatchInv
<1>6. ASSUME waiting[u] # NoLatch PROVE MayWait(u, waiting[u])'
  <2>1. PICK m \in Latches : waiting[u] = m /\ waiting'[u] = m
    BY <1>6 DEF LatchInv, LatchTypeOK
  <2>2. MayWait(u, m)
    BY <1>6, <2>1 DEF LatchInv, WaitInv
  <2>3. MayWait(u, m)'
    BY <2>2, WaitKept
  <2> QED
    BY <2>1, <2>3
<1> QED
  BY <1>2, <1>5, <1>6

\* A thread gets the latch it waits for.
LEMMA EnterStep ==
    ASSUME LatchInv, NEW t \in ThreadIds, EnterLatch(t)
    PROVE  LatchInv'
<1>t. /\ LatchTypeOK /\ OwnerInv /\ AloneInv /\ WaitInv
      /\ ~sync_order_checks_on => \A u \in ThreadIds : levels[u] = NoArray
  BY DEF LatchInv
<1>l. PICK l \in Latches : waiting[t] = l
  BY <1>t DEF EnterLatch, LatchTypeOK
<1> DEFINE new == sync_thread_add_level(array_of(t), l)
<1>e. /\ waiting[t] # NoLatch /\ owner[l] \in {NoThread, t}
      /\ owner' = [owner EXCEPT ![l] = t]
      /\ recursion' = [recursion EXCEPT ![l] = @ + 1]
      /\ waiting' = [waiting EXCEPT ![t] = NoLatch]
      /\ levels' = IF Tracked(l) THEN [levels EXCEPT ![t] = new] ELSE levels
      /\ level' = level /\ phase' = phase
  BY <1>l DEF EnterLatch
<1>w. MayWait(t, l)
  BY <1>t, <1>e, <1>l DEF WaitInv
<1>a. /\ new \in Array /\ new # NoArray
      /\ Lists(level, new, More(Count(t), l))
      /\ FreeExact(new)
  BY <1>l, LatchFacts, AddExact
<1> HIDE DEF new
<1>r. /\ recursion[l] \in Nat /\ recursion[l] < MaxRecursion
      /\ l \notin RwLatches => recursion[l] = 0
      /\ owner[l] = NoThread => recursion[l] = 0
  <2>1. owner[l] = NoThread => recursion[l] = 0
    BY <1>t, <1>l DEF OwnerInv
  <2>2. owner[l] = t => l \in RwLatches /\ recursion[l] < MaxRecursion
    BY <1>w DEF MayWait
  <2>3. recursion[l] \in 0 .. MaxRecursion
    BY <1>t, <1>l DEF LatchTypeOK
  <2> QED
    BY <1>e, <2>1, <2>2, <2>3, LatchAssumption
<1>1. LatchTypeOK'
  <2>1. recursion[l] + 1 \in 0 .. MaxRecursion
    BY <1>r, LatchAssumption
  <2>2. levels' \in [ThreadIds -> Array]
    BY <1>t, <1>e, <1>a DEF LatchTypeOK
  <2>3. owner' \in [Latches -> ThreadIds \cup {NoThread}]
        /\ recursion' \in [Latches -> 0 .. MaxRecursion]
        /\ waiting' \in [ThreadIds -> Latches \cup {NoLatch}]
    BY <1>t, <1>e, <1>l, <2>1 DEF LatchTypeOK
  <2> QED
    BY <1>t, <1>e, <2>2, <2>3 DEF LatchTypeOK
<1>2. /\ owner'[l] = t /\ recursion'[l] = recursion[l] + 1
      /\ \A m \in Latches \ {l} : owner'[m] = owner[m]
                                  /\ recursion'[m] = recursion[m]
      /\ waiting'[t] = NoLatch
      /\ \A u \in ThreadIds \ {t} : waiting'[u] = waiting[u]
      /\ \A u \in ThreadIds \ {t} : levels'[u] = levels[u]
      /\ levels'[t] = IF Tracked(l) THEN new ELSE levels[t]
  BY <1>t, <1>e, <1>l DEF LatchTypeOK
<1>3. OwnerInv'
  BY <1>t, <1>r, <1>2, <1>l, LatchAssumption DEF OwnerInv
<1>o. ASSUME NEW u \in ThreadIds, u # t
      PROVE  /\ Idle(u)' <=> Idle(u)
             /\ Lists(level, array_of(u), Count(u))'
             /\ waiting'[u] # NoLatch => MayWait(u, waiting[u])'
  <2>1. owner[l] # u /\ owner'[l] # u
    BY <1>e, <1>o, <1>2, LatchAssumption
  <2> QED
    BY <1>e, <1>l, <1>o, <1>1, <1>2, <2>1, OthersKept
<1>4. AloneInv'
  <2>1. ~Idle(t)
    BY <1>e DEF Idle
  <2>2. phase # "closed"
    BY <1>t, <2>1 DEF AloneInv
  <2>3. phase # "running" => \A u \in ThreadIds : u = t \/ Idle(u)
    BY <1>t, <2>1 DEF AloneInv
  <2> QED
    BY <1>e, <1>o, <2>2, <2>3 DEF AloneInv
<1>5. WaitInv'
  BY <1>o, <1>2 DEF WaitInv
<1>6. ~sync_order_checks_on' => \A u \in ThreadIds : levels'[u] = NoArray
  BY <1>t, <1>e DEF sync_order_checks_on, Tracked
<1>7. Lists(level, array_of(t), Count(t))'
  <2>1. CASE Tracked(l)
    <3>1. array_of(t)' = new
      BY <1>a, <1>2, <2>1 DEF array_of
    <3>2. Count(t)' = More(Count(t), l)
      <4>1. Tracked(l)' /\ \A m \in Latches : Tracked(m)' <=> Tracked(m)
        BY <1>e, <2>1 DEF Tracked, sync_order_checks_on
      <4>2. Count(t)[l] = recursion[l]
        BY <1>e, <1>l, <1>r, <2>1 DEF Count
      <4> QED
        BY <1>2, <1>l, <4>1, <4>2 DEF Count, More
    <3> QED
      BY <1>a, <1>e, <3>1, <3>2
  <2>2. CASE ~Tracked(l)
    <3>1. array_of(t)' = array_of(t)
      BY <1>2, <2>2 DEF array_of
    <3>2. Count(t)' = Count(t)
      BY <1>e, <1>2, <1>l, <2>2 DEF Count, Tracked, sync_order_checks_on
    <3> QED
      BY <1>e, <3>1, <3>2 DEF LatchInv
  <2> QED
    BY <2>1, <2>2
<1>8. FreeListExact'
  <2>1. \A u \in ThreadIds : FreeExact(levels'[u])
    BY <1>a, <1>2, LatchFacts
  <2> QED
    BY <2>1, FreeListParts
<1> QED
  BY <1>1, <1>3, <1>4, <1>5, <1>6, <1>7, <1>8, <1>o DEF LatchInv

\* A thread leaves a latch.
LEMMA ExitStep ==
    ASSUME LatchInv, NEW t \in ThreadIds, NEW l \in Latches, ExitLatch(t, l)
    PROVE  LatchInv'
<1> DEFINE new == sync_thread_reset_level(levels[t], l)
<1>t. /\ LatchTypeOK /\ OwnerInv /\ AloneInv /\ WaitInv
      /\ ~sync_order_checks_on => \A u \in ThreadIds : levels[u] = NoArray
      /\ NoThread \notin ThreadIds
  BY LatchAssumption DEF LatchInv
<1>e. /\ owner[l] = t /\ waiting[t] = NoLatch
      /\ recursion' = [recursion EXCEPT ![l] = @ - 1]
      /\ owner' = [owner EXCEPT ![l] = IF recursion[l] = 1 THEN NoThread ELSE t]
      /\ levels' = IF Tracked(l) THEN [levels EXCEPT ![t] = new] ELSE levels
      /\ level' = level /\ phase' = phase /\ waiting' = waiting
  BY DEF ExitLatch
<1>r. recursion[l] \in 1 .. MaxRecursion
  <2>1. recursion[l] # 0
    BY <1>t, <1>e DEF OwnerInv
  <2>2. recursion[l] \in 0 .. MaxRecursion
    BY <1>t DEF LatchTypeOK
  <2> QED
    BY <2>1, <2>2, LatchAssumption
<1>a. ASSUME Tracked(l)
      PROVE  /\ new \in Array /\ new # NoArray
             /\ Lists(level, new, Less(Count(t), l))
             /\ FreeExact(new)
  <2>1. Count(t)[l] = recursion[l] /\ Count(t)[l] > 0
    BY <1>a, <1>e, <1>r DEF Count
  <2>2. Used(array_of(t)) # {}
    BY <2>1, LatchFacts, HeldHasElem DEF OfLatch
  <2>3. array_of(t) = levels[t]
    BY <2>2, NewArrayExact DEF array_of
  <2> QED
    BY <2>1, <2>3, LatchFacts, ResetExact
<1> HIDE DEF new
<1>1. LatchTypeOK'
  <2>1. recursion[l] - 1 \in 0 .. MaxRecursion
    BY <1>r, LatchAssumption
  <2>2. levels' \in [ThreadIds -> Array]
    BY <1>t, <1>e, <1>a DEF LatchTypeOK
  <2>3. owner' \in [Latches -> ThreadIds \cup {NoThread}]
        /\ recursion' \in [Latches -> 0 .. MaxRecursion]
    BY <1>t, <1>e, <2>1 DEF LatchTypeOK
  <2> QED
    BY <1>t, <1>e, <2>2, <2>3 DEF LatchTypeOK
<1>2. /\ owner'[l] = IF recursion[l] = 1 THEN NoThread ELSE t
      /\ recursion'[l] = recursion[l] - 1
      /\ \A m \in Latches \ {l} : owner'[m] = owner[m]
                                  /\ recursion'[m] = recursion[m]
      /\ \A u \in ThreadIds \ {t} : levels'[u] = levels[u]
      /\ levels'[t] = IF Tracked(l) THEN new ELSE levels[t]
  BY <1>t, <1>e DEF LatchTypeOK
<1>3. OwnerInv'
  <2>1. recursion[l] - 1 = 0 <=> recursion[l] = 1
    BY <1>r, LatchAssumption
  <2>2. l \notin RwLatches => recursion[l] - 1 <= 1
    BY <1>t, <1>r, LatchAssumption DEF OwnerInv
  <2>3. /\ recursion'[l] = 0 <=> owner'[l] = NoThread
        /\ l \notin RwLatches => recursion'[l] <= 1
    BY <1>t, <1>2, <2>1, <2>2
  <2>4. ASSUME NEW m \in Latches, m # l
        PROVE  /\ recursion'[m] = 0 <=> owner'[m] = NoThread
               /\ m \notin RwLatches => recursion'[m] <= 1
    BY <1>t, <1>2, <2>4 DEF OwnerInv
  <2> QED
    BY <2>3, <2>4 DEF OwnerInv
<1>o. ASSUME NEW u \in ThreadIds, u # t
      PROVE  /\ Idle(u)' <=> Idle(u)
             /\ Lists(level, array_of(u), Count(u))'
             /\ waiting'[u] # NoLatch => MayWait(u, waiting[u])'
  <2>1. owner[l] # u /\ owner'[l] # u
    BY <1>e, <1>o, <1>t, <1>2
  <2> QED
    BY <1>e, <1>o, <1>1, <1>2, <2>1, OthersKept
<1>4. AloneInv'
  <2>1. ~Idle(t)
    BY <1>e DEF Idle, Held
  <2>2. phase # "closed"
    BY <1>t, <2>1 DEF AloneInv
  <2>3. phase # "running" => \A u \in ThreadIds : u = t \/ Idle(u)
    BY <1>t, <2>1 DEF AloneInv
  <2> QED
    BY <1>e, <1>o, <2>2, <2>3 DEF AloneInv
<1>5. WaitInv'
  BY <1>o, <1>e DEF WaitInv
<1>6. ~sync_order_checks_on' => \A u \in ThreadIds : levels'[u] = NoArray
  BY <1>t, <1>e DEF sync_order_checks_on, Tracked
<1>7. Lists(level, array_of(t), Count(t))'
  <2>1. CASE Tracked(l)
    <3>1. array_of(t)' = new
      BY <1>a, <1>2, <2>1 DEF array_of
    <3>2. Count(t)' = Less(Count(t), l)
      <4>1. \A m \in Latches : Tracked(m)' <=> Tracked(m)
        BY <1>e DEF Tracked, sync_order_checks_on
      <4>2. /\ Count(t) \in [Latches -> Nat] /\ Count(t)[l] = recursion[l]
            /\ Count(t)'[l] = recursion[l] - 1
        <5>1. Count(t) \in [Latches -> Nat]
          BY LatchFacts
        <5>2. Count(t)[l] = recursion[l]
          BY <1>e, <2>1 DEF Count
        <5>3. Count(t)'[l] = IF owner'[l] = t THEN recursion'[l] ELSE 0
          BY <2>1, <4>1 DEF Count
        <5>4. owner'[l] = t <=> recursion[l] # 1
          BY <1>t, <1>2
        <5> QED
          BY <1>r, <1>2, <5>1, <5>2, <5>3, <5>4
      <4>3. \A m \in Latches \ {l} : Count(t)'[m] = Count(t)[m]
        BY <1>2, <4>1 DEF Count
      <4>4. Count(t)' = [m \in Latches |-> Count(t)'[m]]
        BY DEF Count
      <4>5. Less(Count(t), l) =
              [m \in Latches |-> IF m = l THEN Count(t)[l] - 1 ELSE Count(t)[m]]
        BY <4>2 DEF Less
      <4> QED
        BY <4>2, <4>3, <4>4, <4>5
    <3> QED
      BY <1>a, <1>e, <2>1, <3>1, <3>2
  <2>2. CASE ~Tracked(l)
    <3>1. array_of(t)' = array_of(t)
      BY <1>2, <2>2 DEF array_of
    <3>2. Count(t)' = Count(t)
      BY <1>e, <1>2, <2>2 DEF Count, Tracked, sync_order_checks_on
    <3> QED
      BY <1>e, <3>1, <3>2 DEF LatchInv
  <2> QED
    BY <2>1, <2>2
<1>8. FreeListExact'
  <2>1. \A u \in ThreadIds : FreeExact(levels'[u])
    BY <1>a, <1>2, LatchFacts
  <2> QED
    BY <2>1, FreeListParts
<1> QED
  BY <1>1, <1>3, <1>4, <1>5, <1>6, <1>7, <1>8, <1>o DEF LatchInv

\* No latch is held or waited for.
AllFree ==
    /\ \A l \in Latches : owner[l] = NoThread /\ recursion[l] = 0
    /\ \A t \in ThreadIds : waiting[t] = NoLatch

\* sync_all_freed means what it says, since the reservations are counted.
LEMMA QuietIsFree == ASSUME LatchInv, Quiet PROVE AllFree
<1> DEFINE M == {l \in Latches \ RwLatches : recursion[l] # 0}
           R == {l \in RwLatches : recursion[l] # 0}
<1>1. IsFiniteSet(M) /\ IsFiniteSet(R)
  <2>1. M \in SUBSET Latches /\ R \in SUBSET Latches /\ IsFiniteSet(Latches)
    BY LatchAssumption
  <2> QED
    BY <2>1, FS_Subset
<1>2. Cardinality(M) \in Nat /\ Cardinality(R) \in Nat
  BY <1>1, FS_CardinalityType
<1>3. Cardinality(M) + Cardinality(R) = 0
  BY DEF Quiet, sync_all_freed, mutex_n_reserved, rw_lock_n_locked
<1> HIDE DEF M, R
<1>4. Cardinality(M) = 0 /\ Cardinality(R) = 0
  BY <1>2, <1>3
<1>5. M = {} /\ R = {}
  BY <1>1, <1>4, FS_EmptySet
<1>6. \A l \in Latches : recursion[l] = 0
  BY <1>5 DEF M, R
<1> QED
  BY <1>6 DEF LatchInv, OwnerInv, Quiet, AllFree

\* The server changes phase while no latch is used.
LEMMA PhaseStep ==
    ASSUME LatchInv, AllFree, phase' \in Phases,
           UNCHANGED <<level, owner, recursion, waiting>>,
           \/ levels' = [t \in ThreadIds |-> NoArray]
           \/ levels' = levels /\ sync_order_checks_on'
    PROVE  LatchInv'
<1>t. LatchTypeOK /\ OwnerInv
  BY DEF LatchInv
<1>1. LatchTypeOK'
  BY <1>t, NewArrayExact DEF LatchTypeOK
<1>2. OwnerInv' /\ WaitInv'
  BY <1>t DEF OwnerInv, WaitInv, AllFree
<1>3. \A t \in ThreadIds : Idle(t)'
  BY LatchAssumption DEF AllFree, Idle, Held
<1>4. AloneInv'
  BY <1>3 DEF AloneInv
<1>5. ASSUME NEW t \in ThreadIds
      PROVE  /\ Lists(level, array_of(t), Count(t))'
             /\ FreeExact(levels'[t])
  <2>1. Count(t) = [l \in Latches |-> 0] /\ Count(t)' = [l \in Latches |-> 0]
    BY LatchAssumption DEF AllFree, Count
  <2>2. CASE levels' = levels
    <3>1. array_of(t)' = array_of(t)
      BY <2>2 DEF array_of
    <3> QED
      BY <2>1, <2>2, <3>1, LatchFacts
  <2>3. CASE levels' = [u \in ThreadIds |-> NoArray]
    <3>1. array_of(t)' = NewArray /\ levels'[t] = NoArray
      BY <2>3 DEF array_of
    <3>2. Lists(level', NewArray, [l \in Latches |-> 0])
      BY NewArrayExact
    <3> QED
      BY <2>1, <3>1, <3>2, NewArrayExact
  <2> QED
    BY <2>2, <2>3
<1>6. FreeListExact'
  BY <1>5, FreeListParts
<1> QED
  BY <1>1, <1>2, <1>4, <1>5, <1>6 DEF LatchInv

\* Each step keeps the invariant.
LEMMA LatchNextInv == LatchInv /\ [LatchNext]_latchVars => LatchInv'
<1> SUFFICES ASSUME LatchInv, [LatchNext]_latchVars PROVE LatchInv'
  OBVIOUS
<1>1. CASE sync_init
  <2>1. \A t \in ThreadIds : Idle(t)
    BY <1>1 DEF sync_init, LatchInv, AloneInv
  <2>2. \A l \in Latches : owner[l] = NoThread
    BY <2>1 DEF Idle, Held, LatchInv, LatchTypeOK
  <2>3. AllFree
    BY <2>1, <2>2 DEF AllFree, Idle, LatchInv, OwnerInv
  <2>4. levels' = [t \in ThreadIds |-> NoArray]
    <3>1. \A t \in ThreadIds : levels[t] = NoArray
      BY <1>1 DEF sync_init, LatchInv, sync_order_checks_on
    <3>2. levels \in [ThreadIds -> Array]
      BY DEF LatchInv, LatchTypeOK
    <3> QED
      BY <1>1, <3>1, <3>2 DEF sync_init
  <2> QED
    BY <1>1, <2>3, <2>4, PhaseStep DEF sync_init, Phases
<1>2. CASE Started
  <2>1. AllFree
    BY <1>2, QuietIsFree DEF Started
  <2>2. sync_order_checks_on' /\ levels' = levels /\ phase' \in Phases
    BY <1>2 DEF Started, sync_order_checks_on, Phases
  <2> QED
    BY <1>2, <2>1, <2>2, PhaseStep DEF Started
<1>3. CASE sync_close
  <2>1. AllFree
    BY <1>3, QuietIsFree DEF sync_close
  <2> QED
    BY <1>3, <2>1, PhaseStep DEF sync_close, Phases
<1>4. ASSUME NEW t \in ThreadIds, EnterLatch(t) PROVE LatchInv'
  BY <1>4, EnterStep
<1>5. ASSUME NEW t \in ThreadIds, NEW l \in Latches, Request(t, l)
      PROVE  LatchInv'
  BY <1>5, RequestStep
<1>6. ASSUME NEW t \in ThreadIds, NEW l \in Latches, ExitLatch(t, l)
      PROVE  LatchInv'
  BY <1>6, ExitStep
<1>7. CASE UNCHANGED latchVars
  <2>1. /\ level' = level /\ phase' = phase /\ owner' = owner
        /\ recursion' = recursion /\ waiting' = waiting /\ levels' = levels
    BY <1>7 DEF latchVars
  <2>2. LatchTypeOK' /\ OwnerInv' /\ AloneInv'
    BY <2>1 DEF LatchInv, LatchTypeOK, OwnerInv, AloneInv, Idle, Held
  <2>3. WaitInv'
    <3> SUFFICES ASSUME NEW u \in ThreadIds, NEW m \in Latches, waiting'[u] = m
                 PROVE  MayWait(u, m)'
      BY <2>2 DEF WaitInv, LatchTypeOK
    <3>1. MayWait(u, m)
      BY <2>1, LatchAssumption DEF LatchInv, WaitInv
    <3> QED
      BY <2>1, <3>1, WaitKept
  <2>4. \A u \in ThreadIds : array_of(u)' = array_of(u) /\ Count(u)' = Count(u)
    BY <2>1 DEF array_of, Count, Tracked, sync_order_checks_on
  <2>5. FreeListExact' /\ (sync_order_checks_on' <=> sync_order_checks_on)
    BY <2>1, FreeListParts DEF LatchInv, sync_order_checks_on
  <2> QED
    BY <2>1, <2>2, <2>3, <2>4, <2>5 DEF LatchInv
<1> QED
  BY <1>1, <1>2, <1>3, <1>4, <1>5, <1>6, <1>7 DEF LatchNext

LEMMA LatchInvariant == LatchSpec => []LatchInv
BY LatchInitInv, LatchNextInv, PTL DEF LatchSpec

-----------------------------------------------------------------------------
(* What the arrays say *)

\* An element in use stands for a latch the thread holds, and every tracked
\* latch has one, in the array as it is and in the one a new check sees.
LEMMA ElemsAreHeld ==
    ASSUME LatchInv, NEW t \in ThreadIds, NEW arr \in {levels[t], array_of(t)}
    PROVE  /\ \A i \in Used(arr) :
                /\ arr.elems[i].latch \in Held(t) /\ Tracked(arr.elems[i].latch)
                /\ arr.elems[i].level = Num[level[arr.elems[i].latch]]
           /\ \A m \in Held(t) : Tracked(m) =>
                \E i \in Used(arr) : arr.elems[i].level = Num[level[m]]
           /\ \A m \in Latches : Cardinality(OfLatch(arr, m)) = Count(t)[m]
           /\ arr # NoArray => arr.in_use = Cardinality(Used(arr))
<1>t. /\ array_of(t) \in Array /\ Count(t) \in [Latches -> Nat]
      /\ Lists(level, array_of(t), Count(t))
      /\ LatchTypeOK /\ OwnerInv
  BY LatchFacts DEF LatchInv
<1>1. CASE arr = array_of(t)
  <2>1. ASSUME NEW i \in Used(arr)
        PROVE  /\ arr.elems[i].latch \in Held(t) /\ Tracked(arr.elems[i].latch)
               /\ arr.elems[i].level = Num[level[arr.elems[i].latch]]
    <3>1. PICK m \in Latches : arr.elems[i].latch = m
      BY <1>1, <1>t, UsedElems
    <3>2. i \in OfLatch(arr, m)
      BY <3>1 DEF OfLatch
    <3>3. Count(t)[m] > 0
      BY <1>1, <1>t, <3>2, HeldHasElem
    <3>4. owner[m] = t /\ Tracked(m)
      BY <3>3 DEF Count
    <3> QED
      BY <1>1, <1>t, <3>1, <3>4 DEF Lists, Held
  <2>2. ASSUME NEW m \in Held(t), Tracked(m)
        PROVE  \E i \in Used(arr) : arr.elems[i].level = Num[level[m]]
    <3>1. m \in Latches /\ owner[m] = t /\ recursion[m] # 0
      BY <1>t, LatchAssumption DEF Held, OwnerInv
    <3>2. Count(t)[m] > 0
      BY <1>t, <2>2, <3>1, LatchAssumption DEF Count, LatchTypeOK
    <3>3. OfLatch(arr, m) # {}
      BY <1>1, <1>t, <3>1, <3>2, HeldHasElem
    <3> QED
      BY <1>1, <1>t, <3>3 DEF OfLatch, Lists
  <2>3. \A m \in Latches : Cardinality(OfLatch(arr, m)) = Count(t)[m]
    BY <1>1, <1>t DEF Lists
  <2>4. arr.in_use = Cardinality(Used(arr))
    BY <1>1, <1>t DEF Lists
  <2> QED
    BY <2>1, <2>2, <2>3, <2>4
<1>2. CASE arr = NoArray
  <2>1. array_of(t) = NewArray
    BY <1>2, NewArrayExact DEF array_of
  <2>2. Used(arr) = {} /\ \A m : OfLatch(arr, m) = {} /\ OfLatch(NewArray, m) = {}
    BY <1>2, NewArrayExact DEF OfLatch
  <2>3. \A m \in Latches : Cardinality(OfLatch(arr, m)) = Count(t)[m]
    BY <1>t, <2>1, <2>2 DEF Lists
  <2>4. ASSUME NEW m \in Held(t), Tracked(m) PROVE FALSE
    <3>1. m \in Latches /\ owner[m] = t /\ recursion[m] # 0
      BY <1>t, LatchAssumption DEF Held, OwnerInv
    <3>2. Count(t)[m] > 0
      BY <1>t, <2>4, <3>1, LatchAssumption DEF Count, LatchTypeOK
    <3> QED
      BY <1>t, <2>1, <2>2, <3>1, <3>2, HeldHasElem
  <2> QED
    BY <1>2, <2>2, <2>3, <2>4
<1> QED
  BY <1>1, <1>2 DEF array_of

\* The questions of sync_thread_levels_nonempty_gen, _trx and
\* sync_thread_levels_contains are answered rightly.
LEMMA Answers == LatchInv => AnswersRight
<1> SUFFICES ASSUME LatchInv, sync_order_checks_on, NEW t \in ThreadIds
             PROVE  /\ sync_thread_levels_nonempty_gen(t, TRUE) <=>
                         \E l \in Held(t) : Tracked(l) /\ level[l] \notin
                           {"SYNC_DICT", "SYNC_DICT_OPERATION", "SYNC_FTS_CACHE"}
                    /\ sync_thread_levels_nonempty_trx(t, FALSE) <=>
                         \E l \in Held(t) : Tracked(l)
                    /\ \A m \in Latches :
                         sync_thread_levels_contains(t, level[m]) <=>
                           \E l \in Held(t) : Tracked(l) /\ level[l] = level[m]
  BY DEF AnswersRight
<1> DEFINE arr == levels[t]
<1>1. /\ \A i \in Used(arr) :
           /\ arr.elems[i].latch \in Held(t) /\ Tracked(arr.elems[i].latch)
           /\ arr.elems[i].level = Num[level[arr.elems[i].latch]]
      /\ \A m \in Held(t) : Tracked(m) =>
           \E i \in Used(arr) : arr.elems[i].level = Num[level[m]]
  BY ElemsAreHeld
<1>l. /\ \A m \in Held(t) : m \in Latches
      /\ \A m \in Latches : level[m] \in Names
  BY DEF Held, LatchInv, LatchTypeOK
<1>n. /\ {"SYNC_DICT", "SYNC_DICT_OPERATION", "SYNC_FTS_CACHE"} \subseteq Names
  BY DEF Names, Num
<1>2. sync_thread_levels_nonempty_gen(t, TRUE) <=>
        \E l \in Held(t) : Tracked(l) /\ level[l] \notin
          {"SYNC_DICT", "SYNC_DICT_OPERATION", "SYNC_FTS_CACHE"}
  <2>1. sync_thread_levels_nonempty_gen(t, TRUE) <=>
          \E i \in Used(arr) :
            arr.elems[i].level \notin {Num["SYNC_DICT"],
              Num["SYNC_DICT_OPERATION"], Num["SYNC_FTS_CACHE"]}
    BY DEF sync_thread_levels_nonempty_gen
  <2>2. \A n \in Names :
          Num[n] \notin {Num["SYNC_DICT"], Num["SYNC_DICT_OPERATION"],
                         Num["SYNC_FTS_CACHE"]}
            <=> n \notin {"SYNC_DICT", "SYNC_DICT_OPERATION", "SYNC_FTS_CACHE"}
    BY <1>n, LevelNumbers
  <2>3. ASSUME NEW i \in Used(arr),
               arr.elems[i].level \notin {Num["SYNC_DICT"],
                 Num["SYNC_DICT_OPERATION"], Num["SYNC_FTS_CACHE"]}
        PROVE  \E l \in Held(t) : Tracked(l) /\ level[l] \notin
                 {"SYNC_DICT", "SYNC_DICT_OPERATION", "SYNC_FTS_CACHE"}
    <3> DEFINE l == arr.elems[i].latch
    <3>1. l \in Held(t) /\ Tracked(l) /\ arr.elems[i].level = Num[level[l]]
      BY <1>1
    <3>2. level[l] \in Names
      BY <3>1, <1>l
    <3> HIDE DEF l, arr
    <3> QED
      BY <3>1, <3>2, <2>3, <2>2
  <2>4. ASSUME NEW l \in Held(t), Tracked(l), level[l] \notin
                 {"SYNC_DICT", "SYNC_DICT_OPERATION", "SYNC_FTS_CACHE"}
        PROVE  \E i \in Used(arr) :
                 arr.elems[i].level \notin {Num["SYNC_DICT"],
                   Num["SYNC_DICT_OPERATION"], Num["SYNC_FTS_CACHE"]}
    <3>1. PICK i \in Used(arr) : arr.elems[i].level = Num[level[l]]
      BY <1>1, <2>4
    <3>2. level[l] \in Names
      BY <1>l
    <3> HIDE DEF arr
    <3> QED
      BY <3>1, <3>2, <2>4, <2>2
  <2> HIDE DEF arr
  <2> QED
    BY <2>1, <2>3, <2>4
<1>3. sync_thread_levels_nonempty_trx(t, FALSE) <=>
        \E l \in Held(t) : Tracked(l)
  BY <1>1 DEF sync_thread_levels_nonempty_trx
<1>4. ASSUME NEW m \in Latches
      PROVE  sync_thread_levels_contains(t, level[m]) <=>
               \E l \in Held(t) : Tracked(l) /\ level[l] = level[m]
  <2>1. sync_thread_levels_contains(t, level[m]) <=>
          \E i \in Used(arr) : arr.elems[i].level = Num[level[m]]
    BY DEF sync_thread_levels_contains, sync_thread_levels_contain
  <2> HIDE DEF arr
  <2> QED
    BY <1>1, <1>l, <2>1, LevelNumbers
<1> QED
  BY <1>2, <1>3, <1>4

\* Types of the latching order checks.
THEOREM LatchTypeCorrect == LatchSpec => []LatchTypeOK
<1>1. LatchInv => LatchTypeOK
  BY DEF LatchInv
<1> QED
  BY <1>1, LatchInvariant, PTL

\* The arrays of sync_thread_add_level and sync_thread_reset_level list what a
\* thread holds and nothing else, and the functions that read them answer
\* accordingly, for any number of threads and latches.
THEOREM ArraysAreExact == LatchSpec => []ArraysExact
<1>1. ASSUME LatchInv PROVE ArraysExact
  <2>1. AnswersRight
    BY <1>1, Answers
  <2>2. ASSUME NEW t \in ThreadIds
        PROVE  LET arr == levels[t] IN
               /\ \A i \in Used(arr) :
                    arr.elems[i].level = Num[level[arr.elems[i].latch]]
               /\ \A l \in Latches :
                    Cardinality({i \in Used(arr) : arr.elems[i].latch = l}) =
                      IF owner[l] = t /\ Tracked(l) THEN recursion[l] ELSE 0
               /\ arr # NoArray => arr.in_use = Cardinality(Used(arr))
    <3> DEFINE arr == levels[t]
    <3>1. /\ \A i \in Used(arr) :
               arr.elems[i].level = Num[level[arr.elems[i].latch]]
          /\ \A l \in Latches : Cardinality(OfLatch(arr, l)) = Count(t)[l]
          /\ arr # NoArray => arr.in_use = Cardinality(Used(arr))
      BY <1>1, ElemsAreHeld
    <3>2. \A l \in Latches :
            Count(t)[l] = IF owner[l] = t /\ Tracked(l) THEN recursion[l] ELSE 0
      BY DEF Count
    <3> HIDE DEF arr
    <3>3. \A l \in Latches :
            Cardinality({i \in Used(arr) : arr.elems[i].latch = l}) =
              IF owner[l] = t /\ Tracked(l) THEN recursion[l] ELSE 0
      BY <3>1, <3>2 DEF OfLatch
    <3> QED
      BY <3>1, <3>3 DEF arr
  <2> QED
    BY <2>1, <2>2 DEF ArraysExact
<1> QED
  BY <1>1, LatchInvariant, PTL

\* The free list of every array holds every free element once, so that the
\* assertion ut_a(slot->latch == NULL) holds and no element is lost.
THEOREM FreeListsAreExact == LatchSpec => []FreeListExact
<1>1. LatchInv => FreeListExact
  BY DEF LatchInv
<1> QED
  BY <1>1, LatchInvariant, PTL

-----------------------------------------------------------------------------
(* No deadlock *)

\* The numbers of a level and of the mutex that covers it.
LEMMA Covers ==
    /\ \A n : Cover(n) # "none" =>
         n \in {"SYNC_TRX", "SYNC_REC_LOCK", "SYNC_BUF_PAGE_HASH",
                "SYNC_BUF_BLOCK", "SYNC_IBUF_BITMAP"}
    /\ Cover("SYNC_TRX") = "SYNC_LOCK_SYS"
    /\ Cover("SYNC_REC_LOCK") = "SYNC_LOCK_SYS"
    /\ Cover("SYNC_BUF_PAGE_HASH") = "SYNC_BUF_POOL"
    /\ Cover("SYNC_BUF_BLOCK") = "SYNC_BUF_POOL"
    /\ Cover("SYNC_IBUF_BITMAP") = "SYNC_IBUF_BITMAP_MUTEX"
    /\ {"SYNC_LOCK_SYS", "SYNC_BUF_POOL", "SYNC_IBUF_BITMAP_MUTEX"}
         \subseteq Names \ {"none"}
    /\ "SYNC_LEVEL_VARYING" \notin Plain
BY DEF Cover, Names, Num, Plain

\* What the check has established for a thread that waits for the latch of
\* another one: the latches it holds lie above it, or at its level under the
\* mutex that covers the level, or at the level of a latch that is alone there.
LEMMA WaitsBelow ==
    ASSUME LatchInv, Ordered, phase = "running", NEW t \in ThreadIds,
           NEW l \in Latches, waiting[t] = l, owner[l] # t
    PROVE  \/ \A m \in Held(t) : Num[level[m]] > Num[level[l]]
           \/ /\ \A m \in Held(t) : Num[level[m]] >= Num[level[l]]
              /\ \/ level[l] \in {"SYNC_BUF_POOL", "SYNC_BUF_FLUSH_LIST"}
                 \/ \E c \in Held(t) : level[c] = Cover(level[l])
                                       /\ level[c] # "none"
<1> DEFINE n == level[l]
           arr == array_of(t)
<1>0. /\ \A m \in Latches : level[m] \in Names /\ Num[level[m]] \in Nat
      /\ Held(t) \subseteq Latches /\ l # NoLatch
  BY LevelNumbers, LatchAssumption DEF LatchInv, LatchTypeOK, Held
<1>o. \A m \in Latches :
        \/ level[m] \in Plain \cup {"SYNC_TRX_SYS_HEADER", "SYNC_BUF_POOL",
                                    "SYNC_BUF_FLUSH_LIST"}
        \/ Cover(level[m]) # "none"
  BY DEF Ordered
<1>1. \A m \in Latches : Tracked(m)
  <2>1. \A m \in Latches : level[m] # "SYNC_LEVEL_VARYING"
    BY <1>o, Covers
  <2> QED
    BY <2>1 DEF Tracked, sync_order_checks_on
<1>2. order_ok(arr, n)
  <2>1. MayWait(t, l)
    BY <1>0 DEF LatchInv, WaitInv
  <2> QED
    BY <1>1, <2>1 DEF MayWait
<1>e. /\ \A i \in Used(arr) :
           /\ arr.elems[i].latch \in Held(t)
           /\ arr.elems[i].level = Num[level[arr.elems[i].latch]]
      /\ \A m \in Held(t) : \E i \in Used(arr) : arr.elems[i].level = Num[level[m]]
  BY <1>0, <1>1, ElemsAreHeld
<1>s. ~srv_is_being_started
  BY DEF srv_is_being_started
<1>nn. n \in Names /\ Num[n] \in Nat
  BY <1>0
<1> HIDE DEF arr, n
<1>g. sync_thread_levels_g(arr, Num[n]) =>
        \A m \in Held(t) : Num[level[m]] > Num[n]
  BY <1>e DEF sync_thread_levels_g
<1>h. sync_thread_levels_g(arr, Num[n] - 1) =>
        \A m \in Held(t) : Num[level[m]] >= Num[n]
  <2>1. sync_thread_levels_g(arr, Num[n] - 1) =>
          \A m \in Held(t) : Num[level[m]] > Num[n] - 1
    BY <1>e DEF sync_thread_levels_g
  <2> QED
    BY <1>0, <1>nn, <2>1
<1>c. ASSUME NEW c \in Names, sync_thread_levels_contain(arr, c)
      PROVE  \E m \in Held(t) : level[m] = c
  BY <1>0, <1>c, <1>e, LevelNumbers DEF sync_thread_levels_contain
<1>3. ASSUME NEW guard \in Names \ {"none"}, guard = Cover(n),
             order_ok_guarded(arr, n, guard)
      PROVE  \/ \A m \in Held(t) : Num[level[m]] > Num[n]
             \/ /\ \A m \in Held(t) : Num[level[m]] >= Num[n]
                /\ \E c \in Held(t) : level[c] = Cover(n) /\ level[c] # "none"
  BY <1>3, <1>g, <1>h, <1>c DEF order_ok_guarded
<1>4. CASE n \in Plain
  <2>1. sync_thread_levels_g(arr, Num[n])
    BY <1>2, <1>4 DEF order_ok
  <2> QED
    BY <1>g, <2>1 DEF n
<1>5. CASE n = "SYNC_TRX_SYS_HEADER"
  <2>1. sync_thread_levels_g(arr, Num[n])
    BY <1>2, <1>5, <1>s DEF order_ok
  <2> QED
    BY <1>g, <2>1 DEF n
<1>6. CASE n \in {"SYNC_BUF_POOL", "SYNC_BUF_FLUSH_LIST"}
  <2>1. sync_thread_levels_g(arr, Num[n] - 1)
    BY <1>2, <1>6 DEF order_ok
  <2> QED
    BY <1>6, <1>h, <2>1 DEF n
<1>7. CASE Cover(n) # "none"
  <2>1. CASE n \in {"SYNC_TRX", "SYNC_REC_LOCK"}
    <3>1. order_ok_guarded(arr, n, "SYNC_LOCK_SYS") /\ Cover(n) = "SYNC_LOCK_SYS"
      BY <1>2, <2>1, Covers DEF order_ok
    <3> QED
      BY <1>3, <3>1, Covers DEF n
  <2>2. CASE n \in {"SYNC_BUF_PAGE_HASH", "SYNC_BUF_BLOCK"}
    <3>1. order_ok_guarded(arr, n, "SYNC_BUF_POOL") /\ Cover(n) = "SYNC_BUF_POOL"
      BY <1>2, <2>2, Covers DEF order_ok
    <3> QED
      BY <1>3, <3>1, Covers DEF n
  <2>3. CASE n = "SYNC_IBUF_BITMAP"
    <3>1. /\ order_ok_guarded(arr, n, "SYNC_IBUF_BITMAP_MUTEX")
          /\ Cover(n) = "SYNC_IBUF_BITMAP_MUTEX"
      BY <1>2, <1>s, <2>3, Covers DEF order_ok
    <3> QED
      BY <1>3, <3>1, Covers DEF n
  <2> QED
    BY <1>7, <2>1, <2>2, <2>3, Covers
<1> QED
  BY <1>o, <1>4, <1>5, <1>6, <1>7 DEF n

\* One step around a circle of waiting threads: the owner u of the latch that
\* t waits for waits for a latch of the same level and holds the mutex that
\* covers that level, if no thread waits for a lower one.
LEMMA CircleStep ==
    ASSUME LatchInv, Ordered, phase = "running",
           NEW u \in ThreadIds, NEW l \in Latches, NEW m \in Latches,
           owner[l] = u, waiting[u] = m, owner[m] # u,
           Num[level[l]] <= Num[level[m]]
    PROVE  /\ level[m] = level[l]
           /\ Cover(level[m]) # "none"
           /\ \E c \in Held(u) : level[c] = Cover(level[m])
<1>0. \A x \in Latches : level[x] \in Names /\ Num[level[x]] \in Nat
  BY LevelNumbers DEF LatchInv, LatchTypeOK
<1>1. l \in Held(u)
  BY DEF Held
<1>2. /\ \A x \in Held(u) : Num[level[x]] >= Num[level[m]]
      /\ \/ level[m] \in {"SYNC_BUF_POOL", "SYNC_BUF_FLUSH_LIST"}
         \/ \E c \in Held(u) : level[c] = Cover(level[m]) /\ level[c] # "none"
  BY <1>0, <1>1, WaitsBelow
<1>3. level[m] = level[l]
  <2>1. Num[level[m]] = Num[level[l]]
    BY <1>0, <1>1, <1>2
  <2> QED
    BY <1>0, <2>1, LevelNumbers
<1>4. level[m] \notin {"SYNC_BUF_POOL", "SYNC_BUF_FLUSH_LIST"}
  BY <1>3 DEF Ordered
<1> QED
  BY <1>2, <1>3, <1>4

\* Threads whose latches all pass the check of sync_thread_add_level never
\* wait for each other in a circle, for any number of threads and latches of
\* the levels that the check puts in order.
THEOREM CheckPreventsDeadlock == LatchSpec => []NoDeadlock
<1>1. ASSUME LatchInv PROVE NoDeadlock
  <2> SUFFICES ASSUME Ordered, NEW D \in SUBSET ThreadIds, D # {},
                      \A t \in D : /\ waiting[t] # NoLatch
                                   /\ owner[waiting[t]] \in D \ {t}
               PROVE  FALSE
    BY DEF NoDeadlock
  <2>0. /\ \A t \in D : waiting[t] \in Latches
        /\ \A l \in Latches : Num[level[l]] \in Nat
    BY <1>1, LevelNumbers DEF LatchInv, LatchTypeOK
  <2>1. phase = "running"
    <3>1. PICK t \in D : TRUE
      OBVIOUS
    <3>2. /\ owner[waiting[t]] \in ThreadIds /\ owner[waiting[t]] # t
          /\ ~Idle(t) /\ ~Idle(owner[waiting[t]])
      BY <2>0 DEF Idle, Held
    <3> QED
      BY <1>1, <3>2 DEF LatchInv, AloneInv
  <2>2. PICK t \in D :
          \A u \in D : Num[level[waiting[t]]] <= Num[level[waiting[u]]]
    <3> DEFINE S == {Num[level[waiting[u]]] : u \in D}
    <3>1. S \in SUBSET Nat /\ S # {}
      BY <2>0
    <3>2. PICK k \in S : \A j \in S : k <= j
      BY <3>1, NatMin
    <3> QED
      BY <3>2
  <2>3. PICK u \in D : owner[waiting[t]] = u /\ u # t
    OBVIOUS
  <2>4. PICK v \in D : owner[waiting[u]] = v /\ v # u
    OBVIOUS
  <2>5. /\ level[waiting[u]] = level[waiting[t]]
        /\ Cover(level[waiting[u]]) # "none"
        /\ \E c \in Held(u) : level[c] = Cover(level[waiting[u]])
    BY <1>1, <2>0, <2>1, <2>2, <2>3, <2>4, CircleStep
  <2>6. PICK c \in Held(u) : level[c] = Cover(level[waiting[u]])
    BY <2>5
  <2>7. Num[level[waiting[u]]] <= Num[level[waiting[v]]]
    BY <2>2, <2>5
  <2>8. owner[waiting[v]] # v
    OBVIOUS
  <2>9. /\ level[waiting[v]] = level[waiting[u]]
        /\ \E d \in Held(v) : level[d] = Cover(level[waiting[v]])
    BY <1>1, <2>0, <2>1, <2>4, <2>7, <2>8, CircleStep
  <2>10. PICK d \in Held(v) : level[d] = Cover(level[waiting[u]])
    BY <2>9
  <2>11. c = d
    <3>1. c \in Latches /\ d \in Latches /\ level[c] = level[d]
      BY <2>6, <2>10 DEF Held
    <3>2. \E name \in Names : Cover(name) = level[c]
      BY <1>1, <2>0, <2>6 DEF LatchInv, LatchTypeOK
    <3> QED
      BY <3>1, <3>2 DEF Ordered
  <2> QED
    BY <2>4, <2>6, <2>10, <2>11 DEF Held
<1> QED
  BY <1>1, LatchInvariant, PTL

-----------------------------------------------------------------------------
(* The length of the arrays *)

\* What a thread can hold at once: every mutex, and every rw-lock as often as
\* it may be locked again.
Acquisitions ==
    {a \in Latches \X (1 .. MaxRecursion) : a[2] = 1 \/ a[1] \in RwLatches}

\* The elements of the same latch up to element i.
UpTo(arr, i) == {j \in OfLatch(arr, arr.elems[i].latch) : j <= i}

LEMMA AcquisitionsFinite ==
    IsFiniteSet(Acquisitions) /\ Cardinality(Acquisitions) \in Nat
<1>1. IsFiniteSet(1 .. MaxRecursion)
  BY LatchAssumption, FS_Interval
<1>2. IsFiniteSet(Latches \X (1 .. MaxRecursion))
  BY <1>1, LatchAssumption, FS_Product
<1>3. Acquisitions \in SUBSET (Latches \X (1 .. MaxRecursion))
  BY DEF Acquisitions
<1>4. IsFiniteSet(Acquisitions)
  BY <1>2, <1>3, FS_Subset
<1> QED
  BY <1>4, FS_CardinalityType

\* The n-th element of a latch stands for its n-th acquisition, so that there
\* are no more elements in use than acquisitions.
LEMMA UsedBound ==
    ASSUME LatchInv, NEW t \in ThreadIds
    PROVE  Cardinality(Used(levels[t])) <= Cardinality(Acquisitions)
<1> DEFINE arr == levels[t]
           F == [i \in Used(arr) |->
                   <<arr.elems[i].latch, Cardinality(UpTo(arr, i))>>]
<1>a. arr \in Array
  BY LatchFacts
<1>c. \A m \in Latches : Cardinality(OfLatch(arr, m)) = Count(t)[m]
  BY ElemsAreHeld
<1>r. ASSUME NEW m \in Latches
      PROVE  /\ Count(t)[m] \in 0 .. MaxRecursion
             /\ m \notin RwLatches => Count(t)[m] <= 1
  BY LatchAssumption DEF Count, LatchInv, LatchTypeOK, OwnerInv
<1>1. ASSUME NEW i \in Used(arr)
      PROVE  /\ IsFiniteSet(UpTo(arr, i)) /\ Cardinality(UpTo(arr, i)) \in Nat
             /\ F[i] \in Acquisitions
  <2> DEFINE m == arr.elems[i].latch
  <2>m. m \in Latches /\ i \in Nat
    BY <1>a, UsedElems
  <2>1. UpTo(arr, i) \in SUBSET OfLatch(arr, m) /\ i \in UpTo(arr, i)
    BY <2>m DEF UpTo, OfLatch
  <2>f. IsFiniteSet(OfLatch(arr, m))
    BY <1>a, ArrayFinite
  <2>2. /\ IsFiniteSet(UpTo(arr, i))
        /\ Cardinality(UpTo(arr, i)) <= Cardinality(OfLatch(arr, m))
    BY <2>1, <2>f, FS_Subset
  <2>3. Cardinality(UpTo(arr, i)) \in Nat /\ Cardinality(UpTo(arr, i)) # 0
    BY <2>1, <2>2, FS_CardinalityType, FS_EmptySet
  <2>4. Cardinality(UpTo(arr, i)) <= Count(t)[m]
    BY <1>c, <2>2, <2>m
  <2>5. F[i] = <<m, Cardinality(UpTo(arr, i))>>
    OBVIOUS
  <2>6. /\ Count(t)[m] \in 0 .. MaxRecursion
        /\ m \notin RwLatches => Count(t)[m] <= 1
    BY <1>r, <2>m
  <2> HIDE DEF m, F, arr
  <2>7. /\ Cardinality(UpTo(arr, i)) \in 1 .. MaxRecursion
        /\ m \notin RwLatches => Cardinality(UpTo(arr, i)) = 1
    BY <2>3, <2>4, <2>6, LatchAssumption
  <2> QED
    BY <2>2, <2>3, <2>5, <2>7, <2>m DEF Acquisitions
<1>2. ASSUME NEW i \in Used(arr), NEW j \in Used(arr), F[i] = F[j], i < j
      PROVE  FALSE
  <2>1. /\ arr.elems[i].latch = arr.elems[j].latch
        /\ Cardinality(UpTo(arr, i)) = Cardinality(UpTo(arr, j))
    BY <1>2
  <2>2. i \in Nat /\ j \in Nat
    BY <1>a, UsedElems
  <2>3. UpTo(arr, i) \in SUBSET UpTo(arr, j)
    <3> HIDE DEF arr
    <3>1. \A k \in OfLatch(arr, arr.elems[i].latch) : k \in Nat
      BY <1>a, UsedElems DEF OfLatch
    <3> QED
      BY <1>2, <2>1, <2>2, <3>1 DEF UpTo
  <2>4. j \in UpTo(arr, j) /\ j \notin UpTo(arr, i)
    BY <1>2, <2>2 DEF UpTo, OfLatch
  <2> QED
    BY <1>1, <2>1, <2>3, <2>4, FS_Subset
<1>3. F \in Injection(Used(arr), Acquisitions)
  <2>1. F \in [Used(arr) -> Acquisitions]
    BY <1>1
  <2>2. ASSUME NEW i \in Used(arr), NEW j \in Used(arr), F[i] = F[j]
        PROVE  i = j
    <3>1. i \in Nat /\ j \in Nat
      BY <1>a, UsedElems
    <3> HIDE DEF F
    <3> QED
      BY <1>2, <2>2, <3>1
  <2> HIDE DEF F, arr
  <2> QED
    BY <2>1, <2>2 DEF Injection, IsInjective
<1> HIDE DEF F
<1> QED
  BY <1>3, AcquisitionsFinite, FS_Injection

UsedFits ==
    \A t \in ThreadIds : Cardinality(Used(levels[t])) <= Cardinality(Acquisitions)

LEMMA UsedFitsNext == LatchInv' => UsedFits'
<1>1. LatchInv => UsedFits
  BY UsedBound DEF UsedFits
<1> QED
  BY <1>1, PTL

\* The inductive form of ArrayFits: an array grows only when all its elements
\* are in use.
ShortInv ==
    \A t \in ThreadIds : Len(levels[t].elems) <= Cardinality(Acquisitions)

LEMMA ShortNext == LatchInv /\ ShortInv /\ [LatchNext]_latchVars => ShortInv'
<1> SUFFICES ASSUME LatchInv, ShortInv, [LatchNext]_latchVars, NEW u \in ThreadIds
             PROVE  Len(levels'[u].elems) <= Cardinality(Acquisitions)
  BY DEF ShortInv
<1>i. LatchInv'
  BY LatchNextInv
<1>t. levels \in [ThreadIds -> Array]
  BY DEF LatchInv, LatchTypeOK
<1>n. /\ Len(levels[u].elems) \in Nat
      /\ Len(levels[u].elems) <= Cardinality(Acquisitions)
  BY <1>t, ArrayParts DEF ShortInv
<1>b. Cardinality(Used(levels'[u])) <= Cardinality(Acquisitions)
  BY <1>i, UsedFitsNext DEF UsedFits
<1>1. CASE levels' = levels
  BY <1>1, <1>n
<1>2. CASE sync_close
  BY <1>2, NewArrayExact, AcquisitionsFinite DEF sync_close
<1>3. ASSUME NEW t \in ThreadIds, EnterLatch(t), levels' # levels
      PROVE  Len(levels'[u].elems) <= Cardinality(Acquisitions)
  <2>l. PICK l \in Latches : waiting[t] = l
    BY <1>3 DEF EnterLatch, LatchInv, LatchTypeOK
  <2> DEFINE new == sync_thread_add_level(array_of(t), l)
  <2>1. levels' = [levels EXCEPT ![t] = new]
    BY <1>3, <2>l DEF EnterLatch
  <2>2. \/ Len(new.elems) = Len(array_of(t).elems)
        \/ Len(new.elems) = Cardinality(Used(new))
    BY <2>l, LatchFacts, AddExact
  <2>3. Len(array_of(t).elems) <= Cardinality(Acquisitions)
    BY NewArrayExact, AcquisitionsFinite DEF array_of, ShortInv
  <2> HIDE DEF new
  <2>4. CASE u = t
    BY <1>t, <1>b, <2>1, <2>2, <2>3, <2>4
  <2>5. CASE u # t
    BY <1>t, <1>n, <2>1, <2>5
  <2> QED
    BY <2>4, <2>5
<1>4. ASSUME NEW t \in ThreadIds, NEW l \in Latches, ExitLatch(t, l), levels' # levels
      PROVE  Len(levels'[u].elems) <= Cardinality(Acquisitions)
  <2> DEFINE new == sync_thread_reset_level(levels[t], l)
  <2>1. levels' = [levels EXCEPT ![t] = new] /\ Tracked(l)
    BY <1>4 DEF ExitLatch
  <2>2. Len(new.elems) <= Len(levels[t].elems) /\ new \in Array
    <3>1. Count(t)[l] > 0
      BY <1>4, <2>1, LatchAssumption DEF ExitLatch, Count, LatchInv, OwnerInv, LatchTypeOK
    <3>2. array_of(t) = levels[t]
      <4>1. Used(array_of(t)) # {}
        BY <3>1, LatchFacts, HeldHasElem DEF OfLatch
      <4> QED
        BY <4>1, NewArrayExact DEF array_of
    <3> QED
      BY <3>1, <3>2, LatchFacts, ResetExact
  <2>3. Len(new.elems) \in Nat /\ Len(levels[t].elems) \in Nat
    BY <2>2, <1>t, ArrayParts
  <2>6. Len(levels[t].elems) <= Cardinality(Acquisitions)
    BY DEF ShortInv
  <2> HIDE DEF new
  <2>4. CASE u = t
    BY <1>t, <2>1, <2>2, <2>3, <2>4, <2>6, AcquisitionsFinite
  <2>5. CASE u # t
    BY <1>t, <1>n, <2>1, <2>5
  <2> QED
    BY <2>4, <2>5
<1> QED
  BY <1>1, <1>2, <1>3, <1>4 DEF LatchNext, latchVars, sync_init, Started, Request

\* With an element for each acquisition, the array of sync_thread_add_level
\* never overflows: the elements that sync_thread_reset_level gave back are
\* used first.
THEOREM ArraysFit ==
    ASSUME SYNC_THREAD_N_LEVELS >= Cardinality(Acquisitions)
    PROVE  LatchSpec => []ArrayFits
<1>1. LatchInit => ShortInv
  BY NewArrayExact, AcquisitionsFinite DEF LatchInit, ShortInv
<1>2. ShortInv /\ LatchInv => ArrayFits
  <2> SUFFICES ASSUME ShortInv, LatchInv, NEW t \in ThreadIds
               PROVE  Len(levels[t].elems) <= SYNC_THREAD_N_LEVELS
    BY DEF ArrayFits
  <2>1. Len(levels[t].elems) \in Nat
    BY ArrayParts DEF LatchInv, LatchTypeOK
  <2> QED
    BY <2>1, AcquisitionsFinite, LatchAssumption DEF ShortInv
<1> QED
  BY <1>1, <1>2, ShortNext, LatchInvariant, PTL DEF LatchSpec

=============================================================================

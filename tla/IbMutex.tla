------------------------------ MODULE IbMutex ------------------------------
(***************************************************************************)
(* The InnoDB mutex (sync0sync.ic, sync0sync.cc): a lock word taken with   *)
(* test-and-set, a bounded spin, and a wait array cell with an event for   *)
(* the threads that go to sleep.  There are two builds: the original one,  *)
(* whose release is an xchg, and the "all" variant, compiled with          *)
(* HAVE_HLE, whose acquire may be elided and whose release is an xrelease  *)
(* mov.                                                                    *)
(*                                                                         *)
(* Memory is x86-TSO as far as this code can tell: a plain store waits in  *)
(* the store buffer of its thread and later reads of that thread may       *)
(* overtake it; a locked instruction (xchg, pthread mutex) needs the       *)
(* buffer empty.  Two plain stores exist: lock_word := 0 (HLE release) and *)
(* waiters := 0 or 1.  The former is never issued with the latter pending. *)
(***************************************************************************)
EXTENDS OsEvent

CONSTANTS
    Threads,
    SYNC_SPIN_ROUNDS,   \* innodb_sync_spin_loops
    RESERVE_TRIES,      \* attempts after the cell is reserved, 4 in the code
    MaxEnter,           \* bound: calls of an enter function per thread
    HleThreads,         \* bound: the threads that use the mutex of "all"
    Builds,             \* builds to consider: "original", "all"
    Monitored           \* builds whose error monitor thread is counted on

ASSUME ConstAssumption ==
    /\ SYNC_SPIN_ROUNDS \in Nat
    /\ RESERVE_TRIES \in Nat \ {0}
    /\ MaxEnter \in Nat
    /\ HleThreads \subseteq Threads
    /\ Builds \subseteq {"original", "all"} /\ Builds # {}
    /\ Monitored \subseteq Builds

VARIABLES
    lock_word,      \* mutex->lock_word in memory
    waiters,        \* mutex->waiters in memory
    alive,          \* between mutex_create_func and mutex_free_func
    build,          \* the build that runs
    lw_pending,     \* threads whose store lock_word := 0 is still buffered
    w_store,        \* buffered store to waiters of each thread, or NoStore
    pc,             \* control point of each thread
    round,          \* i in the code: spin round, then reservation attempt
    cell,           \* signal_count kept in the wait array cell; 0: no cell
    enters          \* calls made so far, for the bound

memVars == <<lock_word, waiters, lw_pending, w_store>>
vars == <<is_set, signal_count, lock_word, waiters, alive, build,
          lw_pending, w_store, pc, round, cell, enters>>

HaveHle == build = "all"

NoStore == 2

\* Control points, named after the statement the thread executes next.
Labels == {"idle", "spin", "spin_tas", "reserve_cell", "set_waiters",
           "retry_tas", "wait_event", "cs", "get_waiters",
           "clear_waiters", "set_event"}

TypeOK ==
    /\ EventTypeOK
    /\ lock_word \in {0, 1}
    /\ waiters \in {0, 1}
    /\ alive \in BOOLEAN
    /\ build \in Builds
    /\ lw_pending \in SUBSET Threads
    /\ w_store \in [Threads -> {0, 1, NoStore}]
    /\ pc \in [Threads -> Labels]
    /\ round \in [Threads -> Nat]
    /\ cell \in [Threads -> Nat]
    /\ enters \in [Threads -> Nat]

Init ==
    /\ EventInit
    /\ lock_word = 0
    /\ waiters = 0
    /\ alive = FALSE
    /\ build \in Builds
    /\ lw_pending = {}
    /\ w_store = [t \in Threads |-> NoStore]
    /\ pc = [t \in Threads |-> "idle"]
    /\ round = [t \in Threads |-> 0]
    /\ cell = [t \in Threads |-> 0]
    /\ enters = [t \in Threads |-> 0]

-----------------------------------------------------------------------------
(* Memory: the store buffer of a thread drains in order. *)

Drained(t) == t \notin lw_pending /\ w_store[t] = NoStore

Goto(t, label) == pc' = [pc EXCEPT ![t] = label]

DrainLockWord(t) ==
    /\ t \in lw_pending
    /\ lock_word' = 0
    /\ lw_pending' = lw_pending \ {t}
    /\ UNCHANGED <<eventVars, waiters, alive, build, w_store, pc, round, cell,
                   enters>>

DrainWaiters(t) ==
    /\ t \notin lw_pending
    /\ w_store[t] # NoStore
    /\ waiters' = w_store[t]
    /\ w_store' = [w_store EXCEPT ![t] = NoStore]
    /\ UNCHANGED <<eventVars, lock_word, alive, build, lw_pending, pc, round,
                   cell, enters>>

mutex_set_waiters(t, n) == w_store' = [w_store EXCEPT ![t] = n]

\* Faulty variant of TasSucceeds: the old value is not looked at.
TasWithoutTest(t) == lock_word' = 1 /\ Goto(t, "cs")

(***************************************************************************)
(* ib_mutex_test_and_set that returns 0.  The thread owns the mutex, or,   *)
(* in the HLE build, the whole section up to the xrelease store runs as a  *)
(* hardware transaction and commits, which leaves lock_word as it is.      *)
(***************************************************************************)
TasSucceeds(t) ==
    /\ lock_word = 0
    /\ \/ lock_word' = 1 /\ Goto(t, "cs")
       \/ HaveHle /\ UNCHANGED lock_word /\ Goto(t, "get_waiters")

\* ib_mutex_test_and_set that returns 1: xchg stores the 1 it finds.
TasFails(t) == lock_word = 1 /\ UNCHANGED lock_word

-----------------------------------------------------------------------------
(* mutex_create_func and mutex_free_func *)

mutex_create_func ==
    /\ ~alive
    /\ alive' = TRUE
    /\ lock_word' = 0
    /\ os_event_create
    /\ waiters' = 0
    /\ UNCHANGED <<lw_pending, w_store, pc, round, cell, enters, build>>

\* The owner of the memory frees the mutex when no thread is using it.
mutex_free_func ==
    /\ alive
    /\ \A t \in Threads : pc[t] = "idle" /\ Drained(t)
    /\ alive' = FALSE
    /\ UNCHANGED <<eventVars, memVars, pc, round, cell, enters, build>>

-----------------------------------------------------------------------------
(* mutex_enter_nowait_func, mutex_enter_func and mutex_spin_wait *)

Call(t) ==
    /\ alive
    /\ pc[t] = "idle"
    /\ Drained(t)
    /\ enters[t] < MaxEnter /\ (HaveHle => t \in HleThreads)
    /\ enters' = [enters EXCEPT ![t] = @ + 1]

mutex_enter_nowait_func(t) ==
    /\ Call(t)
    /\ TasSucceeds(t) \/ (TasFails(t) /\ UNCHANGED pc)
    /\ UNCHANGED <<eventVars, waiters, alive, build, lw_pending, w_store,
                   round, cell>>

mutex_enter_func(t) ==
    /\ Call(t)
    /\ TasSucceeds(t) \/ (TasFails(t) /\ Goto(t, "spin"))
    /\ round' = [round EXCEPT ![t] = 0]
    /\ UNCHANGED <<eventVars, waiters, alive, build, lw_pending, w_store,
                   cell>>

\* Faulty variant of spin_loop: the round is counted down.
SpinCountingDown(t) ==
    /\ pc[t] = "spin"
    /\ round' = [round EXCEPT ![t] = @ - 1]
    /\ UNCHANGED <<eventVars, memVars, alive, build, pc, cell, enters>>

\* One evaluation of the condition of the read-only spin loop.
spin_loop(t) ==
    /\ pc[t] = "spin"
    /\ \/ /\ lock_word # 0 /\ round[t] < SYNC_SPIN_ROUNDS
          /\ round' = [round EXCEPT ![t] = @ + 1]
          /\ UNCHANGED pc
       \/ /\ lock_word = 0 \/ round[t] >= SYNC_SPIN_ROUNDS
          /\ Goto(t, "spin_tas")
          /\ UNCHANGED round
    /\ UNCHANGED <<eventVars, memVars, alive, build, cell, enters>>

spin_tas(t) ==
    /\ pc[t] = "spin_tas"
    /\ Drained(t)
    /\ \/ TasSucceeds(t) /\ UNCHANGED round
       \/ /\ TasFails(t)
          /\ round' = [round EXCEPT ![t] = @ + 1]
          /\ Goto(t, IF round[t] + 1 < SYNC_SPIN_ROUNDS THEN "spin"
                     ELSE "reserve_cell")
    /\ UNCHANGED <<eventVars, waiters, alive, build, lw_pending, w_store,
                   cell, enters>>

\* sync_array_reserve_cell resets the event and keeps its signal_count.
sync_array_reserve_cell(t) ==
    /\ pc[t] = "reserve_cell"
    /\ Drained(t)
    /\ os_event_reset
    /\ cell' = [cell EXCEPT ![t] = signal_count]
    /\ Goto(t, "set_waiters")
    /\ UNCHANGED <<memVars, alive, build, round, enters>>

\* Faulty variant of announce_waiter: waiters is not set.
SkipSetWaiters(t) ==
    /\ pc[t] = "set_waiters"
    /\ Goto(t, "retry_tas")
    /\ round' = [round EXCEPT ![t] = 0]
    /\ UNCHANGED <<eventVars, memVars, alive, build, cell, enters>>

announce_waiter(t) ==
    /\ pc[t] = "set_waiters"
    /\ mutex_set_waiters(t, 1)
    /\ round' = [round EXCEPT ![t] = 0]
    /\ Goto(t, "retry_tas")
    /\ UNCHANGED <<eventVars, lock_word, waiters, alive, build, lw_pending,
                   cell, enters>>

\* The attempts after the announcement; success frees the cell and leaves
\* the waiters field set.
retry_tas(t) ==
    /\ pc[t] = "retry_tas"
    /\ Drained(t)
    /\ \/ /\ TasSucceeds(t)
          /\ cell' = [cell EXCEPT ![t] = 0]
          /\ UNCHANGED round
       \/ /\ TasFails(t)
          /\ round' = [round EXCEPT ![t] = @ + 1]
          /\ Goto(t, IF round[t] + 1 < RESERVE_TRIES THEN "retry_tas"
                     ELSE "wait_event")
          /\ UNCHANGED cell
    /\ UNCHANGED <<eventVars, waiters, alive, build, lw_pending, w_store,
                   enters>>

\* os_event_wait_low on the cell's signal_count, then sync_array_free_cell
\* and back to mutex_loop.
sync_array_wait_event(t) ==
    /\ pc[t] = "wait_event"
    /\ os_event_wait_returns(cell[t])
    /\ cell' = [cell EXCEPT ![t] = 0]
    /\ round' = [round EXCEPT ![t] = 0]
    /\ Goto(t, "spin")
    /\ UNCHANGED <<eventVars, memVars, alive, build, enters>>

-----------------------------------------------------------------------------
(* mutex_exit_func and mutex_signal_object *)

\* The release of the original build is a serializing xchg.
XchgRelease(t) ==
    /\ Drained(t)
    /\ lock_word' = 0
    /\ UNCHANGED lw_pending

\* The release of the HLE build is a mov: the store may stay in the buffer.
hle_release_clear(t) ==
    /\ lw_pending' = lw_pending \cup {t}
    /\ UNCHANGED lock_word

mutex_reset_lock_word(t) ==
    /\ pc[t] = "cs"
    /\ IF HaveHle THEN hle_release_clear(t) ELSE XchgRelease(t)
    /\ Goto(t, "get_waiters")
    /\ UNCHANGED <<eventVars, waiters, alive, build, w_store, round, cell,
                   enters>>

mutex_get_waiters(t) ==
    /\ pc[t] = "get_waiters"
    /\ Goto(t, IF waiters # 0 THEN "clear_waiters" ELSE "idle")
    /\ UNCHANGED <<eventVars, memVars, alive, build, round, cell, enters>>

\* Faulty variant of clear_waiters: waiters stays set.
ForgetClear(t) ==
    /\ pc[t] = "clear_waiters"
    /\ Goto(t, "set_event")
    /\ UNCHANGED <<eventVars, memVars, alive, build, round, cell, enters>>

\* mutex_signal_object: waiters is cleared first, then the event is set.
clear_waiters(t) ==
    /\ pc[t] = "clear_waiters"
    /\ mutex_set_waiters(t, 0)
    /\ Goto(t, "set_event")
    /\ UNCHANGED <<eventVars, lock_word, waiters, alive, build, lw_pending,
                   round, cell, enters>>

set_event(t) ==
    /\ pc[t] = "set_event"
    /\ Drained(t)
    /\ os_event_set
    /\ Goto(t, "idle")
    /\ UNCHANGED <<memVars, alive, build, round, cell, enters>>

-----------------------------------------------------------------------------
\* The error monitor calls this every second: it sets the event of a
\* reserved cell whose mutex is free.
sync_arr_wake_threads_if_sema_free ==
    /\ build \in Monitored
    /\ alive
    /\ lock_word = 0
    /\ \E t \in Threads : cell[t] # 0
    /\ os_event_set
    /\ UNCHANGED <<memVars, alive, build, pc, round, cell, enters>>

Enter(t) == mutex_enter_func(t) \/ mutex_enter_nowait_func(t)

Progress(t) ==
    \/ spin_loop(t) \/ spin_tas(t)
    \/ sync_array_reserve_cell(t) \/ announce_waiter(t) \/ retry_tas(t)
    \/ sync_array_wait_event(t)
    \/ mutex_reset_lock_word(t) \/ mutex_get_waiters(t)
    \/ clear_waiters(t) \/ set_event(t)

Drain(t) == DrainLockWord(t) \/ DrainWaiters(t)

Next ==
    \/ mutex_create_func \/ mutex_free_func
    \/ \E t \in Threads : Enter(t) \/ Progress(t) \/ Drain(t)
    \/ sync_arr_wake_threads_if_sema_free

Spec == Init /\ [][Next]_vars

(***************************************************************************)
(* The operating system runs every thread that can run, a section ends, a  *)
(* store buffer drains, and the monitor wakes up every second.  Nothing    *)
(* makes a thread call an enter function.                                  *)
(***************************************************************************)
Fairness ==
    /\ \A t \in Threads : WF_vars(Progress(t)) /\ WF_vars(Drain(t))
    /\ WF_vars(sync_arr_wake_threads_if_sema_free)

FairSpec == Spec /\ Fairness

-----------------------------------------------------------------------------
Owner(t) == pc[t] = "cs"

\* Threads that have announced themselves and whose cell is not signalled.
Registered(t) ==
    /\ pc[t] \in {"retry_tas", "wait_event"}
    /\ w_store[t] = NoStore
    /\ ~os_event_wait_returns(cell[t])

Asleep(t) == pc[t] = "wait_event" /\ ~os_event_wait_returns(cell[t])

(***************************************************************************)
(* mutex_enter_func returns to one thread at a time until that thread      *)
(* calls mutex_exit_func.                                                  *)
(***************************************************************************)
MutualExclusion ==
    \A t, u \in Threads : Owner(t) /\ Owner(u) => t = u

(***************************************************************************)
(* LEMMA 1 and LEMMA 2 of sync0sync.cc as an invariant: whenever a thread  *)
(* sleeps on the event, some thread is on its way to os_event_set: it owns *)
(* the mutex or has yet to read waiters, and waiters is (or is about to    *)
(* be) seen as 1, or it is already inside mutex_signal_object.  It is the  *)
(* original build that the lemmas are about: the xrelease store of the     *)
(* other one may be overtaken by the read of waiters.                      *)
(***************************************************************************)
NoLostWakeup ==
    (~HaveHle /\ \E t \in Threads : Asleep(t)) =>
        \/ \E u \in Threads : pc[u] \in {"clear_waiters", "set_event"}
        \/ waiters = 1 /\ \E u \in Threads : pc[u] \in {"cs", "get_waiters"}

(***************************************************************************)
(* The ut_a assertions of mutex_free_func: once no thread uses the mutex,  *)
(* it is free and its waiters field, which the attempts after the          *)
(* announcement leave set, has been cleared again.                         *)
(***************************************************************************)
FreeAsserts ==
    (alive /\ \A t \in Threads : pc[t] = "idle" /\ Drained(t))
        => lock_word = 0 /\ waiters = 0

(***************************************************************************)
(* No infinite wait: a thread inside mutex_enter_func gets the mutex.      *)
(***************************************************************************)
Entering(t) == pc[t] \in {"spin", "spin_tas", "reserve_cell", "set_waiters",
                          "retry_tas", "wait_event"}

EnterReturns ==
    \A t \in Threads : Entering(t) ~> pc[t] \in {"cs", "get_waiters"}

=============================================================================

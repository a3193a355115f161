# TLA+ verification of htmsql

htmsql puts Intel's transactional memory (TSX: hardware lock elision, HLE, and
restricted transactional memory, RTM) under the mutexes of MySQL's storage
engine InnoDB, and measures it with small concurrent programs. This directory
models the synchronisation code and its clients, checks the models with TLC and
proves the central safety properties with TLAPS.

`PROJECT.json` lists the components, the runs, the lines each definition stands
for, the hazards and the theorems. Paths below are relative to `src/`; `innobase/`
stands for `mysql/mysql-5.6.10-<variant>/storage/innobase/`.

## 1. Inventory

| Part | State | Operations | What is hard | What makes it correct |
|---|---|---|---|---|
| **os_event** (`innobase/os/os0sync.cc`, variant glibc) | `is_set`, `signal_count` | create, set, reset, wait, timed wait | set and reset between a reset and a wait | a wait returns if the event was set since the caller's reset |
| **InnoDB mutex** (`sync/sync0sync.cc`, `include/sync0sync.ic`) | `lock_word`, `waiters`, the event | create, free, enter, enter_nowait, exit | lost wake-ups; the release of the HLE build does not serialize | exclusion; a sleeper is woken; clean when freed |
| **wait array** (`sync0arr.cc`, not in the repository) | a cell per sleeper | reserve, wait, free, rescue by the error monitor | ordering against `waiters` | as above |
| **HLE builds** "all", "smartall" (`include/sync0sync.ic`) | nesting of elisions | test-and-set, reset | a latch path half elided and half held; an abort in the middle | holders and elisions exclude each other; paths end |
| **lock functions** (`hle/lock_functions`) | lock word | lock and unlock, atomic / HLE / RTM | transactions beside real holders, retries, fallback | a holder is alone; retry loops end |
| **RTM wrappers** (`include/myrtm.cc`, variants syslock-rtm and trx_lock_func-rtm) | lock word, retry counter | rtm_lock, rtm_unlock | the lock word must be in the read set | as above |
| **bank** (`hle/bank`) | balances, a mutex | transfer, read, final check | two kinds of lock on the same accounts | transfers are atomic, money is conserved |
| **list** (`hle/list`) | links, heap | insert, remove, contains, destruction | neighbouring removals, equal values, delete after the section | one chain, no use after delete, no leak |
| **hash maps** (`hle/hashmap`) | buckets, items on the heap | insert, remove, contains, destruction | deletion after the section, cells reused at once, retries with stale locals | behaves as a set; no item leaked or used after deletion |
| **counters** (`hle/shared_counter`) | counters, operations per thread, a stop flag | increment, get; create, reset, stop, join, check | retries exhausted, warm-up reset, copied locks | no increment is lost silently; the benchmark ends |
| **transaction system header** (`innobase/trx/trx0sys.cc`, global latch variants) | id counter, rollback segment slots, binlog position, format tag, on a page and in memory | start, recovery, id assignment, tag upgrade, shutdown | crashes between writes, a tag read before redo, a half written offset | ids never reused, no transaction lost, positions exact |
| **latching order checks** (`sync_thread_*` in `sync/sync0sync.cc`, debug builds) | an array of held latches per thread with a free list | add and reset a level, queries | exceptions to the order, release in any order | arrays exact; whoever passes the check cannot deadlock |
| **nesting programs** (`hle/nesting`), **micro hash map** (`micro/hash_map`) | lock words, buckets | lock and unlock in either order | limits of nesting; a transaction left open | not modelled |
| **HLE on the transaction mutex** (variants trx_lock_func, trx_all, syslock, beta) and **global latch** variants | a lock word or a second field `hle_mutex` | enter, exit | two words for one mutex | as for the lock functions |

The parts interact through shared memory only: clients (bank, list, hash map, counters, InnoDB) call
lock functions or mutexes; a mutex uses the wait array and an event; all of them
run on the processor, whose transactions see each other through conflicts.

Left aside: `mysql/bench` (sysbench) and `hle/intel-tsx-tools` (third party),
`micro/` and `hle/elision_properties` (measurements of the processor without
state of their own), shell scripts, and the glibc variants, which move the
elision into glibc.

## 2. Modules

    OsEvent <- IbMutex <- SyncProofs           Tsx <- LockFunctions <- Bank <- MCBank
    LatchOrder <- SyncProofs                                                <- BankProofs
               <- MCLatchOrder                 Tsx <- NestedElision <- MCNestedElision
    List <- MCList                                                  <- NestedElisionProofs
         <- ListProofs                         Tsx <- HashMap <- MCHashMap
    TrxSys <- TrxSysProofs                                    <- HashMapProofs
    AtomicBank  (instantiated by Bank)         Tsx <- Counter <- CounterProofs
    AtomicSet  (instantiated by HashMap)       Tsx <- SharedLemmas (used by BankProofs, HashMapProofs,
                                                      NestedElisionProofs, CounterProofs, ListProofs)

The MC modules add only symmetry sets, latch paths and assignments of levels. Operators commented
"Faulty variant of X" are not part of any specification: each states a plausible
mistake in X and serves to show that the properties notice it.

**OsEvent**. One operator per function, each a single step because the code runs
with `event->os_mutex` held. `os_event_wait_returns` is the exit condition of the
wait loop. The wait with a reset count of zero does not occur: `signal_count`
starts at 1 and cells keep what `os_event_reset` returned.

**IbMutex**. One action per statement of `mutex_spin_wait`, `mutex_exit_func` and
`mutex_signal_object` that touches shared memory, plus create, free, enter and
enter_nowait. `pc` names the statement a thread executes next. The memory model
is x86-TSO: a plain store (to `waiters`, and in the HLE build to `lock_word`) goes
through the store buffer (`w_store`, `lw_pending`), and a locked instruction
requires an empty buffer (`Drained`). The variable `build` says which build runs, the original
one or "all" (`HaveHle`); it is chosen from `Builds` at the start. An elided
section appears as an enter and a release in one step, since it commits as a
whole or not at all. `HleThreads` bounds the threads that use the mutex of "all". `mutex_free_func` happens when nobody uses the mutex, which
is the caller's duty; its two assertions are the property `FreeAsserts`. The error
monitor's `sync_arr_wake_threads_if_sema_free` is counted on in the builds in `Monitored`.

**Tsx**. The processor, taken from the instructions the code uses: memory, a read
set, a write set and buffered writes per transaction, eager conflict detection in
which the requester wins, aborts by the processor at any time, and an abort status
of which only the bits the code looks at are kept. An aborted thread can do
nothing until it rolls back. Each word has a cache line of its own.

**LockFunctions**. The lock functions as steps on one lock word: `precheck`,
`exchange` (a real xchg), `xacquire_exchange` (an elided one), `wait` (the pause
in a wait loop aborts an elision), `xbegin`, `check`, `xabort`, `rollback` (with
the retry loop of each function), `unlock`. Four RTM functions are told apart:
`rtm_lock` and `rtm_lock_smart` of `hle/lock_functions`, `rtm_lock_syslock` and
`rtm_lock_trx` of the two InnoDB variants. The fallback of the latter two,
`mutex_enter_func`, is its test-and-set and its spin; sleeping is in IbMutex.
The processor may decline to elide, so `exchange` is possible wherever
`xacquire_exchange` is.

**Bank**. `run_mix_rtm`: choose an operation and a lock function, lock, load and
store balances one access at a time, unlock. The program itself mixes
`atomic_exch_lock_spec` with `rtm_lock`; `LockFuncs` generalises this, so that the
section serves as the client of every lock function. `AtomicBank` is the abstract
specification: a thread calls an operation (`Call`), which is then pending until it happens in one
step (`Do`), and only then can the thread call the next one. A transfer that is split, lost or made twice
is thus no behaviour of it. The refinement mapping `Balance` undoes the
withdrawal of a locked transfer that has not deposited yet, so that the deposit is
the abstract step; a transactional transfer takes effect at its commit. `Pending` is the operation of a
thread that has not taken effect (`Done`); an abort does not make it disappear.

**NestedElision**. A thread enters the mutexes of a latch path in order, increments
the word protected by the last one, and exits in reverse. In "all" every enter is
an `xacquire`, nested ones included; in "smartall" (`SmartAll`) an enter inside a
transaction reads the lock word and reports success. `base` is the depth at which
the current transaction began: an abort returns there, and the acquire is executed
again without elision while the mutexes below stay held.

**List**. The benchmark of `hle/list`: `insert` allocates outside of the section and
links inside of it, `remove` finds and unlinks inside and deletes outside. What is
between lock and unlock is one step; Bank justifies this for the lock functions the
benchmark uses. The properties of List therefore speak of sections in any order, and say nothing about
an interleaving inside of one. The heap reuses cells at once and `delete` does not clear them, so
a dangling link would be followed. `deleteAll` is the destructor, called after the
threads were joined.

**HashMap**. The three maps differ in how a section is entered (`lock` or `elide` on the
lock word of the bucket or of the map, `xbegin` without a lock), in whether `new` and
`delete` are inside of it (they are under the global lock), and in what an abort leads
to (the lock is taken, or, if it is taken by then, waited for and elided again (`busy`); or `failures` is
counted and the program exits). `leave` merges the unlock of the global map with the `delete` just
before it: in a transaction both take effect with the commit, and a holder is the only thread
that uses the heap then. One action per
memory access; an item is a cache line, so its value and successor are one word. Cells
are reused at once and keep their content, so that a stale pointer would be followed.
`AtomicSet` is the abstract specification: call, one atomic step, return. The step is
the store that links or unlinks under a lock, and the commit of a transaction.

**Counter**. `main` creates the counters, starts the threads, resets their operations
after the warm-up, stops, joins, adds up and compares; the threads increment until they
see `stop_run`. The kinds of counters and both modes are initial states: a lock for each counter, the global
lock, `RtmCounter`, and the plain integers of `run_unaligned` with a lock each or with `rtm_lock`
(`unaligned_rtm`), which tries for ever. `get` waits for the lock of the counter, the global one included; a `get` that gives
up returns an arbitrary number, which `unread` remembers.

**TrxSys**. `page` is the header page in the buffer pool together with the undo logs and
the ids in rows, `disk` what redo would yield after a crash, `file_tag` the tag in the data
file. A mini-transaction is one step on `page`; `LogFlush` may come at any moment, which
leaves every prefix a crash can leave. A server starts in the order of the code: format
check, redo, `trx_sys_init_at_db_start`, `trx_sys_file_format_tag_init`,
`trx_sys_create_rsegs` with its loop; a crash is possible after each. Servers of different
`UNIV_FORMAT_MAX`, with or without the format check and read-only ones follow each other on
the same files. What other files of InnoDB do (assign ids, write undo logs, prepare,
commit) is external and reduced to its use of the header.

**LatchOrder**. `order_ok` is the switch of `sync_thread_add_level` over all levels;
`sync_thread_add_level` and `sync_thread_reset_level` work on the array with its free list
threaded through the `level` fields. A request passes if the check would; waiting and
entering are separate steps, so that circular waits can form; the code makes the check when it
has the latch, and stops the server if it fails, so a request that would not pass is not modelled. Nor is
any other call at which the debug build stops: a release of a latch that the array does not list
(`reset_ok`; an rw-lock of `SYNC_LEVEL_VARYING` is let pass if the thread has an array) and a query that finds
a forbidden level. The alternative `buf_debug_prints` of the case `SYNC_DICT` is left out: nothing in the
repository sets it. Rw-locks can be x-locked again by their owner.

## 3. Runs

| Run | Instance | Shows |
|---|---|---|
| `ib_mutex` | 2 enters each; 3 threads in the original build, 2 in the HLE build | `MutualExclusion` and `FreeAsserts` in both builds, `NoLostWakeup` in the original one; every blocking enter returns, in the original build without the monitor, in the HLE build with it in spite of the buffered release |
| `ib_mutex_hle_no_monitor` | 2 threads, 2 enters, HLE | **violated**: an enter never returns (finding 1) |
| `bank` | 2 threads, 1 operation each; atomic, checked HLE, rtm_lock_smart and syslock-rtm | a holder is alone, reads are committed, transfers happen as a whole and once (so money is conserved), every operation ends under any pattern of aborts |
| `bank_mix_rtm` | 2 threads, the mix of the program | **violated**: money is lost or created (finding 2) |
| `nested_all` | 3 threads, 1 path each, paths Outer-Inner and Inner | holders and elisions exclude each other; a held mutex stays marked; no update is lost; every path ends |
| `nested_smartall` | 2 threads, both paths | **violated**: an elision enters a held mutex (finding 3) |
| `list` | 3 threads, 4 operations each, 3 cells, 2 values | one chain, cells and values accounted for, `first` and `last` never dangle |
| `list_insert` | as `list` | **violated**: two items hold the same value (finding 4) |
| `hash_map` | 2 threads, 4 operations in all, 1 bucket, 2 values, 3 cells, all three maps | items accounted for, none used after its deletion, refinement of a set |
| `counter` | 3 threads, 2 counters, all kinds and modes | reported operations = increments + operations given up with a message; main ends, unless the processor aborts `rtm_lock` for ever |
| `trx_sys` | 3 starts, 6 calls, margin 2, 3 slots, formats 0 and 1, two-digit offsets | ids fresh, transaction list valid, undo logs owned, positions, tag and slots right |
| `latch_order` | 2 threads, 4 latches, two assignments of levels | arrays and free lists exact, no overflow, queries right, no circular wait |

### Bounds

* `MaxEnter`, `MaxOps` bound the calls per thread. The code's loops are endless or
  end on a flag. Two calls are what it takes for a thread to meet the traces of its
  own earlier call (a `waiters` flag left set, an old signal count, a lock
  word another thread's release clears); three threads give a holder, a sleeper
  and a third that interferes with their hand-over. On nested paths one path per
  thread suffices: three threads cover a holder, an elision beside it, and a
  transaction that aborts between the two mutexes and comes back as a holder.
* `SYNC_SPIN_ROUNDS` (30 by default) and `RESERVE_TRIES` (4 in the code) only
  repeat a step without effect on the others; one round and two tries
  reach both exits of each loop. The proofs hold for every value.
* `MaxRetries` (10, 1000 or 10000000 in the code) is 0 or 1: the fallback is taken
  after it is used up, and with 1 also after one retry.
* Two accounts and one amount: transfers to oneself, in the same and in opposite
  directions occur. Balances are doubles in the code that hold whole numbers far
  below 2^53, so integers are exact.
* Three `Cells` make allocation run into a full heap and reuse each cell; two
  `Values` make equal values of different threads occur.
* In HashMap `MaxOps` bounds the calls of both threads together.
* One bucket makes all values collide; buckets share nothing but, in the global map,
  the lock. Two retries (1000000 in the code) give a retry and a giving up.
* Three workers on two counters: two of them share one in `COUNTER_PER_CORE`.
* A margin of 2 (256 in the code) and six calls reach ids below, at and beyond the margin
  before a crash; three starts give a crash during the recovery from a crash. Offsets are
  two digits of base `WordSize` = 2 (2^32 in the code), so that the high word changes from
  0 and back. What is proved of the ids holds for every margin and number of starts.
* The two assignments of levels are a cover (lock_sys over two trx mutexes) with a dictionary rw-lock
  above, and pages of a file space with an rw-lock of varying level. The array has room for
  `SYNC_THREAD_N_LEVELS` = 5 elements, what a thread can hold at once.

Runs with `CHECK_DEADLOCK FALSE` stop because the threads have done their
operations. `ib_mutex`, with the check on, ends in create and free of the
mutex for ever, so a real deadlock would be reported.

### Fairness

Weak fairness of the steps of each thread: the scheduler runs a thread that can
run. A section is finite, so leaving it is included. Draining of store buffers is
weakly fair, as on any x86 processor, and so is the monitor, which the server
calls every second. Calling an enter function or starting an operation is not
fair, and neither is any abort: nothing in the liveness runs depends on the
processor aborting or not aborting. The mutexes are not starvation free; since
the number of calls is bounded, contention ends, and the liveness properties then
say that a thread is not left behind once the others have stopped competing.
In Counter both the threads and `main` are weakly fair: `main` only sleeps between its
steps. `rtm_lock` of `hle/lock_functions` has no fallback, and a transaction that always aborts is
tried for ever: it is not among the lock functions of `bank`, and `MainEnds` says that main ends with it
only if no thread is aborted again and again.

## 4. Proofs

TLAPS checks all proofs; constants are arbitrary within the named assumptions
(`ConstAssumption`, `LockAssumption`, `BankAssumption`, `TrxSysAssumption`, `LatchAssumption`,
`NestedAssumption`, `HashMapAssumption`, `CounterAssumption`, `ListAssumption`), so the results hold for any number of threads, calls, retries, accounts,
latches and paths. Where a property is a sum or a count, the set it ranges over is finite
(accounts, threads of nested mutexes, workers, cells of the list, latches). Every safety property
that a passing run checks, invariant or refinement, is stated by a theorem.

**SyncProofs**, first part: the mutex (`TypeCorrect`, `MutexExcludes`, `FreeAssertsHold`, `WakeupsNotLost`).
None of the properties is inductive by itself. The argument is built in layers:

* `LockInv`: a thread "holds" the mutex from its test-and-set until its store of 0
  leaves the store buffer; there is at most one such thread, and `lock_word` is 1
  exactly if there is one. The buffered release makes the middle part necessary:
  the owner may be long past its section while memory still says 1.
* `CellInv`: only threads between reservation and wake-up have a cell, its signal
  count is at most the current one, and if it is the current one the event is not
  set; a buffered store to `waiters` belongs to a thread at the statement after it.
* `WaitersInv`: `waiters` is 1 only while some thread still has to pass through
  `mutex_exit_func`, or has its store of 0 buffered; hence it is 0 when nobody uses the
  mutex, although `mutex_spin_wait` leaves it set.
* `WakeInv` (original build): a registered, unsignalled thread is still visible through
  `waiters`, or a signaller that cleared it has yet to set the event; and once that
  thread has failed a test-and-set, some thread is between taking the mutex and the
  end of `mutex_exit_func`. The second part alone is LEMMA 1; it is not inductive
  without the first, since a signaller clears `waiters` before it sets the event and
  may clear an announcement that came late.

`NoLostWakeup` and `WakeInv` are conditional on `~HaveHle`, and no step changes the build (`BuildFixed`). For the
HLE build the conclusion is false, which `ib_mutex_hle_no_monitor` shows.

**SharedLemmas** has no theorem of its own. Its first part states once what each instruction does to memory, to
the transaction of its thread and to those of the others (`LoadEffect`, `StoreEffect`,
`BeginEffect`, `DiscardEffect`, `OthersKept`), which types it keeps, and that two live
transactions never touch a word that one of them has written (`NoConflict`): the access
that would make a conflict aborts the other one. A store or a commit leaves what the live
transactions of others have read (`ReadsKept`).

The second part is about sums over finite sets, `MapThenSumSet` of the library (`SumOver`), which
the library defines by recursion on the set. Induction over data is done by hand: a set of
natural numbers has a least element (`LeastNumber`), so a statement that fails for some subset
fails for one of least cardinality, and not for that one less an element (`SubsetInduction`).
This gives that the recursive function exists (`SumExists`), that a sum of integers is an
integer, and what becomes of a sum if one value changes, if none does, or if all are the same
(`SumGrows`, `SumSame`, `SumConstant`, `SumAtLeast`).

**BankProofs** (`TypeCorrect`, `HolderIsAlone`, `ReadsAreCommitted`, `ImplementsAtomicBank`,
`MoneyKept`). All but the first assume `LockFuncs \subseteq Subscribing`: each function in use takes the lock
word or has it in the read set of its transactions (all but `rtm_lock` and `rtm_lock_trx`). The
inductive invariant `IsolationInv` says that at most one thread is in the section
without a transaction and the lock word is then 1, that a live transaction in the
section has the lock word in its read set while the word is 0, and that no
transaction writes it; two more parts say at which control points a transaction is
open. The steps are grouped into lemmas by their effect on the lock word (`SectionStep`,
`TakeStep`, `ElideStep`, `LookStep`, `ReleaseStep`): a
taker's store aborts every subscriber, so the two can never be in the section
together. The assumption cannot be dropped: in `bank_mix_rtm` a transaction of `rtm_lock`
runs beside a holder.

The next two theorems are serializability. `DataInv` relates what a thread knows to
memory: whatever a live transaction has loaded is in its read set and still has that
value, and its write buffer holds the outcome of its transfer on the memory as it is now
(`TxData`, `After`); a holder's register is the account's content (`LockedData`). A step of
another thread keeps this because it writes no account, or writes as a holder, who is
alone (`IsolationInv`), or commits words that no other live transaction has read
(`NoConflict`, `DataStep`). Then `BalanceStep` maps each step: a commit is one
`AtomicBank!Do` (`CommitTransfer`), so is the second store of a locked transfer
(`DepositLocked`), whose first store does not show because `Balance` undoes it
(`WithdrawLocked`), and no other step changes `Balance` (`QuietBalance`). The other half of the mapping is `Pending`:
a call makes an operation pending (`PendingCall`), the step that changes `Balance` for it, and for a
read the one that ends its section, makes it done (`PendingDone`, `ShowingStep`), an abort and every other
step keep it (`PendingKept`, `QuietPending`), and no step touches what another thread has pending
(`OthersPending`, `OthersOfStores`). The case of a transfer from
an account to itself is included; `AtomicBank!Moved` nests its two changes because tlapm
misreads one EXCEPT that changes the same index twice.

`MoneyKept` is `checkResult`, the sum over all accounts that the program compares after the join.
It follows from the refinement: an abstract step keeps the sum (`TransferKeepsSum`), so
`TotalInv`, about `Balance`, is an invariant, and `Balance` is memory when all threads are idle. The
violation in `bank_mix_rtm` is thus due to the one lock function that does not subscribe.

**TrxSysProofs** (`TypeCorrect`, `IdsNeverReused`, `ListValid`, `NoOrphanUndo`; `PositionsRecovered`,
`SlotsContiguous`, `GateHolds`, `TagCovers`). That the next
id is fresh is not inductive: after a crash the counter comes from the page that survived,
so `IdInv` has to bound what each page can have seen. `PageInv`, for `page` and for `disk`,
says that the ids in rows and undo logs of a page are below the value that
`trx_sys_init_at_db_start` computes from its stored counter (`AlignUp`, `StartAbove`).
`CounterInv` says that in a server that has started, the counter is at most that value
too, and that it is either a multiple of the margin, so that the next id forces a write
(the remark "VERY important" of the source), or less than a margin ahead of the stored
value. `IdsFresh`, `trx_sys_validate_trx_list` and `UndoHasTrx` are the other parts: they are
inductive only together, since a recovered transaction gets its id from an undo log. The
steps are grouped by their effect (`SameIds`, `StartsAbove`, `StartTrxStep`, `TrxStep`,
`Down`).

The last four theorems are about the other fields of the header, with one invariant each. `BinlogInv`: the words on the page in memory and on
the page on disk are those of the position stored last, although the high word is written only
if it is or was not zero. `RsegInv`: the used slots of both pages have no gap, a database that
exists has the first one, and a server that is down sees what is on disk; the number of
segments that a start counts is then the number of used slots. `FormatInv`: a tag names a known
format; the tag in the data file of a cleanly closed database is that of the page; and in a
server that has the check and did not recover, `file_format_max` is the format of the page. `TagCovers`
says the latter, and that this format is at least that of every table opened since the start or
the last manual set: an upgrade is skipped only if the cache, hence the page, is high enough already.

**SyncProofs**, second part: the latching order (`LatchTypeCorrect`, `ArraysAreExact`, `FreeListsAreExact`,
`CheckPreventsDeadlock`, `ArraysFit`). `LatchInv` says that the array of a thread lists each
latch that the thread holds as often as it holds it (`Lists`, `Count`), that the free list
contains every free element once and ends, that a held latch has an owner, and that a thread
which waits for a latch passed the check with the array it still has (`WaitInv`).
`CheckPreventsDeadlock` takes the thread of a supposed circle that waits for a latch of the least
level number. The owner of that latch is in the circle and waits too, for a latch of no smaller
level; the check it passed demands a level below that of every latch it holds, unless the level
is the same and the thread holds the mutex that covers it (`CircleStep`). The same then holds of
the next thread in the circle, so that two threads hold one covering mutex, of which there is
one for each level (`Cover`, `Ordered`). The level numbers of `sync0sync.h` are different
(`LevelNumbers`).
`ArraysFit` assumes finitely many latches (`LatchAssumption`) and
`SYNC_THREAD_N_LEVELS >= Cardinality(Acquisitions)`, where an acquisition is a mutex or one of the recursive locks of an rw-lock: the used elements map one to one to
acquisitions, and an array grows only if all its elements are used (`ShortInv`). Without a bound
of this kind the assertion of `sync_thread_add_level` cannot hold for all programs.

**NestedElisionProofs** (`TypeCorrect`, `HolderIsAlone`, `HolderIsMarked`, `NoUpdateLost`). `NestInv` relates the
position on the path to the start of the transaction and to the mutexes whose release the
processor waits for, in both builds; it needs that a path does not enter a mutex twice
(`NestedAssumption`, InnoDB mutexes are not recursive). `ExclusionInv` says that a live
transaction has in its read set each lock word that it entered, with the value 0, and writes
none, that a held mutex is marked, and that two threads hold different mutexes. For `NoUpdateLost`,
`CountInv` adds that the word is, at any moment, the sum of the updates that show (`Shown`: all but
the one a thread has under way), and that what a live transaction or a holder has loaded is still
the word's content (`UpdateInv`). It needs that all paths end in the same mutex, the one that
protects the word: two threads at the word would both hold it (`AloneAtWord`). All but the types
assume `~SmartAll`; in the "smartall" build exclusion fails (`nested_smartall`).

**HashMapProofs** (`TypeCorrect`, `NoThreadUsesDeletedItem`, `NoCellLost`, `ImplementsAtomicSet`).
`HeapInv` says that there are sets of cells, one for each bucket, that are disjoint, allocated,
closed under the pointers and ranked, so that no two pointers lead to the same cell and none leads
back (`Lists`); each cell is reached, and no two cells of a bucket have the same value (`Full`); every
allocated cell is in one of the sets or belongs to a thread (`Accounted`). The new item before it is
linked and the removed one before it is deleted belong to one thread (`OwnInv`). `Walks` says what an
operation knows of the lists: in a transaction, that the words it followed are in its read set and
still hold what it read (`TxWalk`); under a lock, that the item and its predecessor are in the
bucket (`LockedWalk`); in both, that the cells passed so far are the first ones of the list and none
of them has the value (`Search`, `Passed`). The other layers are the types of all list words (`MemInv`)
and the exclusion by lock word and conflicts (`ExclInv`). Two steps change the lists, a link
(`LinkLists`) and an unlink (`UnlinkLists`), done by a holder (`LockedChangeHeap`) or by a commit
(`CommitHeap`); what another thread has read survives them, since a commit has no word in another's
read set and a holder's store aborts its readers (`OthersOfChange`). All other steps are `Quiet`.

The properties speak of what the recursive walk `Items` finds, the invariant of a set of cells. The
two are the same (`ItemsAre`): the walk exists (`WalkExists`), stays in the set, and misses no cell of
it, for of the cells it misses the one of least rank would be reached from a cell it visits; that it
needs at most `NCells` steps follows from counting (`WalkReaches`). With `Linked` known (`LinkedAre`),
`NoCellLost` is `Accounted` and `OwnInv`.

For the refinement, `Contents` is the set of values in the lists. A search that found its value has
it in the bucket, and one that came to the end has passed all of it (`NotThere`), so that the thread
knows whether the value is in `Contents` (`SearchKnows`). `StepSeen` sorts the steps by what AtomicSet
sees: a call, a return, nothing, or the moment of decision, which is the store that links or unlinks
under the lock (`ChangeDecides`), and otherwise the end of the section (`LeaveDecides`), where a commit
changes memory as `Effect` says. A step of another thread never changes what a thread shows, because
an abort turns only a live transaction into an aborted one (`OthersAsBefore`). `Destroy` is `Clear`.

**ListProofs** (`TypeCorrect`, `ListIsOneChain`, `NoCellLost`, `ValuesRemembered`). `ListInv` has a witness too,
here a sequence: there are different cells `p[1]`, ..., `p[n]` whose links in both directions and
whose ends are those of the list (`Chain`), so that `first` and `last` are allocated; the allocated cells are these and one for each thread
that has an item in its hands (`Hands`); and each value is in the list as often as all threads
together remember it (`Balanced`, a cardinality against a sum). `FollowIs` shows that the recursive
walks of the properties return this sequence, forwards and backwards (`ChainIsList`).
`CreateInv`, `InsertInv` (an append) and `DeleteInv` move a cell between the heap, a thread and the list. The step
that needs all three parts is `FindInv`: a thread that looks for a value remembers it, so the sum is
at least one (`SumAtLeast`), the value is in the list, and the search returns the first item that has it
(`GetFinds`), not always the one that the thread itself inserted; unlinking it closes the gap in the
sequence, at its head, in the middle and at its tail.

**CounterProofs** (`TypeCorrect`, `IncrementsAccounted`). `CountInv` has a part for each piece of state
that the final comparison of `main` relies on. `ControlInv` says which of `main` and the threads can be
where, in particular that a report is written after the reset of the warm-up; `ExclInv` that a
locked counter has one holder and transactions do not overlap; `DataInv` that a thread's register,
or its buffered write, belongs to the counter as it is now. `SumInv` is the balance: the
increments of all threads (`Done`) are the contents of all counters and the messages. `GotInv` says
that `main`, which adds up one counter at a time, has the sum of those it has read, unless a
`get` gave up. Only `StoreInv` (a holder's store), `LeaveInv` (a commit) and `AbortedInv` (an increment
given up) change both sides of the balance; every other step is `QuietInv` or a step of `main`.

Only model-checked: the liveness properties `EnterReturns`, `OperationsEnd`, `PathsEnd` and `MainEnds`, since
fairness is beyond the prover, and that the four violations occur.

## 5. Findings

1. *The HLE release does not serialize.* `mutex_reset_lock_word` of the HLE builds is
   an xrelease store; its comment promises serialization, and LEMMA 1 of
   `sync0sync.cc` rests on it. The read of `waiters` that follows can overtake the
   store, and the waiter sleeps until the error monitor rescues it a second later.
2. *run_mix_rtm loses money.* Its transactions do not subscribe to the mutex, so
   they run beside a locked transfer between its load and its store.
3. *smartall reports nested mutexes free* without looking at the value it reads. If
   another thread holds the inner mutex, the elision runs beside it, and its exit
   clears the holder's lock word at commit.
4. *List::insert does not look for the value.* `hashmap/HashMap-test.cpp:138` remarks at the `delete` of `remove`: "TODO leads to: double free or
  corruption". The file is not built. Its `remove` has a lock per bucket and, like the global map, the
  `delete` before the unlock. Under a lock that excludes, that order loses nothing (`NoUseAfterDelete` and
  `CellsAccounted` hold for the global map); what gives two deletes of one item is a lock that does not exclude:
  `LockType::NONE`, or a copy of the lock, as in the lines that are commented out in `HashMap-global.cpp:84`.
* `shared_counter/time_cmp.cpp:210` resets the operations after the warm-up, but the threads
  overwrite the reset with a count that includes the warm-up. The throughput is too high by
  it; the check of the counter passes only because of it (`NothingLostSilently`).
  `bank/time_cmp.cpp:285` does the same.
* `RtmCounter::get` returns without a value after the last retry.
* `micro/hash_map/HashMap.cpp:127`: `remove` returns with its transaction open if the value is
  not found.
* `trx_sys_file_format_tag_init` (`trx0sys.cc:785`) says it tags an untagged space with the
  minimum format; `trx_sys_file_format_max_set` skips the write since the cache holds the
  minimum already (`:774`), so a new space stays untagged. Readers take untagged for the
  minimum, so nothing follows from it.
* With the check switched off (`trx0sys.cc:705`, "only print a warning") the cache becomes
  `UNIV_FORMAT_MAX + 1`, and no later upgrade of the tag is recorded.
* The tag is read before redo (`trx0sys.cc:716`): after a crash an older tag passes the check
  and stays in the cache, and a set or an upgrade that compares with the cache may lower the tag that
  redo brought back or leave it too low. `FormatGate` and `TagCoversOpenTables` therefore exclude servers that
  began with a recovery; nothing is claimed of the tag in them.
* A binlog name of 512 bytes or more is not stored, and the offset with it
  (`trx0sys.cc:213`); the position printed is then that of an earlier commit's file.
* `os_event_wait_time_low` (`os0sync.cc:689`) adds `time_in_usec / 1000000` seconds on a carry of
  the microseconds instead of the carry, so a wait below a second can end at once.
* A thread whose only latch is an rw-lock of `SYNC_LEVEL_VARYING` has no level array, since such a latch is not
  entered in one; its release in a debug build stops the server (`sync0sync.cc:1372`).
* Slots of level arrays are never given back (`sync0sync.cc:1106`); LatchOrder assumes enough.
* Several buffer pools, and pages under a latch that covers them, escape the order check
  (`sync0sync.cc:1182`, `:1235`): `NoDeadlock` is stated for the levels in `Ordered`.
* The global latch variants create `global_mutex` at the level of `trx_sys->mutex`
  (`trx0sys.cc:597`), so a debug build stops if a thread takes one under the other.

## 6. Not modelled, and what remains

* The other copies of `sync0sync.cc`, of `os0sync.cc` and of `trx0sys.cc` under `mysql/` are the
  same files with a few lines changed. Each is modelled once, in the variant the map names,
  and the changed lines of the HLE and RTM variants in IbMutex, NestedElision and
  LockFunctions. Together with sysbench and the Intel tools, which are third-party code,
  they are most of the repository's lines, so the share of lines the map names stays
  small.
* Bank with a lock per account: every section is a single lock around a load and a store, as
  in Counter, and the code promises nothing about a state between two of them.
* HLE on the transaction mutex: `hle_mutex_enter_func` is `hle_exch_lock_spec` of LockFunctions on
  `lock_word` or on a second field; nobody sets `waiters` on that path. trx_all does not
  initialise the second field in `mutex_create_func`, the global_hle_latch variant does.
* Nesting programs, `micro/` and `hle/elision_properties` measure the processor.
* `micro/hash_map`: see the observations; after its first failed `remove` it has no sections
  left to speak of.
* PreAllocator is created by no program.
* `os_event_wait_time_low`, `os_event_free`: not used by the mutex. The glibc variants move the
  elision into glibc.
* Shared modes of rw-locks, `sync0arr.cc` and the other callers of `trx0sys.cc` are not in the
  repository; what the code uses of them is external.
* Performance schema wrappers, I/O, argument parsing, statistics and printing.

Worth doing next: the steps inside a section of List one access at a time, as in HashMap, instead of
as one step justified by Bank.

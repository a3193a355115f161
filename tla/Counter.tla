------------------------------ MODULE Counter ------------------------------
(***************************************************************************)
(* The shared counters of hle/shared_counter and the benchmark that drives *)
(* and checks them (time_cmp.cpp): main creates the counters, starts the   *)
(* threads, resets the operations of the warm-up, stops the threads, joins *)
(* them and compares the operations they report with the counters.         *)
(*                                                                         *)
(* A counter has its own lock (ThreadsafeCounter), shares the global one   *)
(* (GlobalThreadsafeCounter) or uses transactions without a lock           *)
(* (RtmCounter).  run_unaligned works on plain integers with a lock each,  *)
(* or with rtm_lock, which begins transactions until one starts.  The lock *)
(* functions may elide the lock (LockFunctions).  A conflict between       *)
(* counters in one cache line looks like a hardware abort.                 *)
(***************************************************************************)
EXTENDS Tsx, FiniteSetsExt

CONSTANTS
    Workers,            \* 0 .. num_threads - 1
    Main,               \* the thread of main
    CORES,
    Kinds,              \* subset of {"own", "global", "rtm", "unaligned",
                        \*            "unaligned_rtm"}
    Modes,              \* subset of {"SINGLE_COUNTER", "COUNTER_PER_CORE"}
    RTM_MAX_RETRIES,    \* 1000000
    MaxOps              \* bound: operations of a thread until it is stopped

\* Words of memory: the counters, their locks, the global lock.
Counters == 1 .. CORES
own_lock(c) == -c
globalLock == 0
CounterLoc == -CORES .. CORES

ASSUME CounterAssumption ==
    /\ Workers \subseteq Nat /\ IsFiniteSet(Workers) /\ Main \notin Workers
    /\ Threads = Workers \cup {Main}
    /\ Loc = CounterLoc
    /\ CORES \in Nat \ {0}
    /\ RTM_MAX_RETRIES \in Nat \ {0} /\ MaxOps \in Nat

VARIABLES
    kind, mode, stop_run,
    operations_count,       \* Garbage until it is written
    pc,
    reg,                    \* the counter in a register
    failures, ops,          \* locals of increment and run
    messages,               \* "Max retry count reached", from increment
    got,                    \* counters that main has added up
    actual,                 \* their sum
    unread                  \* get gave up: its result is not initialised

locals == <<reg, failures, ops>>
results == <<messages, got, actual, unread>>
vars == <<txVars, kind, mode, stop_run, operations_count, pc, locals, results>>

Garbage == -1

TypeOK ==
    /\ TsxTypeOK
    /\ kind \in Kinds /\ mode \in Modes
    /\ stop_run \in BOOLEAN /\ unread \in BOOLEAN
    /\ operations_count \in [Workers -> 0 .. MaxOps \cup {Garbage}]
    /\ pc \in [Threads -> {"off", "test", "enter", "load", "store", "leave",
                           "report", "ended", "create", "reset", "stop",
                           "join", "get", "done"}]
    /\ reg \in [Threads -> Nat]
    /\ failures \in [Threads -> 0 .. RTM_MAX_RETRIES]
    /\ ops \in [Workers -> 0 .. MaxOps]
    /\ messages \in Nat /\ actual \in Nat
    /\ got \in SUBSET Counters

Init ==
    /\ TsxInit([l \in Loc |-> 0])
    /\ kind \in Kinds /\ mode \in Modes
    /\ stop_run = FALSE
    /\ operations_count = [w \in Workers |-> Garbage]
    /\ pc = [t \in Threads |-> IF t = Main THEN "create" ELSE "off"]
    /\ reg = [t \in Threads |-> 0]
    /\ failures = [t \in Threads |-> 0]
    /\ ops = [w \in Workers |-> 0]
    /\ messages = 0 /\ got = {} /\ actual = 0 /\ unread = FALSE

Goto(t, label) == pc' = [pc EXCEPT ![t] = label]
At(t, label) == pc[t] = label /\ tx[t] # "aborted"

\* singleCounter or perCoreCounters[i % CORES]
counter_of(t) == IF mode = "SINGLE_COUNTER" THEN 1 ELSE (t % CORES) + 1

\* Faulty variant of locker_of: every thread gets a copy of the lock.
CopiedLock(t) == own_lock((t % CORES) + 1)

\* The lock of a counter.
lock_of(c) == IF kind = "global" THEN globalLock ELSE own_lock(c)

locker_of(t) == lock_of(counter_of(t))

\* The kinds without a lock word.
Transactional == kind \in {"rtm", "unaligned_rtm"}

-----------------------------------------------------------------------------
(* run, run_unaligned *)

\* Faulty variant of test: the compiler keeps stop_run in a register.
TestOnce(t) ==
    /\ At(t, "test") /\ ops[t] < MaxOps
    /\ Goto(t, IF stop_run /\ ops[t] = 0 THEN "report" ELSE "enter")
    /\ UNCHANGED <<txVars, kind, mode, stop_run, operations_count, locals, results>>

\* while (!stop_run); a thread that has done MaxOps waits to be stopped.
test(t) ==
    /\ At(t, "test") /\ (stop_run \/ ops[t] < MaxOps)
    /\ Goto(t, IF stop_run THEN "report" ELSE "enter")
    /\ UNCHANGED <<txVars, kind, mode, stop_run, operations_count, locals, results>>

lock(t) ==
    /\ At(t, "enter") /\ ~Transactional
    /\ mem[locker_of(t)] = 0
    /\ Store(t, locker_of(t), 1)
    /\ Goto(t, "load")
    /\ UNCHANGED <<kind, mode, stop_run, operations_count, locals, results>>

\* The exchange that follows an aborted elision is not elided.  If it finds
\* the lock taken (1 is stored over 1, which no live transaction has read), the
\* loop of the lock function waits and comes back to xacquire.
busy(t) ==
    /\ At(t, "enter") /\ ~Transactional /\ failures[t] = 1
    /\ mem[locker_of(t)] = 1
    /\ failures' = [failures EXCEPT ![t] = 0]
    /\ UNCHANGED <<txVars, kind, mode, stop_run, operations_count, pc, reg, ops,
                   results>>

\* xacquire of a free lock; that of a taken one is aborted by _mm_pause and is
\* as if it had not begun.
elide(t) ==
    /\ At(t, "enter") /\ ~Transactional /\ failures[t] = 0
    /\ mem[locker_of(t)] = 0
    /\ Begin(t, {locker_of(t)})
    /\ Goto(t, "load")
    /\ UNCHANGED <<kind, mode, stop_run, operations_count, locals, results>>

xbegin(t) ==
    /\ At(t, "enter") /\ Transactional
    /\ Begin(t, {})
    /\ Goto(t, "load")
    /\ UNCHANGED <<kind, mode, stop_run, operations_count, locals, results>>

\* counter[0]++
load(t) ==
    /\ At(t, "load")
    /\ Load(t, counter_of(t))
    /\ reg' = [reg EXCEPT ![t] = Sees(t, counter_of(t))]
    /\ Goto(t, "store")
    /\ UNCHANGED <<kind, mode, stop_run, operations_count, failures, ops, results>>

store(t) ==
    /\ At(t, "store")
    /\ Store(t, counter_of(t), reg[t] + 1)
    /\ reg' = [reg EXCEPT ![t] = 0]
    /\ Goto(t, "leave")
    /\ UNCHANGED <<kind, mode, stop_run, operations_count, failures, ops, results>>

\* increment returns: ops++, and its locals are dead.
Counted(t) ==
    /\ ops' = [ops EXCEPT ![t] = @ + 1]
    /\ failures' = [failures EXCEPT ![t] = 0]
    /\ Goto(t, "test")

leave(t) ==
    /\ At(t, "leave")
    /\ IF xtest(t) THEN Commit(t) ELSE Store(t, locker_of(t), 0)
    /\ Counted(t)
    /\ UNCHANGED <<kind, mode, stop_run, operations_count, reg, results>>

\* Faulty variant of retry: the comparison is off by one.
RetryOnceMore(n) == n <= RTM_MAX_RETRIES

\* failures++ < RTM_MAX_RETRIES
retry(n) == n < RTM_MAX_RETRIES

\* After an abort an elided lock is taken; RtmCounter::increment tries again
\* or returns with a message and without having counted; rtm_lock always tries
\* again.
Aborted(t) ==
    /\ t # Main
    /\ Rollback(t)
    /\ reg' = [reg EXCEPT ![t] = 0]
    /\ IF kind # "rtm" \/ retry(failures[t])
       THEN /\ failures' = [failures EXCEPT ![t] =
                              CASE kind = "rtm" -> @ + 1
                                [] kind = "unaligned_rtm" -> @
                                [] OTHER -> 1]
            /\ Goto(t, "enter")
            /\ UNCHANGED <<ops, messages>>
       ELSE /\ Counted(t)
            /\ messages' = messages + 1
    /\ UNCHANGED <<kind, mode, stop_run, operations_count, got, actual, unread>>

\* operations_count[tid] = ops
report(t) ==
    /\ At(t, "report")
    /\ operations_count' = [operations_count EXCEPT ![t] = ops[t]]
    /\ Goto(t, "ended")
    /\ UNCHANGED <<txVars, kind, mode, stop_run, locals, results>>

-----------------------------------------------------------------------------
(* main *)

\* Starts the threads.
create ==
    /\ At(Main, "create")
    /\ pc' = [t \in Threads |-> IF t = Main THEN "reset" ELSE "test"]
    /\ UNCHANGED <<txVars, kind, mode, stop_run, operations_count, locals, results>>

\* After the warm-up.
reset ==
    /\ At(Main, "reset")
    /\ operations_count' = [w \in Workers |-> 0]
    /\ Goto(Main, "stop")
    /\ UNCHANGED <<txVars, kind, mode, stop_run, locals, results>>

\* After the duration.
stop ==
    /\ At(Main, "stop")
    /\ stop_run' = TRUE
    /\ Goto(Main, "join")
    /\ UNCHANGED <<txVars, kind, mode, operations_count, locals, results>>

join ==
    /\ At(Main, "join")
    /\ \A w \in Workers : pc[w] = "ended"
    /\ Goto(Main, "get")
    /\ UNCHANGED <<txVars, kind, mode, stop_run, operations_count, locals, results>>

\* The counters that are added up.
Used == IF mode = "SINGLE_COUNTER" THEN {1} ELSE Counters

Add(c, n) == actual' = actual + n /\ got' = got \cup {c}

\* get: under the lock of the counter (ThreadsafeCounter) or the global one
\* (GlobalThreadsafeCounter), in a transaction that commits (RtmCounter), or
\* the plain integer.  Main is the only thread left, so that it is one step,
\* which waits for a lock that a thread has left behind.
get(c) ==
    /\ At(Main, "get") /\ c \in Used \ got
    /\ kind \in {"own", "global"} => mem[lock_of(c)] = 0
    /\ Load(Main, c)
    /\ Add(c, mem[c])
    /\ failures' = [failures EXCEPT ![Main] = 0]
    /\ UNCHANGED <<kind, mode, stop_run, operations_count, pc, reg, ops, messages,
                   unread>>

\* RtmCounter::get was aborted; after the last retry it returns without a value.
get_aborted(c) ==
    /\ At(Main, "get") /\ c \in Used \ got /\ kind = "rtm"
    /\ IF retry(failures[Main])
       THEN /\ failures' = [failures EXCEPT ![Main] = @ + 1]
            /\ UNCHANGED <<got, actual, unread>>
       ELSE /\ \E n \in 0 .. 1 : Add(c, n)
            /\ failures' = [failures EXCEPT ![Main] = 0]
            /\ unread' = TRUE
    /\ UNCHANGED <<txVars, kind, mode, stop_run, operations_count, pc, reg, ops,
                   messages>>

check ==
    /\ At(Main, "get") /\ got = Used
    /\ Goto(Main, "done")
    /\ UNCHANGED <<txVars, kind, mode, stop_run, operations_count, locals, results>>

main ==
    \/ create \/ reset \/ stop \/ join \/ check
    \/ \E c \in Counters : get(c) \/ get_aborted(c)

run(t) ==
    \/ test(t) \/ lock(t) \/ busy(t) \/ elide(t) \/ xbegin(t) \/ load(t)
    \/ store(t) \/ leave(t) \/ Aborted(t) \/ report(t)

Next ==
    \/ main
    \/ \E t \in Workers :
         \/ run(t)
         \/ HardwareAbort(t)
              /\ UNCHANGED <<kind, mode, stop_run, operations_count, pc, locals,
                             results>>

Spec == Init /\ [][Next]_vars

\* Every thread is scheduled; nothing forces the processor to abort or not to.
FairSpec == Spec /\ WF_vars(main) /\ \A t \in Workers : WF_vars(run(t))

-----------------------------------------------------------------------------
(* Properties *)

total_operations == MapThenSumSet(LAMBDA w : operations_count[w], Workers)

\* What main prints after the join is right: the operations that the threads
\* report are the increments in the counters and those that were given up
\* with a message.  The reset of the warm-up must have been overwritten for
\* that, because the counters are not reset.
NothingLostSilently ==
    pc[Main] = "done" /\ ~unread => total_operations = actual + messages

\* A thread that waits for its lock or gave up a transaction does not keep main
\* from joining it, nor a lock that is left behind main from reading a counter:
\* the benchmark ends.  Only with rtm_lock, whose loop has neither a bound nor a
\* fallback, it may not, if the processor aborts some thread for ever.
MainEnds ==
    \/ <>(pc[Main] = "done")
    \/ kind = "unaligned_rtm" /\ \E w \in Workers : []<>(tx[w] = "aborted")

=============================================================================

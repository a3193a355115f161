--------------------------- MODULE LockFunctions ---------------------------
(***************************************************************************)
(* The lock functions of hle/lock_functions and the RTM functions of the   *)
(* InnoDB variants (myrtm.cc), as a thread executes them on one mutex.  A  *)
(* client calls a lock function from "idle", runs its section from         *)
(* "section" on, and calls the matching unlock function from "unlock".     *)
(*                                                                         *)
(* The TAS, asm, atomic-HLE and no-load twins of a function differ from it *)
(* in the instruction encoding only and share its model.  mutex_enter_func *)
(* as a fallback is its test-and-set and its spin; the sleeping is in      *)
(* IbMutex.                                                                *)
(***************************************************************************)
EXTENDS Tsx

CONSTANTS
    Mutex,          \* the lock word
    LockFuncs,      \* the lock functions the threads use
    MaxRetries      \* bound: max_retries (10, 10000000), failures_max (1000)

Atomic == {"atomic_exch_lock_busy", "atomic_exch_lock_spec"}
Hle == {"hle_exch_lock_busy", "hle_exch_lock_spec",
        "hle_exch_lock_spec_checked"}
Rtm == {"rtm_lock", "rtm_lock_smart", "rtm_lock_syslock", "rtm_lock_trx"}
Busy == {"atomic_exch_lock_busy", "hle_exch_lock_busy"}

ASSUME LockAssumption ==
    /\ Mutex \in Loc
    /\ LockFuncs \subseteq Atomic \cup Hle \cup Rtm
    /\ MaxRetries \in Nat

VARIABLES
    pc,
    fn,         \* the lock function the thread called, or NoFunc
    failures    \* failed _xbegin of the current call

lockVars == <<txVars, pc, fn, failures>>

LockLabels == {"idle", "precheck", "acquire", "reacquire", "wait", "xbegin",
               "check", "xabort", "section", "unlock"}

NoFunc == "none"

LockInit ==
    /\ pc = [t \in Threads |-> "idle"]
    /\ fn = [t \in Threads |-> NoFunc]
    /\ failures = [t \in Threads |-> 0]

Goto(t, label) == pc' = [pc EXCEPT ![t] = label]

\* A thread whose transaction was aborted can only roll back.
At(t, label) == pc[t] = label /\ tx[t] # "aborted"

FirstStep(f) ==
    IF f = "hle_exch_lock_spec_checked" THEN "precheck"
    ELSE IF f \in Rtm THEN "xbegin" ELSE "acquire"

Call(t, f) ==
    /\ At(t, "idle")
    /\ fn' = [fn EXCEPT ![t] = f]
    /\ failures' = [failures EXCEPT ![t] = 0]
    /\ Goto(t, FirstStep(f))
    /\ UNCHANGED txVars

-----------------------------------------------------------------------------
(* Spin locks, with and without elision *)

\* hle_exch_lock_spec_checked waits for a free lock before its first attempt.
precheck(t) ==
    /\ At(t, "precheck")
    /\ Load(t, Mutex)
    /\ Goto(t, IF Sees(t, Mutex) = 1 THEN "precheck" ELSE "acquire")
    /\ UNCHANGED <<fn, failures>>

\* Faulty variant of exchange: the old value is ignored.
PlainReadThenTake(t) ==
    /\ At(t, "acquire") \/ At(t, "reacquire")
    /\ IF mem[Mutex] = 0
       THEN Store(t, Mutex, 1) /\ Goto(t, "section")
       ELSE Load(t, Mutex) /\ Goto(t, "section")
    /\ UNCHANGED <<fn, failures>>

\* A real xchg: every attempt of an atomic lock and of a fallback, the
\* attempt that follows an aborted elision, and one the processor declines
\* to elide.
exchange(t) ==
    /\ At(t, "acquire") \/ At(t, "reacquire")
    /\ Store(t, Mutex, 1)
    /\ Goto(t, IF mem[Mutex] = 0 THEN "section" ELSE "wait")
    /\ UNCHANGED <<fn, failures>>

\* Faulty variant of xacquire_exchange: no subscription.
ElideWithoutReadSet(t) ==
    /\ At(t, "acquire") /\ fn[t] \in Hle
    /\ Begin(t, {})
    /\ Goto(t, IF mem[Mutex] = 0 THEN "section" ELSE "wait")
    /\ UNCHANGED <<fn, failures>>

\* xacquire xchg: the lock word joins the read set and keeps its value in
\* memory; the thread itself sees 1 in it from now on.
xacquire_exchange(t) ==
    /\ At(t, "acquire") /\ fn[t] \in Hle
    /\ Begin(t, {Mutex})
    /\ Goto(t, IF mem[Mutex] = 0 THEN "section" ELSE "wait")
    /\ UNCHANGED <<fn, failures>>

\* _mm_pause aborts an elision.  Otherwise a busy lock tries again at once
\* and the others wait until they read a free lock word.
wait(t) ==
    /\ At(t, "wait")
    /\ \/ /\ xtest(t)
          /\ Abort({t}, NOBITS)
          /\ UNCHANGED <<mem, rset, wset, wbuf, pc>>
       \/ /\ ~xtest(t) /\ fn[t] \in Busy
          /\ Goto(t, "acquire")
          /\ UNCHANGED txVars
       \/ /\ ~xtest(t) /\ fn[t] \notin Busy
          /\ Load(t, Mutex)
          /\ Goto(t, IF mem[Mutex] = 1 THEN "wait" ELSE "acquire")
    /\ UNCHANGED <<fn, failures>>

-----------------------------------------------------------------------------
(* RTM locks *)

\* rtm_lock and the trx_lock_func-rtm variant enter the section at once; the
\* other two look at the mutex first.
xbegin(t) ==
    /\ At(t, "xbegin")
    /\ Begin(t, {})
    /\ Goto(t, IF fn[t] \in {"rtm_lock", "rtm_lock_trx"} THEN "section"
               ELSE "check")
    /\ UNCHANGED <<fn, failures>>

\* The syslock-rtm variant reads the lock word, which puts it in the read
\* set.  rtm_lock_smart tests the pointer, which is never null.
check(t) ==
    /\ At(t, "check")
    /\ \/ /\ fn[t] = "rtm_lock_syslock"
          /\ Load(t, Mutex)
          /\ Goto(t, IF Sees(t, Mutex) # 0 THEN "xabort" ELSE "section")
       \/ /\ fn[t] = "rtm_lock_smart"
          /\ Goto(t, "xabort")
          /\ UNCHANGED txVars
    /\ UNCHANGED <<fn, failures>>

xabort(t) ==
    /\ At(t, "xabort")
    /\ Abort({t}, XABORT)
    /\ UNCHANGED <<mem, rset, wset, wbuf, pc, fn, failures>>

\* Faulty variant of Retries: no bound.
RetryForever(t, c) == TRUE

\* Whether the loop around _xbegin tries again after status c: rtm_lock
\* always, rtm_lock_smart if one of the three low bits is set and retries
\* are left, the InnoDB variants while retries are left.
Retries(t, c) ==
    \/ fn[t] = "rtm_lock"
    \/ fn[t] = "rtm_lock_smart" /\ c % 8 > 0 /\ failures[t] < MaxRetries
    \/ fn[t] \in {"rtm_lock_syslock", "rtm_lock_trx"}
         /\ failures[t] < MaxRetries

\* Faulty variant of CountFailure: attempts are counted down.
CountDown(t, c) == failures[t] - 1

\* The counter after this attempt; && does not reach ++failures if no bit
\* is set.
CountFailure(t, c) ==
    IF \/ fn[t] \in {"rtm_lock_syslock", "rtm_lock_trx"}
       \/ fn[t] = "rtm_lock_smart" /\ c % 8 > 0
    THEN failures[t] + 1 ELSE failures[t]

\* Faulty variant of rollback: nothing is done for the aborted attempt, as
\* in if (_xbegin() == _XBEGIN_STARTED) {...} without an else.
NoElse(t) ==
    /\ Rollback(t)
    /\ Goto(t, "idle")
    /\ fn' = [fn EXCEPT ![t] = NoFunc]
    /\ failures' = [failures EXCEPT ![t] = 0]

\* After an abort an elided acquire is executed again without elision; the
\* RTM functions return to _xbegin or take the fallback lock.
rollback(t) ==
    /\ Rollback(t)
    /\ \/ /\ fn[t] \in Hle
          /\ Goto(t, "reacquire")
          /\ UNCHANGED failures
       \/ /\ fn[t] \in Rtm
          /\ failures' = [failures EXCEPT ![t] = CountFailure(t, code[t])]
          /\ Goto(t, IF Retries(t, code[t]) THEN "xbegin" ELSE "reacquire")
    /\ UNCHANGED fn

-----------------------------------------------------------------------------
\* atomic_exch_unlock stores 0, the xrelease store and _xend commit, and the
\* functions with a fallback ask _xtest which of the two applies.
unlock(t) ==
    /\ At(t, "unlock")
    /\ \/ xtest(t) /\ Commit(t)
       \/ ~xtest(t) /\ Store(t, Mutex, 0)
    /\ Goto(t, "idle")
    /\ fn' = [fn EXCEPT ![t] = NoFunc]
    /\ failures' = [failures EXCEPT ![t] = 0]

Acquiring(t) ==
    \/ precheck(t) \/ exchange(t) \/ xacquire_exchange(t) \/ wait(t)
    \/ xbegin(t) \/ check(t) \/ xabort(t)

ProcessorAbort(t) == HardwareAbort(t) /\ UNCHANGED <<pc, fn, failures>>

=============================================================================

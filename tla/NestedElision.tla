--------------------------- MODULE NestedElision ---------------------------
(***************************************************************************)
(* Nested mutexes in the HLE builds of InnoDB, where every mutex_enter is  *)
(* an elision.  A thread enters the mutexes of a latch path in order,      *)
(* updates the word the last one protects, and exits them in reverse.      *)
(*                                                                         *)
(* SmartAll selects ib_mutex_test_and_set: FALSE is the "all" variant,     *)
(* which elides a nested mutex too (the processor counts the nesting);     *)
(* TRUE is "smartall", which only reads the lock word of a nested mutex    *)
(* and always reports success.  Spinning is the loop of mutex_spin_wait;   *)
(* the wait array is in IbMutex.                                           *)
(***************************************************************************)
EXTENDS Tsx, Sequences, FiniteSetsExt

CONSTANTS
    Mutexes,
    Word,           \* data protected by the last mutex of every path
    Paths,          \* latch paths: sequences of different mutexes
    SmartAll,       \* build variant
    MaxOps          \* bound: paths per thread

ASSUME NestedAssumption ==
    /\ IsFiniteSet(Threads)
    /\ Loc = Mutexes \cup {Word}
    /\ Word \notin Mutexes
    /\ Paths \subseteq Seq(Mutexes)
    /\ \A p, q \in Paths : p # <<>> /\ p[Len(p)] = q[Len(q)]
    /\ \A p \in Paths : \A i, j \in DOMAIN p : p[i] = p[j] => i = j
    /\ SmartAll \in BOOLEAN
    /\ MaxOps \in Nat

VARIABLES
    pc,
    path,       \* the latch path of the current operation, <<>> if idle
    depth,      \* mutexes of the path entered so far
    base,       \* depth at which the current transaction began
    elided,     \* mutexes whose release the processor waits for
    reg,        \* Word loaded into a register
    ops         \* operations begun, per thread

progVars == <<path, depth, base, elided, reg, ops>>
vars == <<txVars, pc, progVars>>

Labels == {"idle", "enter", "retake", "spin", "load", "store", "exit"}

TypeOK ==
    /\ TsxTypeOK
    /\ pc \in [Threads -> Labels]
    /\ path \in [Threads -> Paths \cup {<<>>}]
    /\ depth \in [Threads -> Nat]
    /\ base \in [Threads -> Nat]
    /\ elided \in [Threads -> SUBSET Mutexes]
    /\ reg \in [Threads -> Int]
    /\ ops \in [Threads -> 0 .. MaxOps]

Init ==
    /\ TsxInit([l \in Loc |-> 0])
    /\ pc = [t \in Threads |-> "idle"]
    /\ path = [t \in Threads |-> <<>>]
    /\ depth = [t \in Threads |-> 0]
    /\ base = [t \in Threads |-> 0]
    /\ elided = [t \in Threads |-> {}]
    /\ reg = [t \in Threads |-> 0]
    /\ ops = [t \in Threads |-> 0]

Goto(t, label) == pc' = [pc EXCEPT ![t] = label]
At(t, label) == pc[t] = label /\ tx[t] # "aborted"

\* The mutex being entered, and the one to exit next.
Wanted(t) == path[t][depth[t] + 1]
Innermost(t) == path[t][depth[t]]

begin_op(t) ==
    /\ At(t, "idle") /\ ops[t] < MaxOps
    /\ \E p \in Paths : path' = [path EXCEPT ![t] = p]
    /\ ops' = [ops EXCEPT ![t] = @ + 1]
    /\ Goto(t, "enter")
    /\ UNCHANGED <<txVars, depth, base, elided, reg>>

-----------------------------------------------------------------------------
(* ib_mutex_test_and_set *)

\* The outcome of a test-and-set that saw value v in the lock word.
Enter(t, v) ==
    IF v = 0
    THEN /\ depth' = [depth EXCEPT ![t] = @ + 1]
         /\ Goto(t, IF depth[t] + 1 = Len(path[t]) THEN "load" ELSE "enter")
    ELSE Goto(t, "spin") /\ UNCHANGED depth

\* xacquire outside of a transaction starts one.
elide(t) ==
    /\ At(t, "enter") /\ ~xtest(t)
    /\ Begin(t, {Wanted(t)})
    /\ Enter(t, mem[Wanted(t)])
    /\ base' = [base EXCEPT ![t] = depth[t]]
    /\ elided' = [elided EXCEPT ![t] = {Wanted(t)}]
    /\ UNCHANGED <<path, reg, ops>>

\* An xchg without elision: the processor declines, or repeats the acquire
\* that began an aborted transaction.
take(t) ==
    /\ At(t, "enter") \/ At(t, "retake")
    /\ ~xtest(t)
    /\ Store(t, Wanted(t), 1)
    /\ Enter(t, mem[Wanted(t)])
    /\ UNCHANGED <<path, base, elided, reg, ops>>

\* What a nested acquire returns: the lock word it reads, or, in smartall,
\* 0 whatever the lock word holds.
Reported(t) == IF SmartAll THEN 0 ELSE Sees(t, Wanted(t))

\* Faulty variant of nested: reported free whatever the lock word holds.
ReportFree(t) ==
    /\ At(t, "enter") /\ xtest(t)
    /\ Load(t, Wanted(t))
    /\ Enter(t, 0)
    /\ UNCHANGED <<path, base, elided, reg, ops>>

\* Inside a transaction "all" elides the mutex, "smartall" only reads it.
nested(t) ==
    /\ At(t, "enter") /\ xtest(t)
    /\ Load(t, Wanted(t))
    /\ Enter(t, Reported(t))
    /\ elided' = IF SmartAll THEN elided
                 ELSE [elided EXCEPT ![t] = @ \cup {Wanted(t)}]
    /\ UNCHANGED <<path, base, reg, ops>>

ib_mutex_test_and_set(t) == elide(t) \/ take(t) \/ nested(t)

\* The pause in the spin loop aborts a transaction; outside of one the
\* thread tries again when it has read a free lock word.
mutex_spin_wait(t) ==
    /\ At(t, "spin")
    /\ \/ /\ xtest(t)
          /\ Abort({t}, NOBITS)
          /\ UNCHANGED <<mem, rset, wset, wbuf, pc>>
       \/ /\ ~xtest(t) /\ mem[Wanted(t)] = 0
          /\ Load(t, Wanted(t))
          /\ Goto(t, "enter")
    /\ UNCHANGED progVars

-----------------------------------------------------------------------------
(* The section of the last mutex, and mutex_exit_func *)

load(t) ==
    /\ At(t, "load")
    /\ Load(t, Word)
    /\ reg' = [reg EXCEPT ![t] = Sees(t, Word)]
    /\ Goto(t, "store")
    /\ UNCHANGED <<path, depth, base, elided, ops>>

store(t) ==
    /\ At(t, "store")
    /\ Store(t, Word, reg[t] + 1)
    /\ Goto(t, "exit")
    /\ UNCHANGED progVars

\* Faulty variant of mutex_reset_lock_word: the xrelease is lost.
ReleaseAlwaysStores(t) == Store(t, Innermost(t), 0) /\ UNCHANGED elided

\* The xrelease mov: the last elided mutex commits, an earlier one only
\* ends its nesting level, and of a mutex that is not elided it is a store.
mutex_reset_lock_word(t) ==
    LET m == Innermost(t) IN
    \/ /\ xtest(t) /\ m \in elided[t]
       /\ elided' = [elided EXCEPT ![t] = @ \ {m}]
       /\ IF elided[t] = {m} THEN Commit(t) ELSE UNCHANGED txVars
    \/ /\ ~(xtest(t) /\ m \in elided[t])
       /\ Store(t, m, 0)
       /\ UNCHANGED elided

mutex_exit_func(t) ==
    /\ At(t, "exit")
    /\ mutex_reset_lock_word(t)
    /\ depth' = [depth EXCEPT ![t] = @ - 1]
    /\ IF depth[t] = 1
       THEN /\ Goto(t, "idle")
            /\ path' = [path EXCEPT ![t] = <<>>]
            /\ reg' = [reg EXCEPT ![t] = 0]
       ELSE UNCHANGED <<pc, path, reg>>
    /\ base' = IF tx'[t] = "none" THEN [base EXCEPT ![t] = 0] ELSE base
    /\ UNCHANGED ops

-----------------------------------------------------------------------------
\* Faulty variant of ResumeDepth: off by one.
ResumeTooEarly(t) == base[t] - 1
\* Faulty variant of ResumeDepth: the path is started again.
ResumeAtOutermost(t) == 0

\* Back to the acquire that began the transaction, now without elision.
ResumeDepth(t) == base[t]

rollback(t) ==
    /\ Rollback(t)
    /\ depth' = [depth EXCEPT ![t] = ResumeDepth(t)]
    /\ base' = [base EXCEPT ![t] = 0]
    /\ elided' = [elided EXCEPT ![t] = {}]
    /\ reg' = [reg EXCEPT ![t] = 0]
    /\ Goto(t, "retake")
    /\ UNCHANGED <<path, ops>>

ProcessorAbort(t) == HardwareAbort(t) /\ UNCHANGED <<pc, progVars>>

Work(t) ==
    \/ ib_mutex_test_and_set(t) \/ mutex_spin_wait(t)
    \/ load(t) \/ store(t) \/ mutex_exit_func(t) \/ rollback(t)

Next == \E t \in Threads : begin_op(t) \/ Work(t) \/ ProcessorAbort(t)

Spec == Init /\ [][Next]_vars

\* A thread that can run is run.
FairSpec == Spec /\ \A t \in Threads : WF_vars(Work(t))

-----------------------------------------------------------------------------
\* Mutexes that t has entered with a real xchg, and those it has entered
\* inside a live transaction.
Positions(t, lo, hi) == {path[t][k] : k \in lo + 1 .. hi}
Held(t) == Positions(t, 0, IF tx[t] = "none" THEN depth[t] ELSE base[t])
InTx(t) == IF xtest(t) THEN Positions(t, base[t], depth[t]) ELSE {}

(***************************************************************************)
(* A mutex entered with a real xchg is not entered by anybody else,        *)
(* elided or not, until it is exited.                                      *)
(***************************************************************************)
HolderExcludes ==
    \A t, u \in Threads : t # u => Held(t) \cap (Held(u) \cup InTx(u)) = {}

(***************************************************************************)
(* A held mutex is marked in memory: nobody else's release clears it.      *)
(***************************************************************************)
HeldIsMarked == \A t \in Threads : \A m \in Held(t) : mem[m] = 1

(***************************************************************************)
(* Once everybody is done, every update made under the last mutex counts.  *)
(***************************************************************************)
UpdatesCount ==
    (\A t \in Threads : pc[t] = "idle") =>
        mem[Word] = MapThenSumSet(LAMBDA t : ops[t], Threads)

(***************************************************************************)
(* Nesting never makes the threads wait for each other for ever: a thread  *)
(* that started a path finishes it.                                        *)
(***************************************************************************)
PathsEnd == \A t \in Threads : pc[t] # "idle" ~> pc[t] = "idle"

=============================================================================

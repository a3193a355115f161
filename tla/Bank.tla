-------------------------------- MODULE Bank --------------------------------
(***************************************************************************)
(* The bank of hle/bank with one global mutex (run_mix_rtm): each thread   *)
(* picks an operation and a lock function for it, locks, withdraws from    *)
(* one account and deposits into another or reads a balance, and unlocks.  *)
(***************************************************************************)
EXTENDS LockFunctions, FiniteSets, FiniteSetsExt

CONSTANTS
    Accounts,
    Money,          \* amounts of a transfer
    Initial,        \* ACCOUNT_INITIAL
    MaxOps          \* bound: operations per thread (stop_run ends the loop)

ASSUME BankAssumption ==
    /\ Loc = Accounts \cup {Mutex}
    /\ Mutex \notin Accounts
    /\ Accounts # {} /\ IsFiniteSet(Accounts)
    /\ Money \subseteq Int
    /\ Money # {}
    /\ Initial \in Int
    /\ MaxOps \in Nat

VARIABLES
    job,        \* the operation: [op, a1, a2, money]
    reg,        \* the balance loaded into a register
    ops         \* operations started

vars == <<txVars, pc, fn, failures, job, reg, ops>>

Jobs == [op : {"transfer", "read"}, a1 : Accounts, a2 : Accounts,
         money : Money]

\* The content of the locals between two operations does not matter.
NoJob == CHOOSE j \in Jobs : TRUE

Labels == LockLabels \cup {"withdraw", "deposit_load", "deposit"}

TypeOK ==
    /\ TsxTypeOK
    /\ pc \in [Threads -> Labels]
    /\ fn \in [Threads -> LockFuncs \cup {NoFunc}]
    /\ failures \in [Threads -> Nat]
    /\ job \in [Threads -> Jobs]
    /\ reg \in [Threads -> Int]
    /\ ops \in [Threads -> Nat]

Init ==
    /\ TsxInit([l \in Loc |-> IF l = Mutex THEN 0 ELSE Initial])
    /\ LockInit
    /\ job = [t \in Threads |-> NoJob]
    /\ reg = [t \in Threads |-> 0]
    /\ ops = [t \in Threads |-> 0]

\* Chooses the operation, the accounts, the money and the lock function.
\* A read uses one account.
start_op(t) ==
    /\ ops[t] < MaxOps
    /\ ops' = [ops EXCEPT ![t] = @ + 1]
    /\ \E j \in Jobs :
         /\ j.op = "read" => j.a1 = j.a2
         /\ job' = [job EXCEPT ![t] = j]
    /\ \E f \in LockFuncs : Call(t, f)
    /\ UNCHANGED reg

\* Account::withdraw and Account::getBalance begin with a load of a1.
load_balance(t) ==
    /\ At(t, "section")
    /\ Load(t, job[t].a1)
    /\ reg' = [reg EXCEPT ![t] = Sees(t, job[t].a1)]
    /\ Goto(t, IF job[t].op = "transfer" THEN "withdraw" ELSE "unlock")
    /\ UNCHANGED <<fn, failures, job, ops>>

withdraw(t) ==
    /\ At(t, "withdraw")
    /\ Store(t, job[t].a1, reg[t] - job[t].money)
    /\ Goto(t, "deposit_load")
    /\ UNCHANGED <<fn, failures, job, reg, ops>>

deposit_load(t) ==
    /\ At(t, "deposit_load")
    /\ Load(t, job[t].a2)
    /\ reg' = [reg EXCEPT ![t] = Sees(t, job[t].a2)]
    /\ Goto(t, "deposit")
    /\ UNCHANGED <<fn, failures, job, ops>>

deposit(t) ==
    /\ At(t, "deposit")
    /\ Store(t, job[t].a2, reg[t] + job[t].money)
    /\ Goto(t, "unlock")
    /\ UNCHANGED <<fn, failures, job, reg, ops>>

Section(t) == load_balance(t) \/ withdraw(t) \/ deposit_load(t) \/ deposit(t)

Locking(t) == Acquiring(t) /\ UNCHANGED <<job, reg, ops>>

\* The unlock function, after which the locals of the loop body are dead.
end_op(t) ==
    /\ unlock(t)
    /\ job' = [job EXCEPT ![t] = NoJob]
    /\ reg' = [reg EXCEPT ![t] = 0]
    /\ UNCHANGED ops

\* A rollback restores the registers.
Recover(t) ==
    /\ rollback(t)
    /\ reg' = [reg EXCEPT ![t] = 0]
    /\ UNCHANGED <<job, ops>>

Hardware(t) == ProcessorAbort(t) /\ UNCHANGED <<job, reg, ops>>

Work(t) == Section(t) \/ Locking(t) \/ end_op(t) \/ Recover(t)

Next == \E t \in Threads : start_op(t) \/ Work(t) \/ Hardware(t)

Spec == Init /\ [][Next]_vars

\* A runnable thread is scheduled; nothing forces the processor to abort.
Fairness == \A t \in Threads : WF_vars(Work(t))

FairSpec == Spec /\ Fairness

-----------------------------------------------------------------------------
SectionLabels == {"section", "withdraw", "deposit_load", "deposit", "unlock"}

\* Inside the section without a transaction, that is with the lock word set,
\* and inside it with a live transaction.
InLocked(t) == pc[t] \in SectionLabels /\ tx[t] = "none"
InTx(t) == pc[t] \in SectionLabels /\ xtest(t)

\* A locked transfer that has withdrawn and not yet deposited.
Halfway(t) == InLocked(t) /\ pc[t] \in {"deposit_load", "deposit"}

\* The balances with the transfer under way undone.
Balance ==
    [a \in Accounts |->
       IF \E t \in Threads : Halfway(t) /\ job[t].a1 = a
       THEN mem[a] + job[CHOOSE t \in Threads : Halfway(t)].money
       ELSE mem[a]]

(***************************************************************************)
(* Isolation: a thread that holds the lock word is alone in the section,   *)
(* in spite of the transactions that run without setting it.               *)
(***************************************************************************)
LockExcludesTransactions ==
    \A t, u \in Threads :
        InLocked(t) /\ (InLocked(u) \/ InTx(u)) => t = u

(***************************************************************************)
(* getBalance returns a balance that was committed: a live reader about to *)
(* unlock has read what the account holds once half-done transfers are     *)
(* undone.                                                                 *)
(***************************************************************************)
ReadsCommitted ==
    \A t \in Threads :
        pc[t] = "unlock" /\ job[t].op = "read" /\ tx[t] # "aborted"
            => reg[t] = Balance[job[t].a1]

(***************************************************************************)
(* checkResult after the threads were joined: the overall balance is what  *)
(* it was in the beginning.                                                *)
(***************************************************************************)
checkResult ==
    (\A t \in Threads : pc[t] = "idle") =>
        MapThenSumSet(LAMBDA a : mem[a], Accounts)
            = Initial * Cardinality(Accounts)

\* A locked transfer is done with the store of its deposit, every other
\* operation with its unlock function.
Done(t) == pc[t] = "unlock" /\ tx[t] = "none" /\ job[t].op = "transfer"

Pending ==
    [t \in Threads |->
       IF pc[t] = "idle" \/ Done(t) THEN <<>> ELSE <<job[t]>>]

(***************************************************************************)
(* Every transfer a thread calls happens as a whole and once before the    *)
(* thread goes on, however often its section is aborted and run again: the *)
(* bank implements AtomicBank.                                             *)
(***************************************************************************)
Abstract == INSTANCE AtomicBank WITH balance <- Balance, pending <- Pending
AtomicTransfers == Abstract!Spec

(***************************************************************************)
(* A retry loop ends: a lock function that was called returns, and its     *)
(* section is left, in spite of aborts, because every retry loop with a    *)
(* bound falls back to the lock.                                           *)
(***************************************************************************)
OperationsEnd == \A t \in Threads : pc[t] # "idle" ~> pc[t] = "idle"

=============================================================================

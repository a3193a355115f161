----------------------------- MODULE BankProofs -----------------------------
(***************************************************************************)
(* Proofs about Bank for any threads, accounts and bounds.  The isolation  *)
(* of a lock holder is proved for every mixture of the lock functions that *)
(* put the lock word into the read set of their transaction, or never      *)
(* enter the section with one.                                             *)
(***************************************************************************)
EXTENDS Bank, SharedLemmas

Subscribing == Atomic \cup Hle \cup {"rtm_lock_smart", "rtm_lock_syslock"}

-----------------------------------------------------------------------------
\* The types of the variables of the program proper.
ProgramTypeOK ==
    /\ pc \in [Threads -> Labels]
    /\ fn \in [Threads -> LockFuncs \cup {NoFunc}]
    /\ failures \in [Threads -> Nat]
    /\ job \in [Threads -> Jobs]
    /\ reg \in [Threads -> Int]
    /\ ops \in [Threads -> Nat]

\* The value of a finished job is a job.
LEMMA NoJobType == NoJob \in Jobs
<1>1. PICK a \in Accounts, m \in Money : TRUE
  BY BankAssumption
<1>2. [op |-> "read", a1 |-> a, a2 |-> a, money |-> m] \in Jobs
  BY <1>1 DEF Jobs
<1> QED
  BY <1>2 DEF NoJob

\* The account words and amounts of a job; accounts are no lock words.
LEMMA JobType ==
    ASSUME TypeOK, NEW t \in Threads
    PROVE  /\ job[t].a1 \in Accounts /\ job[t].a2 \in Accounts
           /\ job[t].a1 \in Loc /\ job[t].a2 \in Loc
           /\ job[t].money \in Int
BY BankAssumption DEF TypeOK, Jobs

\* Every variable keeps its type, whichever lock functions are used.
THEOREM TypeCorrect == Spec => []TypeOK
<1> USE BankAssumption, LockAssumption
    DEF ProgramTypeOK, Labels, LockLabels, txVars
<1>1. Init => TypeOK
  BY NoJobType DEF TypeOK, TsxTypeOK, AbortCodes, Init, TsxInit, LockInit
<1>2. TypeOK /\ [Next]_vars => TypeOK'
  <2> SUFFICES ASSUME TypeOK, [Next]_vars PROVE TypeOK'
    OBVIOUS
  <2>0. TsxTypeOK /\ ProgramTypeOK
    BY DEF TypeOK
  <2> SUFFICES TsxTypeOK' /\ ProgramTypeOK'
    BY DEF TypeOK
  <2>a. XABORT \in AbortCodes /\ CONFLICT \in AbortCodes
          /\ NOBITS \in AbortCodes
    BY DEF AbortCodes
  <2>1. ASSUME NEW t \in Threads, start_op(t)
        PROVE TsxTypeOK' /\ ProgramTypeOK'
    <3>1. TsxTypeOK'
      BY <2>0, <2>1 DEF start_op, Call, TsxTypeOK
    <3>2. ProgramTypeOK'
      BY <2>0, <2>1 DEF start_op, Call, Goto, FirstStep
    <3> QED
      BY <3>1, <3>2
  <2>2. ASSUME NEW t \in Threads, Section(t)
        PROVE TsxTypeOK' /\ ProgramTypeOK'
    <3>1. CASE load_balance(t)
      BY <2>0, <3>1, JobType, LoadType DEF load_balance, Goto
    <3>2. CASE withdraw(t)
      <4>1. reg[t] - job[t].money \in Int
        BY <2>0, JobType
      <4> QED
        BY <2>0, <3>2, <4>1, JobType, StoreType DEF withdraw, Goto
    <3>3. CASE deposit_load(t)
      BY <2>0, <3>3, JobType, LoadType DEF deposit_load, Goto
    <3>4. CASE deposit(t)
      <4>1. reg[t] + job[t].money \in Int
        BY <2>0, JobType
      <4> QED
        BY <2>0, <3>4, <4>1, JobType, StoreType DEF deposit, Goto
    <3> QED
      BY <2>2, <3>1, <3>2, <3>3, <3>4 DEF Section
  <2>3. ASSUME NEW t \in Threads, Locking(t)
        PROVE TsxTypeOK' /\ ProgramTypeOK'
    <3>0. UNCHANGED <<job, reg, ops>>
      BY <2>3 DEF Locking
    <3>1. CASE precheck(t)
      BY <2>0, <3>0, <3>1, LoadType DEF precheck, Goto
    <3>2. CASE exchange(t)
      BY <2>0, <3>0, <3>2, StoreType DEF exchange, Goto
    <3>3. CASE xacquire_exchange(t)
      BY <2>0, <3>0, <3>3, BeginType DEF xacquire_exchange, Goto
    <3>4. CASE wait(t)
      <4>1. CASE UNCHANGED txVars /\ Goto(t, "acquire")
        BY <2>0, <3>0, <3>4, <4>1 DEF wait, Goto, TsxTypeOK
      <4>2. CASE Load(t, Mutex)
        BY <2>0, <3>0, <3>4, <4>2, LoadType DEF wait, Goto
      <4>3. CASE Abort({t}, NOBITS) /\ UNCHANGED <<mem, rset, wset, wbuf, pc>>
        BY <2>0, <2>a, <3>0, <3>4, <4>3, SelfAbortType DEF wait
      <4> QED
        BY <3>4, <4>1, <4>2, <4>3 DEF wait
    <3>5. CASE xbegin(t)
      BY <2>0, <3>0, <3>5, BeginType DEF xbegin, Goto
    <3>6. CASE check(t)
      <4>1. TsxTypeOK'
        BY <2>0, <3>6, LoadType DEF check, TsxTypeOK
      <4> QED
        BY <2>0, <3>0, <3>6, <4>1 DEF check, Goto
    <3>7. CASE xabort(t)
      BY <2>0, <2>a, <3>0, <3>7, SelfAbortType DEF xabort
    <3> QED
      BY <2>3, <3>1, <3>2, <3>3, <3>4, <3>5, <3>6, <3>7
         DEF Locking, Acquiring
  <2>4. ASSUME NEW t \in Threads, end_op(t)
        PROVE TsxTypeOK' /\ ProgramTypeOK'
    <3>1. TsxTypeOK'
      BY <2>0, <2>4, CommitType, StoreType DEF end_op, unlock
    <3>2. ProgramTypeOK'
      BY <2>0, <2>4, NoJobType DEF end_op, unlock, Goto
    <3> QED
      BY <3>1, <3>2
  <2>5. ASSUME NEW t \in Threads, Recover(t)
        PROVE TsxTypeOK' /\ ProgramTypeOK'
    <3>1. TsxTypeOK'
      BY <2>0, <2>5, RollbackType DEF Recover, rollback
    <3>2. failures[t] \in Nat /\ CountFailure(t, code[t]) \in Nat
      BY <2>0 DEF CountFailure
    <3>3. ProgramTypeOK'
      BY <2>0, <2>5, <3>2 DEF Recover, rollback, Goto
    <3> QED
      BY <3>1, <3>3
  <2>6. ASSUME NEW t \in Threads, Hardware(t)
        PROVE TsxTypeOK' /\ ProgramTypeOK'
    <3>1. TsxTypeOK'
      BY <2>0, <2>6, <2>a, SelfAbortType
         DEF Hardware, ProcessorAbort, HardwareAbort
    <3>2. ProgramTypeOK'
      BY <2>0, <2>6 DEF Hardware, ProcessorAbort
    <3> QED
      BY <3>1, <3>2
  <2>7. CASE UNCHANGED vars
    BY <2>0, <2>7 DEF vars, TsxTypeOK
  <2> QED
    BY <2>1, <2>2, <2>3, <2>4, <2>5, <2>6, <2>7 DEF Next, Work
<1> QED
  BY <1>1, <1>2, PTL DEF Spec

-----------------------------------------------------------------------------
(***************************************************************************)
(* Isolation.  A transaction in the section has the lock word in its read  *)
(* set and the word is 0; a holder has set it to 1.  Setting the word is a *)
(* store outside any transaction, so it aborts every transaction that      *)
(* subscribed; a function that subscribes later finds the word set.        *)
(***************************************************************************)
NoTxLabels == {"idle", "precheck", "acquire", "reacquire", "xbegin"}

IsolationInv ==
    /\ mem[Mutex] \in {0, 1}
    /\ \A t \in Threads : Mutex \notin wset[t]
    /\ \A t \in Threads : pc[t] \in NoTxLabels => tx[t] = "none"
    /\ \A t \in Threads : pc[t] \in {"check", "xabort"} => tx[t] # "none"
    /\ \A t \in Threads : InTx(t) => Mutex \in rset[t] /\ mem[Mutex] = 0
    /\ \A t \in Threads : InLocked(t) => mem[Mutex] = 1
    /\ \A t, u \in Threads : InLocked(t) /\ InLocked(u) => t = u

\* Steps that keep the lock word and move t inside its section.
LEMMA SectionStep ==
    ASSUME TypeOK, IsolationInv, NEW t \in Threads,
           pc[t] \in SectionLabels, tx[t] # "aborted",
           NEW label \in SectionLabels, Goto(t, label),
           OnlyAborts(t), mem'[Mutex] = mem[Mutex],
           \A u \in Threads : rset[u] \subseteq rset'[u],
           \A u \in Threads : Mutex \notin wset'[u]
    PROVE  IsolationInv'
BY DEF TypeOK, TsxTypeOK, IsolationInv, NoTxLabels, InTx, InLocked,
       SectionLabels, Goto, OnlyAborts, xtest

\* Setting the lock word: the transactions that subscribed to it are aborted,
\* and t is the holder if the word was free.
LEMMA TakeStep ==
    ASSUME TypeOK, IsolationInv, NEW t \in Threads, pc[t] \in NoTxLabels,
           tx[t] = "none", Store(t, Mutex, 1),
           Goto(t, IF mem[Mutex] = 0 THEN "section" ELSE "wait")
    PROVE  IsolationInv'
<1> DEFINE label == IF mem[Mutex] = 0 THEN "section" ELSE "wait"
<1>1. /\ OnlyAborts(t) /\ rset' = rset /\ wset' = wset /\ mem'[Mutex] = 1
      /\ \A u \in Threads \ {t} : Mutex \in rset[u] => tx'[u] # "active"
  BY LockAssumption, StoreEffect DEF TypeOK, xtest
<1>2. \A u \in Threads : pc'[u] = IF u = t THEN label ELSE pc[u]
  BY DEF Goto, TypeOK
<1>3. tx'[t] = "none"
  BY <1>1 DEF OnlyAborts
<1>4. \A u \in Threads : ~InTx(u)'
  BY <1>1, <1>2, <1>3 DEF IsolationInv, InTx, OnlyAborts, xtest
<1>5. \A u \in Threads : InLocked(u)' => (u = t /\ mem[Mutex] = 0) \/ InLocked(u)
  BY <1>1, <1>2 DEF IsolationInv, InLocked, OnlyAborts, SectionLabels
<1>6. \A u, v \in Threads : InLocked(u)' /\ InLocked(v)' => u = v
  <2>1. CASE mem[Mutex] = 0
    BY <1>5, <2>1 DEF IsolationInv
  <2>2. CASE mem[Mutex] # 0
    BY <1>5, <2>2 DEF IsolationInv
  <2> QED
    BY <2>1, <2>2
<1>7. \A u \in Threads : pc'[u] \in NoTxLabels => tx'[u] = "none"
  BY <1>1, <1>2 DEF IsolationInv, OnlyAborts, NoTxLabels
<1>8. \A u \in Threads : pc'[u] \in {"check", "xabort"} => tx'[u] # "none"
  BY <1>1, <1>2 DEF IsolationInv, OnlyAborts
<1> QED
  BY <1>1, <1>4, <1>6, <1>7, <1>8 DEF IsolationInv

\* Eliding the acquire: t enters the section with the word in its read set.
LEMMA ElideStep ==
    ASSUME TypeOK, IsolationInv, NEW t \in Threads, pc[t] = "acquire",
           tx[t] = "none", Begin(t, {Mutex}),
           Goto(t, IF mem[Mutex] = 0 THEN "section" ELSE "wait")
    PROVE  IsolationInv'
<1> DEFINE label == IF mem[Mutex] = 0 THEN "section" ELSE "wait"
<1>1. /\ mem' = mem /\ wset' = wset
      /\ \A u \in Threads : rset'[u] = IF u = t THEN {Mutex} ELSE rset[u]
      /\ \A u \in Threads : tx'[u] = IF u = t THEN "active" ELSE tx[u]
  BY DEF Begin, TypeOK, TsxTypeOK, IsolationInv
<1>2. \A u \in Threads : pc'[u] = IF u = t THEN label ELSE pc[u]
  BY DEF Goto, TypeOK
<1>3. \A u \in Threads : InTx(u)' => Mutex \in rset'[u] /\ mem'[Mutex] = 0
  BY <1>1, <1>2 DEF IsolationInv, InTx, SectionLabels, xtest
<1>4. \A u \in Threads : InLocked(u)' => InLocked(u)
  BY <1>1, <1>2 DEF InLocked
<1>5. \A u \in Threads : pc'[u] \in NoTxLabels => tx'[u] = "none"
  BY <1>1, <1>2 DEF IsolationInv, NoTxLabels
<1>6. \A u \in Threads : pc'[u] \in {"check", "xabort"} => tx'[u] # "none"
  BY <1>1, <1>2 DEF IsolationInv
<1> QED
  BY <1>1, <1>3, <1>4, <1>5, <1>6 DEF IsolationInv

\* A load of the lock word before the section: t stays outside it, or enters
\* it with the free word in the read set of its transaction.
LEMMA LookStep ==
    ASSUME TypeOK, IsolationInv, NEW t \in Threads,
           pc[t] \in {"precheck", "wait", "check"}, tx[t] # "aborted",
           Load(t, Mutex),
           NEW label, Goto(t, label),
           \/ tx[t] = "none" /\ label \in {"precheck", "wait", "acquire"}
           \/ tx[t] = "active" /\ label = "xabort"
           \/ tx[t] = "active" /\ label = "section" /\ mem[Mutex] = 0
    PROVE  IsolationInv'
<1>1. /\ OnlyAborts(t) /\ mem' = mem /\ wset' = wset
      /\ \A u \in Threads : rset[u] \subseteq rset'[u]
      /\ tx[t] = "active" => Mutex \in rset'[t]
  BY LockAssumption, LoadEffect DEF TypeOK, xtest
<1>2. \A u \in Threads : pc'[u] = IF u = t THEN label ELSE pc[u]
  BY DEF Goto, TypeOK
<1>3. \A u \in Threads : InTx(u)' => Mutex \in rset'[u] /\ mem'[Mutex] = 0
  <2> SUFFICES ASSUME NEW u \in Threads, InTx(u)'
               PROVE  Mutex \in rset'[u] /\ mem'[Mutex] = 0
    OBVIOUS
  <2>1. CASE u = t
    BY <1>1, <1>2, <2>1 DEF InTx, OnlyAborts, SectionLabels, xtest
  <2>2. CASE u # t
    BY <1>1, <1>2, <2>2 DEF IsolationInv, InTx, OnlyAborts, xtest
  <2> QED
    BY <2>1, <2>2
<1>4. \A u \in Threads : InLocked(u)' => InLocked(u)
  BY <1>1, <1>2 DEF InLocked, OnlyAborts, SectionLabels
<1>5. \A u \in Threads : pc'[u] \in NoTxLabels => tx'[u] = "none"
  BY <1>1, <1>2 DEF IsolationInv, NoTxLabels, OnlyAborts
<1>6. \A u \in Threads : pc'[u] \in {"check", "xabort"} => tx'[u] # "none"
  BY <1>1, <1>2 DEF IsolationInv, OnlyAborts
<1> QED
  BY <1>1, <1>3, <1>4, <1>5, <1>6 DEF IsolationInv

\* The holder clears the lock word; no transaction is in the section then.
LEMMA ReleaseStep ==
    ASSUME TypeOK, IsolationInv, NEW t \in Threads, pc[t] = "unlock",
           tx[t] = "none", Store(t, Mutex, 0), Goto(t, "idle")
    PROVE  IsolationInv'
<1>1. /\ OnlyAborts(t) /\ rset' = rset /\ wset' = wset /\ mem'[Mutex] = 0
  BY LockAssumption, StoreEffect DEF TypeOK, xtest
<1>2. \A u \in Threads : pc'[u] = IF u = t THEN "idle" ELSE pc[u]
  BY DEF Goto, TypeOK
<1>3. InLocked(t) /\ mem[Mutex] = 1
  BY DEF IsolationInv, InLocked, SectionLabels
<1>4. \A u \in Threads : ~InTx(u)'
  BY <1>1, <1>2, <1>3 DEF IsolationInv, InTx, OnlyAborts, SectionLabels, xtest
<1>5. \A u \in Threads : ~InLocked(u)'
  BY <1>1, <1>2, <1>3 DEF IsolationInv, InLocked, OnlyAborts, SectionLabels
<1>6. \A u \in Threads : pc'[u] \in NoTxLabels => tx'[u] = "none"
  BY <1>1, <1>2 DEF IsolationInv, NoTxLabels, OnlyAborts
<1>7. \A u \in Threads : pc'[u] \in {"check", "xabort"} => tx'[u] # "none"
  BY <1>1, <1>2 DEF IsolationInv, OnlyAborts
<1> QED
  BY <1>1, <1>4, <1>5, <1>6, <1>7 DEF IsolationInv

\* IsolationInv is inductive for the subscribing lock functions.
LEMMA IsolationInvariant ==
    ASSUME LockFuncs \subseteq Subscribing PROVE Spec => []IsolationInv
<1> USE BankAssumption, LockAssumption
<1>1. Init => IsolationInv
  BY DEF Init, TsxInit, LockInit, IsolationInv, NoTxLabels, InTx, InLocked,
         SectionLabels, xtest
<1>2. TypeOK /\ IsolationInv /\ [Next]_vars => IsolationInv'
  <2> SUFFICES ASSUME TypeOK, IsolationInv, [Next]_vars PROVE IsolationInv'
    OBVIOUS
  <2>0. TsxTypeOK
    BY DEF TypeOK
  <2>1. ASSUME NEW t \in Threads, start_op(t) PROVE IsolationInv'
    BY <2>1 DEF start_op, Call, At, FirstStep, Goto, txVars, TypeOK,
       IsolationInv, NoTxLabels, InTx, InLocked, SectionLabels, xtest
  <2>2. ASSUME NEW t \in Threads, Section(t) PROVE IsolationInv'
    <3>1. CASE load_balance(t)
      <4> DEFINE label == IF job[t].op = "transfer" THEN "withdraw"
                          ELSE "unlock"
      <4>1. /\ OnlyAborts(t) /\ mem' = mem /\ wset' = wset
            /\ \A u \in Threads : rset[u] \subseteq rset'[u]
        BY <2>0, <3>1, JobType, LoadEffect DEF load_balance
      <4>2. /\ pc[t] \in SectionLabels /\ tx[t] # "aborted"
            /\ label \in SectionLabels /\ Goto(t, label)
        BY <3>1 DEF load_balance, At, SectionLabels
      <4>3. \A u \in Threads : Mutex \notin wset'[u]
        BY <4>1 DEF IsolationInv
      <4> QED
        BY <4>1, <4>2, <4>3, SectionStep
    <3>2. CASE withdraw(t)
      <4>1. reg[t] - job[t].money \in Int
        BY JobType DEF TypeOK
      <4>2. /\ OnlyAborts(t) /\ rset' = rset
            /\ mem'[Mutex] = mem[Mutex]
            /\ \A u \in Threads : wset'[u] \subseteq wset[u] \cup {job[t].a1}
        BY <2>0, <3>2, <4>1, JobType, StoreEffect DEF withdraw
      <4>3. /\ pc[t] \in SectionLabels /\ tx[t] # "aborted"
            /\ "deposit_load" \in SectionLabels /\ Goto(t, "deposit_load")
        BY <3>2 DEF withdraw, At, SectionLabels
      <4>4. \A u \in Threads : Mutex \notin wset'[u]
        BY <4>2, JobType DEF IsolationInv
      <4> QED
        BY <4>2, <4>3, <4>4, SectionStep
    <3>3. CASE deposit_load(t)
      <4>1. /\ OnlyAborts(t) /\ mem' = mem /\ wset' = wset
            /\ \A u \in Threads : rset[u] \subseteq rset'[u]
        BY <2>0, <3>3, JobType, LoadEffect DEF deposit_load
      <4>2. /\ pc[t] \in SectionLabels /\ tx[t] # "aborted"
            /\ "deposit" \in SectionLabels /\ Goto(t, "deposit")
        BY <3>3 DEF deposit_load, At, SectionLabels
      <4>3. \A u \in Threads : Mutex \notin wset'[u]
        BY <4>1 DEF IsolationInv
      <4> QED
        BY <4>1, <4>2, <4>3, SectionStep
    <3>4. CASE deposit(t)
      <4>1. reg[t] + job[t].money \in Int
        BY JobType DEF TypeOK
      <4>2. /\ OnlyAborts(t) /\ rset' = rset
            /\ mem'[Mutex] = mem[Mutex]
            /\ \A u \in Threads : wset'[u] \subseteq wset[u] \cup {job[t].a2}
        BY <2>0, <3>4, <4>1, JobType, StoreEffect DEF deposit
      <4>3. /\ pc[t] \in SectionLabels /\ tx[t] # "aborted"
            /\ "unlock" \in SectionLabels /\ Goto(t, "unlock")
        BY <3>4 DEF deposit, At, SectionLabels
      <4>4. \A u \in Threads : Mutex \notin wset'[u]
        BY <4>2, JobType DEF IsolationInv
      <4> QED
        BY <4>2, <4>3, <4>4, SectionStep
    <3> QED
      BY <2>2, <3>1, <3>2, <3>3, <3>4 DEF Section
  <2>3. ASSUME NEW t \in Threads, Locking(t) PROVE IsolationInv'
    <3> USE DEF IsolationInv, NoTxLabels, InTx, InLocked, SectionLabels, At,
                Goto, TypeOK, TsxTypeOK, OnlyAborts, xtest
    <3>1. CASE precheck(t)
      <4>1. /\ pc[t] = "precheck" /\ tx[t] = "none" /\ Load(t, Mutex)
            /\ Goto(t, IF Sees(t, Mutex) = 1 THEN "precheck" ELSE "acquire")
        BY <3>1 DEF precheck
      <4> QED
        BY <4>1, LookStep
    <3>2. CASE exchange(t)
      BY <2>0, <3>2, TakeStep DEF exchange, At, NoTxLabels, IsolationInv
    <3>3. CASE xacquire_exchange(t)
      BY <3>3, ElideStep DEF xacquire_exchange, At, NoTxLabels, IsolationInv
    <3>4. CASE wait(t)
      <4>1. CASE UNCHANGED txVars /\ Goto(t, "acquire") /\ ~xtest(t)
        BY <3>4, <4>1 DEF wait, txVars
      <4>2. CASE Load(t, Mutex) /\ ~xtest(t) /\ fn[t] \notin Busy
        <5>1. /\ pc[t] = "wait" /\ tx[t] = "none"
              /\ Goto(t, IF mem[Mutex] = 1 THEN "wait" ELSE "acquire")
          BY <3>4, <4>2 DEF wait
        <5> QED
          BY <4>2, <5>1, LookStep
      <4>3. CASE Abort({t}, NOBITS) /\ UNCHANGED <<mem, rset, wset, wbuf, pc>>
        BY <3>4, <4>3 DEF wait, Abort
      <4> QED
        BY <3>4, <4>1, <4>2, <4>3 DEF wait
    <3>5. CASE xbegin(t)
      BY <3>5 DEF xbegin, Begin, Subscribing, Atomic, Hle, NoFunc
    <3>6. CASE check(t)
      <4>1. CASE fn[t] = "rtm_lock_syslock"
        <5>1. pc[t] = "check" /\ tx[t] = "active"
          BY <3>6 DEF check
        <5>2. Sees(t, Mutex) = mem[Mutex]
          BY <5>1 DEF Sees
        <5>3. /\ Load(t, Mutex)
              /\ Goto(t, IF mem[Mutex] # 0 THEN "xabort" ELSE "section")
          BY <3>6, <4>1, <5>2 DEF check
        <5> QED
          BY <5>1, <5>3, LookStep
      <4>2. CASE fn[t] = "rtm_lock_smart"
        <5>1. /\ pc[t] = "check" /\ tx[t] = "active"
              /\ mem' = mem /\ tx' = tx /\ rset' = rset /\ wset' = wset
              /\ Goto(t, "xabort")
          BY <3>6, <4>2 DEF check, txVars
        <5>2. /\ \A u \in Threads : InTx(u)' <=> InTx(u)
              /\ \A u \in Threads : InLocked(u)' <=> InLocked(u)
          BY <5>1
        <5> QED
          BY <5>1, <5>2
      <4> QED
        BY <3>6, <4>1, <4>2 DEF check
    <3>7. CASE xabort(t)
      BY <3>7 DEF xabort, Abort
    <3> QED
      BY <2>3, <3>1, <3>2, <3>3, <3>4, <3>5, <3>6, <3>7
         DEF Locking, Acquiring
  <2>4. ASSUME NEW t \in Threads, end_op(t) PROVE IsolationInv'
    <3> USE DEF IsolationInv, NoTxLabels, InTx, InLocked, SectionLabels, At,
                Goto, TypeOK, TsxTypeOK, OnlyAborts, xtest
    <3>1. CASE Commit(t)
      BY <2>4, <3>1 DEF end_op, unlock, Commit, Discard
    <3>2. CASE ~xtest(t) /\ Store(t, Mutex, 0)
      <4>1. pc[t] = "unlock" /\ tx[t] = "none" /\ Goto(t, "idle")
        BY <2>4, <3>2 DEF end_op, unlock
      <4> QED
        BY <3>2, <4>1, ReleaseStep
    <3> QED
      BY <2>4, <3>1, <3>2 DEF end_op, unlock
  <2>5. ASSUME NEW t \in Threads, Recover(t) PROVE IsolationInv'
    BY <2>5 DEF Recover, rollback, Rollback, Discard, Goto, TypeOK, TsxTypeOK,
       IsolationInv, NoTxLabels, InTx, InLocked, SectionLabels, xtest
  <2>6. ASSUME NEW t \in Threads, Hardware(t) PROVE IsolationInv'
    BY <2>6 DEF Hardware, ProcessorAbort, HardwareAbort, Abort, TypeOK,
       TsxTypeOK, IsolationInv, NoTxLabels, InTx, InLocked, SectionLabels,
       xtest
  <2>7. CASE UNCHANGED vars
    BY <2>7 DEF vars, txVars, IsolationInv, InTx, InLocked, xtest
  <2> QED
    BY <2>1, <2>2, <2>3, <2>4, <2>5, <2>6, <2>7 DEF Next, Work
<1> QED
  BY <1>1, <1>2, TypeCorrect, PTL DEF Spec

\* A thread that took the lock word, directly or as the fallback of a failed
\* elision, never shares the section with another holder or with a live
\* transaction, for every mixture of the subscribing lock functions.
THEOREM HolderIsAlone ==
    ASSUME LockFuncs \subseteq Subscribing
    PROVE  Spec => []LockExcludesTransactions
<1>1. IsolationInv => LockExcludesTransactions
  BY DEF IsolationInv, LockExcludesTransactions
<1> QED
  BY <1>1, IsolationInvariant, PTL

-----------------------------------------------------------------------------
(***************************************************************************)
(* Serializability.  A transaction in the section has in its read set what *)
(* it has loaded, and memory has not changed there; what it buffers is the *)
(* outcome of its transfer on the memory as it is, so that its commit is   *)
(* one atomic transfer.  A holder works on a memory nobody else changes.   *)
(***************************************************************************)

\* What an account of the job holds after the transfer.
After(t, a) ==
    mem[a] - (IF a = job[t].a1 THEN job[t].money ELSE 0)
           + (IF a = job[t].a2 THEN job[t].money ELSE 0)

TxData(t) ==
    LET a1 == job[t].a1  a2 == job[t].a2  money == job[t].money IN
    /\ pc[t] \in {"section", "withdraw"} => wset[t] = {}
    /\ pc[t] = "withdraw" => a1 \in rset[t] /\ reg[t] = mem[a1]
    /\ pc[t] \in {"deposit_load", "deposit"} =>
         a1 \in rset[t] /\ wset[t] = {a1} /\ wbuf[t][a1] = mem[a1] - money
    /\ pc[t] = "deposit" =>
         /\ a2 \in rset[t]
         /\ reg[t] = IF a1 = a2 THEN mem[a1] - money ELSE mem[a2]
    /\ pc[t] = "unlock" /\ job[t].op = "transfer" =>
         /\ {a1, a2} \subseteq rset[t] /\ wset[t] = {a1, a2}
         /\ wbuf[t][a1] = After(t, a1) /\ wbuf[t][a2] = After(t, a2)
    /\ pc[t] = "unlock" /\ job[t].op = "read" =>
         wset[t] = {} /\ a1 \in rset[t] /\ reg[t] = mem[a1]

LockedData(t) ==
    /\ pc[t] = "withdraw" => reg[t] = mem[job[t].a1]
    /\ pc[t] = "deposit" => reg[t] = mem[job[t].a2]
    /\ pc[t] = "unlock" /\ job[t].op = "read" => reg[t] = mem[job[t].a1]

ThreadData(t) ==
    /\ ~InTx(t) /\ tx[t] # "aborted" => wset[t] = {}
    /\ pc[t] \in {"withdraw", "deposit_load", "deposit"} =>
         job[t].op = "transfer"
    /\ InTx(t) => TxData(t)
    /\ InLocked(t) => LockedData(t)

DataInv == NoConflict /\ \A t \in Threads : ThreadData(t)

\* A step of t leaves the locals of the other threads alone.
OwnLocals(t) ==
    /\ OthersKept(t)
    /\ \A u \in Threads \ {t} :
         pc'[u] = pc[u] /\ job'[u] = job[u] /\ reg'[u] = reg[u]

\* What another thread knows of memory stays true if its words stay.
LEMMA DataOfOther ==
    ASSUME TypeOK, NEW t \in Threads, OwnLocals(t), NEW u \in Threads, u # t,
           ThreadData(u),
           InTx(u) => \A a \in rset[u] \cap Accounts : mem'[a] = mem[a],
           InLocked(u) => \A a \in Accounts : mem'[a] = mem[a]
    PROVE  ThreadData(u)'
<1>j. /\ job'[u] = job[u] /\ pc'[u] = pc[u] /\ reg'[u] = reg[u]
      /\ rset'[u] = rset[u] /\ wset'[u] = wset[u] /\ wbuf'[u] = wbuf[u]
      /\ tx'[u] = tx[u] \/ (tx[u] = "active" /\ tx'[u] = "aborted")
      /\ job[u].a1 \in Accounts /\ job[u].a2 \in Accounts
  BY JobType DEF OwnLocals, OthersKept
<1>1. InTx(u)' => InTx(u)
  BY <1>j DEF InTx, xtest
<1>2. InLocked(u)' <=> InLocked(u)
  BY <1>j DEF InLocked
<1>3. ASSUME InTx(u)' PROVE TxData(u)'
  <2>1. TxData(u) /\ \A a \in rset[u] \cap Accounts : mem'[a] = mem[a]
    BY <1>1, <1>3 DEF ThreadData
  <2>3. /\ pc[u] = "unlock" /\ job[u].op = "transfer" =>
             After(u, job[u].a1)' = After(u, job[u].a1)
             /\ After(u, job[u].a2)' = After(u, job[u].a2)
    BY <1>j, <2>1 DEF TxData, After
  <2> QED
    BY <1>j, <2>1, <2>3 DEF TxData
<1>4. ASSUME InLocked(u)' PROVE LockedData(u)'
  BY <1>j, <1>2, <1>4 DEF ThreadData, LockedData
<1>5. ~InTx(u)' /\ tx'[u] # "aborted" => wset'[u] = {}
  BY <1>j DEF ThreadData, InTx, xtest
<1>6. pc'[u] \in {"withdraw", "deposit_load", "deposit"} => job'[u].op = "transfer"
  BY <1>j DEF ThreadData
<1> QED
  BY <1>3, <1>4, <1>5, <1>6 DEF ThreadData

\* Who may write the accounts: nobody, the holder, who is alone, or a commit,
\* on words that no other live transaction has read.
MayWrite(t) ==
    \/ \A a \in Accounts : mem'[a] = mem[a]
    \/ InLocked(t)
    \/ xtest(t) /\ \A a \in Loc \ wset[t] : mem'[a] = mem[a]

LEMMA DataStep ==
    ASSUME TypeOK, IsolationInv, DataInv, NEW t \in Threads, OwnLocals(t),
           MayWrite(t), NoConflict', ThreadData(t)'
    PROVE  DataInv'
<1> SUFFICES ASSUME NEW u \in Threads, u # t PROVE ThreadData(u)'
  BY DEF DataInv
<1>d. ThreadData(u) /\ NoConflict
  BY DEF DataInv
<1>1. ASSUME InTx(u), NEW a \in rset[u] \cap Accounts PROVE mem'[a] = mem[a]
  <2>1. CASE InLocked(t)
    BY <1>1, <2>1 DEF IsolationInv
  <2>2. CASE xtest(t) /\ \A k \in Loc \ wset[t] : mem'[k] = mem[k]
    <3>1. a \notin wset[t]
      BY <1>d, <1>1, <2>2 DEF NoConflict, InTx
    <3> QED
      BY <2>2, <3>1, BankAssumption
  <2> QED
    BY <2>1, <2>2 DEF MayWrite
<1>2. ASSUME InLocked(u), NEW a \in Accounts PROVE mem'[a] = mem[a]
  <2>1. CASE InLocked(t)
    BY <1>2, <2>1 DEF IsolationInv
  <2>2. CASE xtest(t) /\ \A k \in Loc \ wset[t] : mem'[k] = mem[k]
    <3>1. wset[t] = {}
      <4>1. ~InTx(t)
        BY <1>2 DEF IsolationInv
      <4> QED
        BY <2>2, <4>1 DEF DataInv, ThreadData, xtest
    <3> QED
      BY <2>2, <3>1, BankAssumption
  <2> QED
    BY <2>1, <2>2 DEF MayWrite
<1> QED
  BY <1>d, <1>1, <1>2, DataOfOther

\* The loads of the section.
LEMMA LoadData ==
    ASSUME TypeOK, IsolationInv, DataInv, NEW t \in Threads,
           load_balance(t) \/ deposit_load(t)
    PROVE  DataInv'
<1> DEFINE a1 == job[t].a1
           a2 == job[t].a2
           l == IF load_balance(t) THEN a1 ELSE a2
<1>t. /\ TsxTypeOK /\ ThreadData(t) /\ NoConflict
      /\ a1 \in Accounts /\ a2 \in Accounts /\ a1 \in Loc /\ a2 \in Loc
      /\ job[t].op \in {"transfer", "read"} /\ tx[t] \in {"none", "active", "aborted"}
  BY JobType DEF TypeOK, TsxTypeOK, DataInv, Jobs
<1>1. /\ pc[t] \in {"section", "deposit_load"} /\ tx[t] # "aborted"
      /\ Load(t, l) /\ l \in Loc
      /\ reg' = [reg EXCEPT ![t] = Sees(t, l)]
      /\ job' = job
      /\ \A u \in Threads \ {t} : pc'[u] = pc[u] /\ reg'[u] = reg[u]
      /\ reg'[t] = Sees(t, l)
      /\ load_balance(t) =>
           /\ pc[t] = "section"
           /\ pc'[t] = IF job[t].op = "transfer" THEN "withdraw" ELSE "unlock"
      /\ ~load_balance(t) => pc[t] = "deposit_load" /\ pc'[t] = "deposit"
  BY <1>t DEF load_balance, deposit_load, At, Goto, TypeOK
<1> HIDE DEF l
<1>l. l = IF load_balance(t) THEN a1 ELSE a2
  BY DEF l
<1>2. /\ OthersKept(t) /\ tx'[t] = tx[t] /\ mem' = mem /\ wset' = wset
      /\ wbuf' = wbuf /\ rset[t] \subseteq rset'[t]
      /\ xtest(t) => l \in rset'[t]
  BY <1>t, <1>1, LoadEffect, AccessKeepsOthers
<1>3. NoConflict'
  BY <1>t, <1>1, LoadConflict
<1>4. OwnLocals(t) /\ MayWrite(t)
  BY <1>1, <1>2 DEF OwnLocals, MayWrite
<1>5. CASE xtest(t)
  <2>1. InTx(t) /\ TxData(t) /\ xtest(t)' /\ ~InLocked(t)'
    BY <1>t, <1>1, <1>2, <1>5 DEF InTx, InLocked, ThreadData, SectionLabels, xtest
  <2>2. CASE load_balance(t)
    <3>1. reg'[t] = mem[a1]
      BY <1>1, <1>l, <2>1, <2>2 DEF TxData, Sees
    <3>2. TxData(t)'
      BY <1>t, <1>1, <1>2, <1>5, <1>l, <2>1, <2>2, <3>1 DEF TxData
    <3>3. ThreadData(t)'
      BY <1>t, <1>1, <1>2, <1>5, <2>1, <2>2, <3>2
         DEF ThreadData, InTx, SectionLabels
    <3> QED
      BY <1>3, <1>4, <3>3, DataStep
  <2>3. CASE ~load_balance(t)
    <3>1. reg'[t] = IF a1 = a2 THEN mem[a1] - job[t].money ELSE mem[a2]
      BY <1>1, <1>5, <1>l, <2>1, <2>3 DEF TxData, Sees
    <3>2. TxData(t)'
      BY <1>t, <1>1, <1>2, <1>5, <1>l, <2>1, <2>3, <3>1 DEF TxData
    <3>3. ThreadData(t)'
      BY <1>t, <1>1, <1>2, <1>5, <2>1, <2>3, <3>2
         DEF ThreadData, InTx, SectionLabels
    <3> QED
      BY <1>3, <1>4, <3>3, DataStep
  <2> QED
    BY <2>2, <2>3
<1>6. CASE ~xtest(t)
  <2>1. InLocked(t) /\ LockedData(t) /\ ~xtest(t)' /\ wset[t] = {} /\ ~InTx(t)'
    BY <1>t, <1>1, <1>2, <1>6
       DEF InTx, InLocked, ThreadData, SectionLabels, xtest
  <2>2. reg'[t] = mem[l]
    BY <1>1, <1>6 DEF Sees
  <2>3. ThreadData(t)'
    BY <1>t, <1>1, <1>2, <1>l, <2>1, <2>2 DEF ThreadData, LockedData
  <2> QED
    BY <1>3, <1>4, <2>3, DataStep
<1> QED
  BY <1>5, <1>6

\* The stores of the section.
LEMMA StoreData ==
    ASSUME TypeOK, IsolationInv, DataInv, NEW t \in Threads,
           withdraw(t) \/ deposit(t)
    PROVE  DataInv'
<1> DEFINE a1 == job[t].a1
           a2 == job[t].a2
           money == job[t].money
           l == IF withdraw(t) THEN a1 ELSE a2
           v == IF withdraw(t) THEN reg[t] - money ELSE reg[t] + money
<1>t. /\ TsxTypeOK /\ ThreadData(t) /\ NoConflict
      /\ a1 \in Accounts /\ a2 \in Accounts /\ a1 \in Loc /\ a2 \in Loc
      /\ money \in Int /\ reg[t] \in Int /\ mem \in [Loc -> Int]
      /\ job[t].op \in {"transfer", "read"} /\ tx[t] \in {"none", "active", "aborted"}
  BY JobType DEF TypeOK, TsxTypeOK, DataInv, Jobs
<1>1. /\ pc[t] \in {"withdraw", "deposit"} /\ tx[t] # "aborted"
      /\ Store(t, l, v) /\ l \in Loc /\ v \in Int
      /\ job' = job /\ reg' = reg
      /\ \A u \in Threads \ {t} : pc'[u] = pc[u]
      /\ withdraw(t) => pc[t] = "withdraw" /\ pc'[t] = "deposit_load"
      /\ ~withdraw(t) => pc[t] = "deposit" /\ pc'[t] = "unlock"
  BY <1>t DEF withdraw, deposit, At, Goto, TypeOK
<1>l. /\ withdraw(t) => l = a1 /\ v = reg[t] - money
      /\ ~withdraw(t) => l = a2 /\ v = reg[t] + money
  OBVIOUS
<1> HIDE DEF l, v
<1>2. /\ OthersKept(t) /\ tx'[t] = tx[t] /\ rset' = rset
      /\ \A k \in Loc \ {l} : mem'[k] = mem[k]
      /\ ~xtest(t) => wset' = wset
  BY <1>t, <1>1, StoreEffect, AccessKeepsOthers
<1>3. NoConflict'
  BY <1>t, <1>1, StoreConflict
<1>x. xtest(t) => /\ mem' = mem /\ wset'[t] = wset[t] \cup {l}
                  /\ wbuf'[t] = [wbuf[t] EXCEPT ![l] = v]
                  /\ wbuf[t] \in [Loc -> Int]
  BY <1>1, <1>t DEF Store, TsxTypeOK
<1>o. job[t].op = "transfer" /\ OwnLocals(t)
  BY <1>t, <1>1, <1>2 DEF OwnLocals, ThreadData
<1>5. CASE xtest(t)
  <2>1. InTx(t) /\ TxData(t) /\ xtest(t)' /\ ~InLocked(t)'
    BY <1>t, <1>1, <1>2, <1>5 DEF InTx, InLocked, ThreadData, SectionLabels, xtest
  <2>2. /\ mem' = mem /\ wset'[t] = wset[t] \cup {l} /\ wbuf'[t][l] = v
        /\ \A k \in Loc \ {l} : wbuf'[t][k] = wbuf[t][k]
    BY <1>1, <1>5, <1>x
  <2>3. CASE withdraw(t)
    <3>1. TxData(t)'
      BY <1>t, <1>1, <1>2, <1>l, <2>1, <2>2, <2>3 DEF TxData
    <3> QED
      BY <1>1, <1>3, <1>o, <2>1, <2>2, <2>3, <3>1, DataStep
         DEF ThreadData, MayWrite, InTx, SectionLabels
  <2>4. CASE ~withdraw(t)
    <3>1. /\ a1 \in rset[t] /\ a2 \in rset[t] /\ wset[t] = {a1}
          /\ wbuf[t][a1] = mem[a1] - money
          /\ reg[t] = IF a1 = a2 THEN mem[a1] - money ELSE mem[a2]
      BY <1>1, <2>1, <2>4 DEF TxData
    <3>2. wbuf'[t][a2] = reg[t] + money /\ (a1 # a2 => wbuf'[t][a1] = wbuf[t][a1])
      BY <1>t, <1>l, <2>2, <2>4
    <3>3. mem[a1] \in Int /\ mem[a2] \in Int
      BY <1>t
    <3>4. wbuf'[t][a1] = After(t, a1)' /\ wbuf'[t][a2] = After(t, a2)'
      BY <1>t, <1>1, <2>2, <3>1, <3>2, <3>3 DEF After
    <3>5. TxData(t)'
      BY <1>1, <1>2, <1>l, <1>o, <2>2, <2>4, <3>1, <3>4 DEF TxData
    <3> QED
      BY <1>1, <1>3, <1>o, <2>1, <2>2, <2>4, <3>5, DataStep
         DEF ThreadData, MayWrite, InTx, SectionLabels
  <2> QED
    BY <2>3, <2>4
<1>6. CASE ~xtest(t)
  <2>1. InLocked(t) /\ ~xtest(t)' /\ wset'[t] = {} /\ ~InTx(t)'
    BY <1>t, <1>1, <1>2, <1>6
       DEF InTx, InLocked, ThreadData, SectionLabels, xtest
  <2>2. ThreadData(t)'
    BY <1>1, <1>o, <2>1 DEF ThreadData, LockedData
  <2> QED
    BY <1>3, <1>o, <2>1, <2>2, DataStep DEF MayWrite
<1> QED
  BY <1>5, <1>6

\* Steps on the way to the section, or out of it.
LEMMA ApproachData ==
    ASSUME TypeOK, IsolationInv, DataInv, NEW t \in Threads, OwnLocals(t),
           MayWrite(t), NoConflict',
           pc'[t] \notin {"withdraw", "deposit_load", "deposit", "unlock"},
           wset'[t] = {}
    PROVE  DataInv'
<1>1. ThreadData(t)'
  BY DEF ThreadData, TxData, LockedData
<1> QED
  BY <1>1, DataStep

\* Aborts, wherever they happen.
LEMMA AbortData ==
    ASSUME TypeOK, IsolationInv, DataInv, NEW t \in Threads,
           NEW status, Abort({t}, status),
           UNCHANGED <<mem, rset, wset, wbuf, pc, job, reg>>
    PROVE  DataInv'
<1>1. OthersKept(t) /\ tx'[t] = "aborted"
  BY SelfAbortEffect DEF TypeOK
<1>2. NoConflict'
  BY <1>1, EndConflict DEF DataInv
<1>3. ThreadData(t)'
  <2>1. ~InTx(t)' /\ ~InLocked(t)'
    BY <1>1 DEF InTx, InLocked, xtest
  <2> QED
    BY <1>1, <2>1 DEF DataInv, ThreadData
<1> QED
  BY <1>1, <1>2, <1>3, DataStep DEF OwnLocals, MayWrite

\* The lock functions touch no account.
LEMMA LockingData ==
    ASSUME TypeOK, IsolationInv, DataInv, NEW t \in Threads, Locking(t)
    PROVE  DataInv'
<1>t. /\ TsxTypeOK /\ ThreadData(t) /\ NoConflict
      /\ Mutex \in Loc /\ {Mutex} \in SUBSET Loc /\ {} \in SUBSET Loc
      /\ \A a \in Accounts : a \in Loc /\ a # Mutex
      /\ pc \in [Threads -> Labels]
      /\ job' = job /\ reg' = reg
  BY BankAssumption, LockAssumption DEF TypeOK, DataInv, Locking
<1>w. ASSUME pc[t] \notin SectionLabels, tx[t] # "aborted" PROVE wset[t] = {}
  BY <1>t, <1>w DEF ThreadData, InTx
<1>p. ASSUME NEW label, Goto(t, label)
      PROVE  pc'[t] = label /\ \A u \in Threads \ {t} : pc'[u] = pc[u]
  BY <1>t, <1>p DEF Goto
<1>l. ASSUME pc[t] \notin SectionLabels, tx[t] # "aborted", Load(t, Mutex),
             NEW label \in {"precheck", "acquire", "wait", "xabort", "section"},
             Goto(t, label)
      PROVE  DataInv'
  <2>1. /\ OthersKept(t) /\ mem' = mem /\ wset' = wset /\ NoConflict'
    BY <1>t, <1>l, LoadEffect, AccessKeepsOthers, LoadConflict
  <2>2. OwnLocals(t) /\ MayWrite(t)
    BY <1>t, <1>l, <1>p, <2>1 DEF OwnLocals, MayWrite
  <2> QED
    BY <1>l, <1>p, <1>w, <2>1, <2>2, ApproachData
<1>b. ASSUME pc[t] \notin SectionLabels, tx[t] # "aborted",
             NEW reads \in SUBSET Loc, Begin(t, reads),
             NEW label \in {"section", "wait", "check"}, Goto(t, label)
      PROVE  DataInv'
  <2>1. wset[t] = {}
    BY <1>b, <1>w
  <2>2. /\ OthersKept(t) /\ mem' = mem /\ wset' = wset /\ NoConflict'
    BY <1>t, <1>b, <2>1, BeginEffect, BeginConflict
  <2>3. OwnLocals(t) /\ MayWrite(t)
    BY <1>t, <1>b, <1>p, <2>2 DEF OwnLocals, MayWrite
  <2> QED
    BY <1>b, <1>p, <2>1, <2>2, <2>3, ApproachData
<1>n. ASSUME pc[t] \notin SectionLabels, tx[t] # "aborted", UNCHANGED txVars,
             NEW label \in {"acquire", "xabort"}, Goto(t, label)
      PROVE  DataInv'
  <2>1. /\ OthersKept(t) /\ mem' = mem /\ wset' = wset /\ NoConflict'
    BY <1>t, <1>n DEF txVars, OthersKept, NoConflict, xtest
  <2>2. OwnLocals(t) /\ MayWrite(t)
    BY <1>t, <1>n, <1>p, <2>1 DEF OwnLocals, MayWrite
  <2> QED
    BY <1>n, <1>p, <1>w, <2>1, <2>2, ApproachData
<1>1. CASE precheck(t)
  BY <1>1, <1>l DEF precheck, At, SectionLabels
<1>2. CASE exchange(t)
  <2>1. /\ pc[t] \in {"acquire", "reacquire"} /\ tx[t] = "none"
        /\ Store(t, Mutex, 1)
        /\ Goto(t, IF mem[Mutex] = 0 THEN "section" ELSE "wait")
    BY <1>2 DEF exchange, At, IsolationInv, NoTxLabels
  <2>2. /\ OthersKept(t) /\ wset' = wset /\ NoConflict'
        /\ \A a \in Accounts : mem'[a] = mem[a]
    BY <1>t, <2>1, StoreEffect, AccessKeepsOthers, StoreConflict DEF xtest
  <2>3. OwnLocals(t) /\ MayWrite(t) /\ pc'[t] \in {"section", "wait"}
    BY <1>t, <1>p, <2>1, <2>2 DEF OwnLocals, MayWrite
  <2>4. wset[t] = {}
    BY <1>w, <2>1 DEF SectionLabels
  <2> QED
    BY <2>2, <2>3, <2>4, ApproachData
<1>3. CASE xacquire_exchange(t)
  BY <1>3, <1>b, <1>t DEF xacquire_exchange, At, SectionLabels
<1>4. CASE wait(t)
  <2>1. pc[t] \notin SectionLabels /\ tx[t] # "aborted"
    BY <1>4 DEF wait, At, SectionLabels
  <2>2. CASE xtest(t)
    BY <1>4, <1>t, <2>2, AbortData DEF wait
  <2>3. CASE ~xtest(t) /\ fn[t] \in Busy
    BY <1>4, <1>n, <2>1, <2>3 DEF wait
  <2>4. CASE ~xtest(t) /\ fn[t] \notin Busy
    BY <1>4, <1>l, <2>1, <2>4 DEF wait
  <2> QED
    BY <2>2, <2>3, <2>4
<1>5. CASE xbegin(t)
  BY <1>5, <1>b, <1>t DEF xbegin, At, SectionLabels
<1>6. CASE check(t)
  BY <1>6, <1>l, <1>n DEF check, At, SectionLabels
<1>7. CASE xabort(t)
  BY <1>7, <1>t, AbortData DEF xabort
<1> QED
  BY <1>1, <1>2, <1>3, <1>4, <1>5, <1>6, <1>7 DEF Locking, Acquiring

\* The start and the end of an operation, and a rollback.
LEMMA EndsData ==
    ASSUME TypeOK, IsolationInv, DataInv, NEW t \in Threads,
           start_op(t) \/ end_op(t) \/ Recover(t) \/ Hardware(t)
    PROVE  DataInv'
<1>t. /\ TsxTypeOK /\ ThreadData(t) /\ NoConflict
      /\ Mutex \in Loc /\ \A a \in Accounts : a \in Loc /\ a # Mutex
      /\ pc \in [Threads -> Labels] /\ job \in [Threads -> Jobs]
      /\ reg \in [Threads -> Int]
  BY BankAssumption, LockAssumption DEF TypeOK, DataInv
<1>1. CASE start_op(t)
  <2>1. /\ pc[t] = "idle" /\ tx[t] # "aborted" /\ UNCHANGED txVars
        /\ pc'[t] \in {"precheck", "xbegin", "acquire"}
        /\ \A u \in Threads \ {t} : pc'[u] = pc[u] /\ job'[u] = job[u]
        /\ reg' = reg
    BY <1>1, <1>t DEF start_op, Call, At, Goto, FirstStep
  <2>2. /\ OthersKept(t) /\ mem' = mem /\ wset' = wset /\ NoConflict'
    BY <1>t, <2>1 DEF txVars, OthersKept, NoConflict, xtest
  <2>3. wset[t] = {}
    BY <1>t, <2>1 DEF ThreadData, InTx, SectionLabels
  <2> QED
    BY <2>1, <2>2, <2>3, ApproachData DEF OwnLocals, MayWrite
<1>2. CASE end_op(t)
  <2>1. /\ pc[t] = "unlock" /\ tx[t] # "aborted"
        /\ pc'[t] = "idle"
        /\ \A u \in Threads \ {t} :
             pc'[u] = pc[u] /\ job'[u] = job[u] /\ reg'[u] = reg[u]
    BY <1>2, <1>t DEF end_op, unlock, At, Goto
  <2>2. CASE xtest(t) /\ Commit(t)
    <3>1. OthersKept(t) /\ tx'[t] = "none" /\ wset'[t] = {}
      BY <1>t, <2>2, DiscardEffect DEF Commit
    <3>2. NoConflict'
      BY <1>t, <3>1, EndConflict
    <3>3. MayWrite(t)
      BY <2>2 DEF MayWrite, Commit
    <3> QED
      BY <2>1, <3>1, <3>2, <3>3, ApproachData DEF OwnLocals
  <2>3. CASE ~xtest(t) /\ Store(t, Mutex, 0)
    <3>1. wset[t] = {}
      BY <1>t, <2>1, <2>3 DEF ThreadData, InTx
    <3>2. /\ OthersKept(t) /\ wset' = wset /\ NoConflict'
          /\ \A a \in Accounts : mem'[a] = mem[a]
      BY <1>t, <2>3, StoreEffect, AccessKeepsOthers, StoreConflict
    <3> QED
      BY <2>1, <3>1, <3>2, ApproachData DEF OwnLocals, MayWrite
  <2> QED
    BY <1>2, <2>2, <2>3 DEF end_op, unlock
<1>3. CASE Recover(t)
  <2>1. /\ Discard(t) /\ mem' = mem /\ job' = job
        /\ pc'[t] \in {"reacquire", "xbegin"}
        /\ \A u \in Threads \ {t} : pc'[u] = pc[u] /\ reg'[u] = reg[u]
    BY <1>3, <1>t DEF Recover, rollback, Rollback, Goto
  <2>2. OthersKept(t) /\ tx'[t] = "none" /\ wset'[t] = {}
    BY <1>t, <2>1, DiscardEffect
  <2>3. NoConflict'
    BY <1>t, <2>2, EndConflict
  <2> QED
    BY <2>1, <2>2, <2>3, ApproachData DEF OwnLocals, MayWrite
<1>4. CASE Hardware(t)
  BY <1>4, AbortData DEF Hardware, ProcessorAbort, HardwareAbort
<1> QED
  BY <1>1, <1>2, <1>3, <1>4

LEMMA DataInvariant ==
    ASSUME LockFuncs \subseteq Subscribing PROVE Spec => []DataInv
<1>1. Init => DataInv
  BY DEF Init, TsxInit, LockInit, DataInv, NoConflict, ThreadData, TxData,
         LockedData, InTx, InLocked, SectionLabels, xtest
<1>2. TypeOK /\ IsolationInv /\ DataInv /\ [Next]_vars => DataInv'
  <2> SUFFICES ASSUME TypeOK, IsolationInv, DataInv, [Next]_vars
               PROVE  DataInv'
    OBVIOUS
  <2>1. ASSUME NEW t \in Threads, Section(t) PROVE DataInv'
    BY <2>1, LoadData, StoreData DEF Section
  <2>2. CASE UNCHANGED vars
    BY <2>2 DEF vars, txVars, DataInv, NoConflict, ThreadData, TxData, After,
       LockedData, InTx, InLocked, xtest
  <2> QED
    BY <2>1, <2>2, LockingData, EndsData DEF Next, Work
<1> QED
  BY <1>1, <1>2, TypeCorrect, IsolationInvariant, PTL DEF Spec

-----------------------------------------------------------------------------
(* The balances, with a transfer under way undone *)

BalanceShape ==
    /\ (\A t \in Threads : ~Halfway(t)) =>
         Balance = [a \in Accounts |-> mem[a]]
    /\ \A t \in Threads : Halfway(t) =>
         Balance = [a \in Accounts |->
                      IF a = job[t].a1 THEN mem[a] + job[t].money ELSE mem[a]]

\* At most one transfer is under way.
LEMMA BalanceValue == IsolationInv => BalanceShape
<1> SUFFICES ASSUME IsolationInv PROVE BalanceShape
  OBVIOUS
<1>1. ASSUME \A t \in Threads : ~Halfway(t)
      PROVE  Balance = [a \in Accounts |-> mem[a]]
  BY <1>1 DEF Balance
<1>2. ASSUME NEW t \in Threads, Halfway(t)
      PROVE  Balance = [a \in Accounts |->
               IF a = job[t].a1 THEN mem[a] + job[t].money ELSE mem[a]]
  <2>1. \A u \in Threads : Halfway(u) <=> u = t
    BY <1>2 DEF IsolationInv, Halfway
  <2>2. (CHOOSE u \in Threads : Halfway(u)) = t
    BY <2>1
  <2>3. \A a : (\E u \in Threads : Halfway(u) /\ job[u].a1 = a) <=> a = job[t].a1
    BY <1>2, <2>1
  <2> QED
    BY <2>2, <2>3 DEF Balance
<1> QED
  BY <1>1, <1>2 DEF BalanceShape

LEMMA BalanceValueNext == IsolationInv' => BalanceShape'
BY BalanceValue, PTL

\* A step without a store to an account, and one of a transaction's.
LEMMA BalanceKept ==
    ASSUME TypeOK, IsolationInv, IsolationInv',
           \A a \in Accounts : mem'[a] = mem[a],
           \A u \in Threads :
             /\ Halfway(u)' <=> Halfway(u)
             /\ Halfway(u) => job'[u] = job[u]
    PROVE  Balance' = Balance
<1>1. BalanceShape /\ BalanceShape'
  BY BalanceValue, BalanceValueNext
<1>2. CASE \A u \in Threads : ~Halfway(u)
  <2>1. Balance = [a \in Accounts |-> mem[a]]
    BY <1>1, <1>2 DEF BalanceShape
  <2>2. Balance' = [a \in Accounts |-> mem'[a]]
    BY <1>1, <1>2 DEF BalanceShape
  <2> QED
    BY <2>1, <2>2
<1>3. ASSUME NEW u \in Threads, Halfway(u) PROVE Balance' = Balance
  <2>1. Balance = [a \in Accounts |->
                     IF a = job[u].a1 THEN mem[a] + job[u].money ELSE mem[a]]
    BY <1>1, <1>3 DEF BalanceShape
  <2>2. Balance' = [a \in Accounts |->
                      IF a = job'[u].a1 THEN mem'[a] + job'[u].money ELSE mem'[a]]
    BY <1>1, <1>3 DEF BalanceShape
  <2> QED
    BY <1>3, <2>1, <2>2
<1> QED
  BY <1>2, <1>3

\* The first half of a locked transfer does not show.
LEMMA WithdrawLocked ==
    ASSUME TypeOK, IsolationInv, DataInv, IsolationInv', NEW t \in Threads,
           withdraw(t), ~xtest(t)
    PROVE  Balance' = Balance
<1>t. /\ TsxTypeOK /\ ThreadData(t) /\ mem \in [Loc -> Int]
      /\ job[t].a1 \in Accounts /\ job[t].a1 \in Loc /\ job[t].money \in Int
      /\ reg[t] \in Int /\ tx[t] \in {"none", "active", "aborted"}
      /\ \A a \in Accounts : a \in Loc
  BY JobType, BankAssumption DEF TypeOK, TsxTypeOK, DataInv
<1>1. /\ pc[t] = "withdraw" /\ tx[t] = "none" /\ job' = job
      /\ Store(t, job[t].a1, reg[t] - job[t].money)
      /\ pc'[t] = "deposit_load" /\ \A u \in Threads \ {t} : pc'[u] = pc[u]
  BY <1>t DEF withdraw, At, Goto, TypeOK, xtest
<1>2. /\ tx'[t] = "none" /\ mem'[job[t].a1] = reg[t] - job[t].money
      /\ \A a \in Accounts \ {job[t].a1} : mem'[a] = mem[a]
  <2>1. reg[t] - job[t].money \in Int
    BY <1>t
  <2> QED
    BY <1>t, <1>1, <2>1, StoreEffect, AccessKeepsOthers DEF xtest
<1>3. InLocked(t) /\ reg[t] = mem[job[t].a1]
  BY <1>t, <1>1 DEF InLocked, SectionLabels, ThreadData, LockedData
<1>4. \A u \in Threads : ~Halfway(u)
  BY <1>1, <1>3 DEF IsolationInv, Halfway
<1>5. Halfway(t)'
  BY <1>1, <1>2 DEF Halfway, InLocked, SectionLabels
<1>6. Balance = [a \in Accounts |-> mem[a]]
  BY <1>4, BalanceValue DEF BalanceShape
<1>7. Balance' = [a \in Accounts |->
                    IF a = job[t].a1 THEN mem'[a] + job[t].money ELSE mem'[a]]
  BY <1>1, <1>5, BalanceValueNext DEF BalanceShape
<1>8. mem'[job[t].a1] + job[t].money = mem[job[t].a1]
  BY <1>t, <1>2, <1>3
<1> QED
  BY <1>2, <1>6, <1>7, <1>8

\* The second half makes the whole transfer show.
LEMMA DepositLocked ==
    ASSUME TypeOK, IsolationInv, DataInv, IsolationInv', NEW t \in Threads,
           deposit(t), ~xtest(t)
    PROVE  Balance' = Abstract!Moved(job[t].a1, job[t].a2, job[t].money)
<1> DEFINE a1 == job[t].a1
           a2 == job[t].a2
           money == job[t].money
<1>t. /\ TsxTypeOK /\ ThreadData(t) /\ mem \in [Loc -> Int]
      /\ a1 \in Accounts /\ a2 \in Accounts /\ a2 \in Loc /\ money \in Int
      /\ reg[t] \in Int /\ tx[t] \in {"none", "active", "aborted"}
      /\ \A a \in Accounts : a \in Loc
  BY JobType, BankAssumption DEF TypeOK, TsxTypeOK, DataInv
<1>1. /\ pc[t] = "deposit" /\ tx[t] = "none" /\ job' = job
      /\ Store(t, a2, reg[t] + money)
      /\ pc'[t] = "unlock" /\ \A u \in Threads \ {t} : pc'[u] = pc[u]
  BY <1>t DEF deposit, At, Goto, TypeOK, xtest
<1>2. /\ OthersKept(t) /\ tx'[t] = "none" /\ mem'[a2] = reg[t] + money
      /\ \A a \in Accounts \ {a2} : mem'[a] = mem[a]
  <2>1. reg[t] + money \in Int
    BY <1>t
  <2> QED
    BY <1>t, <1>1, <2>1, StoreEffect, AccessKeepsOthers DEF xtest
<1>3. InLocked(t) /\ Halfway(t) /\ reg[t] = mem[a2]
  BY <1>t, <1>1 DEF InLocked, Halfway, SectionLabels, ThreadData, LockedData
<1>4. \A u \in Threads : ~Halfway(u)'
  <2>1. ~Halfway(t)'
    BY <1>1 DEF Halfway
  <2>2. ASSUME NEW u \in Threads, u # t PROVE ~Halfway(u)'
    <3>1. ~InLocked(u)
      BY <1>3, <2>2 DEF IsolationInv
    <3> QED
      BY <1>1, <1>2, <2>2, <3>1 DEF Halfway, InLocked, OthersKept
  <2> QED
    BY <2>1, <2>2
<1>5. Balance = [a \in Accounts |-> IF a = a1 THEN mem[a] + money ELSE mem[a]]
  BY <1>3, BalanceValue DEF BalanceShape
<1>6. Balance' = [a \in Accounts |-> mem'[a]]
  BY <1>4, BalanceValueNext DEF BalanceShape
<1> HIDE DEF a1, a2, money
<1>7. mem[a1] \in Int /\ mem[a2] \in Int
  BY <1>t
<1>8. Balance' = [[Balance EXCEPT ![a1] = @ - money] EXCEPT ![a2] = @ + money]
  <2>1. CASE a1 = a2
    BY <1>t, <1>2, <1>3, <1>5, <1>6, <1>7, <2>1
  <2>2. CASE a1 # a2
    BY <1>t, <1>2, <1>3, <1>5, <1>6, <1>7, <2>2
  <2> QED
    BY <2>1, <2>2
<1> QED
  BY <1>8 DEF Abstract!Moved, a1, a2, money

\* A commit makes the whole transfer show at once.
LEMMA CommitTransfer ==
    ASSUME TypeOK, IsolationInv, DataInv, IsolationInv', NEW t \in Threads,
           end_op(t), xtest(t)
    PROVE  Balance' = IF job[t].op = "transfer"
                      THEN Abstract!Moved(job[t].a1, job[t].a2, job[t].money)
                      ELSE Balance
<1> DEFINE a1 == job[t].a1
           a2 == job[t].a2
           money == job[t].money
<1>t. /\ TsxTypeOK /\ ThreadData(t) /\ mem \in [Loc -> Int]
      /\ a1 \in Accounts /\ a2 \in Accounts /\ money \in Int
      /\ job[t].op \in {"transfer", "read"}
      /\ \A a \in Accounts : a \in Loc
  BY JobType, BankAssumption DEF TypeOK, TsxTypeOK, DataInv, Jobs
<1>1. /\ pc[t] = "unlock" /\ Commit(t) /\ pc'[t] = "idle"
      /\ \A u \in Threads \ {t} : pc'[u] = pc[u]
  BY DEF end_op, unlock, At, Goto, TypeOK
<1>2. /\ OthersKept(t)
      /\ \A a \in Accounts :
           mem'[a] = IF a \in wset[t] THEN wbuf[t][a] ELSE mem[a]
  BY <1>t, <1>1, DiscardEffect DEF Commit
<1>3. InTx(t) /\ TxData(t)
  BY <1>t, <1>1 DEF InTx, SectionLabels, ThreadData
<1>4. \A u \in Threads : ~InLocked(u)
  BY <1>3 DEF IsolationInv
<1>5. \A u \in Threads : ~Halfway(u)'
  <2>1. ~Halfway(t)'
    BY <1>1 DEF Halfway
  <2>2. ASSUME NEW u \in Threads, u # t PROVE ~Halfway(u)'
    BY <1>1, <1>2, <1>4, <2>2 DEF Halfway, InLocked, OthersKept
  <2> QED
    BY <2>1, <2>2
<1>6. Balance = [a \in Accounts |-> mem[a]]
  BY <1>4, BalanceValue DEF BalanceShape, Halfway
<1>7. Balance' = [a \in Accounts |-> mem'[a]]
  BY <1>5, BalanceValueNext DEF BalanceShape
<1>8. CASE job[t].op = "read"
  <2>1. \A a \in Accounts : mem'[a] = mem[a]
    BY <1>1, <1>2, <1>3, <1>8 DEF TxData
  <2> QED
    BY <1>6, <1>7, <1>8, <2>1
<1>9. CASE job[t].op = "transfer"
  <2>1. /\ \A a \in Accounts \ {a1, a2} : mem'[a] = mem[a]
        /\ mem'[a1] = After(t, a1) /\ mem'[a2] = After(t, a2)
    BY <1>t, <1>1, <1>2, <1>3, <1>9 DEF TxData
  <2>2. /\ mem'[a1] = mem[a1] - money + (IF a1 = a2 THEN money ELSE 0)
        /\ mem'[a2] = mem[a2] - (IF a1 = a2 THEN money ELSE 0) + money
    BY <2>1 DEF After
  <2>3. mem[a1] \in Int /\ mem[a2] \in Int
    BY <1>t
  <2> HIDE DEF a1, a2, money
  <2>4. Balance' = [[Balance EXCEPT ![a1] = @ - money] EXCEPT ![a2] = @ + money]
    <3>1. CASE a1 = a2
      BY <1>t, <1>6, <1>7, <2>1, <2>2, <2>3, <3>1
    <3>2. CASE a1 # a2
      BY <1>t, <1>6, <1>7, <2>1, <2>2, <2>3, <3>2
    <3> QED
      BY <3>1, <3>2
  <2> QED
    BY <1>9, <2>4 DEF Abstract!Moved, a1, a2, money
<1> QED
  BY <1>t, <1>8, <1>9

\* Every other step of t: no account changes, and t does not enter or leave
\* the middle of a locked transfer.
QuietStep(t) ==
    /\ OthersKept(t)
    /\ \A u \in Threads \ {t} : pc'[u] = pc[u] /\ job'[u] = job[u]
    /\ \A a \in Accounts : mem'[a] = mem[a]
    /\ Halfway(t)' <=> Halfway(t)
    /\ Halfway(t) => job'[t] = job[t]

LEMMA QuietBalance ==
    ASSUME TypeOK, IsolationInv, IsolationInv', NEW t \in Threads, QuietStep(t)
    PROVE  Balance' = Balance
<1>1. ASSUME NEW u \in Threads, u # t
      PROVE  (Halfway(u)' <=> Halfway(u)) /\ job'[u] = job[u]
  BY <1>1 DEF QuietStep, OthersKept, Halfway, InLocked
<1>2. \A u \in Threads :
        (Halfway(u)' <=> Halfway(u)) /\ (Halfway(u) => job'[u] = job[u])
  BY <1>1 DEF QuietStep
<1>3. \A a \in Accounts : mem'[a] = mem[a]
  BY DEF QuietStep
<1> QED
  BY <1>2, <1>3, BalanceKept

\* Loads, and the stores of a transaction.
LEMMA SectionQuiet ==
    ASSUME TypeOK, NEW t \in Threads,
           \/ load_balance(t) \/ deposit_load(t)
           \/ xtest(t) /\ (withdraw(t) \/ deposit(t))
    PROVE  QuietStep(t)
<1>t. /\ TsxTypeOK /\ job[t].a1 \in Loc /\ job[t].a2 \in Loc
      /\ reg[t] - job[t].money \in Int /\ reg[t] + job[t].money \in Int
      /\ pc \in [Threads -> Labels]
  BY JobType DEF TypeOK
<1>1. /\ job' = job
      /\ \A u \in Threads \ {t} : pc'[u] = pc[u]
      /\ \/ pc[t] = "section" /\ pc'[t] \in {"withdraw", "unlock"}
         \/ pc[t] = "deposit_load" /\ pc'[t] = "deposit"
         \/ xtest(t)
  BY <1>t DEF load_balance, deposit_load, withdraw, deposit, At, Goto
<1>2. OthersKept(t) /\ tx'[t] = tx[t] /\ mem' = mem
  <2>1. CASE load_balance(t)
    BY <1>t, <2>1, AccessKeepsOthers, LoadEffect DEF load_balance
  <2>2. CASE deposit_load(t)
    BY <1>t, <2>2, AccessKeepsOthers, LoadEffect DEF deposit_load
  <2>3. CASE xtest(t) /\ withdraw(t)
    BY <1>t, <2>3, AccessKeepsOthers DEF withdraw, Store
  <2>4. CASE xtest(t) /\ deposit(t)
    BY <1>t, <2>4, AccessKeepsOthers DEF deposit, Store
  <2> QED
    BY <2>1, <2>2, <2>3, <2>4
<1>3. Halfway(t)' <=> Halfway(t)
  <2>1. CASE pc[t] = "section" /\ pc'[t] \in {"withdraw", "unlock"}
    BY <2>1 DEF Halfway
  <2>2. CASE pc[t] = "deposit_load" /\ pc'[t] = "deposit"
    BY <1>2, <2>2 DEF Halfway, InLocked, SectionLabels
  <2>3. CASE xtest(t)
    BY <1>2, <2>3 DEF Halfway, InLocked, xtest
  <2> QED
    BY <1>1, <2>1, <2>2, <2>3
<1> QED
  BY <1>1, <1>2, <1>3 DEF QuietStep

\* The lock functions up to the section.
LEMMA LockingQuiet ==
    ASSUME TypeOK, IsolationInv, NEW t \in Threads, Locking(t)
    PROVE  QuietStep(t)
<1>t. /\ TsxTypeOK /\ pc \in [Threads -> Labels] /\ job' = job
      /\ Mutex \in Loc /\ {Mutex} \in SUBSET Loc /\ {} \in SUBSET Loc
      /\ \A a \in Accounts : a \in Loc /\ a # Mutex
  BY BankAssumption, LockAssumption DEF TypeOK, Locking
<1>1. /\ pc[t] \notin SectionLabels
      /\ pc'[t] \notin {"deposit_load", "deposit"}
      /\ \A u \in Threads \ {t} : pc'[u] = pc[u]
  BY <1>t DEF Locking, Acquiring, precheck, exchange, xacquire_exchange, wait,
              xbegin, check, xabort, At, Goto, SectionLabels
<1>2. OthersKept(t) /\ \A a \in Accounts : mem'[a] = mem[a]
  <2>1. CASE Load(t, Mutex)
    BY <1>t, <2>1, AccessKeepsOthers, LoadEffect
  <2>2. CASE Store(t, Mutex, 1)
    BY <1>t, <2>2, AccessKeepsOthers, StoreEffect
  <2>3. CASE Begin(t, {Mutex}) \/ Begin(t, {})
    BY <1>t, <2>3, BeginEffect
  <2>4. ASSUME NEW status, Abort({t}, status), UNCHANGED <<mem, rset, wset, wbuf>>
        PROVE  OthersKept(t) /\ mem' = mem
    BY <1>t, <2>4, SelfAbortEffect
  <2>5. CASE UNCHANGED txVars
    BY <2>5 DEF txVars, OthersKept
  <2> QED
    BY <2>1, <2>2, <2>3, <2>4, <2>5
       DEF Locking, Acquiring, precheck, exchange, xacquire_exchange, wait,
           xbegin, check, xabort
<1> QED
  BY <1>t, <1>1, <1>2 DEF QuietStep, Halfway, SectionLabels

\* The start of an operation, the end of a locked one, and aborts.
LEMMA EndsQuiet ==
    ASSUME TypeOK, IsolationInv, NEW t \in Threads,
           \/ start_op(t) \/ Recover(t) \/ Hardware(t)
           \/ end_op(t) /\ ~xtest(t)
    PROVE  QuietStep(t)
<1>t. /\ TsxTypeOK /\ pc \in [Threads -> Labels] /\ job \in [Threads -> Jobs]
      /\ Mutex \in Loc /\ \A a \in Accounts : a \in Loc /\ a # Mutex
  BY BankAssumption, LockAssumption DEF TypeOK
<1>1. CASE start_op(t)
  <2>1. /\ pc[t] = "idle" /\ pc'[t] \in {"precheck", "xbegin", "acquire"}
        /\ \A u \in Threads \ {t} : pc'[u] = pc[u] /\ job'[u] = job[u]
        /\ UNCHANGED txVars
    BY <1>t, <1>1 DEF start_op, Call, At, Goto, FirstStep
  <2> QED
    BY <2>1 DEF QuietStep, Halfway, OthersKept, txVars
<1>2. CASE end_op(t) /\ ~xtest(t)
  <2>1. /\ pc[t] = "unlock" /\ pc'[t] = "idle" /\ Store(t, Mutex, 0)
        /\ \A u \in Threads \ {t} : pc'[u] = pc[u] /\ job'[u] = job[u]
    BY <1>t, <1>2 DEF end_op, unlock, At, Goto
  <2>2. OthersKept(t) /\ \A a \in Accounts : mem'[a] = mem[a]
    BY <1>t, <2>1, AccessKeepsOthers, StoreEffect
  <2> QED
    BY <2>1, <2>2 DEF QuietStep, Halfway
<1>3. CASE Recover(t)
  <2>1. /\ tx[t] = "aborted" /\ Discard(t) /\ mem' = mem /\ job' = job
        /\ pc'[t] \in {"reacquire", "xbegin"}
        /\ \A u \in Threads \ {t} : pc'[u] = pc[u]
    BY <1>t, <1>3 DEF Recover, rollback, Rollback, Goto
  <2>2. OthersKept(t)
    BY <1>t, <2>1, DiscardEffect
  <2> QED
    BY <2>1, <2>2 DEF QuietStep, Halfway, InLocked
<1>4. CASE Hardware(t)
  <2>1. PICK status \in {CONFLICT, NOBITS} : Abort({t}, status)
    BY <1>4 DEF Hardware, ProcessorAbort, HardwareAbort
  <2>2. /\ tx[t] = "active" /\ UNCHANGED <<mem, rset, wset, wbuf, pc, job>>
    BY <1>4 DEF Hardware, ProcessorAbort, HardwareAbort, xtest
  <2>3. OthersKept(t) /\ tx'[t] = "aborted"
    BY <1>t, <2>1, <2>2, SelfAbortEffect
  <2> QED
    BY <2>2, <2>3 DEF QuietStep, Halfway, InLocked
<1> QED
  BY <1>1, <1>2, <1>3, <1>4

-----------------------------------------------------------------------------
(* The operations that are pending *)

\* What a step of t leaves of the other threads.
OthersGoOn(t) ==
    /\ OthersKept(t)
    /\ \A u \in Threads \ {t} : pc'[u] = pc[u] /\ job'[u] = job[u]

NotYet(t) == pc[t] # "idle" /\ ~Done(t)

LEMMA OthersPending ==
    ASSUME NEW t \in Threads, OthersGoOn(t)
    PROVE  \A u \in Threads \ {t} : Pending'[u] = Pending[u]
BY DEF OthersGoOn, OthersKept, Pending, Done

LEMMA PendingKept ==
    ASSUME NEW t \in Threads, OthersGoOn(t),
           \/ NotYet(t) /\ NotYet(t)' /\ job'[t] = job[t]
           \/ ~NotYet(t) /\ ~NotYet(t)'
    PROVE  Pending' = Pending
<1>1. Pending'[t] = Pending[t]
  BY DEF Pending, NotYet
<1>2. \A u \in Threads : Pending'[u] = Pending[u]
  BY <1>1, OthersPending
<1> QED
  BY <1>2 DEF Pending

LEMMA PendingCall ==
    ASSUME NEW t \in Threads, OthersGoOn(t), ~NotYet(t), NotYet(t)',
           job'[t] \in Jobs, Balance' = Balance
    PROVE  Abstract!Call(t)
<1>1. Pending[t] = <<>> /\ Pending'[t] = <<job'[t]>>
  BY DEF Pending, NotYet
<1>2. Pending' = [Pending EXCEPT ![t] = <<job'[t]>>]
  BY <1>1, OthersPending DEF Pending
<1> QED
  BY <1>1, <1>2 DEF Abstract!Call, Abstract!Jobs, Jobs

LEMMA PendingDone ==
    ASSUME NEW t \in Threads, OthersGoOn(t), NotYet(t), ~NotYet(t)',
           job[t] \in Jobs,
           Balance' = IF job[t].op = "transfer"
                      THEN Abstract!Moved(job[t].a1, job[t].a2, job[t].money)
                      ELSE Balance
    PROVE  Abstract!Do(t)
<1>1. Pending[t] = <<job[t]>> /\ Pending'[t] = <<>>
  BY DEF Pending, NotYet
<1>2. Pending' = [Pending EXCEPT ![t] = <<>>]
  BY <1>1, OthersPending DEF Pending
<1> QED
  BY <1>1, <1>2 DEF Abstract!Do, Abstract!Jobs, Jobs

\* The steps that show in the balances, and the locked withdrawal.
LEMMA OthersOfStores ==
    ASSUME TypeOK, NEW t \in Threads,
           withdraw(t) \/ deposit(t) \/ end_op(t)
    PROVE  OthersGoOn(t)
<1>t. /\ TsxTypeOK /\ job[t].a1 \in Loc /\ job[t].a2 \in Loc
      /\ reg[t] - job[t].money \in Int /\ reg[t] + job[t].money \in Int
      /\ pc \in [Threads -> Labels] /\ job \in [Threads -> Jobs] /\ Mutex \in Loc
  BY JobType, LockAssumption DEF TypeOK
<1>1. \A u \in Threads \ {t} : pc'[u] = pc[u] /\ job'[u] = job[u]
  BY <1>t DEF withdraw, deposit, end_op, unlock, Goto
<1>2. OthersKept(t)
  <2>1. CASE withdraw(t)
    BY <1>t, <2>1, AccessKeepsOthers DEF withdraw
  <2>2. CASE deposit(t)
    BY <1>t, <2>2, AccessKeepsOthers DEF deposit
  <2>3. CASE end_op(t)
    BY <1>t, <2>3, AccessKeepsOthers, DiscardEffect DEF end_op, unlock, Commit
  <2> QED
    BY <2>1, <2>2, <2>3
<1> QED
  BY <1>1, <1>2 DEF OthersGoOn

\* Between the call and the step that shows, the operation stays pending.
LEMMA QuietPending ==
    ASSUME TypeOK, IsolationInv, NEW t \in Threads, OthersGoOn(t),
           \/ load_balance(t) \/ deposit_load(t) \/ withdraw(t)
           \/ (xtest(t) /\ deposit(t))
           \/ Locking(t) \/ Recover(t) \/ Hardware(t)
    PROVE  Pending' = Pending
<1>t. /\ TsxTypeOK /\ pc \in [Threads -> Labels] /\ job \in [Threads -> Jobs]
      /\ tx[t] \in {"none", "active", "aborted"}
      /\ reg[t] + job[t].money \in Int
  BY JobType DEF TypeOK, TsxTypeOK
<1>1. CASE load_balance(t) \/ deposit_load(t) \/ withdraw(t)
  <2>1. /\ pc[t] \in {"section", "deposit_load", "withdraw"} /\ job' = job
        /\ pc'[t] \in {"withdraw", "deposit", "deposit_load", "unlock"}
        /\ pc'[t] = "unlock" => job[t].op # "transfer"
    BY <1>t, <1>1 DEF load_balance, deposit_load, withdraw, At, Goto
  <2> QED
    BY <2>1, PendingKept DEF NotYet, Done
<1>2. CASE xtest(t) /\ deposit(t)
  <2>1. pc[t] = "deposit" /\ pc'[t] = "unlock" /\ job' = job
    BY <1>t, <1>2 DEF deposit, At, Goto
  <2>2. tx'[t] # "none"
    BY <1>t, <1>2, JobType, AccessKeepsOthers DEF deposit, xtest
  <2> QED
    BY <2>1, <2>2, PendingKept DEF NotYet, Done
<1>3. CASE Locking(t)
  <2>1. /\ pc[t] \notin {"idle", "unlock"} /\ pc'[t] \notin {"idle", "unlock"}
        /\ job' = job
    BY <1>t, <1>3 DEF Locking, Acquiring, precheck, exchange, xacquire_exchange,
                      wait, xbegin, check, xabort, At, Goto
  <2> QED
    BY <2>1, PendingKept DEF NotYet, Done
<1>4. CASE Recover(t)
  <2>1. /\ tx[t] = "aborted" /\ job' = job
        /\ pc'[t] \in {"reacquire", "xbegin"}
    BY <1>t, <1>4 DEF Recover, rollback, Rollback, Goto
  <2>2. pc[t] # "idle"
    BY <2>1 DEF IsolationInv, NoTxLabels
  <2> QED
    BY <2>1, <2>2, PendingKept DEF NotYet, Done
<1>5. CASE Hardware(t)
  <2>1. PICK status \in {CONFLICT, NOBITS} : Abort({t}, status)
    BY <1>5 DEF Hardware, ProcessorAbort, HardwareAbort
  <2>2. tx[t] = "active" /\ UNCHANGED <<mem, rset, wset, wbuf, pc, job>>
    BY <1>5 DEF Hardware, ProcessorAbort, HardwareAbort, xtest
  <2>3. tx'[t] = "aborted"
    BY <1>t, <2>1, <2>2, SelfAbortEffect
  <2> QED
    BY <2>2, <2>3, PendingKept DEF NotYet, Done
<1> QED
  BY <1>1, <1>2, <1>3, <1>4, <1>5

\* The steps that change what is pending: the call, and the step that shows.
LEMMA ShowingStep ==
    ASSUME TypeOK, IsolationInv, DataInv, IsolationInv', NEW t \in Threads,
           start_op(t) \/ (~xtest(t) /\ deposit(t)) \/ end_op(t)
    PROVE  [Abstract!Next]_<<Balance, Pending>>
<1>t. /\ pc \in [Threads -> Labels] /\ job \in [Threads -> Jobs]
      /\ tx[t] \in {"none", "active", "aborted"}
  BY DEF TypeOK, TsxTypeOK
<1>1. CASE start_op(t)
  <2>1. /\ pc[t] = "idle" /\ pc'[t] \in {"precheck", "xbegin", "acquire"}
        /\ job'[t] \in Jobs
    BY <1>t, <1>1 DEF start_op, Call, At, Goto, FirstStep
  <2>2. QuietStep(t)
    BY <1>1, EndsQuiet
  <2>3. OthersGoOn(t) /\ Balance' = Balance
    BY <2>2, QuietBalance DEF QuietStep, OthersGoOn
  <2>4. Abstract!Call(t)
    BY <2>1, <2>3, PendingCall DEF NotYet, Done
  <2> QED
    BY <2>4 DEF Abstract!Next
<1>2. CASE ~xtest(t) /\ deposit(t)
  <2>1. pc[t] = "deposit" /\ pc'[t] = "unlock" /\ tx[t] = "none" /\ job' = job
    BY <1>t, <1>2 DEF deposit, At, Goto, xtest
  <2>2. InLocked(t) /\ Halfway(t)
    BY <2>1 DEF InLocked, Halfway, SectionLabels
  <2>3. job[t].op = "transfer"
    BY <1>t, <2>1 DEF DataInv, ThreadData, OwnLocals
  <2>4. tx'[t] = "none"
    BY <1>2, <2>1, JobType, StoreEffect, AccessKeepsOthers DEF deposit, xtest, TypeOK
  <2>5. OthersGoOn(t)
    BY <1>2, OthersOfStores
  <2>6. Abstract!Do(t)
    BY <1>t, <1>2, <2>1, <2>3, <2>4, <2>5, PendingDone, DepositLocked
       DEF NotYet, Done
  <2> QED
    BY <2>6 DEF Abstract!Next
<1>3. CASE end_op(t)
  <2>1. pc[t] = "unlock" /\ pc'[t] = "idle" /\ tx[t] # "aborted"
    BY <1>t, <1>3 DEF end_op, unlock, At, Goto
  <2>2. OthersGoOn(t)
    BY <1>3, OthersOfStores
  <2>3. CASE xtest(t)
    <3>1. Abstract!Do(t)
      BY <1>t, <1>3, <2>1, <2>2, <2>3, PendingDone, CommitTransfer
         DEF NotYet, Done, xtest
    <3> QED
      BY <3>1 DEF Abstract!Next
  <2>4. CASE ~xtest(t)
    <3>1. Balance' = Balance
      BY <1>3, <2>4, EndsQuiet, QuietBalance
    <3>2. CASE job[t].op = "transfer"
      BY <1>t, <2>1, <2>2, <2>4, <3>1, <3>2, PendingKept DEF NotYet, Done, xtest
    <3>3. CASE job[t].op # "transfer"
      <4>1. Abstract!Do(t)
        BY <1>t, <2>1, <2>2, <3>1, <3>3, PendingDone DEF NotYet, Done
      <4> QED
        BY <4>1 DEF Abstract!Next
    <3> QED
      BY <3>2, <3>3
  <2> QED
    BY <2>3, <2>4
<1> QED
  BY <1>1, <1>2, <1>3

\* A step of the bank is a step of AtomicBank, or does not show.
LEMMA BalanceStep ==
    ASSUME TypeOK, IsolationInv, DataInv, IsolationInv', [Next]_vars
    PROVE  [Abstract!Next]_<<Balance, Pending>>
<1>1. CASE UNCHANGED vars
  <2>1. /\ \A a \in Accounts : mem'[a] = mem[a]
        /\ \A u \in Threads : (Halfway(u)' <=> Halfway(u)) /\ job'[u] = job[u]
    BY <1>1 DEF vars, txVars, Halfway, InLocked
  <2>2. Pending' = Pending
    BY <1>1 DEF vars, txVars, Pending, Done
  <2> QED
    BY <2>1, <2>2, BalanceKept
<1>2. ASSUME NEW t \in Threads, start_op(t) \/ Work(t) \/ Hardware(t)
      PROVE  [Abstract!Next]_<<Balance, Pending>>
  <2>1. CASE \/ load_balance(t) \/ deposit_load(t)
             \/ xtest(t) /\ (withdraw(t) \/ deposit(t))
             \/ Locking(t) \/ Recover(t) \/ Hardware(t)
    <3>1. QuietStep(t)
      BY <2>1, SectionQuiet, LockingQuiet, EndsQuiet
    <3>2. OthersGoOn(t)
      BY <3>1 DEF QuietStep, OthersGoOn
    <3> QED
      BY <2>1, <3>1, <3>2, QuietBalance, QuietPending
  <2>2. CASE withdraw(t) /\ ~xtest(t)
    BY <2>2, WithdrawLocked, OthersOfStores, QuietPending
  <2>3. CASE start_op(t) \/ (~xtest(t) /\ deposit(t)) \/ end_op(t)
    BY <2>3, ShowingStep
  <2> QED
    BY <1>2, <2>1, <2>2, <2>3 DEF Work, Section
<1> QED
  BY <1>1, <1>2 DEF Next

(***************************************************************************)
(* Every transfer of hle/bank that a thread calls happens as a whole and   *)
(* once before the thread goes on, for any number of threads, accounts and *)
(* operations, whichever mix of lock functions that subscribe to the lock  *)
(* word the threads use.                                                   *)
(***************************************************************************)
THEOREM ImplementsAtomicBank ==
    ASSUME LockFuncs \subseteq Subscribing PROVE Spec => AtomicTransfers
<1>1. Init => Abstract!Init
  <2> SUFFICES ASSUME Init PROVE Abstract!Init
    OBVIOUS
  <2>1. \A t \in Threads : ~Halfway(t)
    BY DEF Init, LockInit, Halfway
  <2>2. \A a \in Accounts : mem[a] = Initial
    BY BankAssumption DEF Init, TsxInit
  <2>3. Balance = [a \in Accounts |-> Initial]
    BY <2>1, <2>2 DEF Balance
  <2>4. Pending = [t \in Threads |-> <<>>]
    BY DEF Init, LockInit, Pending
  <2> QED
    BY <2>3, <2>4 DEF Abstract!Init
<1>2. TypeOK /\ IsolationInv /\ DataInv /\ IsolationInv' /\ [Next]_vars
        => [Abstract!Next]_<<Balance, Pending>>
  BY BalanceStep
<1> QED
  BY <1>1, <1>2, TypeCorrect, IsolationInvariant, DataInvariant, PTL
     DEF Spec, AtomicTransfers, Abstract!Spec

(***************************************************************************)
(* getBalance returns what the account holds between two transfers, under  *)
(* the lock as well as in a transaction.                                   *)
(***************************************************************************)
THEOREM ReadsAreCommitted ==
    ASSUME LockFuncs \subseteq Subscribing PROVE Spec => []ReadsCommitted
<1>1. ASSUME TypeOK, IsolationInv, DataInv PROVE ReadsCommitted
  <2> SUFFICES ASSUME NEW t \in Threads, pc[t] = "unlock",
                      job[t].op = "read", tx[t] # "aborted"
               PROVE  reg[t] = Balance[job[t].a1]
    BY DEF ReadsCommitted
  <2>1. job[t].a1 \in Accounts /\ tx[t] \in {"none", "active", "aborted"}
    BY <1>1, JobType DEF TypeOK, TsxTypeOK
  <2>2. InLocked(t) \/ InTx(t)
    BY <2>1 DEF InLocked, InTx, SectionLabels, xtest
  <2>3. \A u \in Threads : ~Halfway(u)
    BY <1>1, <2>2 DEF IsolationInv, Halfway
  <2>4. reg[t] = mem[job[t].a1]
    BY <1>1, <2>2 DEF DataInv, ThreadData, TxData, LockedData
  <2> QED
    BY <1>1, <2>1, <2>3, <2>4, BalanceValue DEF BalanceShape
<1> QED
  BY <1>1, TypeCorrect, IsolationInvariant, DataInvariant, PTL

-----------------------------------------------------------------------------
(* The overall balance *)

\* A transfer keeps the sum, from an account to itself too.
LEMMA TransferKeepsSum ==
    ASSUME NEW b \in [Accounts -> Int], NEW e, NEW a1 \in Accounts,
           NEW a2 \in Accounts, NEW money \in Int,
           e = [[b EXCEPT ![a1] = @ - money] EXCEPT ![a2] = @ + money]
    PROVE  SumOver(e, Accounts) = SumOver(b, Accounts)
<1>f. IsFiniteSet(Accounts)
  BY BankAssumption
<1>1. PICK k : k = [b EXCEPT ![a1] = @ - money]
  OBVIOUS
<1>2. PICK d \in Int : d = 0 - money
  OBVIOUS
<1>3. \A x \in Accounts : b[x] \in Int /\ k[x] \in Int
  BY <1>1
<1>4. \A x \in Accounts : k[x] = IF x = a1 THEN b[x] + d ELSE b[x]
  BY <1>1, <1>2
<1>5. \A x \in Accounts : e[x] = IF x = a2 THEN k[x] + money ELSE k[x]
  BY <1>1, <1>3
<1>6. SumOver(k, Accounts) = SumOver(b, Accounts) + d
  BY ONLY <1>f, <1>3, <1>4, SumGrows, d \in Int, a1 \in Accounts
<1>7. SumOver(e, Accounts) = SumOver(k, Accounts) + money
  BY ONLY <1>f, <1>3, <1>5, SumGrows, money \in Int, a2 \in Accounts
<1>8. SumOver(b, Accounts) \in Int
  BY <1>f, <1>3, SumIsInt
<1> QED
  BY <1>2, <1>6, <1>7, <1>8

TotalInv == SumOver(Balance, Accounts) = Initial * Cardinality(Accounts)

LEMMA BalanceType ==
    ASSUME TypeOK PROVE Balance \in [Accounts -> Int]
<1>1. ASSUME NEW a \in Accounts PROVE Balance[a] \in Int
  <2>1. mem[a] \in Int
    BY BankAssumption DEF TypeOK, TsxTypeOK
  <2>2. \A t \in Threads : job[t].money \in Int
    BY BankAssumption DEF TypeOK, Jobs
  <2>3. CASE \E t \in Threads : Halfway(t) /\ job[t].a1 = a
    <3>1. PICK u : u = CHOOSE t \in Threads : Halfway(t)
      OBVIOUS
    <3>2. u \in Threads
      BY <2>3, <3>1
    <3>3. Balance[a] = mem[a] + job[u].money
      BY <2>3, <3>1 DEF Balance
    <3> QED
      BY <2>1, <2>2, <3>2, <3>3
  <2>4. CASE ~ \E t \in Threads : Halfway(t) /\ job[t].a1 = a
    BY <2>1, <2>4 DEF Balance
  <2> QED
    BY <2>3, <2>4
<1> QED
  BY <1>1 DEF Balance

LEMMA TotalStep ==
    ASSUME TypeOK, TotalInv, [Abstract!Next]_<<Balance, Pending>>
    PROVE  TotalInv'
<1>1. CASE Balance' = Balance
  BY <1>1 DEF TotalInv
<1>2. ASSUME NEW a1 \in Accounts, NEW a2 \in Accounts, NEW money \in Money,
             Balance' = Abstract!Moved(a1, a2, money)
      PROVE  TotalInv'
  <2>1. money \in Int
    BY BankAssumption
  <2>2. Balance' = [[Balance EXCEPT ![a1] = @ - money] EXCEPT ![a2] = @ + money]
    BY <1>2 DEF Abstract!Moved
  <2>3. PICK b \in [Accounts -> Int] : b = Balance
    BY BalanceType
  <2>e. PICK e : e = Balance'
    OBVIOUS
  <2>4. e = [[b EXCEPT ![a1] = @ - money] EXCEPT ![a2] = @ + money]
    BY <2>2, <2>3, <2>e
  <2>5. SumOver(e, Accounts) = SumOver(b, Accounts)
    BY <2>1, <2>4, TransferKeepsSum
  <2> QED
    BY <2>3, <2>e, <2>5 DEF TotalInv
<1> QED
  BY <1>1, <1>2 DEF Abstract!Next, Abstract!Call, Abstract!Do, Abstract!Jobs

(***************************************************************************)
(* checkResult of hle/bank: after the join the overall balance is what it  *)
(* was in the beginning, if all lock functions in use subscribe to the     *)
(* lock word.                                                              *)
(***************************************************************************)
THEOREM MoneyKept ==
    ASSUME LockFuncs \subseteq Subscribing PROVE Spec => []checkResult
<1>f. IsFiniteSet(Accounts) /\ Initial \in Int
  BY BankAssumption
<1>1. Init => TotalInv
  <2> SUFFICES ASSUME Init PROVE TotalInv
    OBVIOUS
  <2>1. \A t \in Threads : ~Halfway(t)
    BY DEF Init, LockInit, Halfway
  <2>2. \A a \in Accounts : Balance[a] = Initial
    BY <2>1, BankAssumption DEF Init, TsxInit, Balance
  <2> QED
    BY <1>f, <2>2, SumConstant DEF TotalInv
<1>2. TypeOK /\ IsolationInv /\ DataInv /\ IsolationInv' /\ TotalInv /\ [Next]_vars
        => TotalInv'
  BY BalanceStep, TotalStep
<1>3. TotalInv => checkResult
  <2> SUFFICES ASSUME TotalInv, \A t \in Threads : pc[t] = "idle"
               PROVE  MapThenSumSet(LAMBDA a : mem[a], Accounts)
                        = Initial * Cardinality(Accounts)
    BY DEF checkResult
  <2>1. \A t \in Threads : ~Halfway(t)
    BY DEF Halfway
  <2>2. \A a \in Accounts : Balance[a] = mem[a]
    BY <2>1 DEF Balance
  <2>3. SumOver(Balance, Accounts) = SumOver(mem, Accounts)
    BY <1>f, <2>2, SumSame
  <2> QED
    BY <2>3 DEF TotalInv, SumOver
<1> QED
  BY <1>1, <1>2, <1>3, TypeCorrect, IsolationInvariant, DataInvariant, PTL DEF Spec

=============================================================================
